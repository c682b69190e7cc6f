--------------------------- MODULE MCEducationApp ---------------------------
(***************************************************************************)
(* Small scripts for TLC, of two steps.                                    *)
(***************************************************************************)
EXTENDS EducationApp

CONSTANTS c1, c2

Both(v)       == [k \in 0 .. 1 |-> v]
First(u, v)   == [k \in 0 .. 1 |-> IF k = 0 THEN u ELSE v]

Polls         == Both(TRUE)
Zeros         == Both(0)
Ones          == Both(1)
Twos          == Both(2)
OneTwo        == First(1, 2)
OneZero       == First(1, 0)

ResendResend  == Both("R")
WaitWait      == Both("w")
StrictGiveup  == First("M", "r")
StrictWait    == First("M", "w")
WaitStrict    == First("w", "S")

\* A script without a receiver that skips, and weekly scripts whose first or
\* second question is for P3 teachers only, asked of one in P6 and one in P3.
StayPut       == [c \in Conn |-> [k \in 0 .. 1 |-> k]]

Weekly(question) ==
  LET Of(c) == INSTANCE Receivers WITH
                 Question <- question,
                 Member <- [grade |-> IF c = c1 THEN "P6" ELSE "P3", group |-> "Teachers"]
  IN [c \in Conn |-> Of(c)!edtrac_attendance_script_transition]

SkipFirst     == Weekly(First("edtrac_boysp3_attendance", "edtrac_classsize"))
SkipLast      == Weekly(First("edtrac_classsize", "edtrac_girlsp3_attendance"))
=============================================================================
