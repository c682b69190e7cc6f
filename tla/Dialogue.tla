------------------------------ MODULE Dialogue ------------------------------
(***************************************************************************)
(* What the dialogue engine promises of a connection that never answers,   *)
(* whatever querysets, transactions, sessions and passes there are: it is  *)
(* in one run at a time, goes through its steps in order, leaves the run   *)
(* only at its last step or where a rule or a receiver gives it up, and    *)
(* the next run is on the roster from that moment on.  It gets one text at *)
(* a time, and only in the run it is in.                                   *)
(***************************************************************************)
EXTENDS Integers

CONSTANTS
  Conn,
  Last,      \* order of the last step
  Leave,     \* steps whose rule gives the run up
  Land,      \* where a row that enters a step lands; Last + 1: given up
  MaxRuns    \* bound: the numbers of runs

VARIABLES
  given,     \* numbers given to runs, those of a run that was lost included
  place,     \* the run and the step a connection is at; step -1: not started
  texts      \* texts it was sent in a run, by the question

vars == <<given, place, texts>>

Init ==
  /\ given = [c \in Conn |-> 1]
  /\ place = [c \in Conn |-> {<<1, -1>>}]
  /\ texts = [c \in Conn |-> [n \in 1 .. MaxRuns |-> [k \in 0 .. Last |-> 0]]]

Stay(c) == place'[c] = place[c]

Advance(c) ==
  \E p \in place[c] :
    /\ p[2] < Last /\ Land[c][p[2] + 1] <= Last
    /\ place'[c] = {<<p[1], Land[c][p[2] + 1]>>}

Leaves(c, k) == k = Last \/ k \in Leave \/ Land[c][k + 1] = Last + 1

\* The run is over; the next one takes its place while there are numbers.
Finish(c) ==
  \E p \in place[c] :
    /\ Leaves(c, p[2])
    /\ \/ \E n \in p[1] + 1 .. MaxRuns : place'[c] = {<<n, -1>>}
       \/ given[c] = MaxRuns /\ place'[c] = {}

Text(c) ==
  \E p \in place[c], q \in place'[c], k \in 0 .. Last :
    /\ p[1] = q[1] /\ q[2] >= 0
    /\ texts'[c] = [texts[c] EXCEPT ![p[1]][k] = @ + 1]

Next ==
  /\ \A c \in Conn : /\ Stay(c) \/ Advance(c) \/ Finish(c)
                     /\ texts'[c] = texts[c] \/ Text(c)
                     /\ given'[c] \in given[c] .. MaxRuns
  /\ DOMAIN given' = Conn /\ DOMAIN place' = Conn /\ DOMAIN texts' = Conn

Spec == Init /\ [][Next]_vars
=============================================================================
