------------------------------ MODULE Receivers -----------------------------
(***************************************************************************)
(* The receivers of script_progress (education/models/utils.py), which     *)
(* skip the questions that are not for a teacher's grade or a reporter's   *)
(* role: where a row that enters a step is left.                           *)
(***************************************************************************)
EXTENDS Integers

CONSTANTS
  Last,      \* order of the script's last step
  Question,  \* the poll of a step, by name; "" without one
  Member     \* of the reporter asked: grade ("" if unknown) and group

Steps == 0 .. Last

\* Whom the questions of the weekly scripts are for, by grade.
Grades ==
  [edtrac_boysp3_attendance |-> {"P3"}, edtrac_boysp6_attendance |-> {"P6"},
   edtrac_girlsp3_attendance |-> {"P3"}, edtrac_girlsp6_attendance |-> {"P6"},
   edtrac_p3curriculum_progress |-> {"P3"}]

\* Whom the questions of edtrac_autoreg are for, by group.
Roles ==
  [edtrac_class |-> {"Teachers"}, edtrac_gender |-> {"Head Teachers"},
   edtrac_subcounty |-> {"Teachers", "Head Teachers", "SMC", "GEM"},
   edtrac_school |-> {"Teachers", "Head Teachers", "SMC"}]

Meant(audience, who, k) == Question[k] \in DOMAIN audience => who \in audience[Question[k]]

\* Where the loop that skips from k on ends: Last + 1 is beyond the last step.
Landing(audience, who, k) ==
  LET ends == {j \in k .. Last : Meant(audience, who, j)}
  IN IF ends = {} THEN Last + 1 ELSE CHOOSE j \in ends : \A i \in ends : j <= i

\* Beyond the last step the run is given up.  Without a grade the row moves on
\* by one step, whatever its question.
edtrac_attendance_script_transition ==
  [k \in Steps |-> IF Member.grade = "" THEN k + 1 ELSE Landing(Grades, Member.grade, k)]

\* Beyond the last step this one raises; without a group it does nothing.
edtrac_autoreg_transition ==
  [k \in Steps |-> IF Member.group = "" THEN k ELSE Landing(Roles, Member.group, k)]
=============================================================================
