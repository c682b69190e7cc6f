---------------------------- MODULE MCReporting ----------------------------
(***************************************************************************)
(* The calendar of 2014 and the terms of settings/schedule.py, with the    *)
(* hours at which the weeks change.  Day 0 is Monday, December 30, 2013.   *)
(***************************************************************************)
EXTENDS Reporting

\* From November 2013 to July 2015.
MCFirstOf ==
  [m \in -1..19 |-> <<-59, -29, 2, 33, 61, 92, 122, 153, 183, 214, 245, 275, 306, 336,
                      367, 398, 426, 457, 487, 518, 548>>[m + 2]]

\* Monday, February 3, May 19 and September 8; April 25, August 8, December 5.
MCTERMS     == <<35, 140, 252>>
MCTERM_ENDS == <<116, 221, 340>>

\* Three weeks of February and the first days of March, on Mondays, Wednesdays
\* and Thursdays, and the midnight at which two columns of the absenteeism form meet.
Weeks == {At(46, 0), At(38, 7), At(38, 8), At(42, 12), At(44, 12), At(44, 19), At(44, 20),
         At(45, 7), At(45, 8), At(51, 19), At(52, 9), At(63, 12)}

\* The weeks before, in and after the terms, and between them.
Year == {At(d, 12) : d \in {34, 35, 37, 38, 44, 45, 70, 114, 115, 119, 122, 139, 142, 143,
                            180, 219, 220, 223, 251, 255, 262, 331, 332, 339, 346}}

\* The form's days: within weeks, over the end of a month, and over many months.
Spans == {<<37, 52>>, <<40, 61>>, <<47, 63>>}
Long  == {<<38, 126>>, <<62, 170>>}

\* Pages and answers; a year of workers; comments.
MCWorkloads ==
  {[moments |-> Weeks, asked |-> Spans \cup Long, settings |-> {1}, answers |-> 1, comments |-> 0,
    events |-> {"weekly", "curriculum", "slider", "detail", "water", "system", "violence", "months"}],
   [moments |-> Year, asked |-> Long, settings |-> {1, 2, 3}, answers |-> 0, comments |-> 0,
    events |-> {"curriculum", "chosen", "start"}],
   [moments |-> Weeks, asked |-> Spans, settings |-> {1}, answers |-> 0, comments |-> 2,
    events |-> {"wk", "mo", "t", "start"}]}
=============================================================================
