--------------------------- MODULE ScriptProgress ---------------------------
(***************************************************************************)
(* The dialogue engine of rapidsms_script, for one script: the table       *)
(* script_scriptprogress, the open rows of script_scriptsession, the pass  *)
(* of the cron job check_script_progress over them, and the receivers of   *)
(* its signals.  What the web workers do meanwhile is in EducationApp.     *)
(*                                                                         *)
(* The cron job runs in one database transaction (READ COMMITTED): what it *)
(* has written since its last commit is in tx for the rows in held, which  *)
(* are locked; everybody else reads db.  Message.mass_text commits it.     *)
(*                                                                         *)
(* Time is the age of a row: now minus its "time" column, negative when    *)
(* the row is scheduled for later.  Every test of the code compares an age *)
(* with an offset, so an age saturates at MaxAge, above every offset.  The *)
(* clock moves between passes only: one tick stands for a time that is     *)
(* long against a pass.  A NULL offset is one above MaxAge; num_tries is   *)
(* compared with limits of at least 1 only, so NULL is 0 and the counter   *)
(* saturates at TopTries.                                                  *)
(***************************************************************************)
EXTENDS Integers, FiniteSets

CONSTANTS
  Conn,       \* connections (phone numbers)
  Last,       \* order of the script's last step; the orders are 0..Last
  Rule,       \* ScriptStep.rule of every step, by the letter it is stored as
  Poll,       \* whether the step asks a poll (else it is a plain message)
  Start,      \* start_offset, retry_offset, giveup_offset, num_tries
  Retry,
  Giveup,
  MaxTries,
  Land,       \* where the script_progress receivers leave a row that enters a step
  Recurring,  \* whether a completed run is scheduled again from the roster:
              \* every script but edtrac_autoreg
  Gap,        \* how far ahead the roster's next date is
  MaxAge,     \* ages saturate here
  TopTries,   \* num_tries saturates here
  MaxRuns,    \* bound: rows a connection gets, the dates left on the roster
  MaxFails    \* bound: passes ended by an exception

Steps     == 0 .. Last
Done      == Last + 1
Pk        == Conn \X (1 .. MaxRuns)
Timed     == {"w", "g"}
Tried     == {"R", "r", "S", "M"}
GivingUp  == {"g", "r", "S"}
Rules     == Timed \cup Tried \cup {"l", "s"}

ASSUME ConstantsAssumption ==
  /\ Last \in Nat
  /\ Rule \in [Steps -> Rules]
  /\ Poll \in [Steps -> BOOLEAN]
  /\ Start \in [Steps -> Nat] /\ Retry \in [Steps -> Nat] /\ Giveup \in [Steps -> Nat]
  /\ TopTries \in Nat
  /\ MaxTries \in [Steps -> 1 .. TopTries]
  /\ Land \in [Conn -> [Steps -> 0 .. Done]]
  /\ \A c \in Conn, k \in Steps : Land[c][k] >= k
  /\ Recurring \in BOOLEAN
  /\ Gap \in Nat /\ MaxAge \in Nat
  /\ MaxRuns \in Nat \ {0} /\ MaxFails \in Nat

VARIABLES
  db,        \* committed ScriptProgress rows, by primary key
  tx,        \* the cron transaction's version of the rows it holds
  held,      \* rows the cron transaction has written since its last commit
  open,      \* committed number of open ScriptSessions of a connection
  txopen,    \* the same, as the cron transaction sees it
  sent,      \* messages queued for a run, by the step whose text they carry
  runs,      \* rows a connection has been given; a sequence is not rolled back
  blacklist, \* connections that have quit
  pc, at,    \* where the pass is: the phase, and the step of the loop
  list,      \* the rows check_progress has read, to send them their text
  todo,      \* the rows giveup has read and not closed the session of yet
  moved,     \* rows the pass has moved and no worker has written since
  due,       \* the cron's minute has come and no pass has begun
  fails

table    == <<db, tx, held, open, txopen, sent, runs>>
cron     == <<table, pc, at, list, todo, moved, due, fails>>

Row    == [step : -1 .. Last, status : {"new", "P", "C", "gone"},
           tries : 0 .. TopTries, age : -Gap .. MaxAge]
NoRow  == [step |-> -1, status |-> "gone", tries |-> 0, age |-> 0]
Fresh(age) == [step |-> -1, status |-> "new", tries |-> 0, age |-> age]

\* The rows of script_progress as the cron transaction sees them.
View   == [p \in Pk |-> IF p \in held THEN tx[p] ELSE db[p]]
Exists(p) == View[p].status # "gone"
RowsOf(c) == {p \in Pk : p[1] = c}

\* (Mutants, marked "Bug", are plausible slips in the definition they precede;
\* each breaks a property that the definition itself satisfies.)
\* Bug: the resend puts the row back in progress.
BugBump(row) == [row EXCEPT !.tries = IF @ < TopTries THEN @ + 1 ELSE @,
                            !.status = "P", !.age = 0]
Bump(row) == [row EXCEPT !.tries = IF @ < TopTries THEN @ + 1 ELSE @, !.age = 0]

-----------------------------------------------------------------------------
(***************************************************************************)
(* The querysets of managers.py.                                           *)
(***************************************************************************)

\* Bug: WAIT_MOVEON is left out of the rules that need no tries.
BugTriesSpent(row) ==
  \/ Rule[row.step] = "g"
  \/ Rule[row.step] \in Tried /\ row.tries >= MaxTries[row.step]

\* The tries of a RESEND or STRICT step are used up; a WAIT step has none.
TriesSpent(row) ==
  \/ Rule[row.step] \in Timed
  \/ Rule[row.step] \in Tried /\ row.tries >= MaxTries[row.step]

expired(k) ==
  {p \in Pk : /\ View[p].step = k /\ View[p].status = "P"
              /\ View[p].age >= Giveup[k]
              /\ TriesSpent(View[p])}

\* Bug: one resend too many.
BugResend(k) ==
  {p \in Pk : /\ Exists(p) /\ View[p].step = k
              /\ Rule[k] \in Tried
              /\ View[p].age >= Retry[k]
              /\ View[p].tries <= MaxTries[k]}

need_to_resend(k) ==
  {p \in Pk : /\ Exists(p) /\ View[p].step = k
              /\ Rule[k] \in Tried
              /\ View[p].age >= Retry[k]
              /\ View[p].tries < MaxTries[k]}

\* Bug: rows of every step are moved.
BugAnyStep(k) ==
  {p \in Pk : /\ View[p].status = "C"
              /\ k < Last => View[p].age >= Start[k + 1]}

need_to_transition(k) ==
  {p \in Pk : /\ View[p].step = k /\ View[p].status = "C"
              /\ k < Last => View[p].age >= Start[k + 1]}

\* Bug: a row whose minute was missed does not start.
BugStart ==
  {p \in Pk : Exists(p) /\ View[p].step = -1 /\ View[p].age = Start[0]}

need_to_start ==
  {p \in Pk : Exists(p) /\ View[p].step = -1 /\ View[p].age >= Start[0]}

-----------------------------------------------------------------------------
(***************************************************************************)
(* Writing within the cron transaction, and committing it.                 *)
(***************************************************************************)

\* Bug: the row is deleted and not created again.
BugRescheduled(new, F) ==
  [p \in Pk |-> IF p[1] \notin F \/ ~Recurring THEN new[p] ELSE NoRow]

\* schedule_at, called by the receiver of script_progress_was_completed: the
\* connections of F lose their rows and get one at the roster's next date.
Rescheduled(new, F) ==
  [p \in Pk |->
     IF p[1] \notin F \/ ~Recurring THEN new[p]
     ELSE IF p[2] = runs[p[1]] + 1 /\ p[1] \notin blacklist
          THEN Fresh(-Gap) ELSE NoRow]

RunsAfter(F) ==
  [c \in Conn |-> IF c \in F \ blacklist /\ Recurring /\ runs[c] < MaxRuns
                  THEN runs[c] + 1 ELSE runs[c]]

Touched(F) == IF Recurring THEN {p \in Pk : p[1] \in F /\ p[2] <= RunsAfter(F)[p[1]]} ELSE {}

\* The rows of S are written, sessions closed or created, F rescheduled.
Write(S, new, sessions, F) ==
  /\ held' = held \cup S
  /\ tx' = [p \in Pk |-> IF p \in held \cup S THEN new[p] ELSE NoRow]
  /\ txopen' = sessions
  /\ runs' = RunsAfter(F)
  /\ UNCHANGED <<db, open>>

Commit(new, sessions, F) ==
  /\ db' = new
  /\ open' = sessions /\ txopen' = sessions
  /\ runs' = RunsAfter(F)
  /\ held' = {} /\ tx' = [p \in Pk |-> NoRow]

\* Bug: the text goes to the list as it was read.
BugMassText(new, S, sessions, F) ==
  IF list = {}
  THEN Write(S, new, sessions, F) /\ UNCHANGED sent
  ELSE \E first \in list :
         LET k == IF new[first].step \in Steps THEN new[first].step ELSE at IN
         /\ sent' = [p \in Pk |-> IF p \in list
                                  THEN [sent[p] EXCEPT ![k] = @ + 1] ELSE sent[p]]
         /\ Commit(new, sessions, F)

\* mass_text: the rows of the list that still exist are all sent the text of
\* the step of the first of them, in the order the database returns them, and
\* the messages are committed with everything before.  Without rows, nothing.
mass_text(new, S, sessions, F) ==
  LET recipients == {p \in list : new[p].status # "gone"} IN
  IF recipients = {}
  THEN Write(S, new, sessions, F) /\ UNCHANGED sent
  ELSE \E first \in recipients :
         LET k == new[first].step IN
         /\ k \in Steps
         /\ sent' = [p \in Pk |-> IF p \in recipients
                                  THEN [sent[p] EXCEPT ![k] = @ + 1] ELSE sent[p]]
         /\ Commit(new, sessions, F)

-----------------------------------------------------------------------------
(***************************************************************************)
(* The cron job: one pass of check_progress, steps in descending order.    *)
(***************************************************************************)

Goto(phase) == pc' = phase /\ at' = at

NextStep == IF at > 0 THEN pc' = "expire" /\ at' = at - 1
                      ELSE pc' = "start" /\ at' = at

BeginPass ==
  /\ pc = "idle" /\ due
  /\ pc' = "expire" /\ at' = Last
  /\ due' = FALSE
  /\ UNCHANGED <<table, list, todo, moved, fails>>

\* expire, for a rule that moves on: the expired rows become complete.
ExpireMoveOn ==
  /\ pc = "expire" /\ Rule[at] \notin GivingUp
  /\ LET S == expired(at) IN
     Write(S, [p \in Pk |-> IF p \in S THEN [View[p] EXCEPT !.status = "C", !.age = 0]
                                       ELSE View[p]], txopen, {})
  /\ Goto("resend")
  /\ UNCHANGED <<list, todo, moved, due, sent, fails>>

\* expire, for a rule that gives up: the rows to give up are read.
ExpireGiveUp ==
  /\ pc = "expire" /\ Rule[at] \in GivingUp
  /\ todo' = expired(at)
  /\ Goto("expired")
  /\ UNCHANGED <<table, list, moved, due, fails>>

\* giveup, the loop: the latest open session of each row read is closed and
\* the completed signal sent; without a session the exception is swallowed.
\* So is one of a receiver: edtrac_autoreg's changes nothing here, with nothing
\* to schedule; edtrac_reschedule_script has only the database to raise, which
\* then refuses the pass's next statement (FailPass).
GiveUpOne(p) ==
  /\ pc \in {"expired", "ending"} /\ p \in todo
  /\ LET c == p[1]
         F == IF txopen[c] > 0 THEN {c} ELSE {}
     IN Write(Touched(F), Rescheduled(View, F),
              [txopen EXCEPT ![c] = IF @ > 0 THEN @ - 1 ELSE @], F)
  /\ todo' = todo \ {p}
  /\ Goto(pc)
  /\ UNCHANGED <<list, moved, due, sent, fails>>

\* giveup, the end: delete() runs the query again and deletes what it finds.
DeleteExpired ==
  /\ pc = "expired" /\ todo = {}
  /\ LET S == expired(at) IN
     Write(S, [p \in Pk |-> IF p \in S THEN NoRow ELSE View[p]], txopen, {})
  /\ Goto("resend")
  /\ UNCHANGED <<list, todo, moved, due, sent, fails>>

SelectResend ==
  /\ pc = "resend"
  /\ list' = need_to_resend(at)
  /\ Goto(IF list' = {} THEN "transition" ELSE "resending")
  /\ UNCHANGED <<table, todo, moved, due, fails>>

\* The update runs the query again; the text goes to the rows of the list.
Resend ==
  /\ pc = "resending"
  /\ LET S == need_to_resend(at) IN
     mass_text([p \in Pk |-> IF p \in S THEN Bump(View[p]) ELSE View[p]], S, txopen, {})
  /\ list' = {} /\ Goto("transition")
  /\ UNCHANGED <<todo, moved, due, fails>>

\* The list comes before the exists() that decides on moveon, which without a
\* next step is giveup and reads its rows again.
SelectTransition ==
  /\ pc = "transition"
  /\ list' = need_to_transition(at)
  /\ Goto(IF at = Last THEN "last" ELSE "moving")
  /\ UNCHANGED <<table, todo, moved, due, fails>>

SelectEnding ==
  /\ pc = "last"
  /\ todo' = need_to_transition(at)
  /\ IF todo' = {} THEN NextStep /\ list' = {}
                   ELSE Goto("ending") /\ list' = list
  /\ UNCHANGED <<table, moved, due, fails>>

\* What check_progress does with the rows of the list after moveon: those
\* still there are counted a try and sent a text.
Counted(new) ==
  [p \in Pk |-> IF p \in list /\ new[p].status # "gone" THEN Bump(new[p]) ELSE new[p]]

DeleteEnded ==
  /\ pc = "ending" /\ todo = {}
  /\ LET S == need_to_transition(at)
         new == [p \in Pk |-> IF p \in S THEN NoRow ELSE View[p]]
     IN mass_text(Counted(new), S \cup {p \in list : Exists(p)}, txopen, {})
  /\ list' = {} /\ NextStep
  /\ UNCHANGED <<todo, moved, due, fails>>

\* moveon to step k and the mass_text after it.  The update runs the query
\* again (S); the receivers of script_progress may skip steps, or give the
\* run up (F) and so let it be scheduled again.
MoveOn(S, k) ==
  LET Landing(p) == IF txopen[p[1]] > 0 THEN Land[p[1]][k] ELSE k
      F == {p[1] : p \in {q \in S : Landing(q) = Done}}
      stepped == [p \in Pk |->
                    IF p \notin S THEN View[p]
                    ELSE IF Landing(p) = Done THEN NoRow
                    ELSE [View[p] EXCEPT !.step = Landing(p), !.status = "P", !.age = 0]]
  IN /\ mass_text(Counted(Rescheduled(stepped, F)),
                  S \cup {p \in list : Exists(p)} \cup Touched(F),
                  [c \in Conn |-> IF c \in F THEN txopen[c] - 1 ELSE txopen[c]], F)
     /\ moved' = moved \cup S
     /\ list' = {}

\* Bug: the step just entered is looked at next, to short-circuit it.
BugTransition ==
  /\ pc = "moving"
  /\ LET S == need_to_transition(at) IN
     IF S = {} THEN list' = {} /\ UNCHANGED <<table, moved>> /\ NextStep
               ELSE MoveOn(S, at + 1) /\ pc' = "expire" /\ at' = at + 1
  /\ UNCHANGED <<todo, due, fails>>

Transition ==
  /\ pc = "moving"
  /\ LET S == need_to_transition(at) IN
     IF S = {} THEN list' = {} /\ UNCHANGED <<table, moved>> ELSE MoveOn(S, at + 1)
  /\ NextStep
  /\ UNCHANGED <<todo, due, fails>>

\* Bug: the sessions come after the receivers have looked for them.
BugSelectStart ==
  /\ pc = "start"
  /\ list' = need_to_start
  /\ Goto(IF list' = {} THEN "commit" ELSE "starting")
  /\ UNCHANGED <<table, todo, moved, due, fails>>

\* The loop is over: the rows to start are read, a session created for each.
SelectStart ==
  /\ pc = "start"
  /\ list' = need_to_start
  /\ txopen' = [c \in Conn |-> txopen[c] + Cardinality(RowsOf(c) \cap list')]
  /\ Goto(IF list' = {} THEN "commit" ELSE "starting")
  /\ UNCHANGED <<db, tx, held, open, sent, runs, todo, moved, due, fails>>

StartRuns ==
  /\ pc = "starting"
  /\ MoveOn(need_to_start, 0)
  /\ Goto("commit")
  /\ UNCHANGED <<todo, due, fails>>

EndPass ==
  /\ pc = "commit"
  /\ Commit(View, txopen, {})
  /\ moved' = {} /\ Goto("idle")
  /\ UNCHANGED <<list, todo, due, sent, fails>>

\* Bug: the rows are not rolled back.
BugNoRollback ==
  /\ pc # "idle" /\ fails < MaxFails
  /\ fails' = fails + 1
  /\ list' = {} /\ todo' = {} /\ moved' = {} /\ Goto("idle")
  /\ UNCHANGED <<table, due>>

\* Bug: the sessions are not rolled back.
BugSessionsKept ==
  /\ pc # "idle" /\ fails < MaxFails
  /\ fails' = fails + 1
  /\ held' = {} /\ tx' = [p \in Pk |-> NoRow] /\ open' = txopen
  /\ list' = {} /\ todo' = {} /\ moved' = {} /\ Goto("idle")
  /\ UNCHANGED <<db, txopen, sent, runs, due>>

\* An exception in the pass, from a receiver or the database, or the death of
\* the process: what was not committed is rolled back.
FailPass ==
  /\ pc # "idle" /\ fails < MaxFails
  /\ fails' = fails + 1
  /\ held' = {} /\ tx' = [p \in Pk |-> NoRow] /\ txopen' = open
  /\ list' = {} /\ todo' = {} /\ moved' = {} /\ Goto("idle")
  /\ UNCHANGED <<db, open, sent, runs, due>>

Pass ==
  \/ ExpireMoveOn \/ ExpireGiveUp
  \/ \E p \in Pk : GiveUpOne(p)
  \/ DeleteExpired
  \/ SelectResend \/ Resend
  \/ SelectTransition \/ Transition \/ SelectEnding \/ DeleteEnded
  \/ SelectStart \/ StartRuns \/ EndPass

-----------------------------------------------------------------------------
Phases == {"idle", "expire", "expired", "resend", "resending", "transition",
           "moving", "last", "ending", "start", "starting", "commit"}

TableOK ==
  /\ db \in [Pk -> Row] /\ tx \in [Pk -> Row] /\ held \subseteq Pk
  /\ open \in [Conn -> Nat] /\ txopen \in [Conn -> Nat]
  /\ sent \in [Pk -> [Steps -> Nat]]
  /\ runs \in [Conn -> 1 .. MaxRuns]

CronOK ==
  /\ pc \in Phases /\ at \in Steps
  /\ list \subseteq Pk /\ todo \subseteq Pk /\ moved \subseteq Pk
  /\ due \in BOOLEAN /\ fails \in 0 .. MaxFails
  /\ pc = "idle" => held = {} /\ txopen = open
  /\ pc = "moving" => at # Last
=============================================================================
