---------------------------- MODULE EducationApp ----------------------------
(***************************************************************************)
(* The system around the dialogue engine: the uwsgi workers that handle    *)
(* incoming messages (the education app, which calls incoming_progress)    *)
(* and the requests that schedule a connection, all against the table the  *)
(* cron pass of ScriptProgress is working on.                              *)
(*                                                                         *)
(* A worker holds a copy of the row it read, and save() writes every       *)
(* column of the copy.  The education app's copy and that of               *)
(* incoming_progress are read at one moment here.                          *)
(***************************************************************************)
EXTENDS ScriptProgress

CONSTANTS
  Staffed,    \* connections that a request may reschedule in this instance
  MaxLife,    \* ticks a worker lives before uwsgi's harakiri
  MaxMsgs     \* bound: messages the workers act on

ASSUME WorkersAssumption ==
  Staffed \subseteq Conn /\ MaxLife \in Nat /\ MaxMsgs \in Nat

VARIABLES
  inflight,  \* answers a worker has read a row for and not saved yet
  erred,     \* connections with a response that has errors
  requests,  \* deletions of a connection's rows under way: the rows collected
  msgs

workers  == <<inflight, erred, requests, blacklist, msgs>>
vars     == <<cron, workers>>

Answer  == [id : 1 .. MaxMsgs, pk : Pk, row : Row, bad : BOOLEAN,
            logged : BOOLEAN, session : Nat, life : 0 .. MaxLife]
Request == [kind : {"quit", "schedule_at"}, conn : Conn, rows : SUBSET Pk]

Present(c) == {p \in RowsOf(c) : db[p].status # "gone"}

-----------------------------------------------------------------------------
(***************************************************************************)
(* Answers.                                                                *)
(***************************************************************************)

\* The row with the latest time among those whose time has come.
IsLatest(p) ==
  /\ p \in Present(p[1]) /\ db[p].age >= 0
  /\ \A q \in Present(p[1]) : db[q].age >= 0 => db[p].age <= db[q].age

\* The method of one row; without a giveup_offset it raises, and the message
\* comes to nothing as if the row had expired.
Expired(row) ==
  /\ TriesSpent(row)
  /\ row.age >= Giveup[row.step] \/ Giveup[row.step] > MaxAge

accepts_incoming(row) ==
  /\ row.step \in Steps /\ row.status = "P"
  /\ Poll[row.step]
  /\ ~Expired(row)

Read(p, bad, logged) ==
  /\ msgs < MaxMsgs /\ p[1] \notin blacklist
  /\ IsLatest(p)
  /\ msgs' = msgs + 1
  /\ inflight' = inflight \cup
       {[id |-> msgs + 1, pk |-> p, row |-> db[p], bad |-> bad,
         logged |-> logged, session |-> 0, life |-> 0]}
  /\ UNCHANGED <<cron, erred, requests, blacklist>>

ReadProgress(p, bad) ==
  /\ accepts_incoming(db[p])
  /\ Read(p, bad, FALSE)

\* A message that is not accepted changes nothing, unless its text is that of
\* an earlier response with errors, which handle takes for this message's.
\* (Of rows that have not started the save is left out.)
RepeatError(p) ==
  /\ Recurring /\ p[1] \in erred
  /\ db[p].step \in Steps /\ ~accepts_incoming(db[p])
  /\ ~(db[p].step = Last /\ db[p].status = "C")
  /\ Read(p, TRUE, TRUE)

\* log: the response is recorded in the latest open session, those of a
\* connection being numbered as they were opened; without one it raises, and
\* the handler ends there.
LogResponse(w) ==
  /\ w \in inflight /\ ~w.logged
  /\ IF open[w.pk[1]] > 0
     THEN inflight' = (inflight \ {w}) \cup {[w EXCEPT !.logged = TRUE, !.session = open[w.pk[1]]]}
          /\ erred' = erred
     ELSE /\ inflight' = inflight \ {w}
          /\ erred' = IF w.bad THEN erred \cup {w.pk[1]} ELSE erred
  /\ UNCHANGED <<cron, requests, blacklist, msgs>>

\* What is saved.  An error puts the education app's copy back in progress,
\* whatever incoming_progress has just saved; in edtrac_autoreg it counts as
\* a try on a STRICT step with a limit, and saves nothing on a STRICT step.
Ignored(w) == w.bad /\ ~Recurring /\ Rule[w.row.step] = "s"
Saved(w) ==
  IF w.bad /\ Recurring THEN [w.row EXCEPT !.status = "P"]
  ELSE IF w.bad /\ Rule[w.row.step] \in {"M", "S"}
  THEN [w.row EXCEPT !.tries = IF @ < TopTries THEN @ + 1 ELSE @]
  ELSE [w.row EXCEPT !.status = "C"]

\* save() writes every column of the copy: an UPDATE, which waits for the lock;
\* an INSERT if it does not find the row; nothing if the row goes in between.
\* The answer, its response and what it saves are committed together.
SaveProgress(w) ==
  /\ w \in inflight /\ w.logged
  /\ inflight' = inflight \ {w}
  /\ erred' = IF w.bad THEN erred \cup {w.pk[1]} ELSE erred
  /\ IF Ignored(w)
     THEN UNCHANGED <<db, moved>>
     ELSE /\ w.pk \notin held
          /\ \/ /\ db' = [db EXCEPT ![w.pk] = Saved(w)]
                /\ moved' = moved \ {w.pk}
             \/ /\ db[w.pk].status = "gone"
                /\ UNCHANGED <<db, moved>>
  /\ UNCHANGED <<tx, held, open, txopen, sent, runs, pc, at, list, todo, due, fails,
                 requests, blacklist, msgs>>

\* uwsgi kills the worker, or an exception ends the handler.
LoseAnswer(w) ==
  /\ w \in inflight
  /\ inflight' = inflight \ {w}
  /\ UNCHANGED <<cron, erred, requests, blacklist, msgs>>

-----------------------------------------------------------------------------
(***************************************************************************)
(* Requests that delete the rows of a connection: a quit message, and      *)
(* schedule_at.  delete() reads the rows and then deletes those it has     *)
(* read, waiting for the locks on them.                                    *)
(***************************************************************************)

\* One request is under way at a time.
Collect(kind, c) ==
  /\ requests = {}
  /\ requests' = {[kind |-> kind, conn |-> c, rows |-> Present(c)]}

\* A connection still registering may not quit.
ReadQuit(c) ==
  /\ msgs < MaxMsgs /\ c \notin blacklist
  /\ Recurring \/ Present(c) = {}
  /\ Collect("quit", c)
  /\ msgs' = msgs + 1
  /\ UNCHANGED <<cron, inflight, erred, blacklist>>

\* Answers recorded in a session that goes: their commit fails on its key.
InSessionOf(c) == {w \in inflight : w.pk[1] = c /\ w.session \in 1 .. open[c]}

\* The connection is blacklisted, its rows and its open sessions deleted.
\* Sessions that the pass has closed are locked, those it has created unseen.
\* (No run begins while an answer is at work that has seen the last one end.)
Quit(r) ==
  /\ r \in requests /\ r.kind = "quit"
  /\ r.rows \cap held = {}
  /\ txopen[r.conn] >= open[r.conn]
  /\ blacklist' = blacklist \cup {r.conn}
  /\ db' = [p \in Pk |-> IF p \in r.rows THEN NoRow ELSE db[p]]
  /\ open' = [open EXCEPT ![r.conn] = 0]
  /\ txopen' = [txopen EXCEPT ![r.conn] = @ - open[r.conn]]
  /\ requests' = requests \ {r}
  /\ inflight' = inflight \ InSessionOf(r.conn)
  /\ UNCHANGED <<tx, held, sent, runs, pc, at, list, todo, moved, due, fails,
                 erred, msgs>>

\* A new row of the connection, under a key not used before.
Create(c, row) ==
  /\ runs[c] < MaxRuns
  /\ db' = [db EXCEPT ![<<c, runs[c] + 1>>] = row]
  /\ runs' = [runs EXCEPT ![c] = @ + 1]

\* Joining again takes the connection off the blacklist and registers it: in
\* edtrac_autoreg it gets a row if it has none; the other scripts are scheduled
\* when the registration is over.
Join(c) ==
  /\ c \in blacklist /\ msgs < MaxMsgs
  /\ blacklist' = blacklist \ {c}
  /\ IF Recurring \/ Present(c) # {} THEN UNCHANGED <<db, runs>> ELSE Create(c, Fresh(0))
  /\ msgs' = msgs + 1
  /\ UNCHANGED <<tx, held, open, txopen, sent, pc, at, list, todo, moved, due, fails,
                 inflight, erred, requests>>

ReadSchedule(c) ==
  /\ c \in Staffed /\ runs[c] < MaxRuns
  /\ Collect("schedule_at", c)
  /\ UNCHANGED <<cron, inflight, erred, blacklist, msgs>>

\* schedule_at from a web request or the end of a registration: the rows are
\* deleted, their sessions left alone, and a row created, due now or later.
schedule_at(r, age) ==
  /\ r \in requests /\ r.kind = "schedule_at"
  /\ r.rows \cap held = {}
  /\ LET c == r.conn
         created == IF c \notin blacklist /\ runs[c] < MaxRuns THEN {<<c, runs[c] + 1>>} ELSE {}
     IN /\ db' = [p \in Pk |-> IF p \in created THEN Fresh(age)
                               ELSE IF p \in r.rows THEN NoRow ELSE db[p]]
        /\ runs' = [runs EXCEPT ![c] = @ + Cardinality(created)]
  /\ requests' = requests \ {r}
  /\ UNCHANGED <<tx, held, open, txopen, sent, pc, at, list, todo, moved, due, fails,
                 inflight, erred, blacklist, msgs>>

-----------------------------------------------------------------------------
Older(row) ==
  IF row.status = "gone" \/ row.age = MaxAge THEN row ELSE [row EXCEPT !.age = @ + 1]

\* A unit of time passes between two passes; workers outlive MaxLife never, and
\* requests do not last a unit.
Tick ==
  /\ pc = "idle"
  /\ requests = {}
  /\ \A w \in inflight : w.life < MaxLife
  /\ db' = [p \in Pk |-> Older(db[p])]
  /\ inflight' = {[w EXCEPT !.row = Older(w.row), !.life = @ + 1] : w \in inflight}
  /\ due' = TRUE
  /\ UNCHANGED <<tx, held, open, txopen, sent, runs, pc, at, list, todo, moved, fails,
                 erred, requests, blacklist, msgs>>

Init ==
  /\ db \in {[p \in Pk |-> IF p[2] = 1 THEN Fresh(age[p[1]]) ELSE NoRow] :
               age \in [Conn -> {-Gap, 0}]}
  /\ tx = [p \in Pk |-> NoRow] /\ held = {}
  /\ open = [c \in Conn |-> 0] /\ txopen = [c \in Conn |-> 0]
  /\ sent = [p \in Pk |-> [k \in Steps |-> 0]]
  /\ runs = [c \in Conn |-> 1] /\ blacklist = {}
  /\ pc = "idle" /\ at = 0 /\ list = {} /\ todo = {} /\ moved = {} /\ due = TRUE
  /\ fails = 0
  /\ inflight = {} /\ erred = {} /\ requests = {} /\ msgs = 0

Cron == (BeginPass \/ Pass \/ FailPass) /\ UNCHANGED workers

Handler(w) == LogResponse(w) \/ SaveProgress(w) \/ LoseAnswer(w)
Server(r)  == Quit(r) \/ \E age \in {-Gap, 0} : schedule_at(r, age)

Next ==
  \/ Cron
  \/ \E p \in Pk : RepeatError(p) \/ \E bad \in BOOLEAN : ReadProgress(p, bad)
  \/ \E w \in inflight : Handler(w)
  \/ \E c \in Conn : ReadQuit(c) \/ Join(c) \/ ReadSchedule(c)
  \/ \E r \in requests : Server(r)
  \/ Tick

Spec == Init /\ [][Next]_vars

\* The cron job runs whenever its minute comes and finishes its pass, time
\* goes on, a worker saves its answer or is killed, a request is served.
Fairness ==
  /\ WF_vars(BeginPass /\ UNCHANGED workers) /\ WF_vars(Pass /\ UNCHANGED workers)
  /\ WF_vars(Tick)
  /\ WF_vars(\E w \in inflight : Handler(w))
  /\ WF_vars(\E r \in requests : Server(r))

FairSpec == Spec /\ Fairness

-----------------------------------------------------------------------------
(***************************************************************************)
(* Properties.                                                             *)
(***************************************************************************)

WorkersOK ==
  /\ inflight \subseteq Answer /\ erred \subseteq Conn /\ requests \subseteq Request
  /\ blacklist \subseteq Conn /\ msgs \in 0 .. MaxMsgs

\* Every variable stays in its domain; nothing is held between passes, and
\* the pass moves runs on from a step only if there is a next one.
TypeOK == TableOK /\ CronOK /\ WorkersOK

\* check_progress takes the steps last to first so that a pass carries a run
\* over one step at most: a row it has moved is not among those it moves next,
\* unless a worker has put the row back in the meantime.
MovedOncePerPass ==
  /\ pc \in {"moving", "last"} => need_to_transition(at) \cap moved = {}
  /\ pc = "starting" => need_to_start \cap moved = {}

\* A text is queued only for a run whose row is there when the text commits:
\* a run deleted under the pass (quit, reschedule) gets none.
TextsReachLiveRuns ==
  [][\A p \in Pk : sent'[p] # sent[p] => db'[p].status # "gone"]_vars

\* A connection that never answers gets each question num_tries times at most
\* (once, for a rule without tries), whatever passes fail and roll back.
SilentTextLimit ==
  msgs = 0 => \A p \in Pk, k \in Steps : sent[p][k] <= MaxTries[k]

\* A question that is answered stays so until the run moves on, whatever the
\* pass reads and writes meanwhile: only a wrong answer, saved from a copy read
\* earlier, puts it back in progress.
AnsweredStaysAnswered ==
  [][\A p \in Pk :
       db[p].status = "C" /\ db'[p].step = db[p].step /\ db'[p].status \notin {"C", "gone"}
       => \E w \in inflight : w.pk = p /\ w.bad]_vars

\* A recurring script is not lost for a connection that never answers: as long
\* as the roster has dates there is a row, even when passes are rolled back.
KeptOnRoster ==
  Recurring /\ msgs = 0 =>
    \A c \in Conn : runs[c] < MaxRuns => \E p \in RowsOf(c) : db[p].status # "gone"

\* Between passes a connection that never answers has one open session for
\* each run under way: each was opened once, and closed with its run.
SessionPerRun ==
  pc = "idle" /\ msgs = 0 => \A c \in Conn :
    open[c] = Cardinality({p \in RowsOf(c) : db[p].status # "gone" /\ db[p].step # -1})

\* Every row in the table goes eventually: with rules that expire, a run ends
\* whatever the user does.
EveryRunEnds == \A p \in Pk : db[p].status # "gone" ~> db[p].status = "gone"

\* A run of moving-on rules gets to every one of its questions in the end, if
\* nobody answers.
EveryQuestionAsked ==
  \A p \in Pk, k \in Steps : db[p].status # "gone" ~> sent[p][k] > 0 \/ msgs > 0

\* A run that nobody answers is only ever on a step that its receiver leaves
\* it on: it has a session whenever it moves, without which the receiver would
\* not look at it.
OnlyOwnQuestions ==
  msgs = 0 => \A p \in Pk : db[p].step \in Steps => Land[p[1]][db[p].step] = db[p].step

\* The run and the step of a connection, and the texts of its runs.
Places    == [c \in Conn |-> {<<p[2], db[p].step>> : p \in Present(c)}]
Questions == [c \in Conn |-> [n \in 1 .. MaxRuns |-> sent[<<c, n>>]]]

Dialogues == INSTANCE Dialogue WITH
  Leave <- {k \in Steps : Rule[k] \in GivingUp},
  given <- runs, place <- Places, texts <- Questions

\* Every commit of the engine moves a connection that never answers the way
\* Dialogue allows: one run and one step at a time, the next run on the roster
\* when one is over, and a text only for the run it is in.
KeepsDialogue == Dialogues!Spec

\* mass_text takes the text of one row for all, "since they are all supposed
\* to be on the same step": a run is sent the text of the step it is on.
TextOfItsOwnStep ==
  [][\A p \in Pk, k \in Steps : sent'[p][k] # sent[p][k] => db'[p].step = k]_vars

\* giveup "removes ScriptProgress objects from the table, update ScriptSession,
\* and fires the appropriate signal": between passes a connection has no more
\* open sessions than runs under way (a connection that has quit aside).
GiveUpClosesSession ==
  pc = "idle" => \A c \in Conn \ blacklist :
    open[c] <= Cardinality({p \in RowsOf(c) : db[p].status # "gone" /\ db[p].step # -1})

\* "delete all script progress since the user has quit": a connection that has
\* quit has no row.
QuitLeavesNoProgress ==
  \A c \in blacklist : Present(c) = {}
=============================================================================
