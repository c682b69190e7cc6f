------------------------------ MODULE Incoming ------------------------------
(***************************************************************************)
(* The router's handle_incoming over the apps that are installed           *)
(* (SMS_APPS: education, script, poll, rapidsms_xforms), and all that goes *)
(* on beside it: the staff's requests on polls, forms and the roster, and  *)
(* the cron job at the end of a run.                                       *)
(*                                                                         *)
(* A message is taken through the apps in order until one handles it, in   *)
(* the transaction of the gateway's request; what the apps write shows     *)
(* when it is over.  The answers of scripts, and the texts of replies, are *)
(* in EducationApp and Messenger.                                          *)
(***************************************************************************)
EXTENDS Roster, Polls, XForms

CONSTANTS
  Texts,      \* messages: their first word, all their words, the segments after the first
  Workloads   \* bound: the tables to begin with, and how many requests of each kind

Schema == {"roster", "contacts", "members", "blacklist", "polls", "recipients", "asked", "categories",
           "rules", "responses", "labels", "submissions", "tombstones"}

\* To begin with, nobody has answered, submitted anything or quit.
ASSUME IncomingAssumption ==
  /\ Tables = Schema
  /\ \A text \in Texts : text.rest \in Segments
  /\ \A w \in Workloads :
       /\ w.db["responses"] = {} /\ w.db["labels"] = {} /\ w.db["submissions"] = {}
       /\ w.db["asked"] = {} /\ w.db["blacklist"] = {}
       /\ w.db["polls"] \subseteq Poll
       /\ \A p, q \in w.db["polls"] : p.start = 0 /\ (p.id = q.id => p = q)

\* The rows that there are to begin with are those of their tables, with ids of
\* their own, and refer to rows that are there.
ASSUME TablesAssumption ==
  \A w \in Workloads :
    /\ DOMAIN w.db = Tables /\ PollsRefer(w.db)
    /\ \A T \in Tables : \A r, q \in w.db[T] : r.id = q.id => r = q
    /\ \A r \in w.db["roster"] : r.conn \in Connections /\ r.script \in Scripts /\ r.day \in 0 .. LastDay
    /\ \A k \in w.db["contacts"] :
         k = [id |-> k.id, grade |-> k.grade, active |-> k.active] /\ k.id \in Connections /\ k.active \in BOOLEAN
    /\ \A m \in w.db["members"] : Contact(w.db, m.conn) # {}

\* A poll has one default category at most, to begin with.
ASSUME CategoriesAssumption ==
  \A w \in Workloads :
    /\ \A k \in w.db["categories"] : k = [id |-> k.id, poll |-> k.poll, default |-> k.default, error |-> k.error]
    /\ \A j, k \in w.db["categories"] : j.poll = k.poll /\ j.default /\ k.default => j.id = k.id

\* Classes are two characters, of which the roster has p3 and p6; a row's id names
\* whose it is; and whoever has registered is on the roster, to begin with.
ASSUME ScheduledAssumption ==
  /\ \A answer \in Answers : answer.grade \in DOMAIN GROUPS => answer.grade \in {"p3", "p6"}
  /\ \A w \in Workloads :
       /\ \A r \in w.db["roster"] : r.id[2] = r.conn /\ r.id[3] = r.script
       /\ \A m \in w.db["members"] : m.id[1] = m.conn
       /\ \A k \in w.db["contacts"] :
            /\ k.grade \in DOMAIN GROUPS => k.grade \in {"p3", "p6"}
            /\ ~Registering(w.db, k.id) =>
                 \A s \in scripts_for(w.db, k.id) : next_scheduled(s, 1) # None => ScriptRows(w.db, k.id, s) # {}

\* The rules and categories that there are to begin with have none of the ids
\* that requests give.
ASSUME RulesAssumption ==
  \A w \in Workloads :
    /\ \A r \in w.db["rules"] \cup w.db["categories"] : r.id \notin Nat \ {0}
    /\ \A q \in w.db["rules"] : q = [id |-> q.id, category |-> q.category, word |-> q.word]

VARIABLE left

vars == <<database, today, left>>

Kinds == {"answer", "word", "form", "end", "add", "reporter", "reschedule", "now",
          "special", "water", "remove", "create", "start", "stop", "poll", "rules", "category", "edit",
          "erase", "amend", "fail"}

\* A connection is on the roster once for a script, and nobody is for the script
\* that may be made.
ASSUME WorkloadAssumption ==
  \A w \in Workloads :
    /\ w.left \in [Kinds -> Nat] /\ w.left["special"] <= 1
    /\ \A r \in w.db["roster"] : r.script # SPECIAL
    /\ \A r, q \in w.db["roster"] : r.conn = q.conn /\ r.script = q.script => r = q

KindOf(text) ==
  IF text.word \in {"join", "quit"} THEN "word"
  ELSE IF find_form(text.word, text.rest) # {} THEN "form" ELSE "answer"

Take(kind) == left[kind] > 0 /\ left' = [left EXCEPT ![kind] = @ - 1]

Init ==
  /\ \E w \in Workloads : db = w.db /\ left = w.left
  /\ open = << >> /\ serial = 0 /\ history = {}
  /\ today = 1

-----------------------------------------------------------------------------
(***************************************************************************)
(* The education app, and the script app after it.                         *)
(***************************************************************************)

\* A run takes an answer, unless it is complete but for the job's last pass.
Taken(d, c) == IF \E r \in RowsOf(d, c) : r.day <= today THEN BOOLEAN ELSE {FALSE}

\* Bug: the messages of those who have quit go on to the other apps.
BugEducation(d, n, c, text) ==
  CASE text.word = "quit" -> {[effect |-> Quit(d, c), handled |-> TRUE]}
    [] text.word = "join" -> {[effect |-> Join(d, n, c), handled |-> TRUE]}
    [] OTHER -> {[effect |-> NoEffect, handled |-> taken] : taken \in Taken(d, c)}

\* What the app may write, and whether it handles the message.
Education(d, n, c, text) ==
  CASE text.word = "quit" -> {[effect |-> Quit(d, c), handled |-> TRUE]}
    [] text.word = "join" -> {[effect |-> Join(d, n, c), handled |-> TRUE]}
    [] text.word \notin {"quit", "join"} /\ Blacklisted(d, c) ->
         {[effect |-> NoEffect, handled |-> TRUE]}
    [] OTHER -> {[effect |-> NoEffect, handled |-> taken] : taken \in Taken(d, c)}

Topics(c, text) ==
  {<<"person", c>>} \cup Details({c}) \cup {<<"form", f>> : f \in find_form(text.word, text.rest)}
  \cup IF KindOf(text) = "word" THEN About({c}) ELSE {}

\* A message that is created saves every column of its reporter's row.
update_last_reporting_date(d, c) == Saved("contacts", Contact(d, c))

Receive(c, text) ==
  /\ ~IsRemoved(db, c)
  /\ Take(KindOf(text))
  /\ \E out \in Education(db, serial + 1, c, text) :
       Begin(Request("message", [conn |-> c, text |-> text],
                     IF out.handled THEN "written" ELSE "poll",
                     Then(update_last_reporting_date(db, c), out.effect),
                     {"rules", "categories"} \X PollIds, Topics(c, text), {}))
  /\ UNCHANGED today

\* The poll app never handles a message: the last app may take it for a form, too.
PollPhase(n) ==
  LET c == open[n].on.conn  text == open[n].on.text
      may == IF Contact(Seen(n), c) = {} THEN {} ELSE Handle(Seen(n), n, c, text.words)
  IN /\ open[n].place = "poll"
     /\ \E e \in IF may = {} THEN {NoEffect} ELSE may :
          Continue(n, e, IF KindOf(text) = "form" THEN "xforms" ELSE "written")

FormPhase(n) ==
  LET c == open[n].on.conn  text == open[n].on.text
  IN /\ open[n].place = "xforms"
     /\ \E f \in find_form(text.word, text.rest) :
          Continue(n, Submit(Seen(n), n, f, c, text.rest), "written")

-----------------------------------------------------------------------------
OfConnection(d, T, c) ==
  CASE T \in {"roster", "members", "recipients", "asked", "responses", "submissions"} ->
         {r \in d[T] : r.conn = c}
    [] T \in {"contacts", "blacklist"} -> Select(d, T, c)
    [] OTHER -> {}

\* delete_reporter, or delete_connection and a reporter whom nobody sees: with
\* all that refers to them.  The number is another connection if it writes again.
RemoveConnection ==
  \E c \in Connections :
    Begin(Request("remove", c, "written",
      Then(Deleted("labels", LabelsOf(db, OfConnection(db, "responses", c))),
      Then([NoEffect EXCEPT !.drop = [T \in Tables |-> Ids(OfConnection(db, T, c))]],
           Inserted("tombstones", {[id |-> <<"connections", c>>]}))),
      {}, About({c}) \cup Details({c}) \cup {<<"person", c>>}, {}))

\* Nothing refers to a connection that was deleted.
ConnectionsRefer(d) ==
  \A c \in Connections : IsRemoved(d, c) => \A T \in Tables : OfConnection(d, T, c) = {}

\* The end of a request, when what it refers to is there.
Finish(n) ==
  /\ open[n].place = "written"
  /\ Commit(n) /\ PollsRefer(db') /\ ConnectionsRefer(db')

\* The end of a request that fails: an error in the database, or the worker is
\* killed.  A start that has sent its questions keeps them.
Fail(n) ==
  Rollback(n, IF open[n].kind = "start" /\ open[n].place = "written"
              THEN {<<"torn", open[n].on.id>>} ELSE {})

Next ==
  \/ \E c \in Connections, text \in Texts : Receive(c, text)
  \/ Take("end") /\ EndRun /\ UNCHANGED today
  \/ Take("add") /\ AddConnections /\ UNCHANGED today
  \/ Take("reporter") /\ EditReporter /\ UNCHANGED today
  \/ Take("reschedule") /\ RescheduleScripts /\ UNCHANGED today
  \/ Take("now") /\ ScheduleNow /\ UNCHANGED today
  \/ Take("special") /\ SpecialScript /\ UNCHANGED today
  \/ Take("water") /\ ScheduleWaterPolls /\ UNCHANGED today
  \/ Take("remove") /\ RemoveConnection /\ UNCHANGED today
  \/ Take("create") /\ CreatePoll /\ UNCHANGED today
  \/ Take("start") /\ StartPoll /\ UNCHANGED today
  \/ Take("stop") /\ EndPoll /\ UNCHANGED today
  \/ Take("poll") /\ (EditPoll \/ DeletePoll) /\ UNCHANGED today
  \/ Take("rules") /\ ChangeRules /\ UNCHANGED today
  \/ Take("category") /\ (AddCategory \/ EditCategory \/ DeleteCategory) /\ UNCHANGED today
  \/ Take("edit") /\ EditResponse /\ UNCHANGED today
  \/ Take("erase") /\ DeleteResponse /\ UNCHANGED today
  \/ Take("amend") /\ EditSubmission /\ UNCHANGED today
  \/ \E n \in DOMAIN open :
       \/ (PollPhase(n) \/ FormPhase(n) \/ MassTextCommits(n) \/ Finish(n)) /\ UNCHANGED <<today, left>>
       \/ Take("fail") /\ Fail(n) /\ UNCHANGED today
  \/ NextDay /\ UNCHANGED left

Spec == Init /\ [][Next]_vars

-----------------------------------------------------------------------------
(***************************************************************************)
(* Properties; those of a component are in its module.                     *)
(***************************************************************************)

TypeOK ==
  /\ DOMAIN db = Tables
  /\ \A r \in db["roster"] : r.conn \in Connections /\ r.script \in Scripts /\ r.day \in 0 .. LastDay
  /\ \A k \in db["contacts"] : k.id \in Connections /\ k.active \in BOOLEAN
  /\ \A m \in db["members"] : Contact(db, m.conn) # {}
  /\ \A x \in db["blacklist"] : x.id \in Connections
  /\ db["polls"] \subseteq Poll /\ \A p \in db["polls"] : p.start <= serial
  /\ PollsRefer(db)
  /\ \A r \in db["responses"] : r.id \in 1 .. serial /\ r.errors \in BOOLEAN
  /\ \A s \in db["submissions"] : s.form \in Forms /\ s.confirmation \in 1 .. serial
  /\ \A T \in Tables : \A r, q \in db[T] : r.id = q.id => r = q
  /\ DOMAIN open \subseteq 1 .. serial
  /\ today \in 1 .. LastDay /\ left \in [Kinds -> Nat]

KeepsOverrides == [][OverridesKept]_vars
KeepsGoodAnswer == [][GoodAnswerKept]_vars

\* Nothing is taken from those who have quit, in a poll or a form: no message
\* that begins after the quit leaves a response or a submission of theirs,
\* whatever requests of others were open at the quit, and whatever joins and
\* quits follow.  A message of their own that is open at the quit is heard by the
\* code, and a contact with two requests open at once, one of them a quit or its
\* removal, is excepted.
NothingAfterQuit ==
  [][\A T \in {"responses", "submissions"} : \A r \in db'[T] \ db[T] :
       Ends(r.id, {"message"}) /\ Alone("person", r.conn) => ~Blacklisted(db, r.conn)]_vars
=============================================================================
