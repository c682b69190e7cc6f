------------------------------- MODULE Roster -------------------------------
(***************************************************************************)
(* Who is on the roster of the scripts: the joins and quits of the         *)
(* education app, the registration that the end of edtrac_autoreg writes,  *)
(* the next run at the end of a script, and the pages on which the staff   *)
(* add numbers, edit a reporter and schedule a script again.  A row is     *)
(* only its connection, script and day here: what its run does is in       *)
(* ScriptProgress and EducationApp.                                        *)
(***************************************************************************)
EXTENDS Scheduling

CONSTANTS
  Connections,
  LastDay,    \* bound: the last day
  WATER,      \* the scripts of schedule_water_polls
  SPECIAL,    \* the script that emis_scripts_special makes (one at most)
  Answers     \* what registrations answer: the role's digit, and the grade, "" for none

VARIABLE today

Rostered == Scripts \ {AUTOREG, SPECIAL}

\* The script that is made belongs to no group; water polls are scripts of the roster.
ASSUME SpecialAssumption ==
  /\ SPECIAL \in Scripts \ {AUTOREG} /\ WATER \subseteq Rostered
  /\ \A g \in DOMAIN GROUPS : SPECIAL \notin GROUPS[g]

ASSUME DaysAssumption ==
  /\ LastDay \in Nat \ {0}
  /\ \A s \in Scripts : \A i \in DOMAIN POLL_DATES[s] : POLL_DATES[s][i] <= LastDay

\* Groups by the digit answered to edtrac_role.
Groups == <<"Teachers", "Head Teachers", "SMC", "GEM", "DEO", "MEO">>

match_group_response(role) == IF role \in DOMAIN Groups THEN Groups[role] ELSE "Other Reporters"

Registering(d, c) == ScriptRows(d, c, AUTOREG) # {}

Registration(n, c) == Inserted("roster", {NewRow(n, c, AUTOREG, today)})

-----------------------------------------------------------------------------
(***************************************************************************)
(* The words join and quit.                                                *)
(***************************************************************************)

\* A stranger starts to register, blacklisted or not; a reporter who had quit
\* is taken off the blacklist and registers again.
Join(d, n, c) ==
  LET starts == IF Registering(d, c) THEN NoEffect ELSE Registration(n, c)
  IN CASE Contact(d, c) = {} -> starts
       [] Contact(d, c) # {} /\ Blacklisted(d, c) ->
            Then(Deleted("blacklist", Select(d, "blacklist", c)), starts)
       [] OTHER -> NoEffect

\* Bug: the rows stay.
BugQuit(d, c) ==
  IF Blacklisted(d, c) \/ Registering(d, c) THEN NoEffect
  ELSE Then(Inserted("blacklist", {[id |-> c]}),
            Saved("contacts", {[k EXCEPT !.active = FALSE] : k \in Contact(d, c)}))

\* Nobody quits twice, or while registering.
Quit(d, c) ==
  IF Blacklisted(d, c) \/ Registering(d, c) THEN NoEffect
  ELSE Then(Inserted("blacklist", {[id |-> c]}),
       Then(Deleted("roster", RowsOf(d, c)),
            Saved("contacts", {[k EXCEPT !.active = FALSE] : k \in Contact(d, c)})))

-----------------------------------------------------------------------------
(***************************************************************************)
(* The cron job, at the end of a run.                                      *)
(***************************************************************************)

\* A reporter is left with the one group g.
Moved(d, c, g) ==
  Then(Deleted("members", {m \in d["members"] : m.conn = c}),
       Inserted("members", {[id |-> <<c, g>>, conn |-> c, group |-> g]}))

\* EmisReporter.objects passes over the reporters who have quit.
Listed(d) == {k \in d["contacts"] : ~Blacklisted(d, k.id)}

\* edtrac_autoreg: the reporter is found or made anew, is moved to the group of
\* the role it answered, and keeps the grade it had if it gave none.
Registered(d, n, c, answer) ==
  LET old == Contact(d, c)
      kept == {k.grade : k \in old \cap Listed(d)}
      who == [id |-> c, active |-> TRUE,
              grade |-> IF answer.grade # "" \/ kept = {} THEN answer.grade ELSE CHOOSE g \in kept : TRUE]
      e == Then(IF old = {} THEN Inserted("contacts", {who}) ELSE Saved("contacts", {who}),
                Moved(d, c, match_group_response(answer.role)))
  IN Then(e, schedule_all(After(d, e), n, c, today))

\* Bug: the end of a run leaves the next one to the registration.
BugEnded(d, n, row, answer) ==
  LET e == Deleted("roster", {row})
  IN IF row.script = AUTOREG THEN Then(e, Registered(After(d, e), n, row.conn, answer)) ELSE e

\* The row is deleted, and the receivers of script_progress_was_completed run.
Ended(d, n, row, answer) ==
  LET e == Deleted("roster", {row})
  IN Then(e, IF row.script = AUTOREG
             THEN Registered(After(d, e), n, row.conn, answer)
             ELSE schedule(After(d, e), n, row.conn, row.script, today))

About(C)   == {<<"roster", c>> : c \in C}
Details(C) == {<<"reporter", c>> : c \in C}

EndRun ==
  \E row \in db["roster"], answer \in Answers :
    /\ row.day <= today
    /\ Begin(Request("end", row.id, "written", Ended(db, serial + 1, row, answer),
                     {}, About({row.conn}) \cup IF row.script = AUTOREG THEN Details({row.conn}) ELSE {}, {}))

-----------------------------------------------------------------------------
(***************************************************************************)
(* The staff's pages.                                                      *)
(***************************************************************************)

\* add_connection: whatever rows the first number has are deleted; every number
\* without a contact gets a row to register, also if it has one, since
\* _addto_autoreg looks for a script that does not exist.
AddConnections ==
  \E c \in Connections : \E others \in SUBSET {x \in Connections \ {c} : ~IsRemoved(db, x)} :
    LET fresh == {x \in {c} \cup others : Contact(db, x) = {}}
    IN /\ ~IsRemoved(db, c)
       /\ Begin(Request("add", c, "written",
              Then(Deleted("roster", RowsOf(db, c)),
                   Inserted("roster", {NewRow(serial + 1, x, AUTOREG, today) : x \in fresh})),
              {}, About({c} \cup others),
              {<<"doubled", x>> : x \in {y \in fresh \cap others : Registering(db, y)}}
              \cup {<<"overlooked", x>> : x \in {c} \ fresh}))

\* edit_reporter: the scripts of a new group are scheduled, those of the old one
\* stay; a new grade alone changes nothing on the roster.
EditReporter ==
  \E k \in Listed(db), answer \in Answers :
    \E old \in GroupsOf(db, k.id) :
      LET new   == match_group_response(answer.role)
          e     == Then(Saved("contacts", {[k EXCEPT !.grade = answer.grade]}), Moved(db, k.id, new))
          after == After(db, e)
      IN /\ new # old \/ answer.grade # k.grade
         /\ Begin(Request("reporter", k.id, "written",
              IF new # old THEN Then(e, schedule_all(after, serial + 1, k.id, today)) ELSE e,
              {}, About({k.id}) \cup Details({k.id}),
              IF new = old /\ scripts_for(after, k.id) # scripts_for(db, k.id)
              THEN {<<"overlooked", k.id>>} ELSE {}))

\* reschedule_scripts: for the date given, or else for the roster's next one.
RescheduleScripts ==
  \E s \in Rostered, day \in {None} \cup today .. LastDay :
    Begin(Request("reschedule", s, "written",
      IF day # None THEN schedule_script_at(db, serial + 1, s, day)
      ELSE schedule_script(db, serial + 1, s, today),
      {}, About(Subscribers(db, s)), {}))

\* schedule_script_now: the reporters of one group, at once.
ScheduleNow ==
  \E s \in Rostered, name \in {m.group : m \in db["members"]} :
    LET whose == {k.id : k \in {x \in Listed(db) : name \in GroupsOf(db, x.id)}}
    IN Begin(Request("now", s, "written",
         ScheduleEach(db, serial + 1, {<<c, s, today>> : c \in whose}), {}, About(whose), {}))

\* emis_scripts_special: a script of its own, for the reporters chosen; it is
\* due at once, and never again.
SpecialScript ==
  \E chosen \in SUBSET Listed(db) \ {{}} :
    LET whose == {k.id : k \in chosen}
    IN Begin(Request("special", SPECIAL, "written",
         Inserted("roster", {NewRow(serial + 1, c, SPECIAL, today) : c \in whose}),
         {}, About(whose), {}))

\* schedule_water_polls: all rows of the script go, and those it finds get one:
\* head teachers of a district, or who answered yes since the last time.
ScheduleWaterPolls ==
  \E s \in WATER, chosen \in SUBSET Listed(db), day \in today .. LastDay :
    LET whose == {k.id : k \in chosen}
        old   == {r \in db["roster"] : r.script = s}
    IN Begin(Request("water", s, "written",
         Then(Deleted("roster", old), Inserted("roster", {NewRow(serial + 1, c, s, day) : c \in whose})),
         {}, About(whose \cup {r.conn : r \in old}),
         {<<"overlooked", c>> : c \in Subscribers(db, s) \ whose}))

NextDay ==
  /\ today < LastDay /\ open = << >>
  /\ today' = today + 1
  /\ UNCHANGED database

-----------------------------------------------------------------------------
Undisturbed(topic, x) == <<topic, x>> \notin history

\* A connection has at most one row of a script: two rows are two runs, and two
\* copies of every question.  Requests about one connection at a time may make
\* two (nothing is locked between the count and the create), and so does adding
\* a number that is registering.
OneRowPerScript ==
  \A c \in Connections, s \in Scripts :
    Undisturbed("roster", c) /\ Undisturbed("doubled", c)
      => Cardinality(ScriptRows(db, c, s)) <= 1

\* A connection that has quit is on the roster for registration at most, through
\* any sequence of ends of runs, edits and schedules.
QuitOffRoster ==
  \A c \in Connections :
    Blacklisted(db, c) /\ Undisturbed("roster", c)
      => \A r \in RowsOf(db, c) : r.script = AUTOREG

\* A registered reporter who has not quit has a row of every script of its
\* groups that the roster has a date to come for: nobody drops out of the
\* reporting by a sequence of runs, quits, joins and edits.  Not so after its
\* number is added again, its grade alone is changed, or the water polls are
\* scheduled without it.
SubscribedAreScheduled ==
  \A k \in db["contacts"] :
    /\ ~Blacklisted(db, k.id) /\ ~Registering(db, k.id)
    /\ Undisturbed("roster", k.id) /\ Undisturbed("reporter", k.id) /\ Undisturbed("overlooked", k.id)
    => \A s \in scripts_for(db, k.id) :
         next_scheduled(s, today) # None => ScriptRows(db, k.id, s) # {}
=============================================================================
