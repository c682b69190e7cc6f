----------------------------- MODULE Scheduling -----------------------------
(***************************************************************************)
(* education/scheduling.py over the tables of Database: which date of the  *)
(* roster is next for a script, which scripts a contact is subscribed to,  *)
(* and the delete and create of their rows on the roster.                  *)
(*                                                                         *)
(* Time is a day; a row is due from 10:00 of its day on.  A contact has    *)
(* one connection, and goes by its name; its groups are rows of their own. *)
(***************************************************************************)
EXTENDS Database, Sequences

CONSTANTS
  Scripts,     \* slugs
  AUTOREG,     \* "edtrac_autoreg", the script that registers
  POLL_DATES,  \* settings: the dates of a script on the roster, in the order given
  GROUPS       \* settings: the scripts of every group, and of p3 and p6

ASSUME RosterAssumption ==
  /\ AUTOREG \in Scripts
  /\ POLL_DATES \in [Scripts -> Seq(Nat)]
  /\ \A g \in DOMAIN GROUPS : GROUPS[g] \subseteq Scripts \ {AUTOREG}

None == -1

-----------------------------------------------------------------------------
\* The first of the dates in the order of the list, of those at the places hits.
first(hits, dates) ==
  IF hits = {} THEN None ELSE dates[CHOOSE i \in hits : \A j \in hits : i <= j]

upcoming(dates, today) == first({i \in DOMAIN dates : dates[i] > today}, dates)

\* The start is the first date that has been, not the last: the period of the
\* first date of the list never ends.
current_period(dates, today) ==
  LET end == upcoming(dates, today)
  IN <<first({i \in DOMAIN dates : dates[i] <= today}, dates), IF end = None THEN None ELSE end - 1>>

next_scheduled(s, today) == upcoming(POLL_DATES[s], today)

\* Teachers are subscribed by their grade, too; a group without scripts
\* (DEO, MEO, Other Reporters) has none.
GroupScripts(name) == IF name \in DOMAIN GROUPS THEN GROUPS[name] ELSE {}

GroupsOf(d, c) == {m.group : m \in {x \in d["members"] : x.conn = c}}
Contact(d, c)  == Select(d, "contacts", c)

\* Ids are not given twice: a connection that was deleted does not come back.
IsRemoved(d, c) == Select(d, "tombstones", <<"connections", c>>) # {}

scripts_for(d, c) ==
  (UNION {GroupScripts(g) : g \in GroupsOf(d, c)})
  \cup (IF "Teachers" \in GroupsOf(d, c) THEN UNION {GroupScripts(k.grade) : k \in Contact(d, c)} ELSE {})

\* Whose script it is: those of its groups and, if p3 or p6 has it, all
\* teachers, whatever their grade.
Subscribers(d, s) ==
  LET names == {g \in DOMAIN GROUPS : s \in GROUPS[g]}
      all   == names \cup IF names \cap {"p3", "p6"} # {} THEN {"Teachers"} ELSE {}
  IN {m.conn : m \in {x \in d["members"] : x.group \in all}}

-----------------------------------------------------------------------------
RowsOf(d, c)       == {r \in d["roster"] : r.conn = c}
ScriptRows(d, c, s) == {r \in RowsOf(d, c) : r.script = s}
Blacklisted(d, c)  == Select(d, "blacklist", c) # {}

NewRow(n, c, s, day) == [id |-> <<n, c, s>>, conn |-> c, script |-> s, day |-> day]

\* Bug: a script that the roster has no date for is scheduled, too.
BugUndated(d, n, c, s, day) ==
  Then(Deleted("roster", ScriptRows(d, c, s)),
       Inserted("roster", {NewRow(n, c, s, x) : x \in {y \in {day} : ~Blacklisted(d, c)}}))

\* Bug: the row there is stays.
BugAdds(d, n, c, s, day) ==
  Inserted("roster", {NewRow(n, c, s, x) : x \in {y \in {day} : y # None /\ ~Blacklisted(d, c)}})

\* In place of the rows of the connection and script, one at the time given:
\* none if there is no time, or if the connection has quit.
schedule_at(d, n, c, s, day) ==
  Then(Deleted("roster", ScriptRows(d, c, s)),
       Inserted("roster", {NewRow(n, c, s, t) : t \in {x \in {day} : x # None /\ ~Blacklisted(d, c)}}))

\* The same for each of a set of connections, scripts and times.
ScheduleEach(d, n, due) ==
  LET of(p) == schedule_at(d, n, p[1], p[2], p[3])
  IN [drop |-> [T \in Tables |-> UNION {of(p).drop[T] : p \in due}],
      put  |-> [T \in Tables |-> UNION {of(p).put[T] : p \in due}],
      made |-> [T \in Tables |-> UNION {of(p).made[T] : p \in due}]]

schedule(d, n, c, s, today) == schedule_at(d, n, c, s, next_scheduled(s, today))

schedule_all(d, n, c, today) ==
  ScheduleEach(d, n, {<<c, s, next_scheduled(s, today)>> : s \in scripts_for(d, c)})

schedule_script_at(d, n, s, day) ==
  ScheduleEach(d, n, {<<c, s, day>> : c \in Subscribers(d, s)})

schedule_script(d, n, s, today) == schedule_script_at(d, n, s, next_scheduled(s, today))
=============================================================================
