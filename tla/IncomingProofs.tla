--------------------------- MODULE IncomingProofs ---------------------------
(***************************************************************************)
(* Theorems about Incoming, for any connections, polls, forms, messages,   *)
(* dates, and any number of requests open at a time.                       *)
(*                                                                         *)
(* Every step begins a request, goes on with a message, commits or rolls   *)
(* back.  What a request has written is known from its kind alone, and the *)
(* first part says it, action by action; the theorems follow from that and *)
(* from what overlapping requests leave in history.                        *)
(***************************************************************************)
EXTENDS Incoming, DatabaseProofs, WellFoundedInduction, FiniteSetTheorems

-----------------------------------------------------------------------------
(***************************************************************************)
(* What a submission holds, for any forms and any message.                 *)
(***************************************************************************)

\* A set of naturals has a least one.
LEMMA Least ==
  ASSUME NEW S \in SUBSET Nat, S # {}
  PROVE  \E m \in S : \A k \in S : m <= k
<1> DEFINE R == {ss \in Nat \X Nat : ss[1] < ss[2]}
<1>1. OpToRel(<, Nat) = R
  BY Zenon DEF OpToRel
<1>2. PICK m \in S : \A k \in S : ~(<<k, m>> \in R)
  <2> HIDE DEF R
  <2> QED BY <1>1, NatLessThanWellFounded, WFMin
<1>3. ASSUME NEW k \in S PROVE m <= k
  <2>1. k \in Nat /\ m \in Nat /\ <<k, m>> \notin R
    BY <1>2
  <2>2. ASSUME k < m PROVE FALSE
    BY <2>1, <2>2
  <2> QED BY <2>1, <2>2
<1> QED BY <1>3

\* The first part of a message ends somewhere: at the first segment that is no
\* value of its field, or where the segments do.
LEMMA PositionalPart ==
  ASSUME NEW f, NEW segments \in Segments
  PROVE  Positional(f, segments) \in 0 .. Len(segments)
<1> DEFINE fits(i) == /\ i \in DOMAIN Fields[f] \cap DOMAIN segments
                      /\ ~IsCommand(f, segments[i])
                      /\ ~Splits(f, segments, i)
                      /\ Fits(Fields[f][i], AsValue(segments[i]))
           Stops == {k \in Nat : ~fits(k + 1)}
           Is(k) == (\A i \in 1 .. k : fits(i)) /\ ~fits(k + 1)
<1>1. Len(segments) \in Nat /\ DOMAIN segments = 1 .. Len(segments)
  BY DEF Segments
<1>2. Len(segments) \in Stops
  BY <1>1
<1>3. PICK m \in Stops : \A k \in Stops : m <= k
  <2> HIDE DEF Stops
  <2>1. Stops \in SUBSET Nat
    BY DEF Stops
  <2> QED BY <1>2, <2>1, Least
<1>4. m \in 0 .. Len(segments)
  BY <1>1, <1>2, <1>3
<1>5. ASSUME NEW i \in 1 .. m PROVE fits(i)
  <2>1. i - 1 \in Nat /\ m \in Nat /\ ~(m <= i - 1) /\ (i - 1) + 1 = i
    BY <1>3
  <2>2. i - 1 \notin Stops
    BY <1>3, <2>1
  <2> HIDE DEF fits
  <2> QED BY <2>1, <2>2
<1>6. Is(m)
  BY <1>3, <1>5
<1>7. \E k \in 0 .. Len(segments) : Is(k)
  BY <1>4, <1>6
<1>8. Positional(f, segments) = CHOOSE k \in 0 .. Len(segments) : Is(k)
  BY Zenon DEF Positional
<1> HIDE DEF Is
<1> QED BY <1>7, <1>8

\* Where a value is, is a natural number.
LEMMA GivenAt ==
  ASSUME NEW f, NEW segments \in Segments, NEW v \in Given(f, segments)
  PROVE  v.at \in Nat
<1>1. Positional(f, segments) \in Nat /\ Len(segments) \in Nat
  BY PositionalPart DEF Segments
<1>2. \A i \in 1 .. Positional(f, segments) : i \in Nat
  BY <1>1
<1>3. \A i \in Named(f, segments) : i \in Nat
  <2> DEFINE k == Positional(f, segments) + 1
             next == IF Misfit(f, segments) THEN k + 1 ELSE k
  <2>1. next \in Nat
    BY <1>1
  <2>2. Named(f, segments) \subseteq next .. Len(segments)
    BY DEF Named
  <2> QED BY <1>1, <2>1, <2>2
<1> QED BY <1>2, <1>3 DEF Given

\* What is kept of a field is one of the values given for it that fit.
LEMMA KeptValue ==
  ASSUME NEW f, NEW segments \in Segments, NEW c \in DOMAIN Values(f, segments)
  PROVE  \E v \in Cleaned(f, segments) : v.command = c /\ Values(f, segments)[c] = v.value
<1> DEFINE got == Cleaned(f, segments)
           mine == {v \in got : v.command = c}
           leads(v) == v.command = c /\ \A w \in got : w.command = c => v.at <= w.at
           ats == {v.at : v \in mine}
<1>1. mine # {} /\ Values(f, segments)[c] = (CHOOSE v \in got : leads(v)).value
  BY DEF Values
<1>2. PICK m \in ats : \A k \in ats : m <= k
  <2>1. ats \in SUBSET Nat
    BY GivenAt DEF Cleaned
  <2>2. ats # {}
    BY <1>1
  <2> HIDE DEF ats
  <2> QED BY <2>1, <2>2, Least
<1>3. PICK v \in mine : v.at = m
  BY <1>2
<1>4. leads(v)
  BY <1>2, <1>3
<1>5. \E x \in got : leads(x)
  BY <1>3, <1>4
<1> HIDE DEF got
<1>6. leads(CHOOSE x \in got : leads(x)) /\ (CHOOSE x \in got : leads(x)) \in got
  BY <1>5
<1> QED BY <1>1, <1>6 DEF got

\* Whole(s) is what CompleteSubmission says of one submission.
Whole(s) ==
  ~s.errors =>
    /\ ~Missing(s.form, DOMAIN s.values)
    /\ \A c \in DOMAIN s.values : Fits(Field(s.form, c), s.values[c])

\* What a message submits is whole, or in error.
LEMMA SubmitWhole ==
  ASSUME NEW d, NEW n, NEW f, NEW c, NEW segments \in Segments, "submissions" \in Tables,
         NEW s \in Submit(d, n, f, c, segments).put["submissions"]
  PROVE  Whole(s)
<1>1. /\ s.form = f /\ s.values = Values(f, segments)
      /\ s.errors = (HasErrors(f, segments) \/ c \notin Allowed[f])
  BY DEF Submit, Inserted, NoEffect
<1>2. ~HasErrors(f, segments) => ~Missing(f, DOMAIN Values(f, segments))
  BY DEF HasErrors
<1>3. ASSUME NEW k \in DOMAIN Values(f, segments)
      PROVE  Fits(Field(f, k), Values(f, segments)[k])
  BY KeptValue DEF Cleaned
<1> QED BY <1>1, <1>2, <1>3 DEF Whole

-----------------------------------------------------------------------------

\* The tables are there.
LEMMA TablesThere ==
  Tables = Schema
BY IncomingAssumption DEF IncomingAssumption

\* The tables that the staff's pages on reporters, and the cron job, write; and
\* those that the pages on the answers of a poll write.
RosterTables == {"roster", "contacts", "members"}
AnswerTables == {"categories", "rules", "responses", "labels"}

-----------------------------------------------------------------------------
(***************************************************************************)
(* The roster.                                                             *)
(***************************************************************************)

LEMMA ScheduleAtRoster ==
  ASSUME NEW d, NEW n, NEW c, NEW s, NEW day
  PROVE  Only(schedule_at(d, n, c, s, day), {"roster"})
BY TablesThere, OnlyThen, OnlyBasic DEF schedule_at, Schema

LEMMA ScheduleAllRoster ==
  ASSUME NEW d, NEW n, NEW c, NEW day
  PROVE  Only(schedule_all(d, n, c, day), RosterTables)
<1>1. Only(schedule_all(d, n, c, day), {"roster"})
  BY ScheduleAtRoster DEF schedule_all, ScheduleEach, Only
<1> QED BY <1>1, OnlyMore DEF RosterTables

LEMMA ScheduleRoster ==
  ASSUME NEW d, NEW n, NEW c, NEW s, NEW day
  PROVE  Only(schedule(d, n, c, s, day), RosterTables)
BY ScheduleAtRoster, OnlyMore DEF schedule, RosterTables

LEMMA ScheduleScriptRoster ==
  ASSUME NEW d, NEW n, NEW s, NEW day
  PROVE  /\ Only(schedule_script_at(d, n, s, day), RosterTables)
         /\ Only(schedule_script(d, n, s, day), RosterTables)
<1>1. ASSUME NEW x PROVE Only(schedule_script_at(d, n, s, x), {"roster"})
  BY ScheduleAtRoster DEF schedule_script_at, ScheduleEach, Only
<1> QED BY <1>1, OnlyMore DEF RosterTables, schedule_script

LEMMA MovedRoster ==
  ASSUME NEW d, NEW c, NEW g
  PROVE  Only(Moved(d, c, g), RosterTables)
BY TablesThere, OnlyThen, OnlyBasic DEF Moved, Schema, RosterTables

LEMMA RegisteredRoster ==
  ASSUME NEW d, NEW n, NEW c, NEW answer
  PROVE  Only(Registered(d, n, c, answer), RosterTables)
<1> DEFINE old == Contact(d, c)
           kept == {k.grade : k \in old \cap Listed(d)}
           who == [id |-> c, active |-> TRUE,
                   grade |-> IF answer.grade # "" \/ kept = {} THEN answer.grade
                             ELSE CHOOSE g \in kept : TRUE]
           found == IF old = {} THEN Inserted("contacts", {who}) ELSE Saved("contacts", {who})
           e == Then(found, Moved(d, c, match_group_response(answer.role)))
<1> HIDE DEF old, who
<1>1. Only(found, RosterTables)
  BY TablesThere, OnlyBasic DEF Schema, RosterTables
<1> HIDE DEF found
<1>2. Only(e, RosterTables)
  BY <1>1, OnlyThen, MovedRoster
<1> HIDE DEF e
<1>3. Only(Then(e, schedule_all(After(d, e), n, c, today)), RosterTables)
  BY <1>2, OnlyThen, ScheduleAllRoster
<1>4. Registered(d, n, c, answer) = Then(e, schedule_all(After(d, e), n, c, today))
  BY Zenon DEF Registered, e, found, who, old
<1> QED BY <1>3, <1>4

\* Whoever the effect puts on the roster is one of C, and registers or has not quit.
OnRoster(e, d, C) ==
  \A r \in e.put["roster"] : r.conn \in C /\ (r.script = AUTOREG \/ ~Blacklisted(d, r.conn))

LEMMA OnRosterThen ==
  ASSUME NEW e, NEW f, NEW d, NEW C, OnRoster(e, d, C), OnRoster(f, d, C)
  PROVE  OnRoster(Then(e, f), d, C)
BY TablesThere, ThenAt DEF OnRoster, Schema

LEMMA OffRosterBasic ==
  ASSUME NEW U \in Schema, NEW R, NEW d, NEW C
  PROVE  /\ OnRoster(NoEffect, d, C) /\ OnRoster(Deleted(U, R), d, C)
         /\ U # "roster" => OnRoster(Inserted(U, R), d, C) /\ OnRoster(Saved(U, R), d, C)
BY TablesThere, PutBasic DEF OnRoster, Schema

\* What is written to other tables quits nobody.
LEMMA OnRosterAfter ==
  ASSUME NEW e, NEW d, NEW f, NEW C, Only(e, RosterTables), OnRoster(f, After(d, e), C)
  PROVE  OnRoster(f, d, C)
<1>1. "blacklist" \in Tables /\ e.drop["blacklist"] = {} /\ e.put["blacklist"] = {}
  BY TablesThere DEF Only, Schema, RosterTables
<1>2. \A r : r \in After(d, e)["blacklist"] <=> r \in d["blacklist"]
  BY <1>1, AfterUntouched
<1>3. ASSUME NEW c PROVE Blacklisted(After(d, e), c) <=> Blacklisted(d, c)
  BY <1>2 DEF Blacklisted, Select
<1> QED BY <1>3 DEF OnRoster

LEMMA ScheduleAtOn ==
  ASSUME NEW d, NEW n, NEW c, NEW s, NEW day
  PROVE  OnRoster(schedule_at(d, n, c, s, day), d, {c})
<1> DEFINE rows == {NewRow(n, c, s, t) : t \in {x \in {day} : x # None /\ ~Blacklisted(d, c)}}
<1>1. ASSUME NEW r \in rows PROVE r.conn = c /\ ~Blacklisted(d, c)
  BY DEF NewRow
<1>2. "roster" \in Tables /\ Inserted("roster", rows).put["roster"] = rows
  BY TablesThere, PutBasic DEF Schema
<1> HIDE DEF rows
<1>3. OnRoster(Inserted("roster", rows), d, {c})
  BY <1>1, <1>2 DEF OnRoster
<1>4. OnRoster(Deleted("roster", ScriptRows(d, c, s)), d, {c})
  BY OffRosterBasic DEF Schema
<1> QED BY <1>3, <1>4, OnRosterThen DEF schedule_at, rows

LEMMA ScheduleEachOn ==
  ASSUME NEW d, NEW n, NEW due, NEW C, \A p \in due : p[1] \in C
  PROVE  OnRoster(ScheduleEach(d, n, due), d, C)
<1> DEFINE of(p) == schedule_at(d, n, p[1], p[2], p[3])
<1>1. ScheduleEach(d, n, due).put["roster"] = UNION {of(p).put["roster"] : p \in due}
  BY TablesThere DEF ScheduleEach, Schema
<1>2. ASSUME NEW p \in due, NEW r \in of(p).put["roster"]
      PROVE  r.conn \in C /\ (r.script = AUTOREG \/ ~Blacklisted(d, r.conn))
  BY ScheduleAtOn DEF OnRoster
<1> HIDE DEF of
<1> QED BY <1>1, <1>2 DEF OnRoster

LEMMA ScheduleOn ==
  ASSUME NEW d, NEW n, NEW c, NEW s, NEW day
  PROVE  /\ OnRoster(schedule(d, n, c, s, day), d, {c})
         /\ OnRoster(schedule_all(d, n, c, day), d, {c})
         /\ OnRoster(schedule_script_at(d, n, s, day), d, Subscribers(d, s))
         /\ OnRoster(schedule_script(d, n, s, day), d, Subscribers(d, s))
<1>1. OnRoster(schedule(d, n, c, s, day), d, {c})
  BY ScheduleAtOn DEF schedule
<1>2. OnRoster(schedule_all(d, n, c, day), d, {c})
  BY ScheduleEachOn DEF schedule_all
<1>3. ASSUME NEW x PROVE OnRoster(schedule_script_at(d, n, s, x), d, Subscribers(d, s))
  BY ScheduleEachOn DEF schedule_script_at
<1> QED BY <1>1, <1>2, <1>3 DEF schedule_script

LEMMA MovedOn ==
  ASSUME NEW d, NEW c, NEW g, NEW C
  PROVE  OnRoster(Moved(d, c, g), d, C)
BY OnRosterThen, OffRosterBasic DEF Moved, Schema

LEMMA RegisteredOn ==
  ASSUME NEW d, NEW n, NEW c, NEW answer
  PROVE  OnRoster(Registered(d, n, c, answer), d, {c})
<1> DEFINE old == Contact(d, c)
           kept == {k.grade : k \in old \cap Listed(d)}
           who == [id |-> c, active |-> TRUE,
                   grade |-> IF answer.grade # "" \/ kept = {} THEN answer.grade
                             ELSE CHOOSE g \in kept : TRUE]
           found == IF old = {} THEN Inserted("contacts", {who}) ELSE Saved("contacts", {who})
           e == Then(found, Moved(d, c, match_group_response(answer.role)))
<1> HIDE DEF old, who
<1>1. Only(found, RosterTables) /\ OnRoster(found, d, {c})
  BY TablesThere, OnlyBasic, OffRosterBasic DEF Schema, RosterTables
<1> HIDE DEF found
<1>2. Only(e, RosterTables) /\ OnRoster(e, d, {c})
  BY <1>1, OnlyThen, MovedRoster, OnRosterThen, MovedOn
<1> HIDE DEF e
<1>3. OnRoster(schedule_all(After(d, e), n, c, today), d, {c})
  BY <1>2, ScheduleOn, OnRosterAfter
<1>4. OnRoster(Then(e, schedule_all(After(d, e), n, c, today)), d, {c})
  BY <1>2, <1>3, OnRosterThen
<1>5. Registered(d, n, c, answer) = Then(e, schedule_all(After(d, e), n, c, today))
  BY Zenon DEF Registered, e, found, who, old
<1> QED BY <1>4, <1>5

LEMMA EndedOn ==
  ASSUME NEW d, NEW n, NEW row, NEW answer
  PROVE  OnRoster(Ended(d, n, row, answer), d, {row.conn})
<1> DEFINE e == Deleted("roster", {row})
           f == IF row.script = AUTOREG THEN Registered(After(d, e), n, row.conn, answer)
                ELSE schedule(After(d, e), n, row.conn, row.script, today)
<1>1. Only(e, RosterTables) /\ OnRoster(e, d, {row.conn})
  BY TablesThere, OnlyBasic, OffRosterBasic DEF Schema, RosterTables
<1> HIDE DEF e
<1>2. OnRoster(f, After(d, e), {row.conn})
  BY RegisteredOn, ScheduleOn
<1> HIDE DEF f
<1>3. OnRoster(Then(e, f), d, {row.conn})
  BY <1>1, <1>2, OnRosterAfter, OnRosterThen
<1> QED BY <1>3, Zenon DEF Ended, e, f

LEMMA EndedRoster ==
  ASSUME NEW d, NEW n, NEW row, NEW answer
  PROVE  Only(Ended(d, n, row, answer), RosterTables)
BY TablesThere, OnlyThen, OnlyBasic, RegisteredRoster, ScheduleRoster
DEF Ended, Schema, RosterTables
-----------------------------------------------------------------------------
(***************************************************************************)
(* What a request is, by its kind.                                         *)
(***************************************************************************)

\* A request has its fields.
Shape(t) == t = Request(t.kind, t.on, t.place, t.effect, t.reads, t.writes, t.notes)

\* What a message that an app takes may have written: all of it is of its sender.
OfMessage(t) ==
  /\ t.on.text \in Texts /\ t.place \in {"written", "poll", "xforms"}
  /\ <<"person", t.on.conn>> \in t.writes
  /\ \A T \in {"responses", "submissions"} : \A r \in t.effect.put[T] : r.conn = t.on.conn
  /\ \A b \in t.effect.put["blacklist"] : b.id = t.on.conn /\ <<"roster", b.id>> \in t.writes
  /\ \A r \in t.effect.put["roster"] : r.script = AUTOREG
  /\ \A T \in {"polls", "recipients", "tombstones"} : t.effect.put[T] = {}

\* What the removal of a connection writes.
OfRemoval(t) ==
  /\ t.on \in Connections
  /\ \A T \in Tables \ {"tombstones"} : t.effect.put[T] = {}
  /\ \E x \in t.effect.put["tombstones"] :
       x.id = <<"connections", t.on>> /\ x.id \in t.effect.made["tombstones"]

\* The polls, as they are there or are written.
PollTable(R) == R \subseteq Poll /\ Unique(R)

\* A tombstone is made for a poll.
Buried(e, i) ==
  \E x \in e.put["tombstones"] : x.id = <<"polls", i>> /\ x.id \in e.made["tombstones"]

\* What a request on polls writes: a start has its texts to send or its date
\* written; who saves a poll has its dates and contacts for a topic.
OfPolls(t) ==
  /\ t.kind = "start" => /\ t.on \in Poll /\ <<"dates", t.on.id>> \in t.writes
                         /\ t.place = "texts" \/ \E p \in t.effect.put["polls"] : p.id = t.on.id
  /\ \A p \in t.effect.put["polls"] :
       <<"recipients", p.id>> \in t.reads /\ <<"dates", p.id>> \in t.writes
  /\ PollTable(t.effect.put["polls"])
  /\ \A i \in t.effect.drop["polls"] : Buried(t.effect, i)

\* What every open request is, wherever it is.
Wellformed(t) ==
  /\ Shape(t)
  /\ IF t.kind = "message" THEN OfMessage(t)
     ELSE t.place \in {"written", "texts"} /\ t.effect.put["blacklist"] = {}
  /\ t.place = "texts" => /\ t.kind = "start" /\ t.effect = NoEffect
                          /\ <<"recipients", t.on.id>> \in t.reads
  /\ IF t.kind = "remove" THEN OfRemoval(t) ELSE t.effect.drop["asked"] = {}
  /\ t.effect.put["asked"] = {} /\ t.effect.drop["tombstones"] = {}
  /\ \A s \in t.effect.put["submissions"] : Whole(s)
  /\ OfPolls(t)
  /\ \A m \in t.effect.put["recipients"] : <<"recipients", m.poll>> \in t.writes
  /\ \A r \in t.effect.put["roster"] : <<"roster", r.conn>> \in t.writes

Late(p, c) == <<"late", <<p, c>>>>

\* A poll that is new and has not started, and one as it is there.
Unmade(p) ==
  /\ p.start = 0 /\ Select(db, "polls", p.id) = {}
  /\ Select(db, "tombstones", <<"polls", p.id>>) = {}

Read(p) == \E q \in db["polls"] : q.id = p.id /\ q.start = p.start

PollsRead(t) ==
  /\ \A p \in t.effect.put["polls"] : Unmade(p) \/ Read(p)
  /\ t.place = "texts" => Read(t.on) /\ t.on.start = 0

LEMMA NoPolls ==
  ASSUME NEW t, t.kind # "start", t.place # "texts",
         t.effect.put["polls"] = {}, t.effect.drop["polls"] = {}
  PROVE  OfPolls(t) /\ PollsRead(t)
BY DEF OfPolls, PollsRead, PollTable, Unique

\* What it has to do with the tables as it begins: it answers no poll, unless
\* there is an answer; it starts none; whom it adds to one that has started it
\* notes; who has quit is not heard and is put on the roster to register at
\* most; and a quit deletes what its sender has there.
Grounded(t) ==
  /\ \A r \in t.effect.put["responses"] :
       \E q \in db["responses"] : q.poll = r.poll /\ q.conn = r.conn
  /\ PollsRead(t)
  /\ \A m \in t.effect.put["recipients"], p \in db["polls"] \cup t.effect.put["polls"] :
       p.id = m.poll /\ p.start # 0 => Late(m.poll, m.conn) \in t.notes
  /\ \A i \in t.effect.drop["asked"] : \E a \in db["asked"] : a.id = i /\ a.conn = t.on
  /\ t.kind = "message" =>
       /\ t.effect.put["submissions"] = {} /\ t.effect.put["responses"] = {}
       /\ t.place # "written" => ~Blacklisted(db, t.on.conn)
  /\ \A r \in t.effect.put["roster"] : r.script = AUTOREG \/ ~Blacklisted(db, r.conn)
  /\ \A b \in t.effect.put["blacklist"], r \in db["roster"] :
       r.conn = b.id => r.id \in t.effect.drop["roster"]

LEMMA RequestIs ==
  ASSUME NEW kind, NEW on, NEW place, NEW effect, NEW reads, NEW writes, NEW notes
  PROVE  LET t == Request(kind, on, place, effect, reads, writes, notes)
         IN /\ Shape(t) /\ t.kind = kind /\ t.on = on /\ t.place = place /\ t.effect = effect
            /\ t.reads = reads /\ t.writes = writes /\ t.notes = notes
BY DEF Shape, Request

\* The pages on reporters, and the cron job.
LEMMA StaffIs ==
  ASSUME NEW kind, NEW on, NEW effect, NEW writes, NEW notes, NEW C,
         kind \notin {"message", "remove", "start"}, Only(effect, RosterTables),
         OnRoster(effect, db, C), About(C) \subseteq writes,
         Begin(Request(kind, on, "written", effect, {}, writes, notes))
  PROVE  \E t : Begin(t) /\ Wellformed(t) /\ Grounded(t)
<1> DEFINE t == Request(kind, on, "written", effect, {}, writes, notes)
<1>1. /\ Shape(t) /\ t.kind = kind /\ t.place = "written" /\ t.effect = effect /\ t.writes = writes
  BY RequestIs
<1>2. \A T \in Schema \ RosterTables : t.effect.drop[T] = {} /\ t.effect.put[T] = {}
  BY <1>1, TablesThere DEF Only
<1>3. \A r \in effect.put["roster"] :
        <<"roster", r.conn>> \in writes /\ (r.script = AUTOREG \/ ~Blacklisted(db, r.conn))
  BY DEF OnRoster, About
<1> HIDE DEF t
<1>5. OfPolls(t) /\ PollsRead(t)
  BY <1>1, <1>2, NoPolls DEF Schema, RosterTables
<1>4. Wellformed(t) /\ Grounded(t)
  BY <1>1, <1>2, <1>3, <1>5 DEF Wellformed, Grounded, Schema, RosterTables
<1> QED BY <1>4, Zenon DEF t

LEMMA EndRunIs ==
  ASSUME EndRun
  PROVE  \E t : Begin(t) /\ Wellformed(t) /\ Grounded(t)
<1>1. PICK row \in db["roster"], answer \in Answers :
        Begin(Request("end", row.id, "written", Ended(db, serial + 1, row, answer),
                {}, About({row.conn}) \cup IF row.script = AUTOREG THEN Details({row.conn}) ELSE {}, {}))
  BY DEF EndRun
<1> QED BY <1>1, EndedRoster, EndedOn, StaffIs

LEMMA AddConnectionsIs ==
  ASSUME AddConnections
  PROVE  \E t : Begin(t) /\ Wellformed(t) /\ Grounded(t)
<1> DEFINE fresh(c, others) == {x \in {c} \cup others : Contact(db, x) = {}}
           effect(c, others) == Then(Deleted("roster", RowsOf(db, c)),
             Inserted("roster", {NewRow(serial + 1, x, AUTOREG, today) : x \in fresh(c, others)}))
           notes(c, others) ==
             {<<"doubled", x>> : x \in {y \in fresh(c, others) \cap others : Registering(db, y)}}
             \cup {<<"overlooked", x>> : x \in {c} \ fresh(c, others)}
<1>1. \E c \in Connections : \E others \in SUBSET {x \in Connections \ {c} : ~IsRemoved(db, x)} :
        Begin(Request("add", c, "written", effect(c, others), {}, About({c} \cup others), notes(c, others)))
  BY Zenon DEF AddConnections
<1>2. ASSUME NEW c, NEW others PROVE Only(effect(c, others), RosterTables)
  BY TablesThere, OnlyThen, OnlyBasic DEF Schema, RosterTables
<1>3. ASSUME NEW c, NEW others PROVE OnRoster(effect(c, others), db, {c} \cup others)
  <2> DEFINE rows == {NewRow(serial + 1, x, AUTOREG, today) : x \in fresh(c, others)}
  <2>1. ASSUME NEW r \in rows PROVE r.conn \in {c} \cup others /\ r.script = AUTOREG
    BY DEF NewRow
  <2> HIDE DEF rows
  <2>2. OnRoster(Inserted("roster", rows), db, {c} \cup others)
    BY <2>1, TablesThere, PutBasic DEF OnRoster, Schema
  <2> QED BY <2>2, OnRosterThen, OffRosterBasic DEF rows, Schema
<1>4. PICK c \in Connections : \E others \in SUBSET {x \in Connections \ {c} : ~IsRemoved(db, x)} :
        Begin(Request("add", c, "written", effect(c, others), {}, About({c} \cup others), notes(c, others)))
  BY <1>1
<1> HIDE DEF effect, notes
<1>5. PICK others :
        Begin(Request("add", c, "written", effect(c, others), {}, About({c} \cup others), notes(c, others)))
  BY <1>4
<1> QED BY <1>2, <1>3, <1>5, StaffIs

LEMMA EditReporterIs ==
  ASSUME EditReporter
  PROVE  \E t : Begin(t) /\ Wellformed(t) /\ Grounded(t)
<1> DEFINE new(answer) == match_group_response(answer.role)
           e(k, answer) == Then(Saved("contacts", {[k EXCEPT !.grade = answer.grade]}),
                                Moved(db, k.id, new(answer)))
           after(k, answer) == After(db, e(k, answer))
           effect(k, answer, old) ==
             IF new(answer) # old
             THEN Then(e(k, answer), schedule_all(after(k, answer), serial + 1, k.id, today))
             ELSE e(k, answer)
           notes(k, answer, old) ==
             IF new(answer) = old /\ scripts_for(after(k, answer), k.id) # scripts_for(db, k.id)
             THEN {<<"overlooked", k.id>>} ELSE {}
<1>1. \E k \in Listed(db), answer \in Answers : \E old \in GroupsOf(db, k.id) :
        Begin(Request("reporter", k.id, "written", effect(k, answer, old), {},
                      About({k.id}) \cup Details({k.id}), notes(k, answer, old)))
  BY Zenon DEF EditReporter
<1>2. ASSUME NEW k, NEW answer PROVE Only(e(k, answer), RosterTables)
  BY TablesThere, OnlyThen, OnlyBasic, MovedRoster DEF Schema, RosterTables
<1>3. ASSUME NEW k, NEW answer PROVE OnRoster(e(k, answer), db, {k.id})
  BY OnRosterThen, OffRosterBasic, MovedOn DEF Schema
<1> HIDE DEF e
<1>4. ASSUME NEW k, NEW answer
      PROVE  OnRoster(schedule_all(after(k, answer), serial + 1, k.id, today), db, {k.id})
  BY <1>2, ScheduleOn, OnRosterAfter
<1> HIDE DEF after, new, notes
<1>5. ASSUME NEW k, NEW answer, NEW old
      PROVE  Only(effect(k, answer, old), RosterTables) /\ OnRoster(effect(k, answer, old), db, {k.id})
  BY <1>2, <1>3, <1>4, OnlyThen, ScheduleAllRoster, OnRosterThen
<1> HIDE DEF effect
<1> QED BY <1>1, <1>5, StaffIs

LEMMA RescheduleScriptsIs ==
  ASSUME RescheduleScripts
  PROVE  \E t : Begin(t) /\ Wellformed(t) /\ Grounded(t)
<1> DEFINE effect(s, day) == IF day # None THEN schedule_script_at(db, serial + 1, s, day)
                             ELSE schedule_script(db, serial + 1, s, today)
<1>1. PICK s \in Rostered, day \in {None} \cup today .. LastDay :
        Begin(Request("reschedule", s, "written", effect(s, day), {}, About(Subscribers(db, s)), {}))
  BY Zenon DEF RescheduleScripts
<1>2. Only(effect(s, day), RosterTables) /\ OnRoster(effect(s, day), db, Subscribers(db, s))
  BY ScheduleScriptRoster, ScheduleOn
<1> HIDE DEF effect
<1> QED BY <1>1, <1>2, StaffIs

LEMMA ScheduleNowIs ==
  ASSUME ScheduleNow
  PROVE  \E t : Begin(t) /\ Wellformed(t) /\ Grounded(t)
<1> DEFINE whose(name) == {k.id : k \in {x \in Listed(db) : name \in GroupsOf(db, x.id)}}
           effect(s, name) == ScheduleEach(db, serial + 1, {<<c, s, today>> : c \in whose(name)})
<1>1. PICK s \in Rostered, name \in {m.group : m \in db["members"]} :
        Begin(Request("now", s, "written", effect(s, name), {}, About(whose(name)), {}))
  BY Zenon DEF ScheduleNow
<1> HIDE DEF whose
<1>2. Only(effect(s, name), {"roster"})
  BY ScheduleAtRoster DEF ScheduleEach, Only
<1>3. OnRoster(effect(s, name), db, whose(name))
  BY ScheduleEachOn
<1> HIDE DEF effect
<1>4. Only(effect(s, name), RosterTables)
  BY <1>2, OnlyMore DEF RosterTables
<1> QED BY <1>1, <1>3, <1>4, StaffIs

\* The reporters that the staff chooses from have not quit.
LEMMA ListedOn ==
  ASSUME NEW R, NEW C, \A r \in R : r.conn \in C /\ \E k \in Listed(db) : r.conn = k.id
  PROVE  OnRoster(Inserted("roster", R), db, C)
BY TablesThere, PutBasic DEF OnRoster, Listed, Schema

LEMMA SpecialScriptIs ==
  ASSUME SpecialScript
  PROVE  \E t : Begin(t) /\ Wellformed(t) /\ Grounded(t)
<1> DEFINE whose(chosen) == {k.id : k \in chosen}
           effect(chosen) == Inserted("roster", {NewRow(serial + 1, c, SPECIAL, today) : c \in whose(chosen)})
<1>1. PICK chosen \in SUBSET Listed(db) :
        Begin(Request("special", SPECIAL, "written", effect(chosen), {}, About(whose(chosen)), {}))
  BY Zenon DEF SpecialScript
<1>2. Only(effect(chosen), RosterTables)
  BY TablesThere, OnlyBasic DEF Schema, RosterTables
<1>3. OnRoster(effect(chosen), db, whose(chosen))
  BY ListedOn DEF NewRow
<1> HIDE DEF effect, whose
<1> QED BY <1>1, <1>2, <1>3, StaffIs

LEMMA ScheduleWaterPollsIs ==
  ASSUME ScheduleWaterPolls
  PROVE  \E t : Begin(t) /\ Wellformed(t) /\ Grounded(t)
<1> DEFINE whose(chosen) == {k.id : k \in chosen}
           old(s) == {r \in db["roster"] : r.script = s}
           effect(s, chosen, day) == Then(Deleted("roster", old(s)),
             Inserted("roster", {NewRow(serial + 1, c, s, day) : c \in whose(chosen)}))
           notes(s, chosen) == {<<"overlooked", c>> : c \in Subscribers(db, s) \ whose(chosen)}
<1>1. PICK s \in WATER, chosen \in SUBSET Listed(db), day \in today .. LastDay :
        Begin(Request("water", s, "written", effect(s, chosen, day), {},
                      About(whose(chosen) \cup {r.conn : r \in old(s)}), notes(s, chosen)))
  BY Zenon DEF ScheduleWaterPolls
<1>2. Only(effect(s, chosen, day), RosterTables)
  BY TablesThere, OnlyThen, OnlyBasic DEF Schema, RosterTables
<1> DEFINE C == whose(chosen) \cup {r.conn : r \in old(s)}
<1>3. OnRoster(effect(s, chosen, day), db, C)
  <2> DEFINE rows == {NewRow(serial + 1, c, s, day) : c \in whose(chosen)}
  <2>1. OnRoster(Inserted("roster", rows), db, C)
    BY ListedOn DEF NewRow
  <2>2. OnRoster(Deleted("roster", old(s)), db, C)
    BY OffRosterBasic DEF Schema
  <2> HIDE DEF rows, C
  <2> QED BY <2>1, <2>2, OnRosterThen DEF rows
<1> HIDE DEF effect, whose, old, notes
<1> QED BY <1>1, <1>2, <1>3, StaffIs
-----------------------------------------------------------------------------
(***************************************************************************)
(* The pages on answers and categories.                                    *)
(***************************************************************************)

\* Its responses are those of contacts that have one.
Answered(R) == \A r \in R : \E q \in db["responses"] : q.poll = r.poll /\ q.conn = r.conn

LEMMA AnswersIs ==
  ASSUME NEW kind, NEW on, NEW effect, NEW reads, NEW writes, NEW notes,
         kind \notin {"message", "remove", "start"}, Only(effect, AnswerTables),
         Answered(effect.put["responses"]),
         Begin(Request(kind, on, "written", effect, reads, writes, notes))
  PROVE  \E t : Begin(t) /\ Wellformed(t) /\ Grounded(t)
<1> DEFINE t == Request(kind, on, "written", effect, reads, writes, notes)
<1>1. /\ Shape(t) /\ t.kind = kind /\ t.place = "written" /\ t.effect = effect
  BY RequestIs
<1>2. \A T \in Schema \ AnswerTables : t.effect.drop[T] = {} /\ t.effect.put[T] = {}
  BY <1>1, TablesThere DEF Only
<1> HIDE DEF t
<1>4. OfPolls(t) /\ PollsRead(t)
  BY <1>1, <1>2, NoPolls DEF Schema, AnswerTables
<1>3. Wellformed(t) /\ Grounded(t)
  BY <1>1, <1>2, <1>4 DEF Wellformed, Grounded, Schema, AnswerTables, Answered
<1> QED BY <1>3, Zenon DEF t

LEMMA ReprocessAnswers ==
  ASSUME NEW d, NEW n, NEW p
  PROVE  /\ Only(reprocess_responses(d, n, p), AnswerTables)
         /\ \A r \in reprocess_responses(d, n, p).put["responses"] :
              \E q \in d["responses"] : q.poll = r.poll /\ q.conn = r.conn
<1> DEFINE all     == PollResponses(d, p)
           cats(r) == OrDefault(d, p, Overrides(d, r) \cup Matching(d, p, r.text)) \ Overrides(d, r)
           bad(r)  == cats(r) \cap Errors(d, p) # {}
           saved == {[r EXCEPT !.errors = bad(r)] : r \in all}
           labels == UNION {{Label(n, r.id, k, FALSE) : k \in cats(r)} : r \in all}
           put == Then(Inserted("labels", labels), Saved("responses", saved))
           out == Deleted("labels", {l \in LabelsOf(d, all) : ~l.override})
<1>1. reprocess_responses(d, n, p) = Then(out, put)
  BY Zenon DEF reprocess_responses
<1> HIDE DEF cats
<1>2. \A r \in saved : \E q \in d["responses"] : q.poll = r.poll /\ q.conn = r.conn
  <2> HIDE DEF bad
  <2> SUFFICES ASSUME NEW r \in saved PROVE \E q \in d["responses"] : q.poll = r.poll /\ q.conn = r.conn
    OBVIOUS
  <2>1. PICK q \in all : r = [q EXCEPT !.errors = bad(q)]
    OBVIOUS
  <2> QED BY <2>1 DEF PollResponses
<1> HIDE DEF saved, labels
<1>3. Only(out, AnswerTables) /\ Only(put, AnswerTables)
  BY TablesThere, OnlyThen, OnlyBasic DEF Schema, AnswerTables
<1>4. /\ "responses" \in Tables /\ "labels" \in Tables
      /\ Inserted("labels", labels).put["responses"] = {}
      /\ Saved("responses", saved).put["responses"] = saved /\ out.put["responses"] = {}
  BY TablesThere, PutBasic DEF Schema
<1>5. put.put["responses"] \subseteq saved
  BY <1>4, PutThen
<1> HIDE DEF put, out
<1>6. Then(out, put).put["responses"] \subseteq saved
  BY <1>4, <1>5, PutThen
<1> QED BY <1>1, <1>2, <1>3, <1>6, OnlyThen

LEMMA ChangeIs ==
  ASSUME NEW p, NEW e, Change(p, e), Only(e, {"rules"})
  PROVE  \E t : Begin(t) /\ Wellformed(t) /\ Grounded(t)
<1> DEFINE again == reprocess_responses(After(db, e), serial + 1, p.id)
<1>1. Begin(Request("rules", p.id, "written", Then(e, again),
                    {<<"categories", p.id>>}, {<<"rules", p.id>>}, {}))
  BY Zenon DEF Change
<1>2. e.put["responses"] = {}
  BY TablesThere DEF Only, Schema
<1>3. After(db, e)["responses"] \subseteq db["responses"]
  BY <1>2, TablesThere, AfterAt DEF Schema
<1>4. Only(again, AnswerTables) /\ Answered(again.put["responses"])
  BY <1>3, ReprocessAnswers DEF Answered
<1> HIDE DEF again
<1>5. Only(Then(e, again), AnswerTables)
  BY <1>4, OnlyThen, OnlyMore DEF AnswerTables
<1>6. Answered(Then(e, again).put["responses"])
  BY <1>2, <1>4, TablesThere, ThenAt DEF Schema, Answered
<1> QED BY <1>1, <1>5, <1>6, AnswersIs

LEMMA ChangeRulesIs ==
  ASSUME ChangeRules
  PROVE  \E t : Begin(t) /\ Wellformed(t) /\ Grounded(t)
<1>1. ASSUME NEW R
      PROVE  /\ Only(Inserted("rules", R), {"rules"}) /\ Only(Saved("rules", R), {"rules"})
             /\ Only(Deleted("rules", R), {"rules"})
  BY TablesThere, OnlyBasic DEF Schema
<1> QED BY <1>1, ChangeIs DEF ChangeRules

LEMMA RecategorisedIs ==
  ASSUME NEW p, NEW e, Recategorised(p, e), Only(e, {"categories", "rules", "labels"})
  PROVE  \E t : Begin(t) /\ Wellformed(t) /\ Grounded(t)
<1>1. Only(e, AnswerTables) /\ Answered(e.put["responses"])
  BY TablesThere DEF Only, AnswerTables, Schema, Answered
<1> QED BY <1>1, AnswersIs DEF Recategorised

LEMMA CategoriesIs ==
  ASSUME AddCategory \/ EditCategory \/ DeleteCategory
  PROVE  \E t : Begin(t) /\ Wellformed(t) /\ Grounded(t)
<1> DEFINE S == {"categories", "rules", "labels"}
<1>1. ASSUME NEW T \in S, NEW R
      PROVE  Only(Deleted(T, R), S) /\ Only(Inserted(T, R), S) /\ Only(Saved(T, R), S) /\ Only(NoEffect, S)
  BY TablesThere, OnlyBasic DEF Schema
<1>2. ASSUME NEW p PROVE Only(NoDefaults(p), S)
  BY <1>1 DEF NoDefaults
<1>3. "categories" \in S /\ "rules" \in S /\ "labels" \in S
  OBVIOUS
<1> HIDE DEF S
<1>4. CASE AddCategory
  <2>1. ASSUME NEW p, NEW default, NEW R
        PROVE  Only(Then(IF default THEN NoDefaults(p) ELSE NoEffect, Inserted("categories", R)), S)
    BY <1>1, <1>2, <1>3, OnlyThen
  <2> QED BY <1>4, <2>1, RecategorisedIs DEF AddCategory, S
<1>5. CASE EditCategory
  <2>1. ASSUME NEW p, NEW default, NEW R
        PROVE  Only(Then(IF default THEN NoDefaults(p) ELSE NoEffect, Saved("categories", R)), S)
    BY <1>1, <1>2, <1>3, OnlyThen
  <2> QED BY <1>5, <2>1, RecategorisedIs DEF EditCategory, S
<1>6. CASE DeleteCategory
  <2>1. ASSUME NEW L, NEW R, NEW K
        PROVE  Only(Then(Deleted("labels", L), Then(Deleted("rules", R), Deleted("categories", K))), S)
    BY <1>1, <1>3, OnlyThen
  <2> QED BY <1>6, <2>1, RecategorisedIs DEF DeleteCategory, S
<1> QED BY <1>4, <1>5, <1>6

LEMMA EditResponseIs ==
  ASSUME EditResponse
  PROVE  \E t : Begin(t) /\ Wellformed(t) /\ Grounded(t)
<1> DEFINE effect(r, L) == Then(Deleted("labels", LabelsOf(db, {r})),
                                Then(Inserted("labels", L), Saved("responses", {r})))
<1>1. \E r \in db["responses"] : \E L, reads, writes, notes :
        Begin(Request("edit", r.id, "written", effect(r, L), reads, writes, notes))
  BY Zenon DEF EditResponse
<1>2. ASSUME NEW r \in db["responses"], NEW L
      PROVE  Only(effect(r, L), AnswerTables) /\ Answered(effect(r, L).put["responses"])
  <2>1. Only(effect(r, L), AnswerTables)
    BY TablesThere, OnlyThen, OnlyBasic DEF Schema, AnswerTables
  <2>2. /\ "responses" \in Tables /\ Inserted("labels", L).put["responses"] = {}
        /\ Saved("responses", {r}).put["responses"] = {r}
        /\ Deleted("labels", LabelsOf(db, {r})).put["responses"] = {}
    BY TablesThere, PutBasic DEF Schema
  <2>3. Then(Inserted("labels", L), Saved("responses", {r})).put["responses"] \subseteq {r}
    BY <2>2, PutThen
  <2> DEFINE add == Then(Inserted("labels", L), Saved("responses", {r}))
             out == Deleted("labels", LabelsOf(db, {r}))
  <2>4. out.put["responses"] \subseteq {r} /\ add.put["responses"] \subseteq {r}
    BY <2>2, <2>3
  <2> HIDE DEF add, out
  <2>5. Then(out, add).put["responses"] \subseteq {r}
    BY <2>2, <2>4, PutThen
  <2>6. effect(r, L).put["responses"] \subseteq {r}
    BY <2>5 DEF add, out
  <2> QED BY <2>1, <2>6 DEF Answered
<1> HIDE DEF effect
<1> QED BY <1>1, <1>2, AnswersIs

LEMMA ErasedAnswers ==
  ASSUME NEW d, NEW R
  PROVE  Only(Erased(d, R), AnswerTables) /\ \A T \in Tables : Erased(d, R).put[T] = {}
<1>1. Only(Erased(d, R), AnswerTables)
  BY TablesThere, OnlyThen, OnlyBasic DEF Erased, Schema, AnswerTables
<1>2. ASSUME NEW T \in Tables PROVE Erased(d, R).put[T] = {}
  <2>1. Deleted("labels", LabelsOf(d, R)).put[T] = {} /\ Deleted("responses", R).put[T] = {}
    BY TablesThere, PutBasic DEF Schema
  <2>2. Erased(d, R).put[T] \subseteq {}
    BY <2>1, PutThen DEF Erased
  <2> QED BY <2>2
<1> QED BY <1>1, <1>2

LEMMA DeleteResponseIs ==
  ASSUME DeleteResponse
  PROVE  \E t : Begin(t) /\ Wellformed(t) /\ Grounded(t)
<1>1. ASSUME NEW R PROVE Only(Erased(db, R), AnswerTables) /\ Answered(Erased(db, R).put["responses"])
  BY TablesThere, ErasedAnswers DEF Answered, Schema
<1> QED BY <1>1, AnswersIs DEF DeleteResponse
-----------------------------------------------------------------------------
(***************************************************************************)
(* The dates and the contacts of a poll.                                   *)
(***************************************************************************)

PollTables == {"polls", "recipients", "tombstones"} \cup AnswerTables

\* An effect on a poll: at most the row given and recipients of R are written,
\* and no tombstone is deleted.
OnPoll(e, rows, R) ==
  /\ Only(e, PollTables) /\ e.drop["tombstones"] = {} /\ e.put["responses"] = {}
  /\ e.put["polls"] \subseteq rows /\ e.put["recipients"] \subseteq R

LEMMA OnPollThen ==
  ASSUME NEW e, NEW f, NEW rows, NEW R, OnPoll(e, rows, R), OnPoll(f, rows, R)
  PROVE  OnPoll(Then(e, f), rows, R)
<1>1. Only(Then(e, f), PollTables)
  BY OnlyThen DEF OnPoll
<1>2. {"tombstones", "responses", "polls", "recipients"} \subseteq Tables
  BY TablesThere DEF Schema
<1>3. Then(e, f).drop["tombstones"] = {} /\ Then(e, f).put["responses"] = {}
  BY <1>2, ThenNothing DEF OnPoll
<1>4. Then(e, f).put["polls"] \subseteq rows
  BY <1>2, PutThen DEF OnPoll
<1>5. Then(e, f).put["recipients"] \subseteq R
  BY <1>2, PutThen DEF OnPoll
<1> QED BY <1>1, <1>3, <1>4, <1>5 DEF OnPoll

LEMMA OnPollBasic ==
  ASSUME NEW rows, NEW R, NEW S
  PROVE  /\ OnPoll(NoEffect, rows, R)
         /\ \A T \in PollTables \ {"tombstones"} : OnPoll(Deleted(T, S), rows, R)
         /\ OnPoll(Inserted("tombstones", S), rows, R)
         /\ S \subseteq rows => OnPoll(Inserted("polls", S), rows, R) /\ OnPoll(Saved("polls", S), rows, R)
         /\ S \subseteq R => OnPoll(Inserted("recipients", S), rows, R)
<1> DEFINE There == {"tombstones", "responses", "polls", "recipients"}
<1>1. There \subseteq Tables /\ PollTables \subseteq Tables /\ There \subseteq PollTables
  BY TablesThere DEF Schema, PollTables, AnswerTables
<1>2. OnPoll(NoEffect, rows, R)
  BY <1>1, OnlyBasic, PutBasic, DropBasic DEF OnPoll
<1>3. ASSUME NEW T \in PollTables \ {"tombstones"} PROVE OnPoll(Deleted(T, S), rows, R)
  BY <1>1, OnlyBasic, PutBasic, DropBasic DEF OnPoll
<1>4. OnPoll(Inserted("tombstones", S), rows, R)
  BY <1>1, OnlyBasic, PutBasic, DropBasic DEF OnPoll
<1>5. ASSUME S \subseteq rows PROVE OnPoll(Inserted("polls", S), rows, R) /\ OnPoll(Saved("polls", S), rows, R)
  BY <1>1, <1>5, OnlyBasic, PutBasic, DropBasic DEF OnPoll
<1>6. ASSUME S \subseteq R PROVE OnPoll(Inserted("recipients", S), rows, R)
  BY <1>1, <1>6, OnlyBasic, PutBasic, DropBasic DEF OnPoll
<1> QED BY <1>2, <1>3, <1>4, <1>5, <1>6

\* A request on the poll of the row given, which adds the contacts of R to it.
PollRequest(t, row, R) ==
  /\ Shape(t) /\ t.kind \notin {"message", "remove"} /\ OnPoll(t.effect, {row}, R)
  /\ \/ t.place = "written" /\ t.kind # "start"
     \/ t.place = "texts" /\ t.kind = "start" /\ t.effect = NoEffect /\ row = t.on /\ row.start = 0 /\ Read(row)
  /\ <<"recipients", t.on.id>> \in t.reads /\ <<"dates", t.on.id>> \in t.writes /\ row.id = t.on.id /\ row \in Poll
  /\ Unmade(row) \/ Read(row)
  /\ \A i \in t.effect.drop["polls"] : Buried(t.effect, i)
  /\ \A m \in R : m.poll = t.on.id /\ <<"recipients", m.poll>> \in t.writes
  /\ \A m \in R, p \in db["polls"] \cup {row} :
       p.id = m.poll /\ p.start # 0 => Late(m.poll, m.conn) \in t.notes

LEMMA PollIs ==
  ASSUME NEW t, NEW row, NEW R, PollRequest(t, row, R)
  PROVE  Wellformed(t) /\ Grounded(t)
<1>1. \A T \in Schema \ PollTables : t.effect.drop[T] = {} /\ t.effect.put[T] = {}
  BY TablesThere DEF Only, OnPoll, PollRequest
<1>4. OfPolls(t)
  BY DEF OfPolls, OnPoll, PollRequest, PollTable, Unique
<1>5. PollsRead(t)
  BY DEF PollsRead, OnPoll, PollRequest
<1>2. Wellformed(t)
  BY <1>1, <1>4 DEF Wellformed, Schema, PollTables, AnswerTables, OnPoll, PollRequest
<1>3. Grounded(t)
  BY <1>1, <1>5 DEF Grounded, Schema, PollTables, AnswerTables, OnPoll, PollRequest
<1> QED BY <1>2, <1>3

LEMMA StartPollIs ==
  ASSUME StartPoll, PollTable(db["polls"])
  PROVE  \E t : Begin(t) /\ Wellformed(t) /\ Grounded(t)
<1>1. PICK p \in db["polls"] :
        p.start = 0 /\ Begin([Dates("start", p, NoEffect) EXCEPT !.place = "texts"])
  BY DEF StartPoll
<1> DEFINE t == [Dates("start", p, NoEffect) EXCEPT !.place = "texts"]
<1>2. /\ Shape(t) /\ t.kind = "start" /\ t.on = p /\ t.place = "texts" /\ t.effect = NoEffect
      /\ t.reads = {<<"recipients", p.id>>} /\ t.writes = {<<"dates", p.id>>}
  <2>1. t = Request("start", p, "texts", NoEffect, {<<"recipients", p.id>>}, {<<"dates", p.id>>}, {})
    BY DEF Dates, Request
  <2> HIDE DEF t
  <2> QED BY <2>1, RequestIs
<1> HIDE DEF t
<1>4. NoEffect.drop["polls"] = {}
  BY TablesThere, NoEffectAt DEF Schema
<1>3. PollRequest(t, p, {})
  BY <1>1, <1>2, <1>4, OnPollBasic DEF PollRequest, Read, PollTable
<1> QED BY <1>1, <1>3, PollIs, Zenon DEF t

LEMMA EndPollIs ==
  ASSUME EndPoll, PollTable(db["polls"])
  PROVE  \E t : Begin(t) /\ Wellformed(t) /\ Grounded(t)
<1>1. PICK p \in db["polls"] : Begin(Dates("stop", p, Saved("polls", {[p EXCEPT !.ended = TRUE]})))
  BY DEF EndPoll
<1> DEFINE row == [p EXCEPT !.ended = TRUE]
           t == Dates("stop", p, Saved("polls", {row}))
<1>2. row.id = p.id /\ row.start = p.start /\ row \in Poll
  BY DEF PollTable, Poll
<1> HIDE DEF row
<1>3. /\ Shape(t) /\ t.kind = "stop" /\ t.on = p /\ t.place = "written" /\ t.effect = Saved("polls", {row})
      /\ t.reads = {<<"recipients", p.id>>} /\ t.writes = {<<"dates", p.id>>}
  BY DEF Dates, Request, Shape
<1> HIDE DEF t
<1>4. OnPoll(t.effect, {row}, {})
  BY <1>3, OnPollBasic
<1>6. Saved("polls", {row}).drop["polls"] = {}
  BY TablesThere, DropBasic DEF Schema
<1>5. PollRequest(t, row, {})
  BY <1>2, <1>3, <1>4, <1>6 DEF PollRequest, Read
<1> QED BY <1>1, <1>5, PollIs, Zenon DEF t, row

LEMMA AddedIs ==
  ASSUME NEW p, NEW C, NEW rows
  PROVE  LET R == {[id |-> <<p, c>>, poll |-> p, conn |-> c] : c \in C}
         IN OnPoll(Added(p, C), rows, R)
BY OnPollBasic DEF Added

\* A request with new contacts has the topic among its writes.
LEMMA WithRecipientsIs ==
  ASSUME NEW kind, NEW p, NEW effect
  PROVE  LET t == WithRecipients(Dates(kind, p, effect))
         IN /\ Shape(t) /\ t.kind = kind /\ t.on = p /\ t.place = "written" /\ t.effect = effect
            /\ t.reads = {<<"recipients", p.id>>} /\ <<"recipients", p.id>> \in t.writes
            /\ <<"dates", p.id>> \in t.writes
<1> DEFINE t == WithRecipients(Dates(kind, p, effect))
           topic == {<<"recipients", p.id>>}
           dates == {<<"dates", p.id>>}
<1>1. t = Request(kind, p, "written", effect, topic, dates \cup topic, {})
  BY DEF Dates, Request, WithRecipients
<1>2. <<"recipients", p.id>> \in dates \cup topic /\ <<"dates", p.id>> \in dates \cup topic
  OBVIOUS
<1> HIDE DEF dates, t, topic
<1>3. /\ Shape(t) /\ t.kind = kind /\ t.on = p /\ t.place = "written" /\ t.effect = effect
      /\ t.reads = topic /\ t.writes = dates \cup topic
  BY <1>1 DEF Request, Shape
<1> QED BY <1>2, <1>3 DEF t, topic

LEMMA CreatePollIs ==
  ASSUME CreatePoll
  PROVE  \E t : Begin(t) /\ Wellformed(t) /\ Grounded(t)
<1> DEFINE row(p, type, rule) == [id |-> p, type |-> type, rule |-> rule, start |-> 0, ended |-> FALSE]
           C == {k.id : k \in {x \in db["contacts"] : Select(db, "blacklist", x.id) = {}}}
           effect(p, type, rule) == Then(Inserted("polls", {row(p, type, rule)}), Added(p, C))
           req(p, type, rule) ==
             WithRecipients(Dates("create", row(p, type, rule), effect(p, type, rule)))
<1>1. PICK p \in PollIds, type \in {"text", "numeric"}, rule \in {"one", "all"} :
        /\ Select(db, "polls", p) = {} /\ Select(db, "tombstones", <<"polls", p>>) = {}
        /\ Begin(req(p, type, rule))
  BY Zenon DEF CreatePoll
<1> DEFINE r == row(p, type, rule)
           e == effect(p, type, rule)
           t == req(p, type, rule)
           R == {[id |-> <<p, c>>, poll |-> p, conn |-> c] : c \in C}
<1>2. r.id = p /\ r.start = 0 /\ r \in Poll
  BY DEF Poll
<1>3. OnPoll(e, {r}, R)
  BY OnPollBasic, AddedIs, OnPollThen
<1>4. \A m \in R : m.poll = p
  OBVIOUS
<1>8. e.drop["polls"] = {}
  BY TablesThere, DropBasic, ThenNothing DEF Added, Schema
<1> HIDE DEF row, effect, R, C
<1>5. /\ Shape(t) /\ t.kind = "create" /\ t.on = r /\ t.place = "written" /\ t.effect = e
      /\ t.reads = {<<"recipients", r.id>>} /\ <<"recipients", r.id>> \in t.writes
      /\ <<"dates", r.id>> \in t.writes
  BY WithRecipientsIs
<1> HIDE DEF req
<1>6. \A q \in db["polls"] : q.id # p
  BY <1>1 DEF Select
<1>7. PollRequest(t, r, R)
  BY <1>1, <1>2, <1>3, <1>4, <1>5, <1>6, <1>8 DEF PollRequest, Unmade
<1> QED BY <1>1, <1>7, PollIs, Zenon

LEMMA EditPollIs ==
  ASSUME EditPoll, PollTable(db["polls"])
  PROVE  \E t : Begin(t) /\ Wellformed(t) /\ Grounded(t)
<1> DEFINE gone(p, C) == {m \in db["recipients"] : m.poll = p.id /\ m.conn \notin C}
           new(p, C)  == C \ Recipients(db, p.id)
           effect(p, C) == Then(Saved("polls", {p}), Then(Deleted("recipients", gone(p, C)), Added(p.id, new(p, C))))
           notes(p, C) == IF p.start = 0 THEN {} ELSE {<<"late", <<p.id, c>>>> : c \in new(p, C)}
           req(p, C) == [WithRecipients(Dates("poll", p, effect(p, C))) EXCEPT !.notes = notes(p, C)]
<1>1. PICK p \in db["polls"], C \in SUBSET {k.id : k \in db["contacts"]} : Begin(req(p, C))
  BY Zenon DEF EditPoll
<1> DEFINE e == effect(p, C)
           N == notes(p, C)
           t == req(p, C)
           u == WithRecipients(Dates("poll", p, e))
           R == {[id |-> <<p.id, c>>, poll |-> p.id, conn |-> c] : c \in new(p, C)}
<1>2. OnPoll(e, {p}, R)
  <2>1. OnPoll(Added(p.id, new(p, C)), {p}, R)
    BY AddedIs
  <2>2. OnPoll(Deleted("recipients", gone(p, C)), {p}, R) /\ OnPoll(Saved("polls", {p}), {p}, R)
    BY OnPollBasic DEF PollTables
  <2> QED BY <2>1, <2>2, OnPollThen
<1>3. \A m \in R : m.poll = p.id /\ (p.start # 0 => Late(m.poll, m.conn) \in N)
  <2> HIDE DEF new
  <2> QED BY DEF Late
<1>9. e.drop["polls"] = {}
  <2> DEFINE out == Deleted("recipients", gone(p, C))
             add == Added(p.id, new(p, C))
             save == Saved("polls", {p})
  <2>1. "polls" \in Tables /\ out.drop["polls"] = {} /\ add.drop["polls"] = {} /\ save.drop["polls"] = {}
    BY TablesThere, DropBasic DEF Added, Schema
  <2>2. effect(p, C) = Then(save, Then(out, add))
    OBVIOUS
  <2> HIDE DEF out, add, save
  <2> QED BY <2>1, <2>2, ThenNothing
<1> HIDE DEF effect, R, notes
<1>4. /\ Shape(u) /\ u.kind = "poll" /\ u.on = p /\ u.place = "written" /\ u.effect = e
      /\ u.reads = {<<"recipients", p.id>>} /\ <<"recipients", p.id>> \in u.writes
      /\ <<"dates", p.id>> \in u.writes
  BY WithRecipientsIs
<1>5. t = [u EXCEPT !.notes = N]
  OBVIOUS
<1> HIDE DEF req, u
<1>6. /\ Shape(t) /\ t.kind = "poll" /\ t.on = p /\ t.place = "written" /\ t.effect = e
      /\ t.reads = {<<"recipients", p.id>>} /\ <<"recipients", p.id>> \in t.writes /\ t.notes = N
      /\ <<"dates", p.id>> \in t.writes
  BY <1>4, <1>5 DEF Shape, Request
<1>7. \A m \in R, q \in db["polls"] \cup {p} : q.id = m.poll /\ q.start # 0 => Late(m.poll, m.conn) \in N
  BY <1>3 DEF PollTable, Unique
<1>8. PollRequest(t, p, R)
  BY <1>2, <1>3, <1>6, <1>7, <1>9 DEF PollRequest, Read, PollTable
<1> QED BY <1>1, <1>8, PollIs, Zenon

\* The deletions of a poll's rows, and the tombstone before them.
Deletes(e, i) == e.put["tombstones"] = {} /\ e.drop["tombstones"] = {} /\ e.drop["polls"] \subseteq {i}

LEMMA DeletesThen ==
  ASSUME NEW i, NEW e, NEW f, Deletes(e, i), Deletes(f, i)
  PROVE  Deletes(Then(e, f), i)
<1>1. "tombstones" \in Tables /\ "polls" \in Tables
  BY TablesThere DEF Schema
<1>2. Then(e, f).put["tombstones"] = {} /\ Then(e, f).drop["tombstones"] = {}
  BY <1>1, ThenNothing DEF Deletes
<1>3. Then(e, f).drop["polls"] \subseteq {i}
  BY <1>1 DEF Then, Deletes
<1> QED BY <1>2, <1>3 DEF Deletes

LEMMA DeletesBuried ==
  ASSUME NEW i, NEW f, Deletes(f, i)
  PROVE  LET e == Then(Inserted("tombstones", {[id |-> <<"polls", i>>]}), f)
         IN \A j \in e.drop["polls"] : Buried(e, j)
<1> DEFINE x == [id |-> <<"polls", i>>]
           g == Inserted("tombstones", {x})
<1>1. "tombstones" \in Tables /\ "polls" \in Tables
  BY TablesThere DEF Schema
<1>2. g.put["tombstones"] = {x} /\ g.made["tombstones"] = {x.id} /\ g.drop["polls"] = {}
  BY <1>1 DEF Inserted, NoEffect, Ids
<1>3. x.id = <<"polls", i>>
  OBVIOUS
<1> HIDE DEF g, x
<1>4. x \in Then(g, f).put["tombstones"] /\ x.id \in Then(g, f).made["tombstones"]
  BY <1>1, <1>2 DEF Deletes, Then, Without, Ids
<1>5. Then(g, f).drop["polls"] \subseteq {i}
  BY <1>1, <1>2 DEF Deletes, Then
<1> QED BY <1>3, <1>4, <1>5 DEF Buried, g, x

LEMMA DeletePollIs ==
  ASSUME DeletePoll, PollTable(db["polls"])
  PROVE  \E t : Begin(t) /\ Wellformed(t) /\ Grounded(t)
<1> DEFINE all(p) == PollResponses(db, p.id)
           effect(p) ==
             Then(Inserted("tombstones", {[id |-> <<"polls", p.id>>]}),
             Then(Erased(db, all(p)),
             Then(Deleted("rules", RulesOf(db, p.id)),
             Then(Deleted("categories", CategoriesOf(db, p.id)),
             Then(Deleted("recipients", {m \in db["recipients"] : m.poll = p.id}),
                  Deleted("polls", {p}))))))
           req(p) == Dates("poll", p, effect(p))
<1>1. PICK p \in db["polls"] : Begin(req(p))
  BY Zenon DEF DeletePoll
<1>2. ASSUME NEW R PROVE OnPoll(Erased(db, R), {p}, {})
  BY OnPollBasic, OnPollThen DEF Erased, PollTables, AnswerTables
<1>3. OnPoll(effect(p), {p}, {})
  <2>1. /\ \A T \in {"polls", "recipients", "categories", "rules"} : \A R : OnPoll(Deleted(T, R), {p}, {})
        /\ \A R : OnPoll(Inserted("tombstones", R), {p}, {})
    BY OnPollBasic DEF PollTables, AnswerTables
  <2> QED BY <1>2, <2>1, OnPollThen
<1> DEFINE t == req(p)
           e == effect(p)
<1>6. \A i \in e.drop["polls"] : Buried(e, i)
  <2> DEFINE f == Then(Erased(db, all(p)),
                  Then(Deleted("rules", RulesOf(db, p.id)),
                  Then(Deleted("categories", CategoriesOf(db, p.id)),
                  Then(Deleted("recipients", {m \in db["recipients"] : m.poll = p.id}),
                       Deleted("polls", {p})))))
  <2>1. ASSUME NEW T \in {"rules", "categories", "recipients"}, NEW R PROVE Deletes(Deleted(T, R), p.id)
    BY TablesThere, PutBasic, DropBasic DEF Deletes, Schema
  <2>2. Deletes(Deleted("polls", {p}), p.id)
    BY TablesThere, PutBasic, DropBasic DEF Deletes, Schema, Ids
  <2>3. Deletes(Erased(db, all(p)), p.id)
    BY ErasedAnswers, TablesThere DEF Deletes, Only, AnswerTables, Schema
  <2>4. Deletes(f, p.id)
    BY <2>1, <2>2, <2>3, DeletesThen
  <2> HIDE DEF f
  <2>5. \A j \in Then(Inserted("tombstones", {[id |-> <<"polls", p.id>>]}), f).drop["polls"] :
          Buried(Then(Inserted("tombstones", {[id |-> <<"polls", p.id>>]}), f), j)
    BY <2>4, DeletesBuried
  <2> QED BY <2>5 DEF f
<1> HIDE DEF effect
<1>4. /\ Shape(t) /\ t.kind = "poll" /\ t.on = p /\ t.place = "written" /\ t.effect = e
      /\ t.reads = {<<"recipients", p.id>>} /\ t.writes = {<<"dates", p.id>>}
  BY DEF Dates, Request, Shape
<1> HIDE DEF req
<1>5. PollRequest(t, p, {})
  BY <1>3, <1>4, <1>6 DEF PollRequest, Read, PollTable
<1> QED BY <1>1, <1>5, PollIs, Zenon
-----------------------------------------------------------------------------
(***************************************************************************)
(* Submissions, removals and messages.                                     *)
(***************************************************************************)

LEMMA EditSubmissionIs ==
  ASSUME EditSubmission
  PROVE  \E t : Begin(t) /\ Wellformed(t) /\ Grounded(t)
<1> DEFINE row(s, values) == [s EXCEPT !.values = values, !.errors = FALSE]
           req(s, values) == Request("amend", s.id, "written", Saved("submissions", {row(s, values)}),
                                     {}, {<<"submission", s.id>>}, {})
<1>1. PICK s \in db["submissions"] : \E values \in [Commands(s.form) -> {"number", "text", "none"}] :
        (\A c \in Commands(s.form) : Fits(Field(s.form, c), values[c])) /\ Begin(req(s, values))
  BY Zenon DEF EditSubmission
<1>2. PICK values \in [Commands(s.form) -> {"number", "text", "none"}] :
        (\A c \in Commands(s.form) : Fits(Field(s.form, c), values[c])) /\ Begin(req(s, values))
  BY <1>1
<1> DEFINE r == row(s, values)
           e == Saved("submissions", {r})
           t == req(s, values)
<1>3. r.form = s.form /\ r.values = values
  OBVIOUS
<1>4. DOMAIN values = Commands(s.form)
  OBVIOUS
<1> HIDE DEF row
<1>5. Whole(r)
  <2>1. ~Missing(s.form, DOMAIN values)
    BY <1>4 DEF Missing
  <2> QED BY <1>2, <1>3, <1>4, <2>1 DEF Whole
<1>6. Only(e, {"submissions"}) /\ e.put["submissions"] = {r}
  BY TablesThere, OnlyBasic, PutBasic DEF Schema
<1>7. Shape(t) /\ t.kind = "amend" /\ t.place = "written" /\ t.effect = e
  BY RequestIs
<1> HIDE DEF req
<1>8. \A T \in Schema \ {"submissions"} : t.effect.drop[T] = {} /\ t.effect.put[T] = {}
  BY <1>6, <1>7, TablesThere DEF Only
<1>10. OfPolls(t) /\ PollsRead(t)
  BY <1>7, <1>8, NoPolls DEF Schema
<1>9. Wellformed(t) /\ Grounded(t)
  BY <1>5, <1>6, <1>7, <1>8, <1>10 DEF Wellformed, Grounded, Schema
<1> QED BY <1>2, <1>9, Zenon

LEMMA RemoveConnectionIs ==
  ASSUME RemoveConnection
  PROVE  \E t : Begin(t) /\ Wellformed(t) /\ Grounded(t)
<1> DEFINE labels(c) == Deleted("labels", LabelsOf(db, OfConnection(db, "responses", c)))
           rows(c) == [NoEffect EXCEPT !.drop = [T \in Tables |-> Ids(OfConnection(db, T, c))]]
           mark(c) == {[id |-> <<"connections", c>>]}
           add(c) == Then(rows(c), Inserted("tombstones", mark(c)))
           effect(c) == Then(labels(c), add(c))
           W(c) == About({c}) \cup Details({c}) \cup {<<"person", c>>}
           req(c) == Request("remove", c, "written", effect(c), {}, W(c), {})
<1>1. PICK c \in Connections : Begin(req(c))
  BY Zenon DEF RemoveConnection
<1> DEFINE t == req(c)
           e == effect(c)
           x == [id |-> <<"connections", c>>]
<1>2. /\ Shape(t) /\ t.kind = "remove" /\ t.on = c /\ t.place = "written" /\ t.effect = e
  BY RequestIs
<1>3. ASSUME NEW T \in Tables
      PROVE  /\ rows(c).drop[T] = Ids(OfConnection(db, T, c)) /\ rows(c).put[T] = {}
             /\ T # "labels" => labels(c).drop[T] = {}
             /\ labels(c).put[T] = {} /\ Inserted("tombstones", mark(c)).drop[T] = {}
             /\ T # "tombstones" => Inserted("tombstones", mark(c)).put[T] = {}
  <2>1. rows(c).drop[T] = Ids(OfConnection(db, T, c)) /\ rows(c).put[T] = {}
    BY DEF NoEffect
  <2> HIDE DEF rows
  <2> QED BY <2>1, TablesThere, PutBasic, DropBasic DEF Schema
<1>4. /\ Inserted("tombstones", mark(c)).put["tombstones"] = {x}
      /\ Inserted("tombstones", mark(c)).made["tombstones"] = {<<"connections", c>>}
  BY TablesThere DEF Inserted, NoEffect, Schema, Ids
<1> HIDE DEF labels, rows, mark
<1>5. \A T \in Tables \ {"tombstones"} : e.put[T] = {}
  <2>1. ASSUME NEW T \in Tables, T # "tombstones" PROVE add(c).put[T] = {}
    BY <1>3, <2>1, ThenNothing
  <2> HIDE DEF add
  <2> QED BY <1>3, <2>1, ThenNothing
<1>6. x \in e.put["tombstones"] /\ x.id \in e.made["tombstones"]
  <2>1. x \in add(c).put["tombstones"] /\ x.id \in add(c).made["tombstones"]
    BY <1>4, TablesThere DEF Then, Schema
  <2> HIDE DEF add
  <2> QED BY <2>1, TablesThere DEF Then, Schema
<1>7. \A T \in Tables \ {"labels"} : e.drop[T] \subseteq Ids(OfConnection(db, T, c))
  BY <1>3, ThenAt DEF Then
<1>8. e.drop["tombstones"] = {}
  BY <1>7, TablesThere DEF OfConnection, Ids, Schema
<1>9. \A i \in e.drop["asked"] : \E a \in db["asked"] : a.id = i /\ a.conn = c
  BY <1>7, TablesThere DEF OfConnection, Ids, Schema
<1> HIDE DEF effect, req, x
<1>10. OfRemoval(t)
  <2>1. x.id = <<"connections", c>>
    BY DEF x
  <2> QED BY <1>2, <1>5, <1>6, <2>1 DEF OfRemoval
<1>11. \A T \in Schema \ {"tombstones"} : t.effect.put[T] = {}
  BY <1>2, <1>5, TablesThere
<1>14. e.drop["polls"] = {}
  BY <1>7, TablesThere DEF OfConnection, Ids, Schema
<1>15. OfPolls(t) /\ PollsRead(t)
  BY <1>2, <1>11, <1>14, NoPolls DEF Schema
<1>12. Wellformed(t)
  BY <1>2, <1>8, <1>10, <1>11, <1>15 DEF Wellformed, Schema
<1>13. Grounded(t)
  BY <1>2, <1>9, <1>11, <1>15 DEF Grounded, Schema
<1> QED BY <1>1, <1>12, <1>13, Zenon

\* What the words, and every message, write.
LEMMA EducationWrites ==
  ASSUME NEW d, NEW n, NEW c, NEW text, NEW out \in Education(d, n, c, text)
  PROVE  /\ Only(out.effect, {"roster", "contacts", "blacklist"})
         /\ \A b \in out.effect.put["blacklist"] :
              /\ b.id = c /\ text.word = "quit"
              /\ \A r \in d["roster"] : r.conn = c => r.id \in out.effect.drop["roster"]
         /\ \A r \in out.effect.put["roster"] : r.conn = c /\ r.script = AUTOREG /\ text.word = "join"
         /\ out.handled \/ ~Blacklisted(d, c)
<1> DEFINE S == {"roster", "contacts", "blacklist"}
           Starts(e) == \A r \in e.put["roster"] : r.conn = c /\ r.script = AUTOREG
           Mine(e) == Only(e, S) /\ e.put["blacklist"] \subseteq {[id |-> c]} /\ Starts(e)
<1>1. ASSUME NEW e, NEW f, Mine(e), Mine(f) PROVE Mine(Then(e, f))
  <2>1. Only(Then(e, f), S)
    BY <1>1, OnlyThen
  <2>2. "blacklist" \in Tables /\ "roster" \in Tables
    BY TablesThere DEF Schema
  <2>3. Starts(Then(e, f))
    BY <1>1, <2>2, ThenAt
  <2> HIDE DEF Starts
  <2> QED BY <1>1, <2>1, <2>2, <2>3, PutThen
<1>2. ASSUME NEW R
      PROVE  /\ Mine(NoEffect) /\ Mine(Deleted("roster", R))
             /\ Mine(Deleted("blacklist", R)) /\ Mine(Saved("contacts", R))
             /\ Mine(Inserted("blacklist", {[id |-> c]}))
  BY TablesThere, OnlyBasic, PutBasic DEF Schema
<1> DEFINE gone == Deleted("roster", RowsOf(d, c))
           idle == Saved("contacts", {[k EXCEPT !.active = FALSE] : k \in Contact(d, c)})
           quit == Inserted("blacklist", {[id |-> c]})
<1>3. "roster" \in Tables /\ "blacklist" \in Tables
  BY TablesThere DEF Schema
<1>4. gone.drop["roster"] = Ids(RowsOf(d, c)) /\ gone.put["roster"] = {} /\ gone.put["blacklist"] = {}
  BY <1>3, DropBasic, PutBasic
<1>5. /\ idle.put["roster"] = {} /\ idle.put["blacklist"] = {} /\ quit.put["roster"] = {}
      /\ NoEffect.put["blacklist"] = {} /\ NoEffect.put["roster"] = {}
  BY <1>3, TablesThere, PutBasic DEF Schema
<1>6. Mine(gone) /\ Mine(idle) /\ Mine(quit) /\ Mine(NoEffect)
  BY <1>2
<1>7. Mine(Registration(n, c)) /\ Registration(n, c).put["blacklist"] = {}
  <2> DEFINE rows == {NewRow(n, c, AUTOREG, today)}
  <2>1. \A r \in rows : r.conn = c /\ r.script = AUTOREG
    BY DEF NewRow
  <2> HIDE DEF rows
  <2>2. Only(Inserted("roster", rows), S) /\ Inserted("roster", rows).put["blacklist"] = {}
    BY TablesThere, OnlyBasic, PutBasic DEF Schema
  <2>3. Inserted("roster", rows).put["roster"] = rows
    BY <1>3, PutBasic
  <2> QED BY <2>1, <2>2, <2>3 DEF Registration, rows
<1> DEFINE here == Deleted("blacklist", Select(d, "blacklist", c))
<1>8. Mine(here) /\ here.put["blacklist"] = {}
  BY <1>2, <1>3, PutBasic
<1> HIDE DEF Mine, gone, idle, quit, here
<1>9. /\ Mine(Quit(d, c)) /\ Quit(d, c).put["roster"] = {}
      /\ Quit(d, c).put["blacklist"] # {} => Ids(RowsOf(d, c)) \subseteq Quit(d, c).drop["roster"]
  <2> DEFINE rest == Then(gone, idle)
  <2>1. Mine(rest) /\ rest.put["roster"] = {} /\ Ids(RowsOf(d, c)) \subseteq rest.drop["roster"]
    <3>1. Mine(rest)
      BY <1>1, <1>6
    <3>2. rest.put["roster"] = {}
      BY <1>3, <1>4, <1>5, ThenNothing
    <3>3. rest.drop["roster"] = gone.drop["roster"] \cup idle.drop["roster"]
      BY <1>3 DEF Then
    <3> QED BY <1>4, <3>1, <3>2, <3>3
  <2> HIDE DEF rest
  <2>2. /\ Mine(Then(quit, rest)) /\ Then(quit, rest).put["roster"] = {}
        /\ Ids(RowsOf(d, c)) \subseteq Then(quit, rest).drop["roster"]
    <3>1. Mine(Then(quit, rest))
      BY <1>1, <1>6, <2>1
    <3>2. Then(quit, rest).put["roster"] = {}
      BY <1>3, <1>5, <2>1, ThenNothing
    <3>3. Then(quit, rest).drop["roster"] = quit.drop["roster"] \cup rest.drop["roster"]
      BY <1>3 DEF Then
    <3> QED BY <2>1, <3>1, <3>2, <3>3
  <2>3. Quit(d, c) = IF Blacklisted(d, c) \/ Registering(d, c) THEN NoEffect ELSE Then(quit, rest)
    BY DEF Quit, quit, rest, gone, idle
  <2> QED BY <1>5, <1>6, <2>2, <2>3
<1>10. Mine(Join(d, n, c)) /\ Join(d, n, c).put["blacklist"] = {}
  <2> DEFINE starts == IF Registering(d, c) THEN NoEffect ELSE Registration(n, c)
  <2>1. Mine(starts) /\ starts.put["blacklist"] = {}
    BY <1>5, <1>6, <1>7
  <2> HIDE DEF starts
  <2>2. Mine(Then(here, starts)) /\ Then(here, starts).put["blacklist"] = {}
    BY <1>1, <1>3, <1>8, <2>1, ThenNothing
  <2>3. Join(d, n, c) \in {starts, Then(here, starts), NoEffect}
    BY Zenon DEF Join, starts, here
  <2> QED BY <1>5, <1>6, <2>1, <2>2, <2>3
<1>11. /\ Mine(out.effect)
       /\ out.handled \/ ~Blacklisted(d, c)
       /\ out.effect.put["roster"] # {} => text.word = "join"
       /\ out.effect.put["blacklist"] # {} =>
            text.word = "quit" /\ Ids(RowsOf(d, c)) \subseteq out.effect.drop["roster"]
  <2>1. CASE text.word = "quit"
    BY <2>1, <1>9 DEF Education
  <2>2. CASE text.word = "join"
    BY <2>2, <1>10 DEF Education
  <2>3. CASE text.word \notin {"quit", "join"}
    <3>1. out.effect = NoEffect /\ (out.handled \/ ~Blacklisted(d, c))
      BY <2>3 DEF Education
    <3> QED BY <3>1, <1>5, <1>6
  <2> QED BY <2>1, <2>2, <2>3
<1>12. Only(out.effect, S) /\ out.effect.put["blacklist"] \subseteq {[id |-> c]} /\ Starts(out.effect)
  <2>1. Mine(out.effect)
    BY <1>11
  <2> QED BY <2>1 DEF Mine
<1>13. \A r \in d["roster"] : r.conn = c => r.id \in Ids(RowsOf(d, c))
  BY DEF Ids, RowsOf
<1>14. out.handled \/ ~Blacklisted(d, c)
  BY <1>11
<1>15. \A b \in out.effect.put["blacklist"] :
         /\ b.id = c /\ text.word = "quit"
         /\ \A r \in d["roster"] : r.conn = c => r.id \in out.effect.drop["roster"]
  BY <1>11, <1>12, <1>13
<1>16. \A r \in out.effect.put["roster"] : r.conn = c /\ r.script = AUTOREG /\ text.word = "join"
  BY <1>11, <1>12
<1> QED BY <1>12, <1>14, <1>15, <1>16, Zenon

LEMMA ReceiveIs ==
  ASSUME NEW c \in Connections, NEW text \in Texts, Receive(c, text)
  PROVE  \E t : Begin(t) /\ Wellformed(t) /\ Grounded(t)
<1> DEFINE mine == [conn |-> c, text |-> text]
           place(out) == IF out.handled THEN "written" ELSE "poll"
           effect(out) == Then(update_last_reporting_date(db, c), out.effect)
           req(out) == Request("message", mine, place(out), effect(out),
                               {"rules", "categories"} \X PollIds, Topics(c, text), {})
<1>1. PICK out \in Education(db, serial + 1, c, text) : Begin(req(out))
  BY Zenon DEF Receive
<1> DEFINE t == req(out)
           e == effect(out)
           S == {"roster", "contacts", "blacklist"}
<1>2. /\ Shape(t) /\ t.kind = "message" /\ t.on = mine /\ t.place = place(out) /\ t.effect = e
      /\ t.writes = Topics(c, text)
  BY RequestIs
<1>3. mine.conn = c /\ mine.text = text
  OBVIOUS
<1>4. /\ Only(e, S) /\ e.put["blacklist"] \subseteq out.effect.put["blacklist"]
      /\ e.put["roster"] \subseteq out.effect.put["roster"]
      /\ out.effect.drop["roster"] \subseteq e.drop["roster"]
  <2>1. /\ "blacklist" \in Tables /\ Only(update_last_reporting_date(db, c), S)
        /\ update_last_reporting_date(db, c).put["blacklist"] = {}
        /\ "roster" \in Tables /\ update_last_reporting_date(db, c).put["roster"] = {}
    BY TablesThere, OnlyBasic, PutBasic DEF update_last_reporting_date, Schema
  <2>2. Only(e, S)
    BY <2>1, EducationWrites, OnlyThen
  <2> DEFINE u == update_last_reporting_date(db, c)
  <2>3. u.put["blacklist"] = {} /\ u.put["roster"] = {}
    BY <2>1
  <2> HIDE DEF u
  <2>4. /\ Then(u, out.effect).put["blacklist"] \subseteq out.effect.put["blacklist"]
        /\ Then(u, out.effect).put["roster"] \subseteq out.effect.put["roster"]
    BY <2>1, <2>3 DEF Then, Without
  <2>5. Then(u, out.effect).drop["roster"] = u.drop["roster"] \cup out.effect.drop["roster"]
    BY <2>1 DEF Then
  <2> QED BY <2>2, <2>4, <2>5 DEF u
<1>5. /\ <<"person", c>> \in Topics(c, text)
      /\ text.word \in {"join", "quit"} => <<"roster", c>> \in Topics(c, text)
  <2>1. <<"person", c>> \in Topics(c, text)
    BY Zenon DEF Topics, About
  <2>2. ASSUME text.word \in {"join", "quit"} PROVE <<"roster", c>> \in Topics(c, text)
    <3>1. KindOf(text) = "word"
      BY <2>2, Zenon DEF KindOf
    <3>2. <<"roster", c>> \in About({c})
      BY DEF About
    <3> QED BY <3>1, <3>2 DEF Topics
  <2> QED BY <2>1, <2>2
<1>10. \A r \in e.put["roster"] : r.script = AUTOREG /\ <<"roster", r.conn>> \in Topics(c, text)
  BY <1>4, <1>5, EducationWrites
<1>11. \A b \in e.put["blacklist"] :
         /\ b.id = c /\ <<"roster", c>> \in Topics(c, text)
         /\ \A r \in db["roster"] : r.conn = c => r.id \in e.drop["roster"]
  BY <1>4, <1>5, EducationWrites
<1> HIDE DEF req, effect, mine
<1>6. \A T \in Schema \ S : t.effect.drop[T] = {} /\ t.effect.put[T] = {}
  BY <1>2, <1>4, TablesThere DEF Only
<1>7. OfMessage(t)
  BY <1>2, <1>3, <1>5, <1>6, <1>10, <1>11 DEF OfMessage, Schema
<1>12. OfPolls(t) /\ PollsRead(t)
  BY <1>2, <1>6, NoPolls DEF Schema
<1>8. Wellformed(t)
  BY <1>2, <1>6, <1>7, <1>10, <1>12 DEF Wellformed, Schema
<1>9. Grounded(t)
  <2>1. t.place # "written" => ~Blacklisted(db, t.on.conn)
    BY <1>2, <1>3, EducationWrites
  <2>2. \A T \in {"responses", "polls", "recipients", "submissions"} : t.effect.put[T] = {}
    BY <1>6 DEF Schema
  <2>3. t.effect.drop["asked"] = {}
    BY <1>6 DEF Schema
  <2>4. /\ \A r \in t.effect.put["roster"] : r.script = AUTOREG
        /\ \A b \in t.effect.put["blacklist"], r \in db["roster"] :
             r.conn = b.id => r.id \in t.effect.drop["roster"]
    BY <1>2, <1>10, <1>11
  <2>5. \A r \in t.effect.put["roster"] : r.script = AUTOREG \/ ~Blacklisted(db, r.conn)
    BY <2>4
  <2> QED BY <1>12, <2>1, <2>2, <2>3, <2>4, <2>5 DEF Grounded
<1> QED BY <1>1, <1>8, <1>9, Zenon
-----------------------------------------------------------------------------
(***************************************************************************)
(* The steps.                                                              *)
(***************************************************************************)

LEMMA StepKinds ==
  ASSUME Next, PollTable(db["polls"])
  PROVE  \/ \E t : Begin(t) /\ Wellformed(t) /\ Grounded(t)
         \/ \E n \in DOMAIN open :
              PollPhase(n) \/ FormPhase(n) \/ MassTextCommits(n) \/ Finish(n) \/ Fail(n)
         \/ UNCHANGED database
<1>1. CASE \E c \in Connections, text \in Texts : Receive(c, text)
  BY <1>1, ReceiveIs
<1>2. CASE EndRun \/ AddConnections \/ EditReporter \/ RescheduleScripts \/ ScheduleNow
            \/ SpecialScript \/ ScheduleWaterPolls
  BY <1>2, EndRunIs, AddConnectionsIs, EditReporterIs, RescheduleScriptsIs, ScheduleNowIs,
     SpecialScriptIs, ScheduleWaterPollsIs
<1>3. CASE RemoveConnection \/ CreatePoll \/ StartPoll \/ EndPoll \/ EditPoll \/ DeletePoll
  BY <1>3, RemoveConnectionIs, CreatePollIs, StartPollIs, EndPollIs, EditPollIs, DeletePollIs
<1>4. CASE ChangeRules \/ AddCategory \/ EditCategory \/ DeleteCategory \/ EditResponse
            \/ DeleteResponse \/ EditSubmission
  BY <1>4, ChangeRulesIs, CategoriesIs, EditResponseIs, DeleteResponseIs, EditSubmissionIs
<1>5. CASE \E n \in DOMAIN open :
             PollPhase(n) \/ FormPhase(n) \/ MassTextCommits(n) \/ Finish(n) \/ Fail(n)
  BY <1>5
<1>6. CASE NextDay
  BY <1>6 DEF NextDay
<1> QED BY <1>1, <1>2, <1>3, <1>4, <1>5, <1>6 DEF Next

\* What the poll app may write: one response of the sender, to a running poll.
LEMMA HandleWrites ==
  ASSUME NEW d, NEW n, NEW c, NEW words, NEW e \in Handle(d, n, c, words)
  PROVE  /\ Only(e, AnswerTables)
         /\ \A r \in e.put["responses"] : r.conn = c /\ \E p \in Running(d, c) : p.id = r.poll
<1> DEFINE Fine(f) ==
             /\ Only(f, AnswerTables)
             /\ \A r \in f.put["responses"] : r.conn = c /\ \E p \in Running(d, c) : p.id = r.poll
<1>1. PICK p \in Latest(d, c) :
        LET g   == process_response(d, n, p, c, words)
            new == CHOOSE r \in After(d, g)["responses"] : r.id = n
            old == ResponsesOf(d, p.id, c)
        IN e \in IF p.rule = "all" \/ old = {} \/ Raises(d, p.id, Matching(d, p.id, words)) THEN {g}
                 ELSE {IF Kept(r, new) THEN Then(g, Erased(d, {r})) ELSE NoEffect : r \in old}
  BY Zenon DEF Handle
<1> DEFINE g == process_response(d, n, p, c, words)
<1>2. p \in Running(d, c)
  BY DEF Latest
<1>3. ASSUME NEW f, NEW h, Fine(f), Only(h, AnswerTables), h.put["responses"] = {}
      PROVE  Fine(Then(f, h))
  <2>1. Only(Then(f, h), AnswerTables)
    BY <1>3, OnlyThen
  <2>2. Then(f, h).put["responses"] \subseteq f.put["responses"]
    BY <1>3, TablesThere DEF Then, Without, Schema
  <2> QED BY <1>3, <2>1, <2>2
<1>4. ASSUME NEW bad PROVE Fine(Response(n, p, c, words, bad))
  BY <1>2, TablesThere, OnlyBasic, PutBasic DEF Response, Schema, AnswerTables
<1>5. ASSUME NEW R PROVE Only(Inserted("labels", R), AnswerTables) /\ Inserted("labels", R).put["responses"] = {}
  BY TablesThere, OnlyBasic, PutBasic DEF Schema, AnswerTables
<1>6. Fine(NoEffect)
  BY TablesThere, NoEffectAt DEF Only, Schema
<1>7. \A R : Only(Erased(d, R), AnswerTables) /\ Erased(d, R).put["responses"] = {}
  BY TablesThere, ErasedAnswers DEF Schema
<1> HIDE DEF Fine
<1>8. Fine(g)
  BY <1>3, <1>4, <1>5 DEF process_response
<1>9. e \in {g, NoEffect} \cup {Then(g, Erased(d, {r})) : r \in ResponsesOf(d, p.id, c)}
  BY <1>1
<1> HIDE DEF g
<1>10. Fine(e)
  BY <1>3, <1>6, <1>7, <1>8, <1>9
<1> QED BY <1>10 DEF Fine

-----------------------------------------------------------------------------
(***************************************************************************)
(* The open requests.                                                      *)
(***************************************************************************)

\* The open requests are what their kinds say, and two that are about the same
\* thing have left a mark in history.
RequestsOK ==
  /\ serial \in Nat /\ DOMAIN open \subseteq 1 .. serial /\ open = [n \in DOMAIN open |-> open[n]]
  /\ \A n \in DOMAIN open : Wellformed(open[n])
  /\ \A n, k \in DOMAIN open : n # k => Meet(open[n], open[k]) \subseteq history
  /\ PollTable(db["polls"])

\* What a step does to the open requests: one is there that was not, one has
\* gone, or one has gone on and is about the same things.
LEMMA BeginOpen ==
  ASSUME RequestsOK, NEW t, Begin(t)
  PROVE  /\ serial' = serial + 1 /\ serial' \notin DOMAIN open
         /\ DOMAIN open' = DOMAIN open \cup {serial'} /\ open' = [n \in DOMAIN open' |-> open'[n]]
         /\ open'[serial'] = t /\ \A n \in DOMAIN open : open'[n] = open[n]
         /\ db' = db /\ history \subseteq history'
         /\ \A n \in DOMAIN open : Meet(t, open[n]) \subseteq history'
<1>1. serial' = serial + 1 /\ serial' \notin DOMAIN open
  BY DEF RequestsOK, Begin
<1>2. open' = [n \in DOMAIN open \cup {serial'} |-> IF n = serial' THEN t ELSE open[n]]
  BY DEF Begin
<1>3. db' = db /\ history' = history \cup UNION {Meet(t, open[n]) : n \in DOMAIN open}
  BY DEF Begin
<1> QED BY <1>1, <1>2, <1>3

LEMMA ClosedOpen ==
  ASSUME NEW n, open' = Closed(n)
  PROVE  /\ DOMAIN open' = DOMAIN open \ {n} /\ open' = [k \in DOMAIN open' |-> open'[k]]
         /\ \A k \in DOMAIN open' : open'[k] = open[k]
BY DEF Closed

\* A request that has gone on: the effect and the place are others.
Further(t, effect, place) == Request(t.kind, t.on, place, effect, t.reads, t.writes, t.notes)

LEMMA FurtherIs ==
  ASSUME NEW t, NEW effect, NEW place
  PROVE  LET u == Further(t, effect, place)
         IN /\ Shape(u) /\ u.kind = t.kind /\ u.on = t.on /\ u.place = place /\ u.effect = effect
            /\ u.reads = t.reads /\ u.writes = t.writes /\ u.notes = t.notes
BY DEF Further, Shape, Request

GoOn(n, e, place) == open' = [open EXCEPT ![n].effect = e, ![n].place = place]

LEMMA GoesOn ==
  ASSUME RequestsOK, NEW n \in DOMAIN open, NEW e, NEW place, GoOn(n, e, place)
  PROVE  /\ DOMAIN open' = DOMAIN open /\ open' = [k \in DOMAIN open' |-> open'[k]]
         /\ open'[n] = Further(open[n], e, place)
         /\ \A k \in DOMAIN open : k # n => open'[k] = open[k]
<1> DEFINE t == open[n]
<1>1. /\ DOMAIN open' = DOMAIN open /\ open' = [k \in DOMAIN open' |-> open'[k]]
      /\ \A k \in DOMAIN open : k # n => open'[k] = open[k]
      /\ open'[n] = [[t EXCEPT !.effect = e] EXCEPT !.place = place]
  BY DEF RequestsOK, GoOn
<1>2. t = Request(t.kind, t.on, t.place, t.effect, t.reads, t.writes, t.notes)
  BY DEF RequestsOK, Wellformed, Shape
<1>3. [[t EXCEPT !.effect = e] EXCEPT !.place = place] = Further(t, e, place)
  <2> HIDE DEF t
  <2>1. PICK kind, on, at, effect, reads, writes, notes :
          t = Request(kind, on, at, effect, reads, writes, notes)
    BY <1>2, Zenon
  <2> DEFINE old == Request(kind, on, at, effect, reads, writes, notes)
             mid == Request(kind, on, at, e, reads, writes, notes)
             new == Request(kind, on, place, e, reads, writes, notes)
  <2>2. [old EXCEPT !.effect = e] = mid
    BY DEF Request
  <2>3. [mid EXCEPT !.place = place] = new
    BY DEF Request
  <2>4. [[old EXCEPT !.effect = e] EXCEPT !.place = place] = new
    <3> HIDE DEF old, mid, new
    <3> QED BY <2>2, <2>3, Zenon
  <2>5. /\ old.kind = kind /\ old.on = on /\ old.reads = reads /\ old.writes = writes /\ old.notes = notes
    BY DEF Request
  <2> HIDE DEF old
  <2>6. t = old
    BY <2>1 DEF old
  <2>7. Further(t, e, place) = new
    BY <2>5, <2>6 DEF Further, new
  <2> QED BY <2>4, <2>6, <2>7, Zenon
<1> QED BY <1>1, <1>3

\* A message in the poll app or the forms, with what they write.
LEMMA MessageWellformed ==
  ASSUME NEW t, Wellformed(t), t.kind = "message", NEW e, NEW place \in {"written", "xforms"},
         Only(e, AnswerTables \cup {"submissions"}),
         \A T \in {"responses", "submissions"} : \A r \in e.put[T] : r.conn = t.on.conn,
         \A s \in e.put["submissions"] : Whole(s)
  PROVE  Wellformed(Further(t, Then(t.effect, e), place))
<1> DEFINE f == Then(t.effect, e)
           u == Further(t, f, place)
<1>1. /\ Shape(u) /\ u.kind = t.kind /\ u.on = t.on /\ u.place = place /\ u.effect = f
      /\ u.reads = t.reads /\ u.writes = t.writes
  BY FurtherIs
<1>2. ASSUME NEW T \in Schema PROVE f.put[T] \subseteq t.effect.put[T] \cup e.put[T]
  BY TablesThere DEF Then, Without
<1>3. ASSUME NEW T \in Schema \ (AnswerTables \cup {"submissions"}) PROVE e.put[T] = {} /\ e.drop[T] = {}
  BY TablesThere DEF Only
<1>4. ASSUME NEW T \in Schema \ (AnswerTables \cup {"submissions"}) PROVE f.drop[T] = t.effect.drop[T]
  BY <1>3, TablesThere DEF Then
<1> HIDE DEF f, u
<1>5. OfMessage(u)
  BY <1>1, <1>2, <1>3 DEF OfMessage, Wellformed, Schema, AnswerTables
<1>6. /\ f.put["polls"] = {} /\ f.put["recipients"] = {} /\ f.put["asked"] = {}
      /\ f.put["roster"] \subseteq t.effect.put["roster"]
  BY <1>2, <1>3 DEF OfMessage, Wellformed, Schema, AnswerTables
<1>7. f.drop["asked"] = {} /\ f.drop["tombstones"] = {}
  BY <1>4 DEF Wellformed, Schema, AnswerTables
<1>8. \A s \in f.put["submissions"] : Whole(s)
  BY <1>2 DEF Wellformed, Schema
<1>10. t.effect.drop["polls"] = {}
  BY DEF Wellformed, OfPolls, OfMessage, Buried
<1>11. OfPolls(u)
  BY <1>1, <1>4, <1>6, <1>10, NoPolls DEF Schema, AnswerTables
<1>9. Wellformed(u)
  BY <1>1, <1>5, <1>6, <1>7, <1>8, <1>11 DEF Wellformed
<1> QED BY <1>9 DEF u, f

\* What a phase of a message writes: a response to a running poll, or a
\* submission that is whole or in error; all of it is the sender's.
Phase(n, e, place) ==
  /\ open[n].kind = "message" /\ open[n].place # "written" /\ place \in {"written", "xforms"}
  /\ open' = [open EXCEPT ![n].effect = Then(open[n].effect, e), ![n].place = place]
  /\ UNCHANGED <<db, serial, history>>
  /\ Only(e, AnswerTables \cup {"submissions"})
  /\ \A T \in {"responses", "submissions"} : \A r \in e.put[T] : r.conn = open[n].on.conn
  /\ \A r \in e.put["responses"] : \E p \in Running(Seen(n), r.conn) : p.id = r.poll
  /\ \A s \in e.put["submissions"] : Whole(s)

LEMMA ContinueIs ==
  ASSUME RequestsOK, NEW n \in DOMAIN open, NEW e, NEW place, Continue(n, e, place)
  PROVE  /\ open' = [open EXCEPT ![n].effect = Then(open[n].effect, e), ![n].place = place]
         /\ UNCHANGED <<db, serial, history>>
BY DEF Continue

LEMMA PollPhaseIs ==
  ASSUME RequestsOK, NEW n \in DOMAIN open, PollPhase(n)
  PROVE  \E e, place :
           /\ Phase(n, e, place) /\ open[n].place = "poll"
           /\ e = NoEffect \/ e \in Handle(Seen(n), n, open[n].on.conn, open[n].on.text.words)
<1> DEFINE c == open[n].on.conn
           text == open[n].on.text
           may == IF Contact(Seen(n), c) = {} THEN {} ELSE Handle(Seen(n), n, c, text.words)
           place == IF KindOf(text) = "form" THEN "xforms" ELSE "written"
<1>1. PICK e \in IF may = {} THEN {NoEffect} ELSE may :
        open[n].place = "poll" /\ Continue(n, e, place)
  BY Zenon DEF PollPhase
<1>2. open[n].kind = "message"
  BY <1>1 DEF RequestsOK, Wellformed
<1>3. e = NoEffect \/ e \in Handle(Seen(n), n, c, text.words)
  BY <1>1
<1>4. /\ Only(e, AnswerTables)
      /\ \A r \in e.put["responses"] : r.conn = c /\ \E p \in Running(Seen(n), c) : p.id = r.poll
  <2>1. CASE e = NoEffect
    BY <2>1, TablesThere, NoEffectAt DEF Only, Schema
  <2>2. CASE e \in Handle(Seen(n), n, c, text.words)
    BY <2>2, HandleWrites
  <2> QED BY <1>3, <2>1, <2>2
<1>5. Only(e, AnswerTables \cup {"submissions"}) /\ e.put["submissions"] = {}
  BY <1>4, TablesThere DEF Only, AnswerTables, Schema
<1>6. /\ open' = [open EXCEPT ![n].effect = Then(open[n].effect, e), ![n].place = place]
      /\ UNCHANGED <<db, serial, history>>
  BY <1>1, ContinueIs
<1>7. place \in {"written", "xforms"}
  OBVIOUS
<1> HIDE DEF place, may
<1>8. Phase(n, e, place)
  BY <1>1, <1>2, <1>4, <1>5, <1>6, <1>7 DEF Phase
<1> QED BY <1>1, <1>3, <1>8

LEMMA FormPhaseIs ==
  ASSUME RequestsOK, NEW n \in DOMAIN open, FormPhase(n)
  PROVE  LET c == open[n].on.conn  text == open[n].on.text
         IN /\ open[n].place = "xforms"
            /\ \E f \in find_form(text.word, text.rest) :
                 Phase(n, Submit(Seen(n), n, f, c, text.rest), "written")
<1> DEFINE c == open[n].on.conn
           text == open[n].on.text
           e(f) == Submit(Seen(n), n, f, c, text.rest)
<1>1. PICK f \in find_form(text.word, text.rest) :
        open[n].place = "xforms" /\ Continue(n, e(f), "written")
  BY Zenon DEF FormPhase
<1>2. open[n].kind = "message" /\ text.rest \in Segments
  BY <1>1, IncomingAssumption DEF RequestsOK, Wellformed, OfMessage
<1>3. \A s \in e(f).put["submissions"] : Whole(s)
  BY <1>2, SubmitWhole, TablesThere DEF Schema
<1>4. \A s \in e(f).put["submissions"] : s.conn = c
  BY TablesThere, PutBasic DEF Submit, Schema
<1>5. Only(e(f), AnswerTables \cup {"submissions"}) /\ e(f).put["responses"] = {}
  BY TablesThere, OnlyBasic, PutBasic DEF Submit, Schema
<1> HIDE DEF e
<1>6. /\ open' = [open EXCEPT ![n].effect = Then(open[n].effect, e(f)), ![n].place = "written"]
      /\ UNCHANGED <<db, serial, history>>
  BY <1>1, ContinueIs
<1>7. Phase(n, e(f), "written")
  BY <1>1, <1>2, <1>3, <1>4, <1>5, <1>6 DEF Phase
<1> QED BY <1>1, <1>7 DEF e

\* The texts of a poll that starts are committed, and it goes on with its date.
LEMMA MassTextIs ==
  ASSUME RequestsOK, NEW n \in DOMAIN open, MassTextCommits(n)
  PROVE  LET t == open[n]  e == Started(n, t.on)
         IN /\ t.kind = "start" /\ t.effect = NoEffect /\ <<"recipients", t.on.id>> \in t.reads
            /\ open' = [open EXCEPT ![n].effect = e, ![n].place = "written"]
            /\ Write(Then(NoEffect, Questions(db, n, t.on.id))) /\ UNCHANGED <<serial, history>>
            /\ Only(e, {"polls"}) /\ e.put["polls"] = {[t.on EXCEPT !.start = n]} /\ e.drop["polls"] = {}
<1>1. /\ open[n].kind = "start" /\ open[n].effect = NoEffect
      /\ <<"recipients", open[n].on.id>> \in open[n].reads
  BY DEF MassTextCommits, RequestsOK, Wellformed
<1>2. /\ Write(Then(open[n].effect, Questions(db, n, open[n].on.id))) /\ UNCHANGED <<serial, history>>
      /\ open' = [open EXCEPT ![n].effect = Started(n, open[n].on), ![n].place = "written"]
  BY DEF MassTextCommits, CommitPart
<1>3. /\ Only(Started(n, open[n].on), {"polls"})
      /\ Started(n, open[n].on).put["polls"] = {[open[n].on EXCEPT !.start = n]}
      /\ Started(n, open[n].on).drop["polls"] = {}
  BY TablesThere, OnlyBasic, PutBasic, DropBasic DEF Started, Schema
<1> QED BY <1>1, <1>2, <1>3

LEMMA PartWellformed ==
  ASSUME NEW t, Wellformed(t), t.kind = "start", <<"recipients", t.on.id>> \in t.reads,
         NEW e, NEW n \in Nat, Only(e, {"polls"}), e.put["polls"] = {[t.on EXCEPT !.start = n]},
         e.drop["polls"] = {}
  PROVE  Wellformed(Further(t, e, "written"))
<1> DEFINE u == Further(t, e, "written")
           row == [t.on EXCEPT !.start = n]
<1>1. /\ Shape(u) /\ u.kind = t.kind /\ u.on = t.on /\ u.place = "written" /\ u.effect = e
      /\ u.reads = t.reads /\ u.writes = t.writes
  BY FurtherIs
<1>2. \A T \in Schema \ {"polls"} : e.put[T] = {} /\ e.drop[T] = {}
  BY TablesThere DEF Only
<1>3. row.id = t.on.id
  OBVIOUS
<1> HIDE DEF u, row
<1>4. e.put["polls"] = {row}
  BY DEF row
<1>7. <<"dates", t.on.id>> \in t.writes /\ t.on \in Poll
  BY DEF Wellformed, OfPolls
<1>8. row \in Poll
  BY <1>7 DEF Poll, row
<1>6. OfPolls(u)
  BY <1>1, <1>3, <1>4, <1>7, <1>8 DEF OfPolls, PollTable, Unique
<1>5. Wellformed(u)
  BY <1>1, <1>2, <1>3, <1>4, <1>6 DEF Wellformed, Schema
<1> QED BY <1>5 DEF u

LEMMA WritePolls ==
  ASSUME NEW e, Write(e), PollTable(db["polls"]), PollTable(e.put["polls"])
  PROVE  PollTable(db'["polls"])
<1>1. "polls" \in Tables
  BY TablesThere DEF Schema
<1>2. Unique(db'["polls"])
  BY <1>1, WriteUnique DEF PollTable
<1>3. db'["polls"] \subseteq Poll
  BY <1>1, WriteAt DEF PollTable
<1> QED BY <1>2, <1>3 DEF PollTable

LEMMA InitRequests ==
  ASSUME Init
  PROVE  RequestsOK
<1>1. PICK w \in Workloads : db = w.db
  BY DEF Init
<1>2. PollTable(db["polls"])
  BY <1>1, IncomingAssumption DEF PollTable, Unique
<1>3. serial = 0 /\ open = << >> /\ DOMAIN open = {} /\ open = [n \in DOMAIN open |-> open[n]]
  BY DEF Init
<1> QED BY <1>2, <1>3 DEF RequestsOK

LEMMA MeetBoth ==
  ASSUME NEW t, NEW u
  PROVE  Meet(t, u) = Meet(u, t)
BY DEF Meet

LEMMA BeginKeepsRequests ==
  ASSUME RequestsOK, NEW t, Begin(t), Wellformed(t)
  PROVE  RequestsOK'
<1>1. serial' \in Nat /\ DOMAIN open' \subseteq 1 .. serial' /\ open' = [n \in DOMAIN open' |-> open'[n]]
  BY BeginOpen DEF RequestsOK
<1>2. ASSUME NEW n \in DOMAIN open' PROVE Wellformed(open'[n])
  BY BeginOpen DEF RequestsOK
<1>3. ASSUME NEW n \in DOMAIN open', NEW k \in DOMAIN open', n # k
      PROVE  Meet(open'[n], open'[k]) \subseteq history'
  <2>1. CASE n = serial'
    BY <1>3, <2>1, BeginOpen
  <2>2. CASE k = serial'
    <3>1. Meet(open'[k], open'[n]) \subseteq history'
      BY <1>3, <2>2, BeginOpen
    <3> QED BY <3>1, MeetBoth
  <2>3. CASE n # serial' /\ k # serial'
    <3>1. n \in DOMAIN open /\ k \in DOMAIN open /\ open'[n] = open[n] /\ open'[k] = open[k]
      BY <2>3, BeginOpen
    <3>2. history \subseteq history' /\ Meet(open[n], open[k]) \subseteq history
      BY <1>3, <3>1, BeginOpen DEF RequestsOK
    <3> QED BY <3>1, <3>2
  <2> QED BY <2>1, <2>2, <2>3
<1>4. PollTable(db'["polls"])
  BY BeginOpen DEF RequestsOK
<1> QED BY <1>1, <1>2, <1>3, <1>4 DEF RequestsOK

\* A request goes on, and what it reads and writes is as it was.
LEMMA GoesOnKeepsRequests ==
  ASSUME RequestsOK, NEW n \in DOMAIN open, NEW e, NEW place,
         open' = [open EXCEPT ![n].effect = e, ![n].place = place],
         serial' = serial, history' = history, PollTable(db'["polls"]),
         Wellformed(Further(open[n], e, place))
  PROVE  RequestsOK'
<1>1. /\ DOMAIN open' = DOMAIN open /\ open' = [k \in DOMAIN open' |-> open'[k]]
      /\ open'[n] = Further(open[n], e, place)
      /\ \A k \in DOMAIN open : k # n => open'[k] = open[k]
  BY GoesOn DEF GoOn
<1>2. ASSUME NEW k \in DOMAIN open' PROVE Wellformed(open'[k])
  BY <1>1 DEF RequestsOK
<1>3. ASSUME NEW k \in DOMAIN open
      PROVE  open'[k].reads = open[k].reads /\ open'[k].writes = open[k].writes
  BY <1>1, FurtherIs
<1>4. ASSUME NEW j \in DOMAIN open', NEW k \in DOMAIN open', j # k
      PROVE  Meet(open'[j], open'[k]) \subseteq history'
  <2>1. Meet(open'[j], open'[k]) = Meet(open[j], open[k])
    BY <1>1, <1>3 DEF Meet
  <2> QED BY <1>1, <1>4, <2>1 DEF RequestsOK
<1> QED BY <1>1, <1>2, <1>4 DEF RequestsOK

LEMMA ClosedKeepsRequests ==
  ASSUME RequestsOK, NEW n \in DOMAIN open, open' = Closed(n),
         serial' = serial, history \subseteq history', PollTable(db'["polls"])
  PROVE  RequestsOK'
<1>1. /\ DOMAIN open' = DOMAIN open \ {n} /\ open' = [k \in DOMAIN open' |-> open'[k]]
      /\ \A k \in DOMAIN open' : open'[k] = open[k]
  BY ClosedOpen
<1>2. \A k \in DOMAIN open' : Wellformed(open'[k])
  BY <1>1 DEF RequestsOK
<1>3. ASSUME NEW j \in DOMAIN open', NEW k \in DOMAIN open', j # k
      PROVE  Meet(open'[j], open'[k]) \subseteq history'
  BY <1>1, <1>3 DEF RequestsOK
<1> QED BY <1>1, <1>2, <1>3 DEF RequestsOK

\* What a phase, and the commit of the texts, leave of the open requests.
LEMMA PhaseOpen ==
  ASSUME RequestsOK, NEW n \in DOMAIN open, NEW e, NEW place, Phase(n, e, place)
  PROVE  /\ DOMAIN open' = DOMAIN open /\ db' = db /\ history' = history
         /\ open'[n] = Further(open[n], Then(open[n].effect, e), place)
         /\ \A k \in DOMAIN open : k # n => open'[k] = open[k]
<1>1. GoOn(n, Then(open[n].effect, e), place) /\ db' = db /\ history' = history
  BY DEF Phase, GoOn
<1> QED BY <1>1, GoesOn

LEMMA MassTextOpen ==
  ASSUME RequestsOK, NEW n \in DOMAIN open, MassTextCommits(n)
  PROVE  /\ DOMAIN open' = DOMAIN open /\ history' = history
         /\ open'[n] = Further(open[n], Started(n, open[n].on), "written")
         /\ \A k \in DOMAIN open : k # n => open'[k] = open[k]
<1>1. GoOn(n, Started(n, open[n].on), "written") /\ history' = history
  BY MassTextIs DEF GoOn
<1> QED BY <1>1, GoesOn

\* The steps, as they change the open requests and the tables.
StepIs ==
  \/ \E t : Begin(t) /\ Wellformed(t) /\ Grounded(t)
  \/ \E n \in DOMAIN open : \E e, place : Phase(n, e, place)
  \/ \E n \in DOMAIN open : MassTextCommits(n) \/ Finish(n) \/ Fail(n)
  \/ UNCHANGED database

LEMMA Stepping ==
  ASSUME RequestsOK, [Next]_vars
  PROVE  StepIs
<1>1. CASE Next
  <2>1. PollTable(db["polls"])
    BY DEF RequestsOK
  <2> QED BY <1>1, <2>1, StepKinds, PollPhaseIs, FormPhaseIs DEF StepIs
<1>2. CASE UNCHANGED vars
  BY <1>2 DEF vars, StepIs
<1> QED BY <1>1, <1>2

LEMMA NextRequests ==
  ASSUME RequestsOK, [Next]_vars
  PROVE  RequestsOK'
<1>1. CASE \E t : Begin(t) /\ Wellformed(t) /\ Grounded(t)
  BY <1>1, BeginKeepsRequests
<1>2. CASE \E n \in DOMAIN open : \E e, place : Phase(n, e, place)
  <2>1. PICK n \in DOMAIN open : \E e, place : Phase(n, e, place)
    BY <1>2
  <2>2. PICK e, place : Phase(n, e, place)
    BY <2>1
  <2>3. Wellformed(Further(open[n], Then(open[n].effect, e), place))
    BY <2>2, MessageWellformed DEF Phase, RequestsOK
  <2>4. PollTable(db'["polls"])
    BY <2>2 DEF Phase, RequestsOK
  <2> QED BY <2>2, <2>3, <2>4, GoesOnKeepsRequests DEF Phase
<1>3. CASE \E n \in DOMAIN open : MassTextCommits(n)
  <2>1. PICK n \in DOMAIN open : MassTextCommits(n)
    BY <1>3
  <2> DEFINE t == open[n]
             e == Started(n, t.on)
             f == Then(NoEffect, Questions(db, n, t.on.id))
  <2>2. /\ t.kind = "start" /\ <<"recipients", t.on.id>> \in t.reads
        /\ open' = [open EXCEPT ![n].effect = e, ![n].place = "written"]
        /\ Write(f) /\ UNCHANGED <<serial, history>>
        /\ Only(e, {"polls"}) /\ e.put["polls"] = {[t.on EXCEPT !.start = n]} /\ e.drop["polls"] = {}
    BY <2>1, MassTextIs
  <2>3. Wellformed(Further(t, e, "written"))
    BY <2>2, PartWellformed DEF RequestsOK
  <2>4. "polls" \in Tables /\ f.put["polls"] = {}
    <3>1. "polls" \in Tables /\ Questions(db, n, t.on.id).put["polls"] = {} /\ NoEffect.put["polls"] = {}
      BY TablesThere, PutBasic DEF Questions, Schema
    <3> QED BY <3>1, ThenNothing
  <2> HIDE DEF e, f
  <2>5. PollTable(db'["polls"])
    BY <2>2, <2>4, WritePolls DEF RequestsOK, PollTable, Unique
  <2> QED BY <2>2, <2>3, <2>5, GoesOnKeepsRequests
<1>4. CASE \E n \in DOMAIN open : Finish(n)
  <2>1. PICK n \in DOMAIN open : Finish(n)
    BY <1>4
  <2>2. /\ Write(open[n].effect) /\ open' = Closed(n) /\ serial' = serial
        /\ history' = history \cup open[n].notes
    BY <2>1 DEF Finish, Commit
  <2>3. PollTable(db["polls"]) /\ PollTable(open[n].effect.put["polls"]) /\ "polls" \in Tables
    BY TablesThere DEF RequestsOK, Wellformed, OfPolls, Schema
  <2>4. PollTable(db'["polls"])
    BY <2>2, <2>3, WritePolls
  <2> QED BY <2>2, <2>4, ClosedKeepsRequests
<1>5. CASE \E n \in DOMAIN open : Fail(n)
  <2>1. PICK n \in DOMAIN open : Fail(n)
    BY <1>5
  <2>2. open' = Closed(n) /\ serial' = serial /\ db' = db /\ history \subseteq history'
    BY <2>1 DEF Fail, Rollback
  <2> QED BY <2>2, ClosedKeepsRequests DEF RequestsOK
<1>6. CASE UNCHANGED database
  BY <1>6 DEF database, RequestsOK
<1> QED BY <1>1, <1>2, <1>3, <1>4, <1>5, <1>6, Stepping DEF StepIs

\* The open requests stay what their kinds say, at every interleaving: each
\* has written what its kind may, and two that met have left their mark.
THEOREM RequestsStayOK ==
  Spec => []RequestsOK
<1>1. Init => RequestsOK
  BY InitRequests
<1>2. RequestsOK /\ [Next]_vars => RequestsOK'
  BY NextRequests
<1> QED BY <1>1, <1>2, PTL DEF Spec

\* How a step changes the tables: not, by the questions of a poll that starts,
\* or by what a request has written, which then ends.
LEMMA TablesChange ==
  ASSUME RequestsOK, [Next]_vars
  PROVE  \/ db' = db
         \/ \E n \in DOMAIN open :
              /\ MassTextCommits(n) /\ Write(Then(NoEffect, Questions(db, n, open[n].on.id)))
         \/ \E n \in DOMAIN open : Finish(n) /\ Write(open[n].effect) /\ open' = Closed(n)
<1>1. ASSUME NEW t, Begin(t) PROVE db' = db
  BY <1>1 DEF Begin
<1>2. ASSUME NEW n, NEW e, NEW place, Phase(n, e, place) PROVE db' = db
  BY <1>2 DEF Phase
<1>3. ASSUME NEW n \in DOMAIN open, MassTextCommits(n)
      PROVE  Write(Then(NoEffect, Questions(db, n, open[n].on.id)))
  BY <1>3, MassTextIs
<1>4. ASSUME NEW n \in DOMAIN open, Finish(n)
      PROVE  Write(open[n].effect) /\ open' = Closed(n)
  BY <1>4 DEF Finish, Commit
<1>5. ASSUME NEW n \in DOMAIN open, Fail(n) PROVE db' = db
  BY <1>5 DEF Fail, Rollback
<1>6. UNCHANGED database => db' = db
  BY DEF database
<1> QED BY <1>1, <1>2, <1>3, <1>4, <1>5, <1>6, Stepping DEF StepIs

\* The questions of a poll touch no other table.
LEMMA QuestionsAt ==
  ASSUME NEW n, NEW p, Write(Then(NoEffect, Questions(db, n, p))), NEW T \in Tables \ {"asked"}
  PROVE  db'[T] = db[T]
<1> DEFINE e == Then(NoEffect, Questions(db, n, p))
<1>1. "asked" \in Tables
  BY TablesThere DEF Schema
<1>2. e.put[T] = {} /\ e.drop[T] = {}
  BY <1>1, PutBasic, DropBasic, ThenNothing DEF Questions
<1> HIDE DEF e
<1>3. db'[T] \subseteq db[T] \cup e.put[T] /\ \A r \in db[T] : r.id \notin e.drop[T] \cup Ids(e.put[T]) => r \in db'[T]
  BY WriteAt DEF e
<1>4. Ids(e.put[T]) = {}
  BY <1>2 DEF Ids
<1> QED BY <1>2, <1>3, <1>4

-----------------------------------------------------------------------------
(***************************************************************************)
(* Submissions are whole.                                                  *)
(***************************************************************************)

\* A submission that is not in error is complete: whatever the order of values
\* and commands in its message, and after any edit.
THEOREM SubmissionsComplete ==
  Spec => []CompleteSubmission
<1> DEFINE Inv == \A s \in db["submissions"] : Whole(s)
<1>1. Init => Inv
  BY IncomingAssumption DEF Init
<1>2. ASSUME Inv, RequestsOK, [Next]_vars PROVE Inv'
  <2>1. CASE db' = db
    BY <1>2, <2>1
  <2>2. ASSUME NEW n \in DOMAIN open, Write(open[n].effect) PROVE Inv'
    <3>1. db'["submissions"] \subseteq db["submissions"] \cup open[n].effect.put["submissions"]
      BY <2>2, WriteAt, TablesThere DEF Schema
    <3>2. \A s \in open[n].effect.put["submissions"] : Whole(s)
      BY <1>2 DEF RequestsOK, Wellformed
    <3> QED BY <1>2, <3>1, <3>2
  <2>3. ASSUME NEW n \in DOMAIN open, Write(Then(NoEffect, Questions(db, n, open[n].on.id))) PROVE Inv'
    BY <1>2, <2>3, QuestionsAt, TablesThere DEF Schema
  <2> QED BY <1>2, <2>1, <2>2, <2>3, TablesChange
<1>3. Inv => CompleteSubmission
  BY DEF Whole, CompleteSubmission
<1> HIDE DEF Inv
<1> QED BY <1>1, <1>2, <1>3, RequestsStayOK, PTL DEF Spec

-----------------------------------------------------------------------------
(***************************************************************************)
(* Nothing is taken from those who have quit.                              *)
(***************************************************************************)

\* The message of t is heard: the other apps see it, or have taken it.
Heard(t) ==
  /\ t.kind = "message"
  /\ t.place # "written" \/ t.effect.put["responses"] # {} \/ t.effect.put["submissions"] # {}

\* Whoever is heard has not quit, or does so in a request beside this one.
QuitNotHeard ==
  \A n \in DOMAIN open : LET c == open[n].on.conn
    IN Heard(open[n]) => ~Blacklisted(db, c) \/ <<"person", c>> \in history

LEMMA PersonsMeet ==
  ASSUME RequestsOK, NEW n \in DOMAIN open, NEW k \in DOMAIN open, n # k,
         open[n].kind = "message", open[k].kind = "message", open[n].on.conn = open[k].on.conn
  PROVE  <<"person", open[k].on.conn>> \in history
<1>1. /\ <<"person", open[n].on.conn>> \in open[n].writes
      /\ <<"person", open[k].on.conn>> \in open[k].writes
  BY DEF RequestsOK, Wellformed, OfMessage
<1>2. Meet(open[n], open[k]) \subseteq history
  BY DEF RequestsOK
<1> QED BY <1>1, <1>2 DEF Meet

\* Only a message puts anybody on the blacklist, and only its sender.
LEMMA BlacklistWritten ==
  ASSUME RequestsOK, NEW n \in DOMAIN open, Write(open[n].effect), NEW c,
         Blacklisted(db', c), ~Blacklisted(db, c)
  PROVE  open[n].kind = "message" /\ open[n].on.conn = c
<1>1. "blacklist" \in Tables
  BY TablesThere DEF Schema
<1>2. PICK b \in db'["blacklist"] : b.id = c
  BY DEF Blacklisted, Select
<1>3. b \in open[n].effect.put["blacklist"]
  BY <1>1, <1>2, WriteAt DEF Blacklisted, Select
<1> QED BY <1>2, <1>3 DEF RequestsOK, Wellformed, OfMessage

LEMMA NextQuitNotHeard ==
  ASSUME RequestsOK, QuitNotHeard, [Next]_vars
  PROVE  QuitNotHeard'
<1>1. ASSUME NEW t, Begin(t), Wellformed(t), Grounded(t) PROVE QuitNotHeard'
  <2>1. /\ DOMAIN open' = DOMAIN open \cup {serial'} /\ open'[serial'] = t
        /\ \A n \in DOMAIN open : open'[n] = open[n]
        /\ db' = db /\ history \subseteq history'
    BY <1>1, BeginOpen
  <2>2. Heard(t) => ~Blacklisted(db, t.on.conn)
    BY <1>1 DEF Grounded, Heard
  <2> QED BY <2>1, <2>2 DEF QuitNotHeard
<1>2. ASSUME NEW n \in DOMAIN open, NEW e, NEW place, Phase(n, e, place) PROVE QuitNotHeard'
  <2> DEFINE u == Further(open[n], Then(open[n].effect, e), place)
  <2>1. /\ DOMAIN open' = DOMAIN open /\ open'[n] = u
        /\ \A k \in DOMAIN open : k # n => open'[k] = open[k]
        /\ db' = db /\ history' = history
    BY <1>2, PhaseOpen
  <2>2. u.on = open[n].on
    BY FurtherIs
  <2>3. Heard(open[n])
    BY <1>2 DEF Phase, Heard
  <2> HIDE DEF u
  <2> QED BY <2>1, <2>2, <2>3 DEF QuitNotHeard
<1>3. ASSUME NEW n \in DOMAIN open, MassTextCommits(n) PROVE QuitNotHeard'
  <2> DEFINE e == Started(n, open[n].on)
             u == Further(open[n], e, "written")
  <2>1. /\ open[n].kind = "start" /\ history' = history
        /\ Write(Then(NoEffect, Questions(db, n, open[n].on.id)))
    BY <1>3, MassTextIs
  <2>2. db'["blacklist"] = db["blacklist"]
    BY <2>1, QuestionsAt, TablesThere DEF Schema
  <2>3. \A c : Blacklisted(db', c) = Blacklisted(db, c)
    BY <2>2 DEF Blacklisted, Select
  <2>4. /\ DOMAIN open' = DOMAIN open /\ open'[n] = u
        /\ \A k \in DOMAIN open : k # n => open'[k] = open[k]
    BY <1>3, MassTextOpen
  <2>5. u.kind = "start"
    BY <2>1, FurtherIs
  <2> HIDE DEF u
  <2> QED BY <2>1, <2>3, <2>4, <2>5 DEF QuitNotHeard, Heard
<1>4. ASSUME NEW n \in DOMAIN open, Finish(n) PROVE QuitNotHeard'
  <2>1. Write(open[n].effect) /\ open' = Closed(n) /\ history \subseteq history'
    BY <1>4 DEF Finish, Commit
  <2>2. DOMAIN open' = DOMAIN open \ {n} /\ \A k \in DOMAIN open' : open'[k] = open[k]
    BY <2>1, ClosedOpen
  <2>3. ASSUME NEW k \in DOMAIN open', Heard(open[k]), Blacklisted(db', open[k].on.conn)
        PROVE  <<"person", open[k].on.conn>> \in history'
    <3>1. CASE Blacklisted(db, open[k].on.conn)
      BY <2>1, <2>2, <2>3, <3>1 DEF QuitNotHeard
    <3>2. CASE ~Blacklisted(db, open[k].on.conn)
      <4>1. open[n].kind = "message" /\ open[n].on.conn = open[k].on.conn
        BY <2>1, <2>3, <3>2, BlacklistWritten
      <4>2. open[k].kind = "message" /\ n # k /\ k \in DOMAIN open
        BY <2>2, <2>3 DEF Heard
      <4> QED BY <2>1, <4>1, <4>2, PersonsMeet
    <3> QED BY <3>1, <3>2
  <2> QED BY <2>2, <2>3 DEF QuitNotHeard
<1>5. ASSUME NEW n \in DOMAIN open, Fail(n) PROVE QuitNotHeard'
  <2>1. open' = Closed(n) /\ db' = db /\ history \subseteq history'
    BY <1>5 DEF Fail, Rollback
  <2> QED BY <2>1, ClosedOpen DEF QuitNotHeard
<1>6. UNCHANGED database => QuitNotHeard'
  BY DEF database, QuitNotHeard
<1> QED BY <1>1, <1>2, <1>3, <1>4, <1>5, <1>6, Stepping DEF StepIs

\* No message that begins after its sender has quit leaves a response to a poll
\* or a submission of a form, whatever requests of others are open beside it.
\* Excepted are contacts of whom a quit or the removal was open beside another
\* request of theirs: a message that has passed the blacklist is heard.
THEOREM QuittersAreNotHeard ==
  Spec => NothingAfterQuit
<1> DEFINE Silent ==
             \A T \in {"responses", "submissions"} : \A r \in db'[T] \ db[T] :
               Ends(r.id, {"message"}) /\ Alone("person", r.conn) => ~Blacklisted(db, r.conn)
<1>1. Init => QuitNotHeard
  BY DEF Init, QuitNotHeard
<1>2. RequestsOK /\ QuitNotHeard /\ [Next]_vars => QuitNotHeard'
  BY NextQuitNotHeard
<1>3. RequestsOK /\ QuitNotHeard /\ [Next]_vars => [Silent]_vars
  <2> SUFFICES ASSUME RequestsOK, QuitNotHeard, [Next]_vars,
                      NEW T \in {"responses", "submissions"}, NEW r \in db'[T] \ db[T],
                      Ends(r.id, {"message"}), Alone("person", r.conn)
               PROVE  ~Blacklisted(db, r.conn)
    OBVIOUS
  <2>1. T \in Tables \ {"asked"}
    BY TablesThere DEF Schema
  <2>2. PICK n \in DOMAIN open : Finish(n) /\ Write(open[n].effect) /\ open' = Closed(n)
    BY <2>1, TablesChange, QuestionsAt
  <2>3. r.id = n /\ open[n].kind = "message"
    BY <2>2, ClosedOpen DEF Ends
  <2>4. r \in open[n].effect.put[T]
    BY <2>1, <2>2, WriteAt
  <2>5. r.conn = open[n].on.conn
    BY <2>3, <2>4 DEF RequestsOK, Wellformed, OfMessage
  <2>6. Heard(open[n])
    BY <2>3, <2>4 DEF Heard
  <2> QED BY <2>5, <2>6 DEF QuitNotHeard, Alone
<1> QED BY <1>1, <1>2, <1>3, RequestsStayOK, PTL DEF Spec, NothingAfterQuit

-----------------------------------------------------------------------------
(***************************************************************************)
(* Answers come after their questions.                                     *)
(***************************************************************************)

\* The contact has been asked, or is one of those that nobody is sure of.
Known(p, c) ==
  \/ <<"recipients", p>> \in history \/ Late(p, c) \in history
  \/ \E a \in db["asked"] : a.poll = p /\ a.conn = c

Removed(c) == c \in Connections /\ IsRemoved(db, c)

\* Wherever an answer is, or could still come from, the question has gone out:
\* the responses and those that are written, the polls that have started and
\* those that are about to, and the contacts that are added to one.
AnswersKnown  == \A r \in db["responses"] : Known(r.poll, r.conn)
WrittenKnown  == \A n \in DOMAIN open : \A r \in open[n].effect.put["responses"] :
                   Known(r.poll, r.conn) \/ Removed(r.conn)
StartedKnown  == \A p \in db["polls"] : p.start # 0 => \A c \in Recipients(db, p.id) : Known(p.id, c)
StartingKnown == \A n \in DOMAIN open : \A p \in open[n].effect.put["polls"] :
                   p.start # 0 => \A c \in Recipients(db, p.id) : Known(p.id, c)
AddedKnown    == \A n \in DOMAIN open : \A m \in open[n].effect.put["recipients"] :
                   \A p \in db["polls"] \cup open[n].effect.put["polls"] :
                     p.id = m.poll /\ p.start # 0 =>
                       Known(m.poll, m.conn) \/ Removed(m.conn) \/ Late(m.poll, m.conn) \in open[n].notes

\* A question is found by its poll and contact, and goes only with the contact.
AskedById   == \A a \in db["asked"] : a.poll = a.id[2] /\ a.conn = a.id[3]
UnaskedById == \A n \in DOMAIN open : \A i \in open[n].effect.drop["asked"] : i[3] = open[n].on

QuestionsFirst ==
  AnswersKnown /\ WrittenKnown /\ StartedKnown /\ StartingKnown /\ AddedKnown /\ AskedById /\ UnaskedById

LEMMA InitQuestionsFirst ==
  ASSUME Init
  PROVE  QuestionsFirst
<1>1. PICK w \in Workloads : db = w.db
  BY DEF Init
<1>2. db["responses"] = {} /\ db["asked"] = {} /\ \A p \in db["polls"] : p.start = 0
  BY <1>1, IncomingAssumption
<1>3. DOMAIN open = {}
  BY DEF Init
<1> QED
  BY <1>2, <1>3 DEF QuestionsFirst, AnswersKnown, WrittenKnown, StartedKnown, StartingKnown,
                    AddedKnown, AskedById, UnaskedById

LEMMA BeginQuestionsFirst ==
  ASSUME RequestsOK, QuestionsFirst, NEW t, Begin(t), Wellformed(t), Grounded(t)
  PROVE  QuestionsFirst'
<1>1. /\ DOMAIN open' = DOMAIN open \cup {serial'} /\ open'[serial'] = t
      /\ \A n \in DOMAIN open : open'[n] = open[n]
      /\ db' = db /\ history \subseteq history'
  BY BeginOpen
<1>2. ASSUME NEW q, NEW c
      PROVE  (Known(q, c) => Known(q, c)') /\ (Removed(c) => Removed(c)')
  BY <1>1 DEF Known, Removed, IsRemoved
<1>3. \A q : Recipients(db', q) = Recipients(db, q)
  BY <1>1
<1>4. AnswersKnown' /\ StartedKnown' /\ AskedById'
  BY <1>1, <1>2, <1>3 DEF QuestionsFirst, AnswersKnown, StartedKnown, AskedById
<1>5. WrittenKnown'
  <2>1. \A r \in t.effect.put["responses"] : Known(r.poll, r.conn)
    BY DEF Grounded, QuestionsFirst, AnswersKnown
  <2> QED BY <1>1, <1>2, <2>1 DEF QuestionsFirst, WrittenKnown
<1>6. StartingKnown'
  <2>1. ASSUME NEW q \in t.effect.put["polls"], q.start # 0, NEW c \in Recipients(db, q.id)
        PROVE  Known(q.id, c)
    BY <2>1 DEF Grounded, PollsRead, Unmade, Read, QuestionsFirst, StartedKnown
  <2> QED BY <1>1, <1>2, <1>3, <2>1 DEF QuestionsFirst, StartingKnown
<1>7. AddedKnown'
  <2>1. ASSUME NEW m \in t.effect.put["recipients"], NEW q \in db["polls"] \cup t.effect.put["polls"],
               q.id = m.poll, q.start # 0
        PROVE  Late(m.poll, m.conn) \in t.notes
    BY <2>1 DEF Grounded
  <2> QED BY <1>1, <1>2, <2>1 DEF QuestionsFirst, AddedKnown
<1>8. UnaskedById'
  <2>1. \A i \in t.effect.drop["asked"] : i[3] = t.on
    BY DEF Grounded, QuestionsFirst, AskedById
  <2> QED BY <1>1, <2>1 DEF QuestionsFirst, UnaskedById
<1> QED BY <1>4, <1>5, <1>6, <1>7, <1>8 DEF QuestionsFirst

LEMMA PhaseQuestionsFirst ==
  ASSUME RequestsOK, QuestionsFirst, NEW n \in DOMAIN open, NEW e, NEW place, Phase(n, e, place)
  PROVE  QuestionsFirst'
<1> DEFINE t == open[n]
           f == Then(t.effect, e)
           u == Further(t, f, place)
<1>1. /\ DOMAIN open' = DOMAIN open /\ open'[n] = u
      /\ \A k \in DOMAIN open : k # n => open'[k] = open[k]
      /\ db' = db /\ history' = history
  BY PhaseOpen
<1>2. u.effect = f /\ u.on = t.on /\ u.notes = t.notes
  BY FurtherIs
<1>3. \A T \in {"polls", "recipients"} : t.effect.put[T] = {}
  BY DEF Phase, RequestsOK, Wellformed, OfMessage
<1>4. Only(e, AnswerTables \cup {"submissions"})
  BY DEF Phase
<1>5. \A T \in {"polls", "recipients", "asked"} : T \in Tables /\ e.put[T] = {} /\ e.drop[T] = {}
  BY <1>4, TablesThere DEF Only, AnswerTables, Schema
<1>6. /\ \A T \in {"polls", "recipients"} : f.put[T] = {}
      /\ f.drop["asked"] = t.effect.drop["asked"]
      /\ f.put["responses"] \subseteq t.effect.put["responses"] \cup e.put["responses"]
  <2>1. \A T \in {"polls", "recipients"} : f.put[T] = {}
    BY <1>3, <1>5, ThenNothing
  <2>2. "asked" \in Tables /\ "responses" \in Tables
    BY TablesThere DEF Schema
  <2>3. f.drop["asked"] = t.effect.drop["asked"] \cup e.drop["asked"]
    BY <2>2 DEF Then
  <2>4. f.put["responses"] \subseteq t.effect.put["responses"] \cup e.put["responses"]
    BY <2>2 DEF Then, Without
  <2> HIDE DEF f, t
  <2> QED BY <1>5, <2>1, <2>3, <2>4
<1>7. ASSUME NEW T \in {"polls", "recipients"} PROVE Seen(n)[T] \subseteq db[T]
  <2>1. T \in Tables /\ t.effect.put[T] = {} /\ Seen(n) = After(db, t.effect)
    BY <1>3, <1>5 DEF Seen
  <2> HIDE DEF t
  <2> QED BY <2>1, AfterAt
<1>8. ASSUME NEW r \in e.put["responses"] PROVE Known(r.poll, r.conn)
  <2>1. PICK q \in Running(Seen(n), r.conn) : q.id = r.poll
    BY DEF Phase
  <2>2. q \in db["polls"] /\ q.start # 0 /\ r.conn \in Recipients(db, q.id)
    BY <1>7 DEF Running, Recipients
  <2> QED BY <2>1, <2>2 DEF QuestionsFirst, StartedKnown
<1>9. ASSUME NEW q, NEW c
      PROVE  Known(q, c)' = Known(q, c) /\ Removed(c)' = Removed(c)
             /\ Recipients(db', q) = Recipients(db, q)
  BY <1>1 DEF Known, Removed, IsRemoved
<1> HIDE DEF t, f, u
<1>10. AnswersKnown' /\ StartedKnown' /\ AskedById'
  BY <1>1, <1>9 DEF QuestionsFirst, AnswersKnown, StartedKnown, AskedById
<1>11. WrittenKnown'
  BY <1>1, <1>2, <1>6, <1>8, <1>9 DEF QuestionsFirst, WrittenKnown, t
<1>12. StartingKnown' /\ AddedKnown'
  BY <1>1, <1>2, <1>6, <1>9 DEF QuestionsFirst, StartingKnown, AddedKnown
<1>13. UnaskedById'
  BY <1>1, <1>2, <1>6 DEF QuestionsFirst, UnaskedById, t
<1> QED BY <1>10, <1>11, <1>12, <1>13 DEF QuestionsFirst

\* The questions that are committed are there, and those that were.
LEMMA QuestionsOut ==
  ASSUME AskedById, NEW n, NEW p, Write(Then(NoEffect, Questions(db, n, p)))
  PROVE  /\ AskedById'
         /\ \A c \in Recipients(db, p) : \E a \in db'["asked"] : a.poll = p /\ a.conn = c
         /\ \A a \in db["asked"] : \E q \in db'["asked"] : q.poll = a.poll /\ q.conn = a.conn
<1> DEFINE R == {[id |-> <<n, p, c>>, poll |-> p, conn |-> c] : c \in Recipients(db, p)}
           f == Then(NoEffect, Inserted("asked", R))
<1>1. "asked" \in Tables /\ Write(f)
  BY TablesThere DEF Schema, Questions
<1>2. \A r \in R : r.poll = r.id[2] /\ r.conn = r.id[3] /\ r.poll = p
  OBVIOUS
<1>3. ASSUME NEW c \in Recipients(db, p) PROVE \E r \in R : r.conn = c
  <2> DEFINE r == [id |-> <<n, p, c>>, poll |-> p, conn |-> c]
  <2>1. r \in R /\ r.conn = c
    OBVIOUS
  <2> QED BY <2>1
<1> HIDE DEF R
<1>4. f.put["asked"] = R /\ f.drop["asked"] = {} /\ f.made["asked"] = Ids(R)
  <2>1. /\ NoEffect.put["asked"] = {} /\ NoEffect.drop["asked"] = {} /\ NoEffect.made["asked"] = {}
        /\ Inserted("asked", R).put["asked"] = R /\ Inserted("asked", R).drop["asked"] = {}
        /\ Inserted("asked", R).made["asked"] = Ids(R)
    BY <1>1 DEF NoEffect, Inserted
  <2> DEFINE g == Inserted("asked", R)
             z == NoEffect
  <2>2. /\ z.put["asked"] = {} /\ z.drop["asked"] = {} /\ z.made["asked"] = {}
        /\ g.put["asked"] = R /\ g.drop["asked"] = {} /\ g.made["asked"] = Ids(R)
    BY <2>1
  <2> HIDE DEF g, z
  <2>3. f = Then(z, g)
    BY DEF g, z
  <2> QED BY <1>1, <2>2, <2>3 DEF Then, Without
<1> HIDE DEF f
<1>5. db'["asked"] \subseteq db["asked"] \cup R
  BY <1>1, <1>4, WriteAt
<1>6. R \subseteq db'["asked"]
  <2>1. ASSUME NEW r \in R PROVE r.id \notin Gone(f, "asked")
    BY <1>4 DEF Gone, Ids
  <2> QED BY <1>1, <1>4, <2>1, WriteAt
<1>7. ASSUME NEW a \in db["asked"]
      PROVE  \E q \in db'["asked"] : q.poll = a.poll /\ q.conn = a.conn
  <2>1. PICK q \in db'["asked"] : q.id = a.id /\ (q = a \/ q \in R)
    BY <1>1, <1>4, WriteKeepsId
  <2> QED BY <1>2, <2>1 DEF AskedById
<1>8. AskedById'
  BY <1>2, <1>5 DEF AskedById
<1> QED BY <1>2, <1>3, <1>6, <1>7, <1>8

LEMMA MassTextQuestionsFirst ==
  ASSUME RequestsOK, QuestionsFirst, NEW n \in DOMAIN open, MassTextCommits(n)
  PROVE  QuestionsFirst'
<1> DEFINE t == open[n]
           e == Started(n, t.on)
           u == Further(t, e, "written")
           row == [t.on EXCEPT !.start = n]
<1>1. /\ DOMAIN open' = DOMAIN open /\ history' = history /\ open'[n] = u
      /\ \A k \in DOMAIN open : k # n => open'[k] = open[k]
  BY MassTextOpen
<1>2. u.effect = e /\ u.on = t.on /\ u.notes = t.notes
  BY FurtherIs
<1>3. /\ Write(Then(NoEffect, Questions(db, n, t.on.id)))
      /\ Only(e, {"polls"}) /\ e.put["polls"] = {row}
  BY MassTextIs
<1>4. row.id = t.on.id
  OBVIOUS
<1>5. /\ \A T \in {"responses", "recipients"} : e.put[T] = {}
      /\ e.drop["asked"] = {}
  BY <1>3, TablesThere DEF Only, Schema
<1>6. \A T \in {"responses", "polls", "recipients", "tombstones"} : db'[T] = db[T]
  BY <1>3, QuestionsAt, TablesThere DEF Schema
<1>7. /\ AskedById'
      /\ \A c \in Recipients(db, t.on.id) : \E a \in db'["asked"] : a.poll = t.on.id /\ a.conn = c
      /\ \A a \in db["asked"] : \E q \in db'["asked"] : q.poll = a.poll /\ q.conn = a.conn
  BY <1>3, QuestionsOut DEF QuestionsFirst
<1>8. ASSUME NEW q, NEW c
      PROVE  (Known(q, c) => Known(q, c)') /\ (Removed(c) => Removed(c)')
  BY <1>1, <1>6, <1>7 DEF Known, Removed, IsRemoved, Select
<1>9. \A q : Recipients(db', q) = Recipients(db, q)
  BY <1>6 DEF Recipients
<1> HIDE DEF t, e, u, row
<1>10. ASSUME NEW q \in e.put["polls"], NEW c \in Recipients(db, q.id) PROVE Known(q.id, c)'
  BY <1>3, <1>4, <1>7 DEF Known
<1>11. AnswersKnown' /\ StartedKnown'
  BY <1>6, <1>8, <1>9 DEF QuestionsFirst, AnswersKnown, StartedKnown
<1>12. WrittenKnown' /\ UnaskedById'
  BY <1>1, <1>2, <1>5, <1>8 DEF QuestionsFirst, WrittenKnown, UnaskedById
<1>13. StartingKnown'
  BY <1>1, <1>2, <1>8, <1>9, <1>10 DEF QuestionsFirst, StartingKnown
<1>14. AddedKnown'
  BY <1>1, <1>2, <1>5, <1>6, <1>8 DEF QuestionsFirst, AddedKnown
<1> QED BY <1>7, <1>11, <1>12, <1>13, <1>14 DEF QuestionsFirst

LEMMA FinishQuestionsFirst ==
  ASSUME RequestsOK, QuestionsFirst, NEW n \in DOMAIN open, Finish(n)
  PROVE  QuestionsFirst'
<1> DEFINE t == open[n]
           e == t.effect
<1>1. /\ Write(e) /\ open' = Closed(n) /\ history' = history \cup t.notes
      /\ ConnectionsRefer(db')
  BY DEF Finish, Commit
<1>2. DOMAIN open' = DOMAIN open \ {n} /\ \A k \in DOMAIN open' : open'[k] = open[k]
  BY <1>1, ClosedOpen
<1>3. \A T \in Schema : db'[T] \subseteq db[T] \cup e.put[T]
  BY <1>1, WriteAt, TablesThere
<1>4. e.put["asked"] = {} /\ e.drop["tombstones"] = {}
  BY DEF RequestsOK, Wellformed
\* The removed stay so, and have no rows.
<1>5. ASSUME NEW c, Removed(c) PROVE Removed(c)'
  <2>1. PICK x \in db["tombstones"] : x.id = <<"connections", c>>
    BY <1>5 DEF Removed, IsRemoved, Select
  <2>2. \E q \in db'["tombstones"] : q.id = x.id
    BY <1>1, <1>4, <2>1, WriteKeepsId, TablesThere DEF Schema
  <2> QED BY <1>5, <2>1, <2>2 DEF Removed, IsRemoved, Select
<1>6. ASSUME NEW T \in {"responses", "recipients"}, NEW r \in db'[T] PROVE ~Removed(r.conn)'
  BY <1>1, TablesThere DEF ConnectionsRefer, OfConnection, Removed, Schema
\* What was asked stays, but for those whom this request removes.
<1>7. ASSUME NEW q, NEW c, Known(q, c) PROVE Known(q, c)' \/ Removed(c)'
  <2>1. CASE <<"recipients", q>> \in history \/ Late(q, c) \in history
    BY <1>1, <2>1 DEF Known
  <2>2. ASSUME NEW a \in db["asked"], a.poll = q, a.conn = c PROVE Known(q, c)' \/ Removed(c)'
    <3>1. CASE a.id \notin e.drop["asked"]
      <4>1. Ids(e.put["asked"]) = {}
        BY <1>4 DEF Ids
      <4>2. a \in db'["asked"]
        BY <1>1, <3>1, <4>1, WriteAt, TablesThere DEF Schema
      <4> QED BY <2>2, <4>2 DEF Known
    <3>2. CASE a.id \in e.drop["asked"]
      <4>1. t.kind = "remove" /\ OfRemoval(t)
        BY <3>2 DEF RequestsOK, Wellformed
      <4>2. a.id[3] = t.on /\ a.conn = a.id[3]
        BY <3>2 DEF QuestionsFirst, UnaskedById, AskedById
      <4>3. PICK x \in e.put["tombstones"] :
              x.id = <<"connections", t.on>> /\ x.id \in e.made["tombstones"]
        BY <4>1 DEF OfRemoval
      <4>4. x.id \notin Gone(e, "tombstones")
        BY <4>3 DEF Gone
      <4>5. x \in db'["tombstones"]
        BY <1>1, <4>3, <4>4, WriteAt, TablesThere DEF Schema
      <4>6. t.on \in Connections /\ c = t.on
        BY <2>2, <4>1, <4>2 DEF OfRemoval
      <4> QED BY <4>3, <4>5, <4>6 DEF Removed, IsRemoved, Select
    <3> QED BY <3>1, <3>2
  <2> QED BY <1>7, <2>1, <2>2 DEF Known
\* A request that is still open has met this one, if they are about one poll.
<1>8. ASSUME NEW k \in DOMAIN open', NEW T \in {"polls", "recipients"}
      PROVE  /\ \A q \in open[k].effect.put["polls"], m \in e.put["recipients"] :
                  m.poll = q.id => <<"recipients", q.id>> \in history
             /\ \A q \in e.put["polls"], m \in open[k].effect.put["recipients"] :
                  m.poll = q.id => <<"recipients", q.id>> \in history
  <2>1. k \in DOMAIN open /\ k # n /\ Meet(open[n], open[k]) \subseteq history
    BY <1>2 DEF RequestsOK
  <2>2. /\ \A i \in {n, k} : \A q \in open[i].effect.put["polls"] : <<"recipients", q.id>> \in open[i].reads
        /\ \A i \in {n, k} : \A m \in open[i].effect.put["recipients"] : <<"recipients", m.poll>> \in open[i].writes
    BY <2>1 DEF RequestsOK, Wellformed, OfPolls
  <2> QED BY <2>1, <2>2 DEF Meet
<1>9. ASSUME NEW p, NEW c \in Recipients(db', p)
      PROVE  \/ c \in Recipients(db, p)
             \/ \E m \in e.put["recipients"] : m.poll = p /\ m.conn = c
  BY <1>3 DEF Recipients, Schema
<1>10. ASSUME NEW p, NEW c \in Recipients(db', p) PROVE ~Removed(c)'
  <2>1. PICK m \in db'["recipients"] : m.poll = p /\ m.conn = c
    BY DEF Recipients
  <2> QED BY <1>6, <2>1
<1>11. history \subseteq history'
  BY <1>1
<1> HIDE DEF t
<1>12. AnswersKnown'
  <2>1. ASSUME NEW r \in db'["responses"] PROVE Known(r.poll, r.conn)'
    <3>1. ~Removed(r.conn)'
      BY <1>6
    <3>2. Known(r.poll, r.conn) \/ Removed(r.conn)
      BY <1>3 DEF QuestionsFirst, AnswersKnown, WrittenKnown, t, Schema
    <3> QED BY <1>5, <1>7, <3>1, <3>2
  <2> QED BY <2>1 DEF AnswersKnown
<1>13. WrittenKnown'
  <2>1. ASSUME NEW k \in DOMAIN open', NEW r \in open[k].effect.put["responses"]
        PROVE  Known(r.poll, r.conn)' \/ Removed(r.conn)'
    BY <1>2, <1>5, <1>7 DEF QuestionsFirst, WrittenKnown
  <2> QED BY <1>2, <2>1 DEF WrittenKnown
<1>14. StartedKnown'
  <2>1. ASSUME NEW p \in db'["polls"], p.start # 0, NEW c \in Recipients(db', p.id) PROVE Known(p.id, c)'
    <3>1. p \in db["polls"] \cup e.put["polls"]
      BY <1>3 DEF Schema
    <3>2. CASE c \in Recipients(db, p.id)
      <4>1. Known(p.id, c)
        BY <2>1, <3>1, <3>2 DEF QuestionsFirst, StartedKnown, StartingKnown, t
      <4> QED BY <1>7, <1>10, <4>1
    <3>3. ASSUME NEW m \in e.put["recipients"], m.poll = p.id, m.conn = c PROVE Known(p.id, c)'
      <4>1. Known(p.id, c) \/ Removed(c) \/ Late(p.id, c) \in t.notes
        BY <2>1, <3>1, <3>3 DEF QuestionsFirst, AddedKnown, t
      <4>2. Late(p.id, c) \in t.notes => Known(p.id, c)'
        BY <1>1 DEF Known, t
      <4> QED BY <1>5, <1>7, <1>10, <4>1, <4>2
    <3> QED BY <1>9, <3>2, <3>3
  <2> QED BY <2>1 DEF StartedKnown
<1>15. StartingKnown'
  <2>1. ASSUME NEW k \in DOMAIN open', NEW p \in open[k].effect.put["polls"], p.start # 0,
               NEW c \in Recipients(db', p.id)
        PROVE  Known(p.id, c)'
    <3>1. CASE c \in Recipients(db, p.id)
      <4>1. Known(p.id, c)
        BY <1>2, <2>1, <3>1 DEF QuestionsFirst, StartingKnown
      <4> QED BY <1>7, <1>10, <4>1
    <3>2. ASSUME NEW m \in e.put["recipients"], m.poll = p.id PROVE Known(p.id, c)'
      BY <1>8, <1>11, <3>2 DEF Known
    <3> QED BY <1>9, <3>1, <3>2
  <2> QED BY <1>2, <2>1 DEF StartingKnown
<1>16. AddedKnown'
  <2>1. ASSUME NEW k \in DOMAIN open', NEW m \in open[k].effect.put["recipients"],
               NEW p \in db'["polls"] \cup open[k].effect.put["polls"], p.id = m.poll, p.start # 0
        PROVE  Known(m.poll, m.conn)' \/ Removed(m.conn)' \/ Late(m.poll, m.conn) \in open[k].notes
    <3>1. CASE p \in e.put["polls"]
      BY <1>8, <1>11, <2>1, <3>1 DEF Known
    <3>2. CASE p \in db["polls"] \cup open[k].effect.put["polls"]
      <4>1. Known(m.poll, m.conn) \/ Removed(m.conn) \/ Late(m.poll, m.conn) \in open[k].notes
        BY <1>2, <2>1, <3>2 DEF QuestionsFirst, AddedKnown
      <4> QED BY <1>5, <1>7, <4>1
    <3> QED BY <1>3, <3>1, <3>2 DEF Schema
  <2> QED BY <1>2, <2>1 DEF AddedKnown
<1>17. AskedById' /\ UnaskedById'
  BY <1>2, <1>3, <1>4 DEF QuestionsFirst, AskedById, UnaskedById, Schema
<1> QED BY <1>12, <1>13, <1>14, <1>15, <1>16, <1>17 DEF QuestionsFirst

LEMMA FewerQuestionsFirst ==
  ASSUME QuestionsFirst, db' = db, history \subseteq history', DOMAIN open' \subseteq DOMAIN open,
         \A k \in DOMAIN open' : open'[k] = open[k]
  PROVE  QuestionsFirst'
<1>1. ASSUME NEW q, NEW c
      PROVE  /\ (Known(q, c) => Known(q, c)') /\ (Removed(c) => Removed(c)')
             /\ Recipients(db', q) = Recipients(db, q)
  BY DEF Known, Removed, IsRemoved
<1>2. AnswersKnown' /\ StartedKnown' /\ AskedById'
  BY <1>1 DEF QuestionsFirst, AnswersKnown, StartedKnown, AskedById
<1>3. WrittenKnown' /\ UnaskedById'
  BY <1>1 DEF QuestionsFirst, WrittenKnown, UnaskedById
<1>4. StartingKnown'
  BY <1>1 DEF QuestionsFirst, StartingKnown
<1>5. AddedKnown'
  BY <1>1 DEF QuestionsFirst, AddedKnown
<1> QED BY <1>2, <1>3, <1>4, <1>5 DEF QuestionsFirst

LEMMA NextQuestionsFirst ==
  ASSUME RequestsOK, QuestionsFirst, [Next]_vars
  PROVE  QuestionsFirst'
<1>1. ASSUME NEW n \in DOMAIN open, Fail(n) PROVE QuestionsFirst'
  <2>1. open' = Closed(n) /\ db' = db /\ history \subseteq history'
    BY <1>1 DEF Fail, Rollback
  <2> QED BY <2>1, ClosedOpen, FewerQuestionsFirst
<1>2. UNCHANGED database => QuestionsFirst'
  BY FewerQuestionsFirst DEF database
<1> QED BY <1>1, <1>2, Stepping, BeginQuestionsFirst, PhaseQuestionsFirst, MassTextQuestionsFirst,
           FinishQuestionsFirst DEF StepIs

\* No answer to a poll is there before its question has gone out, through the
\* two commits of a start, its failure, and the answers and removals beside them.
\* Excepted are contacts whom an edit adds to a poll that has started, who are
\* never asked, and polls of which an edit of the contacts was open beside
\* another request that saves the poll.
THEOREM AnswersComeAfter ==
  Spec => []AnswersFollowQuestions
<1>1. Init => QuestionsFirst
  BY InitQuestionsFirst
<1>2. RequestsOK /\ QuestionsFirst /\ [Next]_vars => QuestionsFirst'
  BY NextQuestionsFirst
<1>3. QuestionsFirst => AnswersFollowQuestions
  BY DEF QuestionsFirst, AnswersKnown, Known, Late, AnswersFollowQuestions, Alone
<1> QED BY <1>1, <1>2, <1>3, RequestsStayOK, PTL DEF Spec

-----------------------------------------------------------------------------
(***************************************************************************)
(* Those who have quit are off the roster.                                 *)
(***************************************************************************)

\* A row that may be there for someone who has quit: that of the registration, or
\* one whose owner's rows two requests were writing at once.
Spared(r) == r.script = AUTOREG \/ <<"roster", r.conn>> \in history

\* The rows that are there, those a request is about to put there, and those
\* that are there when it is about to put their owner on the blacklist.
QuitRows    == \A r \in db["roster"] : Blacklisted(db, r.conn) => Spared(r)
RowsWritten == \A n \in DOMAIN open : \A r \in open[n].effect.put["roster"] :
                 Blacklisted(db, r.conn) => Spared(r)
QuitsWritten ==
  \A n \in DOMAIN open : \A b \in open[n].effect.put["blacklist"], r \in db["roster"] :
    r.conn = b.id => Spared(r) \/ r.id \in open[n].effect.drop["roster"]

QuitsClean == QuitRows /\ RowsWritten /\ QuitsWritten

\* The open requests do no more than before, and the two tables are as they were.
LEMMA NoMoreQuits ==
  ASSUME QuitsClean, history \subseteq history', db'["roster"] = db["roster"],
         \A c : Blacklisted(db', c) = Blacklisted(db, c),
         DOMAIN open' \subseteq DOMAIN open,
         \A n \in DOMAIN open' :
           /\ \A T \in {"roster", "blacklist"} : open'[n].effect.put[T] \subseteq open[n].effect.put[T]
           /\ \/ open'[n].effect.put["blacklist"] = {}
              \/ open[n].effect.drop["roster"] \subseteq open'[n].effect.drop["roster"]
  PROVE  QuitsClean'
<1>1. ASSUME NEW r, Spared(r) PROVE Spared(r)'
  BY <1>1 DEF Spared
<1>2. QuitRows'
  BY <1>1 DEF QuitsClean, QuitRows
<1>3. RowsWritten'
  BY <1>1 DEF QuitsClean, RowsWritten
<1>4. QuitsWritten'
  BY <1>1 DEF QuitsClean, QuitsWritten
<1> QED BY <1>2, <1>3, <1>4 DEF QuitsClean

LEMMA BeginQuits ==
  ASSUME RequestsOK, QuitsClean, NEW t, Begin(t), Grounded(t)
  PROVE  QuitsClean'
<1>1. /\ DOMAIN open' = DOMAIN open \cup {serial'} /\ open'[serial'] = t
      /\ \A n \in DOMAIN open : open'[n] = open[n]
      /\ db' = db /\ history \subseteq history'
  BY BeginOpen
<1>2. ASSUME NEW r, Spared(r) PROVE Spared(r)'
  BY <1>1, <1>2 DEF Spared
<1>3. QuitRows'
  BY <1>1, <1>2 DEF QuitsClean, QuitRows
<1>4. RowsWritten'
  <2>1. \A r \in t.effect.put["roster"] : Blacklisted(db, r.conn) => Spared(r)
    BY DEF Grounded, Spared
  <2> QED BY <1>1, <1>2, <2>1 DEF QuitsClean, RowsWritten
<1>5. QuitsWritten'
  <2>1. \A b \in t.effect.put["blacklist"], r \in db["roster"] :
          r.conn = b.id => r.id \in t.effect.drop["roster"]
    BY DEF Grounded
  <2> QED BY <1>1, <1>2, <2>1 DEF QuitsClean, QuitsWritten
<1> QED BY <1>3, <1>4, <1>5 DEF QuitsClean

LEMMA PhaseQuits ==
  ASSUME RequestsOK, QuitsClean, NEW n \in DOMAIN open, NEW e, NEW place, Phase(n, e, place)
  PROVE  QuitsClean'
<1> DEFINE t == open[n]
           f == Then(t.effect, e)
           u == Further(t, f, place)
<1>1. /\ DOMAIN open' = DOMAIN open /\ open'[n] = u
      /\ \A k \in DOMAIN open : k # n => open'[k] = open[k]
      /\ db' = db /\ history' = history
  BY PhaseOpen
<1>2. u.effect = f
  BY FurtherIs
<1>3. \A T \in {"roster", "blacklist"} : T \in Tables /\ e.put[T] = {} /\ e.drop[T] = {}
  BY TablesThere DEF Phase, Only, AnswerTables, Schema
<1>4. ASSUME NEW T \in {"roster", "blacklist"}
      PROVE  f.put[T] \subseteq t.effect.put[T] /\ t.effect.drop[T] \subseteq f.drop[T]
  BY <1>3 DEF Then, Without
<1> HIDE DEF t, f, u
<1>5. \A k \in DOMAIN open' :
        /\ \A T \in {"roster", "blacklist"} : open'[k].effect.put[T] \subseteq open[k].effect.put[T]
        /\ open[k].effect.drop["roster"] \subseteq open'[k].effect.drop["roster"]
  BY <1>1, <1>2, <1>4 DEF t
<1> QED BY <1>1, <1>5, NoMoreQuits

LEMMA MassTextQuits ==
  ASSUME RequestsOK, QuitsClean, NEW n \in DOMAIN open, MassTextCommits(n)
  PROVE  QuitsClean'
<1> DEFINE t == open[n]
           e == Started(n, t.on)
           u == Further(t, e, "written")
<1>1. /\ DOMAIN open' = DOMAIN open /\ history' = history /\ open'[n] = u
      /\ \A k \in DOMAIN open : k # n => open'[k] = open[k]
  BY MassTextOpen
<1>2. u.effect = e
  BY FurtherIs
<1>3. Write(Then(NoEffect, Questions(db, n, t.on.id))) /\ Only(e, {"polls"})
  BY MassTextIs
<1>4. e.put["roster"] = {} /\ e.put["blacklist"] = {}
  BY <1>3, TablesThere DEF Only, Schema
<1>5. db'["roster"] = db["roster"] /\ db'["blacklist"] = db["blacklist"]
  BY <1>3, QuestionsAt, TablesThere DEF Schema
<1>6. \A c : Blacklisted(db', c) = Blacklisted(db, c)
  BY <1>5 DEF Blacklisted, Select
<1> HIDE DEF e, u
<1>7. \A k \in DOMAIN open' :
        /\ \A T \in {"roster", "blacklist"} : open'[k].effect.put[T] \subseteq open[k].effect.put[T]
        /\ \/ open'[k].effect.put["blacklist"] = {}
           \/ open[k].effect.drop["roster"] \subseteq open'[k].effect.drop["roster"]
  BY <1>1, <1>2, <1>4
<1> QED BY <1>1, <1>5, <1>6, <1>7, NoMoreQuits

\* Of two requests that write the roster for one contact, one commits: the mark
\* is there from when they met.
LEMMA FinishQuits ==
  ASSUME RequestsOK, QuitsClean, NEW n \in DOMAIN open, Finish(n)
  PROVE  QuitsClean'
<1> DEFINE e == open[n].effect
<1>1. Write(e) /\ open' = Closed(n) /\ history \subseteq history'
  BY DEF Finish, Commit
<1>2. DOMAIN open' = DOMAIN open \ {n} /\ \A k \in DOMAIN open' : open'[k] = open[k]
  BY <1>1, ClosedOpen
<1>3. "roster" \in Tables /\ "blacklist" \in Tables
  BY TablesThere DEF Schema
<1>4. ASSUME NEW r, Spared(r) PROVE Spared(r)'
  BY <1>1, <1>4 DEF Spared
<1>5. ASSUME NEW c, Blacklisted(db', c), ~Blacklisted(db, c)
      PROVE  /\ \E b \in e.put["blacklist"] : b.id = c
             /\ <<"roster", c>> \in open[n].writes
             /\ \A r \in e.put["roster"] : r.script = AUTOREG
  <2>1. PICK b \in db'["blacklist"] : b.id = c
    BY <1>5 DEF Blacklisted, Select
  <2>2. b \in e.put["blacklist"]
    BY <1>1, <1>3, <1>5, <2>1, WriteAt DEF Blacklisted, Select
  <2>3. OfMessage(open[n])
    BY <2>2 DEF RequestsOK, Wellformed
  <2> QED BY <2>1, <2>2, <2>3 DEF OfMessage
<1>6. ASSUME NEW k \in DOMAIN open', NEW c,
             <<"roster", c>> \in open[n].writes, <<"roster", c>> \in open[k].writes
      PROVE  <<"roster", c>> \in history
  <2>1. Meet(open[n], open[k]) \subseteq history
    BY <1>2 DEF RequestsOK
  <2> QED BY <1>6, <2>1 DEF Meet
<1>7. QuitRows'
  <2> SUFFICES ASSUME NEW r \in db'["roster"], Blacklisted(db', r.conn) PROVE Spared(r)
    BY <1>4 DEF QuitRows
  <2>1. CASE r \in e.put["roster"]
    BY <1>5, <2>1 DEF QuitsClean, RowsWritten, Spared
  <2>2. CASE r \in db["roster"] /\ r.id \notin e.drop["roster"]
    BY <1>5, <2>2 DEF QuitsClean, QuitRows, QuitsWritten
  <2> QED BY <1>1, <1>3, <2>1, <2>2, WriteDrops
<1>8. RowsWritten'
  <2>1. ASSUME NEW k \in DOMAIN open', NEW r \in open[k].effect.put["roster"], Blacklisted(db', r.conn)
        PROVE  Spared(r)
    <3>1. CASE Blacklisted(db, r.conn)
      BY <1>2, <3>1 DEF QuitsClean, RowsWritten
    <3>2. CASE ~Blacklisted(db, r.conn)
      <4>1. <<"roster", r.conn>> \in open[n].writes
        BY <1>5, <2>1, <3>2
      <4>2. <<"roster", r.conn>> \in open[k].writes
        BY <1>2 DEF RequestsOK, Wellformed
      <4> QED BY <1>6, <4>1, <4>2 DEF Spared
    <3> QED BY <3>1, <3>2
  <2> QED BY <1>2, <1>4, <2>1 DEF RowsWritten
<1>9. QuitsWritten'
  <2>1. ASSUME NEW k \in DOMAIN open', NEW b \in open[k].effect.put["blacklist"],
               NEW r \in db'["roster"], r.conn = b.id
        PROVE  Spared(r) \/ r.id \in open[k].effect.drop["roster"]
    <3>1. CASE r \in db["roster"]
      BY <1>2, <2>1, <3>1 DEF QuitsClean, QuitsWritten
    <3>2. CASE r \in e.put["roster"]
      <4>1. <<"roster", r.conn>> \in open[n].writes
        BY <3>2 DEF RequestsOK, Wellformed
      <4>2. <<"roster", r.conn>> \in open[k].writes
        BY <1>2, <2>1 DEF RequestsOK, Wellformed, OfMessage
      <4> QED BY <1>6, <4>1, <4>2 DEF Spared
    <3> QED BY <1>1, <1>3, <3>1, <3>2, WriteDrops
  <2> QED BY <1>2, <1>4, <2>1 DEF QuitsWritten
<1> QED BY <1>7, <1>8, <1>9 DEF QuitsClean

LEMMA NextQuits ==
  ASSUME RequestsOK, QuitsClean, [Next]_vars
  PROVE  QuitsClean'
<1>1. ASSUME NEW n \in DOMAIN open, Fail(n) PROVE QuitsClean'
  <2>1. open' = Closed(n) /\ db' = db /\ history \subseteq history'
    BY <1>1 DEF Fail, Rollback
  <2> QED BY <2>1, ClosedOpen, NoMoreQuits
<1>2. UNCHANGED database => QuitsClean'
  BY NoMoreQuits DEF database
<1> QED BY <1>1, <1>2, Stepping, BeginQuits, PhaseQuits, MassTextQuits, FinishQuits DEF StepIs

\* Who has quit has a row on no script but the registration's, whatever
\* schedules, ends of runs and edits overlap, if no two of them write the rows of
\* one contact at once.
THEOREM QuittersOffRoster ==
  Spec => []QuitOffRoster
<1>1. Init => QuitsClean
  <2> SUFFICES ASSUME Init PROVE QuitsClean
    OBVIOUS
  <2>1. PICK w \in Workloads : db = w.db
    BY DEF Init
  <2>2. db["blacklist"] = {} /\ DOMAIN open = {}
    BY <2>1, IncomingAssumption DEF Init
  <2>3. \A c : ~Blacklisted(db, c)
    BY <2>2 DEF Blacklisted, Select
  <2> QED BY <2>2, <2>3 DEF QuitsClean, QuitRows, RowsWritten, QuitsWritten
<1>2. RequestsOK /\ QuitsClean /\ [Next]_vars => QuitsClean'
  BY NextQuits
<1>3. QuitsClean => QuitOffRoster
  BY DEF QuitsClean, QuitRows, Spared, QuitOffRoster, Undisturbed, RowsOf
<1> QED BY <1>1, <1>2, <1>3, RequestsStayOK, PTL DEF Spec

-----------------------------------------------------------------------------
(***************************************************************************)
(* Questions are asked once.                                               *)
(***************************************************************************)

Excused(p) == <<"dates", p>> \in history \/ <<"torn", p>> \in history

\* The poll is there, or was deleted; its start has sent the questions.
There(p)    == Select(db, "tombstones", <<"polls", p>>) # {} \/ \E q \in db["polls"] : q.id = p
Starting(p) == \E n \in DOMAIN open :
                 open[n].kind = "start" /\ open[n].place = "written" /\ open[n].on.id = p

Question(n, p, c) == [id |-> <<n, p, c>>, poll |-> p, conn |-> c]

\* The questions that are out came from one start, which has set the date of the
\* poll or is about to, and which no other request undoes; no other start is
\* about to send them.
AskedForm    == \A a \in db["asked"] : \E n : a = Question(n, a.poll, a.conn)
AskedThere   == \A a \in db["asked"] : There(a.poll)
TextsThere   == \A n \in DOMAIN open : open[n].place = "texts" => There(open[n].on.id)
AskedStarted == \A a \in db["asked"] :
                  Excused(a.poll) \/ Starting(a.poll) \/ \A q \in db["polls"] : q.id = a.poll => q.start # 0
OneStart     == \A a, b \in db["asked"] : a.poll = b.poll => Excused(a.poll) \/ a.id[1] = b.id[1]
SavedStarted == \A n \in DOMAIN open : \A q \in open[n].effect.put["polls"], a \in db["asked"] :
                  a.poll = q.id => Excused(a.poll) \/ q.start # 0
TextsFirst   == \A n \in DOMAIN open : open[n].place = "texts" =>
                  \A a \in db["asked"] : a.poll = open[n].on.id => Excused(a.poll)

AskedByOne ==
  /\ AskedForm /\ AskedThere /\ TextsThere /\ AskedStarted
  /\ OneStart /\ SavedStarted /\ TextsFirst

\* Two requests that write the dates of one poll have met.
LEMMA DatesMeet ==
  ASSUME RequestsOK, NEW n \in DOMAIN open, NEW k \in DOMAIN open, n # k, NEW p,
         <<"dates", p>> \in open[n].writes, <<"dates", p>> \in open[k].writes
  PROVE  Excused(p)
<1>1. Meet(open[n], open[k]) \subseteq history
  BY DEF RequestsOK
<1> QED BY <1>1 DEF Meet, Excused

\* A start, and whoever saves a poll, writes its dates.
LEMMA DatesWritten ==
  ASSUME NEW t, Wellformed(t)
  PROVE  /\ t.kind = "start" \/ t.place = "texts" => <<"dates", t.on.id>> \in t.writes
         /\ \A q \in t.effect.put["polls"] : <<"dates", q.id>> \in t.writes
BY DEF Wellformed, OfPolls

\* Nothing is taken back while tables and requests stay.
LEMMA SameAsked ==
  ASSUME AskedByOne, db' = db, history \subseteq history'
  PROVE  /\ \A p : (Excused(p) => Excused(p)') /\ (There(p) => There(p)')
         /\ AskedForm' /\ AskedThere' /\ OneStart'
<1>1. \A p : (Excused(p) => Excused(p)') /\ (There(p) => There(p)')
  BY DEF Excused, There
<1> QED BY <1>1 DEF AskedByOne, AskedForm, AskedThere, OneStart

LEMMA BeginAsked ==
  ASSUME RequestsOK, AskedByOne, NEW t, Begin(t), Wellformed(t), Grounded(t)
  PROVE  AskedByOne'
<1>1. /\ DOMAIN open' = DOMAIN open \cup {serial'} /\ open'[serial'] = t
      /\ \A n \in DOMAIN open : open'[n] = open[n]
      /\ db' = db /\ history \subseteq history'
      /\ \A n \in DOMAIN open : Meet(t, open[n]) \subseteq history'
  BY BeginOpen
<1>2. /\ \A p : (Excused(p) => Excused(p)') /\ (There(p) => There(p)')
      /\ AskedForm' /\ AskedThere' /\ OneStart'
  BY <1>1, SameAsked
<1>3. \A p : Starting(p) => Starting(p)'
  BY <1>1 DEF Starting
<1>4. AskedStarted'
  BY <1>1, <1>2, <1>3 DEF AskedByOne, AskedStarted
<1>5. PollsRead(t)
  BY DEF Grounded
<1>6. ASSUME NEW a \in db["asked"], <<"dates", a.poll>> \in t.writes
      PROVE  Excused(a.poll)' \/ \A q \in db["polls"] : q.id = a.poll => q.start # 0
  <2>1. ASSUME NEW k \in DOMAIN open, open[k].kind = "start", open[k].on.id = a.poll
        PROVE  Excused(a.poll)'
    <3>1. <<"dates", a.poll>> \in open[k].writes
      BY <2>1, DatesWritten DEF RequestsOK
    <3>2. <<"dates", a.poll>> \in history'
      BY <1>1, <1>6, <3>1 DEF Meet
    <3> QED BY <3>2 DEF Excused
  <2> QED BY <1>2, <2>1 DEF AskedByOne, AskedStarted, Starting
<1>7. ASSUME NEW a \in db["asked"], NEW q, Read(q), q.id = a.poll, <<"dates", a.poll>> \in t.writes
      PROVE  Excused(a.poll)' \/ q.start # 0
  BY <1>6, <1>7 DEF Read
<1>8. TextsThere'
  <2>1. t.place = "texts" => There(t.on.id)
    BY <1>5 DEF PollsRead, Read, There
  <2> QED BY <1>1, <1>2, <2>1 DEF AskedByOne, TextsThere
<1>9. SavedStarted'
  <2>1. ASSUME NEW q \in t.effect.put["polls"], NEW a \in db["asked"], a.poll = q.id
        PROVE  Excused(a.poll)' \/ q.start # 0
    <3>1. <<"dates", a.poll>> \in t.writes
      BY <2>1, DatesWritten
    <3>2. ~Unmade(q)
      BY <2>1 DEF AskedByOne, AskedThere, There, Unmade, Select
    <3>3. Read(q)
      BY <1>5, <3>2 DEF PollsRead
    <3> QED BY <1>7, <2>1, <3>1, <3>3
  <2> QED BY <1>1, <1>2, <2>1 DEF AskedByOne, SavedStarted
<1>10. TextsFirst'
  <2>1. ASSUME t.place = "texts", NEW a \in db["asked"], a.poll = t.on.id
        PROVE  Excused(a.poll)'
    <3>1. <<"dates", a.poll>> \in t.writes /\ Read(t.on) /\ t.on.start = 0
      BY <1>5, <2>1, DatesWritten DEF PollsRead
    <3> QED BY <1>7, <2>1, <3>1
  <2> QED BY <1>1, <1>2, <2>1 DEF AskedByOne, TextsFirst
<1> QED BY <1>2, <1>4, <1>8, <1>9, <1>10 DEF AskedByOne

LEMMA PhaseAsked ==
  ASSUME RequestsOK, AskedByOne, NEW n \in DOMAIN open, NEW e, NEW place, Phase(n, e, place)
  PROVE  AskedByOne'
<1> DEFINE t == open[n]
           f == Then(t.effect, e)
           u == Further(t, f, place)
<1>1. /\ DOMAIN open' = DOMAIN open /\ open'[n] = u
      /\ \A k \in DOMAIN open : k # n => open'[k] = open[k]
      /\ db' = db /\ history' = history
  BY PhaseOpen
<1>2. u.effect = f /\ u.kind = t.kind /\ u.place = place
  BY FurtherIs
<1>3. /\ t.kind = "message" /\ place # "texts" /\ t.effect.put["polls"] = {}
      /\ Only(e, AnswerTables \cup {"submissions"})
  BY DEF Phase, RequestsOK, Wellformed, OfMessage
<1>4. f.put["polls"] = {}
  <2>1. "polls" \in Tables /\ e.put["polls"] = {}
    BY <1>3, TablesThere DEF Only, AnswerTables, Schema
  <2> QED BY <1>3, <2>1, ThenNothing
<1>5. /\ \A p : (Excused(p) => Excused(p)') /\ (There(p) => There(p)')
      /\ AskedForm' /\ AskedThere' /\ OneStart'
  BY <1>1, SameAsked
<1> HIDE DEF u, f
<1>6. \A p : Starting(p) => Starting(p)'
  BY <1>1, <1>3 DEF Starting
<1>7. AskedStarted'
  BY <1>1, <1>5, <1>6 DEF AskedByOne, AskedStarted
<1>8. TextsThere'
  BY <1>1, <1>2, <1>3, <1>5 DEF AskedByOne, TextsThere
<1>9. SavedStarted'
  BY <1>1, <1>2, <1>4, <1>5 DEF AskedByOne, SavedStarted
<1>10. TextsFirst'
  BY <1>1, <1>2, <1>3, <1>5 DEF AskedByOne, TextsFirst
<1> QED BY <1>5, <1>7, <1>8, <1>9, <1>10 DEF AskedByOne

\* The questions that a start commits are its own.
LEMMA QuestionsNew ==
  ASSUME NEW n, NEW p, Write(Then(NoEffect, Questions(db, n, p))), NEW a \in db'["asked"]
  PROVE  a \in db["asked"] \/ \E c : a = Question(n, p, c)
<1> DEFINE R == {[id |-> <<n, p, c>>, poll |-> p, conn |-> c] : c \in Recipients(db, p)}
           e == Then(NoEffect, Inserted("asked", R))
<1>1. "asked" \in Tables /\ Write(e)
  BY TablesThere DEF Schema, Questions
<1>2. \A r \in R : \E c : r = Question(n, p, c)
  BY DEF Question
<1> HIDE DEF R
<1>3. NoEffect.put["asked"] \subseteq R /\ Inserted("asked", R).put["asked"] \subseteq R
  BY <1>1, PutBasic
<1>4. e.put["asked"] \subseteq R
  BY <1>1, <1>3, PutThen
<1> HIDE DEF e
<1> QED BY <1>1, <1>2, <1>4, WriteAt

LEMMA MassTextAsked ==
  ASSUME RequestsOK, AskedByOne, NEW n \in DOMAIN open, MassTextCommits(n)
  PROVE  AskedByOne'
<1> DEFINE t == open[n]
           e == Started(n, t.on)
           u == Further(t, e, "written")
           row == [t.on EXCEPT !.start = n]
<1>0. PICK p : p = open[n].on.id
  OBVIOUS
<1>1. /\ DOMAIN open' = DOMAIN open /\ history' = history /\ open'[n] = u
      /\ \A k \in DOMAIN open : k # n => open'[k] = open[k]
  BY MassTextOpen
<1>2. u.effect = e /\ u.on = t.on /\ u.kind = t.kind /\ u.place = "written"
  BY FurtherIs
<1>3. /\ Write(Then(NoEffect, Questions(db, n, p))) /\ t.kind = "start" /\ t.place = "texts"
      /\ e.put["polls"] = {row}
  BY <1>0, MassTextIs DEF MassTextCommits
<1>4. row.start # 0
  <2>1. n # 0
    BY DEF RequestsOK
  <2>2. t.on \in Poll
    BY <1>3 DEF RequestsOK, Wellformed, OfPolls
  <2> QED BY <2>1, <2>2 DEF Poll
<1>5. db'["polls"] = db["polls"] /\ db'["tombstones"] = db["tombstones"]
  BY <1>3, QuestionsAt, TablesThere DEF Schema
<1>6. ASSUME NEW a \in db'["asked"] PROVE a \in db["asked"] \/ \E c : a = Question(n, p, c)
  BY <1>3, QuestionsNew
<1>7. ASSUME NEW c, NEW a, a = Question(n, p, c)
      PROVE  a.poll = p /\ a.conn = c /\ a.id[1] = n
  BY <1>7 DEF Question
<1>8. \A q : (Excused(q) => Excused(q)') /\ (There(q) => There(q)')
  BY <1>1, <1>5 DEF Excused, There, Select
<1>9. There(p) /\ \A a \in db["asked"] : a.poll = p => Excused(p)
  BY <1>3, <1>0 DEF AskedByOne, TextsThere, TextsFirst
<1>10. ASSUME NEW k \in DOMAIN open, k # n, <<"dates", p>> \in open[k].writes PROVE Excused(p)
  <2>1. <<"dates", p>> \in t.writes
    BY <1>3, <1>0, DatesWritten DEF RequestsOK
  <2> QED BY <1>10, <2>1, DatesMeet
<1> HIDE DEF t, e, u, row
<1>11. Starting(p)' /\ \A q : Starting(q) => Starting(q)'
  BY <1>1, <1>2, <1>3, <1>0 DEF Starting, t
<1>12. AskedForm'
  BY <1>6, <1>7 DEF AskedByOne, AskedForm
<1>13. AskedThere'
  BY <1>6, <1>7, <1>8, <1>9 DEF AskedByOne, AskedThere
<1>14. TextsThere'
  BY <1>1, <1>2, <1>8 DEF AskedByOne, TextsThere
<1>15. AskedStarted'
  <2>1. ASSUME NEW a \in db["asked"]
        PROVE  \/ Excused(a.poll)' \/ Starting(a.poll)'
               \/ \A q \in db'["polls"] : q.id = a.poll => q.start # 0
    <3>1. CASE Excused(a.poll)
      BY <1>8, <3>1
    <3>2. CASE Starting(a.poll)
      BY <1>11, <3>2
    <3>3. CASE \A q \in db["polls"] : q.id = a.poll => q.start # 0
      BY <1>5, <3>3
    <3>4. Excused(a.poll) \/ Starting(a.poll) \/ \A q \in db["polls"] : q.id = a.poll => q.start # 0
      BY DEF AskedByOne, AskedStarted
    <3> QED BY <3>1, <3>2, <3>3, <3>4, Zenon
  <2>2. ASSUME NEW a, NEW c, a = Question(n, p, c) PROVE Starting(a.poll)'
    BY <1>7, <1>11, <2>2
  <2> QED BY <1>6, <2>1, <2>2 DEF AskedStarted
<1>16. OneStart'
  BY <1>6, <1>7, <1>8, <1>9 DEF AskedByOne, OneStart
<1>17. SavedStarted'
  <2>1. ASSUME NEW k \in DOMAIN open, k # n, NEW q \in open[k].effect.put["polls"],
               NEW a \in db'["asked"], a.poll = q.id
        PROVE  Excused(a.poll) \/ q.start # 0
    <3>1. <<"dates", q.id>> \in open[k].writes
      BY DatesWritten DEF RequestsOK
    <3> QED BY <1>6, <1>7, <1>10, <2>1, <3>1 DEF AskedByOne, SavedStarted
  <2> QED BY <1>1, <1>2, <1>3, <1>4, <1>8, <2>1 DEF SavedStarted
<1>18. TextsFirst'
  <2>1. ASSUME NEW k \in DOMAIN open, k # n, open[k].place = "texts",
               NEW a \in db'["asked"], a.poll = open[k].on.id
        PROVE  Excused(a.poll)
    <3>1. <<"dates", a.poll>> \in open[k].writes
      BY <2>1, DatesWritten DEF RequestsOK
    <3> QED BY <1>6, <1>7, <1>10, <2>1, <3>1 DEF AskedByOne, TextsFirst
  <2> QED BY <1>1, <1>2, <1>8, <2>1 DEF TextsFirst
<1> QED BY <1>12, <1>13, <1>14, <1>15, <1>16, <1>17, <1>18 DEF AskedByOne

\* A poll that is deleted leaves a tombstone.
LEMMA ThereStays ==
  ASSUME RequestsOK, NEW n \in DOMAIN open, Write(open[n].effect), NEW p, There(p)
  PROVE  There(p)'
<1> DEFINE e == open[n].effect
<1>1. "polls" \in Tables /\ "tombstones" \in Tables
  BY TablesThere DEF Schema
<1>2. e.drop["tombstones"] = {} /\ \A i \in e.drop["polls"] : Buried(e, i)
  BY DEF RequestsOK, Wellformed, OfPolls
<1>3. ASSUME NEW x \in db["tombstones"], x.id = <<"polls", p>> PROVE There(p)'
  <2>1. \E y \in db'["tombstones"] : y.id = x.id
    BY <1>1, <1>2, WriteKeepsId
  <2> QED BY <1>3, <2>1 DEF There, Select
<1>4. ASSUME NEW q \in db["polls"], q.id = p, p \notin e.drop["polls"] PROVE There(p)'
  <2>1. \E r \in db'["polls"] : r.id = q.id
    BY <1>1, <1>4, WriteKeepsId
  <2> QED BY <1>4, <2>1 DEF There
<1>5. ASSUME p \in e.drop["polls"] PROVE There(p)'
  <2>1. PICK x \in e.put["tombstones"] : x.id = <<"polls", p>> /\ x.id \in e.made["tombstones"]
    BY <1>2, <1>5 DEF Buried
  <2>2. x.id \notin Gone(e, "tombstones")
    BY <2>1 DEF Gone
  <2>3. x \in db'["tombstones"]
    BY <1>1, <2>1, <2>2, WriteAt
  <2> QED BY <2>1, <2>3 DEF There, Select
<1> QED BY <1>3, <1>4, <1>5 DEF There, Select

LEMMA FinishAsked ==
  ASSUME RequestsOK, AskedByOne, NEW n \in DOMAIN open, Finish(n)
  PROVE  AskedByOne'
<1> DEFINE e == open[n].effect
<1>1. Write(e) /\ open' = Closed(n) /\ history \subseteq history'
  BY DEF Finish, Commit
<1>2. DOMAIN open' = DOMAIN open \ {n} /\ \A k \in DOMAIN open' : open'[k] = open[k]
  BY <1>1, ClosedOpen
<1>3. "asked" \in Tables /\ "polls" \in Tables
  BY TablesThere DEF Schema
<1>4. db'["asked"] \subseteq db["asked"]
  <2>1. e.put["asked"] = {}
    BY DEF RequestsOK, Wellformed
  <2> QED BY <1>1, <1>3, <2>1, WriteAt
<1>5. \A p : (Excused(p) => Excused(p)') /\ (There(p) => There(p)')
  <2>1. \A p : There(p) => There(p)'
    BY <1>1, ThereStays
  <2>2. \A p : Excused(p) => Excused(p)'
    BY <1>1 DEF Excused
  <2> QED BY <2>1, <2>2
<1>6. AskedForm' /\ AskedThere' /\ OneStart'
  BY <1>4, <1>5 DEF AskedByOne, AskedForm, AskedThere, OneStart
<1>7. TextsThere' /\ TextsFirst'
  BY <1>2, <1>4, <1>5 DEF AskedByOne, TextsThere, TextsFirst
<1>8. SavedStarted'
  BY <1>2, <1>4, <1>5 DEF AskedByOne, SavedStarted
<1>9. AskedStarted'
  <2> SUFFICES ASSUME NEW a \in db["asked"]
               PROVE  \/ Excused(a.poll) \/ Starting(a.poll)'
                      \/ \A q \in db'["polls"] : q.id = a.poll => q.start # 0
    BY <1>4, <1>5 DEF AskedStarted
  <2>1. ASSUME NEW q \in e.put["polls"], q.id = a.poll PROVE Excused(a.poll) \/ q.start # 0
    BY <2>1 DEF AskedByOne, SavedStarted
  <2>2. \A q \in db'["polls"] : q \in e.put["polls"] \/ (q \in db["polls"] /\ q.id \notin Ids(e.put["polls"]))
    BY <1>1, <1>3, WriteReplaces, WriteDrops
  <2>3. ASSUME NEW k \in DOMAIN open, k # n, open[k].kind = "start", open[k].place = "written",
               open[k].on.id = a.poll
        PROVE  Starting(a.poll)'
    BY <1>2, <2>3 DEF Starting
  <2>4. ASSUME open[n].kind = "start", open[n].place = "written", open[n].on.id = a.poll
        PROVE  a.poll \in Ids(e.put["polls"])
    <3>1. OfPolls(open[n])
      BY DEF RequestsOK, Wellformed
    <3>2. \E q \in e.put["polls"] : q.id = a.poll
      BY <2>4, <3>1 DEF OfPolls
    <3> QED BY <3>2 DEF Ids
  <2> QED BY <2>1, <2>2, <2>3, <2>4 DEF AskedByOne, AskedStarted, Starting
<1> QED BY <1>6, <1>7, <1>8, <1>9 DEF AskedByOne

LEMMA FailAsked ==
  ASSUME RequestsOK, AskedByOne, NEW n \in DOMAIN open, Fail(n)
  PROVE  AskedByOne'
<1>1. /\ open' = Closed(n) /\ db' = db /\ history \subseteq history'
      /\ open[n].kind = "start" /\ open[n].place = "written" => <<"torn", open[n].on.id>> \in history'
  BY DEF Fail, Rollback
<1>2. DOMAIN open' = DOMAIN open \ {n} /\ \A k \in DOMAIN open' : open'[k] = open[k]
  BY <1>1, ClosedOpen
<1>3. /\ \A p : (Excused(p) => Excused(p)') /\ (There(p) => There(p)')
      /\ AskedForm' /\ AskedThere' /\ OneStart'
  BY <1>1, SameAsked
<1>4. \A p : Starting(p) => Starting(p)' \/ Excused(p)'
  BY <1>1, <1>2 DEF Starting, Excused
<1>5. AskedStarted'
  BY <1>1, <1>3, <1>4 DEF AskedByOne, AskedStarted
<1>6. TextsThere' /\ TextsFirst'
  BY <1>1, <1>2, <1>3 DEF AskedByOne, TextsThere, TextsFirst
<1>7. SavedStarted'
  BY <1>1, <1>2, <1>3 DEF AskedByOne, SavedStarted
<1> QED BY <1>3, <1>5, <1>6, <1>7 DEF AskedByOne

LEMMA NextAsked ==
  ASSUME RequestsOK, AskedByOne, [Next]_vars
  PROVE  AskedByOne'
<1>1. ASSUME UNCHANGED database PROVE AskedByOne'
  <2>1. db' = db /\ open' = open /\ history' = history
    BY <1>1 DEF database
  <2>2. \A p : Excused(p)' = Excused(p) /\ There(p)' = There(p) /\ Starting(p)' = Starting(p)
    BY <2>1 DEF Excused, There, Starting
  <2>3. AskedForm' /\ AskedThere' /\ OneStart'
    BY <2>1, SameAsked
  <2>4. AskedStarted' /\ TextsThere' /\ TextsFirst' /\ SavedStarted'
    BY <2>1, <2>2 DEF AskedByOne, AskedStarted, TextsThere, TextsFirst, SavedStarted
  <2> QED BY <2>3, <2>4 DEF AskedByOne
<1> QED BY <1>1, Stepping, BeginAsked, PhaseAsked, MassTextAsked, FinishAsked, FailAsked DEF StepIs

\* No contact gets the question of a poll twice, whatever starts, stops, edits
\* and deletions of polls overlap, unless two of them are about the dates of the
\* poll or a start fails between its two commits.
THEOREM QuestionsAskedOnce ==
  Spec => []AskedOnce
<1>1. Init => AskedByOne
  <2> SUFFICES ASSUME Init PROVE AskedByOne
    OBVIOUS
  <2>1. PICK w \in Workloads : db = w.db
    BY DEF Init
  <2>2. db["asked"] = {} /\ DOMAIN open = {}
    BY <2>1, IncomingAssumption DEF Init
  <2> QED BY <2>2 DEF AskedByOne, AskedForm, AskedThere, TextsThere, AskedStarted, OneStart,
                      SavedStarted, TextsFirst
<1>2. RequestsOK /\ AskedByOne /\ [Next]_vars => AskedByOne'
  BY NextAsked
<1>3. AskedByOne => AskedOnce
  <2> SUFFICES ASSUME AskedByOne, NEW p \in db["polls"], NEW c \in Recipients(db, p.id),
                      Alone("dates", p.id), Alone("torn", p.id)
               PROVE  Cardinality({a \in db["asked"] : a.poll = p.id /\ a.conn = c}) <= 1
    BY DEF AskedOnce
  <2> DEFINE S == {a \in db["asked"] : a.poll = p.id /\ a.conn = c}
  <2>1. ASSUME NEW a \in S, NEW b \in S PROVE a = b
    <3>1. PICK n : a = Question(n, p.id, c)
      BY DEF AskedByOne, AskedForm
    <3>2. PICK k : b = Question(k, p.id, c)
      BY DEF AskedByOne, AskedForm
    <3>3. a.id[1] = b.id[1]
      BY DEF AskedByOne, OneStart, Alone, Excused
    <3>4. n = k
      BY <3>1, <3>2, <3>3 DEF Question
    <3> QED BY <3>1, <3>2, <3>4
  <2>2. S = {} \/ \E a : S = {a}
    BY <2>1
  <2> HIDE DEF S
  <2>3. Cardinality(S) \in {0, 1}
    BY <2>2, FS_EmptySet, FS_Singleton
  <2> QED BY <2>3 DEF S
<1> QED BY <1>1, <1>2, <1>3, RequestsStayOK, PTL DEF Spec
=============================================================================
