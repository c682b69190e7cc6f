---------------------------- MODULE OverlapProofs ----------------------------
(***************************************************************************)
(* Theorems about Incoming: what two requests that overlap may make of one *)
(* table, and what they may not.                                           *)
(*                                                                         *)
(* A request writes what it made of the tables as they were when it read   *)
(* them; others commit before it does.  The arguments here follow what a   *)
(* request sees (the committed rows after what it has written) from one    *)
(* commit of another request to the next, until two of them are about one  *)
(* thing, and have left a mark in history.                                 *)
(***************************************************************************)
EXTENDS IncomingProofs

-----------------------------------------------------------------------------
(***************************************************************************)
(* Effects.                                                                *)
(***************************************************************************)

\* Whether a row is there after an effect.
LEMMA AfterIs ==
  ASSUME NEW d, NEW e, NEW T \in Tables
  PROVE  \A r : r \in After(d, e)[T] <=>
           \/ r \in e.put[T]
           \/ r \in d[T] /\ r.id \notin e.drop[T] /\ \A q \in e.put[T] : q.id # r.id
<1>1. After(d, e)[T] = Without(d[T], e.drop[T] \cup Ids(e.put[T])) \cup e.put[T]
  BY AfterAt
<1> QED BY <1>1 DEF Without, Ids

LEMMA ThenIs ==
  ASSUME NEW e, NEW f, NEW T \in Tables
  PROVE  /\ \A r : r \in Then(e, f).put[T] <=>
              \/ r \in f.put[T]
              \/ r \in e.put[T] /\ r.id \notin f.drop[T] /\ \A q \in f.put[T] : q.id # r.id
         /\ \A i : i \in Then(e, f).drop[T] <=> i \in e.drop[T] \/ i \in f.drop[T]
BY ThenAt DEF Without, Ids

\* One effect and then another, on the tables.
LEMMA AfterThen ==
  ASSUME NEW d, NEW e, NEW f, NEW T \in Tables
  PROVE  After(d, Then(e, f))[T] = After(After(d, e), f)[T]
<1> DEFINE g == Then(e, f)
           d2 == After(d, e)
<1>1. \A r : r \in After(d, g)[T] <=>
        r \in g.put[T] \/ (r \in d[T] /\ r.id \notin g.drop[T] /\ \A q \in g.put[T] : q.id # r.id)
  BY AfterIs
<1>2. \A r : r \in After(d2, f)[T] <=>
        r \in f.put[T] \/ (r \in d2[T] /\ r.id \notin f.drop[T] /\ \A q \in f.put[T] : q.id # r.id)
  BY AfterIs
<1>3. \A r : r \in d2[T] <=>
        r \in e.put[T] \/ (r \in d[T] /\ r.id \notin e.drop[T] /\ \A q \in e.put[T] : q.id # r.id)
  BY AfterIs
<1>4. /\ \A r : r \in g.put[T] <=>
           r \in f.put[T] \/ (r \in e.put[T] /\ r.id \notin f.drop[T] /\ \A q \in f.put[T] : q.id # r.id)
      /\ \A i : i \in g.drop[T] <=> i \in e.drop[T] \/ i \in f.drop[T]
  BY ThenIs
<1> HIDE DEF g, d2
<1>5. \A r : r \in After(d, g)[T] <=> r \in After(d2, f)[T]
  BY <1>1, <1>2, <1>3, <1>4
<1> QED BY <1>5 DEF g, d2

\* What is there after a commit is there for the request that commits.
LEMMA WriteSeen ==
  ASSUME NEW e, Write(e), NEW T \in Tables
  PROVE  db'[T] \subseteq After(db, e)[T]
<1> SUFFICES ASSUME NEW r \in db'[T] PROVE r \in After(db, e)[T]
  OBVIOUS
<1>1. r \in e.put[T] \/ (r \in db[T] /\ r.id \notin e.drop[T])
  BY WriteDrops
<1>2. r \notin e.put[T] => r.id \notin Ids(e.put[T])
  BY WriteReplaces
<1> QED BY <1>1, <1>2, AfterIs DEF Ids

\* One effect begins at a time.
LEMMA BeginOne ==
  ASSUME RequestsOK, NEW t, NEW u, Begin(t), Begin(u)
  PROVE  t = u
BY BeginOpen

-----------------------------------------------------------------------------
(***************************************************************************)
(* Which tables a request writes, by its kind.                             *)
(***************************************************************************)

\* The effect e puts rows into the tables of P only, and deletes from those of D.
Within(e, P, D) == \A T \in Tables : (T \notin P => e.put[T] = {}) /\ (T \notin D => e.drop[T] = {})

LEMMA WithinBasic ==
  ASSUME NEW U \in Tables, NEW R
  PROVE  /\ Within(NoEffect, {}, {}) /\ Within(Deleted(U, R), {}, {U})
         /\ Within(Inserted(U, R), {U}, {}) /\ Within(Saved(U, R), {U}, {})
<1>1. Within(NoEffect, {}, {})
  BY NoEffectAt DEF Within
<1>2. Within(Deleted(U, R), {}, {U})
  BY DeletedAt DEF Within
<1>3. Within(Inserted(U, R), {U}, {})
  BY InsertedAt DEF Within
<1>4. Within(Saved(U, R), {U}, {})
  BY SavedAt DEF Within
<1> QED BY <1>1, <1>2, <1>3, <1>4

LEMMA WithinThen ==
  ASSUME NEW e, NEW f, NEW P, NEW D, NEW P2, NEW D2, Within(e, P, D), Within(f, P2, D2)
  PROVE  Within(Then(e, f), P \cup P2, D \cup D2)
BY ThenNothing DEF Within

LEMMA WithinMore ==
  ASSUME NEW e, NEW P, NEW D, NEW P2, NEW D2, Within(e, P, D), P \subseteq P2, D \subseteq D2
  PROVE  Within(e, P2, D2)
BY DEF Within

\* The tables that a request of a kind puts rows into, and those it deletes from.
Puts ==
  [message |-> {"roster", "contacts", "blacklist", "responses", "labels", "submissions"},
   end |-> RosterTables, add |-> {"roster"}, reporter |-> RosterTables, reschedule |-> {"roster"},
   now |-> {"roster"}, special |-> {"roster"}, water |-> {"roster"}, remove |-> {"tombstones"},
   create |-> {"polls", "recipients"}, start |-> {"polls"}, stop |-> {"polls"},
   poll |-> {"polls", "recipients", "tombstones"},
   rules |-> {"rules", "responses", "labels"}, category |-> {"categories"},
   edit |-> {"responses", "labels"}, erase |-> {}, amend |-> {"submissions"}]

Drops ==
  [message |-> {"roster", "blacklist", "responses", "labels"},
   end |-> {"roster", "members"}, add |-> {"roster"}, reporter |-> {"roster", "members"},
   reschedule |-> {"roster"}, now |-> {"roster"}, special |-> {}, water |-> {"roster"},
   remove |-> Schema \ {"tombstones"},
   create |-> {}, start |-> {}, stop |-> {}, poll |-> {"polls", "recipients"} \cup AnswerTables,
   rules |-> {"rules", "labels"}, category |-> {"categories", "rules", "labels"},
   edit |-> {"labels"}, erase |-> {"responses", "labels"}, amend |-> {}]

Own(t) == t.kind \in DOMAIN Puts /\ Within(t.effect, Puts[t.kind], Drops[t.kind])

LEMMA OwnIs ==
  ASSUME NEW kind \in DOMAIN Puts, NEW on, NEW place, NEW effect, NEW reads, NEW writes, NEW notes,
         Within(effect, Puts[kind], Drops[kind])
  PROVE  LET t == Request(kind, on, place, effect, reads, writes, notes)
         IN Own(t) /\ t.kind = kind
BY RequestIs DEF Own

LEMMA ScheduleAtWithin ==
  ASSUME NEW d, NEW n, NEW c, NEW s, NEW day
  PROVE  Within(schedule_at(d, n, c, s, day), {"roster"}, {"roster"})
<1> DEFINE out == Deleted("roster", ScriptRows(d, c, s))
           add == Inserted("roster", {NewRow(n, c, s, t) : t \in {x \in {day} : x # None /\ ~Blacklisted(d, c)}})
<1>1. Within(out, {}, {"roster"}) /\ Within(add, {"roster"}, {})
  BY TablesThere, WithinBasic DEF Schema
<1>2. schedule_at(d, n, c, s, day) = Then(out, add)
  BY DEF schedule_at
<1> HIDE DEF out, add
<1>3. Within(Then(out, add), {} \cup {"roster"}, {"roster"} \cup {})
  BY <1>1, WithinThen
<1> QED BY <1>2, <1>3, WithinMore

LEMMA ScheduleEachWithin ==
  ASSUME NEW d, NEW n, NEW due
  PROVE  Within(ScheduleEach(d, n, due), {"roster"}, {"roster"})
BY ScheduleAtWithin DEF ScheduleEach, Within

LEMMA ScheduleWithin ==
  ASSUME NEW d, NEW n, NEW c, NEW s, NEW day
  PROVE  /\ Within(schedule(d, n, c, s, day), {"roster"}, {"roster"})
         /\ Within(schedule_all(d, n, c, day), {"roster"}, {"roster"})
         /\ Within(schedule_script_at(d, n, s, day), {"roster"}, {"roster"})
         /\ Within(schedule_script(d, n, s, day), {"roster"}, {"roster"})
BY ScheduleAtWithin, ScheduleEachWithin DEF schedule, schedule_all, schedule_script_at, schedule_script

LEMMA MovedWithin ==
  ASSUME NEW d, NEW c, NEW g
  PROVE  Within(Moved(d, c, g), {"members"}, {"members"})
<1> DEFINE out == Deleted("members", {m \in d["members"] : m.conn = c})
           add == Inserted("members", {[id |-> <<c, g>>, conn |-> c, group |-> g]})
<1>1. Within(out, {}, {"members"}) /\ Within(add, {"members"}, {})
  BY TablesThere, WithinBasic DEF Schema
<1>2. Moved(d, c, g) = Then(out, add)
  BY DEF Moved
<1> HIDE DEF out, add
<1>3. Within(Then(out, add), {} \cup {"members"}, {"members"} \cup {})
  BY <1>1, WithinThen
<1> QED BY <1>2, <1>3, WithinMore

LEMMA RegisteredWithin ==
  ASSUME NEW d, NEW n, NEW c, NEW answer
  PROVE  Within(Registered(d, n, c, answer), RosterTables, {"roster", "members"})
<1> DEFINE old == Contact(d, c)
           kept == {k.grade : k \in old \cap Listed(d)}
           who == [id |-> c, active |-> TRUE,
                   grade |-> IF answer.grade # "" \/ kept = {} THEN answer.grade
                             ELSE CHOOSE g \in kept : TRUE]
           found == IF old = {} THEN Inserted("contacts", {who}) ELSE Saved("contacts", {who})
           moved == Moved(d, c, match_group_response(answer.role))
           e == Then(found, moved)
<1> HIDE DEF old, who
<1>1. Within(found, {"contacts"}, {}) /\ Within(moved, {"members"}, {"members"})
  BY TablesThere, WithinBasic, MovedWithin DEF Schema
<1> HIDE DEF found, moved
<1>2. Within(e, {"contacts"} \cup {"members"}, {} \cup {"members"})
  BY <1>1, WithinThen
<1> HIDE DEF e
<1>3. Within(Then(e, schedule_all(After(d, e), n, c, today)),
             ({"contacts"} \cup {"members"}) \cup {"roster"}, ({} \cup {"members"}) \cup {"roster"})
  BY <1>2, WithinThen, ScheduleWithin
<1>4. Registered(d, n, c, answer) = Then(e, schedule_all(After(d, e), n, c, today))
  BY Zenon DEF Registered, e, found, moved, who, old
<1> QED BY <1>3, <1>4, WithinMore DEF RosterTables

LEMMA EndRunKind ==
  ASSUME EndRun
  PROVE  \E t : Begin(t) /\ Own(t) /\ t.kind = "end"
<1> DEFINE out(row) == Deleted("roster", {row})
           next(row, answer) ==
             IF row.script = AUTOREG THEN Registered(After(db, out(row)), serial + 1, row.conn, answer)
             ELSE schedule(After(db, out(row)), serial + 1, row.conn, row.script, today)
<1>1. PICK row \in db["roster"], answer \in Answers :
        Begin(Request("end", row.id, "written", Ended(db, serial + 1, row, answer),
                {}, About({row.conn}) \cup IF row.script = AUTOREG THEN Details({row.conn}) ELSE {}, {}))
  BY DEF EndRun
<1>2. Ended(db, serial + 1, row, answer) = Then(out(row), next(row, answer))
  BY Zenon DEF Ended
<1>3. Within(out(row), {}, {"roster"})
  BY TablesThere, WithinBasic DEF Schema
<1>4. Within(next(row, answer), RosterTables, {"roster", "members"})
  BY RegisteredWithin, ScheduleWithin, WithinMore DEF RosterTables
<1> HIDE DEF out, next
<1>5. Within(Then(out(row), next(row, answer)), {} \cup RosterTables, {"roster"} \cup {"roster", "members"})
  BY <1>3, <1>4, WithinThen
<1>6. Within(Ended(db, serial + 1, row, answer), Puts["end"], Drops["end"])
  BY <1>2, <1>5, WithinMore DEF Puts, Drops
<1>7. "end" \in DOMAIN Puts
  BY DEF Puts
<1> QED BY <1>1, <1>6, <1>7, OwnIs

LEMMA AddConnectionsKind ==
  ASSUME AddConnections
  PROVE  \E t : Begin(t) /\ Own(t) /\ t.kind = "add"
<1> DEFINE fresh(c, others) == {x \in {c} \cup others : Contact(db, x) = {}}
           out(c) == Deleted("roster", RowsOf(db, c))
           add(c, others) == Inserted("roster", {NewRow(serial + 1, x, AUTOREG, today) : x \in fresh(c, others)})
           notes(c, others) ==
             {<<"doubled", x>> : x \in {y \in fresh(c, others) \cap others : Registering(db, y)}}
             \cup {<<"overlooked", x>> : x \in {c} \ fresh(c, others)}
<1>1. \E c \in Connections : \E others \in SUBSET {x \in Connections \ {c} : ~IsRemoved(db, x)} :
        Begin(Request("add", c, "written", Then(out(c), add(c, others)),
                      {}, About({c} \cup others), notes(c, others)))
  BY Zenon DEF AddConnections
<1>2. ASSUME NEW c, NEW others PROVE Within(out(c), {}, {"roster"}) /\ Within(add(c, others), {"roster"}, {})
  BY TablesThere, WithinBasic DEF Schema
<1> HIDE DEF out, add, notes
<1>3. ASSUME NEW c, NEW others
      PROVE  Within(Then(out(c), add(c, others)), {} \cup {"roster"}, {"roster"} \cup {})
  BY <1>2, WithinThen
<1>4. ASSUME NEW c, NEW others
      PROVE  Within(Then(out(c), add(c, others)), Puts["add"], Drops["add"])
  BY <1>3, WithinMore DEF Puts, Drops
<1>5. "add" \in DOMAIN Puts
  BY DEF Puts
<1> QED BY <1>1, <1>4, <1>5, OwnIs

LEMMA EditReporterKind ==
  ASSUME EditReporter
  PROVE  \E t : Begin(t) /\ Own(t) /\ t.kind = "reporter"
<1> DEFINE new(answer) == match_group_response(answer.role)
           e(k, answer) == Then(Saved("contacts", {[k EXCEPT !.grade = answer.grade]}),
                                Moved(db, k.id, new(answer)))
           after(k, answer) == After(db, e(k, answer))
           all(k, answer) == schedule_all(after(k, answer), serial + 1, k.id, today)
           effect(k, answer, old) == IF new(answer) # old THEN Then(e(k, answer), all(k, answer)) ELSE e(k, answer)
           notes(k, answer, old) ==
             IF new(answer) = old /\ scripts_for(after(k, answer), k.id) # scripts_for(db, k.id)
             THEN {<<"overlooked", k.id>>} ELSE {}
<1>1. \E k \in Listed(db), answer \in Answers : \E old \in GroupsOf(db, k.id) :
        Begin(Request("reporter", k.id, "written", effect(k, answer, old), {},
                      About({k.id}) \cup Details({k.id}), notes(k, answer, old)))
  BY Zenon DEF EditReporter
<1>2. ASSUME NEW k, NEW answer
      PROVE  Within(e(k, answer), {"contacts"} \cup {"members"}, {} \cup {"members"})
  <2>1. Within(Saved("contacts", {[k EXCEPT !.grade = answer.grade]}), {"contacts"}, {})
    BY TablesThere, WithinBasic DEF Schema
  <2> QED BY <2>1, MovedWithin, WithinThen
<1>3. ASSUME NEW k, NEW answer PROVE Within(all(k, answer), {"roster"}, {"roster"})
  BY ScheduleWithin
<1> HIDE DEF e, all, new, notes
<1>4. ASSUME NEW k, NEW answer
      PROVE  Within(Then(e(k, answer), all(k, answer)), ({"contacts"} \cup {"members"}) \cup {"roster"},
                    ({} \cup {"members"}) \cup {"roster"})
  BY <1>2, <1>3, WithinThen
<1>5. ASSUME NEW k, NEW answer, NEW old
      PROVE  Within(effect(k, answer, old), Puts["reporter"], Drops["reporter"])
  BY <1>2, <1>4, WithinMore DEF Puts, Drops, RosterTables
<1>6. "reporter" \in DOMAIN Puts
  BY DEF Puts
<1> HIDE DEF effect
<1> QED BY <1>1, <1>5, <1>6, OwnIs

LEMMA RescheduleScriptsKind ==
  ASSUME RescheduleScripts
  PROVE  \E t : Begin(t) /\ Own(t) /\ t.kind = "reschedule"
<1> DEFINE effect(s, day) == IF day # None THEN schedule_script_at(db, serial + 1, s, day)
                             ELSE schedule_script(db, serial + 1, s, today)
<1>1. PICK s \in Rostered, day \in {None} \cup today .. LastDay :
        Begin(Request("reschedule", s, "written", effect(s, day), {}, About(Subscribers(db, s)), {}))
  BY Zenon DEF RescheduleScripts
<1>2. Within(effect(s, day), {"roster"}, {"roster"})
  BY ScheduleWithin
<1> HIDE DEF effect
<1>3. "reschedule" \in DOMAIN Puts /\ Within(effect(s, day), Puts["reschedule"], Drops["reschedule"])
  BY <1>2, WithinMore DEF Puts, Drops
<1> QED BY <1>1, <1>3, OwnIs

LEMMA ScheduleNowKind ==
  ASSUME ScheduleNow
  PROVE  \E t : Begin(t) /\ Own(t) /\ t.kind = "now"
<1> DEFINE whose(name) == {k.id : k \in {x \in Listed(db) : name \in GroupsOf(db, x.id)}}
           effect(s, name) == ScheduleEach(db, serial + 1, {<<c, s, today>> : c \in whose(name)})
<1>1. PICK s \in Rostered, name \in {m.group : m \in db["members"]} :
        Begin(Request("now", s, "written", effect(s, name), {}, About(whose(name)), {}))
  BY Zenon DEF ScheduleNow
<1>2. Within(effect(s, name), {"roster"}, {"roster"})
  BY ScheduleEachWithin
<1> HIDE DEF effect, whose
<1>3. "now" \in DOMAIN Puts /\ Within(effect(s, name), Puts["now"], Drops["now"])
  BY <1>2, WithinMore DEF Puts, Drops
<1> QED BY <1>1, <1>3, OwnIs

LEMMA SpecialScriptKind ==
  ASSUME SpecialScript
  PROVE  \E t : Begin(t) /\ Own(t) /\ t.kind = "special"
<1> DEFINE whose(chosen) == {k.id : k \in chosen}
           effect(chosen) == Inserted("roster", {NewRow(serial + 1, c, SPECIAL, today) : c \in whose(chosen)})
<1>1. PICK chosen \in SUBSET Listed(db) :
        Begin(Request("special", SPECIAL, "written", effect(chosen), {}, About(whose(chosen)), {}))
  BY Zenon DEF SpecialScript
<1>2. Within(effect(chosen), {"roster"}, {})
  BY TablesThere, WithinBasic DEF Schema
<1> HIDE DEF effect, whose
<1>3. "special" \in DOMAIN Puts /\ Within(effect(chosen), Puts["special"], Drops["special"])
  BY <1>2, WithinMore DEF Puts, Drops
<1> QED BY <1>1, <1>3, OwnIs

LEMMA ScheduleWaterPollsKind ==
  ASSUME ScheduleWaterPolls
  PROVE  \E t : Begin(t) /\ Own(t) /\ t.kind = "water"
<1> DEFINE whose(chosen) == {k.id : k \in chosen}
           old(s) == {r \in db["roster"] : r.script = s}
           out(s) == Deleted("roster", old(s))
           add(s, chosen, day) == Inserted("roster", {NewRow(serial + 1, c, s, day) : c \in whose(chosen)})
           notes(s, chosen) == {<<"overlooked", c>> : c \in Subscribers(db, s) \ whose(chosen)}
<1>1. PICK s \in WATER, chosen \in SUBSET Listed(db), day \in today .. LastDay :
        Begin(Request("water", s, "written", Then(out(s), add(s, chosen, day)), {},
                      About(whose(chosen) \cup {r.conn : r \in old(s)}), notes(s, chosen)))
  BY Zenon DEF ScheduleWaterPolls
<1>2. Within(out(s), {}, {"roster"}) /\ Within(add(s, chosen, day), {"roster"}, {})
  BY TablesThere, WithinBasic DEF Schema
<1> HIDE DEF out, add, whose, old, notes
<1>3. Within(Then(out(s), add(s, chosen, day)), {} \cup {"roster"}, {"roster"} \cup {})
  BY <1>2, WithinThen
<1>4. "water" \in DOMAIN Puts /\ Within(Then(out(s), add(s, chosen, day)), Puts["water"], Drops["water"])
  BY <1>3, WithinMore DEF Puts, Drops
<1> QED BY <1>1, <1>4, OwnIs

LEMMA ErasedWithin ==
  ASSUME NEW d, NEW R
  PROVE  Within(Erased(d, R), {}, {"responses", "labels"})
<1> DEFINE e == Deleted("labels", LabelsOf(d, R))
           f == Deleted("responses", R)
<1>1. Within(e, {}, {"labels"}) /\ Within(f, {}, {"responses"})
  BY TablesThere, WithinBasic DEF Schema
<1>2. Erased(d, R) = Then(e, f)
  BY DEF Erased
<1> HIDE DEF e, f
<1>3. Within(Then(e, f), {} \cup {}, {"labels"} \cup {"responses"})
  BY <1>1, WithinThen
<1> QED BY <1>2, <1>3, WithinMore

\* What the poll app writes.
AppPuts  == {"responses", "labels"}
AppDrops == {"responses", "labels"}

LEMMA HandleWithin ==
  ASSUME NEW d, NEW n, NEW c, NEW words, NEW e \in Handle(d, n, c, words)
  PROVE  Within(e, AppPuts, AppDrops)
<1> DEFINE g(p) == process_response(d, n, p, c, words)
<1>1. PICK p \in Latest(d, c) :
        LET new == CHOOSE r \in After(d, g(p))["responses"] : r.id = n
            old == ResponsesOf(d, p.id, c)
        IN e \in IF p.rule = "all" \/ old = {} \/ Raises(d, p.id, Matching(d, p.id, words)) THEN {g(p)}
                 ELSE {IF Kept(r, new) THEN Then(g(p), Erased(d, {r})) ELSE NoEffect : r \in old}
  BY Zenon DEF Handle
<1>2. \/ e \in {g(p), NoEffect} \/ \E r : e = Then(g(p), Erased(d, {r}))
  BY <1>1
<1>3. Within(g(p), AppPuts, {})
  <2>1. ASSUME NEW bad PROVE Within(Response(n, p, c, words, bad), {"responses"}, {})
    BY TablesThere, WithinBasic DEF Response, Schema
  <2>2. ASSUME NEW L PROVE Within(Inserted("labels", L), {"labels"}, {})
    BY TablesThere, WithinBasic DEF Schema
  <2>3. ASSUME NEW bad, NEW L
        PROVE  Within(Then(Response(n, p, c, words, bad), Inserted("labels", L)),
                      {"responses"} \cup {"labels"}, {} \cup {})
    BY <2>1, <2>2, WithinThen
  <2>4. \/ \E bad : g(p) = Response(n, p, c, words, bad)
        \/ \E bad, L : g(p) = Then(Response(n, p, c, words, bad), Inserted("labels", L))
    BY DEF process_response
  <2> QED BY <2>1, <2>3, <2>4, WithinMore DEF AppPuts
<1>4. Within(NoEffect, {}, {})
  BY TablesThere, WithinBasic DEF Schema
<1> HIDE DEF g
<1>5. ASSUME NEW r
      PROVE  Within(Then(g(p), Erased(d, {r})), AppPuts \cup {}, {} \cup {"responses", "labels"})
  BY <1>3, ErasedWithin, WithinThen
<1>6. Within(g(p), AppPuts, AppDrops) /\ Within(NoEffect, AppPuts, AppDrops)
  BY <1>3, <1>4, WithinMore
<1>7. ASSUME NEW r PROVE Within(Then(g(p), Erased(d, {r})), AppPuts, AppDrops)
  BY <1>5, WithinMore DEF AppDrops
<1> QED BY <1>2, <1>6, <1>7

LEMMA ReprocessWithin ==
  ASSUME NEW d, NEW n, NEW p
  PROVE  Within(reprocess_responses(d, n, p), {"labels", "responses"}, {"labels"})
<1> DEFINE all     == PollResponses(d, p)
           cats(r) == OrDefault(d, p, Overrides(d, r) \cup Matching(d, p, r.text)) \ Overrides(d, r)
           out == Deleted("labels", {l \in LabelsOf(d, all) : ~l.override})
           add == Inserted("labels", UNION {{Label(n, r.id, k, FALSE) : k \in cats(r)} : r \in all})
           save == Saved("responses", {[r EXCEPT !.errors = cats(r) \cap Errors(d, p) # {}] : r \in all})
<1>1. reprocess_responses(d, n, p) = Then(out, Then(add, save))
  BY Zenon DEF reprocess_responses
<1>2. Within(out, {}, {"labels"}) /\ Within(add, {"labels"}, {}) /\ Within(save, {"responses"}, {})
  BY TablesThere, WithinBasic DEF Schema
<1> HIDE DEF out, add, save
<1>3. Within(Then(add, save), {"labels"} \cup {"responses"}, {} \cup {})
  BY <1>2, WithinThen
<1>4. Within(Then(out, Then(add, save)), {} \cup ({"labels"} \cup {"responses"}), {"labels"} \cup ({} \cup {}))
  BY <1>2, <1>3, WithinThen
<1> QED BY <1>1, <1>4, WithinMore

LEMMA ChangeKind ==
  ASSUME NEW p, NEW e, Change(p, e), Within(e, {"rules"}, {"rules"})
  PROVE  \E t : Begin(t) /\ Own(t) /\ t.kind = "rules"
<1> DEFINE again == reprocess_responses(After(db, e), serial + 1, p.id)
<1>1. Begin(Request("rules", p.id, "written", Then(e, again),
                    {<<"categories", p.id>>}, {<<"rules", p.id>>}, {}))
  BY Zenon DEF Change
<1>2. Within(again, {"labels", "responses"}, {"labels"})
  BY ReprocessWithin
<1> HIDE DEF again
<1>3. Within(Then(e, again), {"rules"} \cup {"labels", "responses"}, {"rules"} \cup {"labels"})
  BY <1>2, WithinThen
<1>4. "rules" \in DOMAIN Puts /\ Within(Then(e, again), Puts["rules"], Drops["rules"])
  BY <1>3, WithinMore DEF Puts, Drops
<1> QED BY <1>1, <1>4, OwnIs

LEMMA ChangeRulesKind ==
  ASSUME ChangeRules
  PROVE  \E t : Begin(t) /\ Own(t) /\ t.kind = "rules"
<1>1. ASSUME NEW R
      PROVE  /\ Within(Inserted("rules", R), {"rules"}, {"rules"}) /\ Within(Saved("rules", R), {"rules"}, {"rules"})
             /\ Within(Deleted("rules", R), {"rules"}, {"rules"})
  BY TablesThere, WithinBasic, WithinMore DEF Schema
<1> QED BY <1>1, ChangeKind DEF ChangeRules

LEMMA RecategorisedKind ==
  ASSUME NEW p, NEW e, Recategorised(p, e), Within(e, {"categories"}, {"categories", "rules", "labels"})
  PROVE  \E t : Begin(t) /\ Own(t) /\ t.kind = "category"
<1>1. "category" \in DOMAIN Puts /\ Within(e, Puts["category"], Drops["category"])
  BY DEF Puts, Drops
<1> QED BY <1>1, OwnIs DEF Recategorised

LEMMA CategoriesKind ==
  ASSUME AddCategory \/ EditCategory \/ DeleteCategory
  PROVE  \E t : Begin(t) /\ Own(t) /\ t.kind = "category"
<1> DEFINE P == {"categories"}
           D == {"categories", "rules", "labels"}
           Fine(e) == Within(e, P, D)
<1>1. ASSUME NEW e, NEW f, Fine(e), Fine(f) PROVE Fine(Then(e, f))
  <2>1. Within(Then(e, f), P \cup P, D \cup D)
    BY <1>1, WithinThen
  <2> QED BY <2>1, WithinMore
<1>2. ASSUME NEW R
      PROVE  /\ Fine(NoEffect) /\ Fine(Inserted("categories", R)) /\ Fine(Saved("categories", R))
             /\ Fine(Deleted("labels", R)) /\ Fine(Deleted("rules", R)) /\ Fine(Deleted("categories", R))
  BY TablesThere, WithinBasic, WithinMore DEF Schema
<1> HIDE DEF Fine
<1>3. ASSUME NEW p PROVE Fine(NoDefaults(p))
  BY <1>2 DEF NoDefaults
<1>4. ASSUME NEW p, NEW e, Recategorised(p, e), Fine(e)
      PROVE  \E t : Begin(t) /\ Own(t) /\ t.kind = "category"
  BY <1>4, RecategorisedKind DEF Fine
<1>5. CASE AddCategory
  <2>1. ASSUME NEW p, NEW default, NEW R
        PROVE  Fine(Then(IF default THEN NoDefaults(p) ELSE NoEffect, Inserted("categories", R)))
    BY <1>1, <1>2, <1>3
  <2> QED BY <1>5, <1>4, <2>1 DEF AddCategory
<1>6. CASE EditCategory
  <2>1. ASSUME NEW p, NEW default, NEW R
        PROVE  Fine(Then(IF default THEN NoDefaults(p) ELSE NoEffect, Saved("categories", R)))
    BY <1>1, <1>2, <1>3
  <2> QED BY <1>6, <1>4, <2>1 DEF EditCategory
<1>7. CASE DeleteCategory
  <2>1. ASSUME NEW L, NEW R, NEW K
        PROVE  Fine(Then(Deleted("labels", L), Then(Deleted("rules", R), Deleted("categories", K))))
    BY <1>1, <1>2
  <2> QED BY <1>7, <1>4, <2>1 DEF DeleteCategory
<1> QED BY <1>5, <1>6, <1>7

LEMMA EditResponseKind ==
  ASSUME EditResponse
  PROVE  \E t : Begin(t) /\ Own(t) /\ t.kind = "edit"
<1> DEFINE out(r) == Deleted("labels", LabelsOf(db, {r}))
           add(L) == Inserted("labels", L)
           save(r) == Saved("responses", {r})
<1>1. PICK r, L, reads, writes, notes :
        Begin(Request("edit", r.id, "written", Then(out(r), Then(add(L), save(r))), reads, writes, notes))
  BY Zenon DEF EditResponse
<1>2. Within(out(r), {}, {"labels"}) /\ Within(add(L), {"labels"}, {}) /\ Within(save(r), {"responses"}, {})
  BY TablesThere, WithinBasic DEF Schema
<1> HIDE DEF out, add, save
<1>3. Within(Then(add(L), save(r)), {"labels"} \cup {"responses"}, {} \cup {})
  BY <1>2, WithinThen
<1>4. Within(Then(out(r), Then(add(L), save(r))), {} \cup ({"labels"} \cup {"responses"}), {"labels"} \cup ({} \cup {}))
  BY <1>2, <1>3, WithinThen
<1>5. "edit" \in DOMAIN Puts /\ Within(Then(out(r), Then(add(L), save(r))), Puts["edit"], Drops["edit"])
  BY <1>4, WithinMore DEF Puts, Drops
<1> QED BY <1>1, <1>5, OwnIs

LEMMA DeleteResponseKind ==
  ASSUME DeleteResponse
  PROVE  \E t : Begin(t) /\ Own(t) /\ t.kind = "erase"
<1>1. PICK r, reads, writes, notes : Begin(Request("erase", r.id, "written", Erased(db, {r}), reads, writes, notes))
  BY Zenon DEF DeleteResponse
<1>2. "erase" \in DOMAIN Puts /\ Within(Erased(db, {r}), Puts["erase"], Drops["erase"])
  BY ErasedWithin DEF Puts, Drops
<1> QED BY <1>1, <1>2, OwnIs

LEMMA EditSubmissionKind ==
  ASSUME EditSubmission
  PROVE  \E t : Begin(t) /\ Own(t) /\ t.kind = "amend"
<1>1. ASSUME NEW R PROVE "amend" \in DOMAIN Puts /\ Within(Saved("submissions", R), Puts["amend"], Drops["amend"])
  BY TablesThere, WithinBasic DEF Schema, Puts, Drops
<1> QED BY <1>1, OwnIs DEF EditSubmission

LEMMA StartPollKind ==
  ASSUME StartPoll
  PROVE  \E t : Begin(t) /\ Own(t) /\ t.kind = "start"
<1>1. PICK p \in db["polls"] : Begin([Dates("start", p, NoEffect) EXCEPT !.place = "texts"])
  BY DEF StartPoll
<1> DEFINE t == [Dates("start", p, NoEffect) EXCEPT !.place = "texts"]
<1>2. t.kind = "start" /\ t.effect = NoEffect
  BY DEF Dates, Request
<1>3. "start" \in DOMAIN Puts /\ Within(NoEffect, Puts["start"], Drops["start"])
  BY TablesThere, WithinBasic, WithinMore DEF Puts, Drops, Schema
<1> HIDE DEF t
<1>4. Own(t) /\ t.kind = "start"
  BY <1>2, <1>3 DEF Own
<1> QED BY <1>1, <1>4 DEF t

LEMMA EndPollKind ==
  ASSUME EndPoll
  PROVE  \E t : Begin(t) /\ Own(t) /\ t.kind = "stop"
<1> DEFINE e(p) == Saved("polls", {[p EXCEPT !.ended = TRUE]})
<1>1. PICK p \in db["polls"] :
        Begin(Request("stop", p, "written", e(p), {<<"recipients", p.id>>}, {<<"dates", p.id>>}, {}))
  BY Zenon DEF EndPoll, Dates
<1>2. Within(e(p), {"polls"}, {})
  BY TablesThere, WithinBasic DEF Schema
<1> HIDE DEF e
<1>3. "stop" \in DOMAIN Puts /\ Within(e(p), Puts["stop"], Drops["stop"])
  BY <1>2 DEF Puts, Drops
<1> QED BY <1>1, <1>3, OwnIs

LEMMA WithRecipientsHas ==
  ASSUME NEW kind, NEW p, NEW effect
  PROVE  /\ WithRecipients(Dates(kind, p, effect)).kind = kind
         /\ WithRecipients(Dates(kind, p, effect)).effect = effect
         /\ Shape(WithRecipients(Dates(kind, p, effect)))
<1> DEFINE v == WithRecipients(Dates(kind, p, effect))
           topic == {<<"recipients", p.id>>}
           dates == {<<"dates", p.id>>}
<1>1. v = Request(kind, p, "written", effect, topic, dates \cup topic, {})
  BY DEF Dates, Request, WithRecipients
<1> HIDE DEF v, topic, dates
<1>2. v.kind = kind /\ v.effect = effect /\ Shape(v)
  BY <1>1, RequestIs
<1> QED BY <1>2 DEF v

LEMMA CreatePollKind ==
  ASSUME CreatePoll
  PROVE  \E t : Begin(t) /\ Own(t) /\ t.kind = "create"
<1> DEFINE row(p, type, rule) == [id |-> p, type |-> type, rule |-> rule, start |-> 0, ended |-> FALSE]
           add(p) == Added(p, {k.id : k \in {x \in db["contacts"] : Select(db, "blacklist", x.id) = {}}})
           new(p, type, rule) == Inserted("polls", {row(p, type, rule)})
           t(p, type, rule) ==
             WithRecipients(Dates("create", row(p, type, rule), Then(new(p, type, rule), add(p))))
<1>1. \E p, type, rule : Begin(t(p, type, rule))
  BY Zenon DEF CreatePoll
<1>2. ASSUME NEW p, NEW type, NEW rule
      PROVE  Within(new(p, type, rule), {"polls"}, {}) /\ Within(add(p), {"recipients"}, {})
  BY TablesThere, WithinBasic DEF Added, Schema
<1>3. ASSUME NEW p, NEW type, NEW rule
      PROVE  t(p, type, rule).kind = "create" /\ t(p, type, rule).effect = Then(new(p, type, rule), add(p))
  <2> HIDE DEF new, add, row
  <2> QED BY WithRecipientsHas
<1> HIDE DEF new, add, t
<1>4. ASSUME NEW p, NEW type, NEW rule
      PROVE  Within(Then(new(p, type, rule), add(p)), {"polls"} \cup {"recipients"}, {} \cup {})
  BY <1>2, WithinThen
<1>5. ASSUME NEW p, NEW type, NEW rule PROVE Own(t(p, type, rule))
  BY <1>3, <1>4, WithinMore DEF Own, Puts, Drops
<1> QED BY <1>1, <1>3, <1>5

LEMMA EditPollKind ==
  ASSUME EditPoll
  PROVE  \E t : Begin(t) /\ Own(t) /\ t.kind = "poll"
<1> DEFINE gone(p, C) == Deleted("recipients", {m \in db["recipients"] : m.poll = p.id /\ m.conn \notin C})
           add(p, C) == Added(p.id, C \ Recipients(db, p.id))
           save(p) == Saved("polls", {p})
           e(p, C) == Then(save(p), Then(gone(p, C), add(p, C)))
           notes(p, C) == IF p.start = 0 THEN {} ELSE {<<"late", <<p.id, c>>>> : c \in C \ Recipients(db, p.id)}
           u(p, C) == WithRecipients(Dates("poll", p, e(p, C)))
           t(p, C) == [u(p, C) EXCEPT !.notes = notes(p, C)]
<1>1. \E p, C : Begin(t(p, C))
  BY Zenon DEF EditPoll
<1>2. ASSUME NEW p, NEW C
      PROVE  /\ Within(gone(p, C), {}, {"recipients"}) /\ Within(add(p, C), {"recipients"}, {})
             /\ Within(save(p), {"polls"}, {})
  BY TablesThere, WithinBasic DEF Added, Schema
<1> HIDE DEF gone, add, save
<1>3. ASSUME NEW p, NEW C
      PROVE  Within(e(p, C), {"polls"} \cup ({} \cup {"recipients"}), {} \cup ({"recipients"} \cup {}))
  <2>1. Within(Then(gone(p, C), add(p, C)), {} \cup {"recipients"}, {"recipients"} \cup {})
    BY <1>2, WithinThen
  <2> QED BY <1>2, <2>1, WithinThen
<1> HIDE DEF e, notes
<1>4. ASSUME NEW p, NEW C PROVE t(p, C).kind = "poll" /\ t(p, C).effect = e(p, C)
  <2>1. u(p, C).kind = "poll" /\ u(p, C).effect = e(p, C) /\ Shape(u(p, C))
    BY WithRecipientsHas
  <2> HIDE DEF u
  <2> QED BY <2>1 DEF Shape, Request
<1> HIDE DEF t
<1>5. ASSUME NEW p, NEW C PROVE Own(t(p, C))
  BY <1>3, <1>4, WithinMore DEF Own, Puts, Drops, AnswerTables
<1> QED BY <1>1, <1>4, <1>5

LEMMA DeletePollKind ==
  ASSUME DeletePoll
  PROVE  \E t : Begin(t) /\ Own(t) /\ t.kind = "poll"
<1> DEFINE P == {"tombstones"}
           D == {"polls", "recipients"} \cup AnswerTables
           Fine(e) == Within(e, P, D)
           effect(p) ==
             Then(Inserted("tombstones", {[id |-> <<"polls", p.id>>]}),
             Then(Erased(db, PollResponses(db, p.id)),
             Then(Deleted("rules", RulesOf(db, p.id)),
             Then(Deleted("categories", CategoriesOf(db, p.id)),
             Then(Deleted("recipients", {m \in db["recipients"] : m.poll = p.id}),
                  Deleted("polls", {p}))))))
<1>1. PICK p \in db["polls"] :
        Begin(Request("poll", p, "written", effect(p), {<<"recipients", p.id>>}, {<<"dates", p.id>>}, {}))
  BY Zenon DEF DeletePoll, Dates
<1>2. ASSUME NEW e, NEW f, Fine(e), Fine(f) PROVE Fine(Then(e, f))
  <2>1. Within(Then(e, f), P \cup P, D \cup D)
    BY <1>2, WithinThen
  <2> QED BY <2>1, WithinMore
<1>3. ASSUME NEW R
      PROVE  /\ Fine(Inserted("tombstones", R)) /\ Fine(Deleted("rules", R)) /\ Fine(Deleted("categories", R))
             /\ Fine(Deleted("recipients", R)) /\ Fine(Deleted("polls", R)) /\ Fine(Erased(db, R))
  BY TablesThere, WithinBasic, ErasedWithin, WithinMore DEF Schema, AnswerTables
<1> HIDE DEF Fine
<1>4. Fine(effect(p))
  BY <1>2, <1>3
<1> HIDE DEF effect
<1>5. "poll" \in DOMAIN Puts /\ Within(effect(p), Puts["poll"], Drops["poll"])
  BY <1>4, WithinMore DEF Fine, Puts, Drops
<1> QED BY <1>1, <1>5, OwnIs

LEMMA RemoveConnectionKind ==
  ASSUME RemoveConnection
  PROVE  \E t : Begin(t) /\ Own(t) /\ t.kind = "remove"
<1> DEFINE labels(c) == Deleted("labels", LabelsOf(db, OfConnection(db, "responses", c)))
           rows(c) == [NoEffect EXCEPT !.drop = [T \in Tables |-> Ids(OfConnection(db, T, c))]]
           mark(c) == Inserted("tombstones", {[id |-> <<"connections", c>>]})
           W(c) == About({c}) \cup Details({c}) \cup {<<"person", c>>}
<1>1. PICK c \in Connections :
        Begin(Request("remove", c, "written", Then(labels(c), Then(rows(c), mark(c))), {}, W(c), {}))
  BY Zenon DEF RemoveConnection
<1>2. Within(labels(c), {}, {"labels"}) /\ Within(mark(c), {"tombstones"}, {})
  BY TablesThere, WithinBasic DEF Schema
<1>3. Within(rows(c), {}, Schema \ {"tombstones"})
  <2>1. rows(c).put = NoEffect.put /\ rows(c).drop = [T \in Tables |-> Ids(OfConnection(db, T, c))]
    BY DEF NoEffect
  <2>2. Ids(OfConnection(db, "tombstones", c)) = {}
    BY DEF Ids, OfConnection
  <2> HIDE DEF rows
  <2> QED BY <2>1, <2>2, NoEffectAt, TablesThere DEF Within, Schema
<1> HIDE DEF labels, rows, mark, W
<1>4. Within(Then(rows(c), mark(c)), {} \cup {"tombstones"}, (Schema \ {"tombstones"}) \cup {})
  BY <1>2, <1>3, WithinThen
<1>5. Within(Then(labels(c), Then(rows(c), mark(c))), {} \cup ({} \cup {"tombstones"}),
             {"labels"} \cup ((Schema \ {"tombstones"}) \cup {}))
  BY <1>2, <1>4, WithinThen
<1>6. /\ "remove" \in DOMAIN Puts
      /\ Within(Then(labels(c), Then(rows(c), mark(c))), Puts["remove"], Drops["remove"])
  BY <1>5, WithinMore DEF Puts, Drops, Schema
<1> QED BY <1>1, <1>6, OwnIs

LEMMA WordsWithin ==
  ASSUME NEW d, NEW n, NEW c, NEW text, NEW out \in Education(d, n, c, text)
  PROVE  Within(out.effect, {"roster", "contacts", "blacklist"}, {"roster", "blacklist"})
<1> DEFINE P == {"roster", "contacts", "blacklist"}
           D == {"roster", "blacklist"}
           Fine(e) == Within(e, P, D)
<1>1. ASSUME NEW e, NEW f, Fine(e), Fine(f) PROVE Fine(Then(e, f))
  <2>1. Within(Then(e, f), P \cup P, D \cup D)
    BY <1>1, WithinThen
  <2> QED BY <2>1, WithinMore
<1>2. ASSUME NEW R
      PROVE  /\ Fine(NoEffect) /\ Fine(Inserted("roster", R)) /\ Fine(Deleted("roster", R))
             /\ Fine(Inserted("blacklist", R)) /\ Fine(Deleted("blacklist", R)) /\ Fine(Saved("contacts", R))
  BY TablesThere, WithinBasic, WithinMore DEF Schema
<1> HIDE DEF Fine
<1>3. Fine(Quit(d, c))
  BY <1>1, <1>2 DEF Quit
<1>4. Fine(Join(d, n, c))
  <2> DEFINE starts == IF Registering(d, c) THEN NoEffect ELSE Registration(n, c)
             here == Deleted("blacklist", Select(d, "blacklist", c))
  <2>1. Fine(starts) /\ Fine(here)
    BY <1>2 DEF Registration
  <2>2. Join(d, n, c) \in {starts, Then(here, starts), NoEffect}
    BY Zenon DEF Join
  <2> HIDE DEF starts, here
  <2> QED BY <1>1, <1>2, <2>1, <2>2
<1>5. out.effect \in {Quit(d, c), Join(d, n, c), NoEffect}
  <2>1. CASE text.word = "quit"
    BY <2>1 DEF Education
  <2>2. CASE text.word = "join"
    BY <2>2 DEF Education
  <2>3. CASE text.word \notin {"quit", "join"}
    BY <2>3 DEF Education
  <2> QED BY <2>1, <2>2, <2>3
<1> QED BY <1>2, <1>3, <1>4, <1>5 DEF Fine

LEMMA ReceiveKind ==
  ASSUME NEW c \in Connections, NEW text \in Texts, Receive(c, text)
  PROVE  \E t : Begin(t) /\ Own(t) /\ t.kind = "message"
<1> DEFINE mine == [conn |-> c, text |-> text]
           place(out) == IF out.handled THEN "written" ELSE "poll"
           save == update_last_reporting_date(db, c)
<1>1. PICK out \in Education(db, serial + 1, c, text) :
        Begin(Request("message", mine, place(out), Then(save, out.effect),
                      {"rules", "categories"} \X PollIds, Topics(c, text), {}))
  BY Zenon DEF Receive
<1>2. Within(save, {"contacts"}, {})
  BY TablesThere, WithinBasic DEF Schema, update_last_reporting_date
<1> HIDE DEF save, place, mine
<1>3. Within(Then(save, out.effect), {"contacts"} \cup {"roster", "contacts", "blacklist"},
             {} \cup {"roster", "blacklist"})
  BY <1>2, WordsWithin, WithinThen
<1>4. "message" \in DOMAIN Puts /\ Within(Then(save, out.effect), Puts["message"], Drops["message"])
  BY <1>3, WithinMore DEF Puts, Drops
<1> QED BY <1>1, <1>4, OwnIs

-----------------------------------------------------------------------------
(***************************************************************************)
(* The steps, with the requests that begin in them.                        *)
(***************************************************************************)

\* The step in which a request begins is the handler of its kind.
BegunBy(kind) ==
  \/ kind = "message" /\ \E c \in Connections, text \in Texts : Receive(c, text)
  \/ kind = "end" /\ EndRun
  \/ kind = "add" /\ AddConnections
  \/ kind = "reporter" /\ EditReporter
  \/ kind = "reschedule" /\ RescheduleScripts
  \/ kind = "now" /\ ScheduleNow
  \/ kind = "special" /\ Take("special") /\ SpecialScript
  \/ kind = "water" /\ ScheduleWaterPolls
  \/ kind = "remove" /\ RemoveConnection
  \/ kind = "create" /\ CreatePoll
  \/ kind = "start" /\ StartPoll
  \/ kind = "stop" /\ EndPoll
  \/ kind = "poll" /\ (EditPoll \/ DeletePoll)
  \/ kind = "rules" /\ ChangeRules
  \/ kind = "category" /\ (AddCategory \/ EditCategory \/ DeleteCategory)
  \/ kind = "edit" /\ EditResponse
  \/ kind = "erase" /\ DeleteResponse
  \/ kind = "amend" /\ EditSubmission

\* A request begins, and is of its kind.
Begins(t) == Begin(t) /\ Own(t) /\ BegunBy(t.kind)

LEMMA Beginning ==
  ASSUME Next
  PROVE  \/ \E t : Begins(t)
         \/ \E n \in DOMAIN open :
              PollPhase(n) \/ FormPhase(n) \/ MassTextCommits(n) \/ Finish(n) \/ Fail(n)
         \/ UNCHANGED database
<1>1. ASSUME NEW c \in Connections, NEW text \in Texts, Receive(c, text) PROVE \E t : Begins(t)
  BY <1>1, ReceiveKind DEF Begins, BegunBy
<1>2. CASE Take("end") /\ EndRun
  BY <1>2, EndRunKind DEF Begins, BegunBy
<1>3. CASE Take("add") /\ AddConnections
  BY <1>3, AddConnectionsKind DEF Begins, BegunBy
<1>4. CASE Take("reporter") /\ EditReporter
  BY <1>4, EditReporterKind DEF Begins, BegunBy
<1>5. CASE Take("reschedule") /\ RescheduleScripts
  BY <1>5, RescheduleScriptsKind DEF Begins, BegunBy
<1>6. CASE Take("now") /\ ScheduleNow
  BY <1>6, ScheduleNowKind DEF Begins, BegunBy
<1>7. CASE Take("special") /\ SpecialScript
  BY <1>7, SpecialScriptKind DEF Begins, BegunBy
<1>8. CASE Take("water") /\ ScheduleWaterPolls
  BY <1>8, ScheduleWaterPollsKind DEF Begins, BegunBy
<1>9. CASE Take("remove") /\ RemoveConnection
  BY <1>9, RemoveConnectionKind DEF Begins, BegunBy
<1>10. CASE Take("create") /\ CreatePoll
  BY <1>10, CreatePollKind DEF Begins, BegunBy
<1>11. CASE Take("start") /\ StartPoll
  BY <1>11, StartPollKind DEF Begins, BegunBy
<1>12. CASE Take("stop") /\ EndPoll
  BY <1>12, EndPollKind DEF Begins, BegunBy
<1>13. CASE Take("poll") /\ (EditPoll \/ DeletePoll)
  BY <1>13, EditPollKind, DeletePollKind DEF Begins, BegunBy
<1>14. CASE Take("rules") /\ ChangeRules
  BY <1>14, ChangeRulesKind DEF Begins, BegunBy
<1>15. CASE Take("category") /\ (AddCategory \/ EditCategory \/ DeleteCategory)
  BY <1>15, CategoriesKind DEF Begins, BegunBy
<1>16. CASE Take("edit") /\ EditResponse
  BY <1>16, EditResponseKind DEF Begins, BegunBy
<1>17. CASE Take("erase") /\ DeleteResponse
  BY <1>17, DeleteResponseKind DEF Begins, BegunBy
<1>18. CASE Take("amend") /\ EditSubmission
  BY <1>18, EditSubmissionKind DEF Begins, BegunBy
<1>19. CASE NextDay
  BY <1>19 DEF NextDay
<1> QED
  BY <1>1, <1>2, <1>3, <1>4, <1>5, <1>6, <1>7, <1>8, <1>9, <1>10, <1>11, <1>12, <1>13, <1>14,
     <1>15, <1>16, <1>17, <1>18, <1>19, Zenon DEF Next

\* A step, as it changes the tables and the open requests.
Moves ==
  \/ \E t : Begins(t) /\ Wellformed(t) /\ Grounded(t)
  \/ \E n \in DOMAIN open :
       PollPhase(n) \/ FormPhase(n) \/ MassTextCommits(n) \/ Finish(n) \/ Fail(n)
  \/ UNCHANGED database

LEMMA Moving ==
  ASSUME RequestsOK, [Next]_vars
  PROVE  Moves
<1>1. CASE UNCHANGED vars
  BY <1>1 DEF vars, Moves
<1>2. CASE Next
  <2>1. PollTable(db["polls"])
    BY DEF RequestsOK
  <2>2. ASSUME NEW t, Begins(t) PROVE Wellformed(t) /\ Grounded(t)
    <3>1. Begin(t)
      BY <2>2 DEF Begins
    <3>2. \A n \in DOMAIN open :
            ~PollPhase(n) /\ ~FormPhase(n) /\ ~MassTextCommits(n) /\ ~Finish(n) /\ ~Fail(n)
      <4> SUFFICES ASSUME NEW n \in DOMAIN open, serial' # serial
                   PROVE  ~PollPhase(n) /\ ~FormPhase(n) /\ ~MassTextCommits(n) /\ ~Finish(n) /\ ~Fail(n)
        BY <3>1, BeginOpen DEF RequestsOK
      <4> QED BY DEF PollPhase, FormPhase, MassTextCommits, Finish, Fail, Continue, CommitPart, Commit, Rollback
    <3>3. ~UNCHANGED database
      BY <3>1, BeginOpen DEF RequestsOK, database
    <3>4. PICK u : Begin(u) /\ Wellformed(u) /\ Grounded(u)
      BY <1>2, <2>1, <3>2, <3>3, StepKinds
    <3> QED BY <3>1, <3>4, BeginOne
  <2> QED BY <1>2, <2>2, Beginning DEF Moves
<1> QED BY <1>1, <1>2

\* Every open request has written the tables of its kind only.
Owning == \A n \in DOMAIN open : Own(open[n])

LEMMA FurtherOwn ==
  ASSUME NEW t, NEW e, NEW place, Own(t), Within(e, Puts[t.kind], Drops[t.kind])
  PROVE  Own(Further(t, Then(t.effect, e), place))
<1> DEFINE P == Puts[t.kind]
           D == Drops[t.kind]
           f == Then(t.effect, e)
<1>1. Within(f, P \cup P, D \cup D)
  <2> HIDE DEF P, D
  <2>1. Within(t.effect, P, D) /\ Within(e, P, D)
    BY DEF Own, P, D
  <2> QED BY <2>1, WithinThen
<1>2. Within(f, P, D)
  BY <1>1, WithinMore
<1> HIDE DEF f
<1>3. Further(t, f, place).kind = t.kind /\ Further(t, f, place).effect = f
  BY FurtherIs
<1> QED BY <1>2, <1>3 DEF Own, f

\* What a phase of a message writes is of the answers, or of the submissions.
LEMMA PhaseWithin ==
  ASSUME RequestsOK, NEW n \in DOMAIN open, PollPhase(n) \/ FormPhase(n)
  PROVE  \E e, place :
           /\ Phase(n, e, place)
           /\ Within(e, AppPuts, AppDrops) \/ Within(e, {"submissions"}, {})
<1>1. CASE PollPhase(n)
  BY <1>1, PollPhaseIs, HandleWithin, WithinBasic, WithinMore, TablesThere DEF Schema
<1>2. CASE FormPhase(n)
  <2>1. ASSUME NEW f, NEW c, NEW rest
        PROVE  Within(Submit(Seen(n), n, f, c, rest), {"submissions"}, {})
    BY TablesThere, WithinBasic DEF Submit, Schema
  <2> QED BY <1>2, <2>1, FormPhaseIs
<1> QED BY <1>1, <1>2

LEMMA NextOwning ==
  ASSUME RequestsOK, Owning, [Next]_vars
  PROVE  Owning'
<1>1. CASE \E t : Begins(t)
  BY <1>1, BeginOpen DEF Owning, Begins
<1>2. ASSUME NEW n \in DOMAIN open, PollPhase(n) \/ FormPhase(n) PROVE Owning'
  <2>1. PICK e, place : /\ Phase(n, e, place)
                        /\ Within(e, AppPuts, AppDrops) \/ Within(e, {"submissions"}, {})
    BY <1>2, PhaseWithin
  <2>2. open[n].kind = "message" /\ Own(open[n])
    BY <2>1 DEF Phase, Owning
  <2>3. Within(e, Puts["message"], Drops["message"])
    BY <2>1, WithinMore DEF Puts, Drops, AppPuts, AppDrops
  <2> QED BY <2>1, <2>2, <2>3, PhaseOpen, FurtherOwn DEF Owning
<1>3. ASSUME NEW n \in DOMAIN open, MassTextCommits(n) PROVE Owning'
  <2> DEFINE e == Started(n, open[n].on)
  <2>1. open[n].kind = "start" /\ open'[n] = Further(open[n], e, "written")
    BY <1>3, MassTextIs, MassTextOpen
  <2>2. "start" \in DOMAIN Puts /\ Within(e, Puts["start"], Drops["start"])
    BY WithinBasic, TablesThere DEF Started, Schema, Puts, Drops
  <2> HIDE DEF e
  <2>3. Own(open'[n])
    BY <2>1, <2>2, FurtherIs DEF Own
  <2> QED BY <1>3, <2>3, MassTextOpen DEF Owning
<1>4. ASSUME NEW n \in DOMAIN open, Finish(n) \/ Fail(n) PROVE Owning'
  <2>1. open' = Closed(n)
    BY <1>4 DEF Finish, Commit, Fail, Rollback
  <2> QED BY <2>1, ClosedOpen DEF Owning
<1>5. CASE UNCHANGED database
  BY <1>5 DEF Owning, database
<1> QED BY <1>1, <1>2, <1>3, <1>4, <1>5, Moving DEF Moves

-----------------------------------------------------------------------------
(***************************************************************************)
(* What is seen of a table, from one step to the next.                     *)
(***************************************************************************)

\* A commit shows what its request has seen and no more; another request sees
\* what that one wrote, or what it saw before.
LEMMA FinishSeen ==
  ASSUME RequestsOK, NEW n \in DOMAIN open, Finish(n), NEW T \in Tables
  PROVE  /\ db'[T] \subseteq Seen(n)[T]
         /\ \A r \in db'[T] : r \in db[T] \/ r \in open[n].effect.put[T]
         /\ DOMAIN open' = DOMAIN open \ {n} /\ history \subseteq history'
         /\ \A k \in DOMAIN open' :
              /\ open'[k] = open[k]
              /\ \A r \in Seen(k)'[T] : r \in Seen(k)[T] \/ r \in open[n].effect.put[T]
              /\ \A r \in Seen(k)'[T] : r \in db'[T] \/ r \in open[k].effect.put[T]
<1>1. Write(open[n].effect) /\ open' = Closed(n) /\ history \subseteq history'
  BY DEF Finish, Commit
<1>2. db'[T] \subseteq Seen(n)[T]
  BY <1>1, WriteSeen DEF Seen
<1>3. \A r \in db'[T] : r \in db[T] \/ r \in open[n].effect.put[T]
  BY <1>1, WriteAt
<1>4. DOMAIN open' = DOMAIN open \ {n} /\ \A k \in DOMAIN open' : open'[k] = open[k]
  BY <1>1, ClosedOpen
<1>5. ASSUME NEW k \in DOMAIN open', NEW r \in Seen(k)'[T]
      PROVE  /\ r \in Seen(k)[T] \/ r \in open[n].effect.put[T]
             /\ r \in db'[T] \/ r \in open[k].effect.put[T]
  <2> DEFINE e == open[k].effect
  <2>1. Seen(k)' = After(db', e)
    BY <1>4 DEF Seen
  <2> HIDE DEF e
  <2>2. r \in e.put[T] \/ (r \in db'[T] /\ r.id \notin e.drop[T] /\ \A q \in e.put[T] : q.id # r.id)
    BY <1>5, <2>1, AfterIs
  <2>3. r \in After(db, e)[T] <=>
          r \in e.put[T] \/ (r \in db[T] /\ r.id \notin e.drop[T] /\ \A q \in e.put[T] : q.id # r.id)
    BY AfterIs
  <2> QED BY <1>3, <2>2, <2>3 DEF Seen, e
<1> QED BY <1>1, <1>2, <1>3, <1>4, <1>5

\* An effect that does not touch a table, after another.
LEMMA ThenUntouched ==
  ASSUME NEW d, NEW e, NEW f, NEW T \in Tables, f.put[T] = {}, f.drop[T] = {}
  PROVE  /\ Then(e, f).put[T] = e.put[T] /\ Then(e, f).drop[T] = e.drop[T]
         /\ After(d, Then(e, f))[T] = After(d, e)[T]
<1> DEFINE g == Then(e, f)
<1>1. /\ \A r : r \in g.put[T] <=>
           \/ r \in f.put[T]
           \/ (r \in e.put[T] /\ r.id \notin f.drop[T] /\ \A q \in f.put[T] : q.id # r.id)
      /\ \A i : i \in g.drop[T] <=> i \in e.drop[T] \/ i \in f.drop[T]
  BY ThenIs
<1>2. g.drop[T] = e.drop[T] \cup f.drop[T]
  BY ThenAt
<1>3. After(d, g)[T] = Without(d[T], g.drop[T] \cup Ids(g.put[T])) \cup g.put[T]
  BY AfterAt
<1>4. After(d, e)[T] = Without(d[T], e.drop[T] \cup Ids(e.put[T])) \cup e.put[T]
  BY AfterAt
<1>5. g.put[T] = Without(e.put[T], f.drop[T] \cup Ids(f.put[T])) \cup f.put[T]
  BY ThenAt
<1> HIDE DEF g
<1>6. Ids(f.put[T]) = {}
  BY DEF Ids
<1>7. \A R : Without(R, {} \cup {}) \cup {} = R
  BY DEF Without
<1>8. g.put[T] = e.put[T] /\ g.drop[T] = e.drop[T]
  BY <1>2, <1>5, <1>6, <1>7
<1> QED BY <1>3, <1>4, <1>8 DEF g

LEMMA AfterSame ==
  ASSUME NEW d, NEW d2, NEW e, NEW f, NEW T \in Tables,
         d[T] = d2[T], e.put[T] = f.put[T], e.drop[T] = f.drop[T]
  PROVE  After(d, e)[T] = After(d2, f)[T]
<1>1. After(d, e)[T] = Without(d[T], e.drop[T] \cup Ids(e.put[T])) \cup e.put[T]
  BY AfterAt
<1>2. After(d2, f)[T] = Without(d2[T], f.drop[T] \cup Ids(f.put[T])) \cup f.put[T]
  BY AfterAt
<1> QED BY <1>1, <1>2

\* Nothing is done to a table, in the committed rows or in those that are
\* about to be.
SameAt(T) ==
  /\ db'[T] = db[T] /\ DOMAIN open' \subseteq DOMAIN open /\ history \subseteq history'
  /\ \A k \in DOMAIN open' :
       /\ open'[k].kind = open[k].kind /\ open'[k].on = open[k].on /\ open'[k].notes = open[k].notes
       /\ open'[k].reads = open[k].reads /\ open'[k].writes = open[k].writes
       /\ open'[k].effect.put[T] = open[k].effect.put[T]
       /\ open'[k].effect.drop[T] = open[k].effect.drop[T]
       /\ Seen(k)'[T] = Seen(k)[T]

LEMMA SameRest ==
  ASSUME NEW T \in Tables, db'[T] = db[T], DOMAIN open' \subseteq DOMAIN open,
         history \subseteq history', \A k \in DOMAIN open' : open'[k] = open[k]
  PROVE  SameAt(T)
<1>1. ASSUME NEW k \in DOMAIN open' PROVE Seen(k)'[T] = Seen(k)[T]
  <2> DEFINE e == open[k].effect
  <2>1. open'[k].effect = e
    OBVIOUS
  <2> HIDE DEF e
  <2>2. After(db', e)[T] = After(db, e)[T]
    BY AfterSame
  <2> QED BY <2>1, <2>2 DEF Seen, e
<1> QED BY <1>1 DEF SameAt

LEMMA PhaseSame ==
  ASSUME RequestsOK, NEW n \in DOMAIN open, NEW e, NEW place, Phase(n, e, place),
         NEW T \in Tables, e.put[T] = {}, e.drop[T] = {}
  PROVE  SameAt(T)
<1> DEFINE f == open[n].effect
<1>1. /\ DOMAIN open' = DOMAIN open /\ db' = db /\ history' = history
      /\ open'[n] = Further(open[n], Then(f, e), place)
      /\ \A k \in DOMAIN open : k # n => open'[k] = open[k]
  BY PhaseOpen
<1>2. /\ open'[n].kind = open[n].kind /\ open'[n].on = open[n].on /\ open'[n].notes = open[n].notes
      /\ open'[n].reads = open[n].reads /\ open'[n].writes = open[n].writes
      /\ open'[n].effect = Then(f, e)
  BY <1>1, FurtherIs
<1> HIDE DEF f
<1>3. Seen(n)'[T] = After(db, Then(f, e))[T]
  BY <1>1, <1>2 DEF Seen
<1>4. Seen(n)'[T] = Seen(n)[T] /\ Then(f, e).put[T] = f.put[T] /\ Then(f, e).drop[T] = f.drop[T]
  BY <1>3, ThenUntouched DEF Seen, f
<1>5. ASSUME NEW k \in DOMAIN open, k # n PROVE Seen(k)'[T] = Seen(k)[T]
  BY <1>1, <1>5 DEF Seen
<1> QED BY <1>1, <1>2, <1>4, <1>5 DEF SameAt, f

LEMMA MassTextSame ==
  ASSUME RequestsOK, NEW n \in DOMAIN open, MassTextCommits(n), NEW T \in Tables \ {"asked", "polls"}
  PROVE  SameAt(T)
<1> DEFINE e == Started(n, open[n].on)
<1>1. /\ open[n].effect = NoEffect /\ DOMAIN open' = DOMAIN open /\ history' = history
      /\ open'[n] = Further(open[n], e, "written")
      /\ \A k \in DOMAIN open : k # n => open'[k] = open[k]
      /\ Write(Then(NoEffect, Questions(db, n, open[n].on.id)))
  BY MassTextIs, MassTextOpen
<1>2. db'[T] = db[T]
  BY <1>1, QuestionsAt
<1>3. /\ open'[n].kind = open[n].kind /\ open'[n].on = open[n].on /\ open'[n].notes = open[n].notes
      /\ open'[n].reads = open[n].reads /\ open'[n].writes = open[n].writes
      /\ open'[n].effect = e
  BY <1>1, FurtherIs
<1>4. e.put[T] = {} /\ e.drop[T] = {}
  BY SavedAt, TablesThere DEF Started, Schema
<1>5. NoEffect.put[T] = {} /\ NoEffect.drop[T] = {}
  BY NoEffectAt
<1> HIDE DEF e
<1>6. After(db', e)[T] = After(db, NoEffect)[T]
  <2>1. db'[T] = db[T] /\ e.put[T] = NoEffect.put[T] /\ e.drop[T] = NoEffect.drop[T] /\ T \in Tables
    BY <1>2, <1>4, <1>5
  <2>2. \A f : f.put[T] = e.put[T] /\ f.drop[T] = e.drop[T] => After(db', e)[T] = After(db, f)[T]
    BY <2>1, AfterSame
  <2> QED BY <2>1, <2>2
<1>7. Seen(n)'[T] = Seen(n)[T]
  BY <1>1, <1>3, <1>6 DEF Seen
<1>8. ASSUME NEW k \in DOMAIN open, k # n PROVE Seen(k)'[T] = Seen(k)[T]
  <2> DEFINE f == open[k].effect
  <2>1. open'[k].effect = f
    BY <1>1, <1>8
  <2> HIDE DEF f
  <2>2. After(db', f)[T] = After(db, f)[T]
    BY <1>2, AfterSame
  <2> QED BY <2>1, <2>2 DEF Seen, f
<1> QED BY <1>1, <1>2, <1>3, <1>4, <1>5, <1>7, <1>8 DEF SameAt

\* The steps that neither begin nor end a request leave most tables as they are.
LEMMA SameSteps ==
  ASSUME RequestsOK, Moves, NEW T \in Tables \ {"asked", "polls"}
  PROVE  \/ \E t : Begins(t) /\ Wellformed(t) /\ Grounded(t)
         \/ \E n \in DOMAIN open : T \in AppPuts \cup AppDrops /\ PollPhase(n)
         \/ \E n \in DOMAIN open : T = "submissions" /\ FormPhase(n)
         \/ \E n \in DOMAIN open : Finish(n)
         \/ SameAt(T)
<1>1. ASSUME NEW n \in DOMAIN open, PollPhase(n), T \notin AppPuts \cup AppDrops PROVE SameAt(T)
  <2>1. PICK e, place : Phase(n, e, place) /\ (e = NoEffect \/ Within(e, AppPuts, AppDrops))
    BY <1>1, PollPhaseIs, HandleWithin
  <2>2. e.put[T] = {} /\ e.drop[T] = {}
    BY <1>1, <2>1, NoEffectAt DEF Within
  <2> QED BY <2>1, <2>2, PhaseSame
<1>2. ASSUME NEW n \in DOMAIN open, FormPhase(n), T # "submissions" PROVE SameAt(T)
  <2>1. PICK f, c, rest : Phase(n, Submit(Seen(n), n, f, c, rest), "written")
    BY <1>2, FormPhaseIs
  <2> DEFINE e == Submit(Seen(n), n, f, c, rest)
  <2>2. e.put[T] = {} /\ e.drop[T] = {}
    BY <1>2, TablesThere, InsertedAt DEF Submit, Schema
  <2> HIDE DEF e
  <2>3. Phase(n, e, "written")
    BY <2>1 DEF e
  <2> QED BY <2>2, <2>3, PhaseSame
<1>3. ASSUME NEW n \in DOMAIN open, MassTextCommits(n) PROVE SameAt(T)
  BY <1>3, MassTextSame
<1>4. ASSUME NEW n \in DOMAIN open, Fail(n) PROVE SameAt(T)
  <2>1. open' = Closed(n) /\ db' = db /\ history \subseteq history'
    BY <1>4 DEF Fail, Rollback
  <2> QED BY <2>1, ClosedOpen, SameRest
<1>5. CASE UNCHANGED database
  BY <1>5, SameRest DEF database
<1> QED BY <1>1, <1>2, <1>3, <1>4, <1>5 DEF Moves

\* A request that begins sees what its effect makes of the tables; the others
\* see what they saw.
LEMMA BeginSeen ==
  ASSUME RequestsOK, NEW t, Begin(t)
  PROVE  /\ db' = db /\ history \subseteq history' /\ serial' = serial + 1 /\ serial' \notin DOMAIN open
         /\ DOMAIN open' = DOMAIN open \cup {serial'} /\ open'[serial'] = t
         /\ \A m : m = serial' => Seen(m)' = After(db, t.effect)
         /\ \A k \in DOMAIN open : open'[k] = open[k] /\ Seen(k)' = Seen(k)
<1>1. /\ serial' = serial + 1 /\ serial' \notin DOMAIN open
      /\ DOMAIN open' = DOMAIN open \cup {serial'}
      /\ open'[serial'] = t /\ \A n \in DOMAIN open : open'[n] = open[n]
      /\ db' = db /\ history \subseteq history'
  BY BeginOpen
<1> QED BY <1>1 DEF Seen

-----------------------------------------------------------------------------
(***************************************************************************)
(* A poll has one default category.                                        *)
(***************************************************************************)

DefaultOf(k, p) == k.default /\ k.poll = p
OneIn(R, p)     == \A j, k \in R : DefaultOf(j, p) /\ DefaultOf(k, p) => j.id = k.id

CategoryRow(k) == k = [id |-> k.id, poll |-> k.poll, default |-> k.default, error |-> k.error]

\* What is there, and what any open request sees, has one default category for
\* every poll whose categories were not written by two requests at once.
CategoryRows  == \A k \in db["categories"] : CategoryRow(k)
CategoriesPut == \A n \in DOMAIN open : \A k \in open[n].effect.put["categories"] :
                   CategoryRow(k) /\ <<"categories", k.poll>> \in open[n].writes
OneSeen       == \A p : \/ <<"categories", p>> \in history
                        \/ /\ OneIn(db["categories"], p)
                           /\ \A n \in DOMAIN open : OneIn(Seen(n)["categories"], p)

DefaultsOK == CategoryRows /\ CategoriesPut /\ OneSeen

\* The categories that a change of one writes, and what it makes of them.
OfCategories(t) ==
  /\ \A k \in t.effect.put["categories"] : CategoryRow(k) /\ <<"categories", k.poll>> \in t.writes
  /\ \A p : OneIn(db["categories"], p) => OneIn(After(db, t.effect)["categories"], p)

\* Fewer rows have no more defaults.
LEMMA FewerDefaults ==
  ASSUME NEW R, NEW S, NEW p, OneIn(S, p), \A k \in R : DefaultOf(k, p) => k \in S
  PROVE  OneIn(R, p)
BY DEF OneIn

LEMMA CategorySaved ==
  ASSUME CategoryRows, NEW t, NEW q, NEW default \in BOOLEAN, NEW row, NEW f,
         CategoryRow(row), row.poll = q, row.default => default,
         f \in {Inserted("categories", {row}), Saved("categories", {row})},
         t = Request("category", q, "written", Then(IF default THEN NoDefaults(q) ELSE NoEffect, f),
                     {<<"rules", q>>}, {<<"categories", q>>}, {<<"recategorised", q>>})
  PROVE  OfCategories(t)
<1> DEFINE T == "categories"
           e == IF default THEN NoDefaults(q) ELSE NoEffect
           d == After(db, e)
           g == Then(e, f)
<1>1. t.effect = g /\ t.writes = {<<"categories", q>>}
  BY RequestIs
<1>2. T \in Tables
  BY TablesThere DEF Schema
<1>3. f.put[T] = {row} /\ f.drop[T] = {}
  BY <1>2, InsertedAt, SavedAt
<1>4. ASSUME NEW k \in e.put[T] PROVE CategoryRow(k) /\ k.poll = q /\ ~k.default
  <2>1. default
    BY <1>2, <1>4, NoEffectAt
  <2>2. e.put[T] = {[j EXCEPT !.default = FALSE] : j \in {x \in CategoriesOf(db, q) : x.default}}
    BY <1>2, <2>1, SavedAt DEF NoDefaults
  <2>3. PICK j \in CategoriesOf(db, q) : k = [j EXCEPT !.default = FALSE]
    BY <1>4, <2>2
  <2>4. j = [id |-> j.id, poll |-> j.poll, default |-> j.default, error |-> j.error] /\ j.poll = q
    BY DEF CategoryRows, CategoryRow, CategoriesOf
  <2> QED BY <2>3, <2>4 DEF CategoryRow
<1>5. default => \A k \in d[T] : ~DefaultOf(k, q)
  <2> SUFFICES ASSUME default, NEW k \in d[T], DefaultOf(k, q) PROVE FALSE
    OBVIOUS
  <2>1. e.put[T] = {[j EXCEPT !.default = FALSE] : j \in {x \in CategoriesOf(db, q) : x.default}}
    BY <1>2, SavedAt DEF NoDefaults
  <2>2. k \in e.put[T] \/ (k \in db[T] /\ \A j \in e.put[T] : j.id # k.id)
    BY <1>2, AfterIs
  <2>3. k \notin e.put[T]
    BY <1>4 DEF DefaultOf
  <2>4. k \in CategoriesOf(db, q) /\ k.default
    BY <2>2, <2>3 DEF DefaultOf, CategoriesOf
  <2>5. [k EXCEPT !.default = FALSE] \in e.put[T]
    BY <2>1, <2>4
  <2>6. [k EXCEPT !.default = FALSE].id = k.id
    BY <2>4 DEF CategoryRows, CategoryRow, CategoriesOf
  <2> QED BY <2>2, <2>3, <2>5, <2>6
<1>6. \A k \in d[T] : k \in db[T] \/ ~k.default
  BY <1>2, <1>4, AfterIs
<1> HIDE DEF e
<1>7. After(db, g)[T] = After(d, f)[T]
  BY <1>2, AfterThen
<1>8. \A k \in After(db, g)[T] : k = row \/ k \in d[T]
  BY <1>2, <1>3, <1>7, AfterIs
<1>9. \A k \in g.put[T] : CategoryRow(k) /\ k.poll = q
  BY <1>2, <1>3, <1>4, ThenIs
<1>10. ASSUME NEW p, OneIn(db[T], p) PROVE OneIn(After(db, g)[T], p)
  <2>1. CASE default /\ p = q
    BY <1>5, <1>8, <2>1 DEF OneIn
  <2>2. CASE ~(default /\ p = q)
    <3>1. ~DefaultOf(row, p)
      BY <2>2 DEF DefaultOf
    <3>2. \A k \in After(db, g)[T] : DefaultOf(k, p) => k \in db[T]
      BY <1>6, <1>8, <3>1 DEF DefaultOf
    <3> QED BY <1>10, <3>2, FewerDefaults
  <2> QED BY <2>1, <2>2
<1> QED BY <1>1, <1>9, <1>10 DEF OfCategories

LEMMA CategoryBegins ==
  ASSUME RequestsOK, DefaultsOK, NEW t, Begins(t)
  PROVE  OfCategories(t)
<1>1. Begin(t) /\ Own(t) /\ BegunBy(t.kind)
  BY DEF Begins
<1>2. "categories" \in Tables
  BY TablesThere DEF Schema
<1>3. ASSUME t.effect.put["categories"] = {} PROVE OfCategories(t)
  <2>1. After(db, t.effect)["categories"] \subseteq db["categories"]
    BY <1>2, <1>3, AfterAt
  <2> QED BY <1>3, <2>1 DEF OfCategories, OneIn
<1>4. CASE t.kind # "category"
  <2>1. "categories" \notin Puts[t.kind]
    BY <1>1, <1>4 DEF Own, Puts, RosterTables
  <2> QED BY <1>1, <1>2, <1>3, <2>1 DEF Own, Within
<1>5. CASE t.kind = "category"
  <2>1. AddCategory \/ EditCategory \/ DeleteCategory
    BY <1>1, <1>5 DEF BegunBy
  <2> DEFINE r(p, e) == Request("category", p, "written", e, {<<"rules", p>>}, {<<"categories", p>>},
                                {<<"recategorised", p>>})
             start(p, default) == IF default THEN NoDefaults(p) ELSE NoEffect
             new(p, default) == Category(serial + 1, p, default)
             changed(k, default) == [k EXCEPT !.default = default]
  <2>2. CategoryRows
    BY DEF DefaultsOK
  <2>3. CASE AddCategory
    <3>1. PICK p \in db["polls"], default \in BOOLEAN :
            Begin(r(p.id, Then(start(p.id, default), Inserted("categories", {new(p.id, default)}))))
      BY <2>3, Zenon DEF AddCategory, Recategorised
    <3>2. t = r(p.id, Then(start(p.id, default), Inserted("categories", {new(p.id, default)})))
      BY <1>1, <3>1, BeginOne
    <3>3. CategoryRow(new(p.id, default)) /\ new(p.id, default).poll = p.id /\ new(p.id, default).default = default
      BY DEF Category, CategoryRow
    <3> QED BY <2>2, <3>2, <3>3, CategorySaved
  <2>4. CASE EditCategory
    <3>1. PICK k \in db["categories"], default \in BOOLEAN :
            Begin(r(k.poll, Then(start(k.poll, default), Saved("categories", {changed(k, default)}))))
      BY <2>4, Zenon DEF EditCategory, Recategorised
    <3>2. t = r(k.poll, Then(start(k.poll, default), Saved("categories", {changed(k, default)})))
      BY <1>1, <3>1, BeginOne
    <3>3. k = [id |-> k.id, poll |-> k.poll, default |-> k.default, error |-> k.error]
      BY <2>2 DEF CategoryRows, CategoryRow
    <3>4. /\ CategoryRow(changed(k, default)) /\ changed(k, default).poll = k.poll
          /\ changed(k, default).default = default
      BY <3>3 DEF CategoryRow
    <3> QED BY <2>2, <3>2, <3>4, CategorySaved
  <2>5. CASE DeleteCategory
    <3> DEFINE out(k) == Then(Deleted("labels", {l \in db["labels"] : l.category = k.id}),
                         Then(Deleted("rules", {q \in db["rules"] : q.category = k.id}),
                              Deleted("categories", {k})))
    <3>1. PICK k \in db["categories"] : Begin(r(k.poll, out(k)))
      BY <2>5, Zenon DEF DeleteCategory, Recategorised
    <3>2. t = r(k.poll, out(k))
      BY <1>1, <3>1, BeginOne
    <3>3. out(k).put["categories"] = {}
      BY <1>2, DeletedAt, ThenNothing, TablesThere DEF Schema
    <3> HIDE DEF out
    <3> QED BY <1>3, <3>2, <3>3, RequestIs
  <2> QED BY <2>1, <2>3, <2>4, <2>5
<1> QED BY <1>4, <1>5

LEMMA NextDefaults ==
  ASSUME RequestsOK, Owning, DefaultsOK, [Next]_vars
  PROVE  DefaultsOK'
<1> DEFINE T == "categories"
<1>1. T \in Tables \ {"asked", "polls"} /\ T \notin AppPuts \cup AppDrops
  BY TablesThere DEF Schema, AppPuts, AppDrops
<1>2. ASSUME NEW t, Begins(t) PROVE DefaultsOK'
  <2>1. OfCategories(t) /\ Begin(t)
    BY <1>2, CategoryBegins DEF Begins
  <2>2. /\ db' = db /\ history \subseteq history'
        /\ DOMAIN open' = DOMAIN open \cup {serial'} /\ open'[serial'] = t
        /\ \A m : m = serial' => Seen(m)' = After(db, t.effect)
        /\ \A k \in DOMAIN open : open'[k] = open[k] /\ Seen(k)' = Seen(k)
    BY <2>1, BeginSeen
  <2>3. CategoryRows' /\ CategoriesPut'
    BY <2>1, <2>2 DEF DefaultsOK, CategoryRows, CategoriesPut, OfCategories
  <2>4. ASSUME NEW p, <<"categories", p>> \notin history'
        PROVE  OneIn(db'[T], p) /\ \A n \in DOMAIN open' : OneIn(Seen(n)'[T], p)
    <3>1. OneIn(db[T], p) /\ \A n \in DOMAIN open : OneIn(Seen(n)[T], p)
      BY <2>2, <2>4 DEF DefaultsOK, OneSeen
    <3>2. OneIn(After(db, t.effect)[T], p)
      BY <2>1, <3>1 DEF OfCategories
    <3> QED BY <2>2, <3>1, <3>2
  <2> QED BY <2>3, <2>4 DEF DefaultsOK, OneSeen
<1>3. ASSUME NEW n \in DOMAIN open, Finish(n) PROVE DefaultsOK'
  <2>1. /\ db'[T] \subseteq Seen(n)[T]
        /\ \A r \in db'[T] : r \in db[T] \/ r \in open[n].effect.put[T]
        /\ DOMAIN open' = DOMAIN open \ {n} /\ history \subseteq history'
        /\ \A k \in DOMAIN open' :
             /\ open'[k] = open[k]
             /\ \A r \in Seen(k)'[T] : r \in Seen(k)[T] \/ r \in open[n].effect.put[T]
             /\ \A r \in Seen(k)'[T] : r \in db'[T] \/ r \in open[k].effect.put[T]
    BY <1>1, <1>3, FinishSeen
  <2>2. CategoryRows' /\ CategoriesPut'
    BY <2>1 DEF DefaultsOK, CategoryRows, CategoriesPut
  <2>3. ASSUME NEW p, <<"categories", p>> \notin history'
        PROVE  OneIn(db'[T], p) /\ \A k \in DOMAIN open' : OneIn(Seen(k)'[T], p)
    <3>1. \A k \in DOMAIN open : OneIn(Seen(k)[T], p)
      BY <2>1, <2>3 DEF DefaultsOK, OneSeen
    <3>2. OneIn(db'[T], p)
      BY <2>1, <3>1, FewerDefaults
    <3>3. ASSUME NEW k \in DOMAIN open' PROVE OneIn(Seen(k)'[T], p)
      <4>1. k # n /\ k \in DOMAIN open
        BY <2>1
      <4>2. CASE \A r \in open[n].effect.put[T] : r.poll # p
        <5>1. \A r \in Seen(k)'[T] : DefaultOf(r, p) => r \in Seen(k)[T]
          BY <2>1, <4>2 DEF DefaultOf
        <5> QED BY <3>1, <4>1, <5>1, FewerDefaults
      <4>3. CASE \E r \in open[n].effect.put[T] : r.poll = p
        <5>1. <<"categories", p>> \in open[n].writes
          BY <4>3 DEF DefaultsOK, CategoriesPut
        <5>2. <<"categories", p>> \notin open[k].writes
          BY <2>1, <2>3, <4>1, <5>1 DEF RequestsOK, Meet
        <5>3. \A r \in open[k].effect.put[T] : r.poll # p
          BY <4>1, <5>2 DEF DefaultsOK, CategoriesPut
        <5>4. \A r \in Seen(k)'[T] : DefaultOf(r, p) => r \in db'[T]
          BY <2>1, <5>3 DEF DefaultOf
        <5> QED BY <3>2, <5>4, FewerDefaults
      <4> QED BY <4>2, <4>3
    <3> QED BY <3>2, <3>3
  <2> QED BY <2>2, <2>3 DEF DefaultsOK, OneSeen
<1>4. CASE SameAt(T)
  BY <1>4 DEF SameAt, DefaultsOK, CategoryRows, CategoriesPut, OneSeen
<1>5. \/ \E t : Begins(t)
      \/ \E n \in DOMAIN open : Finish(n)
      \/ SameAt(T)
  <2> HIDE DEF T
  <2>1. T # "submissions"
    BY DEF T
  <2> QED BY <1>1, <2>1, Moving, SameSteps
<1> QED BY <1>2, <1>3, <1>4, <1>5

\* Every poll has one default category at most, at any interleaving of changes
\* of its categories of which no two are open at once: an answer that no rule
\* takes has one category to go into.
THEOREM OneDefaultCategory ==
  Spec => []OneDefault
<1>1. Init => Owning /\ DefaultsOK
  <2> SUFFICES ASSUME Init PROVE Owning /\ DefaultsOK
    OBVIOUS
  <2>1. DOMAIN open = {} /\ \E w \in Workloads : db = w.db
    BY DEF Init
  <2>2. CategoryRows /\ \A p : OneIn(db["categories"], p)
    BY <2>1, CategoriesAssumption DEF CategoriesAssumption, CategoryRows, CategoryRow, OneIn, DefaultOf
  <2> QED BY <2>1, <2>2 DEF Owning, DefaultsOK, CategoriesPut, OneSeen
<1>2. RequestsOK /\ Owning /\ DefaultsOK /\ [Next]_vars => Owning' /\ DefaultsOK'
  BY NextOwning, NextDefaults
<1>3. DefaultsOK => OneDefault
  <2> SUFFICES ASSUME DefaultsOK, NEW p \in db["polls"], Alone("categories", p.id)
               PROVE  Cardinality(Defaults(db, p.id)) <= 1
    BY DEF OneDefault
  <2> DEFINE D == Defaults(db, p.id)
  <2>1. OneIn(db["categories"], p.id)
    BY DEF DefaultsOK, OneSeen, Alone
  <2>2. \A i, j \in D : i = j
    BY <2>1 DEF OneIn, Defaults, CategoriesOf, DefaultOf
  <2>3. D = {} \/ \E i \in D : D = {i}
    BY <2>2
  <2> HIDE DEF D
  <2>4. Cardinality(D) \in {0, 1}
    BY <2>3, FS_EmptySet, FS_Singleton
  <2> QED BY <2>4 DEF D
<1> QED BY RequestsStayOK, <1>1, <1>2, <1>3, PTL DEF Spec

-----------------------------------------------------------------------------
(***************************************************************************)
(* Connections that are removed.                                           *)
(***************************************************************************)

\* What the removal of a connection deletes.
LEMMA RemovalIs ==
  ASSUME RequestsOK, NEW t, Begins(t), t.kind = "remove"
  PROVE  /\ t.on \in Connections
         /\ \A T \in Tables \ {"labels"} : t.effect.drop[T] = Ids(OfConnection(db, T, t.on))
         /\ t.effect.drop["labels"] = Ids(LabelsOf(db, OfConnection(db, "responses", t.on)))
         /\ t.writes = About({t.on}) \cup Details({t.on}) \cup {<<"person", t.on>>}
         /\ t.reads = {} /\ t.notes = {} /\ t.place = "written"
<1> DEFINE labels(c) == Deleted("labels", LabelsOf(db, OfConnection(db, "responses", c)))
           rows(c) == [NoEffect EXCEPT !.drop = [T \in Tables |-> Ids(OfConnection(db, T, c))]]
           mark(c) == Inserted("tombstones", {[id |-> <<"connections", c>>]})
           W(c) == About({c}) \cup Details({c}) \cup {<<"person", c>>}
<1>1. Begin(t) /\ RemoveConnection
  BY DEF Begins, BegunBy
<1>2. PICK c \in Connections :
        Begin(Request("remove", c, "written", Then(labels(c), Then(rows(c), mark(c))), {}, W(c), {}))
  BY <1>1, Zenon DEF RemoveConnection
<1>3. t = Request("remove", c, "written", Then(labels(c), Then(rows(c), mark(c))), {}, W(c), {})
  BY <1>1, <1>2, BeginOne
<1> DEFINE l == labels(c)
           r == rows(c)
           m == mark(c)
           e == Then(l, Then(r, m))
<1>4. t.on = c /\ t.effect = e /\ t.writes = W(c) /\ t.reads = {} /\ t.notes = {} /\ t.place = "written"
  <2> HIDE DEF e, W
  <2>1. t = Request("remove", c, "written", e, {}, W(c), {})
    BY <1>3 DEF e
  <2> QED BY <2>1, RequestIs
<1>5. ASSUME NEW T \in Tables PROVE m.drop[T] = {}
  BY TablesThere, InsertedAt DEF Schema
<1>6. ASSUME NEW T \in Tables PROVE r.drop[T] = Ids(OfConnection(db, T, c))
  BY DEF NoEffect
<1>7. \A T \in Tables : T # "labels" => l.drop[T] = {}
  BY TablesThere, DeletedAt DEF Schema
<1>8. "labels" \in Tables /\ l.drop["labels"] = Ids(LabelsOf(db, OfConnection(db, "responses", c)))
  BY TablesThere, DeletedAt DEF Schema
<1>9. r.drop["labels"] = {}
  BY <1>6, <1>8 DEF Ids, OfConnection
<1> HIDE DEF l, r, m
<1>10. ASSUME NEW T \in Tables PROVE e.drop[T] = l.drop[T] \cup (r.drop[T] \cup m.drop[T])
  <2> DEFINE f == Then(r, m)
  <2>1. f.drop[T] = r.drop[T] \cup m.drop[T]
    BY DEF Then
  <2> HIDE DEF f
  <2>2. Then(l, f).drop[T] = l.drop[T] \cup f.drop[T]
    BY DEF Then
  <2> QED BY <2>1, <2>2 DEF f
<1> HIDE DEF e, W
<1>11. \A T \in Tables \ {"labels"} : t.effect.drop[T] = Ids(OfConnection(db, T, t.on))
  BY <1>4, <1>5, <1>6, <1>7, <1>10
<1>12. t.effect.drop["labels"] = Ids(LabelsOf(db, OfConnection(db, "responses", t.on)))
  BY <1>4, <1>5, <1>8, <1>9, <1>10
<1>13. t.writes = About({t.on}) \cup Details({t.on}) \cup {<<"person", t.on>>}
  BY <1>4 DEF W
<1> QED BY <1>2, <1>4, <1>11, <1>12, <1>13

\* A connection that was removed does not come back, and nothing refers to it
\* when a request ends.
LEMMA FinishRemoved ==
  ASSUME RequestsOK, NEW n \in DOMAIN open, Finish(n)
  PROVE  /\ \A c : Removed(c) => Removed(c)'
         /\ \A c : open[n].kind = "remove" /\ c = open[n].on => Removed(c)'
         /\ \A c : Removed(c)' => \A T \in Tables : OfConnection(db', T, c) = {}
<1> DEFINE e == open[n].effect
<1>1. "tombstones" \in Tables
  BY TablesThere DEF Schema
<1>2. Write(e) /\ ConnectionsRefer(db') /\ Wellformed(open[n])
  BY DEF Finish, Commit, RequestsOK
<1> HIDE DEF e
<1>3. ASSUME NEW c, Removed(c) PROVE Removed(c)'
  <2>1. c \in Connections /\ \E r \in db["tombstones"] : r.id = <<"connections", c>>
    BY <1>3 DEF Removed, IsRemoved, Select
  <2>2. e.drop["tombstones"] = {}
    BY <1>2 DEF Wellformed, e
  <2>3. \E r \in db'["tombstones"] : r.id = <<"connections", c>>
    BY <1>1, <1>2, <2>1, <2>2, WriteKeepsId
  <2> QED BY <2>1, <2>3 DEF Removed, IsRemoved, Select
<1>4. ASSUME NEW c, open[n].kind = "remove", c = open[n].on PROVE Removed(c)'
  <2>1. /\ c \in Connections
        /\ \E x \in e.put["tombstones"] : x.id = <<"connections", c>> /\ x.id \in e.made["tombstones"]
    BY <1>2, <1>4 DEF Wellformed, OfRemoval, e
  <2>2. PICK x \in e.put["tombstones"] : x.id = <<"connections", c>> /\ x.id \notin Gone(e, "tombstones")
    BY <2>1 DEF Gone
  <2>3. x \in db'["tombstones"]
    BY <1>1, <1>2, <2>2, WriteAt
  <2> QED BY <2>1, <2>2, <2>3 DEF Removed, IsRemoved, Select
<1>5. \A c : Removed(c)' => \A T \in Tables : OfConnection(db', T, c) = {}
  BY <1>2 DEF ConnectionsRefer, Removed
<1> QED BY <1>3, <1>4, <1>5

-----------------------------------------------------------------------------
(***************************************************************************)
(* A confirmation number is of one submission.                             *)
(***************************************************************************)

\* A bounded set of naturals has a greatest one.
LEMMA Greatest ==
  ASSUME NEW S \in SUBSET Nat, S # {}, NEW B \in Nat, \A k \in S : k <= B
  PROVE  \E m \in S : \A k \in S : k <= m
<1> DEFINE R == {B - k : k \in S}
<1>1. R \in SUBSET Nat /\ R # {}
  <2>1. \A k \in S : B - k \in Nat
    OBVIOUS
  <2> QED BY <2>1
<1>2. PICK r \in R : \A q \in R : r <= q
  <2> HIDE DEF R
  <2> QED BY <1>1, Least
<1>3. PICK m \in S : r = B - m
  BY <1>2
<1>4. ASSUME NEW k \in S PROVE k <= m
  <2>1. B - k \in R
    OBVIOUS
  <2> QED BY <1>2, <1>3, <2>1
<1> QED BY <1>4

\* The numbers given are no more than the messages that are over.
Room == serial - Cardinality(DOMAIN open)

LEMMA OpenFinite ==
  ASSUME RequestsOK
  PROVE  IsFiniteSet(DOMAIN open) /\ Room \in Nat
<1>1. serial \in Nat /\ DOMAIN open \subseteq 1 .. serial
  BY DEF RequestsOK
<1>2. IsFiniteSet(1 .. serial) /\ Cardinality(1 .. serial) = serial
  BY <1>1, FS_Interval
<1>3. IsFiniteSet(DOMAIN open) /\ Cardinality(DOMAIN open) <= serial
  BY <1>1, <1>2, FS_Subset
<1>4. Cardinality(DOMAIN open) \in Nat
  BY <1>3, FS_CardinalityType
<1> QED BY <1>1, <1>3, <1>4 DEF Room

LEMMA RoomIs ==
  ASSUME RequestsOK
  PROVE  /\ \A t : Begin(t) => Room' = Room
         /\ \A n \in DOMAIN open : open' = Closed(n) /\ serial' = serial => Room' = Room + 1
         /\ DOMAIN open' = DOMAIN open /\ serial' = serial => Room' = Room
<1>1. /\ IsFiniteSet(DOMAIN open) /\ serial \in Nat /\ Cardinality(DOMAIN open) \in Nat
  BY OpenFinite, FS_CardinalityType DEF RequestsOK
<1>2. ASSUME NEW t, Begin(t) PROVE Room' = Room
  <2>1. serial' = serial + 1 /\ serial' \notin DOMAIN open /\ DOMAIN open' = DOMAIN open \cup {serial'}
    BY <1>2, BeginOpen
  <2>2. Cardinality(DOMAIN open') = Cardinality(DOMAIN open) + 1
    BY <1>1, <2>1, FS_AddElement
  <2> QED BY <1>1, <2>1, <2>2 DEF Room
<1>3. ASSUME NEW n \in DOMAIN open, open' = Closed(n), serial' = serial PROVE Room' = Room + 1
  <2>1. DOMAIN open' = DOMAIN open \ {n}
    BY <1>3, ClosedOpen
  <2>2. Cardinality(DOMAIN open') = Cardinality(DOMAIN open) - 1
    BY <1>1, <2>1, FS_RemoveElement
  <2> QED BY <1>1, <1>3, <2>2 DEF Room
<1> QED BY <1>2, <1>3 DEF Room

LEMMA NextNumber ==
  ASSUME NEW d, NEW f, NEW c, NEW B \in Nat,
         \A s \in d["submissions"] : s.confirmation \in 1 .. B
  PROVE  /\ NextConfirmation(d, f, c) \in 1 .. B + 1
         /\ \A s \in d["submissions"] : s.form = f => s.confirmation < NextConfirmation(d, f, c)
<1> DEFINE given == {s.confirmation : s \in SubmissionsOf(d, f)} \cup {0}
           top(k) == \A j \in given : j <= k
<1>1. given \in SUBSET Nat /\ given # {} /\ \A k \in given : k <= B
  BY DEF SubmissionsOf
<1>2. \A s \in d["submissions"] : s.form = f => s.confirmation \in given
  BY DEF SubmissionsOf
<1>3. NextConfirmation(d, f, c) = (CHOOSE k \in given : top(k)) + 1
  BY DEF NextConfirmation
<1> HIDE DEF given
<1>4. \E k \in given : top(k)
  BY <1>1, Greatest
<1>5. (CHOOSE k \in given : top(k)) \in given /\ top(CHOOSE k \in given : top(k))
  BY <1>4
<1> DEFINE m == CHOOSE k \in given : top(k)
<1>6. m \in given /\ \A j \in given : j <= m
  BY <1>5
<1> HIDE DEF m, top
<1>7. NextConfirmation(d, f, c) = m + 1
  BY <1>3 DEF m
<1> QED BY <1>1, <1>2, <1>6, <1>7

SubmissionRow(s) ==
  s = [id |-> s.id, form |-> s.form, conn |-> s.conn, values |-> s.values,
       errors |-> s.errors, confirmation |-> s.confirmation]

\* An edit leaves all this of a submission as it is.
SameOne(s, q) ==
  s.id = q.id /\ s.form = q.form /\ s.conn = q.conn /\ s.confirmation = q.confirmation

\* No two submissions of the form have one number.
NumbersOf(R, f) ==
  \A s, q \in R : s.form = f /\ q.form = f /\ s.confirmation = q.confirmation => s.id = q.id

\* The submissions there are, those of messages, those that the staff saves, and
\* those of a connection that is removed.
SubmissionRows ==
  /\ \A s \in db["submissions"] :
       SubmissionRow(s) /\ s.id \in 1 .. serial /\ s.id \notin DOMAIN open /\ s.confirmation \in 1 .. Room
  /\ Unique(db["submissions"])

MessageRows ==
  \A n \in DOMAIN open : open[n].kind = "message" =>
    /\ \A f \in find_form(open[n].on.text.word, open[n].on.text.rest) : <<"form", f>> \in open[n].writes
    /\ open[n].place # "written" => open[n].effect.put["submissions"] = {}
    /\ \A s \in open[n].effect.put["submissions"] :
         /\ SubmissionRow(s) /\ s.id = n /\ s.confirmation \in 1 .. Room + 1
         /\ <<"form", s.form>> \in open[n].writes
    /\ Unique(open[n].effect.put["submissions"])

SavedRows ==
  \A n \in DOMAIN open : open[n].kind # "message" =>
    /\ \A s \in open[n].effect.put["submissions"] :
         SubmissionRow(s) /\ (Removed(s.conn) \/ \E q \in db["submissions"] : SameOne(s, q))
    /\ Unique(open[n].effect.put["submissions"])

RemovedRows ==
  \A n \in DOMAIN open : \A i \in open[n].effect.drop["submissions"] :
    /\ open[n].kind = "remove" /\ i \in 1 .. serial /\ i \notin DOMAIN open
    /\ \A s \in db["submissions"] : s.id = i => s.conn = open[n].on

\* Where no two messages for a form have been under way at once, its numbers
\* differ, in what is there and in what any message sees.
NumbersOnce ==
  \A f : \/ <<"form", f>> \in history
         \/ /\ NumbersOf(db["submissions"], f)
            /\ \A n \in DOMAIN open : open[n].kind = "message" => NumbersOf(Seen(n)["submissions"], f)

NumbersOK == SubmissionRows /\ MessageRows /\ SavedRows /\ RemovedRows /\ NumbersOnce

LEMMA EditKeeps ==
  ASSUME NEW s, NEW values, NEW bad, SubmissionRow(s)
  PROVE  /\ SubmissionRow([s EXCEPT !.values = values, !.errors = bad])
         /\ SameOne([s EXCEPT !.values = values, !.errors = bad], s)
<1> DEFINE a == [s EXCEPT !.values = values]
           x == [a EXCEPT !.errors = bad]
<1>1. s = [id |-> s.id, form |-> s.form, conn |-> s.conn, values |-> s.values,
           errors |-> s.errors, confirmation |-> s.confirmation]
  BY DEF SubmissionRow
<1>2. a = [id |-> s.id, form |-> s.form, conn |-> s.conn, values |-> values,
           errors |-> s.errors, confirmation |-> s.confirmation]
  BY <1>1
<1> HIDE DEF a
<1>3. x = [id |-> s.id, form |-> s.form, conn |-> s.conn, values |-> values,
           errors |-> bad, confirmation |-> s.confirmation]
  BY <1>2
<1> HIDE DEF x
<1>4. /\ x.id = s.id /\ x.form = s.form /\ x.conn = s.conn /\ x.values = values
      /\ x.errors = bad /\ x.confirmation = s.confirmation
  BY <1>3
<1>5. SubmissionRow(x)
  BY <1>3, <1>4, Zenon DEF SubmissionRow
<1>6. SameOne(x, s)
  BY <1>4 DEF SameOne
<1> QED BY <1>5, <1>6, Zenon DEF x, a

\* What a request writes to the submissions as it begins.
OfSubmissions(t) ==
  /\ t.kind = "message" =>
       /\ t.effect.put["submissions"] = {} /\ t.effect.drop["submissions"] = {}
       /\ \A f \in find_form(t.on.text.word, t.on.text.rest) : <<"form", f>> \in t.writes
  /\ t.kind # "message" =>
       /\ \A s \in t.effect.put["submissions"] :
            SubmissionRow(s) /\ \E q \in db["submissions"] : SameOne(s, q)
       /\ Unique(t.effect.put["submissions"])
  /\ \A i \in t.effect.drop["submissions"] :
       t.kind = "remove" /\ \E s \in db["submissions"] : s.id = i /\ s.conn = t.on

LEMMA MessageBegins ==
  ASSUME RequestsOK, NEW t, Begins(t), t.kind = "message"
  PROVE  \E c \in Connections, text \in Texts : \E out \in Education(db, serial + 1, c, text) :
           /\ ~IsRemoved(db, c) /\ t.on = [conn |-> c, text |-> text]
           /\ t.place = IF out.handled THEN "written" ELSE "poll"
           /\ t.effect = Then(update_last_reporting_date(db, c), out.effect)
           /\ t.reads = {"rules", "categories"} \X PollIds /\ t.writes = Topics(c, text) /\ t.notes = {}
<1> DEFINE mine(c, text) == [conn |-> c, text |-> text]
           place(out) == IF out.handled THEN "written" ELSE "poll"
           e(c, out) == Then(update_last_reporting_date(db, c), out.effect)
           reads == {"rules", "categories"} \X PollIds
<1>1. PICK c \in Connections, text \in Texts : Receive(c, text)
  BY DEF Begins, BegunBy
<1>2. ~IsRemoved(db, c)
  BY <1>1 DEF Receive
<1>3. PICK out \in Education(db, serial + 1, c, text) :
        Begin(Request("message", mine(c, text), place(out), e(c, out), reads, Topics(c, text), {}))
  BY <1>1, Zenon DEF Receive
<1>4. Begin(t)
  BY DEF Begins
<1> HIDE DEF mine, place, e, reads
<1>5. t = Request("message", mine(c, text), place(out), e(c, out), reads, Topics(c, text), {})
  BY <1>3, <1>4, BeginOne
<1>6. /\ t.on = mine(c, text) /\ t.place = place(out) /\ t.effect = e(c, out) /\ t.reads = reads
      /\ t.writes = Topics(c, text) /\ t.notes = {}
  BY <1>5, RequestIs
<1> QED BY <1>2, <1>6 DEF mine, place, e, reads

LEMMA SubmissionsBegin ==
  ASSUME RequestsOK, SubmissionRows, NEW t, Begins(t)
  PROVE  OfSubmissions(t)
<1> DEFINE T == "submissions"
<1>1. Begin(t) /\ Own(t) /\ T \in Tables
  BY TablesThere DEF Begins, Schema
<1>2. CASE t.kind = "message"
  <2>2. T \notin Drops["message"]
    BY DEF Drops
  <2>3. t.effect.drop[T] = {}
    BY <1>1, <1>2, <2>2 DEF Own, Within
  <2>4. PICK c, text, out : out \in Education(db, serial + 1, c, text) /\ t.on = [conn |-> c, text |-> text]
                     /\ t.writes = Topics(c, text) /\ t.effect = Then(update_last_reporting_date(db, c), out.effect)
    BY <1>2, MessageBegins
  <2>5. t.on.text = text
    BY <2>4
  <2>6. \A f \in find_form(t.on.text.word, t.on.text.rest) : <<"form", f>> \in t.writes
    BY <2>4, <2>5 DEF Topics
  <2>7. t.effect.put[T] = {}
    <3> DEFINE save == update_last_reporting_date(db, c)
    <3>1. save.put[T] = {} /\ save.drop[T] = {}
      BY <1>1, SavedAt, TablesThere DEF update_last_reporting_date, Schema
    <3>2. out.effect.put[T] = {}
      BY <1>1, <2>4, WordsWithin DEF Within
    <3> HIDE DEF save
    <3>3. Then(save, out.effect).put[T] = {}
      BY <1>1, <3>1, <3>2, ThenNothing
    <3> QED BY <2>4, <3>3 DEF save
  <2> QED BY <1>2, <2>3, <2>6, <2>7 DEF OfSubmissions
<1>3. CASE t.kind = "remove"
  <2>1. t.effect.drop[T] = Ids(OfConnection(db, T, t.on))
    BY <1>1, <1>3, RemovalIs
  <2>2. OfConnection(db, T, t.on) = {s \in db[T] : s.conn = t.on}
    BY DEF OfConnection
  <2>3. T \notin Puts["remove"]
    BY DEF Puts
  <2>4. t.effect.put[T] = {}
    BY <1>1, <1>3, <2>3 DEF Own, Within
  <2> QED BY <1>3, <2>1, <2>2, <2>4 DEF OfSubmissions, Ids, Unique
<1>4. CASE t.kind = "amend"
  <2> DEFINE new(s, values) == [s EXCEPT !.values = values, !.errors = FALSE]
             u(s, values) == Request("amend", s.id, "written", Saved(T, {new(s, values)}), {},
                                     {<<"submission", s.id>>}, {})
  <2>1. EditSubmission
    BY <1>4 DEF Begins, BegunBy
  <2>2. PICK s, values : s \in db[T] /\ Begin(u(s, values))
    BY <2>1, Zenon DEF EditSubmission
  <2>3. t = u(s, values)
    BY <1>1, <2>2, BeginOne
  <2>5. SubmissionRow(new(s, values)) /\ SameOne(new(s, values), s)
    <3>1. SubmissionRow(s)
      BY <2>2 DEF SubmissionRows
    <3> QED BY <3>1, EditKeeps, Zenon
  <2> HIDE DEF new
  <2>6. t.effect = Saved(T, {new(s, values)})
    BY <2>3, RequestIs
  <2>7. t.effect.put[T] = {new(s, values)} /\ t.effect.drop[T] = {}
    BY <1>1, <2>6, SavedAt
  <2> QED BY <1>4, <2>2, <2>5, <2>7 DEF OfSubmissions, Unique
<1>5. CASE t.kind \notin {"message", "remove", "amend"}
  <2>1. T \notin Puts[t.kind] /\ T \notin Drops[t.kind]
    BY <1>1, <1>5 DEF Own, Puts, Drops, RosterTables, AnswerTables
  <2>2. t.effect.put[T] = {} /\ t.effect.drop[T] = {}
    BY <1>1, <2>1 DEF Own, Within
  <2> QED BY <1>5, <2>2 DEF OfSubmissions, Unique
<1> QED BY <1>2, <1>3, <1>4, <1>5

LEMMA BeginNumbers ==
  ASSUME RequestsOK, NumbersOK, NEW t, Begins(t)
  PROVE  NumbersOK'
<1> DEFINE T == "submissions"
           e == t.effect
<1>1. OfSubmissions(t) /\ Begin(t) /\ T \in Tables
  BY SubmissionsBegin, TablesThere DEF Begins, NumbersOK, Schema
<1>2. /\ db' = db /\ history \subseteq history' /\ serial' = serial + 1 /\ serial' \notin DOMAIN open
      /\ DOMAIN open' = DOMAIN open \cup {serial'} /\ open'[serial'] = t
      /\ \A m : m = serial' => Seen(m)' = After(db, e)
      /\ \A k \in DOMAIN open : open'[k] = open[k] /\ Seen(k)' = Seen(k)
  BY <1>1, BeginSeen
<1>3. Room' = Room /\ serial \in Nat /\ DOMAIN open \subseteq 1 .. serial
  BY <1>1, RoomIs DEF RequestsOK
<1>4. SubmissionRows'
  BY <1>2, <1>3 DEF NumbersOK, SubmissionRows
<1>5. MessageRows'
  <2>1. Unique(e.put[T]) \/ t.kind # "message"
    BY <1>1 DEF OfSubmissions, Unique
  <2> QED BY <1>1, <1>2, <1>3, <2>1 DEF NumbersOK, MessageRows, OfSubmissions
<1>6. SavedRows'
  BY <1>1, <1>2 DEF NumbersOK, SavedRows, OfSubmissions, Removed
<1>7. RemovedRows'
  <2>1. ASSUME NEW i \in e.drop[T]
        PROVE  /\ t.kind = "remove" /\ i \in 1 .. serial' /\ i \notin DOMAIN open'
               /\ \A s \in db[T] : s.id = i => s.conn = t.on
    <3>1. t.kind = "remove" /\ \E s \in db[T] : s.id = i /\ s.conn = t.on
      BY <1>1, <2>1 DEF OfSubmissions
    <3> QED BY <1>2, <1>3, <3>1 DEF NumbersOK, SubmissionRows, Unique
  <2>2. ASSUME NEW n \in DOMAIN open, NEW i \in open[n].effect.drop[T]
        PROVE  i \in 1 .. serial' /\ i \notin DOMAIN open'
    BY <1>2, <1>3, <2>2 DEF NumbersOK, RemovedRows
  <2> QED BY <1>2, <2>1, <2>2 DEF NumbersOK, RemovedRows
<1>8. NumbersOnce'
  <2>1. t.kind = "message" => After(db, e)[T] = db[T]
    <3>1. After(db, e)[T] = Without(db[T], e.drop[T] \cup Ids(e.put[T])) \cup e.put[T]
      BY <1>1, AfterAt
    <3> QED BY <1>1, <3>1 DEF OfSubmissions, Without, Ids
  <2> HIDE DEF e
  <2>2. ASSUME NEW f, <<"form", f>> \notin history'
        PROVE  /\ NumbersOf(db'[T], f)
               /\ \A n \in DOMAIN open' : open'[n].kind = "message" => NumbersOf(Seen(n)'[T], f)
    BY <1>2, <2>1, <2>2 DEF NumbersOK, NumbersOnce
  <2> QED BY <2>2 DEF NumbersOnce
<1> QED BY <1>4, <1>5, <1>6, <1>7, <1>8 DEF NumbersOK

\* A step that does nothing to the submissions.
LEMMA SameNumbers ==
  ASSUME NumbersOK, SameAt("submissions"), Room \in Nat, Room' \in {Room, Room + 1}, serial' = serial,
         \A c : Removed(c) => Removed(c)',
         \A k \in DOMAIN open' : open'[k].place # "written" => open[k].place # "written"
  PROVE  NumbersOK'
<1>1. SubmissionRows'
  BY DEF NumbersOK, SubmissionRows, SameAt
<1>2. MessageRows'
  BY DEF NumbersOK, MessageRows, SameAt
<1>3. SavedRows'
  BY DEF NumbersOK, SavedRows, SameAt
<1>4. RemovedRows'
  BY DEF NumbersOK, RemovedRows, SameAt
<1>5. NumbersOnce'
  BY DEF NumbersOK, NumbersOnce, SameAt
<1> QED BY <1>1, <1>2, <1>3, <1>4, <1>5 DEF NumbersOK

LEMMA FormNumbers ==
  ASSUME RequestsOK, NumbersOK, NEW n \in DOMAIN open, FormPhase(n)
  PROVE  NumbersOK'
<1> DEFINE T == "submissions"
           old == open[n].effect
           c == open[n].on.conn
           rest == open[n].on.text.rest
           number(f) == NextConfirmation(Seen(n), f, c)
           row(f) == [id |-> n, form |-> f, conn |-> c, values |-> Values(f, rest),
                      errors |-> HasErrors(f, rest) \/ c \notin Allowed[f], confirmation |-> number(f)]
           e(f) == Submit(Seen(n), n, f, c, rest)
<1>1. PICK f \in find_form(open[n].on.text.word, rest) : Phase(n, e(f), "written")
  BY FormPhaseIs
<1>2. open[n].kind = "message" /\ open[n].place # "written" /\ UNCHANGED <<db, serial, history>> /\ T \in Tables
  BY <1>1, TablesThere DEF Phase, Schema
<1>3. e(f).put[T] = {row(f)} /\ e(f).drop[T] = {}
  BY <1>2, InsertedAt DEF Submit
<1>4. SubmissionRow(row(f)) /\ row(f).id = n /\ row(f).form = f /\ row(f).confirmation = number(f)
  BY DEF SubmissionRow
<1> HIDE DEF e, row
<1>5. /\ DOMAIN open' = DOMAIN open /\ open'[n] = Further(open[n], Then(old, e(f)), "written")
      /\ \A k \in DOMAIN open : k # n => open'[k] = open[k]
  BY <1>1, PhaseOpen
<1>6. /\ open'[n].kind = open[n].kind /\ open'[n].on = open[n].on /\ open'[n].place = "written"
      /\ open'[n].writes = open[n].writes /\ open'[n].effect = Then(old, e(f))
  BY <1>5, FurtherIs
<1>7. old.put[T] = {} /\ old.drop[T] = {} /\ <<"form", f>> \in open[n].writes
  BY <1>1, <1>2 DEF NumbersOK, MessageRows, RemovedRows
<1> HIDE DEF old
<1>8. Then(old, e(f)).put[T] = {row(f)} /\ Then(old, e(f)).drop[T] = {}
  BY <1>2, <1>3, <1>7, ThenIs
<1>9. Seen(n)[T] = db[T]
  <2>1. After(db, old)[T] = Without(db[T], old.drop[T] \cup Ids(old.put[T])) \cup old.put[T]
    BY <1>2, AfterAt
  <2> QED BY <1>7, <2>1 DEF Seen, Without, Ids, old
<1>10. Room \in Nat /\ Room' = Room
  BY <1>2, <1>5, OpenFinite, RoomIs
<1>11. number(f) \in 1 .. Room + 1 /\ \A s \in db[T] : s.form = f => s.confirmation < number(f)
  <2>1. \A s \in Seen(n)[T] : s.confirmation \in 1 .. Room
    BY <1>9 DEF NumbersOK, SubmissionRows
  <2> QED BY <1>9, <1>10, <2>1, NextNumber
<1> HIDE DEF number
<1>12. \A r \in Seen(n)'[T] : r = row(f) \/ r \in db[T]
  <2>1. Seen(n)' = After(db, Then(old, e(f)))
    BY <1>2, <1>6 DEF Seen
  <2> QED BY <1>2, <1>8, <2>1, AfterIs
<1>13. \A k \in DOMAIN open : k # n => Seen(k)' = Seen(k)
  BY <1>2, <1>5 DEF Seen
<1>14. SubmissionRows'
  BY <1>2, <1>5, <1>10 DEF NumbersOK, SubmissionRows
<1>15. MessageRows'
  <2>1. Unique({row(f)})
    BY DEF Unique
  <2>2. ASSUME NEW k \in DOMAIN open, k # n, open[k].kind = "message"
        PROVE  /\ \A g \in find_form(open[k].on.text.word, open[k].on.text.rest) : <<"form", g>> \in open[k].writes
               /\ open[k].place # "written" => open[k].effect.put[T] = {}
               /\ \A s \in open[k].effect.put[T] :
                    /\ SubmissionRow(s) /\ s.id = k /\ s.confirmation \in 1 .. Room + 1
                    /\ <<"form", s.form>> \in open[k].writes
               /\ Unique(open[k].effect.put[T])
    BY <2>2 DEF NumbersOK, MessageRows
  <2>3. \A g \in find_form(open[n].on.text.word, rest) : <<"form", g>> \in open[n].writes
    BY <1>2 DEF NumbersOK, MessageRows
  <2>4. \A s \in {row(f)} : /\ SubmissionRow(s) /\ s.id = n /\ s.confirmation \in 1 .. Room + 1
                            /\ <<"form", s.form>> \in open[n].writes
    BY <1>4, <1>7, <1>11
  <2>5. ASSUME NEW k \in DOMAIN open', open'[k].kind = "message"
        PROVE  /\ \A g \in find_form(open'[k].on.text.word, open'[k].on.text.rest) : <<"form", g>> \in open'[k].writes
               /\ open'[k].place # "written" => open'[k].effect.put[T] = {}
               /\ \A s \in open'[k].effect.put[T] :
                    /\ SubmissionRow(s) /\ s.id = k /\ s.confirmation \in 1 .. Room' + 1
                    /\ <<"form", s.form>> \in open'[k].writes
               /\ Unique(open'[k].effect.put[T])
    <3>1. CASE k # n
      BY <1>5, <1>10, <2>2, <2>5, <3>1
    <3>2. CASE k = n
      BY <1>6, <1>8, <1>10, <2>1, <2>3, <2>4, <3>2
    <3> QED BY <3>1, <3>2
  <2> QED BY <2>5 DEF MessageRows
<1>16. SavedRows'
  BY <1>2, <1>5, <1>6 DEF NumbersOK, SavedRows, Removed
<1>17. RemovedRows'
  BY <1>2, <1>5, <1>6, <1>8 DEF NumbersOK, RemovedRows
<1>18. NumbersOnce'
  <2>1. ASSUME NEW g, <<"form", g>> \notin history
        PROVE  /\ NumbersOf(db'[T], g)
               /\ \A k \in DOMAIN open' : open'[k].kind = "message" => NumbersOf(Seen(k)'[T], g)
    <3>1. NumbersOf(db[T], g) /\ \A k \in DOMAIN open : open[k].kind = "message" => NumbersOf(Seen(k)[T], g)
      BY <2>1 DEF NumbersOK, NumbersOnce
    <3>2. \A s \in db[T] : s.confirmation \in Nat
      BY <1>10 DEF NumbersOK, SubmissionRows
    <3>3. NumbersOf(Seen(n)'[T], g)
      BY <1>4, <1>11, <1>12, <3>1, <3>2 DEF NumbersOf
    <3> QED BY <1>2, <1>5, <1>13, <3>1, <3>3
  <2> QED BY <1>2, <2>1 DEF NumbersOnce
<1> QED BY <1>14, <1>15, <1>16, <1>17, <1>18 DEF NumbersOK

LEMMA FinishNumbers ==
  ASSUME RequestsOK, NumbersOK, NEW n \in DOMAIN open, Finish(n)
  PROVE  NumbersOK'
<1> DEFINE T == "submissions"
           e == open[n].effect
<1>1. /\ db'[T] \subseteq Seen(n)[T]
      /\ \A r \in db'[T] : r \in db[T] \/ r \in open[n].effect.put[T]
      /\ DOMAIN open' = DOMAIN open \ {n} /\ history \subseteq history'
      /\ \A k \in DOMAIN open' :
           /\ open'[k] = open[k]
           /\ \A r \in Seen(k)'[T] : r \in Seen(k)[T] \/ r \in open[n].effect.put[T]
           /\ \A r \in Seen(k)'[T] : r \in db'[T] \/ r \in open[k].effect.put[T]
  BY TablesThere, FinishSeen DEF Schema
<1>2. /\ \A c : Removed(c) => Removed(c)'
      /\ \A c : open[n].kind = "remove" /\ c = open[n].on => Removed(c)'
      /\ \A c : Removed(c)' => \A r \in db'[T] : r.conn # c
  BY FinishRemoved, TablesThere DEF Schema, OfConnection
<1>3. Write(e) /\ serial' = serial /\ T \in Tables /\ open' = Closed(n)
  BY TablesThere DEF Finish, Commit, Schema
<1>4. Room \in Nat /\ Room' = Room + 1
  BY <1>3, OpenFinite, RoomIs
<1>5. DOMAIN open \subseteq 1 .. serial /\ serial \in Nat
  BY DEF RequestsOK
<1>6. \A r, q \in db[T] : r.id = q.id => r = q
  BY DEF NumbersOK, SubmissionRows, Unique
\* A row that is there is of this message, or there was one like it.
<1>7. ASSUME NEW r \in db'[T], open[n].kind # "message"
      PROVE  SubmissionRow(r) /\ \E q \in db[T] : SameOne(r, q)
  <2>1. CASE r \in db[T]
    BY <2>1 DEF NumbersOK, SubmissionRows, SameOne
  <2>2. CASE r \in e.put[T]
    <3>1. SubmissionRow(r) /\ (Removed(r.conn) \/ \E q \in db[T] : SameOne(r, q))
      BY <1>7, <2>2 DEF NumbersOK, SavedRows
    <3> QED BY <1>2, <1>7, <3>1
  <2> QED BY <1>1, <2>1, <2>2
<1>8. ASSUME NEW r \in db'[T], r \notin db[T], open[n].kind = "message"
      PROVE  /\ SubmissionRow(r) /\ r.id = n /\ r.confirmation \in 1 .. Room + 1
             /\ <<"form", r.form>> \in open[n].writes
  BY <1>1, <1>8 DEF NumbersOK, MessageRows
<1>9. Unique(e.put[T])
  BY DEF NumbersOK, MessageRows, SavedRows
<1>10. SubmissionRows'
  <2>1. Unique(db'[T])
    BY <1>3, <1>6, <1>9, WriteUnique DEF Unique
  <2>2. ASSUME NEW r \in db'[T]
        PROVE  SubmissionRow(r) /\ r.id \in 1 .. serial' /\ r.id \notin DOMAIN open' /\ r.confirmation \in 1 .. Room'
    <3>1. ASSUME NEW q \in db[T]
          PROVE  SubmissionRow(q) /\ q.id \in 1 .. serial' /\ q.id \notin DOMAIN open' /\ q.confirmation \in 1 .. Room'
      BY <1>1, <1>3, <1>4, <3>1 DEF NumbersOK, SubmissionRows
    <3>2. CASE r \notin db[T] /\ open[n].kind = "message"
      <4>1. /\ SubmissionRow(r) /\ r.id = n /\ r.confirmation \in 1 .. Room + 1
        BY <1>8, <3>2
      <4> QED BY <1>1, <1>3, <1>4, <1>5, <4>1
    <3>3. CASE open[n].kind # "message"
      BY <1>7, <3>1, <3>3 DEF SameOne
    <3> QED BY <3>1, <3>2, <3>3
  <2> QED BY <2>1, <2>2 DEF SubmissionRows
<1>11. MessageRows'
  BY <1>1, <1>4 DEF NumbersOK, MessageRows
<1>12. SavedRows'
  <2>1. ASSUME NEW k \in DOMAIN open', open[k].kind # "message", NEW s \in open[k].effect.put[T]
        PROVE  SubmissionRow(s) /\ (Removed(s.conn)' \/ \E q \in db'[T] : SameOne(s, q))
    <3>1. SubmissionRow(s) /\ (Removed(s.conn) \/ \E q \in db[T] : SameOne(s, q))
      BY <1>1, <2>1 DEF NumbersOK, SavedRows
    <3>2. ASSUME NEW q \in db[T], SameOne(s, q)
          PROVE  Removed(s.conn)' \/ \E r \in db'[T] : SameOne(s, r)
      <4>1. CASE q.id \in e.drop[T]
        <5>1. open[n].kind = "remove" /\ q.conn = open[n].on
          BY <4>1 DEF NumbersOK, RemovedRows
        <5> QED BY <1>2, <3>2, <5>1 DEF SameOne
      <4>2. CASE q.id \notin e.drop[T]
        <5>1. PICK r \in db'[T] : r.id = q.id
          BY <1>3, <4>2, WriteKeepsId
        <5>2. r.id # n
          BY <5>1 DEF NumbersOK, SubmissionRows
        <5>3. r = q \/ SameOne(r, q)
          <6>1. CASE open[n].kind = "message"
            BY <1>6, <1>8, <5>1, <5>2, <6>1
          <6>2. CASE open[n].kind # "message"
            BY <1>6, <1>7, <5>1, <6>2 DEF SameOne
          <6> QED BY <6>1, <6>2
        <5> QED BY <3>2, <5>3 DEF SameOne
      <4> QED BY <4>1, <4>2
    <3> QED BY <1>2, <3>1, <3>2
  <2> QED BY <1>1, <2>1 DEF NumbersOK, SavedRows
<1>13. RemovedRows'
  <2>1. ASSUME NEW k \in DOMAIN open', NEW i \in open[k].effect.drop[T]
        PROVE  /\ open[k].kind = "remove" /\ i \in 1 .. serial /\ i \notin DOMAIN open'
               /\ \A s \in db'[T] : s.id = i => s.conn = open[k].on
    <3>1. /\ open[k].kind = "remove" /\ i \in 1 .. serial /\ i \notin DOMAIN open
          /\ \A s \in db[T] : s.id = i => s.conn = open[k].on
      BY <1>1, <2>1 DEF NumbersOK, RemovedRows
    <3> QED BY <1>1, <1>7, <1>8, <3>1 DEF SameOne
  <2> QED BY <1>1, <1>3, <2>1 DEF RemovedRows
<1>14. ASSUME NEW f, <<"form", f>> \notin history'
       PROVE  /\ NumbersOf(db'[T], f)
              /\ \A k \in DOMAIN open' : open'[k].kind = "message" => NumbersOf(Seen(k)'[T], f)
  <2>1. NumbersOf(db[T], f) /\ \A k \in DOMAIN open : open[k].kind = "message" => NumbersOf(Seen(k)[T], f)
    BY <1>1, <1>14 DEF NumbersOK, NumbersOnce
  <2>2. CASE open[n].kind = "message"
    <3>1. NumbersOf(db'[T], f)
      BY <1>1, <2>1, <2>2 DEF NumbersOf
    <3>2. ASSUME NEW k \in DOMAIN open', open'[k].kind = "message" PROVE NumbersOf(Seen(k)'[T], f)
      <4>1. k # n /\ k \in DOMAIN open /\ open[k].kind = "message"
        BY <1>1, <3>2
      <4>2. CASE \A r \in e.put[T] : r.form # f
        <5>1. \A r \in Seen(k)'[T] : r.form = f => r \in Seen(k)[T]
          BY <1>1, <4>2
        <5> QED BY <2>1, <4>1, <5>1 DEF NumbersOf
      <4>3. CASE \E r \in e.put[T] : r.form = f
        <5>1. <<"form", f>> \in open[n].writes
          BY <2>2, <4>3 DEF NumbersOK, MessageRows
        <5>2. <<"form", f>> \notin open[k].writes
          BY <1>1, <1>14, <4>1, <5>1 DEF RequestsOK, Meet
        <5>3. \A r \in open[k].effect.put[T] : r.form # f
          BY <4>1, <5>2 DEF NumbersOK, MessageRows
        <5>4. \A r \in Seen(k)'[T] : r.form = f => r \in db'[T]
          BY <1>1, <5>3
        <5> QED BY <3>1, <5>4 DEF NumbersOf
      <4> QED BY <4>2, <4>3
    <3> QED BY <3>1, <3>2
  <2>3. CASE open[n].kind # "message"
    <3>1. \A r \in db'[T] : \E q \in db[T] : SameOne(r, q)
      BY <1>7, <2>3
    <3>2. NumbersOf(db'[T], f)
      BY <2>1, <3>1 DEF NumbersOf, SameOne
    <3>3. ASSUME NEW k \in DOMAIN open', open'[k].kind = "message" PROVE NumbersOf(Seen(k)'[T], f)
      <4>1. k \in DOMAIN open /\ open[k].kind = "message"
        BY <1>1, <3>3
      <4> DEFINE g == open[k].effect
      <4>2. g.drop[T] = {} /\ \A r \in g.put[T] : r.id = k
        BY <4>1 DEF NumbersOK, MessageRows, RemovedRows
      <4>3. \A r : r \in After(db, g)[T] <=>
              r \in g.put[T] \/ (r \in db[T] /\ r.id \notin g.drop[T] /\ \A q \in g.put[T] : q.id # r.id)
        BY <1>3, AfterIs
      <4>4. \A q \in db[T] : q.id # k
        BY <4>1 DEF NumbersOK, SubmissionRows
      <4>5. db[T] \subseteq Seen(k)[T] /\ g.put[T] \subseteq Seen(k)[T]
        BY <4>2, <4>3, <4>4 DEF Seen
      <4>6. \A r \in Seen(k)'[T] : \E q \in Seen(k)[T] : SameOne(r, q)
        BY <1>1, <3>1, <4>5 DEF SameOne
      <4> QED BY <2>1, <4>1, <4>6 DEF NumbersOf, SameOne
    <3> QED BY <3>2, <3>3
  <2> QED BY <2>2, <2>3
<1> QED BY <1>10, <1>11, <1>12, <1>13, <1>14 DEF NumbersOK, NumbersOnce

LEMMA NextNumbers ==
  ASSUME RequestsOK, NumbersOK, [Next]_vars
  PROVE  NumbersOK'
<1> DEFINE T == "submissions"
<1>1. T \in Tables \ {"asked", "polls"} /\ T \notin AppPuts \cup AppDrops
  BY TablesThere DEF Schema, AppPuts, AppDrops
<1>2. Room \in Nat
  BY OpenFinite
<1>3. ASSUME NEW n \in DOMAIN open, PollPhase(n) PROVE NumbersOK'
  <2>1. PICK e, place : Phase(n, e, place) /\ (e = NoEffect \/ Within(e, AppPuts, AppDrops))
    BY <1>3, PollPhaseIs, HandleWithin
  <2>2. SameAt(T)
    BY <1>1, <2>1, NoEffectAt, PhaseSame DEF Within
  <2>3. /\ DOMAIN open' = DOMAIN open /\ db' = db /\ serial' = serial
        /\ \A k \in DOMAIN open : k # n => open'[k] = open[k]
        /\ open[n].place # "written"
    BY <2>1, PhaseOpen DEF Phase
  <2>4. Room' = Room
    BY <2>3, RoomIs
  <2> QED BY <1>2, <2>2, <2>3, <2>4, SameNumbers DEF Removed
<1>4. ASSUME NEW n \in DOMAIN open, MassTextCommits(n) PROVE NumbersOK'
  <2>1. SameAt(T) /\ SameAt("tombstones")
    BY <1>1, <1>4, MassTextSame, TablesThere DEF Schema
  <2>2. /\ DOMAIN open' = DOMAIN open /\ serial' = serial
        /\ \A k \in DOMAIN open : k # n => open'[k] = open[k]
        /\ open[n].place # "written"
    BY <1>4, MassTextOpen DEF MassTextCommits, CommitPart
  <2>3. Room' = Room
    BY <2>2, RoomIs
  <2>4. \A c : Removed(c) => Removed(c)'
    BY <2>1 DEF Removed, IsRemoved, Select, SameAt
  <2> QED BY <1>2, <2>1, <2>2, <2>3, <2>4, SameNumbers
<1>5. ASSUME NEW n \in DOMAIN open, Fail(n) PROVE NumbersOK'
  <2>1. open' = Closed(n) /\ db' = db /\ serial' = serial /\ history \subseteq history'
    BY <1>5 DEF Fail, Rollback
  <2>2. SameAt(T) /\ Room' = Room + 1 /\ \A k \in DOMAIN open' : open'[k] = open[k]
    BY <1>1, <2>1, ClosedOpen, SameRest, RoomIs
  <2> QED BY <1>2, <2>1, <2>2, SameNumbers DEF Removed
<1>6. CASE UNCHANGED database
  <2>1. SameAt(T) /\ Room' = Room
    BY <1>1, <1>6, SameRest, RoomIs DEF database
  <2> QED BY <1>2, <1>6, <2>1, SameNumbers DEF database, Removed
<1>7. Moves
  BY Moving
<1> QED BY <1>3, <1>4, <1>5, <1>6, <1>7, BeginNumbers, FormNumbers, FinishNumbers DEF Moves

\* A confirmation number is that of one submission of the form, at any
\* interleaving in which no two messages for the form are under way at once.
THEOREM ConfirmationsUnique ==
  Spec => []UniqueConfirmation
<1>1. Init => NumbersOK
  <2> SUFFICES ASSUME Init PROVE NumbersOK
    OBVIOUS
  <2>1. DOMAIN open = {} /\ db["submissions"] = {}
    BY IncomingAssumption DEF Init, IncomingAssumption
  <2> QED BY <2>1 DEF NumbersOK, SubmissionRows, MessageRows, SavedRows, RemovedRows, NumbersOnce,
                      NumbersOf, Unique
<1>2. RequestsOK /\ NumbersOK /\ [Next]_vars => NumbersOK'
  BY NextNumbers
<1>3. NumbersOK => UniqueConfirmation
  BY DEF NumbersOK, SubmissionRows, NumbersOnce, NumbersOf, Unique, UniqueConfirmation
<1> QED BY RequestsStayOK, <1>1, <1>2, <1>3, PTL DEF Spec

-----------------------------------------------------------------------------
(***************************************************************************)
(* One row of a script.                                                    *)
(***************************************************************************)

\* A connection has one row of every script.
OneRow(R, c) == \A r, q \in R : r.conn = c /\ q.conn = c /\ r.script = q.script => r = q

\* An effect that leaves a connection with one row of every script, if it had
\* one, and one that puts nobody on the roster for the script that is made.
Neat(d, e) == \A c : OneRow(d["roster"], c) => OneRow(After(d, e)["roster"], c)
Plain(e)   == \A r \in e.put["roster"] : r.script # SPECIAL

LEMMA RosterThere ==
  "roster" \in Tables
BY TablesThere DEF Schema

LEMMA NeatFewer ==
  ASSUME NEW d, NEW e, e.put["roster"] = {}
  PROVE  Neat(d, e) /\ Plain(e)
<1>1. After(d, e)["roster"] \subseteq d["roster"]
  BY RosterThere, AfterAt DEF Without
<1> QED BY <1>1 DEF Neat, OneRow, Plain

LEMMA NeatThen ==
  ASSUME NEW d, NEW e, NEW f, Neat(d, e), Neat(After(d, e), f)
  PROVE  Neat(d, Then(e, f))
<1>1. After(d, Then(e, f))["roster"] = After(After(d, e), f)["roster"]
  BY RosterThere, AfterThen
<1> QED BY <1>1 DEF Neat

LEMMA PlainThen ==
  ASSUME NEW e, NEW f, Plain(e), Plain(f)
  PROVE  Plain(Then(e, f))
BY RosterThere, ThenIs DEF Plain

\* It is all in the roster.
LEMMA NeatSame ==
  ASSUME NEW d, NEW d2, NEW e, d["roster"] = d2["roster"], Neat(d, e)
  PROVE  Neat(d2, e)
<1>1. After(d, e)["roster"] = After(d2, e)["roster"]
  BY RosterThere, AfterSame
<1> QED BY <1>1 DEF Neat

LEMMA RosterSame ==
  ASSUME NEW d, NEW e, e.put["roster"] = {}, e.drop["roster"] = {}
  PROVE  After(d, e)["roster"] = d["roster"]
<1>1. After(d, e)["roster"] = Without(d["roster"], e.drop["roster"] \cup Ids(e.put["roster"])) \cup e.put["roster"]
  BY RosterThere, AfterAt
<1> QED BY <1>1 DEF Without, Ids

\* What writes other tables, and what works on the roster after it.
LEMMA NeatAfter ==
  ASSUME NEW d, NEW e, NEW f, e.put["roster"] = {}, e.drop["roster"] = {}, Neat(d, f)
  PROVE  Neat(d, Then(e, f))
BY RosterSame, NeatSame, NeatFewer, NeatThen

\* Rows that are put on a roster without rows of their scripts.
LEMMA NeatRows ==
  ASSUME NEW d, NEW R, NEW s,
         \A r \in R : r.script = s,
         \A r, q \in R : r.conn = q.conn => r = q,
         \A r \in R, q \in d["roster"] : q.conn = r.conn => q.script # s
  PROVE  Neat(d, Inserted("roster", R))
<1> DEFINE e == Inserted("roster", R)
<1>1. e.put["roster"] = R /\ e.drop["roster"] = {}
  BY RosterThere, InsertedAt
<1> HIDE DEF e
<1>2. \A r \in After(d, e)["roster"] : r \in R \/ r \in d["roster"]
  BY <1>1, RosterThere, AfterIs
<1> QED BY <1>2 DEF Neat, OneRow, e

LEMMA ScheduleAtIs ==
  ASSUME NEW d, NEW n, NEW c, NEW s, NEW day
  PROVE  LET e == schedule_at(d, n, c, s, day)
         IN /\ e.drop["roster"] = Ids(ScriptRows(d, c, s))
            /\ \A r \in e.put["roster"] : r = NewRow(n, c, s, day)
<1> DEFINE out == Deleted("roster", ScriptRows(d, c, s))
           rows == {NewRow(n, c, s, t) : t \in {x \in {day} : x # None /\ ~Blacklisted(d, c)}}
           add == Inserted("roster", rows)
<1>1. out.put["roster"] = {} /\ out.drop["roster"] = Ids(ScriptRows(d, c, s))
  BY RosterThere, DeletedAt
<1>2. add.put["roster"] = rows /\ add.drop["roster"] = {}
  BY RosterThere, InsertedAt
<1>3. \A r \in rows : r = NewRow(n, c, s, day)
  OBVIOUS
<1>4. schedule_at(d, n, c, s, day) = Then(out, add)
  BY DEF schedule_at
<1> HIDE DEF out, add, rows
<1>5. Then(out, add).drop["roster"] = out.drop["roster"] \cup add.drop["roster"]
  BY RosterThere DEF Then
<1>6. \A r \in Then(out, add).put["roster"] : r \in rows
  BY <1>1, <1>2, RosterThere, ThenIs
<1> QED BY <1>1, <1>2, <1>3, <1>4, <1>5, <1>6

\* One row in place of those there were, for each of a set of connections and
\* scripts.
LEMMA ScheduleEachNeat ==
  ASSUME NEW d, NEW n, NEW due, \A p, q \in due : p[1] = q[1] /\ p[2] = q[2] => p = q
  PROVE  /\ Neat(d, ScheduleEach(d, n, due))
         /\ (\A p \in due : p[2] # SPECIAL) => Plain(ScheduleEach(d, n, due))
<1> DEFINE of(p) == schedule_at(d, n, p[1], p[2], p[3])
           e == ScheduleEach(d, n, due)
<1>1. /\ e.drop["roster"] = UNION {of(p).drop["roster"] : p \in due}
      /\ e.put["roster"] = UNION {of(p).put["roster"] : p \in due}
  BY RosterThere DEF ScheduleEach
<1>2. \A p \in due : /\ of(p).drop["roster"] = Ids(ScriptRows(d, p[1], p[2]))
                     /\ \A r \in of(p).put["roster"] : r = NewRow(n, p[1], p[2], p[3])
  BY ScheduleAtIs
<1> HIDE DEF of, e
<1>3. \A r \in e.put["roster"] : \E p \in due : r = NewRow(n, p[1], p[2], p[3])
  BY <1>1, <1>2
<1>4. \A r \in e.put["roster"] : \E p \in due :
        r = NewRow(n, p[1], p[2], p[3]) /\ r.conn = p[1] /\ r.script = p[2]
  BY <1>3 DEF NewRow
<1>5. \A p \in due, q \in d["roster"] : q.conn = p[1] /\ q.script = p[2] => q.id \in e.drop["roster"]
  BY <1>1, <1>2 DEF Ids, ScriptRows, RowsOf
<1>6. \A r \in After(d, e)["roster"] :
        r \in e.put["roster"] \/ (r \in d["roster"] /\ r.id \notin e.drop["roster"])
  BY RosterThere, AfterIs
<1>7. Neat(d, e)
  <2> SUFFICES ASSUME NEW c, OneRow(d["roster"], c), NEW r \in After(d, e)["roster"],
                      NEW q \in After(d, e)["roster"], r.conn = c, q.conn = c, r.script = q.script
               PROVE  r = q
    BY DEF Neat, OneRow
  <2>1. CASE r \in e.put["roster"] /\ q \in e.put["roster"]
    BY <1>4, <2>1
  <2>2. CASE r \in e.put["roster"] /\ q \notin e.put["roster"]
    BY <1>4, <1>5, <1>6, <2>2
  <2>3. CASE r \notin e.put["roster"] /\ q \in e.put["roster"]
    BY <1>4, <1>5, <1>6, <2>3
  <2>4. CASE r \notin e.put["roster"] /\ q \notin e.put["roster"]
    BY <1>6, <2>4 DEF OneRow
  <2> QED BY <2>1, <2>2, <2>3, <2>4
<1>8. (\A p \in due : p[2] # SPECIAL) => Plain(e)
  BY <1>4 DEF Plain
<1> QED BY <1>7, <1>8 DEF e

LEMMA ScheduleAtNeat ==
  ASSUME NEW d, NEW n, NEW c, NEW s, NEW day
  PROVE  Neat(d, schedule_at(d, n, c, s, day)) /\ (s # SPECIAL => Plain(schedule_at(d, n, c, s, day)))
<1> DEFINE e == schedule_at(d, n, c, s, day)
<1>1. e.drop["roster"] = Ids(ScriptRows(d, c, s)) /\ \A r \in e.put["roster"] : r = NewRow(n, c, s, day)
  BY ScheduleAtIs
<1> HIDE DEF e
<1>2. \A r \in e.put["roster"] : r = NewRow(n, c, s, day) /\ r.conn = c /\ r.script = s
  BY <1>1 DEF NewRow
<1>3. \A q \in d["roster"] : q.conn = c /\ q.script = s => q.id \in e.drop["roster"]
  BY <1>1 DEF Ids, ScriptRows, RowsOf
<1>4. \A r \in After(d, e)["roster"] :
        r \in e.put["roster"] \/ (r \in d["roster"] /\ r.id \notin e.drop["roster"])
  BY RosterThere, AfterIs
<1>5. Neat(d, e) /\ (s # SPECIAL => Plain(e))
  BY <1>2, <1>3, <1>4 DEF Neat, OneRow, Plain
<1> QED BY <1>5 DEF e

LEMMA ScriptsPlain ==
  ASSUME NEW d, NEW c
  PROVE  SPECIAL \notin scripts_for(d, c)
<1>1. \A g : SPECIAL \notin GroupScripts(g)
  BY SpecialAssumption DEF SpecialAssumption, GroupScripts
<1> DEFINE A == UNION {GroupScripts(g) : g \in GroupsOf(d, c)}
           B == UNION {GroupScripts(k.grade) : k \in Contact(d, c)}
<1>2. SPECIAL \notin A /\ SPECIAL \notin B
  BY <1>1
<1>3. scripts_for(d, c) = A \cup IF "Teachers" \in GroupsOf(d, c) THEN B ELSE {}
  BY DEF scripts_for
<1> HIDE DEF A, B
<1> QED BY <1>2, <1>3

LEMMA ScheduleNeat ==
  ASSUME NEW d, NEW n, NEW c, NEW s, NEW day
  PROVE  /\ Neat(d, schedule(d, n, c, s, day)) /\ (s # SPECIAL => Plain(schedule(d, n, c, s, day)))
         /\ Neat(d, schedule_all(d, n, c, day)) /\ Plain(schedule_all(d, n, c, day))
         /\ Neat(d, schedule_script_at(d, n, s, day))
         /\ s # SPECIAL => Plain(schedule_script_at(d, n, s, day))
         /\ Neat(d, schedule_script(d, n, s, day))
         /\ s # SPECIAL => Plain(schedule_script(d, n, s, day))
<1>1. Neat(d, schedule(d, n, c, s, day)) /\ (s # SPECIAL => Plain(schedule(d, n, c, s, day)))
  BY ScheduleAtNeat DEF schedule
<1>2. Neat(d, schedule_all(d, n, c, day)) /\ Plain(schedule_all(d, n, c, day))
  <2> DEFINE when(x) == next_scheduled(x, day)
             due == {<<c, x, when(x)>> : x \in scripts_for(d, c)}
  <2> HIDE DEF when
  <2>1. \A p, q \in due : p[1] = q[1] /\ p[2] = q[2] => p = q
    OBVIOUS
  <2>2. \A p \in due : p[2] # SPECIAL
    BY ScriptsPlain
  <2>3. schedule_all(d, n, c, day) = ScheduleEach(d, n, due)
    BY DEF schedule_all, when
  <2> HIDE DEF due
  <2> QED BY <2>1, <2>2, <2>3, ScheduleEachNeat
<1>3. ASSUME NEW x
      PROVE  /\ Neat(d, schedule_script_at(d, n, s, x))
             /\ s # SPECIAL => Plain(schedule_script_at(d, n, s, x))
  <2> DEFINE due == {<<k, s, x>> : k \in Subscribers(d, s)}
  <2>1. \A p, q \in due : p[1] = q[1] /\ p[2] = q[2] => p = q
    OBVIOUS
  <2>2. \A p \in due : p[2] = s
    OBVIOUS
  <2>3. schedule_script_at(d, n, s, x) = ScheduleEach(d, n, due)
    BY DEF schedule_script_at
  <2> HIDE DEF due
  <2> QED BY <2>1, <2>2, <2>3, ScheduleEachNeat
<1> QED BY <1>1, <1>2, <1>3 DEF schedule_script

LEMMA RegisteredNeat ==
  ASSUME NEW d, NEW n, NEW c, NEW answer
  PROVE  Neat(d, Registered(d, n, c, answer)) /\ Plain(Registered(d, n, c, answer))
<1> DEFINE old == Contact(d, c)
           kept == {k.grade : k \in old \cap Listed(d)}
           who == [id |-> c, active |-> TRUE,
                   grade |-> IF answer.grade # "" \/ kept = {} THEN answer.grade
                             ELSE CHOOSE g \in kept : TRUE]
           found == IF old = {} THEN Inserted("contacts", {who}) ELSE Saved("contacts", {who})
           e == Then(found, Moved(d, c, match_group_response(answer.role)))
           f == schedule_all(After(d, e), n, c, today)
<1> HIDE DEF old, who
<1>1. Within(found, {"contacts"}, {})
  BY TablesThere, WithinBasic DEF Schema
<1> HIDE DEF found
<1>2. Within(e, {"contacts"} \cup {"members"}, {} \cup {"members"})
  BY <1>1, MovedWithin, WithinThen
<1>3. e.put["roster"] = {} /\ e.drop["roster"] = {}
  BY <1>2, RosterThere DEF Within
<1>4. Neat(After(d, e), f) /\ Plain(f)
  BY ScheduleNeat
<1>5. Registered(d, n, c, answer) = Then(e, f)
  BY Zenon DEF Registered, e, f, found, who, old
<1> HIDE DEF e, f
<1> QED BY <1>3, <1>4, <1>5, NeatFewer, NeatThen, PlainThen

\* What each kind of request does to the roster as it begins.
OfRoster(t) ==
  /\ \A c : <<"doubled", c>> \in t.notes \/ (OneRow(db["roster"], c) => OneRow(After(db, t.effect)["roster"], c))
  /\ t.kind # "special" /\ (\A q \in db["roster"] : q.script # SPECIAL) => Plain(t.effect)

LEMMA OfRosterIf ==
  ASSUME NEW t, Neat(db, t.effect), Plain(t.effect)
  PROVE  OfRoster(t)
BY DEF Neat, OfRoster

LEMMA EndRoster ==
  ASSUME RequestsOK, NEW t, Begin(t), EndRun
  PROVE  OfRoster(t)
<1> DEFINE out(row) == Deleted("roster", {row})
           next(row, answer) ==
             IF row.script = AUTOREG THEN Registered(After(db, out(row)), serial + 1, row.conn, answer)
             ELSE schedule(After(db, out(row)), serial + 1, row.conn, row.script, today)
           W(row) == About({row.conn}) \cup IF row.script = AUTOREG THEN Details({row.conn}) ELSE {}
           u(row, answer) == Request("end", row.id, "written", Ended(db, serial + 1, row, answer), {}, W(row), {})
<1>1. PICK row \in db["roster"], answer \in Answers : Begin(u(row, answer))
  BY Zenon DEF EndRun
<1>2. t = u(row, answer)
  BY <1>1, BeginOne
<1>3. Ended(db, serial + 1, row, answer) = Then(out(row), next(row, answer))
  BY Zenon DEF Ended
<1>4. t.effect = Then(out(row), next(row, answer)) /\ t.kind = "end"
  <2> HIDE DEF W, out, next
  <2> QED BY <1>2, <1>3, RequestIs
<1>5. out(row).put["roster"] = {}
  BY RosterThere, DeletedAt
<1>6. /\ Neat(After(db, out(row)), next(row, answer))
      /\ row.script # SPECIAL => Plain(next(row, answer))
  BY RegisteredNeat, ScheduleNeat
<1> HIDE DEF out, next
<1>7. Neat(db, t.effect) /\ (row.script # SPECIAL => Plain(t.effect))
  BY <1>4, <1>5, <1>6, NeatFewer, NeatThen, PlainThen
<1> QED BY <1>7 DEF Neat, OfRoster

LEMMA ReporterRoster ==
  ASSUME RequestsOK, NEW t, Begin(t), EditReporter
  PROVE  OfRoster(t)
<1> DEFINE new(answer) == match_group_response(answer.role)
           e(k, answer) == Then(Saved("contacts", {[k EXCEPT !.grade = answer.grade]}),
                                Moved(db, k.id, new(answer)))
           after(k, answer) == After(db, e(k, answer))
           all(k, answer) == schedule_all(after(k, answer), serial + 1, k.id, today)
           effect(k, answer, old) == IF new(answer) # old THEN Then(e(k, answer), all(k, answer)) ELSE e(k, answer)
           notes(k, answer, old) ==
             IF new(answer) = old /\ scripts_for(after(k, answer), k.id) # scripts_for(db, k.id)
             THEN {<<"overlooked", k.id>>} ELSE {}
           u(k, answer, old) == Request("reporter", k.id, "written", effect(k, answer, old), {},
                                        About({k.id}) \cup Details({k.id}), notes(k, answer, old))
<1>1. \E k \in Listed(db), answer \in Answers : \E old \in GroupsOf(db, k.id) : Begin(u(k, answer, old))
  BY Zenon DEF EditReporter
<1>2. PICK k, answer, old : t = u(k, answer, old)
  <2> HIDE DEF u
  <2> QED BY <1>1, BeginOne
<1>3. t.effect = effect(k, answer, old)
  <2> HIDE DEF effect, notes
  <2> QED BY <1>2, RequestIs
<1>4. Within(e(k, answer), {"contacts"} \cup {"members"}, {} \cup {"members"})
  <2>1. Within(Saved("contacts", {[k EXCEPT !.grade = answer.grade]}), {"contacts"}, {})
    BY TablesThere, WithinBasic DEF Schema
  <2> QED BY <2>1, MovedWithin, WithinThen
<1>5. e(k, answer).put["roster"] = {} /\ e(k, answer).drop["roster"] = {}
  BY <1>4, RosterThere DEF Within
<1>6. Neat(After(db, e(k, answer)), all(k, answer)) /\ Plain(all(k, answer))
  BY ScheduleNeat
<1> HIDE DEF e, all
<1>7. Neat(db, Then(e(k, answer), all(k, answer))) /\ Plain(Then(e(k, answer), all(k, answer)))
  BY <1>5, <1>6, NeatFewer, NeatThen, PlainThen
<1>8. Neat(db, e(k, answer)) /\ Plain(e(k, answer))
  BY <1>5, NeatFewer
<1> QED BY <1>3, <1>7, <1>8, OfRosterIf

LEMMA RescheduleRoster ==
  ASSUME RequestsOK, NEW t, Begin(t), RescheduleScripts
  PROVE  OfRoster(t)
<1> DEFINE effect(s, day) == IF day # None THEN schedule_script_at(db, serial + 1, s, day)
                             ELSE schedule_script(db, serial + 1, s, today)
           u(s, day) == Request("reschedule", s, "written", effect(s, day), {}, About(Subscribers(db, s)), {})
<1>1. PICK s \in Rostered, day \in {None} \cup today .. LastDay : Begin(u(s, day))
  BY Zenon DEF RescheduleScripts
<1>2. t = u(s, day)
  BY <1>1, BeginOne
<1>3. s # SPECIAL
  BY DEF Rostered
<1>4. Neat(db, effect(s, day)) /\ Plain(effect(s, day))
  BY <1>3, ScheduleNeat
<1> HIDE DEF effect
<1>5. t.effect = effect(s, day)
  BY <1>2, RequestIs
<1> QED BY <1>4, <1>5, OfRosterIf

LEMMA NowRoster ==
  ASSUME RequestsOK, NEW t, Begin(t), ScheduleNow
  PROVE  OfRoster(t)
<1> DEFINE whose(name) == {k.id : k \in {x \in Listed(db) : name \in GroupsOf(db, x.id)}}
           due(s, name) == {<<c, s, today>> : c \in whose(name)}
           effect(s, name) == ScheduleEach(db, serial + 1, due(s, name))
           u(s, name) == Request("now", s, "written", effect(s, name), {}, About(whose(name)), {})
<1>1. PICK s \in Rostered, name \in {m.group : m \in db["members"]} : Begin(u(s, name))
  BY Zenon DEF ScheduleNow
<1>2. t = u(s, name)
  BY <1>1, BeginOne
<1> HIDE DEF whose
<1>3. \A p, q \in due(s, name) : p[1] = q[1] /\ p[2] = q[2] => p = q
  OBVIOUS
<1>4. \A p \in due(s, name) : p[2] # SPECIAL
  BY DEF Rostered
<1> HIDE DEF due
<1>5. Neat(db, effect(s, name)) /\ Plain(effect(s, name))
  BY <1>3, <1>4, ScheduleEachNeat
<1> HIDE DEF effect
<1>6. t.effect = effect(s, name)
  BY <1>2, RequestIs
<1> QED BY <1>5, <1>6, OfRosterIf

LEMMA SpecialRoster ==
  ASSUME RequestsOK, NEW t, Begin(t), SpecialScript, \A q \in db["roster"] : q.script # SPECIAL
  PROVE  OfRoster(t) /\ t.kind = "special"
<1> DEFINE whose(chosen) == {k.id : k \in chosen}
           rows(chosen) == {NewRow(serial + 1, c, SPECIAL, today) : c \in whose(chosen)}
           u(chosen) == Request("special", SPECIAL, "written", Inserted("roster", rows(chosen)), {},
                                About(whose(chosen)), {})
<1>1. PICK chosen \in SUBSET Listed(db) : Begin(u(chosen))
  BY Zenon DEF SpecialScript
<1>2. t = u(chosen)
  BY <1>1, BeginOne
<1> HIDE DEF whose
<1>3. \A r \in rows(chosen) : r.script = SPECIAL /\ r = NewRow(serial + 1, r.conn, SPECIAL, today)
  BY DEF NewRow
<1> HIDE DEF rows
<1>4. t.effect = Inserted("roster", rows(chosen)) /\ t.kind = "special"
  BY <1>2, RequestIs
<1>5. Neat(db, Inserted("roster", rows(chosen)))
  <2> DEFINE R == rows(chosen)
  <2>1. \A r \in R : r.script = SPECIAL
    BY <1>3
  <2>2. \A r, q \in R : r.conn = q.conn => r = q
    BY <1>3
  <2>3. \A r \in R, q \in db["roster"] : q.conn = r.conn => q.script # SPECIAL
    OBVIOUS
  <2> HIDE DEF R
  <2>4. Neat(db, Inserted("roster", R))
    BY <2>1, <2>2, <2>3, NeatRows
  <2> QED BY <2>4 DEF R
<1> QED BY <1>4, <1>5 DEF Neat, OfRoster

LEMMA WaterRoster ==
  ASSUME RequestsOK, NEW t, Begin(t), ScheduleWaterPolls
  PROVE  OfRoster(t)
<1> DEFINE whose(chosen) == {k.id : k \in chosen}
           old(s) == {r \in db["roster"] : r.script = s}
           out(s) == Deleted("roster", old(s))
           rows(s, chosen, day) == {NewRow(serial + 1, c, s, day) : c \in whose(chosen)}
           add(s, chosen, day) == Inserted("roster", rows(s, chosen, day))
           notes(s, chosen) == {<<"overlooked", c>> : c \in Subscribers(db, s) \ whose(chosen)}
           W(s, chosen) == About(whose(chosen) \cup {r.conn : r \in old(s)})
           u(s, chosen, day) == Request("water", s, "written", Then(out(s), add(s, chosen, day)), {},
                                        W(s, chosen), notes(s, chosen))
<1>1. PICK s \in WATER, chosen \in SUBSET Listed(db), day \in today .. LastDay : Begin(u(s, chosen, day))
  BY Zenon DEF ScheduleWaterPolls
<1>2. t = u(s, chosen, day)
  BY <1>1, BeginOne
<1>3. t.effect = Then(out(s), add(s, chosen, day))
  <2> HIDE DEF out, add, W, notes
  <2> QED BY <1>2, RequestIs
<1> HIDE DEF whose
<1>4. \A r \in rows(s, chosen, day) : r.script = s /\ r = NewRow(serial + 1, r.conn, s, day)
  BY DEF NewRow
<1>5. out(s).put["roster"] = {} /\ out(s).drop["roster"] = Ids(old(s))
  BY RosterThere, DeletedAt
<1>6. add(s, chosen, day).put["roster"] = rows(s, chosen, day)
  BY RosterThere, InsertedAt
<1>7. s # SPECIAL
  BY SpecialAssumption DEF SpecialAssumption, Rostered
<1>8. Neat(After(db, out(s)), add(s, chosen, day))
  <2> DEFINE R == rows(s, chosen, day)
             d == After(db, out(s))
  <2>1. \A q \in d["roster"] : q.script # s
    <3> DEFINE e == out(s)
    <3> HIDE DEF e
    <3>1. \A r : r \in After(db, e)["roster"] <=>
            \/ r \in e.put["roster"]
            \/ r \in db["roster"] /\ r.id \notin e.drop["roster"] /\ \A q \in e.put["roster"] : q.id # r.id
      BY RosterThere, AfterIs
    <3>2. e.put["roster"] = {} /\ e.drop["roster"] = Ids(old(s))
      BY <1>5 DEF e
    <3>3. \A q \in After(db, e)["roster"] : q.script # s
      BY <3>1, <3>2 DEF Ids
    <3> QED BY <3>3 DEF e
  <2>2. \A r \in R : r.script = s
    BY <1>4
  <2>3. \A r, q \in R : r.conn = q.conn => r = q
    BY <1>4
  <2> HIDE DEF R, d
  <2>4. Neat(d, Inserted("roster", R))
    BY <2>1, <2>2, <2>3, NeatRows
  <2> QED BY <2>4 DEF R, d
<1>9. Plain(add(s, chosen, day)) /\ Plain(out(s)) /\ Neat(db, out(s))
  BY <1>4, <1>5, <1>6, <1>7, NeatFewer DEF Plain
<1> HIDE DEF out, add
<1>10. Neat(db, t.effect) /\ Plain(t.effect)
  BY <1>3, <1>8, <1>9, NeatThen, PlainThen
<1> QED BY <1>10, OfRosterIf

LEMMA AddRoster ==
  ASSUME RequestsOK, NEW t, Begin(t), AddConnections
  PROVE  OfRoster(t)
<1> DEFINE fresh(c, others) == {x \in {c} \cup others : Contact(db, x) = {}}
           out(c) == Deleted("roster", RowsOf(db, c))
           rows(c, others) == {NewRow(serial + 1, x, AUTOREG, today) : x \in fresh(c, others)}
           add(c, others) == Inserted("roster", rows(c, others))
           notes(c, others) ==
             {<<"doubled", x>> : x \in {y \in fresh(c, others) \cap others : Registering(db, y)}}
             \cup {<<"overlooked", x>> : x \in {c} \ fresh(c, others)}
           u(c, others) == Request("add", c, "written", Then(out(c), add(c, others)),
                                   {}, About({c} \cup others), notes(c, others))
<1>1. \E c \in Connections : \E others \in SUBSET {x \in Connections \ {c} : ~IsRemoved(db, x)} :
        Begin(u(c, others))
  BY Zenon DEF AddConnections
<1>2. PICK c, others : t = u(c, others)
  <2> HIDE DEF u
  <2> QED BY <1>1, BeginOne
<1> DEFINE R == rows(c, others)
           N == notes(c, others)
           e == out(c)
           f == add(c, others)
<1>3. t.effect = Then(e, f) /\ t.notes = N
  <2> HIDE DEF e, f, N
  <2>1. t = Request("add", c, "written", Then(e, f), {}, About({c} \cup others), N)
    BY <1>2 DEF e, f, N
  <2> QED BY <2>1, RequestIs
<1>4. \A r \in R : r.script = AUTOREG /\ r = NewRow(serial + 1, r.conn, AUTOREG, today) /\ r.conn \in fresh(c, others)
  BY DEF NewRow
<1>5. e.put["roster"] = {} /\ e.drop["roster"] = Ids(RowsOf(db, c))
  BY RosterThere, DeletedAt
<1>6. f.put["roster"] = R /\ f.drop["roster"] = {}
  BY RosterThere, InsertedAt
<1>7. \A x \in fresh(c, others) : x # c /\ Registering(db, x) => <<"doubled", x>> \in N
  OBVIOUS
<1> HIDE DEF R, N, e, f, fresh
<1>8. \A r \in After(db, Then(e, f))["roster"] :
        r \in R \/ (r \in db["roster"] /\ r.conn # c)
  <2>1. \A r : r \in After(db, e)["roster"] <=>
          \/ r \in e.put["roster"]
          \/ r \in db["roster"] /\ r.id \notin e.drop["roster"] /\ \A q \in e.put["roster"] : q.id # r.id
    BY RosterThere, AfterIs
  <2>2. \A r \in After(After(db, e), f)["roster"] : r \in f.put["roster"] \/ r \in After(db, e)["roster"]
    BY RosterThere, AfterIs
  <2>3. After(db, Then(e, f))["roster"] = After(After(db, e), f)["roster"]
    BY RosterThere, AfterThen
  <2> QED BY <1>5, <1>6, <2>1, <2>2, <2>3 DEF Ids, RowsOf
<1>9. ASSUME NEW x, <<"doubled", x>> \notin t.notes, OneRow(db["roster"], x)
      PROVE  OneRow(After(db, t.effect)["roster"], x)
  <2>1. ASSUME NEW r \in R, NEW q \in db["roster"], r.conn = x, q.conn = x, x # c, q.script = r.script PROVE FALSE
    <3>1. x \in fresh(c, others) /\ ~Registering(db, x)
      BY <1>3, <1>4, <1>7, <1>9, <2>1
    <3> QED BY <1>4, <2>1, <3>1 DEF Registering, ScriptRows, RowsOf
  <2> QED BY <1>3, <1>4, <1>8, <1>9, <2>1 DEF OneRow
<1>10. Plain(t.effect)
  <2>1. \A r \in Then(e, f).put["roster"] : r \in R
    BY <1>5, <1>6, RosterThere, ThenIs
  <2> QED BY <1>3, <1>4, <2>1, SpecialAssumption DEF SpecialAssumption, Plain
<1> QED BY <1>9, <1>10 DEF OfRoster

LEMMA MessageRoster ==
  ASSUME RequestsOK, NEW t, Begins(t), t.kind = "message"
  PROVE  OfRoster(t)
<1>1. PICK c, text, out : out \in Education(db, serial + 1, c, text) /\ t.on = [conn |-> c, text |-> text]
                     /\ t.writes = Topics(c, text) /\ t.effect = Then(update_last_reporting_date(db, c), out.effect)
  BY MessageBegins
<1> DEFINE Fine(e) == Neat(db, e) /\ Plain(e)
           save == update_last_reporting_date(db, c)
           here == Deleted("blacklist", Select(db, "blacklist", c))
           gone == Deleted("roster", RowsOf(db, c))
           inactive == Saved("contacts", {[k EXCEPT !.active = FALSE] : k \in Contact(db, c)})
           rows == {NewRow(serial + 1, c, AUTOREG, today)}
           starts == IF Registering(db, c) THEN NoEffect ELSE Registration(serial + 1, c)
<1>2. save.put["roster"] = {} /\ save.drop["roster"] = {} /\ here.put["roster"] = {} /\ here.drop["roster"] = {}
  BY TablesThere, SavedAt, DeletedAt DEF Schema, update_last_reporting_date
<1>3. Fine(starts)
  <2>1. CASE Registering(db, c)
    BY <2>1, NoEffectAt, RosterThere, NeatFewer
  <2>2. CASE ~Registering(db, c)
    <3>1. \A r \in rows : r.script = AUTOREG /\ r.conn = c
      BY DEF NewRow
    <3>2. \A r, q \in rows : r = q
      OBVIOUS
    <3>3. starts = Inserted("roster", rows)
      BY <2>2 DEF Registration
    <3>4. Inserted("roster", rows).put["roster"] = rows
      BY RosterThere, InsertedAt
    <3>5. \A r \in rows, q \in db["roster"] : q.conn = r.conn => q.script # AUTOREG
      BY <2>2, <3>1 DEF Registering, ScriptRows, RowsOf
    <3> HIDE DEF rows, starts
    <3>6. Neat(db, Inserted("roster", rows))
      BY <3>1, <3>2, <3>5, NeatRows
    <3> QED BY <3>1, <3>3, <3>4, <3>6, SpecialAssumption DEF SpecialAssumption, Plain
  <2> QED BY <2>1, <2>2
<1>4. Fine(NoEffect)
  BY RosterThere, NoEffectAt, NeatFewer
<1>5. Fine(Quit(db, c))
  <2>1. Inserted("blacklist", {[id |-> c]}).put["roster"] = {} /\ gone.put["roster"] = {} /\ inactive.put["roster"] = {}
    BY TablesThere, InsertedAt, DeletedAt, SavedAt DEF Schema
  <2>2. Then(Inserted("blacklist", {[id |-> c]}), Then(gone, inactive)).put["roster"] = {}
    <3> HIDE DEF gone, inactive
    <3> QED BY <2>1, RosterThere, ThenNothing
  <2>3. Quit(db, c) \in {NoEffect, Then(Inserted("blacklist", {[id |-> c]}), Then(gone, inactive))}
    BY Zenon DEF Quit
  <2> QED BY <1>4, <2>2, <2>3, NeatFewer
<1>6. Fine(Join(db, serial + 1, c))
  <2>1. Join(db, serial + 1, c) \in {starts, Then(here, starts), NoEffect}
    BY Zenon DEF Join
  <2> HIDE DEF starts, here
  <2>2. Fine(Then(here, starts))
    BY <1>2, <1>3, NeatAfter, NeatFewer, PlainThen
  <2> QED BY <1>3, <1>4, <2>1, <2>2
<1> HIDE DEF save, here, starts
<1>7. out.effect \in {Quit(db, c), Join(db, serial + 1, c), NoEffect}
  <2>1. CASE text.word = "quit"
    BY <1>1, <2>1 DEF Education
  <2>2. CASE text.word = "join"
    BY <1>1, <2>2 DEF Education
  <2>3. CASE text.word \notin {"quit", "join"}
    BY <1>1, <2>3 DEF Education
  <2> QED BY <2>1, <2>2, <2>3
<1>8. Fine(out.effect)
  BY <1>4, <1>5, <1>6, <1>7
<1>9. t.effect = Then(save, out.effect)
  BY <1>1 DEF save
<1> QED BY <1>2, <1>8, <1>9, NeatAfter, NeatFewer, PlainThen, OfRosterIf

LEMMA RosterBegins ==
  ASSUME RequestsOK, NEW t, Begins(t), t.kind = "special" => \A q \in db["roster"] : q.script # SPECIAL
  PROVE  OfRoster(t)
<1>1. Begin(t) /\ Own(t) /\ BegunBy(t.kind)
  BY DEF Begins
<1>2. CASE t.kind \in {"end", "reporter", "reschedule", "now", "special", "water", "add"}
  BY <1>1, <1>2, EndRoster, ReporterRoster, RescheduleRoster, NowRoster, SpecialRoster, WaterRoster, AddRoster
     DEF BegunBy
<1>3. CASE t.kind = "message"
  BY <1>3, MessageRoster
<1>4. CASE t.kind \notin {"end", "reporter", "reschedule", "now", "special", "water", "add", "message"}
  <2>1. "roster" \notin Puts[t.kind]
    BY <1>1, <1>4 DEF Own, Puts
  <2>2. t.effect.put["roster"] = {}
    BY <1>1, <2>1, RosterThere DEF Own, Within
  <2> QED BY <2>2, NeatFewer, OfRosterIf
<1> QED BY <1>2, <1>3, <1>4

\* Requests of a kind become fewer.
LEMMA LeftLess ==
  ASSUME [Next]_vars, left \in [Kinds -> Nat]
  PROVE  /\ left' \in [Kinds -> Nat] /\ left'["special"] <= left["special"]
         /\ left["special"] \in Nat /\ left'["special"] \in Nat
<1>1. ASSUME NEW kind \in Kinds, Take(kind) PROVE left' \in [Kinds -> Nat] /\ left'["special"] <= left["special"]
  BY <1>1 DEF Take, Kinds
<1>2. CASE left' = left
  BY <1>2 DEF Kinds
<1>3. ASSUME NEW c, NEW text, Receive(c, text) PROVE \E kind \in Kinds : Take(kind)
  <2>1. Take(KindOf(text))
    BY <1>3, Zenon DEF Receive
  <2>2. KindOf(text) \in Kinds
    BY DEF KindOf, Kinds
  <2> QED BY <2>1, <2>2
<1>4. Next => (\E kind \in Kinds : Take(kind)) \/ left' = left
  BY <1>3 DEF Next, Kinds
<1>5. left' \in [Kinds -> Nat] /\ left'["special"] <= left["special"]
  BY <1>1, <1>2, <1>4 DEF vars
<1> QED BY <1>5 DEF Kinds

LEMMA SpecialLeft ==
  ASSUME [Next]_vars, left \in [Kinds -> Nat], left["special"] <= 1
  PROVE  /\ left' \in [Kinds -> Nat] /\ left'["special"] <= 1
         /\ left["special"] \in {0, 1} /\ left'["special"] \in {0, 1}
         /\ left'["special"] = 1 => left["special"] = 1
<1>1. /\ left' \in [Kinds -> Nat] /\ left'["special"] <= left["special"]
      /\ left["special"] \in Nat /\ left'["special"] \in Nat
  BY LeftLess
<1> DEFINE a == left["special"]
           b == left'["special"]
<1>2. b <= a /\ a \in Nat /\ b \in Nat /\ a <= 1
  BY <1>1
<1> HIDE DEF a, b
<1>3. b <= 1 /\ a \in {0, 1} /\ b \in {0, 1} /\ (b = 1 => a = 1)
  BY <1>2
<1> QED BY <1>1, <1>3 DEF a, b

Doubled(n, c) == <<"doubled", c>> \in open[n].notes

\* What is on the roster, and what any open request sees there, has one row of a
\* connection and script, but for a number that is added while it registers.
OneRowSeen ==
  \A c : \/ <<"roster", c>> \in history \/ <<"doubled", c>> \in history
         \/ /\ OneRow(db["roster"], c)
            /\ \A n \in DOMAIN open : Doubled(n, c) \/ OneRow(Seen(n)["roster"], c)

\* As long as the script may be made, nobody is on the roster for it.
NoneSpecial ==
  /\ left \in [Kinds -> Nat] /\ left["special"] <= 1
  /\ left["special"] = 1 =>
       /\ \A q \in db["roster"] : q.script # SPECIAL
       /\ \A n \in DOMAIN open : \A q \in Seen(n)["roster"] : q.script # SPECIAL

RowsOK == OneRowSeen /\ NoneSpecial

LEMMA BeginRows ==
  ASSUME RequestsOK, RowsOK, [Next]_vars, NEW t, Begins(t)
  PROVE  RowsOK'
<1> DEFINE T == "roster"
           e == t.effect
<1>1. /\ db' = db /\ history \subseteq history' /\ DOMAIN open' = DOMAIN open \cup {serial'}
      /\ open'[serial'] = t /\ \A m : m = serial' => Seen(m)' = After(db, e)
      /\ \A k \in DOMAIN open : open'[k] = open[k] /\ Seen(k)' = Seen(k)
  BY BeginSeen DEF Begins
<1>2. /\ left' \in [Kinds -> Nat] /\ left'["special"] <= 1 /\ left["special"] \in {0, 1}
      /\ left'["special"] \in {0, 1} /\ (left'["special"] = 1 => left["special"] = 1)
  BY SpecialLeft DEF RowsOK, NoneSpecial
<1>3. t.kind = "special" => left["special"] = 1 /\ left'["special"] = 0
  <2> SUFFICES ASSUME t.kind = "special" PROVE left["special"] = 1 /\ left'["special"] = 0
    OBVIOUS
  <2>1. Take("special")
    BY DEF Begins, BegunBy
  <2> QED BY <1>2, <2>1 DEF Take, RowsOK, NoneSpecial, Kinds
<1>4. OfRoster(t)
  BY <1>3, RosterBegins DEF RowsOK, NoneSpecial
<1> HIDE DEF e
<1>5. OneRowSeen'
  <2>1. ASSUME NEW c, <<"roster", c>> \notin history', <<"doubled", c>> \notin history'
        PROVE  /\ OneRow(db'[T], c)
               /\ \A n \in DOMAIN open' : <<"doubled", c>> \in open'[n].notes \/ OneRow(Seen(n)'[T], c)
    <3>1. OneRow(db[T], c) /\ \A n \in DOMAIN open : Doubled(n, c) \/ OneRow(Seen(n)[T], c)
      BY <1>1, <2>1 DEF RowsOK, OneRowSeen
    <3>2. <<"doubled", c>> \in t.notes \/ OneRow(After(db, e)[T], c)
      BY <1>4, <3>1 DEF OfRoster, e
    <3> QED BY <1>1, <3>1, <3>2 DEF Doubled
  <2> QED BY <2>1 DEF OneRowSeen, Doubled
<1>6. ASSUME left'["special"] = 1
      PROVE  /\ \A q \in db'[T] : q.script # SPECIAL
             /\ \A n \in DOMAIN open' : \A q \in Seen(n)'[T] : q.script # SPECIAL
  <2>1. left["special"] = 1 /\ t.kind # "special"
    BY <1>2, <1>3, <1>6
  <2>2. /\ \A q \in db[T] : q.script # SPECIAL
        /\ \A n \in DOMAIN open : \A q \in Seen(n)[T] : q.script # SPECIAL
    BY <2>1 DEF RowsOK, NoneSpecial
  <2>3. \A q \in e.put[T] : q.script # SPECIAL
    BY <1>4, <2>1, <2>2 DEF OfRoster, Plain, e
  <2>4. \A q \in After(db, e)[T] : q.script # SPECIAL
    BY <2>2, <2>3, RosterThere, AfterIs
  <2> QED BY <1>1, <2>2, <2>4
<1> QED BY <1>2, <1>5, <1>6 DEF RowsOK, NoneSpecial

LEMMA FinishRows ==
  ASSUME RequestsOK, RowsOK, [Next]_vars, NEW n \in DOMAIN open, Finish(n)
  PROVE  RowsOK'
<1> DEFINE T == "roster"
<1>1. /\ db'[T] \subseteq Seen(n)[T]
      /\ \A r \in db'[T] : r \in db[T] \/ r \in open[n].effect.put[T]
      /\ DOMAIN open' = DOMAIN open \ {n} /\ history \subseteq history'
      /\ \A k \in DOMAIN open' :
           /\ open'[k] = open[k]
           /\ \A r \in Seen(k)'[T] : r \in Seen(k)[T] \/ r \in open[n].effect.put[T]
           /\ \A r \in Seen(k)'[T] : r \in db'[T] \/ r \in open[k].effect.put[T]
  BY RosterThere, FinishSeen
<1>2. open[n].notes \subseteq history'
  BY DEF Finish, Commit
<1>3. /\ left' \in [Kinds -> Nat] /\ left'["special"] <= 1 /\ left["special"] \in {0, 1}
      /\ left'["special"] \in {0, 1} /\ (left'["special"] = 1 => left["special"] = 1)
  BY SpecialLeft DEF RowsOK, NoneSpecial
<1>4. \A k \in DOMAIN open : \A r \in open[k].effect.put[T] : <<"roster", r.conn>> \in open[k].writes
  BY DEF RequestsOK, Wellformed
<1>5. ASSUME NEW c, <<"roster", c>> \notin history', <<"doubled", c>> \notin history'
      PROVE  /\ OneRow(db'[T], c)
             /\ \A k \in DOMAIN open' : <<"doubled", c>> \in open'[k].notes \/ OneRow(Seen(k)'[T], c)
  <2>1. OneRow(db[T], c) /\ \A k \in DOMAIN open : Doubled(k, c) \/ OneRow(Seen(k)[T], c)
    BY <1>1, <1>5 DEF RowsOK, OneRowSeen
  <2>2. OneRow(Seen(n)[T], c)
    BY <1>2, <1>5, <2>1 DEF Doubled
  <2>3. OneRow(db'[T], c)
    BY <1>1, <2>2 DEF OneRow
  <2>4. ASSUME NEW k \in DOMAIN open', ~Doubled(k, c) PROVE OneRow(Seen(k)'[T], c)
    <3>1. k # n /\ k \in DOMAIN open /\ OneRow(Seen(k)[T], c)
      BY <1>1, <2>1, <2>4
    <3>2. CASE \A r \in open[n].effect.put[T] : r.conn # c
      BY <1>1, <3>1, <3>2 DEF OneRow
    <3>3. CASE \E r \in open[n].effect.put[T] : r.conn = c
      <4>1. <<"roster", c>> \in open[n].writes
        BY <1>4, <3>3
      <4>2. <<"roster", c>> \notin open[k].writes
        BY <1>1, <1>5, <3>1, <4>1 DEF RequestsOK, Meet
      <4>3. \A r \in open[k].effect.put[T] : r.conn # c
        BY <1>4, <3>1, <4>2
      <4> QED BY <1>1, <2>3, <4>3 DEF OneRow
    <3> QED BY <3>2, <3>3
  <2> QED BY <1>1, <2>3, <2>4 DEF Doubled
<1>6. OneRowSeen'
  BY <1>5 DEF OneRowSeen, Doubled
<1>7. ASSUME left'["special"] = 1
      PROVE  /\ \A q \in db'[T] : q.script # SPECIAL
             /\ \A k \in DOMAIN open' : \A q \in Seen(k)'[T] : q.script # SPECIAL
  <2>1. \A k \in DOMAIN open : \A q \in Seen(k)[T] : q.script # SPECIAL
    BY <1>3, <1>7 DEF RowsOK, NoneSpecial
  <2>2. \A q \in open[n].effect.put[T] : q \in Seen(n)[T]
    BY RosterThere, AfterIs DEF Seen
  <2> QED BY <1>1, <2>1, <2>2
<1> QED BY <1>3, <1>6, <1>7 DEF RowsOK, NoneSpecial

LEMMA NextRows ==
  ASSUME RequestsOK, RowsOK, [Next]_vars
  PROVE  RowsOK'
<1> DEFINE T == "roster"
<1>1. T \in Tables \ {"asked", "polls"} /\ T \notin AppPuts \cup AppDrops
  BY TablesThere DEF Schema, AppPuts, AppDrops
<1>2. CASE SameAt(T)
  <2>1. /\ left' \in [Kinds -> Nat] /\ left'["special"] <= 1 /\ left["special"] \in {0, 1}
        /\ left'["special"] \in {0, 1} /\ (left'["special"] = 1 => left["special"] = 1)
    BY SpecialLeft DEF RowsOK, NoneSpecial
  <2>2. OneRowSeen'
    BY <1>2 DEF SameAt, RowsOK, OneRowSeen, Doubled
  <2>3. NoneSpecial'
    BY <1>2, <2>1 DEF SameAt, RowsOK, NoneSpecial
  <2> QED BY <2>2, <2>3 DEF RowsOK
<1>3. \/ \E t : Begins(t)
      \/ \E n \in DOMAIN open : Finish(n)
      \/ SameAt(T)
  <2> HIDE DEF T
  <2>1. T # "submissions"
    BY DEF T
  <2> QED BY <1>1, <2>1, Moving, SameSteps
<1> QED BY <1>2, <1>3, BeginRows, FinishRows

\* A connection has one row of a script at most, at any interleaving in which
\* no two requests about it are open at once, and which adds no number that is
\* registering.
THEOREM RowsSingle ==
  Spec => []OneRowPerScript
<1>1. Init => RowsOK
  <2> SUFFICES ASSUME Init PROVE RowsOK
    OBVIOUS
  <2>1. PICK w \in Workloads : DOMAIN open = {} /\ db = w.db /\ left = w.left
    BY DEF Init
  <2>2. /\ w.left \in [Kinds -> Nat] /\ w.left["special"] <= 1
        /\ \A r \in w.db["roster"] : r.script # SPECIAL
        /\ \A r, q \in w.db["roster"] : r.conn = q.conn /\ r.script = q.script => r = q
    BY WorkloadAssumption DEF WorkloadAssumption
  <2> QED BY <2>1, <2>2 DEF RowsOK, OneRowSeen, NoneSpecial, OneRow
<1>2. RequestsOK /\ RowsOK /\ [Next]_vars => RowsOK'
  BY NextRows
<1>3. RowsOK => OneRowPerScript
  <2> SUFFICES ASSUME RowsOK, NEW c \in Connections, NEW s \in Scripts,
                      Undisturbed("roster", c), Undisturbed("doubled", c)
               PROVE  Cardinality(ScriptRows(db, c, s)) <= 1
    BY DEF OneRowPerScript
  <2> DEFINE D == ScriptRows(db, c, s)
  <2>1. OneRow(db["roster"], c)
    BY DEF RowsOK, OneRowSeen, Undisturbed
  <2>2. \A i, j \in D : i = j
    BY <2>1 DEF OneRow, ScriptRows, RowsOf
  <2>3. D = {} \/ \E i \in D : D = {i}
    BY <2>2
  <2> HIDE DEF D
  <2>4. Cardinality(D) \in {0, 1}
    BY <2>3, FS_EmptySet, FS_Singleton
  <2> QED BY <2>4 DEF D
<1> QED BY RequestsStayOK, <1>1, <1>2, <1>3, PTL DEF Spec

-----------------------------------------------------------------------------
(***************************************************************************)
(* Whoever has registered is on the roster.                                *)
(***************************************************************************)

LEMMA PeopleThere ==
  "roster" \in Tables /\ "contacts" \in Tables /\ "members" \in Tables /\ "blacklist" \in Tables
BY TablesThere DEF Schema

\* The rows name whose they are.
KeyRow(r)    == r.id[2] = r.conn /\ r.id[3] = r.script
Graded(k)    == /\ k = [id |-> k.id, grade |-> k.grade, active |-> k.active]
                /\ k.grade \in DOMAIN GROUPS => k.grade \in {"p3", "p6"}
Keyed(d) ==
  /\ \A r \in d["roster"] : KeyRow(r)
  /\ \A m \in d["members"] : m.id[1] = m.conn
  /\ \A k \in d["contacts"] : Graded(k)

MembersOf(d, c) == {m \in d["members"] : m.conn = c}

\* On the day given, a contact is on the roster, or has no need to be.
Covered(d, c, day) ==
  \/ Contact(d, c) = {} \/ Blacklisted(d, c) \/ Registering(d, c)
  \/ \A s \in scripts_for(d, c) : next_scheduled(s, day) # None => ScriptRows(d, c, s) # {}

\* Two databases have the same of a contact.
SameFor(d, d2, c) ==
  /\ Contact(d, c) = Contact(d2, c) /\ MembersOf(d, c) = MembersOf(d2, c)
  /\ Select(d, "blacklist", c) = Select(d2, "blacklist", c) /\ RowsOf(d, c) = RowsOf(d2, c)

LEMMA SameScripts ==
  ASSUME NEW d, NEW d2, NEW c, Contact(d, c) = Contact(d2, c), MembersOf(d, c) = MembersOf(d2, c)
  PROVE  scripts_for(d, c) = scripts_for(d2, c)
<1>1. GroupsOf(d, c) = GroupsOf(d2, c)
  BY DEF GroupsOf, MembersOf
<1> QED BY <1>1 DEF scripts_for

LEMMA SameCovered ==
  ASSUME NEW d, NEW d2, NEW c, NEW day, SameFor(d, d2, c), Covered(d, c, day)
  PROVE  Covered(d2, c, day)
<1>1. scripts_for(d, c) = scripts_for(d2, c)
  BY SameScripts DEF SameFor
<1>2. \A s : ScriptRows(d, c, s) = ScriptRows(d2, c, s)
  BY DEF SameFor, ScriptRows
<1> QED BY <1>1, <1>2 DEF SameFor, Covered, Blacklisted, Registering

\* The rows of one contact that an effect leaves are told by those it finds.
LEMMA AfterSameFor ==
  ASSUME NEW d, NEW d2, NEW c, NEW e, SameFor(d, d2, c)
  PROVE  SameFor(After(d, e), After(d2, e), c)
<1> DEFINE x == After(d, e)
           y == After(d2, e)
<1>1. \A T \in Tables : \A r :
        /\ r \in x[T] <=> \/ r \in e.put[T]
                          \/ r \in d[T] /\ r.id \notin e.drop[T] /\ \A q \in e.put[T] : q.id # r.id
        /\ r \in y[T] <=> \/ r \in e.put[T]
                          \/ r \in d2[T] /\ r.id \notin e.drop[T] /\ \A q \in e.put[T] : q.id # r.id
  BY AfterIs
<1> HIDE DEF x, y
<1>2. Contact(x, c) = Contact(y, c)
  <2>1. \A r : r.id = c => (r \in d["contacts"] <=> r \in d2["contacts"])
    BY DEF SameFor, Contact, Select
  <2> QED BY <1>1, <2>1, PeopleThere DEF Contact, Select
<1>3. MembersOf(x, c) = MembersOf(y, c)
  <2>1. \A r : r.conn = c => (r \in d["members"] <=> r \in d2["members"])
    BY DEF SameFor, MembersOf
  <2> QED BY <1>1, <2>1, PeopleThere DEF MembersOf
<1>4. Select(x, "blacklist", c) = Select(y, "blacklist", c)
  <2>1. \A r : r.id = c => (r \in d["blacklist"] <=> r \in d2["blacklist"])
    BY DEF SameFor, Select
  <2> QED BY <1>1, <2>1, PeopleThere DEF Select
<1>5. RowsOf(x, c) = RowsOf(y, c)
  <2>1. \A r : r.conn = c => (r \in d["roster"] <=> r \in d2["roster"])
    BY DEF SameFor, RowsOf
  <2> QED BY <1>1, <2>1, PeopleThere DEF RowsOf
<1> QED BY <1>2, <1>3, <1>4, <1>5 DEF SameFor, x, y

\* A commit leaves of the rows of one id what its request sees, or none, as the
\* row that it saves has gone.
LEMMA WriteById ==
  ASSUME NEW e, Write(e), NEW T \in Tables, NEW i
  PROVE  \/ \A r : r.id = i => (r \in db'[T] <=> r \in After(db, e)[T])
         \/ i \in Gone(e, T) /\ \A r \in db'[T] : r.id # i
<1>1. PICK lost \in SUBSET UNION {{U} \X Gone(e, U) : U \in Tables} :
        db' = After(db, [e EXCEPT !.put =
                [U \in Tables |-> Without(@[U], {id \in Gone(e, U) : <<U, id>> \in lost})]])
  BY DEF Write
<1> DEFINE f == [e EXCEPT !.put = [U \in Tables |-> Without(@[U], {id \in Gone(e, U) : <<U, id>> \in lost})]]
           L == {id \in Gone(e, T) : <<T, id>> \in lost}
<1>2. e.drop[T] = f.drop[T]
  OBVIOUS
<1>3. \A r : r \in f.put[T] <=> r \in e.put[T] /\ r.id \notin L
  BY DEF Without
<1>4. db' = After(db, f)
  BY <1>1
<1>5. \A id \in L : id \in Gone(e, T) /\ id \notin Ids(db[T])
  BY DEF Gone
<1> HIDE DEF f, L
<1>6. \A r : r \in db'[T] <=>
        \/ r \in f.put[T]
        \/ r \in db[T] /\ r.id \notin f.drop[T] /\ \A q \in f.put[T] : q.id # r.id
  BY <1>4, AfterIs
<1>7. \A r : r \in After(db, e)[T] <=>
        \/ r \in e.put[T]
        \/ r \in db[T] /\ r.id \notin e.drop[T] /\ \A q \in e.put[T] : q.id # r.id
  BY AfterIs
<1>8. CASE i \in L
  BY <1>3, <1>5, <1>6, <1>8 DEF Ids
<1>9. CASE i \notin L
  BY <1>2, <1>3, <1>6, <1>7, <1>9
<1> QED BY <1>8, <1>9

-----------------------------------------------------------------------------
\* An effect is about no more contacts than the topics of W name, and makes the
\* rows that it puts, but for saved contacts.
Confined(e, W) ==
  /\ \A r \in e.put["roster"] : <<"roster", r.conn>> \in W /\ KeyRow(r) /\ r.id \in e.made["roster"]
  /\ \A m \in e.put["members"] : <<"roster", m.conn>> \in W /\ m.id[1] = m.conn /\ m.id \in e.made["members"]
  /\ \A x \in e.put["blacklist"] : <<"roster", x.id>> \in W /\ x.id \in e.made["blacklist"]
  /\ \A i \in e.drop["roster"] : <<"roster", i[2]>> \in W
  /\ \A i \in e.drop["members"] : <<"roster", i[1]>> \in W
  /\ \A i \in e.drop["blacklist"] \cup e.drop["contacts"] : <<"roster", i>> \in W

LEMMA ConfinedThen ==
  ASSUME NEW e, NEW f, NEW W, Confined(e, W), Confined(f, W)
  PROVE  Confined(Then(e, f), W)
<1> DEFINE g == Then(e, f)
<1>1. \A T \in Tables :
        /\ \A r \in g.put[T] : r \in e.put[T] \/ r \in f.put[T]
        /\ \A i \in g.drop[T] : i \in e.drop[T] \/ i \in f.drop[T]
        /\ \A i : i \in e.made[T] \/ i \in f.made[T] => i \in g.made[T]
  BY ThenIs DEF Then
<1> HIDE DEF g
<1>2. Confined(g, W)
  BY <1>1, PeopleThere DEF Confined
<1> QED BY <1>2 DEF g

\* An effect on none of the tables that are about people.
LEMMA ConfinedOther ==
  ASSUME NEW e, NEW W, \A T \in {"roster", "contacts", "members", "blacklist"} : e.put[T] = {} /\ e.drop[T] = {}
  PROVE  Confined(e, W)
BY DEF Confined

LEMMA ConfinedBasic ==
  ASSUME NEW R, NEW W
  PROVE  /\ Confined(NoEffect, W) /\ Confined(Saved("contacts", R), W) /\ Confined(Inserted("contacts", R), W)
         /\ (\A r \in R : <<"roster", r.id[2]>> \in W) => Confined(Deleted("roster", R), W)
         /\ (\A m \in R : <<"roster", m.id[1]>> \in W) => Confined(Deleted("members", R), W)
         /\ (\A x \in R : <<"roster", x.id>> \in W) => Confined(Deleted("blacklist", R), W)
         /\ (\A x \in R : <<"roster", x.id>> \in W) => Confined(Inserted("blacklist", R), W)
         /\ (\A r \in R : <<"roster", r.conn>> \in W /\ KeyRow(r)) => Confined(Inserted("roster", R), W)
         /\ (\A m \in R : <<"roster", m.conn>> \in W /\ m.id[1] = m.conn) => Confined(Inserted("members", R), W)
<1>1. \A T \in Tables : NoEffect.put[T] = {} /\ NoEffect.drop[T] = {}
  BY NoEffectAt
<1>2. \A T, U \in Tables :
        /\ Saved(U, R).drop[T] = {} /\ Saved(U, R).put[T] = IF T = U THEN R ELSE {}
        /\ Inserted(U, R).drop[T] = {} /\ Inserted(U, R).put[T] = IF T = U THEN R ELSE {}
        /\ Deleted(U, R).put[T] = {} /\ Deleted(U, R).drop[T] = IF T = U THEN Ids(R) ELSE {}
  BY SavedAt, InsertedAt, DeletedAt
<1>3. \A U \in Tables : Inserted(U, R).made[U] = Ids(R)
  BY DEF Inserted, NoEffect
<1>4. Confined(NoEffect, W)
  BY <1>1, PeopleThere, ConfinedOther
<1>5. Confined(Saved("contacts", R), W) /\ Confined(Inserted("contacts", R), W)
  BY <1>2, PeopleThere DEF Confined
<1>6. (\A r \in R : <<"roster", r.id[2]>> \in W) => Confined(Deleted("roster", R), W)
  <2> DEFINE e == Deleted("roster", R)
  <2>1. e.put["roster"] = {} /\ e.put["contacts"] = {} /\ e.put["members"] = {} /\ e.put["blacklist"] = {}
    BY <1>2, PeopleThere
  <2>2. e.drop["roster"] = Ids(R) /\ e.drop["contacts"] = {} /\ e.drop["members"] = {} /\ e.drop["blacklist"] = {}
    BY <1>2, PeopleThere
  <2> HIDE DEF e
  <2>3. (\A r \in R : <<"roster", r.id[2]>> \in W) => Confined(e, W)
    BY <2>1, <2>2 DEF Confined, Ids
  <2> QED BY <2>3 DEF e
<1>7. (\A m \in R : <<"roster", m.id[1]>> \in W) => Confined(Deleted("members", R), W)
  <2> DEFINE e == Deleted("members", R)
  <2>1. e.put["roster"] = {} /\ e.put["contacts"] = {} /\ e.put["members"] = {} /\ e.put["blacklist"] = {}
    BY <1>2, PeopleThere
  <2>2. e.drop["roster"] = {} /\ e.drop["contacts"] = {} /\ e.drop["members"] = Ids(R) /\ e.drop["blacklist"] = {}
    BY <1>2, PeopleThere
  <2> HIDE DEF e
  <2>3. (\A m \in R : <<"roster", m.id[1]>> \in W) => Confined(e, W)
    BY <2>1, <2>2 DEF Confined, Ids
  <2> QED BY <2>3 DEF e
<1>8. (\A x \in R : <<"roster", x.id>> \in W) => Confined(Deleted("blacklist", R), W)
  <2> DEFINE e == Deleted("blacklist", R)
  <2>1. e.put["roster"] = {} /\ e.put["contacts"] = {} /\ e.put["members"] = {} /\ e.put["blacklist"] = {}
    BY <1>2, PeopleThere
  <2>2. e.drop["roster"] = {} /\ e.drop["contacts"] = {} /\ e.drop["members"] = {} /\ e.drop["blacklist"] = Ids(R)
    BY <1>2, PeopleThere
  <2> HIDE DEF e
  <2>3. (\A x \in R : <<"roster", x.id>> \in W) => Confined(e, W)
    BY <2>1, <2>2 DEF Confined, Ids
  <2> QED BY <2>3 DEF e
<1>9. (\A x \in R : <<"roster", x.id>> \in W) => Confined(Inserted("blacklist", R), W)
  <2> DEFINE e == Inserted("blacklist", R)
  <2>1. e.put["roster"] = {} /\ e.put["contacts"] = {} /\ e.put["members"] = {} /\ e.put["blacklist"] = R
    BY <1>2, PeopleThere
  <2>2. e.drop["roster"] = {} /\ e.drop["contacts"] = {} /\ e.drop["members"] = {} /\ e.drop["blacklist"] = {}
    BY <1>2, PeopleThere
  <2>3. e.made["blacklist"] = Ids(R)
    BY <1>3, PeopleThere
  <2> HIDE DEF e
  <2>4. (\A x \in R : <<"roster", x.id>> \in W) => Confined(e, W)
    BY <2>1, <2>2, <2>3 DEF Confined, Ids
  <2> QED BY <2>4 DEF e
<1>10. (\A r \in R : <<"roster", r.conn>> \in W /\ KeyRow(r)) => Confined(Inserted("roster", R), W)
  <2> DEFINE e == Inserted("roster", R)
  <2>1. e.put["roster"] = R /\ e.put["contacts"] = {} /\ e.put["members"] = {} /\ e.put["blacklist"] = {}
    BY <1>2, PeopleThere
  <2>2. e.drop["roster"] = {} /\ e.drop["contacts"] = {} /\ e.drop["members"] = {} /\ e.drop["blacklist"] = {}
    BY <1>2, PeopleThere
  <2>3. e.made["roster"] = Ids(R)
    BY <1>3, PeopleThere
  <2> HIDE DEF e
  <2>4. (\A r \in R : <<"roster", r.conn>> \in W /\ KeyRow(r)) => Confined(e, W)
    BY <2>1, <2>2, <2>3 DEF Confined, Ids
  <2> QED BY <2>4 DEF e
<1>11. (\A m \in R : <<"roster", m.conn>> \in W /\ m.id[1] = m.conn) => Confined(Inserted("members", R), W)
  <2> DEFINE e == Inserted("members", R)
  <2>1. e.put["roster"] = {} /\ e.put["contacts"] = {} /\ e.put["members"] = R /\ e.put["blacklist"] = {}
    BY <1>2, PeopleThere
  <2>2. e.drop["roster"] = {} /\ e.drop["contacts"] = {} /\ e.drop["members"] = {} /\ e.drop["blacklist"] = {}
    BY <1>2, PeopleThere
  <2>3. e.made["members"] = Ids(R)
    BY <1>3, PeopleThere
  <2> HIDE DEF e
  <2>4. (\A m \in R : <<"roster", m.conn>> \in W /\ m.id[1] = m.conn) => Confined(e, W)
    BY <2>1, <2>2, <2>3 DEF Confined, Ids
  <2> QED BY <2>4 DEF e
<1> QED BY <1>4, <1>5, <1>6, <1>7, <1>8, <1>9, <1>10, <1>11

LEMMA KeyedAfter ==
  ASSUME NEW d, NEW e, NEW W, Keyed(d), Confined(e, W), \A k \in e.put["contacts"] : Graded(k)
  PROVE  Keyed(After(d, e))
<1>1. \A T \in Tables : \A r \in After(d, e)[T] : r \in e.put[T] \/ r \in d[T]
  BY AfterIs
<1> QED BY <1>1, PeopleThere DEF Keyed, Confined

\* What an effect is not about, it leaves alone.
LEMMA ConfinedSame ==
  ASSUME NEW d, NEW e, NEW W, Keyed(d), Confined(e, W), NEW c, <<"roster", c>> \notin W,
         Select(e.put, "contacts", c) \in {{}, Contact(d, c)}
  PROVE  SameFor(After(d, e), d, c)
<1> DEFINE x == After(d, e)
<1>1. \A T \in Tables : \A r :
        r \in x[T] <=> \/ r \in e.put[T]
                       \/ r \in d[T] /\ r.id \notin e.drop[T] /\ \A q \in e.put[T] : q.id # r.id
  BY AfterIs
<1> HIDE DEF x
<1>2. Contact(x, c) = Contact(d, c)
  <2>1. c \notin e.drop["contacts"]
    BY DEF Confined
  <2>2. \A r : r.id = c => (r \in x["contacts"] <=> r \in d["contacts"])
    <3>1. CASE Select(e.put, "contacts", c) = {}
      BY <1>1, <2>1, <3>1, PeopleThere DEF Select
    <3>2. CASE Select(e.put, "contacts", c) = Contact(d, c)
      <4>1. \A r : r.id = c => (r \in e.put["contacts"] <=> r \in d["contacts"])
        BY <3>2 DEF Contact, Select
      <4> QED BY <1>1, <4>1, <2>1, PeopleThere
    <3> QED BY <3>1, <3>2
  <2> QED BY <2>2 DEF Contact, Select
<1>3. MembersOf(x, c) = MembersOf(d, c)
  <2>1. \A m \in e.put["members"] : m.conn # c /\ m.id[1] # c
    BY DEF Confined
  <2>2. \A m \in d["members"] : m.conn = c => m.id[1] = c /\ m.id \notin e.drop["members"]
    BY DEF Confined, Keyed
  <2> QED BY <1>1, <2>1, <2>2, PeopleThere DEF MembersOf
<1>4. Select(x, "blacklist", c) = Select(d, "blacklist", c)
  <2>1. c \notin e.drop["blacklist"] /\ \A r \in e.put["blacklist"] : r.id # c
    BY DEF Confined
  <2> QED BY <1>1, <2>1, PeopleThere DEF Select
<1>5. RowsOf(x, c) = RowsOf(d, c)
  <2>1. \A r \in e.put["roster"] : r.conn # c /\ r.id[2] # c
    BY DEF Confined, KeyRow
  <2>2. \A r \in d["roster"] : r.conn = c => r.id[2] = c /\ r.id \notin e.drop["roster"]
    BY DEF Confined, Keyed, KeyRow
  <2> QED BY <1>1, <2>1, <2>2, PeopleThere DEF RowsOf
<1> QED BY <1>2, <1>3, <1>4, <1>5 DEF SameFor, x

-----------------------------------------------------------------------------
\* An effect puts the rows of connections and scripts at the times of due in place
\* of those there are, or of some of them; none if there is no time, or for those
\* who have quit.
Reschedules(d, e, due) ==
  /\ \A T \in {"contacts", "members", "blacklist"} : e.put[T] = {} /\ e.drop[T] = {}
  /\ \A i \in e.drop["roster"] : \E p \in due : \E r \in ScriptRows(d, p[1], p[2]) : r.id = i
  /\ \A r \in e.put["roster"] :
       KeyRow(r) /\ r.id \in e.made["roster"] /\ \E p \in due : r.conn = p[1] /\ r.script = p[2]
  /\ \A p \in due : p[3] # None /\ ~Blacklisted(d, p[1]) =>
       \E r \in e.put["roster"] : r.conn = p[1] /\ r.script = p[2]

LEMMA ReschedulesConfined ==
  ASSUME NEW d, NEW e, NEW due, NEW W, Keyed(d), Reschedules(d, e, due), \A p \in due : <<"roster", p[1]>> \in W
  PROVE  Confined(e, W)
<1>1. \A i \in e.drop["roster"] : <<"roster", i[2]>> \in W
  BY DEF Reschedules, ScriptRows, RowsOf, Keyed, KeyRow
<1> QED BY <1>1 DEF Reschedules, Confined

\* It takes nobody off the roster, but from a script that has no date to come or
\* that is none of the contact's.
LEMMA ReschedulesCovered ==
  ASSUME NEW d, NEW e, NEW due, NEW c, NEW day, Keyed(d), Reschedules(d, e, due), Covered(d, c, day),
         \A p \in due : p[2] # AUTOREG,
         \A p \in due : p[1] = c /\ p[3] = None => next_scheduled(p[2], day) = None \/ p[2] \notin scripts_for(d, c)
  PROVE  Covered(After(d, e), c, day)
<1> DEFINE x == After(d, e)
<1>1. \A T \in Tables : \A r :
        r \in x[T] <=> \/ r \in e.put[T]
                       \/ r \in d[T] /\ r.id \notin e.drop[T] /\ \A q \in e.put[T] : q.id # r.id
  BY AfterIs
<1> HIDE DEF x
<1>2. /\ Contact(x, c) = Contact(d, c) /\ MembersOf(x, c) = MembersOf(d, c)
      /\ Select(x, "blacklist", c) = Select(d, "blacklist", c)
  BY <1>1, PeopleThere DEF Reschedules, Contact, Select, MembersOf
<1>3. scripts_for(x, c) = scripts_for(d, c)
  BY <1>2, SameScripts
<1>4. ASSUME NEW r \in d["roster"], r.conn = c, \A p \in due : p[1] = c => p[2] # r.script
      PROVE  r \in x["roster"]
  <2>1. r.id[2] = c /\ r.id[3] = r.script
    BY <1>4 DEF Keyed, KeyRow
  <2>2. r.id \notin e.drop["roster"]
    <3> SUFFICES ASSUME NEW p \in due, NEW q \in ScriptRows(d, p[1], p[2]), q.id = r.id PROVE FALSE
      BY DEF Reschedules
    <3>1. q.id[2] = p[1] /\ q.id[3] = p[2]
      BY DEF ScriptRows, RowsOf, Keyed, KeyRow
    <3> QED BY <1>4, <2>1, <3>1
  <2>3. \A q \in e.put["roster"] : q.id # r.id
    BY <1>4, <2>1 DEF Reschedules, KeyRow
  <2> QED BY <1>1, <2>2, <2>3, PeopleThere
<1>5. Registering(d, c) => Registering(x, c)
  BY <1>4 DEF Registering, ScriptRows, RowsOf
<1>6. Blacklisted(d, c) <=> Blacklisted(x, c)
  BY <1>2 DEF Blacklisted
<1>7. ASSUME NEW s \in scripts_for(d, c), next_scheduled(s, day) # None, ScriptRows(d, c, s) # {}, ~Blacklisted(d, c)
      PROVE  ScriptRows(x, c, s) # {}
  <2>1. CASE \A p \in due : p[1] = c => p[2] # s
    BY <1>4, <1>7, <2>1 DEF ScriptRows, RowsOf
  <2>2. ASSUME NEW p \in due, p[1] = c, p[2] = s PROVE ScriptRows(x, c, s) # {}
    <3>1. p[3] # None
      BY <1>7, <2>2
    <3>2. PICK r \in e.put["roster"] : r.conn = c /\ r.script = s
      BY <1>7, <2>2, <3>1 DEF Reschedules
    <3> QED BY <1>1, <3>2, PeopleThere DEF ScriptRows, RowsOf
  <2> QED BY <2>1, <2>2
<1>8. Covered(x, c, day)
  BY <1>2, <1>3, <1>5, <1>6, <1>7 DEF Covered
<1> QED BY <1>8 DEF x

\* schedule_at, and ScheduleEach.
LEMMA ScheduleAtReschedules ==
  ASSUME NEW d, NEW n, NEW c, NEW s, NEW day
  PROVE  Reschedules(d, schedule_at(d, n, c, s, day), {<<c, s, day>>})
<1> DEFINE out == Deleted("roster", ScriptRows(d, c, s))
           rows == {NewRow(n, c, s, t) : t \in {x \in {day} : x # None /\ ~Blacklisted(d, c)}}
           add == Inserted("roster", rows)
           e == schedule_at(d, n, c, s, day)
<1>1. \A T \in Tables : out.put[T] = {} /\ out.drop[T] = IF T = "roster" THEN Ids(ScriptRows(d, c, s)) ELSE {}
  BY PeopleThere, DeletedAt
<1>2. /\ \A T \in Tables : add.put[T] = (IF T = "roster" THEN rows ELSE {}) /\ add.drop[T] = {}
      /\ add.made["roster"] = Ids(rows)
  <2>1. add.made["roster"] = Ids(rows)
    <3> HIDE DEF rows
    <3> QED BY PeopleThere DEF Inserted, NoEffect
  <2> QED BY <2>1, PeopleThere, InsertedAt
<1>3. \A r \in rows : KeyRow(r) /\ r.conn = c /\ r.script = s
  BY DEF NewRow, KeyRow
<1>4. day # None /\ ~Blacklisted(d, c) => NewRow(n, c, s, day) \in rows
  OBVIOUS
<1>5. NewRow(n, c, s, day).conn = c /\ NewRow(n, c, s, day).script = s
  BY DEF NewRow
<1>6. e = Then(out, add)
  BY DEF schedule_at
<1> HIDE DEF out, rows, add, e
<1>7. \A T \in Tables :
        /\ \A r : r \in e.put[T] <=>
             r \in add.put[T] \/ (r \in out.put[T] /\ r.id \notin add.drop[T] /\ \A q \in add.put[T] : q.id # r.id)
        /\ \A i : i \in e.drop[T] <=> i \in out.drop[T] \/ i \in add.drop[T]
  BY <1>6, ThenIs
<1>8. \A i \in add.made["roster"] : i \in e.made["roster"]
  BY <1>6, PeopleThere DEF Then
<1>9. \A T \in {"contacts", "members", "blacklist"} : e.put[T] = {} /\ e.drop[T] = {}
  BY <1>1, <1>2, <1>7, PeopleThere
<1>10. (\A i : i \in e.drop["roster"] <=> i \in Ids(ScriptRows(d, c, s))) /\ (\A r : r \in e.put["roster"] <=> r \in rows)
  BY <1>1, <1>2, <1>7, PeopleThere
<1>11. \A r \in e.put["roster"] : r.id \in e.made["roster"]
  BY <1>2, <1>8, <1>10 DEF Ids
<1>12. Reschedules(d, e, {<<c, s, day>>})
  <2> DEFINE p == <<c, s, day>>
  <2>1. p[1] = c /\ p[2] = s /\ p[3] = day
    OBVIOUS
  <2> HIDE DEF p
  <2>2. Reschedules(d, e, {p})
    BY <1>3, <1>4, <1>5, <1>9, <1>10, <1>11, <2>1 DEF Reschedules, Ids
  <2> QED BY <2>2 DEF p
<1> QED BY <1>12 DEF e

LEMMA ScheduleEachReschedules ==
  ASSUME NEW d, NEW n, NEW due
  PROVE  Reschedules(d, ScheduleEach(d, n, due), due)
<1> DEFINE of(p) == schedule_at(d, n, p[1], p[2], p[3])
           e == ScheduleEach(d, n, due)
<1>1. \A T \in Tables : /\ e.drop[T] = UNION {of(p).drop[T] : p \in due}
                        /\ e.put[T] = UNION {of(p).put[T] : p \in due}
                        /\ e.made[T] = UNION {of(p).made[T] : p \in due}
  BY DEF ScheduleEach
<1>2. ASSUME NEW p \in due PROVE Reschedules(d, of(p), {<<p[1], p[2], p[3]>>})
  BY ScheduleAtReschedules
<1> HIDE DEF of, e
<1>3. ASSUME NEW p \in due
      PROVE  /\ \A T \in {"contacts", "members", "blacklist"} : of(p).put[T] = {} /\ of(p).drop[T] = {}
             /\ \A i \in of(p).drop["roster"] : \E r \in ScriptRows(d, p[1], p[2]) : r.id = i
             /\ \A r \in of(p).put["roster"] :
                  KeyRow(r) /\ r.id \in of(p).made["roster"] /\ r.conn = p[1] /\ r.script = p[2]
             /\ p[3] # None /\ ~Blacklisted(d, p[1]) =>
                  \E r \in of(p).put["roster"] : r.conn = p[1] /\ r.script = p[2]
  <2> DEFINE q == <<p[1], p[2], p[3]>>
  <2>1. q[1] = p[1] /\ q[2] = p[2] /\ q[3] = p[3]
    OBVIOUS
  <2>2. Reschedules(d, of(p), {q})
    BY <1>2
  <2> HIDE DEF q
  <2> QED BY <2>1, <2>2 DEF Reschedules
<1>4. \A T \in {"contacts", "members", "blacklist"} : e.put[T] = {} /\ e.drop[T] = {}
  BY <1>1, <1>3, PeopleThere
<1>5. \A i \in e.drop["roster"] : \E p \in due : \E r \in ScriptRows(d, p[1], p[2]) : r.id = i
  BY <1>1, <1>3, PeopleThere
<1>6. \A r \in e.put["roster"] :
        KeyRow(r) /\ r.id \in e.made["roster"] /\ \E p \in due : r.conn = p[1] /\ r.script = p[2]
  BY <1>1, <1>3, PeopleThere
<1>7. \A p \in due : p[3] # None /\ ~Blacklisted(d, p[1]) =>
        \E r \in e.put["roster"] : r.conn = p[1] /\ r.script = p[2]
  BY <1>1, <1>3, PeopleThere
<1>8. Reschedules(d, e, due)
  BY <1>4, <1>5, <1>6, <1>7 DEF Reschedules
<1> QED BY <1>8 DEF e

\* schedule_all leaves nobody off the roster, whatever it was.
LEMMA ScheduleAllIs ==
  ASSUME NEW d, NEW n, NEW c, NEW day, NEW W, Keyed(d), <<"roster", c>> \in W
  PROVE  LET e == schedule_all(d, n, c, day)
         IN /\ Confined(e, W) /\ e.put["contacts"] = {} /\ e.drop["contacts"] = {}
            /\ Covered(After(d, e), c, day)
<1> DEFINE when(s) == next_scheduled(s, day)
           due == {<<c, s, when(s)>> : s \in scripts_for(d, c)}
           e == schedule_all(d, n, c, day)
           x == After(d, e)
<1> HIDE DEF when
<1>1. e = ScheduleEach(d, n, due)
  BY DEF schedule_all, when
<1>2. \A p \in due : p[1] = c
  OBVIOUS
<1>3. ASSUME NEW s \in scripts_for(d, c) PROVE \E p \in due : p[1] = c /\ p[2] = s /\ p[3] = when(s)
  <2> DEFINE p == <<c, s, when(s)>>
  <2>1. p \in due /\ p[1] = c /\ p[2] = s /\ p[3] = when(s)
    OBVIOUS
  <2> QED BY <2>1
<1> HIDE DEF e, due
<1>4. Reschedules(d, e, due)
  BY <1>1, ScheduleEachReschedules
<1>5. Confined(e, W)
  BY <1>2, <1>4, ReschedulesConfined
<1>6. \A T \in Tables : \A r :
        r \in x[T] <=> \/ r \in e.put[T]
                       \/ r \in d[T] /\ r.id \notin e.drop[T] /\ \A q \in e.put[T] : q.id # r.id
  BY AfterIs
<1> HIDE DEF x
<1>7. /\ Contact(x, c) = Contact(d, c) /\ MembersOf(x, c) = MembersOf(d, c)
      /\ Select(x, "blacklist", c) = Select(d, "blacklist", c)
  BY <1>4, <1>6, PeopleThere DEF Reschedules, Contact, Select, MembersOf
<1>8. scripts_for(x, c) = scripts_for(d, c)
  BY <1>7, SameScripts
<1>9. ASSUME NEW s \in scripts_for(x, c), when(s) # None, ~Blacklisted(x, c) PROVE ScriptRows(x, c, s) # {}
  <2>1. ~Blacklisted(d, c)
    BY <1>7, <1>9 DEF Blacklisted
  <2>2. PICK p \in due : p[1] = c /\ p[2] = s /\ p[3] # None
    BY <1>3, <1>8, <1>9
  <2>3. PICK r \in e.put["roster"] : r.conn = c /\ r.script = s
    BY <1>4, <2>1, <2>2 DEF Reschedules
  <2> QED BY <1>6, <2>3, PeopleThere DEF ScriptRows, RowsOf
<1>10. Covered(x, c, day)
  BY <1>9 DEF Covered, when
<1> QED BY <1>4, <1>5, <1>10 DEF e, x, Reschedules

LEMMA MovedIs ==
  ASSUME NEW d, NEW c, NEW g, NEW W, Keyed(d), <<"roster", c>> \in W
  PROVE  LET e == Moved(d, c, g)
         IN Confined(e, W) /\ e.put["contacts"] = {} /\ e.drop["contacts"] = {}
<1> DEFINE old == {m \in d["members"] : m.conn = c}
           new == {[id |-> <<c, g>>, conn |-> c, group |-> g]}
           e == Moved(d, c, g)
<1>1. \A m \in old : <<"roster", m.id[1]>> \in W
  BY DEF Keyed
<1>2. \A m \in new : <<"roster", m.conn>> \in W /\ m.id[1] = m.conn
  OBVIOUS
<1>3. e = Then(Deleted("members", old), Inserted("members", new))
  BY DEF Moved
<1> HIDE DEF old, new, e
<1>4. Confined(e, W)
  BY <1>1, <1>2, <1>3, ConfinedBasic, ConfinedThen
<1>5. e.put["contacts"] = {} /\ e.drop["contacts"] = {}
  BY MovedWithin, PeopleThere DEF Within, e
<1> QED BY <1>4, <1>5 DEF e

LEMMA CoveredThen ==
  ASSUME NEW d, NEW e, NEW f, NEW c, NEW day, Covered(After(After(d, e), f), c, day)
  PROVE  Covered(After(d, Then(e, f)), c, day)
<1>1. \A T \in Tables : After(d, Then(e, f))[T] = After(After(d, e), f)[T]
  BY AfterThen
<1>2. SameFor(After(After(d, e), f), After(d, Then(e, f)), c)
  BY <1>1, PeopleThere DEF SameFor, Contact, Select, MembersOf, RowsOf
<1> QED BY <1>2, SameCovered

\* The registration of a contact that ends.
LEMMA RegisteredIs ==
  ASSUME NEW d, NEW n, NEW c, NEW answer \in Answers, NEW W, Keyed(d), <<"roster", c>> \in W
  PROVE  LET e == Registered(d, n, c, answer)
         IN /\ Confined(e, W) /\ e.drop["contacts"] = {}
            /\ \A k \in e.put["contacts"] : k.id = c /\ Graded(k)
            /\ Covered(After(d, e), c, today)
<1> DEFINE old == Contact(d, c)
           kept == {k.grade : k \in old \cap Listed(d)}
           grade == IF answer.grade # "" \/ kept = {} THEN answer.grade ELSE CHOOSE g \in kept : TRUE
           who == [id |-> c, active |-> TRUE, grade |-> grade]
           found == IF old = {} THEN Inserted("contacts", {who}) ELSE Saved("contacts", {who})
           move == Moved(d, c, match_group_response(answer.role))
           e == Then(found, move)
           f == schedule_all(After(d, e), n, c, today)
<1>1. grade \in DOMAIN GROUPS => grade \in {"p3", "p6"}
  <2>1. \A g \in kept : g \in DOMAIN GROUPS => g \in {"p3", "p6"}
    BY DEF Keyed, Graded, Contact, Select
  <2>2. answer.grade \in DOMAIN GROUPS => answer.grade \in {"p3", "p6"}
    BY ScheduledAssumption DEF ScheduledAssumption
  <2> HIDE DEF kept
  <2> QED BY <2>1, <2>2
<1> HIDE DEF grade
<1>2. Graded(who) /\ who.id = c
  BY <1>1 DEF Graded
<1>3. Registered(d, n, c, answer) = Then(e, f)
  BY Zenon DEF Registered, e, f, move, found, who, grade, kept, old
<1> HIDE DEF who, old
<1>4. Confined(found, W) /\ found.put["contacts"] = {who} /\ found.drop["contacts"] = {}
  BY ConfinedBasic, InsertedAt, SavedAt, PeopleThere
<1>5. Confined(move, W) /\ move.put["contacts"] = {} /\ move.drop["contacts"] = {}
  BY MovedIs
<1> HIDE DEF found, move
<1>6. Confined(e, W) /\ e.drop["contacts"] = {} /\ \A k \in e.put["contacts"] : k = who
  <2>1. \A k \in e.put["contacts"] : k = who
    BY <1>4, <1>5, ThenIs, PeopleThere
  <2>2. e.drop["contacts"] = {}
    BY <1>4, <1>5, ThenNothing, PeopleThere
  <2> QED BY <1>4, <1>5, <2>1, <2>2, ConfinedThen
<1> HIDE DEF e
<1>7. Keyed(After(d, e))
  BY <1>2, <1>6, KeyedAfter
<1>8. /\ Confined(f, W) /\ f.put["contacts"] = {} /\ f.drop["contacts"] = {}
      /\ Covered(After(After(d, e), f), c, today)
  BY <1>7, ScheduleAllIs
<1> HIDE DEF f
<1>9. Confined(Then(e, f), W) /\ Covered(After(d, Then(e, f)), c, today)
  BY <1>6, <1>8, ConfinedThen, CoveredThen
<1>10. Then(e, f).drop["contacts"] = {} /\ \A k \in Then(e, f).put["contacts"] : k = who
  <2>1. \A k \in Then(e, f).put["contacts"] : k = who
    BY <1>6, <1>8, ThenIs, PeopleThere
  <2>2. Then(e, f).drop["contacts"] = {}
    BY <1>6, <1>8, ThenNothing, PeopleThere
  <2> QED BY <2>1, <2>2
<1> QED BY <1>2, <1>3, <1>9, <1>10

-----------------------------------------------------------------------------
\* What a request does to the roster as it begins: it is about those whose rows
\* it writes; it saves the contacts of others as they are; and those it is about
\* stay on the roster, or it notes that it overlooks them.
ContactsSaved(t) ==
  /\ \A k \in t.effect.put["contacts"] : Graded(k) /\ <<"reporter", k.id>> \in t.writes
  /\ \A i \in t.effect.drop["contacts"] : <<"reporter", i>> \in t.writes

Covers(t, c) ==
  <<"roster", c>> \in t.writes /\ Covered(db, c, today) =>
    <<"overlooked", c>> \in t.notes \/ Covered(After(db, t.effect), c, today)

Prepared(t) ==
  /\ Confined(t.effect, t.writes) /\ ContactsSaved(t)
  /\ \A c : /\ <<"roster", c>> \in t.writes \/ Select(t.effect.put, "contacts", c) \in {{}, Contact(db, c)}
            /\ Covers(t, c)

LEMMA NoContacts ==
  ASSUME NEW e, e.put["contacts"] = {}, NEW c
  PROVE  Select(e.put, "contacts", c) = {}
BY DEF Select

LEMMA ReschedulesPrepared ==
  ASSUME Keyed(db), NEW t, NEW due, Reschedules(db, t.effect, due),
         \A p \in due : p[2] # AUTOREG /\ <<"roster", p[1]>> \in t.writes,
         \A p \in due : p[3] = None =>
           \/ next_scheduled(p[2], today) = None \/ p[2] \notin scripts_for(db, p[1])
           \/ <<"overlooked", p[1]>> \in t.notes
  PROVE  Prepared(t)
<1>1. Confined(t.effect, t.writes)
  BY ReschedulesConfined
<1>2. t.effect.put["contacts"] = {} /\ t.effect.drop["contacts"] = {}
  BY DEF Reschedules
<1>3. ASSUME NEW c PROVE Covers(t, c)
  <2> SUFFICES ASSUME Covered(db, c, today), <<"overlooked", c>> \notin t.notes
               PROVE  Covered(After(db, t.effect), c, today)
    BY DEF Covers
  <2>1. \A p \in due : p[2] # AUTOREG
    OBVIOUS
  <2>2. \A p \in due : p[1] = c /\ p[3] = None => next_scheduled(p[2], today) = None \/ p[2] \notin scripts_for(db, c)
    OBVIOUS
  <2> QED BY <2>1, <2>2, ReschedulesCovered
<1> QED BY <1>1, <1>2, <1>3, NoContacts DEF Prepared, ContactsSaved

\* Rows are deleted, and what comes after it schedules their scripts again.
LEMMA ReschedulesAfter ==
  ASSUME NEW d, NEW R \in SUBSET d["roster"], NEW f, NEW due,
         \A r \in R : \E p \in due : r.conn = p[1] /\ r.script = p[2],
         Reschedules(After(d, Deleted("roster", R)), f, due)
  PROVE  Reschedules(d, Then(Deleted("roster", R), f), due)
<1> DEFINE out == Deleted("roster", R)
           x == After(d, out)
           e == Then(out, f)
<1>1. \A T \in Tables : out.put[T] = {} /\ out.drop[T] = IF T = "roster" THEN Ids(R) ELSE {}
  BY PeopleThere, DeletedAt
<1> HIDE DEF out
<1>2. (\A r \in x["roster"] : r \in d["roster"]) /\ \A r : r \in x["blacklist"] <=> r \in d["blacklist"]
  BY <1>1, AfterIs, PeopleThere
<1>3. \A T \in Tables :
        /\ \A r : r \in e.put[T] <=>
             r \in f.put[T] \/ (r \in out.put[T] /\ r.id \notin f.drop[T] /\ \A q \in f.put[T] : q.id # r.id)
        /\ \A i : i \in e.drop[T] <=> i \in out.drop[T] \/ i \in f.drop[T]
        /\ \A i \in f.made[T] : i \in e.made[T]
  BY ThenIs DEF Then
<1> HIDE DEF x, e
<1>4. Reschedules(x, f, due)
  BY DEF x, out
<1>5. \A T \in {"contacts", "members", "blacklist"} : e.put[T] = {} /\ e.drop[T] = {}
  BY <1>1, <1>3, <1>4, PeopleThere DEF Reschedules
<1>6. \A i \in e.drop["roster"] : \E p \in due : \E r \in ScriptRows(d, p[1], p[2]) : r.id = i
  <2>1. \A i \in f.drop["roster"] : \E p \in due : \E r \in ScriptRows(d, p[1], p[2]) : r.id = i
    <3>1. \A c, s : ScriptRows(x, c, s) \subseteq ScriptRows(d, c, s)
      BY <1>2 DEF ScriptRows, RowsOf
    <3> QED BY <1>4, <3>1 DEF Reschedules
  <2>2. \A i \in out.drop["roster"] : \E p \in due : \E r \in ScriptRows(d, p[1], p[2]) : r.id = i
    <3>1. out.drop["roster"] = Ids(R)
      BY <1>1, PeopleThere
    <3>2. \A r \in R : \E p \in due : r \in ScriptRows(d, p[1], p[2])
      BY DEF ScriptRows, RowsOf
    <3> QED BY <3>1, <3>2 DEF Ids
  <2> QED BY <1>3, <2>1, <2>2, PeopleThere
<1>7. \A r : r \in e.put["roster"] <=> r \in f.put["roster"]
  BY <1>1, <1>3, PeopleThere
<1>8. \A r \in e.put["roster"] :
        KeyRow(r) /\ r.id \in e.made["roster"] /\ \E p \in due : r.conn = p[1] /\ r.script = p[2]
  BY <1>3, <1>4, <1>7, PeopleThere DEF Reschedules
<1>9. \A p \in due : p[3] # None /\ ~Blacklisted(d, p[1]) =>
        \E r \in e.put["roster"] : r.conn = p[1] /\ r.script = p[2]
  BY <1>2, <1>4, <1>7 DEF Reschedules, Blacklisted, Select
<1>10. Reschedules(d, e, due)
  BY <1>5, <1>6, <1>8, <1>9 DEF Reschedules
<1> QED BY <1>10 DEF e, out

\* A run ends.
LEMMA EndPrepared ==
  ASSUME RequestsOK, Keyed(db), NEW t, Begin(t), EndRun
  PROVE  Prepared(t)
<1> DEFINE out(row) == Deleted("roster", {row})
           next(row, answer) ==
             IF row.script = AUTOREG THEN Registered(After(db, out(row)), serial + 1, row.conn, answer)
             ELSE schedule(After(db, out(row)), serial + 1, row.conn, row.script, today)
           W(row) == About({row.conn}) \cup IF row.script = AUTOREG THEN Details({row.conn}) ELSE {}
           u(row, answer) == Request("end", row.id, "written", Ended(db, serial + 1, row, answer), {}, W(row), {})
<1>1. PICK row \in db["roster"], answer \in Answers : Begin(u(row, answer))
  BY Zenon DEF EndRun
<1>2. t = u(row, answer)
  BY <1>1, BeginOne
<1>3. Ended(db, serial + 1, row, answer) = Then(out(row), next(row, answer))
  BY Zenon DEF Ended
<1>4. t.effect = Then(out(row), next(row, answer)) /\ t.writes = W(row)
  <2> HIDE DEF W, out, next
  <2> QED BY <1>2, <1>3, RequestIs
<1>5. /\ <<"roster", row.conn>> \in t.writes /\ (row.script = AUTOREG => <<"reporter", row.conn>> \in t.writes)
      /\ \A c : <<"roster", c>> \in t.writes => c = row.conn
  BY <1>4 DEF About, Details
<1>6. CASE row.script # AUTOREG
  <2> DEFINE p == <<row.conn, row.script, next_scheduled(row.script, today)>>
             n == serial + 1
  <2>1. p[1] = row.conn /\ p[2] = row.script /\ p[3] = next_scheduled(row.script, today)
    OBVIOUS
  <2>2. Reschedules(After(db, out(row)), next(row, answer), {p})
    BY <1>6, ScheduleAtReschedules DEF schedule
  <2> HIDE DEF p, next
  <2> DEFINE due == {p}
             R == {row}
  <2>3. \A r \in R : \E q \in due : r.conn = q[1] /\ r.script = q[2]
    BY <2>1
  <2>4. \A q \in due : q[2] # AUTOREG /\ <<"roster", q[1]>> \in t.writes
    BY <1>5, <1>6, <2>1
  <2>5. \A q \in due : q[3] = None => next_scheduled(q[2], today) = None
    BY <2>1
  <2>6. Reschedules(db, t.effect, due)
    <3>1. R \in SUBSET db["roster"]
      OBVIOUS
    <3>2. Reschedules(After(db, Deleted("roster", R)), next(row, answer), due)
      BY <2>2
    <3>3. t.effect = Then(Deleted("roster", R), next(row, answer))
      BY <1>4
    <3> HIDE DEF due, R
    <3> QED BY <2>3, <3>1, <3>2, <3>3, ReschedulesAfter
  <2> HIDE DEF due
  <2> QED BY <2>4, <2>5, <2>6, ReschedulesPrepared
<1>7. CASE row.script = AUTOREG
  <2> DEFINE e == out(row)
             f == next(row, answer)
             V == t.writes
  <2>1. Confined(e, V) /\ e.put["contacts"] = {} /\ e.drop["contacts"] = {}
    <3>1. <<"roster", row.id[2]>> \in V
      BY <1>5 DEF Keyed, KeyRow
    <3> QED BY <3>1, ConfinedBasic, DeletedAt, PeopleThere
  <2>2. f = Registered(After(db, e), serial + 1, row.conn, answer)
    BY <1>7
  <2> HIDE DEF e, f, V
  <2>3. Keyed(After(db, e))
    BY <2>1, KeyedAfter
  <2>4. /\ Confined(f, V) /\ f.drop["contacts"] = {} /\ \A k \in f.put["contacts"] : k.id = row.conn /\ Graded(k)
        /\ Covered(After(After(db, e), f), row.conn, today)
    BY <1>5, <2>2, <2>3, RegisteredIs DEF V
  <2>5. t.effect = Then(e, f)
    BY <1>4 DEF e, f
  <2>6. Confined(t.effect, V) /\ Covered(After(db, t.effect), row.conn, today)
    BY <2>1, <2>4, <2>5, ConfinedThen, CoveredThen
  <2>7. t.effect.drop["contacts"] = {} /\ \A k \in t.effect.put["contacts"] : k.id = row.conn /\ Graded(k)
    <3>1. \A k \in t.effect.put["contacts"] : k \in f.put["contacts"]
      BY <2>1, <2>5, ThenIs, PeopleThere
    <3>2. t.effect.drop["contacts"] = {}
      BY <2>1, <2>4, <2>5, ThenNothing, PeopleThere
    <3> QED BY <2>4, <3>1, <3>2
  <2>8. \A c : c # row.conn => Select(t.effect.put, "contacts", c) = {}
    BY <2>7 DEF Select
  <2>9. \A c : Covers(t, c)
    BY <1>5, <2>6 DEF Covers
  <2> QED BY <1>5, <1>7, <2>6, <2>7, <2>8, <2>9 DEF Prepared, ContactsSaved, V
<1> QED BY <1>6, <1>7

LEMMA ReschedulePrepared ==
  ASSUME RequestsOK, Keyed(db), NEW t, Begin(t), RescheduleScripts
  PROVE  Prepared(t)
<1> DEFINE effect(s, day) == IF day # None THEN schedule_script_at(db, serial + 1, s, day)
                             ELSE schedule_script(db, serial + 1, s, today)
           u(s, day) == Request("reschedule", s, "written", effect(s, day), {}, About(Subscribers(db, s)), {})
<1>1. PICK s \in Rostered, day \in {None} \cup today .. LastDay : Begin(u(s, day))
  BY Zenon DEF RescheduleScripts
<1>2. t = u(s, day)
  BY <1>1, BeginOne
<1> DEFINE when == IF day # None THEN day ELSE next_scheduled(s, today)
           due == {<<c, s, when>> : c \in Subscribers(db, s)}
<1>3. t.effect = ScheduleEach(db, serial + 1, due) /\ t.writes = About(Subscribers(db, s))
  <2>1. effect(s, day) = ScheduleEach(db, serial + 1, due)
    BY DEF schedule_script_at, schedule_script
  <2> HIDE DEF effect, due
  <2> QED BY <1>2, <2>1, RequestIs
<1>4. \A p \in due : p[2] = s /\ p[3] = when /\ <<"roster", p[1]>> \in t.writes
  BY <1>3 DEF About
<1>5. s # AUTOREG
  BY DEF Rostered
<1>6. when = None => next_scheduled(s, today) = None
  OBVIOUS
<1> HIDE DEF due, when
<1>7. Reschedules(db, t.effect, due)
  BY <1>3, ScheduleEachReschedules
<1> QED BY <1>4, <1>5, <1>6, <1>7, ReschedulesPrepared

LEMMA NowPrepared ==
  ASSUME RequestsOK, Keyed(db), today \in Nat, NEW t, Begin(t), ScheduleNow
  PROVE  Prepared(t)
<1> DEFINE whose(name) == {k.id : k \in {x \in Listed(db) : name \in GroupsOf(db, x.id)}}
           due(s, name) == {<<c, s, today>> : c \in whose(name)}
           effect(s, name) == ScheduleEach(db, serial + 1, due(s, name))
           u(s, name) == Request("now", s, "written", effect(s, name), {}, About(whose(name)), {})
<1>1. PICK s \in Rostered, name \in {m.group : m \in db["members"]} : Begin(u(s, name))
  BY Zenon DEF ScheduleNow
<1>2. t = u(s, name)
  BY <1>1, BeginOne
<1> HIDE DEF whose
<1> DEFINE D == due(s, name)
<1>3. t.effect = ScheduleEach(db, serial + 1, D) /\ t.writes = About(whose(name))
  <2> HIDE DEF due
  <2> QED BY <1>2, RequestIs
<1>4. \A p \in D : p[2] = s /\ p[3] = today /\ <<"roster", p[1]>> \in t.writes
  BY <1>3 DEF About
<1>5. s # AUTOREG /\ today # None
  BY DEF Rostered, None
<1> HIDE DEF D
<1>6. Reschedules(db, t.effect, D)
  BY <1>3, ScheduleEachReschedules
<1> QED BY <1>4, <1>5, <1>6, ReschedulesPrepared

\* Rows that are put, beside what there is.
NewRows(n, C, s, day) == {NewRow(n, c, s, day) : c \in C}

LEMMA InsertedReschedules ==
  ASSUME NEW d, NEW n, NEW C, NEW s, NEW day, NEW due, \A c \in C : \E p \in due : p[1] = c /\ p[2] = s,
         \A p \in due : p[3] # None => p[1] \in C /\ p[2] = s
  PROVE  Reschedules(d, Inserted("roster", NewRows(n, C, s, day)), due)
<1> DEFINE R == NewRows(n, C, s, day)
           e == Inserted("roster", R)
<1>1. \A r \in R : KeyRow(r) /\ r.conn \in C /\ r.script = s
  BY DEF NewRows, NewRow, KeyRow
<1>2. \A c \in C : \E r \in R : r.conn = c /\ r.script = s
  <2> SUFFICES ASSUME NEW c \in C PROVE \E r \in R : r.conn = c /\ r.script = s
    OBVIOUS
  <2>1. NewRow(n, c, s, day) \in R
    BY DEF NewRows
  <2>2. NewRow(n, c, s, day).conn = c /\ NewRow(n, c, s, day).script = s
    BY DEF NewRow
  <2> QED BY <2>1, <2>2
<1> HIDE DEF R
<1>3. /\ \A T \in Tables : e.put[T] = (IF T = "roster" THEN R ELSE {}) /\ e.drop[T] = {}
      /\ e.made["roster"] = Ids(R)
  <2>1. e.made["roster"] = Ids(R)
    BY PeopleThere DEF Inserted, NoEffect
  <2> QED BY <2>1, PeopleThere, InsertedAt
<1> HIDE DEF e
<1>4. e.put["roster"] = R /\ e.drop["roster"] = {}
  BY <1>3, PeopleThere
<1>5. \A T \in {"contacts", "members", "blacklist"} : e.put[T] = {} /\ e.drop[T] = {}
  BY <1>3, PeopleThere
<1>6. \A r \in e.put["roster"] : KeyRow(r) /\ r.id \in e.made["roster"] /\ \E p \in due : r.conn = p[1] /\ r.script = p[2]
  BY <1>1, <1>3, <1>4 DEF Ids
<1>7. \A p \in due : p[3] # None => \E r \in e.put["roster"] : r.conn = p[1] /\ r.script = p[2]
  BY <1>2, <1>4
<1>8. Reschedules(d, e, due)
  BY <1>4, <1>5, <1>6, <1>7 DEF Reschedules
<1> QED BY <1>8 DEF e, R

LEMMA SpecialPrepared ==
  ASSUME RequestsOK, Keyed(db), today \in Nat, NEW t, Begin(t), SpecialScript
  PROVE  Prepared(t)
<1> DEFINE whose(chosen) == {k.id : k \in chosen}
           rows(chosen) == {NewRow(serial + 1, c, SPECIAL, today) : c \in whose(chosen)}
           u(chosen) == Request("special", SPECIAL, "written", Inserted("roster", rows(chosen)), {},
                                About(whose(chosen)), {})
<1>1. PICK chosen \in SUBSET Listed(db) : Begin(u(chosen))
  BY Zenon DEF SpecialScript
<1>2. t = u(chosen)
  BY <1>1, BeginOne
<1> DEFINE C == whose(chosen)
           due == {<<c, SPECIAL, today>> : c \in C}
           e == Inserted("roster", NewRows(serial + 1, C, SPECIAL, today))
<1>3. t.effect = e /\ t.writes = About(C)
  <2> HIDE DEF whose
  <2>1. t = Request("special", SPECIAL, "written", e, {}, About(C), {})
    BY <1>2 DEF NewRows
  <2> HIDE DEF e
  <2> QED BY <2>1, RequestIs
<1> HIDE DEF whose
<1>4. \A p \in due : p[1] \in C /\ p[2] = SPECIAL /\ p[3] = today /\ <<"roster", p[1]>> \in t.writes
  BY <1>3 DEF About
<1>5. \A c \in C : \E p \in due : p[1] = c /\ p[2] = SPECIAL
  <2> SUFFICES ASSUME NEW c \in C PROVE \E p \in due : p[1] = c /\ p[2] = SPECIAL
    OBVIOUS
  <2> DEFINE p == <<c, SPECIAL, today>>
  <2>1. p \in due /\ p[1] = c /\ p[2] = SPECIAL
    OBVIOUS
  <2> QED BY <2>1
<1> HIDE DEF due, C
<1>6. Reschedules(db, e, due)
  BY <1>4, <1>5, InsertedReschedules
<1>7. SPECIAL # AUTOREG /\ today # None
  BY SpecialAssumption DEF SpecialAssumption, None
<1> HIDE DEF e
<1>8. Reschedules(db, t.effect, due)
  BY <1>3, <1>6
<1> QED BY <1>4, <1>7, <1>8, ReschedulesPrepared

\* Whoever has a script of the roster is one of those whom it is scheduled for.
LEMMA SubscribersHave ==
  ASSUME NEW d, NEW c, NEW s \in scripts_for(d, c), Keyed(d)
  PROVE  c \in Subscribers(d, s)
<1> DEFINE names == {g \in DOMAIN GROUPS : s \in GROUPS[g]}
           all == names \cup IF names \cap {"p3", "p6"} # {} THEN {"Teachers"} ELSE {}
<1>1. \A g : s \in GroupScripts(g) => g \in names
  BY DEF GroupScripts
<1>2. \A m \in d["members"] : m.conn = c /\ m.group \in all => c \in Subscribers(d, s)
  BY DEF Subscribers
<1> HIDE DEF names
<1>3. CASE \E g \in GroupsOf(d, c) : s \in GroupScripts(g)
  BY <1>1, <1>2, <1>3 DEF GroupsOf
<1>4. CASE "Teachers" \in GroupsOf(d, c) /\ \E k \in Contact(d, c) : s \in GroupScripts(k.grade)
  <2>1. PICK k \in d["contacts"] : s \in GroupScripts(k.grade)
    BY <1>4 DEF Contact, Select
  <2>2. k.grade \in names /\ k.grade \in DOMAIN GROUPS
    BY <1>1, <2>1 DEF names
  <2>3. k.grade \in {"p3", "p6"}
    BY <2>2 DEF Keyed, Graded
  <2>4. "Teachers" \in all
    BY <2>2, <2>3
  <2> QED BY <1>2, <1>4, <2>4 DEF GroupsOf
<1> QED BY <1>3, <1>4 DEF scripts_for

LEMMA WaterPrepared ==
  ASSUME RequestsOK, Keyed(db), today \in Nat, NEW t, Begin(t), ScheduleWaterPolls
  PROVE  Prepared(t)
<1> DEFINE whose(chosen) == {k.id : k \in chosen}
           old(s) == {r \in db["roster"] : r.script = s}
           out(s) == Deleted("roster", old(s))
           rows(s, chosen, day) == {NewRow(serial + 1, c, s, day) : c \in whose(chosen)}
           add(s, chosen, day) == Inserted("roster", rows(s, chosen, day))
           notes(s, chosen) == {<<"overlooked", c>> : c \in Subscribers(db, s) \ whose(chosen)}
           W(s, chosen) == About(whose(chosen) \cup {r.conn : r \in old(s)})
           u(s, chosen, day) == Request("water", s, "written", Then(out(s), add(s, chosen, day)), {},
                                        W(s, chosen), notes(s, chosen))
<1>1. PICK s \in WATER, chosen \in SUBSET Listed(db), day \in today .. LastDay : Begin(u(s, chosen, day))
  BY Zenon DEF ScheduleWaterPolls
<1>2. t = u(s, chosen, day)
  BY <1>1, BeginOne
<1>3. /\ t.effect = Then(out(s), add(s, chosen, day)) /\ t.writes = W(s, chosen)
      /\ t.notes = notes(s, chosen)
  <2> HIDE DEF out, add, W, notes
  <2> QED BY <1>2, RequestIs
<1> DEFINE C == whose(chosen)
           R == old(s)
           due == {<<c, s, IF c \in C THEN day ELSE None>> : c \in C \cup {r.conn : r \in R}}
           f == Inserted("roster", NewRows(serial + 1, C, s, day))
<1> HIDE DEF whose
<1>4. R \in SUBSET db["roster"] /\ \A r \in R : r.script = s
  OBVIOUS
<1>5. \A p \in due : p[2] = s /\ <<"roster", p[1]>> \in t.writes /\ (p[3] = None \/ p[1] \in C)
                     /\ (p[3] = None => p[1] \notin C \/ day = None)
  BY <1>3 DEF About
<1>6. \A c \in C \cup {r.conn : r \in R} : \E p \in due : p[1] = c /\ p[2] = s
  <2> SUFFICES ASSUME NEW c \in C \cup {r.conn : r \in R} PROVE \E p \in due : p[1] = c /\ p[2] = s
    OBVIOUS
  <2> DEFINE p == <<c, s, IF c \in C THEN day ELSE None>>
  <2>1. p \in due /\ p[1] = c /\ p[2] = s
    OBVIOUS
  <2> QED BY <2>1
<1>7. t.effect = Then(Deleted("roster", R), f)
  BY <1>3 DEF NewRows
<1>8. \A c \in Subscribers(db, s) \ C : <<"overlooked", c>> \in t.notes
  BY <1>3
<1> HIDE DEF due, C, f
<1>9. Reschedules(After(db, Deleted("roster", R)), f, due)
  BY <1>5, <1>6, InsertedReschedules DEF f
<1>10. \A r \in R : \E p \in due : r.conn = p[1] /\ r.script = p[2]
  BY <1>4, <1>6
<1> HIDE DEF R, old
<1>11. Reschedules(db, t.effect, due)
  BY <1>4, <1>7, <1>9, <1>10, ReschedulesAfter
<1>12. s # AUTOREG
  BY SpecialAssumption DEF SpecialAssumption, Rostered
<1>13. day # None
  BY DaysAssumption DEF DaysAssumption, None
<1>14. \A p \in due : p[3] = None =>
         \/ next_scheduled(p[2], today) = None \/ p[2] \notin scripts_for(db, p[1])
         \/ <<"overlooked", p[1]>> \in t.notes
  BY <1>5, <1>8, <1>13, SubscribersHave
<1> QED BY <1>5, <1>11, <1>12, <1>14, ReschedulesPrepared

LEMMA ReporterPrepared ==
  ASSUME RequestsOK, Keyed(db), NEW t, Begin(t), EditReporter
  PROVE  Prepared(t)
<1> DEFINE new(answer) == match_group_response(answer.role)
           saved(k, answer) == [k EXCEPT !.grade = answer.grade]
           e(k, answer) == Then(Saved("contacts", {saved(k, answer)}), Moved(db, k.id, new(answer)))
           after(k, answer) == After(db, e(k, answer))
           all(k, answer) == schedule_all(after(k, answer), serial + 1, k.id, today)
           effect(k, answer, old) == IF new(answer) # old THEN Then(e(k, answer), all(k, answer)) ELSE e(k, answer)
           notes(k, answer, old) ==
             IF new(answer) = old /\ scripts_for(after(k, answer), k.id) # scripts_for(db, k.id)
             THEN {<<"overlooked", k.id>>} ELSE {}
           W(k) == About({k.id}) \cup Details({k.id})
           u(k, answer, old) == Request("reporter", k.id, "written", effect(k, answer, old), {},
                                        W(k), notes(k, answer, old))
<1>1. \E k \in Listed(db), answer \in Answers : \E old \in GroupsOf(db, k.id) : Begin(u(k, answer, old))
  BY Zenon DEF EditReporter
<1>2. PICK k, answer, old : k \in Listed(db) /\ answer \in Answers /\ t = u(k, answer, old)
  <2> HIDE DEF u
  <2> QED BY <1>1, BeginOne
<1> DEFINE c == k.id
           f == e(k, answer)
           g == all(k, answer)
           who == saved(k, answer)
<1>3. t.effect = effect(k, answer, old) /\ t.writes = W(k) /\ t.notes = notes(k, answer, old)
  <2> HIDE DEF effect, notes, W
  <2> QED BY <1>2, RequestIs
<1>4. /\ <<"roster", c>> \in t.writes /\ <<"reporter", c>> \in t.writes
      /\ \A x : <<"roster", x>> \in t.writes => x = c
  BY <1>3 DEF About, Details
<1>5. k \in db["contacts"] /\ k = [id |-> c, grade |-> k.grade, active |-> k.active]
  BY <1>2 DEF Listed, Keyed, Graded
<1>6. who = [id |-> c, grade |-> answer.grade, active |-> k.active]
  BY <1>5
<1>7. Graded(who) /\ who.id = c
  <2>1. answer.grade \in DOMAIN GROUPS => answer.grade \in {"p3", "p6"}
    BY <1>2, ScheduledAssumption DEF ScheduledAssumption
  <2> HIDE DEF who
  <2> QED BY <1>6, <2>1 DEF Graded
<1> HIDE DEF who
<1>8. Confined(f, t.writes) /\ f.drop["contacts"] = {} /\ \A q \in f.put["contacts"] : q = who
  <2> DEFINE begun == Saved("contacts", {who})
             move == Moved(db, c, new(answer))
             V == t.writes
  <2>1. f = Then(begun, move)
    BY DEF who
  <2> HIDE DEF begun, move, V
  <2>2. Confined(begun, V) /\ begun.put["contacts"] = {who} /\ begun.drop["contacts"] = {}
    BY ConfinedBasic, SavedAt, PeopleThere DEF begun
  <2>3. Confined(move, V) /\ move.put["contacts"] = {} /\ move.drop["contacts"] = {}
    BY <1>4, MovedIs DEF move, V
  <2> HIDE DEF f
  <2>4. \A q \in f.put["contacts"] : q = who
    BY <2>1, <2>2, <2>3, ThenIs, PeopleThere
  <2>5. f.drop["contacts"] = {}
    BY <2>1, <2>2, <2>3, ThenNothing, PeopleThere
  <2>6. Confined(f, V)
    BY <2>1, <2>2, <2>3, ConfinedThen
  <2> QED BY <2>4, <2>5, <2>6 DEF V
<1>9. f.put["roster"] = {} /\ f.drop["roster"] = {} /\ f.put["blacklist"] = {} /\ f.drop["blacklist"] = {}
  <2>1. Within(Saved("contacts", {saved(k, answer)}), {"contacts"}, {})
    BY PeopleThere, WithinBasic
  <2>2. Within(f, {"contacts"} \cup {"members"}, {} \cup {"members"})
    BY <2>1, MovedWithin, WithinThen
  <2> HIDE DEF f
  <2> QED BY <2>2, PeopleThere DEF Within
<1> HIDE DEF c
<1>10. Confined(t.effect, t.writes) /\ t.effect.drop["contacts"] = {} /\ \A q \in t.effect.put["contacts"] : q = who
  <2>1. CASE new(answer) # old
    <3>1. t.effect = Then(f, g)
      BY <1>3, <2>1
    <3>2. Confined(g, t.writes) /\ g.put["contacts"] = {} /\ g.drop["contacts"] = {}
      <4>1. Keyed(After(db, f))
        BY <1>7, <1>8, KeyedAfter
      <4> HIDE DEF f
      <4>2. g = schedule_all(After(db, f), serial + 1, c, today)
        BY DEF f, c
      <4> HIDE DEF g
      <4> QED BY <1>4, <4>1, <4>2, ScheduleAllIs
    <3> HIDE DEF f, g
    <3>3. \A q \in Then(f, g).put["contacts"] : q = who
      BY <1>8, <3>2, ThenIs, PeopleThere
    <3>4. Then(f, g).drop["contacts"] = {}
      BY <1>8, <3>2, ThenNothing, PeopleThere
    <3> QED BY <1>8, <3>1, <3>2, <3>3, <3>4, ConfinedThen
  <2>2. CASE new(answer) = old
    BY <1>3, <1>8, <2>2
  <2> QED BY <2>1, <2>2
<1>11. ASSUME <<"overlooked", c>> \notin t.notes, Covered(db, c, today) PROVE Covered(After(db, t.effect), c, today)
  <2>1. CASE new(answer) # old
    <3>1. t.effect = Then(f, g)
      BY <1>3, <2>1
    <3>2. Covered(After(After(db, f), g), c, today)
      <4>1. Keyed(After(db, f))
        BY <1>7, <1>8, KeyedAfter
      <4> HIDE DEF f
      <4>2. g = schedule_all(After(db, f), serial + 1, c, today)
        BY DEF f, c
      <4> HIDE DEF g
      <4> QED BY <1>4, <4>1, <4>2, ScheduleAllIs
    <3> HIDE DEF f, g
    <3> QED BY <3>1, <3>2, CoveredThen
  <2>2. CASE new(answer) = old
    <3> DEFINE x == After(db, f)
    <3>1. t.effect = f
      BY <1>3, <2>2
    <3>2. scripts_for(x, c) = scripts_for(db, c)
      BY <1>3, <1>11, <2>2 DEF c
    <3> HIDE DEF f
    <3>3. \A r : (r \in x["roster"] <=> r \in db["roster"]) /\ (r \in x["blacklist"] <=> r \in db["blacklist"])
      BY <1>9, AfterIs, PeopleThere
    <3> HIDE DEF x
    <3>4. \A s : ScriptRows(x, c, s) = ScriptRows(db, c, s)
      BY <3>3 DEF ScriptRows, RowsOf
    <3>5. Blacklisted(db, c) <=> Blacklisted(x, c)
      BY <3>3 DEF Blacklisted, Select
    <3>6. Contact(db, c) # {}
      BY <1>5 DEF Contact, Select, c
    <3>7. Covered(x, c, today)
      BY <1>11, <3>2, <3>4, <3>5, <3>6 DEF Covered, Registering
    <3> QED BY <3>1, <3>7 DEF x
  <2> QED BY <2>1, <2>2
<1> HIDE DEF f, g, effect, notes, W
<1>12. ContactsSaved(t)
  BY <1>4, <1>7, <1>10 DEF ContactsSaved
<1>13. \A x : x # c => Select(t.effect.put, "contacts", x) = {}
  BY <1>7, <1>10 DEF Select
<1>14. \A x : Covers(t, x)
  BY <1>4, <1>11 DEF Covers
<1> QED BY <1>4, <1>10, <1>12, <1>13, <1>14 DEF Prepared

\* A connection that an effect may not be about has the same after it.
LEMMA ConfinedCovered ==
  ASSUME NEW d, NEW e, NEW W, NEW c, NEW day, Keyed(d), Confined(e, W), <<"roster", c>> \notin W,
         Select(e.put, "contacts", c) \in {{}, Contact(d, c)}, Covered(d, c, day)
  PROVE  Covered(After(d, e), c, day)
<1>1. SameFor(After(d, e), d, c)
  BY ConfinedSame
<1>2. SameFor(d, After(d, e), c)
  BY <1>1 DEF SameFor
<1> QED BY <1>2, SameCovered

LEMMA AddPrepared ==
  ASSUME RequestsOK, Keyed(db), NEW t, Begin(t), AddConnections
  PROVE  Prepared(t)
<1> DEFINE fresh(c, others) == {x \in {c} \cup others : Contact(db, x) = {}}
           out(c) == Deleted("roster", RowsOf(db, c))
           rows(c, others) == {NewRow(serial + 1, x, AUTOREG, today) : x \in fresh(c, others)}
           add(c, others) == Inserted("roster", rows(c, others))
           notes(c, others) ==
             {<<"doubled", x>> : x \in {y \in fresh(c, others) \cap others : Registering(db, y)}}
             \cup {<<"overlooked", x>> : x \in {c} \ fresh(c, others)}
           u(c, others) == Request("add", c, "written", Then(out(c), add(c, others)),
                                   {}, About({c} \cup others), notes(c, others))
<1>1. \E c \in Connections : \E others \in SUBSET {x \in Connections \ {c} : ~IsRemoved(db, x)} :
        Begin(u(c, others))
  BY Zenon DEF AddConnections
<1>2. PICK c, others : t = u(c, others)
  <2> HIDE DEF u
  <2> QED BY <1>1, BeginOne
<1> DEFINE F == fresh(c, others)
           N == notes(c, others)
           R == rows(c, others)
           e == out(c)
           f == add(c, others)
           V == About({c} \cup F)
<1>3. t.effect = Then(e, f) /\ t.notes = N /\ t.writes = About({c} \cup others)
  <2> HIDE DEF e, f, N
  <2>1. t = Request("add", c, "written", Then(e, f), {}, About({c} \cup others), N)
    BY <1>2 DEF e, f, N
  <2> QED BY <2>1, RequestIs
<1>4. \A x \in F : Contact(db, x) = {} /\ x \in {c} \cup others
  OBVIOUS
<1>5. c \notin F => <<"overlooked", c>> \in t.notes
  BY <1>3
<1> HIDE DEF fresh
<1>6. \A r \in R : KeyRow(r) /\ r.conn \in F
  BY DEF NewRow, KeyRow
<1> HIDE DEF F, N, R
<1>7. ASSUME NEW U, \A x \in {c} \cup F : <<"roster", x>> \in U PROVE Confined(Then(e, f), U)
  <2>1. \A r \in RowsOf(db, c) : <<"roster", r.id[2]>> \in U
    BY <1>7 DEF RowsOf, Keyed, KeyRow
  <2>2. Confined(e, U)
    BY <2>1, ConfinedBasic
  <2>3. Confined(f, U)
    <3>1. \A r \in R : <<"roster", r.conn>> \in U /\ KeyRow(r)
      BY <1>6, <1>7
    <3>2. Confined(Inserted("roster", R), U)
      BY <3>1, ConfinedBasic
    <3> QED BY <3>2 DEF R
  <2> HIDE DEF e, f
  <2> QED BY <2>2, <2>3, ConfinedThen
<1>8. t.effect.put["contacts"] = {} /\ t.effect.drop["contacts"] = {}
  <2>1. e.put["contacts"] = {} /\ e.drop["contacts"] = {}
    BY PeopleThere, DeletedAt
  <2>2. f.put["contacts"] = {} /\ f.drop["contacts"] = {}
    BY PeopleThere, InsertedAt
  <2> HIDE DEF e, f
  <2> QED BY <1>3, <2>1, <2>2, PeopleThere, ThenNothing
<1>9. Confined(t.effect, V) /\ Confined(t.effect, t.writes)
  <2>1. \A x \in {c} \cup F : <<"roster", x>> \in V /\ <<"roster", x>> \in t.writes
    BY <1>3, <1>4 DEF About
  <2> HIDE DEF V, e, f
  <2> QED BY <1>3, <1>7, <2>1
<1> DEFINE g == t.effect
           x == After(db, g)
<1>10. ASSUME NEW y, Covered(db, y, today), <<"overlooked", y>> \notin t.notes PROVE Covered(x, y, today)
  <2>1. CASE y \in F
    <3>1. \A k \in x["contacts"] : k \in db["contacts"]
      <4> HIDE DEF g
      <4> QED BY <1>8, AfterIs, PeopleThere DEF g
    <3>2. Contact(x, y) = {}
      BY <1>4, <2>1, <3>1 DEF Contact, Select
    <3> QED BY <3>2 DEF Covered
  <2>2. CASE y \notin F
    <3>1. <<"roster", y>> \notin V
      BY <1>5, <1>10, <2>2 DEF About
    <3>2. Select(g.put, "contacts", y) = {}
      BY <1>8, NoContacts
    <3> HIDE DEF V, g
    <3> QED BY <1>9, <1>10, <3>1, <3>2, ConfinedCovered DEF g
  <2> QED BY <2>1, <2>2
<1>11. \A y : Covers(t, y)
  BY <1>10 DEF Covers
<1> QED BY <1>8, <1>9, <1>11, NoContacts DEF Prepared, ContactsSaved

LEMMA RemovePrepared ==
  ASSUME RequestsOK, Keyed(db), NEW t, Begins(t), t.kind = "remove"
  PROVE  Prepared(t)
<1> DEFINE e == t.effect
           c == t.on
           x == After(db, e)
<1>1. /\ \A T \in Tables \ {"labels"} : e.drop[T] = Ids(OfConnection(db, T, c))
      /\ t.writes = About({c}) \cup Details({c}) \cup {<<"person", c>>}
  BY RemovalIs
<1>2. \A T \in Tables : T # "tombstones" => e.put[T] = {}
  BY DEF Begins, Own, Within, Puts
<1> HIDE DEF e, c
<1>3. e.put["roster"] = {} /\ e.put["members"] = {} /\ e.put["blacklist"] = {} /\ e.put["contacts"] = {}
  BY <1>2, PeopleThere
<1>4. e.drop["roster"] = Ids(RowsOf(db, c)) /\ e.drop["members"] = Ids({m \in db["members"] : m.conn = c})
  BY <1>1, PeopleThere DEF OfConnection, RowsOf
<1>5. e.drop["contacts"] = Ids(Select(db, "contacts", c)) /\ e.drop["blacklist"] = Ids(Select(db, "blacklist", c))
  BY <1>1, PeopleThere DEF OfConnection
<1>6. /\ <<"roster", c>> \in t.writes /\ <<"reporter", c>> \in t.writes
      /\ \A y : <<"roster", y>> \in t.writes => y = c
  BY <1>1 DEF About, Details
<1>7. Confined(e, t.writes)
  <2>1. \A i \in e.drop["roster"] : i[2] = c
    BY <1>4 DEF Ids, RowsOf, Keyed, KeyRow
  <2>2. \A i \in e.drop["members"] : i[1] = c
    BY <1>4 DEF Ids, Keyed
  <2>3. \A i \in e.drop["blacklist"] \cup e.drop["contacts"] : i = c
    BY <1>5 DEF Ids, Select
  <2> QED BY <1>3, <1>6, <2>1, <2>2, <2>3 DEF Confined
<1>8. Contact(x, c) = {}
  <2>1. \A k \in x["contacts"] : k \in db["contacts"] /\ k.id \notin e.drop["contacts"]
    BY <1>3, AfterIs, PeopleThere
  <2> HIDE DEF x
  <2> QED BY <1>5, <2>1 DEF Contact, Select, Ids
<1>9. \A y : Covers(t, y)
  BY <1>6, <1>8 DEF Covers, Covered, e
<1>10. ContactsSaved(t)
  BY <1>3, <1>5, <1>6 DEF ContactsSaved, Ids, Select, e
<1>11. \A y : Select(e.put, "contacts", y) = {}
  BY <1>3, NoContacts
<1> QED BY <1>7, <1>9, <1>10, <1>11 DEF Prepared, e

\* What the words do to the roster and the contact of their sender.
Said(f, c, W) ==
  /\ Confined(f, W) /\ f.drop["contacts"] = {} /\ \A k \in f.put["contacts"] : k.id = c /\ Graded(k)
  /\ Covered(db, c, today) => Covered(After(db, f), c, today)

LEMMA NothingSaid ==
  ASSUME Keyed(db), NEW c, NEW W
  PROVE  Said(NoEffect, c, W)
<1> DEFINE e == NoEffect
<1>1. e.put["contacts"] = {} /\ e.drop["contacts"] = {}
  BY NoEffectAt, PeopleThere
<1>2. Confined(e, W) /\ Confined(e, {})
  BY ConfinedBasic
<1> HIDE DEF e
<1>3. Select(e.put, "contacts", c) = {}
  BY <1>1, NoContacts
<1>4. Covered(db, c, today) => Covered(After(db, e), c, today)
  BY <1>2, <1>3, ConfinedCovered
<1>5. Said(e, c, W)
  BY <1>1, <1>2, <1>4 DEF Said
<1> QED BY <1>5 DEF e

LEMMA ActiveSet ==
  ASSUME NEW k, NEW c, NEW b, k = [id |-> c, grade |-> k.grade, active |-> k.active]
  PROVE  [k EXCEPT !.active = b] = [id |-> c, grade |-> k.grade, active |-> b]
OBVIOUS

LEMMA QuitSaid ==
  ASSUME Keyed(db), NEW c, NEW W, <<"roster", c>> \in W
  PROVE  Said(Quit(db, c), c, W)
<1> DEFINE mark == [id |-> c]
           quit == Inserted("blacklist", {mark})
           gone == Deleted("roster", RowsOf(db, c))
           inactive == {[k EXCEPT !.active = FALSE] : k \in Contact(db, c)}
           save == Saved("contacts", inactive)
           e == Then(quit, Then(gone, save))
<1>1. Quit(db, c) \in {NoEffect, e}
  BY Zenon DEF Quit
<1>2. \A k \in inactive : k.id = c /\ Graded(k)
  <2> SUFFICES ASSUME NEW k \in Contact(db, c)
               PROVE  [k EXCEPT !.active = FALSE].id = c /\ Graded([k EXCEPT !.active = FALSE])
    OBVIOUS
  <2>1. k.id = c /\ k \in db["contacts"] /\ Graded(k)
    BY DEF Contact, Select, Keyed
  <2> DEFINE q == [k EXCEPT !.active = FALSE]
  <2>2. q = [id |-> c, grade |-> k.grade, active |-> FALSE]
    <3>1. k = [id |-> c, grade |-> k.grade, active |-> k.active]
      BY <2>1 DEF Graded
    <3> QED BY <3>1, ActiveSet
  <2>3. k.grade \in DOMAIN GROUPS => k.grade \in {"p3", "p6"}
    BY <2>1 DEF Graded
  <2> HIDE DEF q
  <2>4. q.id = c /\ Graded(q)
    BY <2>2, <2>3 DEF Graded
  <2> QED BY <2>4 DEF q
<1>3. mark.id = c
  OBVIOUS
<1> HIDE DEF mark, inactive
<1>4. Confined(quit, W)
  <2>1. \A y \in {mark} : <<"roster", y.id>> \in W
    BY <1>3
  <2> QED BY <2>1, ConfinedBasic
<1>5. Confined(gone, W)
  <2>1. \A r \in RowsOf(db, c) : <<"roster", r.id[2]>> \in W
    BY DEF RowsOf, Keyed, KeyRow
  <2> QED BY <2>1, ConfinedBasic
<1>6. Confined(save, W)
  BY ConfinedBasic
<1>7. /\ quit.put["contacts"] = {} /\ quit.drop["contacts"] = {} /\ quit.put["blacklist"] = {mark}
      /\ gone.put["contacts"] = {} /\ gone.drop["contacts"] = {} /\ gone.put["blacklist"] = {}
      /\ gone.drop["blacklist"] = {}
      /\ save.put["contacts"] = inactive /\ save.drop["contacts"] = {} /\ save.put["blacklist"] = {}
      /\ save.drop["blacklist"] = {}
  BY PeopleThere, InsertedAt, DeletedAt, SavedAt
<1> HIDE DEF quit, gone, save
<1> DEFINE g == Then(gone, save)
<1>8. /\ Confined(g, W) /\ g.drop["contacts"] = {} /\ g.put["blacklist"] = {} /\ g.drop["blacklist"] = {}
      /\ \A k \in g.put["contacts"] : k \in inactive
  <2>1. \A k \in g.put["contacts"] : k \in inactive
    BY <1>7, PeopleThere, ThenIs
  <2>2. g.drop["contacts"] = {} /\ g.put["blacklist"] = {} /\ g.drop["blacklist"] = {}
    BY <1>7, PeopleThere, ThenNothing
  <2> QED BY <1>5, <1>6, <2>1, <2>2, ConfinedThen
<1>9. e = Then(quit, g)
  OBVIOUS
<1> HIDE DEF g, e
<1>10. /\ Confined(e, W) /\ e.drop["contacts"] = {} /\ \A k \in e.put["contacts"] : k \in inactive
       /\ mark \in e.put["blacklist"]
  <2>1. \A k \in e.put["contacts"] : k \in inactive
    BY <1>7, <1>8, <1>9, PeopleThere, ThenIs
  <2>2. e.drop["contacts"] = {}
    BY <1>7, <1>8, <1>9, PeopleThere, ThenNothing
  <2>3. mark \in e.put["blacklist"]
    BY <1>7, <1>8, <1>9, PeopleThere, ThenIs
  <2> QED BY <1>4, <1>8, <1>9, <2>1, <2>2, <2>3, ConfinedThen
<1>11. Covered(After(db, e), c, today)
  <2> DEFINE x == After(db, e)
  <2>1. mark \in x["blacklist"]
    BY <1>10, AfterIs, PeopleThere
  <2> HIDE DEF x
  <2>2. Blacklisted(x, c)
    BY <1>3, <2>1 DEF Blacklisted, Select
  <2>3. Covered(x, c, today)
    BY <2>2 DEF Covered
  <2> QED BY <2>3 DEF x
<1>12. Said(e, c, W)
  BY <1>2, <1>10, <1>11 DEF Said
<1> QED BY <1>1, <1>12, NothingSaid

LEMMA JoinSaid ==
  ASSUME Keyed(db), NEW c, NEW n, NEW W, <<"roster", c>> \in W
  PROVE  Said(Join(db, n, c), c, W)
<1> DEFINE rows == {NewRow(n, c, AUTOREG, today)}
           add == Inserted("roster", rows)
           starts == IF Registering(db, c) THEN NoEffect ELSE add
           here == Deleted("blacklist", Select(db, "blacklist", c))
           e == Then(here, starts)
           x == After(db, starts)
           y == After(db, e)
<1>1. \/ Contact(db, c) = {} /\ Join(db, n, c) = starts
      \/ Contact(db, c) # {} /\ Join(db, n, c) \in {e, NoEffect}
  <2>1. Join(db, n, c) = CASE Contact(db, c) = {} -> starts
                           [] Contact(db, c) # {} /\ Blacklisted(db, c) -> e
                           [] OTHER -> NoEffect
    BY Zenon DEF Join, Registration
  <2> HIDE DEF starts, e
  <2> QED BY <2>1
<1>2. \A r \in rows : <<"roster", r.conn>> \in W /\ KeyRow(r) /\ r.conn = c /\ r.script = AUTOREG
  BY DEF NewRow, KeyRow
<1>3. \E r \in rows : TRUE
  OBVIOUS
<1> HIDE DEF rows
<1>4. /\ add.put["contacts"] = {} /\ add.drop["contacts"] = {} /\ add.put["roster"] = rows
      /\ add.drop["roster"] = {} /\ Confined(add, W)
  <2>1. Confined(add, W)
    BY <1>2, ConfinedBasic
  <2> QED BY <2>1, PeopleThere, InsertedAt
<1> HIDE DEF add
<1>5. /\ starts.put["contacts"] = {} /\ starts.drop["contacts"] = {} /\ starts.drop["roster"] = {}
      /\ Confined(starts, W) 
      /\ \/ Registering(db, c) /\ starts.put["roster"] = {}
         \/ starts.put["roster"] = rows
  <2>1. CASE Registering(db, c)
    BY <2>1, NoEffectAt, ConfinedBasic, PeopleThere
  <2>2. CASE ~Registering(db, c)
    BY <1>4, <2>2
  <2> QED BY <2>1, <2>2
<1> HIDE DEF starts
<1>6. CASE Contact(db, c) = {}
  <2>1. Contact(x, c) = {}
    <3>1. \A k \in x["contacts"] : k \in db["contacts"]
      BY <1>5, AfterIs, PeopleThere
    <3> QED BY <1>6, <3>1 DEF Contact, Select
  <2>2. Covered(x, c, today)
    BY <2>1 DEF Covered
  <2>3. Said(starts, c, W)
    BY <1>5, <2>2 DEF Said
  <2> QED BY <1>1, <1>6, <2>3
<1>7. Said(e, c, W)
  <2>1. /\ here.put["contacts"] = {} /\ here.drop["contacts"] = {} /\ here.put["roster"] = {}
        /\ here.drop["roster"] = {} /\ Confined(here, W)
    <3>1. \A k \in Select(db, "blacklist", c) : <<"roster", k.id>> \in W
      BY DEF Select
    <3>2. Confined(here, W)
      BY <3>1, ConfinedBasic
    <3> QED BY <3>2, PeopleThere, DeletedAt
  <2> HIDE DEF here
  <2>2. e.put["contacts"] = {} /\ e.drop["contacts"] = {} /\ e.drop["roster"] = {} /\ Confined(e, W)
    BY <1>5, <2>1, ThenNothing, ConfinedThen, PeopleThere
  <2>3. \A r : r \in e.put["roster"] <=> r \in starts.put["roster"]
    BY <1>5, <2>1, ThenIs, PeopleThere
  <2> HIDE DEF e
  <2>4. \A r : r \in y["roster"] <=>
          r \in e.put["roster"] \/ (r \in db["roster"] /\ r.id \notin e.drop["roster"]
                                    /\ \A q \in e.put["roster"] : q.id # r.id)
    BY AfterIs, PeopleThere
  <2> HIDE DEF y
  <2>5. Registering(y, c)
    <3>1. CASE starts.put["roster"] = rows
      <4>1. PICK r \in rows : TRUE
        BY <1>3
      <4>2. r \in y["roster"] /\ r.conn = c /\ r.script = AUTOREG
        BY <1>2, <2>3, <2>4, <3>1, <4>1
      <4> QED BY <4>2 DEF Registering, ScriptRows, RowsOf
    <3>2. CASE Registering(db, c) /\ starts.put["roster"] = {}
      <4>1. \A r : r \in y["roster"] <=> r \in db["roster"]
        BY <2>2, <2>3, <2>4, <3>2
      <4> QED BY <3>2, <4>1 DEF Registering, ScriptRows, RowsOf
    <3> QED BY <1>5, <3>1, <3>2
  <2>6. Covered(y, c, today)
    BY <2>5 DEF Covered
  <2> QED BY <2>2, <2>6 DEF Said, y
<1> QED BY <1>1, <1>6, <1>7, NothingSaid

LEMMA MessagePrepared ==
  ASSUME RequestsOK, Keyed(db), NEW t, Begins(t), t.kind = "message"
  PROVE  Prepared(t)
<1>1. PICK c, text, out : out \in Education(db, serial + 1, c, text) /\ t.on = [conn |-> c, text |-> text]
                     /\ t.writes = Topics(c, text) /\ t.effect = Then(update_last_reporting_date(db, c), out.effect)
  <2>1. \E c \in Connections, text \in Texts : \E out \in Education(db, serial + 1, c, text) :
          /\ ~IsRemoved(db, c) /\ t.on = [conn |-> c, text |-> text]
          /\ t.place = IF out.handled THEN "written" ELSE "poll"
          /\ t.effect = Then(update_last_reporting_date(db, c), out.effect)
          /\ t.reads = {"rules", "categories"} \X PollIds /\ t.writes = Topics(c, text) /\ t.notes = {}
    BY MessageBegins
  <2> QED BY <2>1
<1> DEFINE own == Contact(db, c)
           save == Saved("contacts", own)
           f == out.effect
           W == t.writes
           e == Then(save, f)
           x == After(db, save)
<1>2. t.effect = e
  BY <1>1 DEF update_last_reporting_date
<1>3. <<"reporter", c>> \in W /\ \A y : <<"roster", y>> \in W => y = c
  BY <1>1 DEF Topics, Details, About
<1>4. \A k \in own : k.id = c /\ Graded(k)
  BY DEF Contact, Select, Keyed
<1>5. Said(f, c, W)
  <2>1. CASE text.word \in {"join", "quit"}
    <3>1. <<"roster", c>> \in W
      BY <1>1, <2>1 DEF Topics, KindOf, About
    <3>2. f = Quit(db, c) \/ f = Join(db, serial + 1, c)
      BY <1>1, <2>1 DEF Education
    <3> HIDE DEF f, W
    <3> QED BY <3>1, <3>2, QuitSaid, JoinSaid
  <2>2. CASE text.word \notin {"join", "quit"}
    <3>1. f = NoEffect
      BY <1>1, <2>2 DEF Education
    <3> HIDE DEF f, W
    <3> QED BY <3>1, NothingSaid
  <2> QED BY <2>1, <2>2
<1>6. save.put["contacts"] = own /\ save.drop["contacts"] = {} /\ Confined(save, W) /\ Confined(save, {})
  BY SavedAt, PeopleThere, ConfinedBasic
<1>7. Select(save.put, "contacts", c) = own
  BY <1>4, <1>6 DEF Select
<1>8. SameFor(x, db, c)
  <2> HIDE DEF save
  <2>1. <<"roster", c>> \notin {}
    OBVIOUS
  <2>2. Select(save.put, "contacts", c) \in {{}, Contact(db, c)}
    BY <1>7
  <2> QED BY <1>6, <2>1, <2>2, ConfinedSame
<1> HIDE DEF f, W, own
<1>9. e.drop["contacts"] = {} /\ \A k \in e.put["contacts"] : k.id = c /\ Graded(k)
  <2>1. \A k \in e.put["contacts"] : k \in f.put["contacts"] \/ k \in save.put["contacts"]
    BY ThenIs, PeopleThere
  <2>2. e.drop["contacts"] = {}
    BY <1>5, <1>6, ThenNothing, PeopleThere DEF Said
  <2> HIDE DEF save
  <2> QED BY <1>4, <1>5, <1>6, <2>1, <2>2 DEF Said
<1>10. Confined(e, W)
  <2> HIDE DEF save
  <2> QED BY <1>5, <1>6, ConfinedThen DEF Said
<1>11. ASSUME Covered(db, c, today) PROVE Covered(After(db, e), c, today)
  <2> HIDE DEF save
  <2>1. SameFor(After(x, f), After(db, f), c)
    <3> HIDE DEF x
    <3> QED BY <1>8, AfterSameFor
  <2>2. SameFor(After(db, f), After(x, f), c)
    BY <2>1 DEF SameFor
  <2>3. Covered(After(x, f), c, today)
    <3> HIDE DEF x
    <3> QED BY <1>5, <1>11, <2>2, SameCovered DEF Said
  <2> QED BY <2>3, CoveredThen
<1>12. ASSUME <<"roster", c>> \notin W PROVE Select(e.put, "contacts", c) \in {{}, Contact(db, c)}
  <2>1. f = NoEffect
    <3>1. text.word \notin {"join", "quit"}
      BY <1>1, <1>12 DEF Topics, KindOf, About, W
    <3> QED BY <1>1, <3>1 DEF Education, f
  <2>2. e.put["contacts"] = save.put["contacts"]
    <3>1. f.put["contacts"] = {} /\ f.drop["contacts"] = {}
      BY <2>1, NoEffectAt, PeopleThere
    <3> HIDE DEF save
    <3> QED BY <3>1, ThenUntouched, PeopleThere
  <2> HIDE DEF save, e
  <2> QED BY <1>7, <2>2 DEF Select, own
<1> HIDE DEF e
<1>13. ContactsSaved(t)
  BY <1>2, <1>3, <1>9 DEF ContactsSaved, W
<1>14. \A y : Covers(t, y)
  BY <1>2, <1>3, <1>11 DEF Covers, W
<1>15. \A y : <<"roster", y>> \in t.writes \/ Select(t.effect.put, "contacts", y) \in {{}, Contact(db, y)}
  <2>1. \A y : y # c => Select(e.put, "contacts", y) = {}
    BY <1>9 DEF Select
  <2> QED BY <1>2, <1>12, <2>1 DEF W
<1> QED BY <1>2, <1>10, <1>13, <1>14, <1>15 DEF Prepared, W

\* All other requests.
LEMMA OtherPrepared ==
  ASSUME Keyed(db), NEW t, Own(t),
         t.kind \notin {"message", "end", "add", "reporter", "reschedule", "now", "special", "water", "remove"}
  PROVE  Prepared(t)
<1> DEFINE e == t.effect
           U == {"roster", "contacts", "members", "blacklist"}
<1>1. \A T \in U : T \notin Puts[t.kind] /\ T \notin Drops[t.kind]
  BY DEF Own, Puts, Drops, AnswerTables
<1>2. \A T \in U : e.put[T] = {} /\ e.drop[T] = {}
  BY <1>1, PeopleThere DEF Own, Within
<1> HIDE DEF e
<1>3. Confined(e, t.writes) /\ Confined(e, {})
  BY <1>2, ConfinedOther
<1>4. \A c : Select(e.put, "contacts", c) = {}
  BY <1>2, NoContacts
<1>5. \A c : Covered(db, c, today) => Covered(After(db, e), c, today)
  BY <1>3, <1>4, ConfinedCovered
<1> QED BY <1>2, <1>3, <1>4, <1>5 DEF Prepared, ContactsSaved, Covers, e

LEMMA BeginsPrepared ==
  ASSUME RequestsOK, Keyed(db), today \in Nat, NEW t, Begins(t)
  PROVE  Prepared(t)
<1>1. Begin(t) /\ Own(t) /\ BegunBy(t.kind)
  BY DEF Begins
<1>2. CASE t.kind \in {"end", "reporter", "reschedule", "now", "special", "water", "add"}
  BY <1>1, <1>2, EndPrepared, ReporterPrepared, ReschedulePrepared, NowPrepared, SpecialPrepared, WaterPrepared,
     AddPrepared DEF BegunBy
<1>3. CASE t.kind \in {"message", "remove"}
  BY <1>3, MessagePrepared, RemovePrepared
<1>4. CASE t.kind \notin {"message", "end", "add", "reporter", "reschedule", "now", "special", "water", "remove"}
  BY <1>1, <1>4, OtherPrepared
<1> QED BY <1>2, <1>3, <1>4

-----------------------------------------------------------------------------
Disturbed(c) == \E topic \in {"roster", "reporter", "overlooked"} : <<topic, c>> \in history

\* An open request of which a contact is the topic, and one that is not about it.
Concerns(n, c) == <<"roster", c>> \in open[n].writes
SavesAsIs(n, c) == Select(open[n].effect.put, "contacts", c) \in {{}, Contact(db, c)}
Overlooks(n, c) == <<"overlooked", c>> \in open[n].notes

\* A contact is on the roster, as it is and as every request that is about it
\* will leave it.
Staying(c) ==
  /\ Covered(db, c, today)
  /\ \A n \in DOMAIN open : Concerns(n, c) => Overlooks(n, c) \/ Covered(Seen(n), c, today)

Requested ==
  \A n \in DOMAIN open :
    /\ Confined(open[n].effect, open[n].writes) /\ ContactsSaved(open[n])
    /\ \A c : Concerns(n, c) \/ Disturbed(c) \/ SavesAsIs(n, c)

ScheduledOK ==
  /\ Keyed(db) /\ today \in Nat
  /\ Requested
  /\ \A c : Disturbed(c) \/ Staying(c)

LEMMA BeginScheduled ==
  ASSUME RequestsOK, ScheduledOK, NEW t, Begins(t), today' = today
  PROVE  ScheduledOK'
<1>1. /\ db' = db /\ history \subseteq history' /\ DOMAIN open' = DOMAIN open \cup {serial'}
      /\ open'[serial'] = t /\ \A m : m = serial' => Seen(m)' = After(db, t.effect)
      /\ \A k \in DOMAIN open : open'[k] = open[k] /\ Seen(k)' = Seen(k)
  BY BeginSeen DEF Begins
<1>2. Prepared(t)
  BY BeginsPrepared DEF ScheduledOK
<1>3. \A c : Disturbed(c) => Disturbed(c)'
  BY <1>1 DEF Disturbed
<1>4. ASSUME NEW n \in DOMAIN open'
      PROVE  /\ Confined(open'[n].effect, open'[n].writes) /\ ContactsSaved(open'[n])
             /\ \A c : \/ <<"roster", c>> \in open'[n].writes \/ Disturbed(c)'
                       \/ Select(open'[n].effect.put, "contacts", c) \in {{}, Contact(db', c)}
  <2>1. CASE n = serial'
    BY <1>1, <1>2, <2>1 DEF Prepared
  <2>2. CASE n \in DOMAIN open
    BY <1>1, <1>3, <2>2 DEF ScheduledOK, Requested, Concerns, SavesAsIs
  <2> QED BY <1>1, <2>1, <2>2
<1>5. ASSUME NEW c, ~Disturbed(c)'
      PROVE  /\ Covered(db', c, today')
             /\ \A n \in DOMAIN open' : <<"roster", c>> \in open'[n].writes =>
                  <<"overlooked", c>> \in open'[n].notes \/ Covered(Seen(n)', c, today')
  <2>1. Staying(c)
    BY <1>3, <1>5 DEF ScheduledOK
  <2>2. Covers(t, c)
    BY <1>2 DEF Prepared
  <2> QED BY <1>1, <2>1, <2>2 DEF Staying, Covers, Concerns, Overlooks
<1>6. Requested'
  BY <1>4 DEF Requested, Concerns, SavesAsIs
<1>7. \A c : Disturbed(c)' \/ Staying(c)'
  BY <1>5 DEF Staying, Concerns, Overlooks
<1> QED BY <1>1, <1>6, <1>7 DEF ScheduledOK

\* After a commit there is of a contact what its request saw, or it has gone.
LEMMA WriteSameFor ==
  ASSUME NEW e, NEW W, Write(e), Confined(e, W), NEW c
  PROVE  /\ MembersOf(After(db, e), c) = MembersOf(db', c)
         /\ Select(After(db, e), "blacklist", c) = Select(db', "blacklist", c)
         /\ RowsOf(After(db, e), c) = RowsOf(db', c)
         /\ \/ Contact(After(db, e), c) = Contact(db', c)
            \/ Contact(db', c) = {} /\ c \in Gone(e, "contacts")
<1> DEFINE x == After(db, e)
<1>1. Gone(e, "roster") = {} /\ Gone(e, "members") = {} /\ Gone(e, "blacklist") = {}
  BY DEF Confined, Gone, Ids
<1>2. ASSUME NEW T \in {"roster", "members", "blacklist"} PROVE \A r : r \in db'[T] <=> r \in x[T]
  <2>1. T \in Tables /\ Gone(e, T) = {}
    BY <1>1, PeopleThere
  <2>2. ASSUME NEW i PROVE \A r : r.id = i => (r \in db'[T] <=> r \in x[T])
    BY <2>1, WriteById
  <2> QED BY <2>2
<1>3. \/ \A r : r.id = c => (r \in db'["contacts"] <=> r \in x["contacts"])
      \/ c \in Gone(e, "contacts") /\ \A r \in db'["contacts"] : r.id # c
  BY PeopleThere, WriteById
<1> HIDE DEF x
<1>4. MembersOf(x, c) = MembersOf(db', c)
  BY <1>2 DEF MembersOf
<1>5. Select(x, "blacklist", c) = Select(db', "blacklist", c)
  BY <1>2 DEF Select
<1>6. RowsOf(x, c) = RowsOf(db', c)
  BY <1>2 DEF RowsOf
<1>7. Contact(x, c) = Contact(db', c) \/ (Contact(db', c) = {} /\ c \in Gone(e, "contacts"))
  BY <1>3 DEF Contact, Select
<1> QED BY <1>4, <1>5, <1>6, <1>7 DEF x

\* A commit leaves those as they are that its request is not about.
LEMMA FinishSame ==
  ASSUME Requested, Keyed(db), NEW n \in DOMAIN open, Write(open[n].effect),
         NEW c, ~Concerns(n, c), ~Disturbed(c)
  PROVE  SameFor(db, db', c)
<1> DEFINE e == open[n].effect
           W == open[n].writes
           x == After(db, e)
<1>1. Confined(e, W) /\ <<"roster", c>> \notin W /\ Select(e.put, "contacts", c) \in {{}, Contact(db, c)} /\ Write(e)
  BY DEF Requested, Concerns, SavesAsIs
<1> HIDE DEF e, W
<1>2. SameFor(x, db, c)
  BY <1>1, ConfinedSame
<1>3. c \notin Gone(e, "contacts")
  <2> SUFFICES ASSUME c \in Ids(e.put["contacts"]), c \notin Ids(db["contacts"]) PROVE FALSE
    BY DEF Gone
  <2>1. Select(e.put, "contacts", c) # {}
    BY DEF Ids, Select
  <2>2. Contact(db, c) # {}
    BY <1>1, <2>1
  <2> QED BY <2>2 DEF Contact, Select, Ids
<1>4. /\ MembersOf(x, c) = MembersOf(db', c) /\ Select(x, "blacklist", c) = Select(db', "blacklist", c)
      /\ RowsOf(x, c) = RowsOf(db', c) /\ Contact(x, c) = Contact(db', c)
  BY <1>1, <1>3, WriteSameFor
<1> HIDE DEF x
<1> QED BY <1>2, <1>4 DEF SameFor

LEMMA FinishScheduled ==
  ASSUME RequestsOK, ScheduledOK, NEW n \in DOMAIN open, Finish(n), today' = today
  PROVE  ScheduledOK'
<1> DEFINE e == open[n].effect
           W == open[n].writes
<1>1. /\ Write(e) /\ DOMAIN open' = DOMAIN open \ {n} /\ history' = history \cup open[n].notes
      /\ \A k \in DOMAIN open' : k \in DOMAIN open /\ k # n /\ open'[k] = open[k]
      /\ \A k \in DOMAIN open' : Seen(k)' = After(db', open[k].effect)
  <2>1. Write(e) /\ open' = Closed(n) /\ history' = history \cup open[n].notes
    BY DEF Finish, Commit
  <2>2. DOMAIN open' = DOMAIN open \ {n} /\ \A k \in DOMAIN open' : open'[k] = open[k]
    BY <2>1, ClosedOpen
  <2> QED BY <2>1, <2>2 DEF Seen
<1>2. Confined(e, W) /\ ContactsSaved(open[n])
  BY DEF ScheduledOK, Requested
<1>3. \A c : Disturbed(c) => Disturbed(c)'
  BY <1>1 DEF Disturbed
<1>4. \A k \in DOMAIN open' : \A c :
        \/ Disturbed(c)
        \/ <<"roster", c>> \notin W /\ <<"reporter", c>> \notin W
        \/ <<"roster", c>> \in W /\ <<"roster", c>> \notin open[k].writes /\ <<"reporter", c>> \notin W
        \/ <<"roster", c>> \notin open[k].writes /\ <<"reporter", c>> \notin open[k].writes
        \/ <<"roster", c>> \notin W /\ <<"reporter", c>> \notin open[k].writes
  BY <1>1 DEF RequestsOK, Meet, Disturbed
<1>5. Keyed(db')
  <2>1. Keyed(After(db, e))
    BY <1>2, KeyedAfter DEF ContactsSaved, ScheduledOK
  <2> HIDE DEF e
  <2>2. \A T \in Tables : db'[T] \subseteq After(db, e)[T]
    BY <1>1, WriteSeen
  <2> QED BY <2>1, <2>2, PeopleThere DEF Keyed
<1>6. ASSUME NEW c, ~Disturbed(c)', <<"roster", c>> \notin W PROVE SameFor(db, db', c)
  BY <1>1, <1>3, <1>6, FinishSame DEF Concerns, ScheduledOK
<1>7. ASSUME NEW c, ~Disturbed(c)' PROVE Covered(db', c, today)
  <2>1. Staying(c)
    BY <1>3, <1>7 DEF ScheduledOK
  <2>2. CASE <<"roster", c>> \notin W
    BY <1>6, <1>7, <2>1, <2>2, SameCovered DEF Staying
  <2>3. CASE <<"roster", c>> \in W
    <3>1. Covered(Seen(n), c, today)
      <4>1. <<"overlooked", c>> \notin open[n].notes
        BY <1>1, <1>7 DEF Disturbed
      <4> QED BY <2>1, <2>3, <4>1 DEF Staying, Concerns, Overlooks
    <3> DEFINE x == After(db, e)
    <3>2. /\ MembersOf(x, c) = MembersOf(db', c) /\ Select(x, "blacklist", c) = Select(db', "blacklist", c)
          /\ RowsOf(x, c) = RowsOf(db', c)
          /\ Contact(x, c) = Contact(db', c) \/ Contact(db', c) = {}
      <4> HIDE DEF e, W
      <4> QED BY <1>1, <1>2, WriteSameFor
    <3>3. Covered(x, c, today)
      BY <3>1 DEF Seen
    <3> HIDE DEF x
    <3>4. CASE Contact(db', c) = {}
      BY <3>4 DEF Covered
    <3>5. CASE Contact(x, c) = Contact(db', c)
      <4>1. SameFor(x, db', c)
        BY <3>2, <3>5 DEF SameFor
      <4> QED BY <3>3, <4>1, SameCovered
    <3> QED BY <3>2, <3>4, <3>5
  <2> QED BY <2>2, <2>3
<1>8. ASSUME NEW k \in DOMAIN open', NEW c, ~Disturbed(c)', <<"roster", c>> \in open[k].writes
      PROVE  <<"overlooked", c>> \in open[k].notes \/ Covered(Seen(k)', c, today)
  <2> DEFINE f == open[k].effect
  <2>1. <<"roster", c>> \notin W
    BY <1>3, <1>4, <1>8
  <2>2. <<"overlooked", c>> \in open[k].notes \/ Covered(After(db, f), c, today)
    BY <1>1, <1>3, <1>8 DEF ScheduledOK, Staying, Concerns, Overlooks, Seen
  <2>3. Seen(k)' = After(db', f)
    BY <1>1
  <2> HIDE DEF f
  <2>4. SameFor(After(db, f), After(db', f), c)
    BY <1>6, <1>8, <2>1, AfterSameFor
  <2> QED BY <2>2, <2>3, <2>4, SameCovered
<1>9. ASSUME NEW k \in DOMAIN open', NEW c, ~Disturbed(c)', <<"roster", c>> \notin open[k].writes
      PROVE  Select(open[k].effect.put, "contacts", c) \in {{}, Contact(db', c)}
  <2> DEFINE R == Select(open[k].effect.put, "contacts", c)
  <2>1. R \in {{}, Contact(db, c)}
    BY <1>1, <1>3, <1>9 DEF ScheduledOK, Requested, Concerns, SavesAsIs
  <2>2. CASE R = {}
    BY <2>2
  <2>3. CASE R # {}
    <3>1. <<"reporter", c>> \in open[k].writes
      BY <1>1, <2>3 DEF ScheduledOK, Requested, ContactsSaved, Select
    <3>2. <<"reporter", c>> \notin W
      BY <1>3, <1>4, <1>9, <3>1
    <3>3. c \notin e.drop["contacts"] /\ \A q \in e.put["contacts"] : q.id # c
      BY <1>2, <3>2 DEF ContactsSaved
    <3> DEFINE x == After(db, e)
    <3> HIDE DEF e
    <3>4. \A r : r.id = c => (r \in x["contacts"] <=> r \in db["contacts"])
      BY <3>3, AfterIs, PeopleThere
    <3>5. c \notin Gone(e, "contacts")
      BY <3>3 DEF Gone, Ids
    <3>6. \A r : r.id = c => (r \in db'["contacts"] <=> r \in x["contacts"])
      BY <1>1, <3>5, PeopleThere, WriteById
    <3>7. Contact(db', c) = Contact(db, c)
      BY <3>4, <3>6 DEF Contact, Select
    <3> QED BY <2>1, <3>7
  <2> QED BY <2>2, <2>3
<1> HIDE DEF e, W
<1>10. Requested'
  <2> SUFFICES ASSUME NEW k \in DOMAIN open'
               PROVE  /\ Confined(open'[k].effect, open'[k].writes) /\ ContactsSaved(open'[k])
                      /\ \A c : \/ <<"roster", c>> \in open'[k].writes \/ Disturbed(c)'
                                \/ Select(open'[k].effect.put, "contacts", c) \in {{}, Contact(db', c)}
    BY DEF Requested, Concerns, SavesAsIs
  <2>1. k \in DOMAIN open /\ open'[k] = open[k]
    BY <1>1
  <2>2. Confined(open[k].effect, open[k].writes) /\ ContactsSaved(open[k])
    BY <2>1 DEF ScheduledOK, Requested
  <2> QED BY <1>9, <2>1, <2>2
<1>11. \A c : Disturbed(c)' \/ Staying(c)'
  <2> SUFFICES ASSUME NEW c, ~Disturbed(c)'
               PROVE  /\ Covered(db', c, today')
                      /\ \A k \in DOMAIN open' : <<"roster", c>> \in open'[k].writes =>
                           <<"overlooked", c>> \in open'[k].notes \/ Covered(Seen(k)', c, today')
    BY DEF Staying, Concerns, Overlooks
  <2> QED BY <1>1, <1>7, <1>8
<1> QED BY <1>5, <1>10, <1>11 DEF ScheduledOK

\* The steps between the begin of a request and its end do nothing to the tables
\* that are about people, and forget nothing that their requests have made.
LEMMA MadeKept ==
  ASSUME RequestsOK,
         \/ UNCHANGED database
         \/ \E n \in DOMAIN open : PollPhase(n) \/ FormPhase(n) \/ MassTextCommits(n) \/ Fail(n)
  PROVE  \A k \in DOMAIN open' : \A T \in Tables :
           k \in DOMAIN open /\ \A i \in open[k].effect.made[T] : i \in open'[k].effect.made[T]
<1> DEFINE All == \A k \in DOMAIN open' : \A T \in Tables :
                     k \in DOMAIN open /\ \A i \in open[k].effect.made[T] : i \in open'[k].effect.made[T]
<1>1. CASE UNCHANGED database
  BY <1>1 DEF database
<1>2. ASSUME NEW n \in DOMAIN open, PollPhase(n) \/ FormPhase(n) PROVE All
  <2>1. PICK e, place : Phase(n, e, place)
    BY <1>2, PhaseWithin
  <2> DEFINE f == open[n].effect
             g == Then(f, e)
  <2>2. /\ DOMAIN open' = DOMAIN open /\ open'[n] = Further(open[n], g, place)
        /\ \A k \in DOMAIN open : k # n => open'[k] = open[k]
    BY <2>1, PhaseOpen
  <2>3. \A T \in Tables : \A i \in f.made[T] : i \in g.made[T]
    BY DEF Then
  <2> HIDE DEF g
  <2>4. open'[n].effect = g
    BY <2>2, FurtherIs
  <2> QED BY <2>2, <2>3, <2>4
<1>3. ASSUME NEW n \in DOMAIN open, MassTextCommits(n) PROVE All
  <2>1. /\ DOMAIN open' = DOMAIN open /\ open[n].effect = NoEffect
        /\ \A k \in DOMAIN open : k # n => open'[k] = open[k]
    BY <1>3, MassTextIs, MassTextOpen
  <2>2. \A T \in Tables : NoEffect.made[T] = {}
    BY DEF NoEffect
  <2> QED BY <2>1, <2>2
<1>4. ASSUME NEW n \in DOMAIN open, Fail(n) PROVE All
  <2>1. open' = Closed(n)
    BY <1>4 DEF Fail, Rollback
  <2> QED BY <2>1, ClosedOpen
<1> QED BY <1>1, <1>2, <1>3, <1>4

LEMMA QuietScheduled ==
  ASSUME RequestsOK, ScheduledOK, today' = today,
         \A T \in {"roster", "contacts", "members", "blacklist"} : SameAt(T),
         \A k \in DOMAIN open' : \A T \in Tables :
           k \in DOMAIN open /\ \A i \in open[k].effect.made[T] : i \in open'[k].effect.made[T]
  PROVE  ScheduledOK'
<1> DEFINE U == {"roster", "contacts", "members", "blacklist"}
<1>1. /\ \A T \in U : db'[T] = db[T]
      /\ \A k \in DOMAIN open' : \A T \in U :
           /\ open'[k].effect.put[T] = open[k].effect.put[T] /\ open'[k].effect.drop[T] = open[k].effect.drop[T]
           /\ Seen(k)'[T] = Seen(k)[T]
  BY DEF SameAt
<1>2. SameAt("roster")
  OBVIOUS
<1>3. /\ history \subseteq history'
      /\ \A k \in DOMAIN open' : k \in DOMAIN open /\ open'[k].writes = open[k].writes /\ open'[k].notes = open[k].notes
  BY <1>2 DEF SameAt
<1>4. Keyed(db')
  BY <1>1 DEF Keyed, ScheduledOK
<1>5. \A c : Disturbed(c) => Disturbed(c)'
  BY <1>3 DEF Disturbed
<1>6. \A c : SameFor(db, db', c)
  BY <1>1 DEF SameFor, Contact, Select, MembersOf, RowsOf
<1>7. ASSUME NEW k \in DOMAIN open', NEW c PROVE SameFor(Seen(k), Seen(k)', c)
  <2> DEFINE x == Seen(k)
             y == Seen(k)'
  <2>1. \A T \in U : y[T] = x[T]
    BY <1>1
  <2> HIDE DEF x, y
  <2>2. SameFor(x, y, c)
    BY <2>1 DEF SameFor, Contact, Select, MembersOf, RowsOf
  <2> QED BY <2>2 DEF x, y
<1>8. ASSUME NEW k \in DOMAIN open'
      PROVE  /\ Confined(open'[k].effect, open'[k].writes) /\ ContactsSaved(open'[k])
             /\ \A c : \/ <<"roster", c>> \in open'[k].writes \/ Disturbed(c)'
                       \/ Select(open'[k].effect.put, "contacts", c) \in {{}, Contact(db', c)}
  <2>1. /\ Confined(open[k].effect, open[k].writes) /\ ContactsSaved(open[k])
        /\ \A c : \/ <<"roster", c>> \in open[k].writes \/ Disturbed(c)
                  \/ Select(open[k].effect.put, "contacts", c) \in {{}, Contact(db, c)}
    BY <1>3 DEF ScheduledOK, Requested, Concerns, SavesAsIs
  <2>2. \A T \in U : \A i \in open[k].effect.made[T] : i \in open'[k].effect.made[T]
    BY PeopleThere
  <2> DEFINE e == open[k].effect
             f == open'[k].effect
             W == open[k].writes
  <2>3. \A T \in U : f.put[T] = e.put[T] /\ f.drop[T] = e.drop[T] /\ \A i \in e.made[T] : i \in f.made[T]
    BY <1>1, <2>2
  <2>4. Confined(e, W)
    BY <2>1
  <2>5. open'[k].writes = W
    BY <1>3
  <2> HIDE DEF e, f, W
  <2>6. Confined(f, W)
    BY <2>3, <2>4 DEF Confined
  <2>7. f.put["contacts"] = e.put["contacts"] /\ f.drop["contacts"] = e.drop["contacts"]
    BY <2>3
  <2>8. ContactsSaved(open'[k])
    BY <2>1, <2>5, <2>7 DEF ContactsSaved, e, f, W
  <2>9. ASSUME NEW c
        PROVE  \/ <<"roster", c>> \in open'[k].writes \/ Disturbed(c)'
               \/ Select(open'[k].effect.put, "contacts", c) \in {{}, Contact(db', c)}
    <3>1. Contact(db', c) = Contact(db, c)
      BY <1>6 DEF SameFor
    <3>2. Select(f.put, "contacts", c) = Select(e.put, "contacts", c)
      BY <2>7 DEF Select
    <3> QED BY <1>5, <2>1, <2>5, <3>1, <3>2 DEF e, f, W
  <2> QED BY <2>5, <2>6, <2>8, <2>9 DEF f
<1>9. ASSUME NEW c, ~Disturbed(c)'
      PROVE  /\ Covered(db', c, today')
             /\ \A k \in DOMAIN open' : <<"roster", c>> \in open'[k].writes =>
                  <<"overlooked", c>> \in open'[k].notes \/ Covered(Seen(k)', c, today')
  <2>1. Staying(c)
    BY <1>5, <1>9 DEF ScheduledOK
  <2>2. Covered(db', c, today)
    BY <1>6, <2>1, SameCovered DEF Staying
  <2>3. ASSUME NEW k \in DOMAIN open', Covered(Seen(k), c, today) PROVE Covered(Seen(k)', c, today)
    <3> DEFINE x == Seen(k)
               y == Seen(k)'
    <3>1. SameFor(x, y, c) /\ Covered(x, c, today)
      BY <1>7, <2>3
    <3> HIDE DEF x, y
    <3>2. Covered(y, c, today)
      BY <3>1, SameCovered
    <3> QED BY <3>2 DEF y
  <2> QED BY <1>3, <2>1, <2>2, <2>3 DEF Staying, Concerns, Overlooks
<1>10. Requested'
  BY <1>8 DEF Requested, Concerns, SavesAsIs
<1>11. \A c : Disturbed(c)' \/ Staying(c)'
  BY <1>9 DEF Staying, Concerns, Overlooks
<1> QED BY <1>4, <1>10, <1>11 DEF ScheduledOK

\* A script that has a date to come tomorrow has one today.
LEMMA DateLeft ==
  ASSUME NEW s \in Scripts, NEW day \in Nat, next_scheduled(s, day + 1) # None
  PROVE  next_scheduled(s, day) # None
<1> DEFINE dates == POLL_DATES[s]
           hits == {i \in DOMAIN dates : dates[i] > day}
           later == {i \in DOMAIN dates : dates[i] > day + 1}
           at == CHOOSE i \in hits : \A j \in hits : i <= j
<1>1. dates \in Seq(Nat)
  BY RosterAssumption DEF RosterAssumption
<1>2. next_scheduled(s, day) = IF hits = {} THEN None ELSE dates[at]
  BY DEF next_scheduled, upcoming, first
<1>3. next_scheduled(s, day + 1) # None => later # {}
  BY DEF next_scheduled, upcoming, first
<1>4. hits # {}
  <2>1. PICK i \in later : TRUE
    BY <1>3
  <2>2. dates[i] \in Nat
    BY <1>1, <2>1
  <2>3. i \in hits
    BY <2>1, <2>2
  <2> QED BY <2>3
<1>5. hits \in SUBSET Nat
  BY <1>1
<1>6. at \in hits
  <2>1. \E i \in hits : \A j \in hits : i <= j
    <3> HIDE DEF hits
    <3> QED BY <1>4, <1>5, Least
  <2> HIDE DEF hits
  <2> QED BY <2>1
<1>7. dates[at] \in Nat
  <2>1. at \in DOMAIN dates
    BY <1>6
  <2> HIDE DEF at, dates
  <2> QED BY <1>1, <2>1
<1> QED BY <1>2, <1>4, <1>7 DEF None

LEMMA NextDayScheduled ==
  ASSUME ScheduledOK, NextDay
  PROVE  ScheduledOK'
<1>1. today' = today + 1 /\ today \in Nat /\ db' = db /\ open' = open /\ history' = history /\ DOMAIN open = {}
  BY DEF NextDay, database, ScheduledOK
<1>2. ASSUME NEW c, Covered(db, c, today) PROVE Covered(db', c, today')
  <2>1. scripts_for(db, c) \subseteq Scripts
    BY RosterAssumption DEF RosterAssumption, scripts_for, GroupScripts
  <2>2. \A s \in scripts_for(db, c) : next_scheduled(s, today + 1) # None => next_scheduled(s, today) # None
    BY <1>1, <2>1, DateLeft
  <2>3. Covered(db, c, today + 1)
    BY <1>2, <2>2 DEF Covered
  <2> QED BY <1>1, <2>3
<1>3. \A c : Disturbed(c)' \/ Covered(db', c, today')
  BY <1>1, <1>2 DEF ScheduledOK, Staying, Disturbed
<1>4. \A c : Disturbed(c)' \/ Staying(c)'
  BY <1>1, <1>3 DEF Staying
<1>5. Requested'
  BY <1>1 DEF Requested
<1>6. Keyed(db') /\ today' \in Nat
  BY <1>1 DEF ScheduledOK
<1> QED BY <1>4, <1>5, <1>6 DEF ScheduledOK

LEMMA NextScheduled ==
  ASSUME RequestsOK, ScheduledOK, [Next]_vars
  PROVE  ScheduledOK'
<1> DEFINE U == {"roster", "contacts", "members", "blacklist"}
           Quiet == \/ UNCHANGED database
                    \/ \E n \in DOMAIN open : PollPhase(n) \/ FormPhase(n) \/ MassTextCommits(n) \/ Fail(n)
<1>1. NextDay \/ today' = today
  <2>1. \A c, text : Receive(c, text) => today' = today
    BY DEF Receive
  <2> QED BY <2>1 DEF Next, vars
<1>2. Moves
  BY Moving
<1>3. CASE NextDay
  BY <1>3, NextDayScheduled
<1>4. ASSUME NEW t, Begins(t), today' = today PROVE ScheduledOK'
  BY <1>4, BeginScheduled
<1>5. ASSUME NEW n \in DOMAIN open, Finish(n), today' = today PROVE ScheduledOK'
  BY <1>5, FinishScheduled
<1>6. ASSUME Quiet, today' = today, ~\E t : Begins(t), ~\E n \in DOMAIN open : Finish(n) PROVE ScheduledOK'
  <2>1. \A T \in U : T \in Tables \ {"asked", "polls"} /\ T \notin AppPuts \cup AppDrops /\ T # "submissions"
    BY PeopleThere DEF AppPuts, AppDrops
  <2>2. \A T \in U : SameAt(T)
    BY <1>2, <1>6, <2>1, SameSteps
  <2>3. \A k \in DOMAIN open' : \A T \in Tables :
          k \in DOMAIN open /\ \A i \in open[k].effect.made[T] : i \in open'[k].effect.made[T]
    BY <1>6, MadeKept
  <2> QED BY <1>6, <2>2, <2>3, QuietScheduled
<1>7. CASE today' = today
  <2>1. (\E t : Begins(t)) \/ (\E n \in DOMAIN open : Finish(n)) \/ Quiet
    BY <1>2 DEF Moves
  <2> QED BY <1>4, <1>5, <1>6, <1>7, <2>1
<1> QED BY <1>1, <1>3, <1>7

\* A registered reporter who has not quit has a row of every script of its groups
\* with a date to come, through any sequence of runs, quits, joins, registrations
\* and changes of group.  Excepted are reporters of whom two requests were open
\* at once, and those the code overlooks: their number is added again, their
\* grade alone is changed, or the water polls are scheduled without them.
THEOREM StaysScheduled ==
  Spec => []SubscribedAreScheduled
<1>1. Init => ScheduledOK
  <2> SUFFICES ASSUME Init PROVE ScheduledOK
    OBVIOUS
  <2>1. PICK w \in Workloads : DOMAIN open = {} /\ db = w.db /\ today = 1
    BY DEF Init
  <2>2. /\ \A r \in w.db["roster"] : r.id[2] = r.conn /\ r.id[3] = r.script
        /\ \A m \in w.db["members"] : m.id[1] = m.conn
        /\ \A k \in w.db["contacts"] :
             /\ k.grade \in DOMAIN GROUPS => k.grade \in {"p3", "p6"}
             /\ ~Registering(w.db, k.id) =>
                  \A s \in scripts_for(w.db, k.id) : next_scheduled(s, 1) # None => ScriptRows(w.db, k.id, s) # {}
    BY ScheduledAssumption DEF ScheduledAssumption
  <2>3. \A k \in w.db["contacts"] : k = [id |-> k.id, grade |-> k.grade, active |-> k.active]
    BY TablesAssumption DEF TablesAssumption
  <2>4. Keyed(db)
    BY <2>1, <2>2, <2>3 DEF Keyed, KeyRow, Graded
  <2>5. ASSUME NEW c PROVE Covered(db, c, 1)
    <3>1. CASE Contact(db, c) = {}
      BY <3>1 DEF Covered
    <3>2. ASSUME NEW k \in Contact(db, c) PROVE Covered(db, c, 1)
      <4>1. k \in w.db["contacts"] /\ k.id = c
        BY <2>1, <3>2 DEF Contact, Select
      <4> QED BY <2>1, <2>2, <4>1 DEF Covered
    <3> QED BY <3>1, <3>2
  <2> QED BY <2>1, <2>4, <2>5 DEF ScheduledOK, Requested, Staying
<1>2. RequestsOK /\ ScheduledOK /\ [Next]_vars => ScheduledOK'
  BY NextScheduled
<1>3. ScheduledOK => SubscribedAreScheduled
  <2> SUFFICES ASSUME ScheduledOK, NEW k \in db["contacts"],
                      ~Blacklisted(db, k.id), ~Registering(db, k.id),
                      Undisturbed("roster", k.id), Undisturbed("reporter", k.id), Undisturbed("overlooked", k.id),
                      NEW s \in scripts_for(db, k.id), next_scheduled(s, today) # None
               PROVE  ScriptRows(db, k.id, s) # {}
    BY DEF SubscribedAreScheduled
  <2> DEFINE c == k.id
  <2>1. ~Disturbed(c)
    BY DEF Disturbed, Undisturbed
  <2>2. Covered(db, c, today)
    BY <2>1 DEF ScheduledOK, Staying
  <2>3. Contact(db, c) # {}
    BY DEF Contact, Select
  <2> QED BY <2>2, <2>3 DEF Covered
<1> QED BY RequestsStayOK, <1>1, <1>2, <1>3, PTL DEF Spec
=============================================================================
