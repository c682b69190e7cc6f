----------------------------- MODULE PollsProofs -----------------------------
(***************************************************************************)
(* Theorems about the answers of polls in Incoming: what the staff has put *)
(* an answer into, and which answers are kept, whatever requests overlap.  *)
(*                                                                         *)
(* A request that begins has read the rows that it saves or deletes later. *)
(* The arguments follow those rows by their ids: a row that is written     *)
(* while a request is open has the number of an open request in its id, or *)
(* is one that was there, and two requests that would change it have left  *)
(* a mark in history.                                                      *)
(*                                                                         *)
(* Then come the type invariant of Incoming, which needs what the others   *)
(* say of responses, labels, categories and submissions, and, last, the    *)
(* classification of responses by the rules of their polls.                *)
(***************************************************************************)
EXTENDS OverlapProofs

-----------------------------------------------------------------------------
(***************************************************************************)
(* What the requests about answers write.                                  *)
(***************************************************************************)

LEMMA AnswersThere ==
  /\ "responses" \in Tables /\ "labels" \in Tables /\ "categories" \in Tables
  /\ "rules" \in Tables /\ "polls" \in Tables
BY TablesThere DEF Schema

LEMMA ErasedIs ==
  ASSUME NEW d, NEW R
  PROVE  LET e == Erased(d, R)
         IN /\ \A T \in Tables : e.put[T] = {}
            /\ e.drop["labels"] = Ids(LabelsOf(d, R)) /\ e.drop["responses"] = Ids(R)
<1> DEFINE L == Deleted("labels", LabelsOf(d, R))
           A == Deleted("responses", R)
<1>1. /\ L.drop["labels"] = Ids(LabelsOf(d, R)) /\ L.drop["responses"] = {}
      /\ A.drop["labels"] = {} /\ A.drop["responses"] = Ids(R)
  BY AnswersThere, DeletedAt
<1>2. Erased(d, R) = Then(L, A)
  BY DEF Erased
<1> HIDE DEF L, A
<1>3. \A T \in Tables : Then(L, A).drop[T] = L.drop[T] \cup A.drop[T]
  BY DEF Then
<1> QED BY <1>1, <1>2, <1>3, AnswersThere, ErasedAnswers

\* What a message's answer is, as the poll app files it.
NewResponse(n, p, c, words, bad) == [id |-> n, poll |-> p, conn |-> c, text |-> words, errors |-> bad]

\* The categories an answer goes into, whether they make it an error, and
\* whether there are two to choose from.
Found(d, p, words) == IF p.type = "text" THEN Matching(d, p.id, words) ELSE {}
Filed(d, p, words) == OrDefault(d, p.id, Found(d, p, words))
Bad(d, p, words)   == \/ Filed(d, p, words) \cap Errors(d, p.id) # {}
                      \/ p.type = "numeric" /\ ~Plausible(words)
Stuck(d, p, words) == Raises(d, p.id, Found(d, p, words))

Answer(d, n, p, c, words) ==
  NewResponse(n, p.id, c, words, IF Stuck(d, p, words) THEN FALSE ELSE Bad(d, p, words))

OfRule(n, l) == \E k : l = Label(n, n, k, FALSE)

RuleLabels(n, r, K) == {Label(n, r, k, FALSE) : k \in K}

LEMMA ProcessIs ==
  ASSUME NEW d, NEW n, NEW p, NEW c, NEW words, NEW e, e = process_response(d, n, p, c, words)
  PROVE  /\ e.put["responses"] = {Answer(d, n, p, c, words)} /\ e.made["responses"] = {n}
         /\ e.put["labels"] = IF Stuck(d, p, words) THEN {} ELSE RuleLabels(n, n, Filed(d, p, words))
         /\ e.drop["responses"] = {} /\ e.drop["labels"] = {}
<1> DEFINE row(bad) == NewResponse(n, p.id, c, words, bad)
           A(bad) == Inserted("responses", {row(bad)})
           labels == RuleLabels(n, n, Filed(d, p, words))
           L == Inserted("labels", labels)
           stuck == Stuck(d, p, words)
           bad == Bad(d, p, words)
<1>1. process_response(d, n, p, c, words) = IF stuck THEN A(FALSE) ELSE Then(A(bad), L)
  BY Zenon DEF process_response, Response, NewResponse, RuleLabels, Found, Filed, Bad, Stuck
<1>2. ASSUME NEW b
      PROVE  /\ A(b).put["responses"] = {row(b)} /\ A(b).made["responses"] = {n}
             /\ A(b).put["labels"] = {} /\ A(b).drop["responses"] = {} /\ A(b).drop["labels"] = {}
  <2>1. row(b).id = n
    BY DEF NewResponse
  <2> HIDE DEF row
  <2>2. Ids({row(b)}) = {n}
    BY <2>1 DEF Ids
  <2>3. A(b).made["responses"] = Ids({row(b)})
    BY AnswersThere DEF Inserted, NoEffect
  <2> QED BY <2>2, <2>3, AnswersThere, InsertedAt
<1>3. /\ L.put["labels"] = labels /\ L.made["responses"] = {}
      /\ L.put["responses"] = {} /\ L.drop["responses"] = {} /\ L.drop["labels"] = {}
  <2>1. L.made["responses"] = {}
    BY AnswersThere DEF Inserted, NoEffect
  <2> QED BY <2>1, AnswersThere, InsertedAt
<1> HIDE DEF A, L, row, labels, bad, stuck
<1>4. /\ \A r : r \in Then(A(bad), L).put["responses"] <=> r \in A(bad).put["responses"]
      /\ \A l : l \in Then(A(bad), L).put["labels"] <=> l \in L.put["labels"]
      /\ Then(A(bad), L).drop["responses"] = {} /\ Then(A(bad), L).drop["labels"] = {}
  BY <1>2, <1>3, AnswersThere, ThenIs
<1>5. Then(A(bad), L).made["responses"] = A(bad).made["responses"] \cup L.made["responses"]
  BY AnswersThere DEF Then
<1>6. /\ Then(A(bad), L).put["responses"] = A(bad).put["responses"]
      /\ Then(A(bad), L).put["labels"] = L.put["labels"]
      /\ Then(A(bad), L).made["responses"] = {n}
  BY <1>2, <1>3, <1>4, <1>5
<1>7. Answer(d, n, p, c, words) = IF stuck THEN row(FALSE) ELSE row(bad)
  BY Zenon DEF Answer, row, stuck, bad
<1> QED BY <1>1, <1>2, <1>3, <1>4, <1>6, <1>7 DEF L, labels, stuck

\* What the poll app does with a message, if none of the responses is its own:
\* nothing, or its answer is put beside those there are, or in place of one.
Filing(d, n, c, words, e, p) ==
  LET mine == process_response(d, n, p, c, words)
      old  == ResponsesOf(d, p.id, c)
  IN \/ e = mine /\ (p.rule = "all" \/ old = {} \/ Raises(d, p.id, Matching(d, p.id, words)))
     \/ \E r \in old : /\ Kept(r, Answer(d, n, p, c, words)) /\ p.rule # "all"
                       /\ e = Then(mine, Erased(d, {r}))

LEMMA HandleIs ==
  ASSUME NEW d, NEW n, NEW c, NEW words, NEW e \in Handle(d, n, c, words), e # NoEffect,
         \A r \in d["responses"] : r.id # n
  PROVE  \E p \in Latest(d, c) : Filing(d, n, c, words, e, p)
<1> DEFINE g(p) == process_response(d, n, p, c, words)
           chosen(p) == CHOOSE r \in After(d, g(p))["responses"] : r.id = n
           stuck(p) == Raises(d, p.id, Matching(d, p.id, words))
<1>1. PICK p \in Latest(d, c) :
        e \in IF p.rule = "all" \/ ResponsesOf(d, p.id, c) = {} \/ stuck(p) THEN {g(p)}
              ELSE {IF Kept(r, chosen(p)) THEN Then(g(p), Erased(d, {r})) ELSE NoEffect :
                    r \in ResponsesOf(d, p.id, c)}
  BY Zenon DEF Handle
<1> DEFINE new == Answer(d, n, p, c, words)
<1>2. g(p).put["responses"] = {new} /\ g(p).drop["responses"] = {}
  BY ProcessIs
<1>3. new.id = n
  BY DEF Answer, NewResponse
<1> HIDE DEF new, g
<1>4. \A r : r \in After(d, g(p))["responses"] <=> r = new \/ r \in d["responses"]
  BY <1>2, <1>3, AfterIs, AnswersThere
<1>5. chosen(p) \in After(d, g(p))["responses"] /\ chosen(p).id = n
  BY <1>3, <1>4
<1>6. chosen(p) = new
  BY <1>4, <1>5
<1> HIDE DEF chosen, stuck
<1>7. CASE p.rule = "all" \/ ResponsesOf(d, p.id, c) = {} \/ stuck(p)
  <2>1. e = g(p)
    BY <1>1, <1>7
  <2> QED BY <1>7, <2>1, Zenon DEF Filing, g, stuck
<1>8. CASE ~(p.rule = "all" \/ ResponsesOf(d, p.id, c) = {} \/ stuck(p))
  <2>1. PICK r \in ResponsesOf(d, p.id, c) :
          e = IF Kept(r, chosen(p)) THEN Then(g(p), Erased(d, {r})) ELSE NoEffect
    BY <1>1, <1>8
  <2>2. Kept(r, new) /\ e = Then(g(p), Erased(d, {r}))
    BY <1>6, <2>1
  <2> QED BY <1>8, <2>1, <2>2, Zenon DEF Filing, g, new
<1> QED BY <1>7, <1>8

\* The rows that it writes then, and those that it deletes.
Writes(d, n, c, e, p, new) ==
  /\ e.put["responses"] = {new} /\ e.made["responses"] = {n}
  /\ new.id = n /\ new.poll = p.id /\ new.conn = c
  /\ \A l \in e.put["labels"] : OfRule(n, l)
  /\ \/ e.drop["responses"] = {} /\ e.drop["labels"] = {}
     \/ \E r \in ResponsesOf(d, p.id, c) :
          /\ Kept(r, new) /\ p.rule # "all"
          /\ e.drop["responses"] = {r.id} /\ e.drop["labels"] = Ids(LabelsOf(d, {r}))

LEMMA FilingIs ==
  ASSUME NEW d, NEW n, NEW c, NEW words, NEW e, NEW p, Filing(d, n, c, words, e, p), NEW new, new = Answer(d, n, p, c, words),
         \A r \in d["responses"] : r.id # n
  PROVE  Writes(d, n, c, e, p, new)
<1> USE DEF Writes
<1> DEFINE g == process_response(d, n, p, c, words)
<1>1. /\ g.put["responses"] = {new} /\ g.made["responses"] = {n}
      /\ g.drop["responses"] = {} /\ g.drop["labels"] = {}
      /\ g.put["labels"] = IF Stuck(d, p, words) THEN {} ELSE RuleLabels(n, n, Filed(d, p, words))
  BY ProcessIs
<1>2. new.id = n /\ new.poll = p.id /\ new.conn = c
  BY DEF Answer, NewResponse
<1>3. \A l \in g.put["labels"] : OfRule(n, l)
  <2> HIDE DEF g
  <2>1. CASE Stuck(d, p, words)
    BY <1>1, <2>1
  <2>2. CASE ~Stuck(d, p, words)
    <3>1. g.put["labels"] = RuleLabels(n, n, Filed(d, p, words))
      BY <1>1, <2>2
    <3> QED BY <3>1, Zenon DEF RuleLabels, OfRule
  <2> QED BY <2>1, <2>2
<1> HIDE DEF g
<1>4. CASE e = g
  BY <1>1, <1>2, <1>3, <1>4
<1>5. ASSUME NEW r \in ResponsesOf(d, p.id, c), Kept(r, new), p.rule # "all", e = Then(g, Erased(d, {r}))
      PROVE  /\ e.put["responses"] = {new} /\ e.made["responses"] = {n}
             /\ \A l \in e.put["labels"] : OfRule(n, l)
             /\ e.drop["responses"] = {r.id} /\ e.drop["labels"] = Ids(LabelsOf(d, {r}))
  <2> DEFINE f == Erased(d, {r})
  <2>1. /\ \A T \in Tables : f.put[T] = {} /\ f.made[T] = {}
        /\ f.drop["labels"] = Ids(LabelsOf(d, {r})) /\ f.drop["responses"] = {r.id}
    <3>1. Ids({r}) = {r.id}
      BY DEF Ids
    <3>2. ASSUME NEW T \in Tables PROVE f.made[T] = {}
      BY <3>2 DEF Erased, Then, Deleted, NoEffect
    <3> QED BY <3>1, <3>2, ErasedIs
  <2>2. r.id # n
    BY DEF ResponsesOf, PollResponses
  <2> HIDE DEF f
  <2>3. \A x : x \in Then(g, f).put["responses"] <=> x = new
    BY <1>1, <1>2, <2>1, <2>2, AnswersThere, ThenIs
  <2>4. \A l : l \in Then(g, f).put["labels"] => l \in g.put["labels"]
    BY <2>1, AnswersThere, ThenIs
  <2>5. \A T \in Tables : /\ Then(g, f).drop[T] = g.drop[T] \cup f.drop[T]
                          /\ Then(g, f).made[T] = g.made[T] \cup f.made[T]
    BY DEF Then
  <2>6. /\ Then(g, f).drop["responses"] = {r.id} /\ Then(g, f).drop["labels"] = Ids(LabelsOf(d, {r}))
        /\ Then(g, f).made["responses"] = {n}
    <3>1. /\ Then(g, f).drop["responses"] = {} \cup {r.id}
          /\ Then(g, f).drop["labels"] = {} \cup Ids(LabelsOf(d, {r}))
          /\ Then(g, f).made["responses"] = {n} \cup {}
      BY <1>1, <2>1, <2>5, AnswersThere
    <3> QED BY <3>1
  <2>7. Then(g, f).put["responses"] = {new}
    BY <2>3
  <2> QED BY <1>3, <1>5, <2>4, <2>6, <2>7 DEF f
<1>6. e = g \/ \E r \in ResponsesOf(d, p.id, c) : Kept(r, new) /\ p.rule # "all" /\ e = Then(g, Erased(d, {r}))
  BY Zenon DEF Filing, g
<1>7. CASE e # g
  <2>1. PICK r \in ResponsesOf(d, p.id, c) : Kept(r, new) /\ p.rule # "all" /\ e = Then(g, Erased(d, {r}))
    BY <1>6, <1>7
  <2> QED BY <1>2, <1>5, <2>1
<1> QED BY <1>4, <1>7

\* The categories a response goes into again when the rules change.
Again(d, p, r) == OrDefault(d, p, Overrides(d, r) \cup Matching(d, p, r.text)) \ Overrides(d, r)

Judged(d, p, r) == [r EXCEPT !.errors = Again(d, p, r) \cap Errors(d, p) # {}]

LEMMA ReprocessIs ==
  ASSUME NEW d, NEW n, NEW p, NEW e, e = reprocess_responses(d, n, p)
  PROVE  /\ e.put["responses"] = {Judged(d, p, r) : r \in PollResponses(d, p)}
         /\ e.put["labels"] = UNION {RuleLabels(n, r.id, Again(d, p, r)) : r \in PollResponses(d, p)}
         /\ e.drop["responses"] = {}
         /\ e.drop["labels"] = Ids({l \in LabelsOf(d, PollResponses(d, p)) : ~l.override})
<1> DEFINE all == PollResponses(d, p)
           saved == {Judged(d, p, r) : r \in all}
           labels == UNION {RuleLabels(n, r.id, Again(d, p, r)) : r \in all}
           gone == {l \in LabelsOf(d, all) : ~l.override}
           O == Deleted("labels", gone)
           L == Inserted("labels", labels)
           S == Saved("responses", saved)
<1>1. reprocess_responses(d, n, p) = Then(O, Then(L, S))
  BY Zenon DEF reprocess_responses, RuleLabels, Judged, Again
<1> HIDE DEF saved, labels, gone
<1>2. /\ O.drop["labels"] = Ids(gone) /\ O.drop["responses"] = {} /\ O.put["labels"] = {} /\ O.put["responses"] = {}
      /\ L.drop["labels"] = {} /\ L.drop["responses"] = {} /\ L.put["labels"] = labels /\ L.put["responses"] = {}
      /\ S.drop["labels"] = {} /\ S.drop["responses"] = {} /\ S.put["labels"] = {} /\ S.put["responses"] = saved
  BY AnswersThere, DeletedAt, InsertedAt, SavedAt
<1> HIDE DEF O, L, S
<1> DEFINE F == Then(L, S)
           g == Then(O, F)
<1>3. /\ \A r : r \in F.put["responses"] <=> r \in saved
      /\ \A l : l \in F.put["labels"] <=> l \in labels
      /\ F.drop["responses"] = {} /\ F.drop["labels"] = {}
  BY <1>2, AnswersThere, ThenIs
<1> HIDE DEF F
<1>4. /\ \A r : r \in g.put["responses"] <=> r \in saved
      /\ \A l : l \in g.put["labels"] <=> l \in labels
      /\ g.drop["responses"] = {} /\ \A i : i \in g.drop["labels"] <=> i \in Ids(gone)
  BY <1>2, <1>3, AnswersThere, ThenIs
<1> HIDE DEF g
<1>5. g.put["responses"] = saved /\ g.put["labels"] = labels /\ g.drop["responses"] = {} /\ g.drop["labels"] = Ids(gone)
  BY <1>4
<1> QED BY <1>1, <1>5 DEF g, F, saved, labels, gone

LEMMA ReprocessedAre ==
  ASSUME NEW d, NEW n, NEW p, NEW e, e = reprocess_responses(d, n, p)
  PROVE  /\ \A x \in e.put["responses"] : \E r \in PollResponses(d, p) : x = Judged(d, p, r)
         /\ e.drop["responses"] = {}
<1> DEFINE J(r) == Judged(d, p, r)
<1>1. e.put["responses"] = {J(r) : r \in PollResponses(d, p)} /\ e.drop["responses"] = {}
  BY ReprocessIs
<1> HIDE DEF J
<1>2. \A x \in e.put["responses"] : \E r \in PollResponses(d, p) : x = J(r)
  BY <1>1
<1> QED BY <1>1, <1>2 DEF J

\* A rule of the poll is added, changed or deleted, and none is touched otherwise.
OneRule(e, n, p) ==
  \/ \E k \in CategoriesOf(db, p) : \E w : e = Inserted("rules", {[id |-> n, category |-> k.id, word |-> w]})
  \/ \E q \in RulesOf(db, p) : \E w : e = Saved("rules", {[q EXCEPT !.word = w]})
  \/ \E q \in RulesOf(db, p) : e = Deleted("rules", {q})

\* A change of a poll's rules: the rules themselves, and then every response.
LEMMA RulesBegin ==
  ASSUME RequestsOK, NEW t, Begins(t), t.kind = "rules"
  PROVE  \E p \in TextPolls : \E e :
           LET d == After(db, e)
           IN /\ Within(e, {"rules"}, {"rules"}) /\ OneRule(e, serial + 1, p.id)
              /\ d["responses"] = db["responses"] /\ d["labels"] = db["labels"] /\ d["categories"] = db["categories"]
              /\ t.effect = Then(e, reprocess_responses(d, serial + 1, p.id))
              /\ \A r \in PollResponses(d, p.id) : ~Raises(d, p.id, Overrides(d, r) \cup Matching(d, p.id, r.text))
              /\ t.on = p.id /\ t.place = "written" /\ t.notes = {}
              /\ t.reads = {<<"categories", p.id>>} /\ t.writes = {<<"rules", p.id>>}
<1>1. Begin(t) /\ ChangeRules
  BY DEF Begins, BegunBy
<1>2. ASSUME NEW R
      PROVE  /\ Within(Inserted("rules", R), {"rules"}, {"rules"}) /\ Within(Saved("rules", R), {"rules"}, {"rules"})
             /\ Within(Deleted("rules", R), {"rules"}, {"rules"})
  BY TablesThere, WithinBasic, WithinMore DEF Schema
<1>3. PICK p \in TextPolls : \E e : Change(p, e) /\ Within(e, {"rules"}, {"rules"}) /\ OneRule(e, serial + 1, p.id)
  BY <1>1, <1>2, Zenon DEF ChangeRules, OneRule
<1>9. PICK e : Change(p, e) /\ Within(e, {"rules"}, {"rules"}) /\ OneRule(e, serial + 1, p.id)
  BY <1>3
<1> DEFINE d == After(db, e)
           f == Then(e, reprocess_responses(d, serial + 1, p.id))
<1>4. /\ \A r \in PollResponses(d, p.id) : ~Raises(d, p.id, Overrides(d, r) \cup Matching(d, p.id, r.text))
      /\ Begin(Request("rules", p.id, "written", f, {<<"categories", p.id>>}, {<<"rules", p.id>>}, {}))
  BY <1>9, Zenon DEF Change
<1>5. \A T \in Tables \ {"rules"} : d[T] = db[T]
  <2> SUFFICES ASSUME NEW T \in Tables \ {"rules"} PROVE d[T] = db[T]
    OBVIOUS
  <2>1. e.put[T] = {} /\ e.drop[T] = {}
    BY <1>9 DEF Within
  <2>2. \A r : r \in d[T] <=> r \in db[T]
    BY <2>1, AfterUntouched
  <2> QED BY <2>2
<1>6. d["responses"] = db["responses"] /\ d["labels"] = db["labels"] /\ d["categories"] = db["categories"]
  BY <1>5, AnswersThere
<1> HIDE DEF f, d
<1>7. t = Request("rules", p.id, "written", f, {<<"categories", p.id>>}, {<<"rules", p.id>>}, {})
  BY <1>1, <1>4, BeginOne
<1>8. /\ t.effect = f /\ t.on = p.id /\ t.place = "written" /\ t.notes = {}
      /\ t.reads = {<<"categories", p.id>>} /\ t.writes = {<<"rules", p.id>>}
  BY <1>7, RequestIs
<1> QED BY <1>4, <1>6, <1>8, <1>9 DEF f, d

\* The staff puts a response into other categories.
LEMMA EditBegins ==
  ASSUME RequestsOK, NEW t, Begins(t), t.kind = "edit"
  PROVE  \E r \in db["responses"] : \E C \in SUBSET CategoriesOf(db, r.poll) :
           /\ t.effect.put["responses"] = {r} /\ t.effect.drop["responses"] = {}
           /\ t.effect.put["labels"] = {Label(serial + 1, r.id, k.id, TRUE) : k \in C}
           /\ t.effect.drop["labels"] = Ids(LabelsOf(db, {r}))
           /\ t.on = r.id /\ t.place = "written" /\ t.notes = {<<"edited", r.id>>}
           /\ t.reads = {<<"rules", r.poll>>} /\ t.writes = {<<"person", r.conn>>}
<1>1. Begin(t) /\ EditResponse
  BY DEF Begins, BegunBy
<1> DEFINE O(r) == Deleted("labels", LabelsOf(db, {r}))
           labels(r, C) == {Label(serial + 1, r.id, k.id, TRUE) : k \in C}
           L(r, C) == Inserted("labels", labels(r, C))
           S(r) == Saved("responses", {r})
           f(r, C) == Then(O(r), Then(L(r, C), S(r)))
<1>2. PICK r \in db["responses"] : \E C \in SUBSET CategoriesOf(db, r.poll) :
        Begin(Request("edit", r.id, "written", f(r, C), {<<"rules", r.poll>>}, {<<"person", r.conn>>}, {<<"edited", r.id>>}))
  BY <1>1, Zenon DEF EditResponse
<1>3. PICK C \in SUBSET CategoriesOf(db, r.poll) :
        Begin(Request("edit", r.id, "written", f(r, C), {<<"rules", r.poll>>}, {<<"person", r.conn>>}, {<<"edited", r.id>>}))
  BY <1>2
<1> HIDE DEF labels
<1>4. /\ O(r).drop["labels"] = Ids(LabelsOf(db, {r})) /\ O(r).drop["responses"] = {}
      /\ O(r).put["labels"] = {} /\ O(r).put["responses"] = {}
      /\ L(r, C).drop["labels"] = {} /\ L(r, C).drop["responses"] = {}
      /\ L(r, C).put["labels"] = labels(r, C) /\ L(r, C).put["responses"] = {}
      /\ S(r).drop["labels"] = {} /\ S(r).drop["responses"] = {}
      /\ S(r).put["labels"] = {} /\ S(r).put["responses"] = {r}
  BY AnswersThere, DeletedAt, InsertedAt, SavedAt
<1> HIDE DEF O, L, S
<1> DEFINE F == Then(L(r, C), S(r))
           g == Then(O(r), F)
<1>5. /\ \A x : x \in F.put["responses"] <=> x = r
      /\ \A l : l \in F.put["labels"] <=> l \in labels(r, C)
      /\ F.drop["responses"] = {} /\ F.drop["labels"] = {}
  BY <1>4, AnswersThere, ThenIs
<1> HIDE DEF F
<1>6. /\ \A x : x \in g.put["responses"] <=> x = r
      /\ \A l : l \in g.put["labels"] <=> l \in labels(r, C)
      /\ g.drop["responses"] = {} /\ \A i : i \in g.drop["labels"] <=> i \in Ids(LabelsOf(db, {r}))
  BY <1>4, <1>5, AnswersThere, ThenIs
<1>7. f(r, C) = g
  BY DEF F
<1> HIDE DEF f, g
<1>8. /\ g.put["responses"] = {r} /\ g.put["labels"] = labels(r, C)
      /\ g.drop["responses"] = {} /\ g.drop["labels"] = Ids(LabelsOf(db, {r}))
  BY <1>6
<1>9. t = Request("edit", r.id, "written", g, {<<"rules", r.poll>>}, {<<"person", r.conn>>}, {<<"edited", r.id>>})
  BY <1>1, <1>3, <1>7, BeginOne
<1>10. /\ t.effect = g /\ t.on = r.id /\ t.place = "written" /\ t.notes = {<<"edited", r.id>>}
       /\ t.reads = {<<"rules", r.poll>>} /\ t.writes = {<<"person", r.conn>>}
  BY <1>9, RequestIs
<1> QED BY <1>8, <1>10, Zenon DEF labels

LEMMA EraseBegins ==
  ASSUME RequestsOK, NEW t, Begins(t), t.kind = "erase"
  PROVE  \E r \in db["responses"] :
           /\ \A T \in Tables : t.effect.put[T] = {}
           /\ t.effect.drop["responses"] = {r.id} /\ t.effect.drop["labels"] = Ids(LabelsOf(db, {r}))
           /\ t.place = "written" /\ t.notes = {}
           /\ t.reads = {<<"rules", r.poll>>} /\ t.writes = {<<"person", r.conn>>}
<1>1. Begin(t) /\ DeleteResponse
  BY DEF Begins, BegunBy
<1>2. PICK r \in db["responses"] :
        Begin(Request("erase", r.id, "written", Erased(db, {r}), {<<"rules", r.poll>>}, {<<"person", r.conn>>}, {}))
  BY <1>1, Zenon DEF DeleteResponse
<1>3. t = Request("erase", r.id, "written", Erased(db, {r}), {<<"rules", r.poll>>}, {<<"person", r.conn>>}, {})
  BY <1>1, <1>2, BeginOne
<1>4. /\ t.effect = Erased(db, {r}) /\ t.place = "written" /\ t.notes = {}
      /\ t.reads = {<<"rules", r.poll>>} /\ t.writes = {<<"person", r.conn>>}
  BY <1>3, RequestIs
<1>5. Ids({r}) = {r.id}
  BY DEF Ids
<1>6. /\ \A T \in Tables : Erased(db, {r}).put[T] = {}
      /\ Erased(db, {r}).drop["labels"] = Ids(LabelsOf(db, {r})) /\ Erased(db, {r}).drop["responses"] = Ids({r})
  BY ErasedIs
<1> QED BY <1>4, <1>5, <1>6

\* A change of a poll's categories takes labels away only with their category.
LEMMA RecategoriseBegins ==
  ASSUME RequestsOK, NEW t, Begins(t), t.kind = "category"
  PROVE  /\ \E p : /\ t.on = p /\ t.reads = {<<"rules", p>>} /\ t.writes = {<<"categories", p>>}
                   /\ t.notes = {<<"recategorised", p>>} /\ t.place = "written"
                   /\ \A k \in db["categories"] : k.id \in t.effect.drop["categories"] => \E j \in db["categories"] : j.id = k.id /\ j.poll = p
         /\ \/ \A T \in {"labels", "rules", "categories"} : t.effect.drop[T] = {}
            \/ \E k \in db["categories"] :
                 /\ t.effect.put["categories"] = {} /\ t.effect.drop["categories"] = {k.id}
                 /\ t.effect.drop["labels"] = Ids({l \in db["labels"] : l.category = k.id})
                 /\ t.effect.drop["rules"] = Ids({q \in db["rules"] : q.category = k.id})
<1>1. Begin(t) /\ (AddCategory \/ EditCategory \/ DeleteCategory)
  BY DEF Begins, BegunBy
<1> DEFINE r(p, e) == Request("category", p, "written", e, {<<"rules", p>>}, {<<"categories", p>>},
                              {<<"recategorised", p>>})
           Fine(e) == \A T \in {"labels", "rules", "categories"} : e.drop[T] = {}
           start(p, default) == IF default THEN NoDefaults(p) ELSE NoEffect
<1>2. ASSUME NEW e, NEW f, Fine(e), Fine(f) PROVE Fine(Then(e, f))
  BY <1>2, AnswersThere, ThenNothing
<1>3. ASSUME NEW R PROVE Fine(NoEffect) /\ Fine(Inserted("categories", R)) /\ Fine(Saved("categories", R))
  BY AnswersThere, NoEffectAt, DropBasic
<1>4. ASSUME NEW p, NEW default PROVE Fine(start(p, default))
  BY <1>3 DEF NoDefaults
<1>5. ASSUME NEW p, NEW e, Recategorised(p, e)
      PROVE  /\ t.effect = e /\ t.on = p /\ t.reads = {<<"rules", p>>} /\ t.writes = {<<"categories", p>>}
             /\ t.notes = {<<"recategorised", p>>} /\ t.place = "written"
  <2>1. Begin(r(p, e))
    BY <1>5, Zenon DEF Recategorised
  <2>2. t = r(p, e)
    BY <1>1, <2>1, BeginOne
  <2> QED BY <2>2, RequestIs
<1> HIDE DEF Fine, start
<1>6. CASE AddCategory
  <2>1. PICK p \in db["polls"], default \in BOOLEAN :
          Recategorised(p.id, Then(start(p.id, default), Inserted("categories", {Category(serial + 1, p.id, default)})))
    BY <1>6, Zenon DEF AddCategory, start
  <2>2. Fine(Then(start(p.id, default), Inserted("categories", {Category(serial + 1, p.id, default)})))
    BY <1>2, <1>3, <1>4
  <2>3. Fine(t.effect)
    BY <1>5, <2>1, <2>2
  <2> QED BY <1>5, <2>1, <2>3, Zenon DEF Fine
<1>7. CASE EditCategory
  <2>1. PICK k \in db["categories"], default \in BOOLEAN :
          Recategorised(k.poll, Then(start(k.poll, default), Saved("categories", {[k EXCEPT !.default = default]})))
    BY <1>7, Zenon DEF EditCategory, start
  <2>2. Fine(Then(start(k.poll, default), Saved("categories", {[k EXCEPT !.default = default]})))
    BY <1>2, <1>3, <1>4
  <2>3. Fine(t.effect)
    BY <1>5, <2>1, <2>2
  <2> QED BY <1>5, <2>1, <2>3, Zenon DEF Fine
<1>8. CASE DeleteCategory
  <2> DEFINE L(k) == Deleted("labels", {l \in db["labels"] : l.category = k.id})
             Q(k) == Deleted("rules", {q \in db["rules"] : q.category = k.id})
             K(k) == Deleted("categories", {k})
             F(k) == Then(Q(k), K(k))
             e(k) == Then(L(k), F(k))
  <2>1. PICK k \in db["categories"] : Recategorised(k.poll, e(k))
    BY <1>8, Zenon DEF DeleteCategory
  <2>2. /\ L(k).drop["labels"] = Ids({l \in db["labels"] : l.category = k.id})
        /\ Q(k).drop["labels"] = {} /\ K(k).drop["labels"] = {}
        /\ L(k).drop["rules"] = {} /\ K(k).drop["rules"] = {}
        /\ Q(k).drop["rules"] = Ids({q \in db["rules"] : q.category = k.id})
        /\ L(k).drop["categories"] = {} /\ Q(k).drop["categories"] = {} /\ K(k).drop["categories"] = Ids({k})
        /\ \A T \in Tables : L(k).put[T] = {} /\ Q(k).put[T] = {} /\ K(k).put[T] = {}
    BY AnswersThere, DeletedAt
  <2>3. Ids({k}) = {k.id}
    BY DEF Ids
  <2> HIDE DEF L, Q, K
  <2>4. /\ F(k).drop["labels"] = {} /\ \A i : i \in F(k).drop["categories"] <=> i = k.id
        /\ F(k).put["categories"] = {} /\ F(k).drop["rules"] = Q(k).drop["rules"] \cup K(k).drop["rules"]
    <3>1. F(k).put["categories"] = {} /\ F(k).drop["labels"] = {}
      BY <2>2, AnswersThere, ThenNothing
    <3>2. /\ F(k).drop["categories"] = Q(k).drop["categories"] \cup K(k).drop["categories"]
          /\ F(k).drop["rules"] = Q(k).drop["rules"] \cup K(k).drop["rules"]
      BY AnswersThere DEF Then
    <3> QED BY <2>2, <2>3, <3>1, <3>2
  <2> HIDE DEF F
  <2>5. /\ \A i : i \in e(k).drop["labels"] <=> i \in Ids({l \in db["labels"] : l.category = k.id})
        /\ \A i : i \in e(k).drop["categories"] <=> i = k.id
        /\ e(k).put["categories"] = {}
        /\ \A i : i \in e(k).drop["rules"] <=> i \in Ids({q \in db["rules"] : q.category = k.id})
    <3>1. e(k).put["categories"] = {}
      BY <2>2, <2>4, AnswersThere, ThenNothing
    <3>2. /\ e(k).drop["categories"] = L(k).drop["categories"] \cup F(k).drop["categories"]
          /\ e(k).drop["labels"] = L(k).drop["labels"] \cup F(k).drop["labels"]
          /\ e(k).drop["rules"] = L(k).drop["rules"] \cup F(k).drop["rules"]
      BY AnswersThere DEF Then
    <3> QED BY <2>2, <2>4, <3>1, <3>2
  <2> HIDE DEF e
  <2>6. /\ e(k).drop["labels"] = Ids({l \in db["labels"] : l.category = k.id})
        /\ e(k).drop["rules"] = Ids({q \in db["rules"] : q.category = k.id})
        /\ e(k).drop["categories"] = {k.id} /\ e(k).put["categories"] = {}
    BY <2>5
  <2>7. /\ t.effect = e(k) /\ t.on = k.poll /\ t.reads = {<<"rules", k.poll>>} /\ t.writes = {<<"categories", k.poll>>}
        /\ t.notes = {<<"recategorised", k.poll>>} /\ t.place = "written"
    BY <1>5, <2>1
  <2>8. \A j \in db["categories"] : j.id \in t.effect.drop["categories"] => k.id = j.id
    BY <2>6, <2>7
  <2> QED BY <2>6, <2>7, <2>8
<1> QED BY <1>1, <1>6, <1>7, <1>8

\* A poll is edited, or deleted with its answers.
LEMMA PollBegins ==
  ASSUME RequestsOK, NEW t, Begins(t), t.kind = "poll"
  PROVE  \/ \A T \in AnswerTables : t.effect.put[T] = {} /\ t.effect.drop[T] = {}
         \/ \E p \in db["polls"] :
              /\ t.on = p /\ \A T \in AnswerTables : t.effect.put[T] = {}
              /\ t.effect.drop["responses"] = Ids(PollResponses(db, p.id))
              /\ t.effect.drop["labels"] = Ids(LabelsOf(db, PollResponses(db, p.id)))
              /\ t.effect.drop["rules"] = Ids(RulesOf(db, p.id))
              /\ t.effect.drop["categories"] = Ids(CategoriesOf(db, p.id))
<1>1. Begin(t) /\ (EditPoll \/ DeletePoll)
  BY DEF Begins, BegunBy
<1>2. CASE EditPoll
  <2> DEFINE gone(p, C) == Deleted("recipients", {m \in db["recipients"] : m.poll = p.id /\ m.conn \notin C})
             add(p, C) == Added(p.id, C \ Recipients(db, p.id))
             save(p) == Saved("polls", {p})
             e(p, C) == Then(save(p), Then(gone(p, C), add(p, C)))
             notes(p, C) == IF p.start = 0 THEN {} ELSE {<<"late", <<p.id, c>>>> : c \in C \ Recipients(db, p.id)}
             u(p, C) == WithRecipients(Dates("poll", p, e(p, C)))
             v(p, C) == [u(p, C) EXCEPT !.notes = notes(p, C)]
  <2>1. PICK p \in db["polls"], C \in SUBSET {k.id : k \in db["contacts"]} : Begin(v(p, C))
    BY <1>2, Zenon DEF EditPoll
  <2>2. t = v(p, C)
    BY <1>1, <2>1, BeginOne
  <2>3. \A T \in AnswerTables : e(p, C).put[T] = {} /\ e(p, C).drop[T] = {}
    <3>1. /\ Within(gone(p, C), {}, {"recipients"}) /\ Within(add(p, C), {"recipients"}, {})
          /\ Within(save(p), {"polls"}, {})
      BY TablesThere, WithinBasic DEF Added, Schema
    <3> HIDE DEF gone, add, save
    <3>2. Within(Then(gone(p, C), add(p, C)), {} \cup {"recipients"}, {"recipients"} \cup {})
      BY <3>1, WithinThen
    <3>3. Within(e(p, C), {"polls"} \cup ({} \cup {"recipients"}), {} \cup ({"recipients"} \cup {}))
      BY <3>1, <3>2, WithinThen
    <3> HIDE DEF e
    <3> QED BY <3>3, TablesThere DEF Within, AnswerTables, Schema
  <2> HIDE DEF e, notes
  <2>4. u(p, C).effect = e(p, C) /\ Shape(u(p, C))
    BY WithRecipientsHas
  <2>5. v(p, C).effect = e(p, C)
    <3> HIDE DEF u
    <3> QED BY <2>4 DEF Shape, Request
  <2> HIDE DEF v
  <2> QED BY <2>2, <2>3, <2>5
<1>3. CASE DeletePoll
  <2> DEFINE mark(p) == Inserted("tombstones", {[id |-> <<"polls", p.id>>]})
             erase(p) == Erased(db, PollResponses(db, p.id))
             rules(p) == Deleted("rules", RulesOf(db, p.id))
             cats(p) == Deleted("categories", CategoriesOf(db, p.id))
             members(p) == Deleted("recipients", {m \in db["recipients"] : m.poll = p.id})
             poll(p) == Deleted("polls", {p})
             f1(p) == Then(members(p), poll(p))
             f2(p) == Then(cats(p), f1(p))
             f3(p) == Then(rules(p), f2(p))
             f4(p) == Then(erase(p), f3(p))
             e(p) == Then(mark(p), f4(p))
  <2>1. PICK p \in db["polls"] : Begin(Request("poll", p, "written", e(p), {<<"recipients", p.id>>}, {<<"dates", p.id>>}, {}))
    BY <1>3, Zenon DEF DeletePoll, Dates
  <2>2. \A T \in AnswerTables :
          /\ mark(p).put[T] = {} /\ mark(p).drop[T] = {}
          /\ members(p).put[T] = {} /\ members(p).drop[T] = {} /\ poll(p).put[T] = {} /\ poll(p).drop[T] = {}
          /\ rules(p).put[T] = {} /\ rules(p).drop[T] = IF T = "rules" THEN Ids(RulesOf(db, p.id)) ELSE {}
          /\ cats(p).put[T] = {} /\ cats(p).drop[T] = IF T = "categories" THEN Ids(CategoriesOf(db, p.id)) ELSE {}
    <3> SUFFICES ASSUME NEW T \in AnswerTables
                 PROVE  /\ mark(p).put[T] = {} /\ mark(p).drop[T] = {}
                        /\ members(p).put[T] = {} /\ members(p).drop[T] = {}
                        /\ poll(p).put[T] = {} /\ poll(p).drop[T] = {}
                        /\ rules(p).put[T] = {} /\ rules(p).drop[T] = IF T = "rules" THEN Ids(RulesOf(db, p.id)) ELSE {}
                        /\ cats(p).put[T] = {}
                        /\ cats(p).drop[T] = IF T = "categories" THEN Ids(CategoriesOf(db, p.id)) ELSE {}
      OBVIOUS
    <3>1. T \in Tables /\ T # "tombstones" /\ T # "recipients" /\ T # "polls"
      BY TablesThere DEF Schema, AnswerTables
    <3>2. "tombstones" \in Tables /\ "recipients" \in Tables
      BY TablesThere DEF Schema
    <3>3. mark(p).put[T] = {} /\ mark(p).drop[T] = {}
      BY <3>1, <3>2, InsertedAt
    <3>4. members(p).put[T] = {} /\ members(p).drop[T] = {}
      BY <3>1, <3>2, DeletedAt
    <3>5. poll(p).put[T] = {} /\ poll(p).drop[T] = {}
      BY <3>1, AnswersThere, DeletedAt
    <3>6. rules(p).put[T] = {} /\ rules(p).drop[T] = IF T = "rules" THEN Ids(RulesOf(db, p.id)) ELSE {}
      BY <3>1, AnswersThere, DeletedAt
    <3>7. cats(p).put[T] = {} /\ cats(p).drop[T] = IF T = "categories" THEN Ids(CategoriesOf(db, p.id)) ELSE {}
      BY <3>1, AnswersThere, DeletedAt
    <3> QED BY <3>3, <3>4, <3>5, <3>6, <3>7
  <2>3. Within(erase(p), {}, {"responses", "labels"})
    BY ErasedWithin
  <2>4. /\ erase(p).drop["labels"] = Ids(LabelsOf(db, PollResponses(db, p.id)))
        /\ erase(p).drop["responses"] = Ids(PollResponses(db, p.id))
    BY ErasedIs
  <2> HIDE DEF mark, erase, rules, cats, members, poll
  <2>5. AnswerTables \subseteq Tables
    BY TablesThere DEF Schema, AnswerTables
  <2>6. \A T \in AnswerTables : f1(p).put[T] = {} /\ f1(p).drop[T] = {}
    BY <2>2, <2>5, ThenNothing
  <2> HIDE DEF f1
  <2>7. \A T \in AnswerTables : f2(p).put[T] = {} /\ \A i : i \in f2(p).drop[T] <=> i \in cats(p).drop[T]
    BY <2>2, <2>5, <2>6, ThenNothing, ThenIs
  <2> HIDE DEF f2
  <2>8. \A T \in AnswerTables :
          f3(p).put[T] = {} /\ \A i : i \in f3(p).drop[T] <=> i \in rules(p).drop[T] \/ i \in cats(p).drop[T]
    BY <2>2, <2>5, <2>7, ThenNothing, ThenIs
  <2> HIDE DEF f3
  <2>9. \A T \in AnswerTables :
          /\ f4(p).put[T] = {}
          /\ \A i : i \in f4(p).drop[T] <=> i \in erase(p).drop[T] \/ i \in rules(p).drop[T] \/ i \in cats(p).drop[T]
    BY <2>3, <2>5, <2>8, ThenNothing, ThenIs DEF Within
  <2> HIDE DEF f4
  <2>10. \A T \in AnswerTables :
           /\ e(p).put[T] = {}
           /\ \A i : i \in e(p).drop[T] <=> i \in erase(p).drop[T] \/ i \in rules(p).drop[T] \/ i \in cats(p).drop[T]
    BY <2>2, <2>5, <2>9, ThenNothing, ThenIs
  <2> HIDE DEF e
  <2>11. /\ erase(p).drop["rules"] = {} /\ erase(p).drop["categories"] = {}
    BY <2>3, AnswersThere DEF Within
  <2>12. /\ \A i : i \in e(p).drop["responses"] <=> i \in Ids(PollResponses(db, p.id))
         /\ \A i : i \in e(p).drop["labels"] <=> i \in Ids(LabelsOf(db, PollResponses(db, p.id)))
         /\ \A i : i \in e(p).drop["rules"] <=> i \in Ids(RulesOf(db, p.id))
         /\ \A i : i \in e(p).drop["categories"] <=> i \in Ids(CategoriesOf(db, p.id))
    BY <2>2, <2>4, <2>10, <2>11 DEF AnswerTables
  <2>13. t = Request("poll", p, "written", e(p), {<<"recipients", p.id>>}, {<<"dates", p.id>>}, {})
    BY <1>1, <2>1, BeginOne
  <2>14. t.effect = e(p) /\ t.on = p
    BY <2>13, RequestIs
  <2>15. /\ e(p).drop["responses"] = Ids(PollResponses(db, p.id))
         /\ e(p).drop["labels"] = Ids(LabelsOf(db, PollResponses(db, p.id)))
         /\ e(p).drop["rules"] = Ids(RulesOf(db, p.id)) /\ e(p).drop["categories"] = Ids(CategoriesOf(db, p.id))
    BY <2>12
  <2> QED BY <2>10, <2>14, <2>15
<1> QED BY <1>1, <1>2, <1>3

-----------------------------------------------------------------------------
(***************************************************************************)
(* The responses, and those that open requests have read.                  *)
(***************************************************************************)

\* The number of a request that is over.
Past(i) == i \in 1 .. serial /\ i \notin DOMAIN open

Unanswered(t) == \A T \in AppPuts : t.effect.put[T] = {} /\ t.effect.drop[T] = {}

\* What a message that waits for the poll app has written, with what the app adds.
LEMMA FirstOf ==
  ASSUME NEW t, NEW e, NEW d, Unanswered(t), NEW T \in AppPuts
  PROVE  /\ Then(t.effect, e).put[T] = e.put[T] /\ Then(t.effect, e).drop[T] = e.drop[T]
         /\ After(d, t.effect)[T] = d[T]
<1>1. T \in Tables /\ t.effect.put[T] = {} /\ t.effect.drop[T] = {}
  BY AnswersThere DEF AppPuts, Unanswered
<1>2. /\ \A r : r \in Then(t.effect, e).put[T] <=> r \in e.put[T]
      /\ \A i : i \in Then(t.effect, e).drop[T] <=> i \in e.drop[T]
  BY <1>1, ThenIs
<1>3. \A r : r \in After(d, t.effect)[T] <=> r \in d[T]
  BY <1>1, AfterUntouched
<1>4. Then(t.effect, e).put[T] = e.put[T]
  BY <1>2
<1>5. Then(t.effect, e).drop[T] = e.drop[T]
  BY <1>2
<1>6. After(d, t.effect)[T] = d[T]
  BY <1>3
<1> QED BY <1>4, <1>5, <1>6

\* The ids of past requests stay past.
LEMMA PastStays ==
  ASSUME RequestsOK, [Next]_vars
  PROVE  /\ \A i : Past(i) => Past(i)'
         /\ serial <= serial' /\ serial' \in Nat /\ serial \in Nat
         /\ \A n \in DOMAIN open : n \in DOMAIN open' \/ Past(n)'
<1>1. CASE \E t : Begin(t)
  <2>1. PICK t : Begin(t)
    BY <1>1
  <2>2. /\ serial' = serial + 1 /\ DOMAIN open' = DOMAIN open \cup {serial'} /\ serial \in Nat
        /\ DOMAIN open \subseteq 1 .. serial
    BY <2>1, BeginSeen DEF RequestsOK
  <2> QED BY <2>2 DEF Past
<1>2. CASE ~\E t : Begin(t)
  <2>1. /\ DOMAIN open' \subseteq DOMAIN open /\ serial' = serial
    <3>1. \/ \E n \in DOMAIN open : PollPhase(n) \/ FormPhase(n) \/ MassTextCommits(n) \/ Finish(n) \/ Fail(n)
          \/ UNCHANGED database
      BY <1>2, Moving DEF Moves, Begins
    <3>2. ASSUME NEW n \in DOMAIN open, PollPhase(n) \/ FormPhase(n)
          PROVE  DOMAIN open' = DOMAIN open /\ serial' = serial
      <4>1. PICK e, place : Phase(n, e, place)
        BY <3>2, PollPhaseIs, FormPhaseIs
      <4> QED BY <4>1, PhaseOpen DEF Phase
    <3>3. ASSUME NEW n \in DOMAIN open, MassTextCommits(n) PROVE DOMAIN open' = DOMAIN open /\ serial' = serial
      BY <3>3, MassTextOpen, MassTextIs
    <3>4. ASSUME NEW n \in DOMAIN open, Finish(n) \/ Fail(n)
          PROVE  DOMAIN open' \subseteq DOMAIN open /\ serial' = serial
      <4>1. open' = Closed(n) /\ serial' = serial
        BY <3>4 DEF Finish, Commit, Fail, Rollback
      <4> QED BY <4>1, ClosedOpen
    <3>5. CASE UNCHANGED database
      BY <3>5 DEF database
    <3> QED BY <3>1, <3>2, <3>3, <3>4, <3>5
  <2> QED BY <2>1 DEF Past, RequestsOK
<1> QED BY <1>1, <1>2

LEMMA MessageUnanswered ==
  ASSUME RequestsOK, NEW t, Begins(t), t.kind = "message"
  PROVE  Unanswered(t)
<1>1. PICK c, text, out : out \in Education(db, serial + 1, c, text) /\ t.on = [conn |-> c, text |-> text]
                     /\ t.writes = Topics(c, text) /\ t.effect = Then(update_last_reporting_date(db, c), out.effect)
  BY MessageBegins
<1> DEFINE e == update_last_reporting_date(db, c)
<1>3. Within(e, {"contacts"}, {})
  BY TablesThere, WithinBasic DEF Schema, update_last_reporting_date
<1> HIDE DEF e
<1>4. Within(Then(e, out.effect), {"contacts"} \cup {"roster", "contacts", "blacklist"}, {} \cup {"roster", "blacklist"})
  BY <1>1, <1>3, WordsWithin, WithinThen
<1> QED BY <1>1, <1>4, AnswersThere DEF Within, Unanswered, AppPuts, e

ResponseRow(r)   == r = NewResponse(r.id, r.poll, r.conn, r.text, r.errors)
\* The same answer, in error or not.
SameAnswer(q, r) == q.id = r.id /\ q.poll = r.poll /\ q.conn = r.conn /\ q.text = r.text

Changed(p) == <<"rules", p>> \in history

\* A request that saves a response is an edit of it, or a change of its poll's rules.
Saves(t, r) ==
  \/ t.kind = "edit" /\ <<"rules", r.poll>> \in t.reads /\ <<"person", r.conn>> \in t.writes
  \/ t.kind = "rules" /\ <<"rules", r.poll>> \in t.writes /\ r.poll \in PollIds

\* A message that waits for the poll app has written nothing of it, and has read
\* the rules; its answer is a new row.
Waits(n, t) ==
  /\ t.place = "poll" => t.kind = "message" /\ Unanswered(t)
  /\ t.kind = "message" =>
       /\ {"rules", "categories"} \X PollIds \subseteq t.reads
       /\ \A r \in t.effect.put["responses"] : r.id = n /\ n \in t.effect.made["responses"]

WaitsOK == \A n \in DOMAIN open : Waits(n, open[n])

\* The rows that are there, and those that open requests write: a row of an id
\* is the same answer everywhere.
ResponseRows  == Unique(db["responses"]) /\ \A r \in db["responses"] : ResponseRow(r) /\ Past(r.id)
ResponsesPut  == \A n \in DOMAIN open :
                   /\ Unique(open[n].effect.put["responses"])
                   /\ \A r \in open[n].effect.put["responses"] :
                        ResponseRow(r) /\ (open[n].kind = "message" \/ (Past(r.id) /\ Saves(open[n], r)))
ResponsesTaken == \A n \in DOMAIN open : \A i \in open[n].effect.drop["responses"] : Past(i)
WithPut        == \A n \in DOMAIN open : \A r \in open[n].effect.put["responses"], q \in db["responses"] :
                    q.id = r.id => SameAnswer(q, r)
PutAlike       == \A n, k \in DOMAIN open :
                    \A r \in open[n].effect.put["responses"], q \in open[k].effect.put["responses"] :
                      q.id = r.id => SameAnswer(q, r)

\* An edit saves what is there, and what another would save, unless the rules
\* have changed meanwhile.
EditsCurrent == \A n \in DOMAIN open : open[n].kind = "edit" =>
                  \A r \in open[n].effect.put["responses"], q \in db["responses"] :
                    q.id = r.id => q = r \/ Changed(r.poll)
EditsAlike   == \A n, k \in DOMAIN open : open[n].kind = "edit" /\ open[k].kind = "edit" =>
                  \A r \in open[n].effect.put["responses"], q \in open[k].effect.put["responses"] :
                    q.id = r.id => q = r \/ Changed(r.poll)

\* An answer takes the place of one in error, or is a good one itself.
Replaced(t, q) == q.errors \/ \E x \in t.effect.put["responses"] : ~x.errors /\ x.poll = q.poll /\ x.conn = q.conn

ReplacesThere == \A n \in DOMAIN open : open[n].kind = "message" =>
                   \A i \in open[n].effect.drop["responses"], q \in db["responses"] :
                     q.id = i => Replaced(open[n], q) \/ Changed(q.poll)
ReplacesSaved == \A n, k \in DOMAIN open : open[n].kind = "message" /\ open[k].kind = "edit" =>
                   \A i \in open[n].effect.drop["responses"], q \in open[k].effect.put["responses"] :
                     q.id = i => Replaced(open[n], q) \/ Changed(q.poll)

ResponsesOK ==
  /\ ResponseRows /\ ResponsesPut /\ ResponsesTaken /\ WithPut /\ PutAlike
  /\ EditsCurrent /\ EditsAlike /\ ReplacesThere /\ ReplacesSaved

OfResponses(t) ==
  /\ t.kind = "message" => Unanswered(t) /\ {"rules", "categories"} \X PollIds \subseteq t.reads
  /\ t.place = "poll" => t.kind = "message"
  /\ Unique(t.effect.put["responses"])
  /\ \A r \in t.effect.put["responses"] :
       ResponseRow(r) /\ Saves(t, r) /\ \E q \in db["responses"] : SameAnswer(q, r) /\ (t.kind = "edit" => q = r)
  /\ \A i \in t.effect.drop["responses"] : \E q \in db["responses"] : q.id = i

LEMMA JudgedIs ==
  ASSUME NEW d, NEW p, NEW r, ResponseRow(r)
  PROVE  ResponseRow(Judged(d, p, r)) /\ SameAnswer(r, Judged(d, p, r))
<1> DEFINE bad == Again(d, p, r) \cap Errors(d, p) # {}
           i == r.id
           poll == r.poll
           c == r.conn
           text == r.text
           errors == r.errors
<1>1. r = [id |-> i, poll |-> poll, conn |-> c, text |-> text, errors |-> errors]
  BY DEF ResponseRow, NewResponse
<1>2. Judged(d, p, r) = [r EXCEPT !.errors = bad]
  BY DEF Judged
<1> HIDE DEF bad, i, poll, c, text, errors
<1>3. Judged(d, p, r) = [id |-> i, poll |-> poll, conn |-> c, text |-> text, errors |-> bad]
  BY <1>1, <1>2
<1> QED BY <1>1, <1>3 DEF ResponseRow, NewResponse, SameAnswer

LEMMA ResponsesBegin ==
  ASSUME RequestsOK, ResponsesOK, NEW t, Begins(t), Wellformed(t)
  PROVE  OfResponses(t)
<1>1. Begin(t) /\ Own(t) /\ BegunBy(t.kind) /\ "responses" \in Tables
  BY AnswersThere DEF Begins
<1>2. t.kind # "message" => t.place # "poll"
  BY DEF Wellformed
<1>3. ASSUME t.kind # "message", t.effect.put["responses"] = {}, \A i \in t.effect.drop["responses"] : \E q \in db["responses"] : q.id = i
      PROVE  OfResponses(t)
  BY <1>2, <1>3 DEF OfResponses, Unique
<1>4. CASE t.kind = "message"
  <2>1. Unanswered(t)
    BY <1>4, MessageUnanswered
  <2>2. t.effect.put["responses"] = {} /\ t.effect.drop["responses"] = {}
    BY <2>1 DEF Unanswered, AppPuts
  <2>3. t.reads = {"rules", "categories"} \X PollIds
    <3>1. PICK c \in Connections, text \in Texts : \E out \in Education(db, serial + 1, c, text) :
            /\ ~IsRemoved(db, c) /\ t.on = [conn |-> c, text |-> text]
            /\ t.place = IF out.handled THEN "written" ELSE "poll"
            /\ t.effect = Then(update_last_reporting_date(db, c), out.effect)
            /\ t.reads = {"rules", "categories"} \X PollIds /\ t.writes = Topics(c, text) /\ t.notes = {}
      BY <1>4, MessageBegins
    <3> QED BY <3>1
  <2> QED BY <1>4, <2>1, <2>2, <2>3 DEF OfResponses, Unique
<1>5. CASE t.kind \notin {"message", "remove", "poll", "rules", "edit", "erase"}
  <2>1. "responses" \notin Puts[t.kind] /\ "responses" \notin Drops[t.kind]
    BY <1>1, <1>5 DEF Own, Puts, Drops, RosterTables
  <2>2. t.effect.put["responses"] = {} /\ t.effect.drop["responses"] = {}
    BY <1>1, <2>1 DEF Own, Within
  <2> QED BY <1>3, <1>5, <2>2
<1>6. CASE t.kind = "remove"
  <2>1. t.effect.drop["responses"] = Ids(OfConnection(db, "responses", t.on))
    BY <1>6, RemovalIs, AnswersThere
  <2>2. t.effect.put["responses"] = {}
    BY <1>1, <1>6 DEF Own, Within, Puts
  <2>3. \A i \in t.effect.drop["responses"] : \E q \in db["responses"] : q.id = i
    BY <2>1 DEF Ids, OfConnection
  <2> QED BY <1>3, <1>6, <2>2, <2>3
<1>7. CASE t.kind = "erase"
  <2>1. PICK r \in db["responses"] :
          /\ \A T \in Tables : t.effect.put[T] = {}
          /\ t.effect.drop["responses"] = {r.id} /\ t.effect.drop["labels"] = Ids(LabelsOf(db, {r}))
    BY <1>7, EraseBegins
  <2> QED BY <1>1, <1>3, <1>7, <2>1
<1>8. CASE t.kind = "poll"
  <2>1. CASE \A U \in AnswerTables : t.effect.put[U] = {} /\ t.effect.drop[U] = {}
    BY <1>3, <1>8, <2>1 DEF AnswerTables
  <2>2. ASSUME NEW p \in db["polls"], \A U \in AnswerTables : t.effect.put[U] = {},
               t.effect.drop["responses"] = Ids(PollResponses(db, p.id))
        PROVE  OfResponses(t)
    BY <1>3, <1>8, <2>2 DEF AnswerTables, Ids, PollResponses
  <2> QED BY <1>8, <2>1, <2>2, PollBegins
<1>9. CASE t.kind = "edit"
  <2>1. PICK r \in db["responses"] : \E C \in SUBSET CategoriesOf(db, r.poll) :
          /\ t.effect.put["responses"] = {r} /\ t.effect.drop["responses"] = {}
          /\ t.reads = {<<"rules", r.poll>>} /\ t.writes = {<<"person", r.conn>>}
    BY <1>9, EditBegins, Zenon
  <2>2. /\ t.effect.put["responses"] = {r} /\ t.effect.drop["responses"] = {}
        /\ t.reads = {<<"rules", r.poll>>} /\ t.writes = {<<"person", r.conn>>}
    BY <2>1
  <2>3. ResponseRow(r)
    BY DEF ResponsesOK, ResponseRows
  <2> QED BY <1>2, <1>9, <2>2, <2>3 DEF OfResponses, Unique, Saves, SameAnswer
<1>10. CASE t.kind = "rules"
  <2>1. PICK p \in TextPolls : \E e :
          /\ Within(e, {"rules"}, {"rules"}) /\ After(db, e)["responses"] = db["responses"]
          /\ t.effect = Then(e, reprocess_responses(After(db, e), serial + 1, p.id))
          /\ t.writes = {<<"rules", p.id>>}
    BY <1>10, RulesBegin
  <2>2. PICK e : /\ Within(e, {"rules"}, {"rules"}) /\ After(db, e)["responses"] = db["responses"]
                 /\ t.effect = Then(e, reprocess_responses(After(db, e), serial + 1, p.id))
                 /\ t.writes = {<<"rules", p.id>>}
    BY <2>1
  <2> DEFINE d == After(db, e)
             f == reprocess_responses(d, serial + 1, p.id)
  <2>3. /\ \A x \in f.put["responses"] : \E r \in PollResponses(d, p.id) : x = Judged(d, p.id, r)
        /\ f.drop["responses"] = {}
    <3>1. f = reprocess_responses(d, serial + 1, p.id)
      OBVIOUS
    <3> HIDE DEF f, d
    <3> QED BY <3>1, ReprocessedAre
  <2>4. e.put["responses"] = {} /\ e.drop["responses"] = {}
    BY <1>1, <2>2 DEF Within
  <2>5. p.id \in PollIds
    BY DEF TextPolls, RequestsOK, PollTable, Poll
  <2>6. \A r \in PollResponses(d, p.id) : r \in db["responses"] /\ r.poll = p.id
    BY <2>2 DEF PollResponses
  <2> HIDE DEF f, d
  <2>7. /\ \A r : r \in Then(e, f).put["responses"] <=> r \in f.put["responses"]
        /\ \A i : i \notin Then(e, f).drop["responses"]
    BY <1>1, <2>3, <2>4, ThenIs
  <2>8. ASSUME NEW r \in t.effect.put["responses"]
        PROVE  \E q \in db["responses"] : q.poll = p.id /\ ResponseRow(r) /\ SameAnswer(q, r) /\ r = Judged(d, p.id, q)
    <3>1. r \in f.put["responses"]
      BY <2>2, <2>7, <2>8 DEF f, d
    <3>2. PICK q \in PollResponses(d, p.id) : r = Judged(d, p.id, q)
      BY <2>3, <3>1
    <3>3. q \in db["responses"] /\ q.poll = p.id /\ ResponseRow(q)
      BY <2>6 DEF ResponsesOK, ResponseRows
    <3> QED BY <3>2, <3>3, JudgedIs
  <2>9. \A r \in t.effect.put["responses"] : Saves(t, r)
    BY <1>10, <2>2, <2>5, <2>8 DEF Saves, SameAnswer
  <2>10. Unique(t.effect.put["responses"])
    <3> SUFFICES ASSUME NEW r \in t.effect.put["responses"], NEW x \in t.effect.put["responses"], r.id = x.id PROVE r = x
      BY DEF Unique
    <3>1. PICK q \in db["responses"] : SameAnswer(q, r) /\ r = Judged(d, p.id, q)
      BY <2>8
    <3>2. PICK y \in db["responses"] : SameAnswer(y, x) /\ x = Judged(d, p.id, y)
      BY <2>8
    <3>3. q = y
      BY <3>1, <3>2 DEF SameAnswer, ResponsesOK, ResponseRows, Unique
    <3> QED BY <3>1, <3>2, <3>3
  <2>11. t.effect.drop["responses"] = {}
    BY <2>2, <2>7 DEF f, d
  <2> QED BY <1>2, <1>10, <2>8, <2>9, <2>10, <2>11 DEF OfResponses
<1> QED BY <1>4, <1>5, <1>6, <1>7, <1>8, <1>9, <1>10

\* What the poll app does with a message that waits for it.
Files(n, e, p, c, new) ==
  /\ p \in Latest(Seen(n), c) /\ Filing(Seen(n), n, c, open[n].on.text.words, e, p)
  /\ e.put["responses"] = {new} /\ e.made["responses"] = {n}
  /\ ResponseRow(new) /\ new.id = n /\ new.poll = p.id /\ new.conn = c
  /\ \A l \in e.put["labels"] : OfRule(n, l)
  /\ \/ e.drop["responses"] = {} /\ e.drop["labels"] = {}
     \/ \E r \in db["responses"] :
          /\ r.poll = p.id /\ r.conn = c /\ p.rule # "all" /\ Kept(r, new)
          /\ e.drop["responses"] = {r.id} /\ e.drop["labels"] = Ids(LabelsOf(db, {r}))

Adds(n, e, place) ==
  /\ open[n].kind = "message" /\ Unanswered(open[n]) /\ place # "poll"
  /\ UNCHANGED <<db, serial, history>> /\ DOMAIN open' = DOMAIN open
  /\ open'[n].kind = "message" /\ open'[n].on = open[n].on /\ open'[n].place = place
  /\ open'[n].reads = open[n].reads /\ open'[n].writes = open[n].writes /\ open'[n].notes = open[n].notes
  /\ \A T \in AppPuts : open'[n].effect.put[T] = e.put[T] /\ open'[n].effect.drop[T] = e.drop[T]
  /\ open'[n].effect = Then(open[n].effect, e)
  /\ open'[n].effect.made["responses"] = open[n].effect.made["responses"] \cup e.made["responses"]
  /\ \A k \in DOMAIN open : k # n => open'[k] = open[k]
  /\ Seen(n)["responses"] = db["responses"] /\ Seen(n)["labels"] = db["labels"]

LEMMA PollFiles ==
  ASSUME RequestsOK, WaitsOK, ResponseRows, NEW n \in DOMAIN open, PollPhase(n)
  PROVE  \E e, place :
           /\ Adds(n, e, place)
           /\ \/ e = NoEffect
              \/ \E p, new : Files(n, e, p, open[n].on.conn, new)
<1> DEFINE c == open[n].on.conn
           words == open[n].on.text.words
           d == Seen(n)
           f == open[n].effect
<1>1. PICK e, place : /\ Phase(n, e, place) /\ open[n].place = "poll"
                      /\ e = NoEffect \/ e \in Handle(d, n, c, words)
  BY PollPhaseIs
<1>2. open[n].kind = "message" /\ Unanswered(open[n])
  BY <1>1 DEF WaitsOK, Waits
<1>3. /\ DOMAIN open' = DOMAIN open /\ UNCHANGED <<db, serial, history>> /\ place # "poll"
      /\ open'[n] = Further(open[n], Then(f, e), place)
      /\ \A k \in DOMAIN open : k # n => open'[k] = open[k]
  <2> HIDE DEF d, c, words, f
  <2>1. Phase(n, e, place)
    BY <1>1
  <2>2. UNCHANGED <<db, serial, history>> /\ place \in {"written", "xforms"}
    BY <2>1 DEF Phase
  <2> QED BY <2>1, <2>2, PhaseOpen DEF f
<1>4. /\ open'[n].kind = open[n].kind /\ open'[n].on = open[n].on /\ open'[n].place = place
      /\ open'[n].reads = open[n].reads /\ open'[n].writes = open[n].writes /\ open'[n].notes = open[n].notes
      /\ open'[n].effect = Then(f, e)
  BY <1>3, FurtherIs
<1>5. \A T \in AppPuts : Then(f, e).put[T] = e.put[T] /\ Then(f, e).drop[T] = e.drop[T] /\ After(db, f)[T] = db[T]
  BY <1>2, FirstOf
<1>6. d["responses"] = db["responses"] /\ d["labels"] = db["labels"]
  BY <1>5 DEF Seen, AppPuts
<1>7. Then(f, e).made["responses"] = f.made["responses"] \cup e.made["responses"]
  BY AnswersThere DEF Then
<1>8. Adds(n, e, place)
  <2> HIDE DEF f, d
  <2> QED BY <1>2, <1>3, <1>4, <1>5, <1>6, <1>7 DEF Adds, f, d
<1>9. \A r \in d["responses"] : r.id # n
  BY <1>6 DEF ResponseRows, Past
<1>10. CASE e # NoEffect
  <2> HIDE DEF d, c, words
  <2>1. PICK p \in Latest(d, c) : Filing(d, n, c, words, e, p)
    BY <1>1, <1>9, <1>10, HandleIs
  <2>6. PICK new : new = Answer(d, n, p, c, words)
    OBVIOUS
  <2>2. Writes(d, n, c, e, p, new)
    BY <1>9, <2>1, <2>6, FilingIs
  <2>3. ResponseRow(new)
    BY <2>6 DEF Answer, ResponseRow, NewResponse
  <2>4. ASSUME NEW r \in ResponsesOf(d, p.id, c)
        PROVE  r \in db["responses"] /\ r.poll = p.id /\ r.conn = c /\ LabelsOf(d, {r}) = LabelsOf(db, {r})
    BY <1>6 DEF ResponsesOf, PollResponses, LabelsOf
  <2>5. Files(n, e, p, c, new)
    BY <2>1, <2>2, <2>3, <2>4 DEF Files, Writes, d, words
  <2> QED BY <1>8, <2>5 DEF c
<1> QED BY <1>8, <1>10

LEMMA NextWaits ==
  ASSUME RequestsOK, WaitsOK, ResponsesOK, [Next]_vars
  PROVE  WaitsOK'
<1> USE DEF WaitsOK
<1>1. ASSUME NEW t, Begins(t), Wellformed(t) PROVE WaitsOK'
  <2>1. OfResponses(t) /\ Begin(t)
    BY <1>1, ResponsesBegin DEF Begins
  <2>2. /\ DOMAIN open' = DOMAIN open \cup {serial'} /\ open'[serial'] = t /\ serial' \notin DOMAIN open
        /\ \A k \in DOMAIN open : open'[k] = open[k]
    BY <2>1, BeginSeen
  <2>3. Waits(serial', t)
    BY <2>1 DEF Waits, OfResponses, Unanswered, AppPuts
  <2>4. ASSUME NEW k \in DOMAIN open' PROVE Waits(k, open'[k])
    BY <2>2, <2>3
  <2> QED BY <2>4 DEF Waits, Unanswered
<1>2. ASSUME NEW n \in DOMAIN open, PollPhase(n) PROVE WaitsOK'
  <2>1. PICK e, place : /\ Adds(n, e, place)
                        /\ \/ e = NoEffect
                           \/ \E p, new : Files(n, e, p, open[n].on.conn, new)
    BY <1>2, PollFiles DEF ResponsesOK
  <2>2. ASSUME NEW r \in open'[n].effect.put["responses"]
        PROVE  r.id = n /\ n \in open'[n].effect.made["responses"]
    <3>1. r \in e.put["responses"]
      BY <2>1, <2>2 DEF Adds, AppPuts
    <3>2. e # NoEffect
      BY <3>1, AnswersThere, NoEffectAt
    <3> QED BY <2>1, <3>1, <3>2 DEF Adds, Files
  <2>3. Waits(n, open'[n])
    BY <2>1, <2>2 DEF Waits, Adds
  <2>4. ASSUME NEW k \in DOMAIN open' PROVE Waits(k, open'[k])
    BY <2>1, <2>3 DEF Adds
  <2> QED BY <2>4 DEF Waits, Unanswered
<1>3. ASSUME NEW n \in DOMAIN open, FormPhase(n) PROVE WaitsOK'
  <2>1. PICK f, c, rest : Phase(n, Submit(Seen(n), n, f, c, rest), "written")
    BY <1>3, FormPhaseIs
  <2> DEFINE e == Submit(Seen(n), n, f, c, rest)
  <2>2. e.put["responses"] = {} /\ e.drop["responses"] = {}
    BY TablesThere, InsertedAt DEF Submit, Schema
  <2> HIDE DEF e
  <2>3. Phase(n, e, "written")
    BY <2>1 DEF e
  <2>4. /\ DOMAIN open' = DOMAIN open /\ open'[n] = Further(open[n], Then(open[n].effect, e), "written")
        /\ \A k \in DOMAIN open : k # n => open'[k] = open[k]
    BY <2>3, PhaseOpen
  <2>5. /\ open'[n].kind = open[n].kind /\ open'[n].reads = open[n].reads /\ open'[n].place = "written"
        /\ open'[n].effect = Then(open[n].effect, e)
    BY <2>4, FurtherIs
  <2>6. \A r \in Then(open[n].effect, e).put["responses"] : r \in open[n].effect.put["responses"]
    BY <2>2, AnswersThere, ThenIs
  <2>7. open[n].effect.made["responses"] \subseteq Then(open[n].effect, e).made["responses"]
    BY AnswersThere DEF Then
  <2>8. Waits(n, open'[n])
    BY <2>5, <2>6, <2>7 DEF Waits
  <2>9. ASSUME NEW k \in DOMAIN open' PROVE Waits(k, open'[k])
    BY <2>4, <2>8
  <2> QED BY <2>9 DEF Waits, Unanswered
<1>4. ASSUME NEW n \in DOMAIN open, MassTextCommits(n) PROVE WaitsOK'
  <2>1. /\ open[n].kind = "start" /\ DOMAIN open' = DOMAIN open
        /\ open'[n] = Further(open[n], Started(n, open[n].on), "written")
        /\ \A k \in DOMAIN open : k # n => open'[k] = open[k]
    BY <1>4, MassTextIs, MassTextOpen
  <2>2. open'[n].kind = "start" /\ open'[n].place = "written"
    BY <2>1, FurtherIs
  <2>3. ASSUME NEW k \in DOMAIN open' PROVE Waits(k, open'[k])
    BY <2>1, <2>2 DEF Waits
  <2> QED BY <2>3 DEF Waits, Unanswered
<1>5. CASE /\ DOMAIN open' \subseteq DOMAIN open
           /\ \A k \in DOMAIN open' : open'[k] = open[k]
  <2>1. ASSUME NEW k \in DOMAIN open' PROVE Waits(k, open'[k])
    BY <1>5
  <2> QED BY <2>1 DEF Waits, Unanswered
<1>6. ASSUME NEW n \in DOMAIN open, Finish(n) \/ Fail(n)
      PROVE  DOMAIN open' \subseteq DOMAIN open /\ \A k \in DOMAIN open' : open'[k] = open[k]
  <2>1. open' = Closed(n)
    BY <1>6 DEF Finish, Commit, Fail, Rollback
  <2> QED BY <2>1, ClosedOpen
<1> QED BY <1>1, <1>2, <1>3, <1>4, <1>5, <1>6, Moving DEF Moves, database

\* A request that begins has the rows that are there.
LEMMA ResponsesWhenBegun ==
  ASSUME RequestsOK, WaitsOK, ResponsesOK, NEW t, Begins(t), Wellformed(t), [Next]_vars
  PROVE  ResponsesOK'
<1> USE DEF ResponsesOK
<1>1. OfResponses(t) /\ Begin(t)
  BY ResponsesBegin DEF Begins
<1>2. /\ db' = db /\ history \subseteq history' /\ serial' \notin DOMAIN open
      /\ DOMAIN open' = DOMAIN open \cup {serial'} /\ open'[serial'] = t
      /\ \A k \in DOMAIN open : open'[k] = open[k]
  BY <1>1, BeginSeen
<1>3. \A i : Past(i) => Past(i)'
  BY PastStays
<1>4. \A p : Changed(p) => Changed(p)'
  BY <1>2 DEF Changed
<1> DEFINE put == t.effect.put["responses"]
<1>5. ASSUME NEW r \in put
      PROVE  \E q \in db["responses"] : SameAnswer(q, r) /\ (t.kind = "edit" => q = r)
  BY <1>1 DEF OfResponses
<1>6. t.kind = "message" => t.effect.put["responses"] = {} /\ t.effect.drop["responses"] = {}
  BY <1>1 DEF OfResponses, Unanswered, AppPuts
<1>7. ResponseRows'
  BY <1>2, <1>3 DEF ResponseRows
<1>8. ResponsesPut'
  <2>1. ASSUME NEW r \in put PROVE ResponseRow(r) /\ Past(r.id)' /\ Saves(t, r)
    <3>1. PICK q \in db["responses"] : SameAnswer(q, r)
      BY <1>5
    <3> QED BY <1>1, <1>3, <3>1 DEF OfResponses, ResponseRows, SameAnswer
  <2>2. Unique(put)
    BY <1>1 DEF OfResponses
  <2>3. ASSUME NEW k \in DOMAIN open'
        PROVE  /\ Unique(open'[k].effect.put["responses"])
               /\ \A r \in open'[k].effect.put["responses"] :
                    ResponseRow(r) /\ (open'[k].kind = "message" \/ (Past(r.id)' /\ Saves(open'[k], r)))
    <3>1. CASE k = serial'
      BY <1>2, <2>1, <2>2, <3>1
    <3>2. CASE k # serial'
      <4>1. k \in DOMAIN open /\ open'[k] = open[k]
        BY <1>2, <3>2
      <4> QED BY <1>3, <4>1 DEF ResponsesPut
    <3> QED BY <3>1, <3>2
  <2> QED BY <2>3 DEF ResponsesPut, Saves, ResponseRow, Unique
<1>9. ResponsesTaken'
  <2>1. ASSUME NEW i \in t.effect.drop["responses"] PROVE Past(i)'
    BY <1>1, <1>3 DEF OfResponses, ResponseRows
  <2> QED BY <1>2, <1>3, <2>1 DEF ResponsesTaken
<1>10. ASSUME NEW r \in put, NEW q \in db["responses"], q.id = r.id PROVE SameAnswer(q, r) /\ (t.kind = "edit" => q = r)
  <2>1. PICK x \in db["responses"] : SameAnswer(x, r) /\ (t.kind = "edit" => x = r)
    BY <1>5
  <2>2. x = q
    BY <1>10, <2>1 DEF ResponseRows, Unique, SameAnswer
  <2> QED BY <2>1, <2>2
<1>11. WithPut'
  BY <1>2, <1>10 DEF WithPut, SameAnswer
<1>12. ASSUME NEW k \in DOMAIN open, NEW r \in put, NEW x \in open[k].effect.put["responses"], x.id = r.id
       PROVE  SameAnswer(x, r) /\ SameAnswer(r, x)
  <2>1. PICK q \in db["responses"] : SameAnswer(q, r)
    BY <1>5
  <2>2. q.id = x.id
    BY <1>12, <2>1 DEF SameAnswer
  <2>3. SameAnswer(q, x)
    BY <2>2 DEF WithPut
  <2> QED BY <2>1, <2>3 DEF SameAnswer
<1>13. \A r, x \in put : x.id = r.id => SameAnswer(x, r)
  BY <1>1 DEF OfResponses, Unique, SameAnswer
<1>14. PutAlike'
  <2> SUFFICES ASSUME NEW n \in DOMAIN open', NEW k \in DOMAIN open', NEW r \in open'[n].effect.put["responses"],
                      NEW q \in open'[k].effect.put["responses"], q.id = r.id
               PROVE  SameAnswer(q, r)
    BY DEF PutAlike, SameAnswer
  <2>1. CASE n \in DOMAIN open /\ k \in DOMAIN open
    BY <1>2, <2>1 DEF PutAlike
  <2>2. CASE n = serial' /\ k \in DOMAIN open
    BY <1>2, <1>12, <2>2
  <2>3. CASE n \in DOMAIN open /\ k = serial'
    BY <1>2, <1>12, <2>3
  <2>4. CASE n = serial' /\ k = serial'
    BY <1>2, <1>13, <2>4
  <2> QED BY <1>2, <2>1, <2>2, <2>3, <2>4
<1>15. EditsCurrent'
  <2> SUFFICES ASSUME NEW n \in DOMAIN open', open'[n].kind = "edit", NEW r \in open'[n].effect.put["responses"],
                      NEW q \in db["responses"], q.id = r.id
               PROVE  q = r \/ Changed(r.poll)'
    BY <1>2 DEF EditsCurrent, Changed
  <2> QED BY <1>2, <1>4, <1>10 DEF EditsCurrent
<1>16. ASSUME NEW k \in DOMAIN open, open[k].kind = "edit", t.kind = "edit",
              NEW r \in put, NEW x \in open[k].effect.put["responses"], x.id = r.id
       PROVE  x = r \/ (Changed(r.poll)' /\ Changed(x.poll)')
  <2>1. r \in db["responses"]
    BY <1>5, <1>16
  <2>2. r = x \/ Changed(x.poll)
    BY <1>16, <2>1 DEF EditsCurrent
  <2>3. r.poll = x.poll
    BY <1>12, <1>16 DEF SameAnswer
  <2> QED BY <1>4, <2>2, <2>3
<1>17. EditsAlike'
  <2> SUFFICES ASSUME NEW n \in DOMAIN open', NEW k \in DOMAIN open', open'[n].kind = "edit", open'[k].kind = "edit",
                      NEW r \in open'[n].effect.put["responses"],
                      NEW q \in open'[k].effect.put["responses"], q.id = r.id
               PROVE  q = r \/ Changed(r.poll)'
    BY DEF EditsAlike, Changed
  <2>1. CASE n \in DOMAIN open /\ k \in DOMAIN open
    BY <1>2, <1>4, <2>1 DEF EditsAlike
  <2>2. CASE n = serial' /\ k \in DOMAIN open
    BY <1>2, <1>16, <2>2
  <2>3. CASE n \in DOMAIN open /\ k = serial'
    BY <1>2, <1>16, <2>3
  <2>4. CASE n = serial' /\ k = serial'
    BY <1>1, <1>2, <2>4 DEF OfResponses, Unique
  <2> QED BY <1>2, <2>1, <2>2, <2>3, <2>4
<1>18. ReplacesThere'
  <2> SUFFICES ASSUME NEW n \in DOMAIN open', open'[n].kind = "message", NEW i \in open'[n].effect.drop["responses"],
                      NEW q \in db["responses"], q.id = i
               PROVE  Replaced(open'[n], q) \/ Changed(q.poll)'
    BY <1>2 DEF ReplacesThere, Changed, Replaced
  <2>1. n \in DOMAIN open /\ open'[n] = open[n]
    BY <1>2, <1>6
  <2> QED BY <1>4, <2>1 DEF ReplacesThere
<1>19. ReplacesSaved'
  <2> SUFFICES ASSUME NEW n \in DOMAIN open', NEW k \in DOMAIN open', open'[n].kind = "message", open'[k].kind = "edit",
                      NEW i \in open'[n].effect.drop["responses"],
                      NEW q \in open'[k].effect.put["responses"], q.id = i
               PROVE  Replaced(open'[n], q) \/ Changed(q.poll)'
    BY DEF ReplacesSaved, Changed, Replaced
  <2>1. n \in DOMAIN open /\ open'[n] = open[n]
    BY <1>2, <1>6
  <2>2. CASE k \in DOMAIN open
    BY <1>2, <1>4, <2>1, <2>2 DEF ReplacesSaved
  <2>3. CASE k = serial'
    <3>1. q \in db["responses"]
      BY <1>2, <1>5, <2>3
    <3> QED BY <1>4, <2>1, <3>1 DEF ReplacesThere
  <2> QED BY <1>2, <2>2, <2>3
<1> QED BY <1>7, <1>8, <1>9, <1>11, <1>14, <1>15, <1>17, <1>18, <1>19

\* The poll app's answer is new, and takes the place of one that is there.
LEMMA ResponsesWhenFiled ==
  ASSUME RequestsOK, WaitsOK, ResponsesOK, NEW n \in DOMAIN open, PollPhase(n)
  PROVE  ResponsesOK'
<1> USE DEF ResponsesOK
<1>1. PICK e, place : /\ Adds(n, e, place)
                      /\ \/ e = NoEffect
                         \/ \E p, new : Files(n, e, p, open[n].on.conn, new)
  BY PollFiles
<1> DEFINE put == open'[n].effect.put["responses"]
           drop == open'[n].effect.drop["responses"]
<1>2. /\ db' = db /\ serial' = serial /\ history' = history /\ DOMAIN open' = DOMAIN open /\ open'[n].kind = "message"
      /\ put = e.put["responses"] /\ drop = e.drop["responses"]
      /\ \A k \in DOMAIN open : k # n => open'[k] = open[k]
  BY <1>1 DEF Adds, AppPuts
<1>3. \A i : Past(i)' <=> Past(i)
  BY <1>2 DEF Past
<1>4. \A p : Changed(p)' <=> Changed(p)
  BY <1>2 DEF Changed
<1>5. \A r \in put : ResponseRow(r) /\ r.id = n
  <2>1. CASE e = NoEffect
    BY <1>2, <2>1, AnswersThere, NoEffectAt
  <2> QED BY <1>1, <1>2, <2>1 DEF Files
<1>6. Unique(put)
  <2>1. CASE e = NoEffect
    BY <1>2, <2>1, AnswersThere, NoEffectAt DEF Unique
  <2> QED BY <1>1, <1>2, <2>1 DEF Files, Unique
<1>7. ASSUME NEW i \in drop
      PROVE  \E r \in db["responses"] : r.id = i /\ Replaced(open'[n], r)
  <2>1. e # NoEffect
    BY <1>2, <1>7, AnswersThere, NoEffectAt
  <2>2. PICK p, new : Files(n, e, p, open[n].on.conn, new)
    BY <1>1, <2>1
  <2>3. PICK r \in db["responses"] : r.poll = p.id /\ r.conn = open[n].on.conn /\ Kept(r, new) /\ drop = {r.id}
    BY <1>2, <1>7, <2>2 DEF Files
  <2>4. new \in put /\ new.poll = r.poll /\ new.conn = r.conn
    BY <1>2, <2>2, <2>3 DEF Files
  <2> QED BY <1>7, <2>3, <2>4 DEF Replaced, Kept
<1>8. \A q \in db["responses"] : q.id # n
  BY DEF ResponseRows, Past
<1>9. ASSUME NEW k \in DOMAIN open, k # n, NEW q \in open[k].effect.put["responses"] PROVE q.id # n
  BY <1>9 DEF WaitsOK, Waits, ResponsesPut, Past
<1>10. ASSUME NEW i \in drop, NEW q \in db["responses"], q.id = i PROVE Replaced(open'[n], q)
  BY <1>7, <1>10 DEF ResponseRows, Unique
<1>11. ResponseRows'
  BY <1>2, <1>3 DEF ResponseRows
<1>12. ResponsesPut'
  <2>1. ASSUME NEW k \in DOMAIN open'
        PROVE  /\ Unique(open'[k].effect.put["responses"])
               /\ \A r \in open'[k].effect.put["responses"] :
                    ResponseRow(r) /\ (open'[k].kind = "message" \/ (Past(r.id)' /\ Saves(open'[k], r)))
    <3>1. CASE k = n
      BY <1>2, <1>5, <1>6, <3>1
    <3>2. CASE k # n
      <4>1. k \in DOMAIN open /\ open'[k] = open[k]
        BY <1>2, <3>2
      <4> QED BY <1>3, <4>1 DEF ResponsesPut
    <3> QED BY <3>1, <3>2
  <2> QED BY <2>1 DEF ResponsesPut, Saves, ResponseRow, Unique
<1>13. ResponsesTaken'
  <2>1. ASSUME NEW i \in drop PROVE Past(i)
    BY <1>7 DEF ResponseRows
  <2> QED BY <1>2, <1>3, <2>1 DEF ResponsesTaken
<1>14. WithPut'
  <2> SUFFICES ASSUME NEW k \in DOMAIN open, NEW r \in open'[k].effect.put["responses"],
                      NEW q \in db["responses"], q.id = r.id
               PROVE  SameAnswer(q, r)
    BY <1>2 DEF WithPut, SameAnswer
  <2> QED BY <1>2, <1>5, <1>8 DEF WithPut
<1>15. PutAlike'
  <2> SUFFICES ASSUME NEW m \in DOMAIN open, NEW k \in DOMAIN open, NEW r \in open'[m].effect.put["responses"],
                      NEW q \in open'[k].effect.put["responses"], q.id = r.id
               PROVE  SameAnswer(q, r)
    BY <1>2 DEF PutAlike, SameAnswer
  <2>1. CASE m # n /\ k # n
    BY <1>2, <2>1 DEF PutAlike
  <2>2. CASE m = n /\ k = n
    BY <1>6, <2>2 DEF Unique, SameAnswer
  <2>3. CASE m = n /\ k # n
    BY <1>2, <1>5, <1>9, <2>3
  <2>4. CASE m # n /\ k = n
    BY <1>2, <1>5, <1>9, <2>4
  <2> QED BY <2>1, <2>2, <2>3, <2>4
<1>16. EditsCurrent'
  <2> SUFFICES ASSUME NEW k \in DOMAIN open, open'[k].kind = "edit", NEW r \in open'[k].effect.put["responses"],
                      NEW q \in db["responses"], q.id = r.id
               PROVE  q = r \/ Changed(r.poll)
    BY <1>2, <1>4 DEF EditsCurrent, Changed
  <2> QED BY <1>2 DEF EditsCurrent
<1>17. EditsAlike'
  <2> SUFFICES ASSUME NEW m \in DOMAIN open, NEW k \in DOMAIN open, open'[m].kind = "edit", open'[k].kind = "edit",
                      NEW r \in open'[m].effect.put["responses"],
                      NEW q \in open'[k].effect.put["responses"], q.id = r.id
               PROVE  q = r \/ Changed(r.poll)
    BY <1>2, <1>4 DEF EditsAlike, Changed
  <2> QED BY <1>2 DEF EditsAlike
<1>18. ReplacesThere'
  <2> SUFFICES ASSUME NEW m \in DOMAIN open, open'[m].kind = "message", NEW i \in open'[m].effect.drop["responses"],
                      NEW q \in db["responses"], q.id = i
               PROVE  Replaced(open'[m], q) \/ Changed(q.poll)
    BY <1>2, <1>4 DEF ReplacesThere, Changed, Replaced
  <2> QED BY <1>2, <1>10 DEF ReplacesThere
<1>19. ReplacesSaved'
  <2> SUFFICES ASSUME NEW m \in DOMAIN open, NEW k \in DOMAIN open, open'[m].kind = "message", open'[k].kind = "edit",
                      NEW i \in open'[m].effect.drop["responses"],
                      NEW q \in open'[k].effect.put["responses"], q.id = i
               PROVE  Replaced(open'[m], q) \/ Changed(q.poll)
    BY <1>2, <1>4 DEF ReplacesSaved, Changed, Replaced
  <2>1. k # n /\ open'[k] = open[k]
    BY <1>2
  <2>2. CASE m # n
    BY <1>2, <2>1, <2>2 DEF ReplacesSaved
  <2>3. CASE m = n
    <3>1. PICK r \in db["responses"] : r.id = i /\ Replaced(open'[n], r)
      BY <1>7, <2>3
    <3>2. r = q \/ Changed(q.poll)
      BY <2>1, <3>1 DEF EditsCurrent
    <3> QED BY <2>3, <3>1, <3>2
  <2> QED BY <2>2, <2>3
<1> QED BY <1>11, <1>12, <1>13, <1>14, <1>15, <1>16, <1>17, <1>18, <1>19

\* A request that ends, and what the others have read.
LEMMA ResponsesWhenOver ==
  ASSUME RequestsOK, WaitsOK, ResponsesOK, NEW n \in DOMAIN open, Finish(n), [Next]_vars
  PROVE  ResponsesOK'
<1> USE DEF ResponsesOK
<1> DEFINE e == open[n].effect
           put == e.put["responses"]
<1>1. /\ Write(e) /\ open' = Closed(n) /\ history \subseteq history' /\ serial' = serial
  BY DEF Finish, Commit
<1>2. DOMAIN open' = DOMAIN open \ {n} /\ \A k \in DOMAIN open' : open'[k] = open[k]
  BY <1>1, ClosedOpen
<1>3. (\A i : Past(i) => Past(i)') /\ Past(n)'
  BY <1>1, <1>2, PastStays DEF Past, RequestsOK
<1>4. \A p : Changed(p) => Changed(p)'
  BY <1>1 DEF Changed
<1> HIDE DEF e
<1>5. db'["responses"] \subseteq db["responses"] \cup put
  BY <1>1, WriteAt, AnswersThere
<1>6. Unique(db'["responses"])
  BY <1>1, WriteUnique, AnswersThere DEF ResponseRows, ResponsesPut, e
<1>7. ASSUME NEW r \in put
      PROVE  /\ ResponseRow(r) /\ Past(r.id)'
             /\ \/ open[n].kind = "message" /\ r.id = n
                \/ open[n].kind # "message" /\ Past(r.id) /\ Saves(open[n], r)
  BY <1>3 DEF ResponsesPut, WaitsOK, Waits, e
<1>8. \A k \in DOMAIN open : ~Past(k)
  BY DEF Past
<1>9. ASSUME NEW k \in DOMAIN open', NEW p, <<"rules", p>> \in open[n].writes, <<"rules", p>> \in open[k].reads
      PROVE  Changed(p)'
  <2>1. Meet(open[n], open[k]) \subseteq history
    BY <1>2 DEF RequestsOK
  <2> QED BY <1>4, <1>9, <2>1 DEF Meet, Changed
<1>11. ResponseRows'
  <2>1. ASSUME NEW r \in db'["responses"] PROVE ResponseRow(r) /\ Past(r.id)'
    BY <1>3, <1>5, <1>7 DEF ResponseRows
  <2> QED BY <1>6, <2>1 DEF ResponseRows, Unique, ResponseRow
<1>12. ResponsesPut'
  <2>1. ASSUME NEW k \in DOMAIN open'
        PROVE  /\ Unique(open'[k].effect.put["responses"])
               /\ \A r \in open'[k].effect.put["responses"] :
                    ResponseRow(r) /\ (open'[k].kind = "message" \/ (Past(r.id)' /\ Saves(open'[k], r)))
    BY <1>2, <1>3 DEF ResponsesPut
  <2> QED BY <2>1 DEF ResponsesPut, Saves, ResponseRow, Unique
<1>13. ResponsesTaken'
  BY <1>2, <1>3 DEF ResponsesTaken
<1>14. WithPut'
  <2> SUFFICES ASSUME NEW k \in DOMAIN open', NEW r \in open'[k].effect.put["responses"],
                      NEW q \in db'["responses"], q.id = r.id
               PROVE  SameAnswer(q, r)
    BY DEF WithPut, SameAnswer
  <2>1. k \in DOMAIN open /\ r \in open[k].effect.put["responses"]
    BY <1>2
  <2>2. CASE q \in db["responses"]
    BY <2>1, <2>2 DEF WithPut
  <2>3. CASE q \in put
    BY <2>1, <2>3 DEF PutAlike, e
  <2> QED BY <1>5, <2>2, <2>3
<1>15. PutAlike'
  <2> SUFFICES ASSUME NEW m \in DOMAIN open', NEW k \in DOMAIN open', NEW r \in open'[m].effect.put["responses"],
                      NEW q \in open'[k].effect.put["responses"], q.id = r.id
               PROVE  SameAnswer(q, r)
    BY DEF PutAlike, SameAnswer
  <2> QED BY <1>2 DEF PutAlike
<1>16. EditsCurrent'
  <2> SUFFICES ASSUME NEW k \in DOMAIN open', open'[k].kind = "edit", NEW r \in open'[k].effect.put["responses"],
                      NEW q \in db'["responses"], q.id = r.id
               PROVE  q = r \/ Changed(r.poll)'
    BY DEF EditsCurrent, Changed
  <2>1. k \in DOMAIN open /\ open[k].kind = "edit" /\ r \in open[k].effect.put["responses"]
    BY <1>2
  <2>2. CASE q \in db["responses"]
    BY <1>4, <2>1, <2>2 DEF EditsCurrent
  <2>3. CASE q \in put
    <3>1. Past(r.id) /\ Saves(open[k], r) /\ q.poll = r.poll
      BY <2>1, <2>3 DEF ResponsesPut, PutAlike, SameAnswer, e
    <3>2. CASE open[n].kind = "edit"
      BY <1>4, <2>1, <2>3, <3>2 DEF EditsAlike, e
    <3>3. CASE open[n].kind # "edit"
      <4>1. <<"rules", r.poll>> \in open[n].writes
        BY <1>7, <1>8, <2>3, <3>1, <3>3 DEF Saves
      <4>2. <<"rules", r.poll>> \in open[k].reads
        BY <2>1, <3>1 DEF Saves
      <4> QED BY <1>9, <4>1, <4>2
    <3> QED BY <3>2, <3>3
  <2> QED BY <1>5, <2>2, <2>3
<1>17. EditsAlike'
  <2> SUFFICES ASSUME NEW m \in DOMAIN open', NEW k \in DOMAIN open', open'[m].kind = "edit", open'[k].kind = "edit",
                      NEW r \in open'[m].effect.put["responses"],
                      NEW q \in open'[k].effect.put["responses"], q.id = r.id
               PROVE  q = r \/ Changed(r.poll)'
    BY DEF EditsAlike, Changed
  <2> QED BY <1>2, <1>4 DEF EditsAlike
<1>18. ReplacesThere'
  <2> SUFFICES ASSUME NEW k \in DOMAIN open', open'[k].kind = "message", NEW i \in open'[k].effect.drop["responses"],
                      NEW q \in db'["responses"], q.id = i
               PROVE  Replaced(open'[k], q) \/ Changed(q.poll)'
    BY DEF ReplacesThere, Changed, Replaced
  <2>1. k \in DOMAIN open /\ open'[k] = open[k] /\ open[k].kind = "message" /\ i \in open[k].effect.drop["responses"]
    BY <1>2
  <2>2. CASE q \in db["responses"]
    BY <1>4, <2>1, <2>2 DEF ReplacesThere
  <2>3. CASE q \in put
    <3>1. Past(i)
      BY <2>1 DEF ResponsesTaken
    <3>2. CASE open[n].kind = "edit"
      BY <1>4, <2>1, <2>3, <3>2 DEF ReplacesSaved, e
    <3>3. CASE open[n].kind # "edit"
      <4>1. <<"rules", q.poll>> \in open[n].writes /\ q.poll \in PollIds
        BY <1>7, <1>8, <2>3, <3>1, <3>3 DEF Saves
      <4>2. <<"rules", q.poll>> \in open[k].reads
        BY <2>1, <4>1 DEF WaitsOK, Waits
      <4> QED BY <1>9, <4>1, <4>2
    <3> QED BY <3>2, <3>3
  <2> QED BY <1>5, <2>2, <2>3
<1>19. ReplacesSaved'
  <2> SUFFICES ASSUME NEW m \in DOMAIN open', NEW k \in DOMAIN open', open'[m].kind = "message", open'[k].kind = "edit",
                      NEW i \in open'[m].effect.drop["responses"],
                      NEW q \in open'[k].effect.put["responses"], q.id = i
               PROVE  Replaced(open'[m], q) \/ Changed(q.poll)'
    BY DEF ReplacesSaved, Changed, Replaced
  <2> QED BY <1>2, <1>4 DEF ReplacesSaved
<1> QED BY <1>11, <1>12, <1>13, <1>14, <1>15, <1>16, <1>17, <1>18, <1>19

LEMMA ResponsesStay ==
  ASSUME RequestsOK, ResponsesOK, SameAt("responses"), [Next]_vars
  PROVE  ResponsesOK'
<1> USE DEF ResponsesOK
<1>1. /\ db'["responses"] = db["responses"] /\ DOMAIN open' \subseteq DOMAIN open /\ history \subseteq history'
      /\ \A k \in DOMAIN open' :
           /\ open'[k].kind = open[k].kind /\ open'[k].reads = open[k].reads /\ open'[k].writes = open[k].writes
           /\ open'[k].effect.put["responses"] = open[k].effect.put["responses"]
           /\ open'[k].effect.drop["responses"] = open[k].effect.drop["responses"]
  BY DEF SameAt
<1>3. \A i : Past(i) => Past(i)'
  BY PastStays
<1>4. \A p : Changed(p) => Changed(p)'
  BY <1>1 DEF Changed
<1>11. ResponseRows'
  BY <1>1, <1>3 DEF ResponseRows
<1>12. ResponsesPut'
  <2>1. ASSUME NEW k \in DOMAIN open'
        PROVE  /\ Unique(open'[k].effect.put["responses"])
               /\ \A r \in open'[k].effect.put["responses"] :
                    ResponseRow(r) /\ (open'[k].kind = "message" \/ (Past(r.id)' /\ Saves(open'[k], r)))
    BY <1>1, <1>3 DEF ResponsesPut, Saves
  <2> QED BY <2>1 DEF ResponsesPut, Saves, ResponseRow, Unique
<1>13. ResponsesTaken'
  BY <1>1, <1>3 DEF ResponsesTaken
<1>14. WithPut'
  BY <1>1 DEF WithPut, SameAnswer
<1>15. PutAlike'
  BY <1>1 DEF PutAlike, SameAnswer
<1>16. EditsCurrent'
  BY <1>1 DEF EditsCurrent, Changed
<1>17. EditsAlike'
  BY <1>1 DEF EditsAlike, Changed
<1>18. ReplacesThere'
  BY <1>1 DEF ReplacesThere, Changed, Replaced
<1>19. ReplacesSaved'
  BY <1>1 DEF ReplacesSaved, Changed, Replaced
<1> QED BY <1>11, <1>12, <1>13, <1>14, <1>15, <1>16, <1>17, <1>18, <1>19

LEMMA NextResponses ==
  ASSUME RequestsOK, WaitsOK, ResponsesOK, [Next]_vars
  PROVE  ResponsesOK'
<1>1. "responses" \in Tables \ {"asked", "polls"}
  BY AnswersThere
<1> QED BY <1>1, Moving, SameSteps, ResponsesWhenBegun, ResponsesWhenFiled, ResponsesWhenOver, ResponsesStay

-----------------------------------------------------------------------------
(***************************************************************************)
(* A good answer stays.                                                    *)
(***************************************************************************)

LEMMA AnswersInit ==
  ASSUME Init
  PROVE  ResponsesOK /\ WaitsOK /\ Owning
<1>1. PICK w \in Workloads : db = w.db /\ DOMAIN open = {}
  BY DEF Init
<1>2. db["responses"] = {}
  BY <1>1, IncomingAssumption DEF IncomingAssumption
<1> QED BY <1>1, <1>2 DEF ResponsesOK, ResponseRows, ResponsesPut, ResponsesTaken, WithPut, PutAlike, EditsCurrent,
                          EditsAlike, ReplacesThere, ReplacesSaved, WaitsOK, Owning, Unique

\* The responses after a step: a message leaves a good answer, or a good one for it.
LEMMA GoodStays ==
  ASSUME RequestsOK, WaitsOK, ResponsesOK, Owning, [Next]_vars,
         NEW p, NEW c, Good(db, p, c), Alone("rules", p)
  PROVE  Good(db', p, c) \/ \E n \in DOMAIN open : Ends(n, {"rules", "edit", "erase", "poll", "remove"})
<1> DEFINE staff == {"rules", "edit", "erase", "poll", "remove"}
<1>1. PICK g \in db["responses"] : g.poll = p /\ g.conn = c /\ ~g.errors
  BY DEF Good, ResponsesOf, PollResponses
<1>2. ASSUME NEW r \in db'["responses"], r.poll = p, r.conn = c, ~r.errors PROVE Good(db', p, c)
  BY <1>2 DEF Good, ResponsesOf, PollResponses
<1>3. CASE db'["responses"] = db["responses"]
  BY <1>1, <1>2, <1>3
<1>4. ASSUME NEW n \in DOMAIN open, Finish(n)
      PROVE  Good(db', p, c) \/ Ends(n, staff)
  <2> DEFINE e == open[n].effect
  <2>1. Write(e) /\ n \notin DOMAIN open'
    BY <1>4, ClosedOpen DEF Finish, Commit
  <2>2. ASSUME g.id \notin e.drop["responses"], \A r \in e.put["responses"] : r.id # g.id PROVE Good(db', p, c)
    <3> HIDE DEF e
    <3>1. g.id \notin e.drop["responses"] \cup Ids(e.put["responses"])
      BY <2>2 DEF Ids
    <3>2. g \in db'["responses"]
      BY <2>1, <3>1, WriteAt, AnswersThere
    <3> QED BY <1>1, <1>2, <3>2
  <2>3. CASE open[n].kind \in staff
    BY <2>1, <2>3 DEF Ends
  <2>4. CASE open[n].kind \notin staff \cup {"message"}
    <3>1. "responses" \notin Puts[open[n].kind] /\ "responses" \notin Drops[open[n].kind]
      BY <2>4 DEF Owning, Own, Puts, Drops, RosterTables
    <3>2. e.put["responses"] = {} /\ e.drop["responses"] = {}
      BY <3>1, AnswersThere DEF Owning, Own, Within
    <3> QED BY <2>2, <3>2
  <2>5. CASE open[n].kind = "message"
    <3>1. \A r \in e.put["responses"] : r.id = n /\ n \in e.made["responses"]
      BY <2>5 DEF WaitsOK, Waits
    <3>2. g.id # n
      BY DEF ResponsesOK, ResponseRows, Past
    <3>3. CASE g.id \in e.drop["responses"]
      <4>1. Replaced(open[n], g)
        BY <1>1, <2>5, <3>3 DEF ResponsesOK, ReplacesThere, Changed, Alone
      <4>2. PICK x \in e.put["responses"] : ~x.errors /\ x.poll = p /\ x.conn = c
        BY <1>1, <4>1 DEF Replaced
      <4> HIDE DEF e
      <4>3. x.id \notin Gone(e, "responses")
        BY <3>1, <4>2 DEF Gone
      <4>4. x \in db'["responses"]
        BY <2>1, <4>2, <4>3, WriteAt, AnswersThere
      <4> QED BY <1>2, <4>2, <4>4
    <3> QED BY <2>2, <3>1, <3>2, <3>3
  <2> QED BY <2>3, <2>4, <2>5
<1>5. ASSUME NEW t, Begins(t) PROVE db' = db
  BY <1>5, BeginSeen DEF Begins
<1>6. ASSUME NEW n \in DOMAIN open, PollPhase(n) PROVE db' = db
  <2>1. PICK e, place : Adds(n, e, place)
    BY <1>6, PollFiles DEF ResponsesOK
  <2> QED BY <2>1 DEF Adds
<1>7. "responses" \in Tables \ {"asked", "polls"}
  BY AnswersThere
<1>8. SameAt("responses") => db'["responses"] = db["responses"]
  BY DEF SameAt
<1> QED BY <1>3, <1>4, <1>5, <1>6, <1>7, <1>8, Moving, SameSteps

\* A good answer to a poll of one response is not lost to a later bad one,
\* whatever answers overlap: the poll app judges its own answer before it takes
\* the old one away, and the edits that are open meanwhile save what is there.
\* Excepted are polls of which a change of the rules was open beside another
\* request about them, an answer among these.
THEOREM GoodAnswersStay ==
  Spec => KeepsGoodAnswer
<1>1. Init => ResponsesOK /\ WaitsOK /\ Owning
  BY AnswersInit
<1>2. RequestsOK /\ ResponsesOK /\ WaitsOK /\ Owning /\ [Next]_vars => ResponsesOK' /\ WaitsOK' /\ Owning'
  BY NextResponses, NextWaits, NextOwning
<1>3. RequestsOK /\ ResponsesOK /\ WaitsOK /\ Owning /\ [Next]_vars => [GoodAnswerKept]_vars
  BY GoodStays DEF GoodAnswerKept
<1> QED BY RequestsStayOK, <1>1, <1>2, <1>3, PTL DEF Spec, KeepsGoodAnswer

-----------------------------------------------------------------------------
(***************************************************************************)
(* What the staff has put a response into.                                 *)
(***************************************************************************)

\* A request leaves no row with the id.
Lost(e, T, i) == i \in e.drop[T] /\ \A r \in e.put[T] : r.id # i

\* The labels a request takes away: those of the rules, of a response or a
\* category that goes, or of the response it edits.
Takes(t, l) ==
  \/ ~l.override
  \/ Lost(t.effect, "responses", l.response)
  \/ Lost(t.effect, "categories", l.category)
  \/ t.kind = "edit" /\ t.on = l.response

ByEdit(t) == t.kind = "edit"

LabelRows   == /\ \A l \in db["labels"] : \E n, r, k, o : l = Label(n, r, k, o) /\ Past(n)
               /\ Unique(db["labels"])
LabelsPut   == \A n \in DOMAIN open : \A l \in open[n].effect.put["labels"] :
                 \E r, k : l = Label(n, r, k, ByEdit(open[n]))
LabelsTaken == \A n \in DOMAIN open : \A i \in open[n].effect.drop["labels"] :
                 Past(i[1]) /\ \A l \in db["labels"] : l.id = i => Takes(open[n], l)

LabelsOK == LabelRows /\ LabelsPut /\ LabelsTaken

\* A request that begins, and the labels.
OfLabels(t) ==
  /\ \A l \in t.effect.put["labels"] : \E r, k : l = Label(serial + 1, r, k, ByEdit(t))
  /\ \A i \in t.effect.drop["labels"] : \E l \in db["labels"] : l.id = i /\ Takes(t, l)

LEMMA LabelIs ==
  ASSUME NEW n, NEW r, NEW k, NEW o
  PROVE  LET l == Label(n, r, k, o)
         IN l.id = <<n, r, k>> /\ l.id[1] = n /\ l.response = r /\ l.category = k /\ l.override = o
BY DEF Label

LEMMA LabelsBegin ==
  ASSUME RequestsOK, NEW t, Begins(t), Wellformed(t)
  PROVE  OfLabels(t)
<1>1. Begin(t) /\ Own(t) /\ BegunBy(t.kind)
  BY DEF Begins
<1>2. ASSUME t.effect.put["labels"] = {}, t.effect.drop["labels"] = {}, t.place # "poll" PROVE OfLabels(t)
  BY <1>2 DEF OfLabels
<1>3. CASE t.kind = "message"
  <2>1. Unanswered(t)
    BY <1>3, MessageUnanswered
  <2>2. t.effect.put["labels"] = {} /\ t.effect.drop["labels"] = {}
    BY <2>1 DEF Unanswered, AppPuts
  <2> QED BY <2>1, <2>2 DEF OfLabels
<1>4. t.kind # "message" => t.place # "poll"
  BY DEF Wellformed
<1>5. CASE t.kind \notin {"message", "remove", "poll", "rules", "category", "edit", "erase"}
  <2>1. "labels" \notin Puts[t.kind] /\ "labels" \notin Drops[t.kind]
    BY <1>1, <1>5 DEF Own, Puts, Drops, RosterTables
  <2>2. t.effect.put["labels"] = {} /\ t.effect.drop["labels"] = {}
    BY <1>1, <2>1, AnswersThere DEF Own, Within
  <2> QED BY <1>2, <1>4, <1>5, <2>2
<1>6. CASE t.kind = "remove"
  <2>1. /\ t.effect.drop["responses"] = Ids(OfConnection(db, "responses", t.on))
        /\ t.effect.drop["labels"] = Ids(LabelsOf(db, OfConnection(db, "responses", t.on)))
        /\ t.place = "written"
    BY <1>6, RemovalIs, AnswersThere
  <2>2. t.effect.put["labels"] = {} /\ t.effect.put["responses"] = {}
    BY <1>1, <1>6, AnswersThere DEF Own, Within, Puts
  <2> QED BY <2>1, <2>2 DEF OfLabels, Takes, Lost, Ids, LabelsOf
<1>7. CASE t.kind = "erase"
  <2>1. PICK r \in db["responses"] :
          /\ \A T \in Tables : t.effect.put[T] = {}
          /\ t.effect.drop["responses"] = {r.id} /\ t.effect.drop["labels"] = Ids(LabelsOf(db, {r}))
          /\ t.place = "written"
    BY <1>7, EraseBegins
  <2>2. t.effect.put["labels"] = {} /\ t.effect.put["responses"] = {}
    BY <2>1, AnswersThere
  <2> QED BY <2>1, <2>2 DEF OfLabels, Takes, Lost, Ids, LabelsOf
<1>8. CASE t.kind = "poll"
  <2>1. CASE \A T \in AnswerTables : t.effect.put[T] = {} /\ t.effect.drop[T] = {}
    BY <1>2, <1>4, <1>8, <2>1 DEF AnswerTables
  <2>2. ASSUME NEW p \in db["polls"], \A T \in AnswerTables : t.effect.put[T] = {},
               t.effect.drop["responses"] = Ids(PollResponses(db, p.id)),
               t.effect.drop["labels"] = Ids(LabelsOf(db, PollResponses(db, p.id)))
        PROVE  OfLabels(t)
    <3>1. t.effect.put["labels"] = {} /\ t.effect.put["responses"] = {}
      BY <2>2 DEF AnswerTables
    <3> QED BY <1>4, <1>8, <2>2, <3>1 DEF OfLabels, Takes, Lost, Ids, LabelsOf
  <2> QED BY <1>8, <2>1, <2>2, PollBegins
<1>9. CASE t.kind = "category"
  <2>1. t.effect.put["labels"] = {}
    BY <1>1, <1>9, AnswersThere DEF Own, Within, Puts
  <2>2. CASE t.effect.drop["labels"] = {}
    BY <1>2, <1>4, <1>9, <2>1, <2>2
  <2>3. ASSUME NEW k \in db["categories"], t.effect.put["categories"] = {}, t.effect.drop["categories"] = {k.id},
               t.effect.drop["labels"] = Ids({l \in db["labels"] : l.category = k.id})
        PROVE  OfLabels(t)
    BY <1>4, <1>9, <2>1, <2>3 DEF OfLabels, Takes, Lost, Ids
  <2> QED BY <1>9, <2>2, <2>3, RecategoriseBegins
<1>10. CASE t.kind = "edit"
  <2>1. PICK r \in db["responses"] : \E C \in SUBSET CategoriesOf(db, r.poll) :
          /\ t.effect.put["labels"] = {Label(serial + 1, r.id, k.id, TRUE) : k \in C}
          /\ t.effect.drop["labels"] = Ids(LabelsOf(db, {r})) /\ t.on = r.id
    BY <1>10, EditBegins, Zenon
  <2>2. ByEdit(t) = TRUE
    BY <1>10 DEF ByEdit
  <2>3. \A l \in t.effect.put["labels"] : \E q, k : l = Label(serial + 1, q, k, ByEdit(t))
    BY <2>1, <2>2, Zenon
  <2>4. \A i \in t.effect.drop["labels"] : \E l \in db["labels"] : l.id = i /\ Takes(t, l)
    BY <1>10, <2>1 DEF Ids, LabelsOf, Takes
  <2> QED BY <1>4, <1>10, <2>3, <2>4 DEF OfLabels
<1>11. CASE t.kind = "rules"
  <2>1. PICK p \in TextPolls : \E e :
          /\ Within(e, {"rules"}, {"rules"}) /\ After(db, e)["labels"] = db["labels"]
          /\ t.effect = Then(e, reprocess_responses(After(db, e), serial + 1, p.id))
    BY <1>11, RulesBegin
  <2>2. PICK e : /\ Within(e, {"rules"}, {"rules"}) /\ After(db, e)["labels"] = db["labels"]
                 /\ t.effect = Then(e, reprocess_responses(After(db, e), serial + 1, p.id))
    BY <2>1
  <2> DEFINE d == After(db, e)
             f == reprocess_responses(d, serial + 1, p.id)
  <2>3. /\ f.put["labels"] = UNION {RuleLabels(serial + 1, r.id, Again(d, p.id, r)) : r \in PollResponses(d, p.id)}
        /\ f.drop["labels"] = Ids({l \in LabelsOf(d, PollResponses(d, p.id)) : ~l.override})
    <3>1. f = reprocess_responses(d, serial + 1, p.id)
      OBVIOUS
    <3> HIDE DEF f, d
    <3> QED BY <3>1, ReprocessIs
  <2>4. e.put["labels"] = {} /\ e.drop["labels"] = {}
    BY <2>2, AnswersThere DEF Within
  <2>5. \A l \in f.put["labels"] : \E r, k : l = Label(serial + 1, r, k, FALSE)
    <3> HIDE DEF f, d
    <3> QED BY <2>3, Zenon DEF RuleLabels
  <2>6. \A i \in f.drop["labels"] : \E l \in db["labels"] : l.id = i /\ ~l.override
    <3> HIDE DEF f
    <3> QED BY <2>2, <2>3 DEF Ids, LabelsOf
  <2> HIDE DEF f, d
  <2>7. /\ \A l : l \in Then(e, f).put["labels"] => l \in f.put["labels"]
        /\ \A i : i \in Then(e, f).drop["labels"] => i \in f.drop["labels"]
    BY <2>4, AnswersThere, ThenIs
  <2>8. ByEdit(t) = FALSE
    BY <1>11 DEF ByEdit
  <2>9. \A l \in t.effect.put["labels"] : \E r, k : l = Label(serial + 1, r, k, ByEdit(t))
    BY <2>2, <2>5, <2>7, <2>8, Zenon DEF f, d
  <2>10. \A i \in t.effect.drop["labels"] : \E l \in db["labels"] : l.id = i /\ Takes(t, l)
    BY <2>2, <2>6, <2>7 DEF Takes, f, d
  <2> QED BY <1>4, <1>11, <2>9, <2>10 DEF OfLabels
<1> QED BY <1>3, <1>5, <1>6, <1>7, <1>8, <1>9, <1>10, <1>11

\* A label that is there when a request begins is one of another request.
LEMMA LabelsWhenBegun ==
  ASSUME RequestsOK, LabelsOK, NEW t, Begins(t), Wellformed(t), [Next]_vars
  PROVE  LabelsOK'
<1>0. \A i : Past(i) => Past(i)'
  BY PastStays
<1>1. OfLabels(t) /\ Begin(t)
  BY LabelsBegin DEF Begins
<1>2. /\ db' = db /\ serial' = serial + 1 /\ serial' \notin DOMAIN open
      /\ DOMAIN open' = DOMAIN open \cup {serial'} /\ open'[serial'] = t
      /\ \A k \in DOMAIN open : open'[k] = open[k]
  BY <1>1, BeginSeen
<1>3. LabelRows'
  BY <1>0, <1>2 DEF LabelsOK, LabelRows
<1>4. LabelsPut'
  <2> SUFFICES ASSUME NEW n \in DOMAIN open', NEW l \in open'[n].effect.put["labels"]
               PROVE  \E r, k : l = Label(n, r, k, ByEdit(open'[n]))
    BY DEF LabelsPut, ByEdit
  <2>1. CASE n = serial'
    BY <1>1, <1>2, <2>1 DEF OfLabels
  <2>2. CASE n # serial'
    <3>1. n \in DOMAIN open /\ open'[n] = open[n]
      BY <1>2, <2>2
    <3> QED BY <3>1 DEF LabelsOK, LabelsPut
  <2> QED BY <2>1, <2>2
<1>5. LabelsTaken'
  <2>1. ASSUME NEW i \in t.effect.drop["labels"]
        PROVE  Past(i[1])' /\ \A l \in db["labels"] : l.id = i => Takes(t, l)
    <3>1. PICK q \in db["labels"] : q.id = i /\ Takes(t, q)
      BY <1>1, <2>1 DEF OfLabels
    <3>2. PICK n, r, k, o : q = Label(n, r, k, o) /\ Past(n)
      BY DEF LabelsOK, LabelRows
    <3>3. i[1] = n
      BY <3>1, <3>2, LabelIs
    <3>4. \A l \in db["labels"] : l.id = i => l = q
      BY <3>1 DEF LabelsOK, LabelRows, Unique
    <3> QED BY <1>0, <3>1, <3>2, <3>3, <3>4
  <2>2. ASSUME NEW n \in DOMAIN open', NEW i \in open'[n].effect.drop["labels"]
        PROVE  Past(i[1])' /\ \A l \in db'["labels"] : l.id = i => Takes(open'[n], l)
    <3>1. CASE n = serial'
      BY <1>2, <2>1, <2>2, <3>1
    <3>2. CASE n # serial'
      <4>1. n \in DOMAIN open /\ open'[n] = open[n]
        BY <1>2, <3>2
      <4> QED BY <1>0, <1>2, <2>2, <4>1 DEF LabelsOK, LabelsTaken
    <3> QED BY <3>1, <3>2
  <2> QED BY <2>2 DEF LabelsTaken, Takes, Lost
<1> QED BY <1>3, <1>4, <1>5 DEF LabelsOK

\* The poll app's labels are the message's own, and those that it takes away are
\* of the response it replaces.
LEMMA LabelsWhenFiled ==
  ASSUME RequestsOK, WaitsOK, ResponsesOK, LabelsOK, NEW n \in DOMAIN open, PollPhase(n)
  PROVE  LabelsOK'
<1>1. PICK e, place : /\ Adds(n, e, place)
                      /\ \/ e = NoEffect
                         \/ \E p, new : Files(n, e, p, open[n].on.conn, new)
  BY PollFiles DEF ResponsesOK
<1>2. /\ db' = db /\ serial' = serial /\ DOMAIN open' = DOMAIN open /\ open'[n].kind = "message"
      /\ open'[n].effect.put["labels"] = e.put["labels"] /\ open'[n].effect.drop["labels"] = e.drop["labels"]
      /\ open'[n].effect.put["responses"] = e.put["responses"]
      /\ open'[n].effect.drop["responses"] = e.drop["responses"]
      /\ \A k \in DOMAIN open : k # n => open'[k] = open[k]
  BY <1>1 DEF Adds, AppPuts
<1>3. \A i : Past(i)' <=> Past(i)
  BY <1>2 DEF Past
<1>4. ASSUME NEW l \in e.put["labels"] PROVE \E r, k : l = Label(n, r, k, ByEdit(open'[n]))
  <2>1. OfRule(n, l)
    <3>1. e # NoEffect
      BY <1>4, AnswersThere, NoEffectAt
    <3> QED BY <1>1, <1>4, <3>1 DEF Files
  <2>2. ByEdit(open'[n]) = FALSE
    BY <1>2 DEF ByEdit
  <2> QED BY <2>1, <2>2, Zenon DEF OfRule
<1>5. ASSUME NEW i \in e.drop["labels"]
      PROVE  \E q \in db["labels"] : q.id = i /\ Lost(open'[n].effect, "responses", q.response)
  <2>1. e # NoEffect
    BY <1>5, AnswersThere, NoEffectAt
  <2>2. PICK p, new : Files(n, e, p, open[n].on.conn, new)
    BY <1>1, <2>1
  <2>3. PICK r \in db["responses"] : e.drop["responses"] = {r.id} /\ e.drop["labels"] = Ids(LabelsOf(db, {r}))
    BY <1>5, <2>2 DEF Files
  <2>4. PICK q \in db["labels"] : q.id = i /\ q.response = r.id
    BY <1>5, <2>3 DEF Ids, LabelsOf
  <2>5. r.id # n /\ \A x \in e.put["responses"] : x.id = n
    BY <2>2 DEF Files, ResponsesOK, ResponseRows, Past
  <2> QED BY <1>2, <2>3, <2>4, <2>5 DEF Lost
<1>6. LabelRows'
  BY <1>2, <1>3 DEF LabelsOK, LabelRows
<1>7. LabelsPut'
  <2> SUFFICES ASSUME NEW m \in DOMAIN open, NEW l \in open'[m].effect.put["labels"]
               PROVE  \E r, k : l = Label(m, r, k, ByEdit(open'[m]))
    BY <1>2 DEF LabelsPut, ByEdit
  <2>1. CASE m = n
    BY <1>2, <1>4, <2>1
  <2>2. CASE m # n
    <3>1. open'[m] = open[m]
      BY <1>2, <2>2
    <3> QED BY <3>1 DEF LabelsOK, LabelsPut
  <2> QED BY <2>1, <2>2
<1>8. LabelsTaken'
  <2>1. ASSUME NEW i \in e.drop["labels"]
        PROVE  Past(i[1]) /\ \A l \in db["labels"] : l.id = i => Takes(open'[n], l)
    <3>1. PICK q \in db["labels"] : q.id = i /\ Lost(open'[n].effect, "responses", q.response)
      BY <1>5, <2>1
    <3>2. PICK m, r, k, o : q = Label(m, r, k, o) /\ Past(m)
      BY DEF LabelsOK, LabelRows
    <3>3. i[1] = m
      BY <3>1, <3>2, LabelIs
    <3>4. \A l \in db["labels"] : l.id = i => l = q
      BY <3>1 DEF LabelsOK, LabelRows, Unique
    <3> QED BY <3>1, <3>2, <3>3, <3>4 DEF Takes
  <2>2. ASSUME NEW m \in DOMAIN open, NEW i \in open'[m].effect.drop["labels"]
        PROVE  Past(i[1]) /\ \A l \in db["labels"] : l.id = i => Takes(open'[m], l)
    <3>1. CASE m = n
      BY <1>2, <2>1, <2>2, <3>1
    <3>2. CASE m # n
      <4>1. open'[m] = open[m]
        BY <1>2, <3>2
      <4> QED BY <2>2, <4>1 DEF LabelsOK, LabelsTaken
    <3> QED BY <3>1, <3>2
  <2> QED BY <1>2, <1>3, <2>2 DEF LabelsTaken, Takes, Lost
<1> QED BY <1>6, <1>7, <1>8 DEF LabelsOK

LEMMA LabelsWhenOver ==
  ASSUME RequestsOK, LabelsOK, NEW n \in DOMAIN open, Finish(n), [Next]_vars
  PROVE  LabelsOK'
<1> DEFINE e == open[n].effect
<1>1. Write(e) /\ open' = Closed(n) /\ serial' = serial
  BY DEF Finish, Commit
<1>2. DOMAIN open' = DOMAIN open \ {n} /\ \A k \in DOMAIN open' : open'[k] = open[k]
  BY <1>1, ClosedOpen
<1>3. (\A i : Past(i) => Past(i)') /\ Past(n)' /\ ~Past(n)
  BY <1>1, <1>2, PastStays DEF Past, RequestsOK
<1>4. ASSUME NEW l \in e.put["labels"] PROVE \E r, k : l = Label(n, r, k, ByEdit(open[n]))
  BY DEF LabelsOK, LabelsPut
<1>5. Unique(e.put["labels"])
  <2> SUFFICES ASSUME NEW l \in e.put["labels"], NEW m \in e.put["labels"], l.id = m.id PROVE l = m
    BY DEF Unique
  <2> DEFINE o == ByEdit(open[n])
  <2> HIDE DEF o
  <2>1. PICK r, k : l = Label(n, r, k, o)
    BY <1>4 DEF o
  <2>2. PICK q, j : m = Label(n, q, j, o)
    BY <1>4 DEF o
  <2>3. <<n, r, k>> = <<n, q, j>>
    BY <2>1, <2>2, LabelIs
  <2>4. r = q /\ k = j
    BY <2>3
  <2> QED BY <2>1, <2>2, <2>4
<1> HIDE DEF e
<1>6. db'["labels"] \subseteq db["labels"] \cup e.put["labels"] /\ Unique(db'["labels"])
  BY <1>1, <1>5, WriteAt, WriteUnique, AnswersThere DEF LabelsOK, LabelRows
<1>7. LabelRows'
  <2>1. ASSUME NEW l \in db'["labels"] PROVE \E m, r, k, o : l = Label(m, r, k, o) /\ Past(m)'
    <3>1. CASE l \in db["labels"]
      BY <1>3, <3>1 DEF LabelsOK, LabelRows
    <3>2. CASE l \in e.put["labels"]
      BY <1>3, <1>4, <3>2
    <3> QED BY <1>6, <3>1, <3>2
  <2> QED BY <1>6, <2>1 DEF LabelRows, Unique
<1>8. LabelsPut'
  BY <1>2 DEF LabelsOK, LabelsPut, ByEdit
<1>9. LabelsTaken'
  <2>1. ASSUME NEW k \in DOMAIN open', NEW i \in open'[k].effect.drop["labels"]
        PROVE  Past(i[1])' /\ \A l \in db'["labels"] : l.id = i => Takes(open'[k], l)
    <3>1. k \in DOMAIN open /\ open'[k] = open[k]
      BY <1>2
    <3>2. Past(i[1]) /\ \A l \in db["labels"] : l.id = i => Takes(open[k], l)
      BY <2>1, <3>1 DEF LabelsOK, LabelsTaken
    <3>3. \A l \in e.put["labels"] : l.id[1] = n
      BY <1>4, LabelIs
    <3> QED BY <1>3, <1>6, <3>1, <3>2, <3>3
  <2> QED BY <2>1 DEF LabelsTaken, Takes, Lost
<1> QED BY <1>7, <1>8, <1>9 DEF LabelsOK

LEMMA LabelsStay ==
  ASSUME RequestsOK, LabelsOK, SameAt("labels"), SameAt("responses"), SameAt("categories"), [Next]_vars
  PROVE  LabelsOK'
<1>1. /\ db'["labels"] = db["labels"] /\ DOMAIN open' \subseteq DOMAIN open
      /\ \A k \in DOMAIN open' :
           /\ open'[k].kind = open[k].kind
           /\ open'[k].effect.put["labels"] = open[k].effect.put["labels"]
           /\ open'[k].effect.drop["labels"] = open[k].effect.drop["labels"]
  BY DEF SameAt
<1>2. \A i : Past(i) => Past(i)'
  BY PastStays
<1>3. LabelRows'
  BY <1>1, <1>2 DEF LabelsOK, LabelRows
<1>4. LabelsPut'
  BY <1>1 DEF LabelsOK, LabelsPut, ByEdit
<1>5. LabelsTaken'
  <2>1. ASSUME NEW k \in DOMAIN open', NEW i \in open'[k].effect.drop["labels"]
        PROVE  Past(i[1])' /\ \A l \in db'["labels"] : l.id = i => Takes(open'[k], l)
    <3>1. \A l \in db["labels"] : l.id = i => Takes(open[k], l)
      BY <1>1 DEF LabelsOK, LabelsTaken
    <3>2. \A l : Takes(open[k], l) => Takes(open'[k], l)
      BY DEF SameAt, Takes, Lost
    <3> QED BY <1>1, <1>2, <3>1, <3>2 DEF LabelsOK, LabelsTaken
  <2> QED BY <2>1 DEF LabelsTaken, Takes, Lost
<1> QED BY <1>3, <1>4, <1>5 DEF LabelsOK

LEMMA NextLabels ==
  ASSUME RequestsOK, WaitsOK, ResponsesOK, LabelsOK, [Next]_vars
  PROVE  LabelsOK'
<1>1. /\ "responses" \in Tables \ {"asked", "polls"} /\ "labels" \in Tables \ {"asked", "polls"}
      /\ "categories" \in Tables \ {"asked", "polls"}
  BY AnswersThere
<1>2. \/ \E t : Begins(t) /\ Wellformed(t)
      \/ \E n \in DOMAIN open : PollPhase(n) \/ Finish(n)
      \/ SameAt("labels") /\ SameAt("responses") /\ SameAt("categories")
  BY <1>1, Moving, SameSteps
<1> QED BY <1>2, LabelsWhenBegun, LabelsWhenFiled, LabelsWhenOver, LabelsStay

LEMMA OverridesStay ==
  ASSUME RequestsOK, WaitsOK, ResponsesOK, LabelsOK, [Next]_vars, NEW l \in db["labels"], l.override
  PROVE  \/ l \in db'["labels"]
         \/ Select(db', "responses", l.response) = {} \/ Select(db', "categories", l.category) = {}
         \/ \E n \in DOMAIN open : Ends(n, {"edit"}) /\ open[n].on = l.response
<1>1. ASSUME NEW t, Begins(t) PROVE db' = db
  BY <1>1, BeginSeen DEF Begins
<1>2. ASSUME NEW n \in DOMAIN open, PollPhase(n) PROVE db' = db
  <2>1. PICK e, place : Adds(n, e, place)
    BY <1>2, PollFiles DEF ResponsesOK
  <2> QED BY <2>1 DEF Adds
<1>3. SameAt("labels") => db'["labels"] = db["labels"]
  BY DEF SameAt
<1>4. ASSUME NEW n \in DOMAIN open, Finish(n)
      PROVE  \/ l \in db'["labels"]
             \/ Select(db', "responses", l.response) = {} \/ Select(db', "categories", l.category) = {}
             \/ Ends(n, {"edit"}) /\ open[n].on = l.response
  <2> DEFINE e == open[n].effect
  <2>1. Write(e) /\ n \notin DOMAIN open'
    BY <1>4, ClosedOpen DEF Finish, Commit
  <2>2. ASSUME NEW T \in {"responses", "categories"}, NEW i, Lost(e, T, i) PROVE Select(db', T, i) = {}
    <3> HIDE DEF e
    <3>1. ASSUME NEW r \in db'[T] PROVE r.id # i
      <4>1. r \in e.put[T] \/ (r \in db[T] /\ r.id \notin e.drop[T])
        BY <2>1, WriteDrops, AnswersThere
      <4> QED BY <2>2, <4>1 DEF Lost
    <3> QED BY <3>1 DEF Select
  <2>3. \A m \in e.put["labels"] : m.id # l.id
    <3>1. PICK k, q, j, o : l = Label(k, q, j, o) /\ Past(k)
      BY DEF LabelsOK, LabelRows
    <3>2. l.id[1] = k /\ k # n
      BY <3>1, LabelIs DEF Past
    <3>3. \A m \in e.put["labels"] : m.id[1] = n
      BY LabelIs DEF LabelsOK, LabelsPut
    <3> QED BY <3>2, <3>3
  <2>4. CASE l.id \notin e.drop["labels"]
    <3> HIDE DEF e
    <3>1. l.id \notin e.drop["labels"] \cup Ids(e.put["labels"])
      BY <2>3, <2>4 DEF Ids
    <3> QED BY <2>1, <3>1, WriteAt, AnswersThere
  <2>5. CASE l.id \in e.drop["labels"]
    <3>1. Takes(open[n], l)
      BY <2>5 DEF LabelsOK, LabelsTaken
    <3> QED BY <2>1, <2>2, <3>1 DEF Takes, Ends
  <2> QED BY <2>4, <2>5
<1>5. "labels" \in Tables \ {"asked", "polls"}
  BY AnswersThere
<1> QED BY <1>1, <1>2, <1>3, <1>4, <1>5, Moving, SameSteps

\* What the staff has put a response into stays, whatever rules change and
\* whatever overlaps: the labels a request takes away when it commits are those
\* it read, and none of these is the staff's unless its response or its category
\* goes with it or it is an edit.
THEOREM OverridesAreKept ==
  Spec => KeepsOverrides
<1>1. Init => ResponsesOK /\ WaitsOK /\ LabelsOK
  <2> SUFFICES ASSUME Init PROVE LabelsOK
    BY AnswersInit
  <2>1. PICK w \in Workloads : db = w.db /\ DOMAIN open = {}
    BY DEF Init
  <2>2. db["labels"] = {}
    BY <2>1, IncomingAssumption DEF IncomingAssumption
  <2> QED BY <2>1, <2>2 DEF LabelsOK, LabelRows, LabelsPut, LabelsTaken, Unique
<1>2. RequestsOK /\ ResponsesOK /\ WaitsOK /\ LabelsOK /\ [Next]_vars => ResponsesOK' /\ WaitsOK' /\ LabelsOK'
  BY NextResponses, NextWaits, NextLabels
<1>3. RequestsOK /\ ResponsesOK /\ WaitsOK /\ LabelsOK /\ [Next]_vars => [OverridesKept]_vars
  BY OverridesStay DEF OverridesKept
<1> QED BY RequestsStayOK, <1>1, <1>2, <1>3, PTL DEF Spec, KeepsOverrides

-----------------------------------------------------------------------------
(***************************************************************************)
(* One response of a contact to a poll of one response.                    *)
(***************************************************************************)

\* The same poll, with the same type and rule: whatever else a request has read
\* of it.
Alike(x, q) == x.id = q.id /\ x.type = q.type /\ x.rule = q.rule

\* A request that begins, and the polls that it saves: it has read them, or makes
\* one whose id no other has.
OfSaves(t) ==
  /\ t.kind = "start" => t.on \in db["polls"]
  /\ IF t.kind = "create"
     THEN /\ t.effect.put["polls"] \subseteq {t.on} /\ ~There(t.on.id)
          /\ \A k \in DOMAIN open : open[k].kind = "create" => open[k].on.id # t.on.id
     ELSE \A q \in t.effect.put["polls"] : \E x \in db["polls"] : Alike(x, q)

LEMMA CreateSaves ==
  ASSUME RequestsOK, NEW t, Begin(t), CreatePoll
  PROVE  /\ t.kind = "create" /\ OfSaves(t)
<1> DEFINE row(p, type, rule) == [id |-> p, type |-> type, rule |-> rule, start |-> 0, ended |-> FALSE]
           add(p) == Added(p, {k.id : k \in {x \in db["contacts"] : Select(db, "blacklist", x.id) = {}}})
           new(r) == Inserted("polls", {r})
           req(p, r) == WithRecipients(Dates("create", r, Then(new(r), add(p))))
<1>1. PICK p, type, rule :
        /\ Select(db, "polls", p) = {} /\ Select(db, "tombstones", <<"polls", p>>) = {}
        /\ \A n \in DOMAIN open : ~(open[n].kind = "create" /\ open[n].on.id = p)
        /\ Begin(req(p, row(p, type, rule)))
  BY Zenon DEF CreatePoll
<1>2. t = req(p, row(p, type, rule))
  BY <1>1, BeginOne
<1>3. PICK r : r = row(p, type, rule)
  OBVIOUS
<1>4. r.id = p
  BY <1>3
<1>5. new(r).put["polls"] = {r} /\ add(p).put["polls"] = {}
  BY AnswersThere, TablesThere, InsertedAt DEF Added, Schema
<1> HIDE DEF row, new, add
<1>6. PICK e : e = Then(new(r), add(p))
  OBVIOUS
<1>7. t.kind = "create" /\ t.on = r /\ t.effect = e
  <2> DEFINE v == WithRecipients(Dates("create", r, e))
  <2>1. v.kind = "create" /\ v.effect = e
    BY WithRecipientsHas
  <2>3. v.on = r
    BY DEF WithRecipients, Dates, Request
  <2>2. t = v
    BY <1>2, <1>3, <1>6
  <2> QED BY <2>1, <2>2, <2>3
<1>8. e.put["polls"] \subseteq {r}
  BY <1>5, <1>6, PutThen, AnswersThere
<1>9. ~There(p)
  BY <1>1 DEF There, Select
<1> QED BY <1>1, <1>4, <1>7, <1>8, <1>9 DEF OfSaves

LEMMA StartSaves ==
  ASSUME RequestsOK, NEW t, Begin(t), StartPoll
  PROVE  OfSaves(t)
<1>1. PICK p \in db["polls"] : Begin([Dates("start", p, NoEffect) EXCEPT !.place = "texts"])
  BY DEF StartPoll
<1>2. t = [Dates("start", p, NoEffect) EXCEPT !.place = "texts"]
  BY <1>1, BeginOne
<1>3. t.kind = "start" /\ t.on = p /\ t.effect = NoEffect
  BY <1>2 DEF Dates, Request
<1> QED BY <1>3, AnswersThere, NoEffectAt DEF OfSaves

LEMMA EndSaves ==
  ASSUME RequestsOK, NEW t, Begin(t), EndPoll
  PROVE  OfSaves(t)
<1> DEFINE row(p) == [p EXCEPT !.ended = TRUE]
<1>1. PICK p \in db["polls"] : Begin(Dates("stop", p, Saved("polls", {row(p)})))
  BY Zenon DEF EndPoll
<1>2. t = Dates("stop", p, Saved("polls", {row(p)}))
  BY <1>1, BeginOne
<1>3. Alike(p, row(p))
  BY DEF RequestsOK, PollTable, Poll, Alike
<1> HIDE DEF row
<1>4. t.kind = "stop" /\ t.effect = Saved("polls", {row(p)})
  BY <1>2, RequestIs DEF Dates
<1>5. t.effect.put["polls"] = {row(p)}
  BY <1>4, SavedAt, AnswersThere
<1> QED BY <1>3, <1>4, <1>5 DEF OfSaves

LEMMA EditSaves ==
  ASSUME RequestsOK, NEW t, Begin(t), EditPoll
  PROVE  OfSaves(t)
<1> DEFINE gone(p, C) == Deleted("recipients", {m \in db["recipients"] : m.poll = p.id /\ m.conn \notin C})
           add(p, C) == Added(p.id, C \ Recipients(db, p.id))
           save(p) == Saved("polls", {p})
           e(p, C) == Then(save(p), Then(gone(p, C), add(p, C)))
           notes(p, C) == IF p.start = 0 THEN {} ELSE {<<"late", <<p.id, c>>>> : c \in C \ Recipients(db, p.id)}
           u(p, C) == WithRecipients(Dates("poll", p, e(p, C)))
<1>1. \E p \in db["polls"] : \E C : Begin([u(p, C) EXCEPT !.notes = notes(p, C)])
  BY Zenon DEF EditPoll
<1>2. PICK p \in db["polls"] : \E C : t = [u(p, C) EXCEPT !.notes = notes(p, C)]
  BY <1>1, BeginOne
<1>7. PICK C : t = [u(p, C) EXCEPT !.notes = notes(p, C)]
  BY <1>2
<1>3. save(p).put["polls"] = {p} /\ gone(p, C).put["polls"] = {} /\ add(p, C).put["polls"] = {}
  BY TablesThere, AnswersThere, SavedAt, DeletedAt, InsertedAt DEF Added, Schema
<1> HIDE DEF gone, add, save, notes
<1>4. e(p, C).put["polls"] \subseteq {p}
  <2>1. Then(gone(p, C), add(p, C)).put["polls"] = {}
    BY <1>3, ThenNothing, AnswersThere
  <2>2. save(p).put["polls"] \subseteq {p} /\ Then(gone(p, C), add(p, C)).put["polls"] \subseteq {p}
    BY <1>3, <2>1
  <2> QED BY <2>2, PutThen, AnswersThere
<1> HIDE DEF e
<1>5. u(p, C).kind = "poll" /\ u(p, C).effect = e(p, C) /\ Shape(u(p, C))
  BY WithRecipientsHas
<1> HIDE DEF u
<1>6. t.kind = "poll" /\ t.effect = e(p, C)
  BY <1>5, <1>7 DEF Shape, Request
<1> QED BY <1>4, <1>6 DEF OfSaves, Alike

LEMMA DeleteSaves ==
  ASSUME RequestsOK, NEW t, Begin(t), DeletePoll
  PROVE  t.effect.put["polls"] = {}
<1> DEFINE Fine(e) == e.put["polls"] = {}
           effect(p) ==
             Then(Inserted("tombstones", {[id |-> <<"polls", p.id>>]}),
             Then(Erased(db, PollResponses(db, p.id)),
             Then(Deleted("rules", RulesOf(db, p.id)),
             Then(Deleted("categories", CategoriesOf(db, p.id)),
             Then(Deleted("recipients", {m \in db["recipients"] : m.poll = p.id}),
                  Deleted("polls", {p}))))))
<1>1. PICK p : Begin(Request("poll", p, "written", effect(p), {<<"recipients", p.id>>}, {<<"dates", p.id>>}, {}))
  BY Zenon DEF DeletePoll, Dates
<1>2. ASSUME NEW e, NEW f, Fine(e), Fine(f) PROVE Fine(Then(e, f))
  BY <1>2, ThenNothing, AnswersThere
<1>3. ASSUME NEW R
      PROVE  /\ Fine(Inserted("tombstones", R)) /\ Fine(Deleted("rules", R)) /\ Fine(Deleted("categories", R))
             /\ Fine(Deleted("recipients", R)) /\ Fine(Deleted("polls", R)) /\ Fine(Erased(db, R))
  BY TablesThere, AnswersThere, DeletedAt, InsertedAt, ErasedIs DEF Schema
<1> HIDE DEF Fine
<1>4. Fine(effect(p))
  BY <1>2, <1>3
<1> HIDE DEF effect
<1>5. t = Request("poll", p, "written", effect(p), {<<"recipients", p.id>>}, {<<"dates", p.id>>}, {})
  BY <1>1, BeginOne
<1>6. t.effect = effect(p)
  BY <1>5, RequestIs
<1> QED BY <1>4, <1>6 DEF Fine

LEMMA SavesBegin ==
  ASSUME RequestsOK, NEW t, Begins(t)
  PROVE  OfSaves(t)
<1>1. Begin(t) /\ Own(t) /\ BegunBy(t.kind) /\ "polls" \in Tables
  BY AnswersThere DEF Begins
<1>2. CASE t.kind = "create"
  BY <1>1, <1>2, CreateSaves DEF BegunBy
<1>3. CASE t.kind = "start"
  BY <1>1, <1>3, StartSaves DEF BegunBy
<1>4. CASE t.kind = "stop"
  BY <1>1, <1>4, EndSaves DEF BegunBy
<1>5. CASE t.kind = "poll"
  BY <1>1, <1>5, EditSaves, DeleteSaves DEF BegunBy, OfSaves
<1>6. CASE t.kind \notin {"create", "start", "stop", "poll"}
  <2>1. "polls" \notin Puts[t.kind]
    BY <1>1, <1>6 DEF Own, Puts, RosterTables
  <2>2. t.effect.put["polls"] = {}
    BY <1>1, <2>1 DEF Own, Within
  <2> QED BY <1>6, <2>2 DEF OfSaves
<1> QED BY <1>2, <1>3, <1>4, <1>5, <1>6

\* Where a row of a poll is, or may still come from.
Source(q) ==
  \/ q \in db["polls"]
  \/ \E k \in DOMAIN open : \/ q \in open[k].effect.put["polls"]
                            \/ open[k].kind = "start" /\ q = open[k].on

\* The type and the rule of a poll are never others; only its creation writes a poll that is
\* not there yet, or was not.
RuleFixed   == \A x, q : Source(x) /\ Source(q) /\ x.id = q.id => Alike(x, q)
CreatesOwn  == \A k \in DOMAIN open : open[k].kind = "create" =>
                 \A q \in open[k].effect.put["polls"] : q = open[k].on
SavesThere  == \A k \in DOMAIN open :
                 /\ open[k].kind # "create" => \A q \in open[k].effect.put["polls"] : There(q.id)
                 /\ open[k].kind = "start" => There(open[k].on.id)

RulesFixed == RuleFixed /\ CreatesOwn /\ SavesThere

\* A row that is a source after a step was one before, but for a new poll's.
NewSources ==
  \E new : \A q : Source(q)' =>
    \/ \E x : Source(x) /\ Alike(x, q)
    \/ q = new /\ ~There(q.id) /\ \A x : Source(x) => x.id # q.id

LEMMA ThereKept ==
  ASSUME RequestsOK, [Next]_vars
  PROVE  \A p : There(p) => There(p)'
<1>1. ASSUME db'["polls"] = db["polls"], db'["tombstones"] = db["tombstones"]
      PROVE  \A p : There(p) => There(p)'
  BY <1>1 DEF There, Select
<1>2. ASSUME NEW n \in DOMAIN open, Finish(n) PROVE \A p : There(p) => There(p)'
  BY <1>2, ThereStays DEF Finish, Commit
<1>3. ASSUME NEW n \in DOMAIN open, MassTextCommits(n)
      PROVE  db'["polls"] = db["polls"] /\ db'["tombstones"] = db["tombstones"]
  <2>1. Write(Then(NoEffect, Questions(db, n, open[n].on.id)))
    BY <1>3, MassTextIs
  <2> QED BY <2>1, QuestionsAt, TablesThere DEF Schema
<1>4. ASSUME NEW n \in DOMAIN open, PollPhase(n) \/ FormPhase(n) PROVE db' = db
  <2>1. \E e, place : Phase(n, e, place)
    BY <1>4, PollPhaseIs, FormPhaseIs
  <2> QED BY <2>1 DEF Phase
<1>5. ASSUME NEW n \in DOMAIN open, Fail(n) PROVE db' = db
  BY <1>5 DEF Fail, Rollback
<1>6. ASSUME NEW t, Begins(t) PROVE db' = db
  BY <1>6, BeginSeen DEF Begins
<1>7. CASE UNCHANGED database
  BY <1>1, <1>7 DEF database
<1> QED BY <1>1, <1>2, <1>3, <1>4, <1>5, <1>6, <1>7, Moving DEF Moves

\* The polls that open requests save, after a step that begins and ends none.
LEMMA SameSources ==
  ASSUME SameAt("polls")
  PROVE  \A q : Source(q)' => Source(q)
<1>1. /\ db'["polls"] = db["polls"] /\ DOMAIN open' \subseteq DOMAIN open
      /\ \A k \in DOMAIN open' :
           /\ open'[k].kind = open[k].kind /\ open'[k].on = open[k].on
           /\ open'[k].effect.put["polls"] = open[k].effect.put["polls"]
  BY DEF SameAt
<1> SUFFICES ASSUME NEW q, Source(q)' PROVE Source(q)
  OBVIOUS
<1>2. CASE q \in db'["polls"]
  BY <1>1, <1>2 DEF Source
<1>3. ASSUME NEW k \in DOMAIN open', q \in open'[k].effect.put["polls"] \/ (open'[k].kind = "start" /\ q = open'[k].on)
      PROVE  Source(q)
  BY <1>1, <1>3 DEF Source
<1> QED BY <1>2, <1>3 DEF Source

LEMMA SourcesStay ==
  ASSUME RequestsOK, RulesFixed, SameAt("polls"), [Next]_vars
  PROVE  RulesFixed' /\ NewSources
<1>1. \A q : Source(q)' => Source(q)
  BY SameSources
<1>2. /\ DOMAIN open' \subseteq DOMAIN open
      /\ \A k \in DOMAIN open' :
           /\ open'[k].kind = open[k].kind /\ open'[k].on = open[k].on
           /\ open'[k].effect.put["polls"] = open[k].effect.put["polls"]
  BY DEF SameAt
<1>3. \A p : There(p) => There(p)'
  BY ThereKept
<1>4. RuleFixed'
  BY <1>1 DEF RulesFixed, RuleFixed
<1>5. CreatesOwn'
  BY <1>2 DEF RulesFixed, CreatesOwn
<1>6. SavesThere'
  BY <1>2, <1>3 DEF RulesFixed, SavesThere
<1>7. NewSources
  BY <1>1 DEF NewSources, Alike
<1> QED BY <1>4, <1>5, <1>6, <1>7 DEF RulesFixed

LEMMA SourcesWhenBegun ==
  ASSUME RequestsOK, RulesFixed, NEW t, Begins(t), [Next]_vars
  PROVE  RulesFixed' /\ NewSources
<1>1. OfSaves(t) /\ Begin(t)
  BY SavesBegin DEF Begins
<1>2. /\ db' = db /\ DOMAIN open' = DOMAIN open \cup {serial'} /\ open'[serial'] = t
      /\ \A k \in DOMAIN open : open'[k] = open[k]
  BY <1>1, BeginSeen
<1>3. \A p : There(p) => There(p)'
  BY ThereKept
<1>4. ASSUME NEW x, Source(x), t.kind = "create" PROVE x.id # t.on.id
  <2>1. ~There(t.on.id) /\ \A k \in DOMAIN open : open[k].kind = "create" => open[k].on.id # t.on.id
    BY <1>1, <1>4 DEF OfSaves
  <2>2. CASE x \in db["polls"]
    BY <2>1, <2>2 DEF There
  <2>3. ASSUME NEW k \in DOMAIN open, x \in open[k].effect.put["polls"] PROVE x.id # t.on.id
    <3>1. CASE open[k].kind = "create"
      BY <2>1, <2>3, <3>1 DEF RulesFixed, CreatesOwn
    <3>2. CASE open[k].kind # "create"
      BY <2>1, <2>3, <3>2 DEF RulesFixed, SavesThere
    <3> QED BY <3>1, <3>2
  <2>4. ASSUME NEW k \in DOMAIN open, open[k].kind = "start", x = open[k].on PROVE x.id # t.on.id
    BY <2>1, <2>4 DEF RulesFixed, SavesThere
  <2> QED BY <1>4, <2>2, <2>3, <2>4 DEF Source
<1>5. ASSUME NEW q, Source(q)'
      PROVE  \/ \E x : Source(x) /\ Alike(x, q)
             \/ q = t.on /\ t.kind = "create" /\ ~There(q.id)
  <2>1. \/ Source(q)
        \/ q \in t.effect.put["polls"]
        \/ t.kind = "start" /\ q = t.on
    BY <1>2, <1>5 DEF Source
  <2>2. CASE Source(q)
    BY <2>2 DEF Alike
  <2>3. CASE t.kind = "start" /\ q = t.on
    BY <1>1, <2>3 DEF OfSaves, Source, Alike
  <2>4. CASE q \in t.effect.put["polls"] /\ t.kind = "create"
    BY <1>1, <2>4 DEF OfSaves
  <2>5. CASE q \in t.effect.put["polls"] /\ t.kind # "create"
    BY <1>1, <2>5 DEF OfSaves, Source
  <2> QED BY <2>1, <2>2, <2>3, <2>4, <2>5
<1>6. RuleFixed'
  <2> SUFFICES ASSUME NEW x, NEW q, Source(x)', Source(q)', x.id = q.id PROVE Alike(x, q)
    BY DEF RuleFixed
  <2>1. CASE x = t.on /\ t.kind = "create"
    BY <1>4, <1>5, <2>1 DEF Alike
  <2>2. CASE q = t.on /\ t.kind = "create"
    BY <1>4, <1>5, <2>2 DEF Alike
  <2>3. CASE ~(x = t.on /\ t.kind = "create") /\ ~(q = t.on /\ t.kind = "create")
    BY <1>5, <2>3 DEF Alike, RulesFixed, RuleFixed
  <2> QED BY <2>1, <2>2, <2>3
<1>7. CreatesOwn'
  BY <1>1, <1>2 DEF RulesFixed, CreatesOwn, OfSaves
<1>8. SavesThere'
  <2>1. \A q : q \in db["polls"] => There(q.id)
    BY DEF There
  <2>2. t.kind # "create" => \A q \in t.effect.put["polls"] : There(q.id)
    BY <1>1, <2>1 DEF OfSaves, Alike
  <2>3. t.kind = "start" => There(t.on.id)
    BY <1>1, <2>1 DEF OfSaves
  <2> QED BY <1>2, <1>3, <2>2, <2>3 DEF RulesFixed, SavesThere
<1>9. NewSources
  BY <1>4, <1>5 DEF NewSources
<1> QED BY <1>6, <1>7, <1>8, <1>9 DEF RulesFixed

LEMMA SourcesWhenSent ==
  ASSUME RequestsOK, RulesFixed, NEW n \in DOMAIN open, MassTextCommits(n), [Next]_vars
  PROVE  RulesFixed' /\ NewSources
<1> DEFINE e == Started(n, open[n].on)
           row == [open[n].on EXCEPT !.start = n]
<1>1. /\ open[n].kind = "start" /\ e.put["polls"] = {row}
      /\ Write(Then(NoEffect, Questions(db, n, open[n].on.id)))
  BY MassTextIs
<1>2. db'["polls"] = db["polls"]
  BY <1>1, QuestionsAt, TablesThere DEF Schema
<1>3. /\ DOMAIN open' = DOMAIN open /\ open'[n] = Further(open[n], e, "written")
      /\ \A k \in DOMAIN open : k # n => open'[k] = open[k]
  BY MassTextOpen
<1>4. open'[n].kind = "start" /\ open'[n].on = open[n].on /\ open'[n].effect = e
  BY <1>1, <1>3, FurtherIs
<1>5. Alike(open[n].on, row)
  <2>1. open[n].on \in Poll
    BY <1>1 DEF RequestsOK, Wellformed, OfPolls
  <2> QED BY <2>1 DEF Poll, Alike
<1>6. \A p : There(p) => There(p)'
  BY ThereKept
<1> HIDE DEF e, row
<1>7. Source(open[n].on)
  BY <1>1 DEF Source
<1>8. ASSUME NEW q, Source(q)' PROVE \E x : Source(x) /\ Alike(x, q)
  <2>1. q = row \/ Source(q)
    <3>1. CASE q \in db'["polls"]
      BY <1>2, <3>1 DEF Source
    <3>2. ASSUME NEW k \in DOMAIN open',
                 q \in open'[k].effect.put["polls"] \/ (open'[k].kind = "start" /\ q = open'[k].on)
          PROVE  q = row \/ Source(q)
      <4>1. CASE k = n
        BY <1>1, <1>4, <1>7, <3>2, <4>1
      <4>2. CASE k # n
        BY <1>3, <3>2, <4>2 DEF Source
      <4> QED BY <4>1, <4>2
    <3> QED BY <1>8, <3>1, <3>2 DEF Source
  <2> QED BY <1>5, <1>7, <2>1 DEF Alike
<1>9. RuleFixed'
  <2> SUFFICES ASSUME NEW x, NEW q, Source(x)', Source(q)', x.id = q.id PROVE Alike(x, q)
    BY DEF RuleFixed
  <2> QED BY <1>8 DEF Alike, RulesFixed, RuleFixed
<1>10. CreatesOwn'
  BY <1>3, <1>4 DEF RulesFixed, CreatesOwn
<1>11. SavesThere'
  <2>1. There(open[n].on.id) /\ row.id = open[n].on.id
    BY <1>1, <1>5 DEF RulesFixed, SavesThere, Alike
  <2> QED BY <1>1, <1>3, <1>4, <1>6, <2>1 DEF RulesFixed, SavesThere
<1>12. NewSources
  BY <1>8 DEF NewSources
<1> QED BY <1>9, <1>10, <1>11, <1>12 DEF RulesFixed

LEMMA SourcesWhenOver ==
  ASSUME RequestsOK, RulesFixed, NEW n \in DOMAIN open, Finish(n), [Next]_vars
  PROVE  RulesFixed' /\ NewSources
<1>1. /\ \A r \in db'["polls"] : r \in db["polls"] \/ r \in open[n].effect.put["polls"]
      /\ DOMAIN open' = DOMAIN open \ {n} /\ \A k \in DOMAIN open' : open'[k] = open[k]
  BY FinishSeen, AnswersThere
<1>2. \A p : There(p) => There(p)'
  BY ThereKept
<1>3. \A q : Source(q)' => Source(q)
  BY <1>1 DEF Source
<1>4. RuleFixed' /\ NewSources
  BY <1>3 DEF RulesFixed, RuleFixed, NewSources, Alike
<1>5. CreatesOwn' /\ SavesThere'
  BY <1>1, <1>2 DEF RulesFixed, CreatesOwn, SavesThere
<1> QED BY <1>4, <1>5 DEF RulesFixed

\* The other steps save no poll.
LEMMA PhasePolls ==
  ASSUME RequestsOK, NEW n \in DOMAIN open, PollPhase(n) \/ FormPhase(n)
  PROVE  SameAt("polls")
<1>1. PICK e, place : /\ Phase(n, e, place)
                      /\ Within(e, AppPuts, AppDrops) \/ Within(e, {"submissions"}, {})
  BY PhaseWithin
<1>2. e.put["polls"] = {} /\ e.drop["polls"] = {}
  BY <1>1, AnswersThere DEF Within, AppPuts, AppDrops
<1> QED BY <1>1, <1>2, PhaseSame, AnswersThere

LEMMA SamePolls ==
  ASSUME RequestsOK, Moves
  PROVE  \/ \E t : Begins(t)
         \/ \E n \in DOMAIN open : MassTextCommits(n) \/ Finish(n)
         \/ SameAt("polls")
<1>1. ASSUME NEW n \in DOMAIN open, PollPhase(n) \/ FormPhase(n) PROVE SameAt("polls")
  BY <1>1, PhasePolls
<1>2. ASSUME NEW n \in DOMAIN open, Fail(n) PROVE SameAt("polls")
  <2>1. open' = Closed(n) /\ db' = db /\ history \subseteq history'
    BY <1>2 DEF Fail, Rollback
  <2> QED BY <2>1, ClosedOpen, SameRest, AnswersThere
<1>3. CASE UNCHANGED database
  BY <1>3, SameRest, AnswersThere DEF database
<1> QED BY <1>1, <1>2, <1>3 DEF Moves

LEMMA NextSources ==
  ASSUME RequestsOK, RulesFixed, [Next]_vars
  PROVE  RulesFixed' /\ NewSources
BY Moving, SamePolls, SourcesStay, SourcesWhenBegun, SourcesWhenSent, SourcesWhenOver

\* Every response, there or written, is of a poll that is there, or was.
ResponsesThere ==
  /\ \A r \in db["responses"] : There(r.poll)
  /\ \A k \in DOMAIN open : \A r \in open[k].effect.put["responses"] : There(r.poll)

\* The poll that takes a message's answer is there, and its rule is known.
LEMMA TakerThere ==
  ASSUME RequestsOK, NEW n \in DOMAIN open, open[n].kind = "message", NEW c, NEW p \in Latest(Seen(n), c)
  PROVE  p \in db["polls"]
<1>1. p \in Seen(n)["polls"]
  BY DEF Latest, Running
<1>2. open[n].effect.put["polls"] = {}
  BY DEF RequestsOK, Wellformed, OfMessage
<1> QED BY <1>1, <1>2, AfterAt, AnswersThere DEF Seen

LEMMA NextThere ==
  ASSUME RequestsOK, WaitsOK, ResponsesOK, ResponsesThere, [Next]_vars
  PROVE  ResponsesThere'
<1> DEFINE T == "responses"
<1>1. \A p : There(p) => There(p)'
  BY ThereKept
<1>2. ASSUME NEW t, Begins(t), Wellformed(t) PROVE ResponsesThere'
  <2>1. OfResponses(t) /\ Begin(t)
    BY <1>2, ResponsesBegin DEF Begins
  <2>2. /\ db' = db /\ DOMAIN open' = DOMAIN open \cup {serial'} /\ open'[serial'] = t
        /\ \A k \in DOMAIN open : open'[k] = open[k]
    BY <2>1, BeginSeen
  <2>3. \A r \in t.effect.put[T] : There(r.poll)
    BY <2>1 DEF OfResponses, SameAnswer, ResponsesThere
  <2> QED BY <1>1, <2>2, <2>3 DEF ResponsesThere
<1>3. ASSUME NEW n \in DOMAIN open, PollPhase(n) PROVE ResponsesThere'
  <2>1. PICK e, place : /\ Adds(n, e, place)
                        /\ e = NoEffect \/ \E p, new : Files(n, e, p, open[n].on.conn, new)
    BY <1>3, PollFiles DEF ResponsesOK
  <2>2. /\ open[n].kind = "message" /\ db' = db /\ DOMAIN open' = DOMAIN open
        /\ open'[n].effect.put[T] = e.put[T]
        /\ \A k \in DOMAIN open : k # n => open'[k] = open[k]
    BY <2>1 DEF Adds, AppPuts
  <2>3. ASSUME NEW r \in e.put[T] PROVE There(r.poll)
    <3>1. e # NoEffect
      BY <2>3, NoEffectAt, AnswersThere
    <3>2. PICK p, new : Files(n, e, p, open[n].on.conn, new)
      BY <2>1, <3>1
    <3>3. p \in Latest(Seen(n), open[n].on.conn) /\ e.put[T] = {new} /\ new.poll = p.id
      BY <3>2 DEF Files
    <3>4. p \in db["polls"]
      BY <2>2, <3>3, TakerThere
    <3> QED BY <2>3, <3>3, <3>4 DEF There
  <2> QED BY <1>1, <2>2, <2>3 DEF ResponsesThere
<1>4. ASSUME NEW n \in DOMAIN open, Finish(n) PROVE ResponsesThere'
  <2>1. /\ \A r \in db'[T] : r \in db[T] \/ r \in open[n].effect.put[T]
        /\ DOMAIN open' = DOMAIN open \ {n} /\ \A k \in DOMAIN open' : open'[k] = open[k]
    BY <1>4, FinishSeen, AnswersThere
  <2> QED BY <1>1, <2>1 DEF ResponsesThere
<1>5. CASE SameAt(T)
  BY <1>1, <1>5 DEF SameAt, ResponsesThere
<1>6. T \in Tables \ {"asked", "polls"}
  BY AnswersThere
<1> QED BY <1>2, <1>3, <1>4, <1>5, <1>6, Moving, SameSteps

-----------------------------------------------------------------------------
\* A poll of one response, and what marks the answers of a contact to it.
Once(p)      == \E q : Source(q) /\ q.id = p /\ q.rule = "one"
Marked(p, c) == {<<"rules", p>>, <<"person", c>>, <<"categories", p>>} \cap history # {}

AnswerAt(r, p, c) == r.poll = p /\ r.conn = c
OneAt(R, p, c)    == \A r, q \in R : AnswerAt(r, p, c) /\ AnswerAt(q, p, c) => r.id = q.id

\* What is there, and what any open request sees, is one response of a contact to
\* such a poll, if no two requests about it were open at once.
OneEverywhere(p, c) ==
  /\ OneAt(db["responses"], p, c)
  /\ \A k \in DOMAIN open : OneAt(Seen(k)["responses"], p, c)

OneOK == \A p, c : Once(p) /\ ~Marked(p, c) => OneEverywhere(p, c)

\* Fewer answers, or others of the same ids.
LEMMA FewerAnswers ==
  ASSUME NEW R, NEW S, NEW p, NEW c, OneAt(S, p, c),
         \A r \in R : AnswerAt(r, p, c) => \E q \in S : q.id = r.id /\ AnswerAt(q, p, c)
  PROVE  OneAt(R, p, c)
BY DEF OneAt

\* What was marked or not a poll of one response before is enough to look at.
LEMMA OnceBefore ==
  ASSUME NewSources, ResponsesThere, NEW p, Once(p)'
  PROVE  \/ Once(p)
         \/ /\ \A r \in db["responses"] : r.poll # p
            /\ \A k \in DOMAIN open : \A r \in open[k].effect.put["responses"] : r.poll # p
<1>1. PICK q : Source(q)' /\ q.id = p /\ q.rule = "one"
  BY DEF Once
<1>2. CASE \E x : Source(x) /\ Alike(x, q)
  BY <1>1, <1>2 DEF Once, Alike
<1>3. CASE ~There(q.id)
  BY <1>1, <1>3 DEF ResponsesThere
<1> QED BY <1>1, <1>2, <1>3 DEF NewSources

\* A request that puts an answer at a place is about it.
AnswersBy(t, p, c) == \E r \in t.effect.put["responses"] : AnswerAt(r, p, c)

LEMMA TwoAnswers ==
  ASSUME RequestsOK, WaitsOK, ResponsesOK, NEW n \in DOMAIN open, NEW k \in DOMAIN open, n # k,
         NEW p, NEW c, AnswersBy(open[n], p, c), AnswersBy(open[k], p, c), p \in PollIds
  PROVE  Marked(p, c)
<1> DEFINE Serialises(t) == \/ <<"person", c>> \in t.writes /\ <<"rules", p>> \in t.reads
                            \/ <<"rules", p>> \in t.writes
<1>1. ASSUME NEW m \in DOMAIN open, AnswersBy(open[m], p, c) PROVE Serialises(open[m])
  <2>1. PICK r \in open[m].effect.put["responses"] : r.poll = p /\ r.conn = c
    BY <1>1 DEF AnswersBy, AnswerAt
  <2>2. CASE open[m].kind = "message"
    <3>1. <<"person", c>> \in open[m].writes
      BY <2>1, <2>2 DEF RequestsOK, Wellformed, OfMessage
    <3>2. <<"rules", p>> \in open[m].reads
      BY <2>2 DEF WaitsOK, Waits
    <3> QED BY <3>1, <3>2
  <2>3. CASE open[m].kind # "message"
    BY <2>1, <2>3 DEF ResponsesOK, ResponsesPut, Saves
  <2> QED BY <2>2, <2>3
<1>2. Serialises(open[n]) /\ Serialises(open[k])
  BY <1>1
<1>3. Meet(open[n], open[k]) \subseteq history
  BY DEF RequestsOK
<1> QED BY <1>2, <1>3 DEF Meet, Marked

LEMMA SourceIs ==
  ASSUME RequestsOK, NEW q, Source(q)
  PROVE  q \in Poll
BY DEF Source, RequestsOK, Wellformed, OfPolls, PollTable

LEMMA OneWhenBegun ==
  ASSUME RequestsOK, ResponsesOK, NEW t, Begins(t), Wellformed(t), NEW p, NEW c, OneEverywhere(p, c)
  PROVE  OneEverywhere(p, c)'
<1> DEFINE T == "responses"
           e == t.effect
<1>1. OfResponses(t) /\ Begin(t)
  BY ResponsesBegin DEF Begins
<1>2. /\ db' = db /\ DOMAIN open' = DOMAIN open \cup {serial'}
      /\ \A m : m = serial' => Seen(m)' = After(db, e)
      /\ \A k \in DOMAIN open : Seen(k)' = Seen(k)
  BY <1>1, BeginSeen
<1>3. \A r \in e.put[T] : \E q \in db[T] : SameAnswer(q, r)
  BY <1>1 DEF OfResponses
<1> HIDE DEF e
<1>4. ASSUME NEW r \in After(db, e)[T], AnswerAt(r, p, c) PROVE \E q \in db[T] : q.id = r.id /\ AnswerAt(q, p, c)
  <2>1. r \in e.put[T] \/ r \in db[T]
    BY AfterIs, AnswersThere
  <2> QED BY <1>3, <1>4, <2>1 DEF SameAnswer, AnswerAt
<1>5. OneAt(After(db, e)[T], p, c)
  <2>1. OneAt(db[T], p, c)
    BY DEF OneEverywhere
  <2> QED BY <1>4, <2>1, FewerAnswers
<1>6. \A k \in DOMAIN open' : OneAt(Seen(k)'[T], p, c)
  BY <1>2, <1>5 DEF OneEverywhere
<1> QED BY <1>2, <1>6 DEF OneEverywhere, OneAt, AnswerAt

\* An answer to a poll of one response is the only one, or takes the other's place.
LEMMA FilesOne ==
  ASSUME RequestsOK, RulesFixed, ResponsesOK, DefaultsOK, NEW n \in DOMAIN open, NEW e, NEW place, Adds(n, e, place),
         NEW p, NEW c, NEW new, Files(n, e, p, c, new), Once(p.id), ~Marked(p.id, c), OneAt(db["responses"], p.id, c)
  PROVE  \A r \in db["responses"] : AnswerAt(r, p.id, c) => r.id \in e.drop["responses"]
<1> DEFINE d == Seen(n)
           words == open[n].on.text.words
           mine == process_response(d, n, p, c, words)
           old == ResponsesOf(d, p.id, c)
<1>1. /\ p \in Latest(d, c) /\ Filing(d, n, c, words, e, p) /\ open[n].kind = "message"
      /\ d["responses"] = db["responses"]
  BY DEF Files, Adds
<1>2. p.rule # "all"
  <2>1. p \in db["polls"]
    BY <1>1, TakerThere
  <2>2. Source(p)
    BY <2>1 DEF Source
  <2> QED BY <2>2 DEF Once, RulesFixed, RuleFixed, Alike
<1>3. \A r : r \in old <=> r \in db["responses"] /\ AnswerAt(r, p.id, c)
  BY <1>1 DEF ResponsesOf, PollResponses, AnswerAt
<1>4. ~Raises(d, p.id, Matching(d, p.id, words))
  <2> DEFINE D == Defaults(d, p.id)
  <2>1. OneIn(d["categories"], p.id)
    BY DEF DefaultsOK, OneSeen, Marked
  <2>2. \A i, j \in D : i = j
    BY <2>1 DEF OneIn, Defaults, CategoriesOf, DefaultOf
  <2>3. D = {} \/ \E i \in D : D = {i}
    BY <2>2
  <2> HIDE DEF D
  <2>4. Cardinality(D) \in {0, 1}
    BY <2>3, FS_EmptySet, FS_Singleton
  <2> QED BY <2>4 DEF D, Raises
<1>5. \/ old = {}
      \/ \E r \in old : e = Then(mine, Erased(d, {r}))
  BY <1>1, <1>2, <1>4, Zenon DEF Filing
<1>6. CASE old = {}
  BY <1>3, <1>6
<1>7. ASSUME NEW r \in old, e = Then(mine, Erased(d, {r}))
      PROVE  r.id \in e.drop["responses"]
  <2> DEFINE f == Erased(d, {r})
  <2>1. f.drop["responses"] = Ids({r})
    BY ErasedIs
  <2>2. e = Then(mine, f)
    BY <1>7
  <2> HIDE DEF mine, f
  <2>3. \A T \in Tables : Then(mine, f).drop[T] = mine.drop[T] \cup f.drop[T]
    BY DEF Then
  <2>4. e.drop["responses"] = mine.drop["responses"] \cup f.drop["responses"]
    BY <2>2, <2>3, AnswersThere
  <2> QED BY <2>1, <2>4 DEF Ids
<1> HIDE DEF old, mine, d
<1>8. CASE \E r \in old : e = Then(mine, Erased(d, {r}))
  BY <1>3, <1>7, <1>8 DEF OneAt
<1> QED BY <1>5, <1>6, <1>8

LEMMA OneWhenFiled ==
  ASSUME RequestsOK, RulesFixed, WaitsOK, ResponsesOK, DefaultsOK, NEW n \in DOMAIN open, PollPhase(n),
         NEW p, NEW c, Once(p), ~Marked(p, c), OneEverywhere(p, c)
  PROVE  OneEverywhere(p, c)'
<1> DEFINE T == "responses"
<1>1. PICK e, place : /\ Adds(n, e, place)
                      /\ e = NoEffect \/ \E x, new : Files(n, e, x, open[n].on.conn, new)
  BY PollFiles DEF ResponsesOK
<1>2. /\ db' = db /\ DOMAIN open' = DOMAIN open
      /\ open'[n].effect.put[T] = e.put[T] /\ open'[n].effect.drop[T] = e.drop[T]
      /\ \A k \in DOMAIN open : k # n => open'[k] = open[k]
  BY <1>1 DEF Adds, AppPuts
<1>3. Seen(n)'[T] = After(db, e)[T]
  <2> DEFINE f == open'[n].effect
  <2>1. f.put[T] = e.put[T] /\ f.drop[T] = e.drop[T]
    BY <1>2
  <2>2. Seen(n)' = After(db, f)
    BY <1>2 DEF Seen
  <2> HIDE DEF f
  <2> QED BY <2>1, <2>2, AfterSame, AnswersThere
<1>4. OneAt(After(db, e)[T], p, c)
  <2>1. CASE e = NoEffect
    <3>1. After(db, e)[T] \subseteq db[T]
      BY <2>1, AfterAt, NoEffectAt, AnswersThere
    <3> QED BY <3>1 DEF OneEverywhere, OneAt
  <2>2. ASSUME NEW x, NEW new, Files(n, e, x, open[n].on.conn, new)
        PROVE  OneAt(After(db, e)[T], p, c)
    <3>1. e.put[T] = {new} /\ new.poll = x.id /\ new.conn = open[n].on.conn
      BY <2>2 DEF Files
    <3>2. \A r \in After(db, e)[T] : r = new \/ (r \in db[T] /\ r.id \notin e.drop[T])
      BY <3>1, AfterIs, AnswersThere
    <3>3. OneAt(db[T], p, c)
      BY DEF OneEverywhere
    <3>4. CASE AnswerAt(new, p, c)
      <4>1. x.id = p /\ open[n].on.conn = c
        BY <3>1, <3>4 DEF AnswerAt
      <4>2. \A r \in db[T] : AnswerAt(r, p, c) => r.id \in e.drop[T]
        BY <1>1, <2>2, <3>3, <4>1, FilesOne
      <4> QED BY <3>2, <4>2 DEF OneAt
    <3>5. CASE ~AnswerAt(new, p, c)
      BY <3>2, <3>3, <3>5 DEF OneAt
    <3> QED BY <3>4, <3>5
  <2> QED BY <1>1, <2>1, <2>2
<1>5. \A k \in DOMAIN open : k # n => Seen(k)' = Seen(k)
  BY <1>2 DEF Seen
<1>6. \A k \in DOMAIN open' : OneAt(Seen(k)'[T], p, c)
  BY <1>2, <1>3, <1>4, <1>5 DEF OneEverywhere
<1> QED BY <1>2, <1>6 DEF OneEverywhere, OneAt, AnswerAt

LEMMA OneWhenOver ==
  ASSUME RequestsOK, WaitsOK, ResponsesOK, NEW n \in DOMAIN open, Finish(n),
         NEW p \in PollIds, NEW c, ~Marked(p, c), OneEverywhere(p, c)
  PROVE  OneEverywhere(p, c)'
<1> DEFINE T == "responses"
<1>1. /\ db'[T] \subseteq Seen(n)[T]
      /\ DOMAIN open' = DOMAIN open \ {n}
      /\ \A k \in DOMAIN open' :
           /\ \A r \in Seen(k)'[T] : r \in Seen(k)[T] \/ r \in open[n].effect.put[T]
           /\ \A r \in Seen(k)'[T] : r \in db'[T] \/ r \in open[k].effect.put[T]
  BY FinishSeen, AnswersThere
<1>2. OneAt(db'[T], p, c)
  BY <1>1 DEF OneEverywhere, OneAt
<1>3. ASSUME NEW k \in DOMAIN open' PROVE OneAt(Seen(k)'[T], p, c)
  <2>1. k \in DOMAIN open /\ k # n
    BY <1>1
  <2>2. CASE ~AnswersBy(open[n], p, c)
    <3>1. \A r \in Seen(k)'[T] : AnswerAt(r, p, c) => r \in Seen(k)[T]
      BY <1>1, <2>2 DEF AnswersBy
    <3> QED BY <2>1, <3>1 DEF OneEverywhere, OneAt
  <2>3. CASE ~AnswersBy(open[k], p, c)
    <3>1. \A r \in Seen(k)'[T] : AnswerAt(r, p, c) => r \in db'[T]
      BY <1>1, <2>3 DEF AnswersBy
    <3> QED BY <1>2, <3>1 DEF OneAt
  <2> QED BY <2>1, <2>2, <2>3, TwoAnswers
<1> QED BY <1>2, <1>3 DEF OneEverywhere, OneAt, AnswerAt

LEMMA NextOne ==
  ASSUME RequestsOK, RulesFixed, WaitsOK, ResponsesOK, ResponsesThere, DefaultsOK, OneOK, [Next]_vars
  PROVE  OneOK'
<1> DEFINE T == "responses"
<1>1. T \in Tables \ {"asked", "polls"}
  BY AnswersThere
<1>2. Moves /\ NewSources
  BY Moving, NextSources
<1> SUFFICES ASSUME NEW p, NEW c, Once(p)', ~Marked(p, c)' PROVE OneEverywhere(p, c)'
  BY DEF OneOK, Once, Marked, OneEverywhere, OneAt, AnswerAt
<1>3. ASSUME ~Marked(p, c) PROVE OneEverywhere(p, c)
  <2>1. CASE Once(p)
    BY <1>3, <2>1 DEF OneOK
  <2>2. CASE ~Once(p)
    <3>1. /\ \A r \in db[T] : r.poll # p
          /\ \A k \in DOMAIN open : \A r \in open[k].effect.put[T] : r.poll # p
      BY <1>2, <2>2, OnceBefore
    <3>2. ASSUME NEW k \in DOMAIN open, NEW r \in Seen(k)[T] PROVE r.poll # p
      <4> DEFINE e == open[k].effect
      <4>1. Seen(k) = After(db, e)
        BY DEF Seen
      <4> HIDE DEF e
      <4>2. r \in db[T] \/ r \in e.put[T]
        BY <1>1, <3>2, <4>1, AfterIs
      <4> QED BY <3>1, <4>2 DEF e
    <3> QED BY <3>1, <3>2 DEF OneEverywhere, OneAt, AnswerAt
  <2> QED BY <2>1, <2>2
<1>4. history \subseteq history' => ~Marked(p, c)
  BY DEF Marked
<1>5. ASSUME \A q : Source(q)' => Source(q) PROVE Once(p)
  BY <1>5 DEF Once
<1>6. ASSUME NEW t, Begins(t), Wellformed(t) PROVE OneEverywhere(p, c)'
  <2>1. history \subseteq history'
    BY <1>6, BeginSeen DEF Begins
  <2> QED BY <1>3, <1>4, <1>6, <2>1, OneWhenBegun
<1>7. ASSUME NEW n \in DOMAIN open, PollPhase(n) PROVE OneEverywhere(p, c)'
  <2>1. SameAt("polls")
    BY <1>7, PhasePolls
  <2>2. Once(p)
    BY <1>5, <2>1, SameSources
  <2>3. history \subseteq history'
    BY <2>1 DEF SameAt
  <2> QED BY <1>3, <1>4, <1>7, <2>2, <2>3, OneWhenFiled
<1>8. ASSUME NEW n \in DOMAIN open, Finish(n) PROVE OneEverywhere(p, c)'
  <2>1. /\ \A r \in db'["polls"] : r \in db["polls"] \/ r \in open[n].effect.put["polls"]
        /\ DOMAIN open' = DOMAIN open \ {n} /\ history \subseteq history'
        /\ \A k \in DOMAIN open' : open'[k] = open[k]
    BY <1>8, FinishSeen, AnswersThere
  <2>2. \A q : Source(q)' => Source(q)
    BY <2>1 DEF Source
  <2>3. p \in PollIds
    BY <1>5, <2>2, SourceIs DEF Once, Poll
  <2> QED BY <1>3, <1>4, <1>8, <2>1, <2>3, OneWhenOver
<1>9. CASE SameAt(T)
  <2>1. history \subseteq history' /\ OneEverywhere(p, c)
    BY <1>3, <1>4, <1>9 DEF SameAt
  <2> QED BY <1>9, <2>1 DEF SameAt, OneEverywhere, OneAt, AnswerAt
<1> QED BY <1>1, <1>2, <1>6, <1>7, <1>8, <1>9, SameSteps

\* A poll of one response has one response of a contact at any interleaving of
\* which no two requests about it are open at once: the rule of a poll is
\* written once, by its creation, and the poll app finds the one response there
\* is and deletes it with its own.
THEOREM OneAnswerKept ==
  Spec => []OneResponsePerContact
<1> DEFINE IInv == ResponsesOK /\ WaitsOK /\ Owning /\ DefaultsOK /\ RulesFixed /\ ResponsesThere /\ OneOK
<1>1. Init => IInv
  <2> SUFFICES ASSUME Init PROVE IInv
    OBVIOUS
  <2>1. PICK w \in Workloads : db = w.db /\ DOMAIN open = {}
    BY DEF Init
  <2>2. db["responses"] = {} /\ \A p, q \in db["polls"] : p.id = q.id => p = q
    BY <2>1, IncomingAssumption DEF IncomingAssumption
  <2>3. RulesFixed /\ ResponsesThere /\ OneOK
    BY <2>1, <2>2 DEF RulesFixed, RuleFixed, Alike, CreatesOwn, SavesThere, Source, ResponsesThere,
                      OneOK, OneEverywhere, OneAt
  <2>4. DefaultsOK
    <3>1. CategoryRows /\ \A p : OneIn(db["categories"], p)
      BY <2>1, CategoriesAssumption DEF CategoriesAssumption, CategoryRows, CategoryRow, OneIn, DefaultOf
    <3> QED BY <2>1, <3>1 DEF DefaultsOK, CategoriesPut, OneSeen
  <2> QED BY <2>3, <2>4, AnswersInit
<1>2. RequestsOK /\ IInv /\ [Next]_vars => IInv'
  BY NextResponses, NextWaits, NextOwning, NextDefaults, NextSources, NextThere, NextOne
<1>3. IInv => OneResponsePerContact
  <2> SUFFICES ASSUME IInv, NEW p \in db["polls"], p.rule = "one", NEW c \in {r.conn : r \in db["responses"]},
                      Alone("rules", p.id), Alone("person", c), Alone("categories", p.id)
               PROVE  Cardinality(ResponsesOf(db, p.id, c)) <= 1
    BY DEF OneResponsePerContact
  <2> DEFINE R == ResponsesOf(db, p.id, c)
  <2>1. Once(p.id)
    BY DEF Once, Source
  <2>2. OneAt(db["responses"], p.id, c)
    BY <2>1 DEF OneOK, OneEverywhere, Marked, Alone
  <2>3. \A r, q \in R : r = q
    BY <2>2 DEF OneAt, AnswerAt, ResponsesOf, PollResponses, ResponsesOK, ResponseRows, Unique
  <2>4. R = {} \/ \E r \in R : R = {r}
    BY <2>3
  <2> HIDE DEF R
  <2>5. Cardinality(R) \in {0, 1}
    BY <2>4, FS_EmptySet, FS_Singleton
  <2> QED BY <2>5 DEF R
<1> QED BY RequestsStayOK, <1>1, <1>2, <1>3, PTL DEF Spec

-----------------------------------------------------------------------------
(***************************************************************************)
(* Types.                                                                  *)
(***************************************************************************)

ContactRow(k) ==
  k = [id |-> k.id, grade |-> k.grade, active |-> k.active] /\ k.id \in Connections /\ k.active \in BOOLEAN

\* A row is one of its table, and the rows of a table have ids of their own.
Typed(T, r) ==
  /\ T = "roster" => r.conn \in Connections /\ r.script \in Scripts /\ r.day \in 0 .. LastDay
  /\ T = "contacts" => ContactRow(r)
  /\ T = "blacklist" => r.id \in Connections
  /\ T = "responses" => r.errors \in BOOLEAN
  /\ T = "submissions" => r.form \in Forms

Rows(T, R) == Unique(R) /\ \A r \in R : Typed(T, r)

\* What an effect writes is of the tables that it writes it to.
Sound(e) == \A T \in Tables : Rows(T, e.put[T])

LEMMA RowsFew ==
  ASSUME NEW T
  PROVE  Rows(T, {}) /\ \A r : Typed(T, r) => Rows(T, {r})
BY DEF Rows, Unique

LEMMA RowsThen ==
  ASSUME NEW T \in Tables, NEW e, NEW f, Rows(T, e.put[T]), Rows(T, f.put[T])
  PROVE  Rows(T, Then(e, f).put[T])
<1> DEFINE g == Then(e, f)
<1>1. \A r : r \in g.put[T] <=>
        r \in f.put[T] \/ (r \in e.put[T] /\ r.id \notin f.drop[T] /\ \A q \in f.put[T] : q.id # r.id)
  BY ThenIs
<1> HIDE DEF g
<1>2. Rows(T, g.put[T])
  BY <1>1 DEF Rows, Unique
<1> QED BY <1>2 DEF g

LEMMA RowsAfter ==
  ASSUME NEW T \in Tables, NEW d, NEW e, Rows(T, d[T]), Rows(T, e.put[T])
  PROVE  Rows(T, After(d, e)[T])
<1> DEFINE a == After(d, e)
<1>1. \A r : r \in a[T] <=>
        r \in e.put[T] \/ (r \in d[T] /\ r.id \notin e.drop[T] /\ \A q \in e.put[T] : q.id # r.id)
  BY AfterIs
<1> HIDE DEF a
<1>2. Rows(T, a[T])
  BY <1>1 DEF Rows, Unique
<1> QED BY <1>2 DEF a

LEMMA SoundBasic ==
  ASSUME NEW U \in Tables, NEW R
  PROVE  /\ Sound(NoEffect) /\ Sound(Deleted(U, R))
         /\ Rows(U, R) => Sound(Inserted(U, R)) /\ Sound(Saved(U, R))
<1>1. ASSUME NEW T \in Tables PROVE Rows(T, NoEffect.put[T]) /\ Rows(T, Deleted(U, R).put[T])
  BY RowsFew, NoEffectAt, DeletedAt
<1>2. ASSUME NEW T \in Tables, Rows(U, R) PROVE Rows(T, Inserted(U, R).put[T]) /\ Rows(T, Saved(U, R).put[T])
  <2>1. Rows(T, {})
    BY RowsFew
  <2>2. CASE T = U
    BY <1>2, <2>2, InsertedAt, SavedAt
  <2>3. CASE T # U
    BY <2>1, <2>3, InsertedAt, SavedAt
  <2> QED BY <2>2, <2>3
<1> QED BY <1>1, <1>2 DEF Sound

LEMMA SoundThen ==
  ASSUME NEW e, NEW f, Sound(e), Sound(f)
  PROVE  Sound(Then(e, f))
BY RowsThen DEF Sound

-----------------------------------------------------------------------------
Days == {None} \cup 0 .. LastDay

LEMMA DateIs ==
  ASSUME NEW s \in Scripts, NEW day
  PROVE  next_scheduled(s, day) \in Days
<1> DEFINE dates == POLL_DATES[s]
           hits == {i \in DOMAIN dates : dates[i] > day}
           at == CHOOSE i \in hits : \A j \in hits : i <= j
<1>1. dates \in Seq(Nat)
  BY RosterAssumption DEF RosterAssumption
<1>2. \A i \in DOMAIN dates : i \in Nat /\ dates[i] \in 0 .. LastDay
  BY <1>1, DaysAssumption DEF DaysAssumption
<1>3. next_scheduled(s, day) = IF hits = {} THEN None ELSE dates[at]
  BY DEF next_scheduled, upcoming, first
<1>4. hits \subseteq Nat /\ hits \subseteq DOMAIN dates
  BY <1>2
<1>5. hits # {} => at \in hits
  <2> HIDE DEF hits
  <2>1. ASSUME hits # {} PROVE \E i \in hits : \A j \in hits : i <= j
    BY <1>4, <2>1, Least
  <2> QED BY <2>1
<1> HIDE DEF hits, at, dates
<1> QED BY <1>2, <1>3, <1>4, <1>5 DEF Days, dates

LEMMA ScheduleAtSound ==
  ASSUME NEW d, NEW n, NEW c, NEW s, NEW day
  PROVE  LET e == schedule_at(d, n, c, s, day)
         IN /\ \A T \in Tables \ {"roster"} : e.put[T] = {}
            /\ \A r \in e.put["roster"] : r = NewRow(n, c, s, day) /\ day # None
<1> DEFINE out == Deleted("roster", ScriptRows(d, c, s))
           rows == {NewRow(n, c, s, t) : t \in {x \in {day} : x # None /\ ~Blacklisted(d, c)}}
           add == Inserted("roster", rows)
<1>1. \A T \in Tables : out.put[T] = {} /\ add.put[T] = IF T = "roster" THEN rows ELSE {}
  BY RosterThere, DeletedAt, InsertedAt
<1>3. \A r \in rows : r = NewRow(n, c, s, day) /\ day # None
  OBVIOUS
<1>4. schedule_at(d, n, c, s, day) = Then(out, add)
  BY DEF schedule_at
<1> HIDE DEF out, add, rows
<1>5. \A T \in Tables \ {"roster"} : Then(out, add).put[T] = {}
  BY <1>1, ThenNothing
<1>6. \A r \in Then(out, add).put["roster"] : r \in rows
  BY <1>1, RosterThere, ThenIs
<1> QED BY <1>3, <1>4, <1>5, <1>6

LEMMA ScheduleEachSound ==
  ASSUME NEW d, NEW n, NEW due, \A p, q \in due : p[1] = q[1] /\ p[2] = q[2] => p = q,
         \A p \in due : p[1] \in Connections /\ p[2] \in Scripts /\ p[3] \in Days
  PROVE  Sound(ScheduleEach(d, n, due))
<1> DEFINE of(p) == schedule_at(d, n, p[1], p[2], p[3])
           e == ScheduleEach(d, n, due)
<1>1. \A T \in Tables : e.put[T] = UNION {of(p).put[T] : p \in due}
  BY DEF ScheduleEach
<1>2. \A p : /\ \A T \in Tables \ {"roster"} : of(p).put[T] = {}
             /\ \A r \in of(p).put["roster"] : r = NewRow(n, p[1], p[2], p[3]) /\ p[3] # None
  BY ScheduleAtSound
<1> HIDE DEF of, e
<1>3. \A T \in Tables \ {"roster"} : e.put[T] = {}
  BY <1>1, <1>2
<1>4. \A r \in e.put["roster"] : \E p \in due : r = NewRow(n, p[1], p[2], p[3]) /\ p[3] # None
  BY <1>1, <1>2, RosterThere
<1>5. \A r \in e.put["roster"] : \E p \in due :
        /\ r = NewRow(n, p[1], p[2], p[3]) /\ r.id[2] = p[1] /\ r.id[3] = p[2]
        /\ r.conn \in Connections /\ r.script \in Scripts /\ r.day \in 0 .. LastDay
  BY <1>4 DEF NewRow, Days
<1>6. \A r, q \in e.put["roster"] : r.id = q.id => r = q
  BY <1>5
<1>7. Rows("roster", e.put["roster"])
  BY <1>5, <1>6 DEF Rows, Typed, Unique
<1> QED BY <1>3, <1>7, RowsFew DEF Sound, e

LEMMA SubscribedScripts ==
  ASSUME NEW d, NEW c
  PROVE  scripts_for(d, c) \subseteq Scripts
<1>1. \A g : GroupScripts(g) \subseteq Scripts
  BY RosterAssumption DEF RosterAssumption, GroupScripts
<1> DEFINE A == UNION {GroupScripts(g) : g \in GroupsOf(d, c)}
           B == UNION {GroupScripts(k.grade) : k \in Contact(d, c)}
<1>2. A \subseteq Scripts /\ B \subseteq Scripts
  BY <1>1
<1>3. scripts_for(d, c) = A \cup IF "Teachers" \in GroupsOf(d, c) THEN B ELSE {}
  BY DEF scripts_for
<1> HIDE DEF A, B
<1> QED BY <1>2, <1>3

LEMMA ScheduleSound ==
  ASSUME NEW d, NEW n, NEW c \in Connections, NEW s \in Scripts, NEW day
  PROVE  Sound(schedule(d, n, c, s, day)) /\ Sound(schedule_all(d, n, c, day))
<1>1. Sound(schedule(d, n, c, s, day))
  <2> DEFINE when == next_scheduled(s, day)
             e == schedule_at(d, n, c, s, when)
  <2>1. when \in Days
    BY DateIs
  <2> HIDE DEF when
  <2>2. /\ \A T \in Tables \ {"roster"} : e.put[T] = {}
        /\ \A r \in e.put["roster"] : r = NewRow(n, c, s, when) /\ when # None
    BY ScheduleAtSound
  <2> HIDE DEF e
  <2>3. Rows("roster", e.put["roster"])
    BY <2>1, <2>2 DEF NewRow, Rows, Unique, Typed, Days
  <2>4. Sound(e)
    BY <2>2, <2>3, RowsFew DEF Sound
  <2> QED BY <2>4 DEF schedule, e, when
<1>2. Sound(schedule_all(d, n, c, day))
  <2> DEFINE when(x) == next_scheduled(x, day)
             due == {<<c, x, when(x)>> : x \in scripts_for(d, c)}
  <2>0. \A x \in scripts_for(d, c) : x \in Scripts /\ when(x) \in Days
    BY DateIs, SubscribedScripts
  <2> HIDE DEF when
  <2>1. \A p, q \in due : p[1] = q[1] /\ p[2] = q[2] => p = q
    OBVIOUS
  <2>2. \A p \in due : p[1] \in Connections /\ p[2] \in Scripts /\ p[3] \in Days
    BY <2>0
  <2>3. schedule_all(d, n, c, day) = ScheduleEach(d, n, due)
    BY DEF schedule_all, when
  <2> HIDE DEF due
  <2> QED BY <2>1, <2>2, <2>3, ScheduleEachSound
<1> QED BY <1>1, <1>2

LEMMA ScriptSound ==
  ASSUME NEW d, NEW n, NEW s \in Scripts, NEW day, \A m \in d["members"] : m.conn \in Connections
  PROVE  /\ \A x \in Days : Sound(schedule_script_at(d, n, s, x))
         /\ Sound(schedule_script(d, n, s, day))
<1>1. ASSUME NEW x \in Days PROVE Sound(schedule_script_at(d, n, s, x))
  <2> DEFINE due == {<<k, s, x>> : k \in Subscribers(d, s)}
  <2>1. \A p, q \in due : p[1] = q[1] /\ p[2] = q[2] => p = q
    OBVIOUS
  <2>2. \A k \in Subscribers(d, s) : k \in Connections
    BY DEF Subscribers
  <2>3. \A p \in due : p[1] \in Connections /\ p[2] \in Scripts /\ p[3] \in Days
    BY <2>2
  <2>4. schedule_script_at(d, n, s, x) = ScheduleEach(d, n, due)
    BY DEF schedule_script_at
  <2> HIDE DEF due
  <2> QED BY <2>1, <2>3, <2>4, ScheduleEachSound
<1>2. next_scheduled(s, day) \in Days
  BY DateIs
<1> QED BY <1>1, <1>2 DEF schedule_script

LEMMA MovedSound ==
  ASSUME NEW d, NEW c, NEW g
  PROVE  Sound(Moved(d, c, g))
<1> DEFINE row == [id |-> <<c, g>>, conn |-> c, group |-> g]
<1>1. Typed("members", row) /\ "members" \in Tables
  BY TablesThere DEF Typed, Schema
<1> HIDE DEF row
<1>2. Rows("members", {row})
  BY <1>1, RowsFew
<1> QED BY <1>1, <1>2, SoundBasic, SoundThen DEF Moved, row

\* Who is registered has a contact: there, or made with the membership.
LEMMA RegisteredSound ==
  ASSUME NEW d, NEW n, NEW c \in Connections, NEW answer
  PROVE  LET e == Registered(d, n, c, answer)
         IN /\ Sound(e)
            /\ \A m \in e.put["members"] : m.conn = c
            /\ \/ Contact(d, c) # {}
               \/ \E k \in e.put["contacts"] : k.id = c /\ c \in e.made["contacts"]
<1> DEFINE old == Contact(d, c)
           kept == {k.grade : k \in old \cap Listed(d)}
           grade == IF answer.grade # "" \/ kept = {} THEN answer.grade ELSE CHOOSE g \in kept : TRUE
           who == [id |-> c, active |-> TRUE, grade |-> grade]
           made == Inserted("contacts", {who})
           found == IF old = {} THEN made ELSE Saved("contacts", {who})
           moved == Moved(d, c, match_group_response(answer.role))
           e == Then(found, moved)
           f == schedule_all(After(d, e), n, c, today)
<1>0. "contacts" \in Tables /\ "members" \in Tables
  BY TablesThere DEF Schema
<1>1. Registered(d, n, c, answer) = Then(e, f)
  BY Zenon DEF Registered, e, f, found, moved, who, old, kept, grade, made
<1> HIDE DEF grade
<1>2. Typed("contacts", who) /\ who.id = c
  BY DEF Typed, ContactRow
<1> HIDE DEF who
<1>3. Sound(found)
  <2>1. Rows("contacts", {who})
    BY <1>2, RowsFew
  <2> QED BY <1>0, <2>1, SoundBasic
<1>4. Sound(moved)
  BY MovedSound
<1>5. Sound(f)
  BY RosterAssumption, ScheduleSound DEF RosterAssumption
<1>6. f.put["contacts"] = {} /\ f.put["members"] = {} /\ f.drop["contacts"] = {}
      /\ moved.put["contacts"] = {} /\ moved.drop["contacts"] = {} /\ found.put["members"] = {}
  <2>1. Within(f, {"roster"}, {"roster"})
    BY ScheduleWithin
  <2>2. Within(moved, {"members"}, {"members"})
    BY MovedWithin
  <2>3. Within(found, {"contacts"}, {})
    BY <1>0, WithinBasic
  <2> QED BY <1>0, <2>1, <2>2, <2>3 DEF Within
<1>7. \A m \in moved.put["members"] : m.conn = c
  <2> DEFINE g == match_group_response(answer.role)
             row == [id |-> <<c, g>>, conn |-> c, group |-> g]
             out == Deleted("members", {m \in d["members"] : m.conn = c})
             add == Inserted("members", {row})
  <2>1. out.put["members"] = {} /\ add.put["members"] = {row} /\ row.conn = c
    BY <1>0, DeletedAt, InsertedAt
  <2>2. moved = Then(out, add)
    BY DEF Moved
  <2> HIDE DEF out, add, row, moved
  <2>3. Then(out, add).put["members"] \subseteq {row}
    BY <1>0, <2>1, PutThen
  <2> QED BY <2>1, <2>2, <2>3
<1>8. old = {} => found.put["contacts"] = {who} /\ c \in found.made["contacts"]
  <2>1. made.put["contacts"] = {who} /\ made.made["contacts"] = Ids({who})
    BY <1>0 DEF Inserted, NoEffect
  <2> HIDE DEF made
  <2> QED BY <1>2, <2>1 DEF Ids
<1> HIDE DEF found, moved, f
<1>9. \A m \in Then(e, f).put["members"] : m.conn = c
  <2>1. \A m \in e.put["members"] : m \in moved.put["members"]
    BY <1>0, <1>6, ThenIs
  <2> HIDE DEF e
  <2>2. \A m \in Then(e, f).put["members"] : m \in e.put["members"]
    BY <1>0, <1>6, ThenIs
  <2> QED BY <1>7, <2>1, <2>2
<1>10. old = {} => who \in Then(e, f).put["contacts"] /\ c \in Then(e, f).made["contacts"]
  <2>1. old = {} => who \in e.put["contacts"]
    BY <1>0, <1>6, <1>8, ThenIs
  <2>2. old = {} => c \in e.made["contacts"]
    BY <1>0, <1>8 DEF Then
  <2> HIDE DEF e
  <2>3. who \in e.put["contacts"] => who \in Then(e, f).put["contacts"]
    BY <1>0, <1>6, ThenIs
  <2>4. c \in e.made["contacts"] => c \in Then(e, f).made["contacts"]
    BY <1>0 DEF Then
  <2> QED BY <2>1, <2>2, <2>3, <2>4
<1>11. Sound(Then(e, f))
  BY <1>3, <1>4, <1>5, SoundThen
<1> QED BY <1>1, <1>2, <1>9, <1>10, <1>11 DEF old

LEMMA NewRowsSound ==
  ASSUME NEW n, NEW C \in SUBSET Connections, NEW s \in Scripts, NEW day \in 0 .. LastDay
  PROVE  Sound(Inserted("roster", {NewRow(n, c, s, day) : c \in C}))
<1> DEFINE R == {NewRow(n, c, s, day) : c \in C}
<1>1. \A r \in R : \E c \in C : r = NewRow(n, c, s, day) /\ r.id[2] = c /\ r.conn = c /\ r.script = s /\ r.day = day
  BY DEF NewRow
<1> HIDE DEF R
<1>2. Rows("roster", R)
  BY <1>1 DEF Rows, Unique, Typed
<1> QED BY <1>2, RosterThere, SoundBasic DEF R

\* What is there is of its table, and every member is a contact.
RowsThere    == \A T \in Tables : Rows(T, db[T])
MembersThere == \A m \in db["members"] : Contact(db, m.conn) # {}
DayOK        == today \in 1 .. LastDay

\* A member that a request adds is a contact, or is made one by it, or has been
\* removed meanwhile.
Backed(e, c) ==
  Contact(db, c) # {} \/ Removed(c) \/ \E k \in e.put["contacts"] : k.id = c /\ c \in e.made["contacts"]

Joins(e) == \A m \in e.put["members"] : Backed(e, m.conn)

\* A request that begins.
OfTypes(t) == Sound(t.effect) /\ Joins(t.effect)

LEMMA ContactsConnect ==
  ASSUME RowsThere
  PROVE  /\ \A k \in db["contacts"] : k.id \in Connections /\ ContactRow(k)
         /\ \A k \in Listed(db) : k \in db["contacts"] /\ k.id \in Connections
         /\ \A r \in db["roster"] : r.conn \in Connections /\ r.script \in Scripts
         /\ MembersThere => \A m \in db["members"] : m.conn \in Connections
<1>1. \A k \in db["contacts"] : k.id \in Connections /\ ContactRow(k)
  BY TablesThere DEF RowsThere, Rows, Typed, ContactRow, Schema
<1>2. \A r \in db["roster"] : r.conn \in Connections /\ r.script \in Scripts
  BY TablesThere DEF RowsThere, Rows, Typed, Schema
<1>3. \A k \in Listed(db) : k \in db["contacts"]
  BY DEF Listed
<1>4. MembersThere => \A m \in db["members"] : m.conn \in Connections
  BY <1>1 DEF MembersThere, Contact, Select
<1> QED BY <1>1, <1>2, <1>3, <1>4

LEMMA EndTypes ==
  ASSUME RequestsOK, RowsThere, NEW t, Begin(t), EndRun
  PROVE  OfTypes(t)
<1> DEFINE out(row) == Deleted("roster", {row})
           reg(row, answer) == Registered(After(db, out(row)), serial + 1, row.conn, answer)
           sch(row) == schedule(After(db, out(row)), serial + 1, row.conn, row.script, today)
           next(row, answer) == IF row.script = AUTOREG THEN reg(row, answer) ELSE sch(row)
           W(row) == About({row.conn}) \cup IF row.script = AUTOREG THEN Details({row.conn}) ELSE {}
           u(row, answer) == Request("end", row.id, "written", Ended(db, serial + 1, row, answer), {}, W(row), {})
<1>0. "contacts" \in Tables /\ "members" \in Tables /\ "roster" \in Tables
  BY TablesThere DEF Schema
<1>1. PICK row \in db["roster"], answer \in Answers : Begin(u(row, answer))
  BY Zenon DEF EndRun
<1>2. t = u(row, answer)
  BY <1>1, BeginOne
<1>3. Ended(db, serial + 1, row, answer) = Then(out(row), next(row, answer))
  BY Zenon DEF Ended
<1>4. t.effect = Then(out(row), next(row, answer))
  <2> HIDE DEF W, out, next
  <2> QED BY <1>2, <1>3, RequestIs
<1>5. row.conn \in Connections /\ row.script \in Scripts
  BY ContactsConnect
<1> DEFINE c == row.conn
           o == out(row)
           d == After(db, o)
           r == reg(row, answer)
           f == next(row, answer)
<1>6. Sound(o) /\ o.put["members"] = {} /\ \A T \in {"contacts", "members"} : o.put[T] = {} /\ o.drop[T] = {}
  BY <1>0, SoundBasic, DeletedAt
<1>7. Contact(d, c) = Contact(db, c)
  <2>1. o.drop["contacts"] = {} /\ o.put["contacts"] = {}
    BY <1>6
  <2> HIDE DEF o, c
  <2>2. \A x : x \in d["contacts"] <=> x \in db["contacts"]
    BY <1>0, <2>1, AfterUntouched
  <2> HIDE DEF d
  <2>3. d["contacts"] = db["contacts"]
    BY <2>2
  <2> QED BY <2>3 DEF Contact, Select
<1>8. /\ Sound(r) /\ \A m \in r.put["members"] : m.conn = c
      /\ Contact(d, c) # {} \/ \E k \in r.put["contacts"] : k.id = c /\ c \in r.made["contacts"]
  <2>1. r = Registered(d, serial + 1, c, answer) /\ c \in Connections
    BY <1>5
  <2> HIDE DEF r, d, c, o, out, reg
  <2>2. /\ Sound(Registered(d, serial + 1, c, answer))
        /\ \A m \in Registered(d, serial + 1, c, answer).put["members"] : m.conn = c
        /\ \/ Contact(d, c) # {}
           \/ \E k \in Registered(d, serial + 1, c, answer).put["contacts"] :
                k.id = c /\ c \in Registered(d, serial + 1, c, answer).made["contacts"]
    BY <2>1, RegisteredSound
  <2> QED BY <2>1, <2>2
<1>9. Sound(sch(row)) /\ sch(row).put["members"] = {}
  <2>1. Within(sch(row), {"roster"}, {"roster"})
    BY ScheduleWithin
  <2> QED BY <1>0, <1>5, <2>1, ScheduleSound DEF Within
<1>10. f = r \/ f = sch(row)
  OBVIOUS
<1> HIDE DEF out, reg, sch, d, next, c
<1>11. Sound(f) /\ \A m \in f.put["members"] : Backed(f, m.conn)
  <2>1. CASE f = r
    BY <1>7, <1>8, <2>1 DEF Backed
  <2>2. CASE f = sch(row)
    BY <1>9, <2>2
  <2> QED BY <1>10, <2>1, <2>2
<1> HIDE DEF o, f
<1>12. Sound(Then(o, f))
  BY <1>6, <1>11, SoundThen
<1>13. Joins(Then(o, f))
  <2>1. \A m \in Then(o, f).put["members"] : m \in f.put["members"]
    BY <1>0, <1>6, ThenIs
  <2>2. \A k \in f.put["contacts"] : k \in Then(o, f).put["contacts"]
    BY <1>0, ThenIs
  <2>3. Then(o, f).made["contacts"] = o.made["contacts"] \cup f.made["contacts"]
    BY <1>0 DEF Then
  <2> QED BY <1>11, <2>1, <2>2, <2>3 DEF Joins, Backed
<1> QED BY <1>4, <1>12, <1>13 DEF OfTypes, o, f

\* Requests that add no member.
LEMMA OfTypesIf ==
  ASSUME NEW t, Sound(t.effect), t.effect.put["members"] = {}
  PROVE  OfTypes(t)
BY DEF OfTypes, Joins

LEMMA ReporterTypes ==
  ASSUME RequestsOK, RowsThere, NEW t, Begin(t), EditReporter
  PROVE  OfTypes(t)
<1> DEFINE new(answer) == match_group_response(answer.role)
           save(k, answer) == Saved("contacts", {[k EXCEPT !.grade = answer.grade]})
           e(k, answer) == Then(save(k, answer), Moved(db, k.id, new(answer)))
           after(k, answer) == After(db, e(k, answer))
           all(k, answer) == schedule_all(after(k, answer), serial + 1, k.id, today)
           effect(k, answer, old) == IF new(answer) # old THEN Then(e(k, answer), all(k, answer)) ELSE e(k, answer)
           notes(k, answer, old) ==
             IF new(answer) = old /\ scripts_for(after(k, answer), k.id) # scripts_for(db, k.id)
             THEN {<<"overlooked", k.id>>} ELSE {}
           u(k, answer, old) == Request("reporter", k.id, "written", effect(k, answer, old), {},
                                        About({k.id}) \cup Details({k.id}), notes(k, answer, old))
<1>0. "contacts" \in Tables /\ "members" \in Tables /\ "roster" \in Tables
  BY TablesThere DEF Schema
<1>1. \E k \in Listed(db), answer \in Answers : \E old \in GroupsOf(db, k.id) : Begin(u(k, answer, old))
  BY Zenon DEF EditReporter
<1>1a. PICK k \in Listed(db), answer \in Answers : \E old : t = u(k, answer, old)
  <2> HIDE DEF u
  <2> QED BY <1>1, BeginOne
<1>2. PICK old : t = u(k, answer, old)
  BY <1>1a
<1>3. t.effect = effect(k, answer, old)
  <2> HIDE DEF effect, notes
  <2> QED BY <1>2, RequestIs
<1>4. k \in db["contacts"] /\ k.id \in Connections /\ ContactRow(k)
  BY ContactsConnect
<1>5. Sound(save(k, answer))
  <2> DEFINE x == [k EXCEPT !.grade = answer.grade]
  <2>1. Typed("contacts", x)
    <3>1. k = [id |-> k.id, grade |-> k.grade, active |-> k.active] /\ k.active \in BOOLEAN
      BY <1>4 DEF ContactRow
    <3>2. x = [id |-> k.id, grade |-> answer.grade, active |-> k.active]
      BY <3>1
    <3> HIDE DEF x
    <3>3. x.id = k.id /\ x.active = k.active /\ x.grade = answer.grade
      BY <3>2
    <3>4. ContactRow(x)
      BY <1>4, <3>1, <3>2, <3>3 DEF ContactRow
    <3> QED BY <3>4 DEF Typed
  <2> HIDE DEF x
  <2>2. Rows("contacts", {x})
    BY <2>1, RowsFew
  <2> QED BY <1>0, <2>2, SoundBasic DEF x
<1> DEFINE m == Moved(db, k.id, new(answer))
           a == all(k, answer)
           b == e(k, answer)
<1>6. Sound(m) /\ Sound(a)
  BY <1>4, MovedSound, ScheduleSound, RosterAssumption DEF RosterAssumption
<1>7. \A x \in m.put["members"] : x.conn = k.id
  <2> DEFINE g == new(answer)
             row == [id |-> <<k.id, g>>, conn |-> k.id, group |-> g]
             out == Deleted("members", {x \in db["members"] : x.conn = k.id})
             add == Inserted("members", {row})
  <2>1. out.put["members"] = {} /\ add.put["members"] = {row} /\ row.conn = k.id
    BY <1>0, DeletedAt, InsertedAt
  <2>2. m = Then(out, add)
    BY DEF Moved
  <2> HIDE DEF out, add, row, m
  <2>3. Then(out, add).put["members"] \subseteq {row}
    BY <1>0, <2>1, PutThen
  <2> QED BY <2>1, <2>2, <2>3
<1>8. save(k, answer).put["members"] = {} /\ a.put["members"] = {}
  <2>1. Within(a, {"roster"}, {"roster"}) /\ Within(save(k, answer), {"contacts"}, {})
    BY <1>0, ScheduleWithin, WithinBasic
  <2> QED BY <1>0, <2>1 DEF Within
<1> HIDE DEF save, all, m, a
<1>9. Sound(b) /\ \A x \in b.put["members"] : x.conn = k.id
  <2>1. b = Then(save(k, answer), m)
    BY DEF m
  <2> HIDE DEF b
  <2> QED BY <1>0, <1>5, <1>6, <1>7, <1>8, <2>1, SoundThen, ThenIs
<1> HIDE DEF e, b
<1>10. Sound(Then(b, a)) /\ \A x \in Then(b, a).put["members"] : x.conn = k.id
  BY <1>0, <1>6, <1>8, <1>9, SoundThen, ThenIs
<1>11. Contact(db, k.id) # {}
  BY <1>4 DEF Contact, Select
<1>12. t.effect = b \/ t.effect = Then(b, a)
  BY <1>3 DEF a, b
<1> QED BY <1>9, <1>10, <1>11, <1>12 DEF OfTypes, Joins, Backed

\* The days that a page may choose are days.
LEMMA DaysOn ==
  ASSUME DayOK
  PROVE  /\ today \in 0 .. LastDay /\ today \in Days
         /\ \A day \in today .. LastDay : day \in 0 .. LastDay /\ day \in Days
         /\ \A day \in {None} \cup today .. LastDay : day \in Days
BY DaysAssumption DEF DaysAssumption, DayOK, Days

LEMMA ScriptsOn ==
  ASSUME NEW s
  PROVE  (s \in Rostered => s \in Scripts) /\ (s \in WATER => s \in Scripts) /\ AUTOREG \in Scripts /\ SPECIAL \in Scripts
BY RosterAssumption, SpecialAssumption DEF RosterAssumption, SpecialAssumption, Rostered

LEMMA RescheduleTypes ==
  ASSUME RequestsOK, RowsThere, MembersThere, DayOK, NEW t, Begin(t), RescheduleScripts
  PROVE  Sound(t.effect)
<1> DEFINE effect(s, day) == IF day # None THEN schedule_script_at(db, serial + 1, s, day)
                             ELSE schedule_script(db, serial + 1, s, today)
           u(s, day) == Request("reschedule", s, "written", effect(s, day), {}, About(Subscribers(db, s)), {})
<1>1. PICK s \in Rostered, day \in {None} \cup today .. LastDay : Begin(u(s, day))
  BY Zenon DEF RescheduleScripts
<1>2. t = u(s, day)
  BY <1>1, BeginOne
<1>3. s \in Scripts /\ day \in Days
  BY ScriptsOn, DaysOn
<1>4. \A m \in db["members"] : m.conn \in Connections
  BY ContactsConnect
<1>5. Sound(schedule_script_at(db, serial + 1, s, day)) /\ Sound(schedule_script(db, serial + 1, s, today))
  BY <1>3, <1>4, ScriptSound
<1>6. Sound(effect(s, day))
  BY <1>5
<1> HIDE DEF effect
<1>7. t.effect = effect(s, day)
  BY <1>2, RequestIs
<1> QED BY <1>6, <1>7

LEMMA NowTypes ==
  ASSUME RequestsOK, RowsThere, DayOK, NEW t, Begin(t), ScheduleNow
  PROVE  Sound(t.effect)
<1> DEFINE whose(name) == {k.id : k \in {x \in Listed(db) : name \in GroupsOf(db, x.id)}}
           due(s, name) == {<<c, s, today>> : c \in whose(name)}
           effect(s, name) == ScheduleEach(db, serial + 1, due(s, name))
           u(s, name) == Request("now", s, "written", effect(s, name), {}, About(whose(name)), {})
<1>1. PICK s \in Rostered, name \in {m.group : m \in db["members"]} : Begin(u(s, name))
  BY Zenon DEF ScheduleNow
<1>2. t = u(s, name)
  BY <1>1, BeginOne
<1>3. \A c \in whose(name) : c \in Connections
  BY ContactsConnect
<1>4. s \in Scripts /\ today \in Days
  BY ScriptsOn, DaysOn
<1> HIDE DEF whose
<1>5. \A p, q \in due(s, name) : p[1] = q[1] /\ p[2] = q[2] => p = q
  OBVIOUS
<1>6. \A p \in due(s, name) : p[1] \in Connections /\ p[2] \in Scripts /\ p[3] \in Days
  BY <1>3, <1>4
<1> HIDE DEF due
<1>7. Sound(effect(s, name))
  BY <1>5, <1>6, ScheduleEachSound
<1> HIDE DEF effect
<1>8. t.effect = effect(s, name)
  BY <1>2, RequestIs
<1> QED BY <1>7, <1>8

LEMMA SpecialTypes ==
  ASSUME RequestsOK, RowsThere, DayOK, NEW t, Begin(t), SpecialScript
  PROVE  Sound(t.effect)
<1> DEFINE whose(chosen) == {k.id : k \in chosen}
           rows(chosen) == {NewRow(serial + 1, c, SPECIAL, today) : c \in whose(chosen)}
           add(chosen) == Inserted("roster", rows(chosen))
           u(chosen) == Request("special", SPECIAL, "written", add(chosen), {}, About(whose(chosen)), {})
<1>1. PICK chosen \in SUBSET Listed(db) : Begin(u(chosen))
  BY Zenon DEF SpecialScript
<1>2. t = u(chosen)
  BY <1>1, BeginOne
<1>3. whose(chosen) \subseteq Connections
  BY ContactsConnect
<1> HIDE DEF whose
<1>4. Sound(add(chosen))
  BY <1>3, ScriptsOn, DaysOn, NewRowsSound
<1> HIDE DEF add
<1>5. t.effect = add(chosen)
  BY <1>2, RequestIs
<1> QED BY <1>4, <1>5

LEMMA WaterTypes ==
  ASSUME RequestsOK, RowsThere, DayOK, NEW t, Begin(t), ScheduleWaterPolls
  PROVE  Sound(t.effect)
<1> DEFINE whose(chosen) == {k.id : k \in chosen}
           old(s) == {r \in db["roster"] : r.script = s}
           out(s) == Deleted("roster", old(s))
           rows(s, chosen, day) == {NewRow(serial + 1, c, s, day) : c \in whose(chosen)}
           add(s, chosen, day) == Inserted("roster", rows(s, chosen, day))
           notes(s, chosen) == {<<"overlooked", c>> : c \in Subscribers(db, s) \ whose(chosen)}
           W(s, chosen) == About(whose(chosen) \cup {r.conn : r \in old(s)})
           u(s, chosen, day) == Request("water", s, "written", Then(out(s), add(s, chosen, day)), {},
                                        W(s, chosen), notes(s, chosen))
<1>1. PICK s \in WATER, chosen \in SUBSET Listed(db), day \in today .. LastDay : Begin(u(s, chosen, day))
  BY Zenon DEF ScheduleWaterPolls
<1>2. t = u(s, chosen, day)
  BY <1>1, BeginOne
<1>3. t.effect = Then(out(s), add(s, chosen, day))
  <2> HIDE DEF out, add, W, notes
  <2> QED BY <1>2, RequestIs
<1>4. whose(chosen) \subseteq Connections
  BY ContactsConnect
<1> HIDE DEF whose
<1>5. Sound(add(s, chosen, day))
  BY <1>4, ScriptsOn, DaysOn, NewRowsSound
<1>6. Sound(out(s))
  BY RosterThere, SoundBasic
<1> HIDE DEF out, add
<1> QED BY <1>3, <1>5, <1>6, SoundThen

LEMMA AddTypes ==
  ASSUME RequestsOK, DayOK, NEW t, Begin(t), AddConnections
  PROVE  Sound(t.effect)
<1> DEFINE fresh(c, others) == {x \in {c} \cup others : Contact(db, x) = {}}
           out(c) == Deleted("roster", RowsOf(db, c))
           rows(c, others) == {NewRow(serial + 1, x, AUTOREG, today) : x \in fresh(c, others)}
           add(c, others) == Inserted("roster", rows(c, others))
           notes(c, others) ==
             {<<"doubled", x>> : x \in {y \in fresh(c, others) \cap others : Registering(db, y)}}
             \cup {<<"overlooked", x>> : x \in {c} \ fresh(c, others)}
           u(c, others) == Request("add", c, "written", Then(out(c), add(c, others)),
                                   {}, About({c} \cup others), notes(c, others))
<1>1. \E c \in Connections : \E others \in SUBSET {x \in Connections \ {c} : ~IsRemoved(db, x)} :
        Begin(u(c, others))
  BY Zenon DEF AddConnections
<1>2. PICK c \in Connections, others \in SUBSET Connections : t = u(c, others)
  <2>1. \A c \in Connections : \A others \in SUBSET {x \in Connections \ {c} : ~IsRemoved(db, x)} :
          others \in SUBSET Connections
    OBVIOUS
  <2> HIDE DEF u
  <2> QED BY <1>1, <2>1, BeginOne
<1>3. t.effect = Then(out(c), add(c, others))
  <2> HIDE DEF out, add, notes
  <2> QED BY <1>2, RequestIs
<1>4. fresh(c, others) \subseteq Connections
  OBVIOUS
<1> HIDE DEF fresh
<1>5. Sound(add(c, others))
  BY <1>4, ScriptsOn, DaysOn, NewRowsSound
<1>6. Sound(out(c))
  BY RosterThere, SoundBasic
<1> HIDE DEF out, add
<1> QED BY <1>3, <1>5, <1>6, SoundThen

LEMMA MessageTypes ==
  ASSUME RequestsOK, RowsThere, DayOK, NEW t, Begins(t), t.kind = "message"
  PROVE  Sound(t.effect)
<1>1. PICK c \in Connections, text \in Texts :
        \E out \in Education(db, serial + 1, c, text) : t.effect = Then(update_last_reporting_date(db, c), out.effect)
  <2>1. PICK c \in Connections, text \in Texts : \E out \in Education(db, serial + 1, c, text) :
            /\ ~IsRemoved(db, c) /\ t.on = [conn |-> c, text |-> text]
            /\ t.place = IF out.handled THEN "written" ELSE "poll"
            /\ t.effect = Then(update_last_reporting_date(db, c), out.effect)
            /\ t.reads = {"rules", "categories"} \X PollIds /\ t.writes = Topics(c, text) /\ t.notes = {}
    BY MessageBegins
  <2> QED BY <2>1
<1>1a. PICK out \in Education(db, serial + 1, c, text) : t.effect = Then(update_last_reporting_date(db, c), out.effect)
  BY <1>1
<1> DEFINE save == update_last_reporting_date(db, c)
           here == Deleted("blacklist", Select(db, "blacklist", c))
           gone == Deleted("roster", RowsOf(db, c))
           tired == {[k EXCEPT !.active = FALSE] : k \in Contact(db, c)}
           inactive == Saved("contacts", tired)
           black == Inserted("blacklist", {[id |-> c]})
           starts == IF Registering(db, c) THEN NoEffect ELSE Registration(serial + 1, c)
<1>0. "contacts" \in Tables /\ "blacklist" \in Tables /\ "roster" \in Tables
  BY TablesThere DEF Schema
<1>2. Rows("contacts", Contact(db, c)) /\ Rows("contacts", tired)
  <2>1. \A k \in Contact(db, c) : k \in db["contacts"]
    BY DEF Contact, Select
  <2>2. \A k \in Contact(db, c) : ContactRow(k) /\ k = [id |-> k.id, grade |-> k.grade, active |-> k.active]
    BY <2>1, ContactsConnect DEF ContactRow
  <2>3. Unique(db["contacts"])
    BY <1>0 DEF RowsThere, Rows
  <2>4. Rows("contacts", Contact(db, c))
    BY <2>1, <2>2, <2>3 DEF Rows, Unique, Typed
  <2> DEFINE asleep(k) == [id |-> k.id, grade |-> k.grade, active |-> FALSE]
  <2>5. \A x \in tired : \E k \in Contact(db, c) : x = asleep(k) /\ asleep(k).id = k.id /\ ContactRow(asleep(k))
    <3>1. ASSUME NEW k \in Contact(db, c) PROVE [k EXCEPT !.active = FALSE] = asleep(k)
      <4> DEFINE i == k.id
                 g == k.grade
                 a == k.active
                 no == FALSE
      <4>1. k = [id |-> i, grade |-> g, active |-> a]
        BY <2>2
      <4> HIDE DEF i, g, a, no
      <4>2. [k EXCEPT !.active = no] = [id |-> i, grade |-> g, active |-> no]
        BY <4>1
      <4> QED BY <4>2 DEF i, g, no
    <3>2. \A k \in Contact(db, c) : asleep(k).id = k.id /\ asleep(k).grade = k.grade /\ asleep(k).active = FALSE
      OBVIOUS
    <3>3. \A k \in Contact(db, c) : asleep(k) = [id |-> asleep(k).id, grade |-> asleep(k).grade, active |-> asleep(k).active]
      BY <3>2
    <3> HIDE DEF asleep
    <3>4. \A k \in Contact(db, c) : ContactRow(asleep(k))
      BY <2>2, <3>2, <3>3 DEF ContactRow
    <3> QED BY <3>1, <3>2, <3>4
  <2> HIDE DEF tired, asleep
  <2>6. Unique(tired)
    BY <2>1, <2>3, <2>5 DEF Unique
  <2>7. \A x \in tired : ContactRow(x)
    BY <2>2, <2>5 DEF ContactRow
  <2> QED BY <2>4, <2>6, <2>7 DEF Rows, Typed
<1> HIDE DEF tired
<1>3. Sound(save) /\ Sound(inactive) /\ Sound(here) /\ Sound(gone)
  BY <1>0, <1>2, SoundBasic DEF update_last_reporting_date
<1>4. Sound(black)
  <2>1. Typed("blacklist", [id |-> c])
    BY DEF Typed
  <2>2. Rows("blacklist", {[id |-> c]})
    BY <2>1, RowsFew
  <2> QED BY <1>0, <2>2, SoundBasic
<1>5. Sound(starts)
  <2> DEFINE of(C) == {NewRow(serial + 1, x, AUTOREG, today) : x \in C}
  <2>0. PICK C \in SUBSET Connections : C = {c}
    OBVIOUS
  <2>1. Sound(Inserted("roster", of(C)))
    BY ScriptsOn, DaysOn, NewRowsSound
  <2>2. of(C) = {NewRow(serial + 1, c, AUTOREG, today)}
    BY <2>0
  <2>3. Sound(Registration(serial + 1, c))
    BY <2>1, <2>2 DEF Registration
  <2>4. Sound(NoEffect)
    BY <1>0, SoundBasic
  <2> QED BY <2>3, <2>4
<1>6. Quit(db, c) \in {NoEffect, Then(black, Then(gone, inactive))}
  BY Zenon DEF Quit, tired
<1>7. Join(db, serial + 1, c) \in {starts, Then(here, starts), NoEffect}
  BY Zenon DEF Join
<1>8. out.effect \in {Quit(db, c), Join(db, serial + 1, c), NoEffect}
  <2>1. CASE text.word = "quit"
    BY <2>1 DEF Education
  <2>2. CASE text.word = "join"
    BY <2>2 DEF Education
  <2>3. CASE text.word \notin {"quit", "join"}
    BY <2>3 DEF Education
  <2> QED BY <2>1, <2>2, <2>3
<1>9. Sound(NoEffect)
  BY <1>0, SoundBasic
<1> HIDE DEF save, here, gone, inactive, black, starts
<1>10. Sound(Then(black, Then(gone, inactive))) /\ Sound(Then(here, starts))
  BY <1>3, <1>4, <1>5, SoundThen
<1>11. Sound(out.effect)
  BY <1>5, <1>6, <1>7, <1>8, <1>9, <1>10
<1> QED BY <1>1a, <1>3, <1>11, SoundThen DEF save

LEMMA AddedSound ==
  ASSUME NEW p, NEW C
  PROVE  Sound(Added(p, C)) /\ Added(p, C).put["members"] = {}
<1> DEFINE R == {[id |-> <<p, c>>, poll |-> p, conn |-> c] : c \in C}
<1>1. \A r \in R : \E c : r = [id |-> <<p, c>>, poll |-> p, conn |-> c]
  OBVIOUS
<1>2. "recipients" \in Tables /\ "members" \in Tables
  BY TablesThere DEF Schema
<1>3. Added(p, C) = Inserted("recipients", R)
  BY DEF Added
<1> HIDE DEF R
<1>4. Rows("recipients", R)
  BY <1>1 DEF Rows, Unique, Typed
<1> QED BY <1>2, <1>3, <1>4, SoundBasic, InsertedAt

\* A row of these tables is one whatever it is.
LEMMA AnyTyped ==
  ASSUME NEW T \in Tables \ {"roster", "contacts", "blacklist", "responses", "submissions"}, NEW R
  PROVE  /\ Unique(R) => Sound(Inserted(T, R)) /\ Sound(Saved(T, R))
         /\ \A r : Sound(Inserted(T, {r})) /\ Sound(Saved(T, {r}))
<1>1. \A r : Typed(T, r)
  BY DEF Typed
<1>2. Unique(R) => Rows(T, R)
  BY <1>1 DEF Rows
<1>3. \A r : Rows(T, {r})
  BY <1>1, RowsFew
<1> QED BY <1>2, <1>3, SoundBasic

LEMMA CreateTypes ==
  ASSUME RequestsOK, NEW t, Begin(t), CreatePoll
  PROVE  Sound(t.effect)
<1> DEFINE row(p, type, rule) == [id |-> p, type |-> type, rule |-> rule, start |-> 0, ended |-> FALSE]
           add(p) == Added(p, {k.id : k \in {x \in db["contacts"] : Select(db, "blacklist", x.id) = {}}})
           new(p, type, rule) == Inserted("polls", {row(p, type, rule)})
           u(p, type, rule) ==
             WithRecipients(Dates("create", row(p, type, rule), Then(new(p, type, rule), add(p))))
<1>1. \E p, type, rule : Begin(u(p, type, rule))
  BY Zenon DEF CreatePoll
<1>2. PICK p, type, rule : t = u(p, type, rule)
  <2> HIDE DEF u
  <2> QED BY <1>1, BeginOne
<1>3. t.effect = Then(new(p, type, rule), add(p))
  <2> HIDE DEF new, add, row
  <2> QED BY <1>2, WithRecipientsHas
<1>4. Sound(new(p, type, rule))
  BY TablesThere, AnyTyped DEF Schema
<1>5. Sound(add(p))
  BY AddedSound
<1> HIDE DEF new, add
<1> QED BY <1>3, <1>4, <1>5, SoundThen

LEMMA EditPollTypes ==
  ASSUME RequestsOK, NEW t, Begin(t), EditPoll
  PROVE  Sound(t.effect)
<1> DEFINE gone(p, C) == Deleted("recipients", {m \in db["recipients"] : m.poll = p.id /\ m.conn \notin C})
           add(p, C) == Added(p.id, C \ Recipients(db, p.id))
           save(p) == Saved("polls", {p})
           e(p, C) == Then(save(p), Then(gone(p, C), add(p, C)))
           notes(p, C) == IF p.start = 0 THEN {} ELSE {<<"late", <<p.id, c>>>> : c \in C \ Recipients(db, p.id)}
           u(p, C) == WithRecipients(Dates("poll", p, e(p, C)))
           v(p, C) == [u(p, C) EXCEPT !.notes = notes(p, C)]
<1>1. \E p, C : Begin(v(p, C))
  BY Zenon DEF EditPoll
<1>2. PICK p, C : t = v(p, C)
  <2> HIDE DEF v
  <2> QED BY <1>1, BeginOne
<1>3. Sound(save(p)) /\ Sound(gone(p, C)) /\ Sound(add(p, C))
  BY TablesThere, AnyTyped, AddedSound, SoundBasic DEF Schema
<1> HIDE DEF gone, add, save
<1>4. Sound(e(p, C))
  BY <1>3, SoundThen
<1> HIDE DEF e, notes
<1>5. v(p, C).effect = e(p, C)
  <2>1. u(p, C).effect = e(p, C) /\ Shape(u(p, C))
    BY WithRecipientsHas
  <2> HIDE DEF u
  <2> QED BY <2>1 DEF Shape, Request
<1> HIDE DEF v
<1> QED BY <1>2, <1>4, <1>5

LEMMA DeletePollTypes ==
  ASSUME RequestsOK, NEW t, Begin(t), DeletePoll
  PROVE  Sound(t.effect)
<1> DEFINE effect(p) ==
             Then(Inserted("tombstones", {[id |-> <<"polls", p.id>>]}),
             Then(Erased(db, PollResponses(db, p.id)),
             Then(Deleted("rules", RulesOf(db, p.id)),
             Then(Deleted("categories", CategoriesOf(db, p.id)),
             Then(Deleted("recipients", {m \in db["recipients"] : m.poll = p.id}),
                  Deleted("polls", {p}))))))
<1>1. PICK p \in db["polls"] :
        Begin(Request("poll", p, "written", effect(p), {<<"recipients", p.id>>}, {<<"dates", p.id>>}, {}))
  BY Zenon DEF DeletePoll, Dates
<1>2. Sound(Inserted("tombstones", {[id |-> <<"polls", p.id>>]}))
  BY TablesThere, AnyTyped DEF Schema
<1>3. ASSUME NEW R
      PROVE  /\ Sound(Deleted("rules", R)) /\ Sound(Deleted("categories", R)) /\ Sound(Deleted("recipients", R))
             /\ Sound(Deleted("polls", R)) /\ Sound(Deleted("labels", R)) /\ Sound(Deleted("responses", R))
  BY TablesThere, SoundBasic DEF Schema
<1>4. \A R : Sound(Erased(db, R))
  BY <1>3, SoundThen DEF Erased
<1>5. Sound(effect(p))
  BY <1>2, <1>3, <1>4, SoundThen
<1> HIDE DEF effect
<1>6. t.effect = effect(p)
  <2>1. t = Request("poll", p, "written", effect(p), {<<"recipients", p.id>>}, {<<"dates", p.id>>}, {})
    BY <1>1, BeginOne
  <2> QED BY <2>1, RequestIs
<1> QED BY <1>5, <1>6

LEMMA RemoveTypes ==
  ASSUME RequestsOK, NEW t, Begin(t), RemoveConnection
  PROVE  Sound(t.effect)
<1> DEFINE labels(c) == Deleted("labels", LabelsOf(db, OfConnection(db, "responses", c)))
           rows(c) == [NoEffect EXCEPT !.drop = [T \in Tables |-> Ids(OfConnection(db, T, c))]]
           mark(c) == Inserted("tombstones", {[id |-> <<"connections", c>>]})
           W(c) == About({c}) \cup Details({c}) \cup {<<"person", c>>}
<1>1. PICK c \in Connections :
        Begin(Request("remove", c, "written", Then(labels(c), Then(rows(c), mark(c))), {}, W(c), {}))
  BY Zenon DEF RemoveConnection
<1>2. Sound(labels(c)) /\ Sound(mark(c)) /\ Sound(NoEffect)
  BY TablesThere, AnyTyped, SoundBasic DEF Schema
<1>3. Sound(rows(c))
  <2>1. rows(c).put = NoEffect.put
    BY DEF NoEffect
  <2> HIDE DEF rows
  <2> QED BY <1>2, <2>1 DEF Sound
<1> HIDE DEF labels, rows, mark, W
<1>4. Sound(Then(labels(c), Then(rows(c), mark(c))))
  BY <1>2, <1>3, SoundThen
<1>5. t.effect = Then(labels(c), Then(rows(c), mark(c)))
  <2>1. t = Request("remove", c, "written", Then(labels(c), Then(rows(c), mark(c))), {}, W(c), {})
    BY <1>1, BeginOne
  <2> QED BY <2>1, RequestIs
<1> QED BY <1>4, <1>5

LEMMA DatesTypes ==
  ASSUME RequestsOK, NEW t, Begin(t), StartPoll \/ EndPoll
  PROVE  Sound(t.effect)
<1> DEFINE u(p) == [Dates("start", p, NoEffect) EXCEPT !.place = "texts"]
           save(p) == Saved("polls", {[p EXCEPT !.ended = TRUE]})
<1>1. \A p : u(p).effect = NoEffect
  BY DEF Dates, Request
<1>2. \A p : Sound(NoEffect) /\ Sound(save(p))
  BY TablesThere, AnyTyped, SoundBasic DEF Schema
<1> HIDE DEF u, save
<1>3. CASE StartPoll
  <2>1. \E p : Begin(u(p))
    BY <1>3, Zenon DEF StartPoll, u
  <2> QED BY <1>1, <1>2, <2>1, BeginOne
<1>4. CASE EndPoll
  <2>1. \E p : Begin(Request("stop", p, "written", save(p), {<<"recipients", p.id>>}, {<<"dates", p.id>>}, {}))
    BY <1>4, Zenon DEF EndPoll, save, Dates
  <2>2. PICK p : t = Request("stop", p, "written", save(p), {<<"recipients", p.id>>}, {<<"dates", p.id>>}, {})
    BY <2>1, BeginOne
  <2> QED BY <1>2, <2>2, RequestIs
<1> QED BY <1>3, <1>4

\* The rows of the tables that its kind puts rows into are all it writes.
LEMMA OwnTypes ==
  ASSUME NEW t, Own(t), \A T \in Tables : T \in Puts[t.kind] => Rows(T, t.effect.put[T])
  PROVE  Sound(t.effect)
<1> SUFFICES ASSUME NEW T \in Tables PROVE Rows(T, t.effect.put[T])
  BY DEF Sound
<1>1. CASE T \notin Puts[t.kind]
  BY <1>1, RowsFew DEF Own, Within
<1> QED BY <1>1

LEMMA LabelsUnique ==
  ASSUME NEW R, NEW n, NEW o, \A l \in R : \E r, k : l = Label(n, r, k, o)
  PROVE  Unique(R) /\ Rows("labels", R)
<1>1. \A l \in R : \E r, k : l = Label(n, r, k, o) /\ l.id = <<n, r, k>>
  BY LabelIs
<1>2. Unique(R)
  BY <1>1 DEF Unique
<1> QED BY <1>2 DEF Rows, Typed

LEMMA JudgedTyped ==
  ASSUME NEW d, NEW p, NEW r, ResponseRow(r)
  PROVE  Judged(d, p, r).errors \in BOOLEAN
<1> DEFINE bad == Again(d, p, r) \cap Errors(d, p) # {}
<1>1. "errors" \in DOMAIN r
  BY DEF ResponseRow, NewResponse
<1>2. bad \in BOOLEAN
  OBVIOUS
<1>3. Judged(d, p, r) = [r EXCEPT !.errors = bad]
  BY DEF Judged
<1> HIDE DEF bad
<1>4. Judged(d, p, r).errors = bad
  <2>1. r = NewResponse(r.id, r.poll, r.conn, r.text, r.errors)
    BY DEF ResponseRow
  <2> DEFINE i == r.id
             q == r.poll
             c == r.conn
             w == r.text
             e == r.errors
  <2>2. r = [id |-> i, poll |-> q, conn |-> c, text |-> w, errors |-> e]
    BY <2>1 DEF NewResponse
  <2> HIDE DEF i, q, c, w, e
  <2> QED BY <1>3, <2>2
<1> QED BY <1>2, <1>4

LEMMA RulesTypes ==
  ASSUME RequestsOK, ResponsesOK, NEW t, Begins(t), t.kind = "rules", OfResponses(t), OfLabels(t)
  PROVE  Sound(t.effect)
<1>1. Begin(t) /\ ChangeRules /\ Own(t)
  BY DEF Begins, BegunBy
<1>0. "rules" \in Tables
  BY TablesThere DEF Schema
<1> DEFINE Fit(e) == Within(e, {"rules"}, {"rules"}) /\ Rows("rules", e.put["rules"])
<1>2. ASSUME NEW r
      PROVE  Fit(Inserted("rules", {r})) /\ Fit(Saved("rules", {r})) /\ Fit(Deleted("rules", {r}))
  <2>1. /\ Within(Inserted("rules", {r}), {"rules"}, {"rules"}) /\ Within(Saved("rules", {r}), {"rules"}, {"rules"})
        /\ Within(Deleted("rules", {r}), {"rules"}, {"rules"})
    BY <1>0, WithinBasic, WithinMore
  <2>2. Sound(Inserted("rules", {r})) /\ Sound(Saved("rules", {r})) /\ Sound(Deleted("rules", {r}))
    BY <1>0, AnyTyped, SoundBasic
  <2> QED BY <1>0, <2>1, <2>2 DEF Sound
<1> HIDE DEF Fit
<1>3. PICK p \in TextPolls : \E e : Change(p, e) /\ Fit(e)
  BY <1>1, <1>2, Zenon DEF ChangeRules
<1>4. PICK e : Change(p, e) /\ Fit(e)
  BY <1>3
<1> DEFINE d == After(db, e)
           f == reprocess_responses(d, serial + 1, p.id)
<1>5. Begin(Request("rules", p.id, "written", Then(e, f), {<<"categories", p.id>>}, {<<"rules", p.id>>}, {}))
  BY <1>4, Zenon DEF Change
<1>6. d["responses"] = db["responses"]
  <2>1. e.put["responses"] = {} /\ e.drop["responses"] = {}
    BY <1>4, AnswersThere DEF Fit, Within
  <2> HIDE DEF d
  <2>2. \A r : r \in d["responses"] <=> r \in db["responses"]
    BY <2>1, AfterUntouched, AnswersThere DEF d
  <2> QED BY <2>2
<1>7. f = reprocess_responses(d, serial + 1, p.id)
  OBVIOUS
<1> HIDE DEF f, d
<1>8. /\ \A x \in f.put["responses"] : \E r \in PollResponses(d, p.id) : x = Judged(d, p.id, r)
      /\ f.put["rules"] = {}
  <2>1. \A x \in f.put["responses"] : \E r \in PollResponses(d, p.id) : x = Judged(d, p.id, r)
    BY <1>7, ReprocessedAre
  <2>2. Within(f, {"labels", "responses"}, {"labels"})
    BY <1>7, ReprocessWithin
  <2> QED BY <1>0, <2>1, <2>2 DEF Within
<1>9. \A r \in PollResponses(d, p.id) : ResponseRow(r)
  BY <1>6 DEF PollResponses, ResponsesOK, ResponseRows
<1>10. t.effect = Then(e, f)
  <2>1. t = Request("rules", p.id, "written", Then(e, f), {<<"categories", p.id>>}, {<<"rules", p.id>>}, {})
    BY <1>1, <1>5, BeginOne
  <2> QED BY <2>1, RequestIs
<1>11. Rows("rules", t.effect.put["rules"])
  BY <1>0, <1>4, <1>8, <1>10, RowsThen, RowsFew DEF Fit
<1>12. Rows("responses", t.effect.put["responses"])
  <2>1. e.put["responses"] = {}
    BY <1>4, AnswersThere DEF Fit, Within
  <2>2. \A r \in Then(e, f).put["responses"] : r \in f.put["responses"]
    BY <2>1, AnswersThere, ThenIs
  <2>3. \A r \in t.effect.put["responses"] : r.errors \in BOOLEAN
    BY <1>8, <1>9, <1>10, <2>2, JudgedTyped
  <2> QED BY <2>3 DEF Rows, Typed, OfResponses
<1>13. Rows("labels", t.effect.put["labels"])
  BY LabelsUnique DEF OfLabels
<1>14. \A T \in Puts[t.kind] : T \in {"rules", "responses", "labels"}
  BY DEF Puts
<1> QED BY <1>1, <1>11, <1>12, <1>13, <1>14, OwnTypes

LEMMA EditTypes ==
  ASSUME RequestsOK, RowsThere, NEW t, Begins(t), t.kind = "edit", OfResponses(t), OfLabels(t)
  PROVE  Sound(t.effect)
<1>1. Own(t)
  BY DEF Begins
<1>2. PICK r \in db["responses"] : \E C \in SUBSET CategoriesOf(db, r.poll) :
        t.effect.put["responses"] = {r} /\ t.effect.drop["responses"] = {}
  BY EditBegins, Zenon
<1>3. r.errors \in BOOLEAN /\ t.effect.put["responses"] = {r}
  BY <1>2, AnswersThere DEF RowsThere, Rows, Typed
<1>4. Rows("responses", t.effect.put["responses"])
  BY <1>3 DEF Rows, Typed, Unique
<1>5. Rows("labels", t.effect.put["labels"])
  BY LabelsUnique DEF OfLabels
<1>6. \A T \in Puts[t.kind] : T \in {"responses", "labels"}
  BY DEF Puts
<1> QED BY <1>1, <1>4, <1>5, <1>6, OwnTypes

LEMMA EraseTypes ==
  ASSUME NEW t, Begins(t), t.kind = "erase"
  PROVE  Sound(t.effect)
<1>1. Own(t) /\ \A T : T \notin Puts[t.kind]
  BY DEF Begins, Puts
<1> QED BY <1>1, OwnTypes

LEMMA AmendTypes ==
  ASSUME RowsThere, NEW t, Begins(t), t.kind = "amend", OfSubmissions(t)
  PROVE  Sound(t.effect)
<1>1. Own(t) /\ \A T \in Puts[t.kind] : T = "submissions"
  BY DEF Begins, Puts
<1>2. \A s \in t.effect.put["submissions"] : s.form \in Forms
  BY TablesThere DEF OfSubmissions, SameOne, RowsThere, Rows, Typed, Schema
<1>3. Rows("submissions", t.effect.put["submissions"])
  BY <1>2 DEF Rows, Typed, OfSubmissions
<1> QED BY <1>1, <1>3, OwnTypes

LEMMA NoDefaultsSound ==
  ASSUME CategoryRows, NEW q, Unique(db["categories"])
  PROVE  Sound(NoDefaults(q))
<1> DEFINE K == {x \in CategoriesOf(db, q) : x.default}
           no == FALSE
           lowered(k) == [k EXCEPT !.default = no]
           R == {lowered(k) : k \in K}
<1>1. \A k \in K : k \in db["categories"]
  BY DEF CategoriesOf
<1>2. ASSUME NEW k \in K PROVE lowered(k).id = k.id
  <2> DEFINE i == k.id
             p == k.poll
             f == k.default
             e == k.error
  <2>1. k = [id |-> i, poll |-> p, default |-> f, error |-> e]
    BY <1>1 DEF CategoryRows, CategoryRow
  <2> HIDE DEF i, p, f, e, no
  <2> QED BY <2>1 DEF i
<1>3. NoDefaults(q) = Saved("categories", R)
  BY DEF NoDefaults
<1> HIDE DEF K, lowered
<1>4. Unique(R)
  BY <1>1, <1>2 DEF Unique
<1> HIDE DEF R
<1> QED BY <1>3, <1>4, AnyTyped, TablesThere DEF Schema

LEMMA CategoryTypes ==
  ASSUME RequestsOK, RowsThere, CategoryRows, NEW t, Begins(t), t.kind = "category"
  PROVE  Sound(t.effect)
<1>1. Begin(t) /\ (AddCategory \/ EditCategory \/ DeleteCategory) /\ Own(t)
  BY DEF Begins, BegunBy
<1>0. "categories" \in Tables /\ Unique(db["categories"])
  BY TablesThere DEF Schema, RowsThere, Rows
<1> DEFINE r(p, e) == Request("category", p, "written", e, {<<"rules", p>>}, {<<"categories", p>>},
                              {<<"recategorised", p>>})
           start(p, default) == IF default THEN NoDefaults(p) ELSE NoEffect
<1>2. ASSUME NEW p, NEW e, Recategorised(p, e) PROVE t.effect = e
  <2>1. Begin(r(p, e))
    BY <1>2, Zenon DEF Recategorised
  <2>2. t = r(p, e)
    BY <1>1, <2>1, BeginOne
  <2> QED BY <2>2, RequestIs
<1>3. ASSUME NEW p, NEW default PROVE Sound(start(p, default))
  <2>1. Sound(NoDefaults(p)) /\ Sound(NoEffect)
    BY <1>0, NoDefaultsSound, SoundBasic
  <2> QED BY <2>1
<1>4. \A x : Sound(Inserted("categories", {x})) /\ Sound(Saved("categories", {x}))
  BY <1>0, AnyTyped
<1> HIDE DEF start
<1>5. CASE AddCategory
  <2>1. PICK p \in db["polls"], default \in BOOLEAN :
          Recategorised(p.id, Then(start(p.id, default), Inserted("categories", {Category(serial + 1, p.id, default)})))
    BY <1>5, Zenon DEF AddCategory, start
  <2> QED BY <1>2, <1>3, <1>4, <2>1, SoundThen
<1>6. CASE EditCategory
  <2>1. PICK k \in db["categories"], default \in BOOLEAN :
          Recategorised(k.poll, Then(start(k.poll, default), Saved("categories", {[k EXCEPT !.default = default]})))
    BY <1>6, Zenon DEF EditCategory, start
  <2> QED BY <1>2, <1>3, <1>4, <2>1, SoundThen
<1>7. CASE DeleteCategory
  <2> DEFINE L(k) == Deleted("labels", {l \in db["labels"] : l.category = k.id})
             Q(k) == Deleted("rules", {q \in db["rules"] : q.category = k.id})
             K(k) == Deleted("categories", {k})
  <2>1. PICK k \in db["categories"] : Recategorised(k.poll, Then(L(k), Then(Q(k), K(k))))
    BY <1>7, Zenon DEF DeleteCategory
  <2>2. Sound(L(k)) /\ Sound(Q(k)) /\ Sound(K(k))
    BY AnswersThere, TablesThere, SoundBasic DEF Schema
  <2> HIDE DEF L, Q, K
  <2> QED BY <1>2, <2>1, <2>2, SoundThen
<1> QED BY <1>1, <1>5, <1>6, <1>7

\* Whatever begins writes rows of its tables; whom it makes a member is a contact.
LEMMA TypesBegin ==
  ASSUME RequestsOK, ResponsesOK, DefaultsOK, NumbersOK, RowsThere, MembersThere, DayOK,
         NEW t, Begins(t), Wellformed(t)
  PROVE  OfTypes(t)
<1>1. Begin(t) /\ Own(t) /\ BegunBy(t.kind) /\ CategoryRows
  BY DEF Begins, DefaultsOK
<1>2. OfResponses(t) /\ OfLabels(t) /\ OfSubmissions(t)
  BY ResponsesBegin, LabelsBegin, SubmissionsBegin DEF NumbersOK
<1>3. CASE t.kind \in {"end", "reporter"}
  BY <1>1, <1>3, EndTypes, ReporterTypes DEF BegunBy
<1>4. CASE t.kind \notin {"end", "reporter"}
  <2>1. t.effect.put["members"] = {}
    BY <1>1, <1>4, TablesThere DEF Own, Within, Puts, Schema
  <2>2. ASSUME t.kind = "add" PROVE Sound(t.effect)
    <3>1. AddConnections
      BY <1>1, <2>2 DEF BegunBy
    <3> QED BY <1>1, <3>1, AddTypes
  <2>3. ASSUME t.kind = "reschedule" PROVE Sound(t.effect)
    <3>1. RescheduleScripts
      BY <1>1, <2>3 DEF BegunBy
    <3> QED BY <1>1, <3>1, RescheduleTypes
  <2>4. ASSUME t.kind = "now" PROVE Sound(t.effect)
    <3>1. ScheduleNow
      BY <1>1, <2>4 DEF BegunBy
    <3> QED BY <1>1, <3>1, NowTypes
  <2>5. ASSUME t.kind = "special" PROVE Sound(t.effect)
    <3>1. SpecialScript
      BY <1>1, <2>5 DEF BegunBy
    <3> QED BY <1>1, <3>1, SpecialTypes
  <2>6. ASSUME t.kind = "water" PROVE Sound(t.effect)
    <3>1. ScheduleWaterPolls
      BY <1>1, <2>6 DEF BegunBy
    <3> QED BY <1>1, <3>1, WaterTypes
  <2>7. ASSUME t.kind = "remove" PROVE Sound(t.effect)
    <3>1. RemoveConnection
      BY <1>1, <2>7 DEF BegunBy
    <3> QED BY <1>1, <3>1, RemoveTypes
  <2>8. ASSUME t.kind = "create" PROVE Sound(t.effect)
    <3>1. CreatePoll
      BY <1>1, <2>8 DEF BegunBy
    <3> QED BY <1>1, <3>1, CreateTypes
  <2>9. ASSUME t.kind = "start" PROVE Sound(t.effect)
    <3>1. StartPoll
      BY <1>1, <2>9 DEF BegunBy
    <3> QED BY <1>1, <3>1, DatesTypes
  <2>10. ASSUME t.kind = "stop" PROVE Sound(t.effect)
    <3>1. EndPoll
      BY <1>1, <2>10 DEF BegunBy
    <3> QED BY <1>1, <3>1, DatesTypes
  <2>11. ASSUME t.kind = "poll" PROVE Sound(t.effect)
    <3>1. EditPoll \/ DeletePoll
      BY <1>1, <2>11 DEF BegunBy
    <3> QED BY <1>1, <3>1, EditPollTypes, DeletePollTypes
  <2>12. ASSUME t.kind = "message" PROVE Sound(t.effect)
    BY <1>1, <1>2, <2>12, MessageTypes
  <2>13. ASSUME t.kind = "rules" PROVE Sound(t.effect)
    BY <1>1, <1>2, <2>13, RulesTypes
  <2>14. ASSUME t.kind = "category" PROVE Sound(t.effect)
    BY <1>1, <1>2, <2>14, CategoryTypes
  <2>15. ASSUME t.kind = "edit" PROVE Sound(t.effect)
    BY <1>1, <1>2, <2>15, EditTypes
  <2>16. ASSUME t.kind = "erase" PROVE Sound(t.effect)
    BY <1>1, <1>2, <2>16, EraseTypes
  <2>17. ASSUME t.kind = "amend" PROVE Sound(t.effect)
    BY <1>1, <1>2, <2>17, AmendTypes
  <2>18. t.kind \in {"add", "reschedule", "now", "special", "water", "remove", "create", "start", "stop", "poll", "message", "rules", "category", "edit", "erase", "amend"}
    BY <1>1, <1>4 DEF BegunBy
  <2>19. Sound(t.effect)
    BY <2>2, <2>3, <2>4, <2>5, <2>6, <2>7, <2>8, <2>9, <2>10, <2>11, <2>12, <2>13, <2>14, <2>15, <2>16, <2>17, <2>18
  <2> QED BY <2>1, <2>19, OfTypesIf
<1> QED BY <1>3, <1>4

\* What the poll app writes is of its tables, and what the forms' app does.
LEMMA FiledSound ==
  ASSUME NEW d, NEW n, NEW c, NEW words, NEW e \in Handle(d, n, c, words), \A r \in d["responses"] : r.id # n
  PROVE  Sound(e)
<1>1. CASE e = NoEffect
  BY <1>1, AnswersThere, SoundBasic
<1>2. CASE e # NoEffect
  <2>1. PICK p \in Latest(d, c) : Filing(d, n, c, words, e, p)
    BY <1>2, HandleIs
  <2>2. PICK new : new = Answer(d, n, p, c, words)
    OBVIOUS
  <2>3. Writes(d, n, c, e, p, new)
    BY <2>1, <2>2, FilingIs
  <2>4. new.errors \in BOOLEAN
    <3> DEFINE bad == IF Stuck(d, p, words) THEN FALSE ELSE Bad(d, p, words)
    <3>1. Bad(d, p, words) \in BOOLEAN
      BY Zenon DEF Bad
    <3>2. bad \in BOOLEAN
      BY <3>1, Zenon
    <3>3. new = NewResponse(n, p.id, c, words, bad)
      BY <2>2, Zenon DEF Answer
    <3> HIDE DEF bad
    <3> QED BY <3>2, <3>3 DEF NewResponse
  <2>5. Rows("responses", e.put["responses"])
    <3>1. e.put["responses"] = {new}
      BY <2>3 DEF Writes
    <3>2. Typed("responses", new)
      BY <2>4 DEF Typed
    <3> QED BY <3>1, <3>2, RowsFew
  <2>6. Rows("labels", e.put["labels"])
    <3>1. \A l \in e.put["labels"] : OfRule(n, l)
      BY <2>3 DEF Writes
    <3> DEFINE o == FALSE
    <3>2. \A l \in e.put["labels"] : \E r, k : l = Label(n, r, k, o)
      BY <3>1, Zenon DEF OfRule
    <3> HIDE DEF o
    <3> QED BY <3>2, LabelsUnique
  <2>7. ASSUME NEW T \in Tables, T \notin AppPuts PROVE Rows(T, e.put[T])
    <3>1. e.put[T] = {}
      BY <2>7, HandleWithin DEF Within
    <3> QED BY <3>1, RowsFew
  <2> QED BY <2>5, <2>6, <2>7 DEF Sound, AppPuts
<1> QED BY <1>1, <1>2

LEMMA SubmitSound ==
  ASSUME NEW d, NEW n, NEW text, NEW f \in find_form(text.word, text.rest), NEW c
  PROVE  LET e == Submit(d, n, f, c, text.rest)
         IN Sound(e) /\ Within(e, {"submissions"}, {})
<1> DEFINE v == Values(f, text.rest)
           b == HasErrors(f, text.rest) \/ c \notin Allowed[f]
           k == NextConfirmation(d, f, c)
           s == [id |-> n, form |-> f, conn |-> c, values |-> v, errors |-> b, confirmation |-> k]
<1>1. f \in Forms
  BY NearAssumption DEF NearAssumption, find_form
<1>2. Submit(d, n, f, c, text.rest) = Inserted("submissions", {s})
  BY DEF Submit
<1> HIDE DEF v, b, k
<1>3. Typed("submissions", s)
  BY <1>1 DEF Typed
<1>4. "submissions" \in Tables
  BY TablesThere DEF Schema
<1> HIDE DEF s
<1>5. Rows("submissions", {s})
  BY <1>3, RowsFew
<1> QED BY <1>2, <1>4, <1>5, SoundBasic, WithinBasic

\* The tables that the apps after the script app leave alone.
OtherTables == {"contacts", "members", "polls"}

LEMMA PhaseTyped ==
  ASSUME RequestsOK, WaitsOK, ResponseRows, NEW n \in DOMAIN open, PollPhase(n) \/ FormPhase(n)
  PROVE  \E e, place :
           /\ Phase(n, e, place) /\ Sound(e)
           /\ \A T \in OtherTables : e.put[T] = {} /\ e.drop[T] = {}
<1>0. OtherTables \subseteq Tables /\ OtherTables \cap (AppPuts \cup AppDrops \cup {"submissions"}) = {}
  BY TablesThere DEF Schema, OtherTables, AppPuts, AppDrops
<1>1. CASE PollPhase(n)
  <2> DEFINE c == open[n].on.conn
             words == open[n].on.text.words
             d == Seen(n)
  <2>1. PICK e, place : /\ Phase(n, e, place) /\ open[n].place = "poll"
                        /\ e = NoEffect \/ e \in Handle(d, n, c, words)
    BY <1>1, PollPhaseIs
  <2>2. \A r \in d["responses"] : r.id # n
    <3>1. Unanswered(open[n])
      BY <2>1 DEF WaitsOK, Waits
    <3>2. "responses" \in AppPuts
      BY DEF AppPuts
    <3>3. d["responses"] = db["responses"]
      BY <3>1, <3>2, FirstOf DEF Seen
    <3> HIDE DEF d
    <3> QED BY <3>3 DEF ResponseRows, Past
  <2> HIDE DEF d, c, words
  <2>3. CASE e = NoEffect
    <3>1. Sound(e)
      BY <2>3, AnswersThere, SoundBasic
    <3>2. \A T \in OtherTables : e.put[T] = {} /\ e.drop[T] = {}
      BY <1>0, <2>3, NoEffectAt
    <3> QED BY <2>1, <3>1, <3>2
  <2>4. CASE e \in Handle(d, n, c, words)
    <3>1. Sound(e)
      BY <2>2, <2>4, FiledSound
    <3>2. Within(e, AppPuts, AppDrops)
      BY <2>4, HandleWithin
    <3>3. \A T \in OtherTables : e.put[T] = {} /\ e.drop[T] = {}
      BY <1>0, <3>2 DEF Within
    <3> QED BY <2>1, <3>1, <3>3
  <2> QED BY <2>1, <2>3, <2>4
<1>2. CASE FormPhase(n)
  <2> DEFINE c == open[n].on.conn
             text == open[n].on.text
             E(f) == Submit(Seen(n), n, f, c, text.rest)
  <2>1. PICK f \in find_form(text.word, text.rest) : Phase(n, E(f), "written")
    BY <1>2, FormPhaseIs
  <2>2. Sound(E(f)) /\ Within(E(f), {"submissions"}, {})
    BY SubmitSound
  <2> HIDE DEF E
  <2>3. \A T \in OtherTables : E(f).put[T] = {} /\ E(f).drop[T] = {}
    BY <1>0, <2>2 DEF Within
  <2> QED BY <2>1, <2>2, <2>3
<1> QED BY <1>1, <1>2

-----------------------------------------------------------------------------
(***************************************************************************)
(* The tables hold what they are for.                                      *)
(***************************************************************************)

\* Whom the effect e makes a member is a contact in the tables d, or is made
\* one by it, or has been removed from d.
BackedIn(d, e, c) ==
  \/ Contact(d, c) # {}
  \/ c \in Connections /\ IsRemoved(d, c)
  \/ \E k \in e.put["contacts"] : k.id = c /\ c \in e.made["contacts"]

JoinsIn(d, e) == \A m \in e.put["members"] : BackedIn(d, e, m.conn)

LEMMA JoinsIs ==
  ASSUME NEW e
  PROVE  Joins(e) <=> JoinsIn(db, e)
<1>1. \A c : Backed(e, c) <=> BackedIn(db, e, c)
  BY DEF Backed, BackedIn, Removed
<1> QED BY <1>1 DEF Joins, JoinsIn

\* What the open requests write is of its tables; polls start at a past
\* request; a contact goes with its connection only.
EffectsTyped == \A n \in DOMAIN open : Sound(open[n].effect) /\ JoinsIn(db, open[n].effect)

StartsPast ==
  /\ \A p \in db["polls"] : p.start <= serial
  /\ \A n \in DOMAIN open : \A p \in open[n].effect.put["polls"] : p.start <= serial

ContactsTaken ==
  \A n \in DOMAIN open : \A i \in open[n].effect.drop["contacts"] : open[n].kind = "remove" /\ i = open[n].on

TablesOK ==
  /\ DOMAIN db = Tables /\ PollsRefer(db) /\ RowsThere /\ MembersThere
  /\ EffectsTyped /\ StartsPast /\ ContactsTaken

CountersOK == DayOK /\ left \in [Kinds -> Nat]

LEMMA NextCounters ==
  ASSUME CountersOK, [Next]_vars
  PROVE  CountersOK'
<1>1. left' \in [Kinds -> Nat]
  BY LeftLess DEF CountersOK
<1>2. today' \in 1 .. LastDay
  <2>1. LastDay \in Nat /\ today \in 1 .. LastDay
    BY DaysAssumption DEF DaysAssumption, CountersOK, DayOK
  <2>2. ASSUME NEW c, NEW text, Receive(c, text) PROVE today' = today
    BY <2>2, Zenon DEF Receive
  <2>3. CASE NextDay
    <3>1. today < LastDay /\ today' = today + 1
      BY <2>3 DEF NextDay
    <3> QED BY <2>1, <3>1
  <2>4. Next => NextDay \/ today' = today
    BY <2>2, Zenon DEF Next
  <2>5. UNCHANGED vars => today' = today
    BY DEF vars
  <2> QED BY <2>1, <2>3, <2>4, <2>5
<1> QED BY <1>1, <1>2 DEF CountersOK, DayOK

LEMMA TypesWhenBegun ==
  ASSUME RequestsOK, ResponsesOK, DefaultsOK, NumbersOK, TablesOK, CountersOK,
         NEW t, Begins(t), Wellformed(t), Grounded(t)
  PROVE  TablesOK'
<1>1. /\ db' = db /\ serial' = serial + 1 /\ serial \in Nat
      /\ DOMAIN open' = DOMAIN open \cup {serial'} /\ open'[serial'] = t
      /\ \A k \in DOMAIN open : open'[k] = open[k]
  BY BeginSeen DEF Begins, RequestsOK
<1>2. Sound(t.effect) /\ JoinsIn(db, t.effect)
  BY TypesBegin, JoinsIs DEF TablesOK, CountersOK, OfTypes
<1>3. /\ (DOMAIN db = Tables)' /\ PollsRefer(db)' /\ RowsThere' /\ MembersThere'
  <2>1. \A m : Contact(db, m.conn)' = Contact(db, m.conn)
    BY <1>1 DEF Contact, Select
  <2> QED BY <1>1, <2>1 DEF TablesOK, RowsThere, Rows, Typed, MembersThere, PollsRefer
<1>5. EffectsTyped'
  <2>1. ASSUME NEW n \in DOMAIN open' PROVE Sound(open'[n].effect) /\ JoinsIn(db', open'[n].effect)
    <3>1. CASE n = serial'
      BY <1>1, <1>2, <3>1
    <3>2. CASE n # serial'
      BY <1>1, <3>2 DEF TablesOK, EffectsTyped
    <3> QED BY <3>1, <3>2
  <2> QED BY <2>1 DEF EffectsTyped
<1>6. StartsPast'
  <2>1. \A p \in db["polls"] : p.start <= serial /\ p.start \in Nat
    BY DEF TablesOK, StartsPast, RequestsOK, PollTable, Poll
  <2>2. \A p \in t.effect.put["polls"] : p.start = 0 \/ \E q \in db["polls"] : q.start = p.start
    BY DEF Grounded, PollsRead, Unmade, Read
  <2>3. \A p \in t.effect.put["polls"] : p.start <= serial'
    BY <1>1, <2>1, <2>2
  <2>4. ASSUME NEW n \in DOMAIN open, NEW p \in open[n].effect.put["polls"] PROVE p.start <= serial'
    <3>1. p.start <= serial /\ p.start \in Nat
      BY DEF TablesOK, StartsPast, RequestsOK, Wellformed, OfPolls, PollTable, Poll
    <3> QED BY <1>1, <3>1
  <2>5. \A p \in db["polls"] : p.start <= serial'
    BY <1>1, <2>1
  <2> QED BY <1>1, <2>3, <2>4, <2>5 DEF StartsPast
<1>7. ContactsTaken'
  <2>0. "contacts" \in Tables
    BY TablesThere DEF Schema
  <2>1. ASSUME NEW i \in t.effect.drop["contacts"] PROVE t.kind = "remove" /\ i = t.on
    <3>1. t.kind = "remove"
      BY <2>0, <2>1 DEF Begins, Own, Within, Drops, Puts, RosterTables, AnswerTables
    <3>2. t.effect.drop["contacts"] = Ids(OfConnection(db, "contacts", t.on))
      BY <2>0, <3>1, RemovalIs
    <3> QED BY <2>1, <3>1, <3>2 DEF OfConnection, Select, Ids
  <2>2. ASSUME NEW n \in DOMAIN open', NEW i \in open'[n].effect.drop["contacts"]
        PROVE  open'[n].kind = "remove" /\ i = open'[n].on
    <3>1. CASE n = serial'
      BY <1>1, <2>1, <2>2, <3>1
    <3>2. CASE n # serial'
      BY <1>1, <2>2, <3>2 DEF TablesOK, ContactsTaken
    <3> QED BY <3>1, <3>2
  <2> QED BY <2>2 DEF ContactsTaken
<1> QED BY <1>3, <1>5, <1>6, <1>7 DEF TablesOK

LEMMA TypesOnWay ==
  ASSUME RequestsOK, WaitsOK, ResponsesOK, TablesOK, NEW n \in DOMAIN open, PollPhase(n) \/ FormPhase(n)
  PROVE  TablesOK'
<1>0. OtherTables \subseteq Tables
  BY TablesThere DEF Schema, OtherTables
<1>1. PICK e, place : /\ Phase(n, e, place) /\ Sound(e)
                      /\ \A T \in OtherTables : e.put[T] = {} /\ e.drop[T] = {}
  BY PhaseTyped DEF ResponsesOK
<1> DEFINE f == open[n].effect
           g == Then(f, e)
<1>2. /\ db' = db /\ serial' = serial /\ DOMAIN open' = DOMAIN open
      /\ open'[n].effect = g /\ open'[n].kind = open[n].kind /\ open'[n].on = open[n].on
      /\ \A k \in DOMAIN open : k # n => open'[k] = open[k]
  <2>0. Phase(n, e, place)
    BY <1>1
  <2>1. /\ open'[n] = Further(open[n], g, place) /\ db' = db /\ DOMAIN open' = DOMAIN open
        /\ \A k \in DOMAIN open : k # n => open'[k] = open[k]
    BY <2>0, PhaseOpen
  <2>2. serial' = serial
    BY <2>0 DEF Phase
  <2> HIDE DEF g
  <2> QED BY <2>1, <2>2, FurtherIs
<1>3. \A T \in OtherTables : g.put[T] = f.put[T] /\ g.drop[T] = f.drop[T]
  <2> SUFFICES ASSUME NEW T \in OtherTables PROVE g.put[T] = f.put[T] /\ g.drop[T] = f.drop[T]
    OBVIOUS
  <2>1. T \in Tables /\ e.put[T] = {} /\ e.drop[T] = {}
    BY <1>0, <1>1
  <2> HIDE DEF f
  <2>2. Then(f, e).put[T] = f.put[T] /\ Then(f, e).drop[T] = f.drop[T]
    <3>1. \A r : r \in Then(f, e).put[T] <=> r \in f.put[T]
      BY <2>1, ThenIs
    <3>2. \A i : i \in Then(f, e).drop[T] <=> i \in f.drop[T]
      BY <2>1, ThenIs
    <3> QED BY <3>1, <3>2
  <2> QED BY <2>2
<1>4. g.made["contacts"] = f.made["contacts"] \cup e.made["contacts"]
  BY <1>0 DEF Then, OtherTables
<1>5. Sound(f) /\ JoinsIn(db, f)
  BY DEF TablesOK, EffectsTyped
<1>6. Sound(g)
  BY <1>1, <1>5, SoundThen
<1> HIDE DEF f, g
<1>7. JoinsIn(db, g)
  BY <1>3, <1>4, <1>5 DEF JoinsIn, BackedIn, OtherTables
<1>8. (DOMAIN db = Tables)' /\ PollsRefer(db)' /\ RowsThere' /\ MembersThere'
  <2>1. \A m : Contact(db, m.conn)' = Contact(db, m.conn)
    BY <1>2 DEF Contact, Select
  <2> QED BY <1>2, <2>1 DEF TablesOK, RowsThere, Rows, Typed, MembersThere, PollsRefer
<1>10. EffectsTyped'
  <2>1. ASSUME NEW k \in DOMAIN open' PROVE Sound(open'[k].effect) /\ JoinsIn(db', open'[k].effect)
    <3>1. CASE k = n
      BY <1>2, <1>6, <1>7, <3>1
    <3>2. CASE k # n
      BY <1>2, <3>2 DEF TablesOK, EffectsTyped
    <3> QED BY <3>1, <3>2
  <2> QED BY <2>1 DEF EffectsTyped
<1>11. ASSUME NEW k \in DOMAIN open
       PROVE  /\ open'[k].effect.put["polls"] = open[k].effect.put["polls"]
              /\ open'[k].effect.drop["contacts"] = open[k].effect.drop["contacts"]
              /\ open'[k].kind = open[k].kind /\ open'[k].on = open[k].on
  BY <1>2, <1>3 DEF OtherTables, f
<1>12. StartsPast'
  BY <1>2, <1>11 DEF TablesOK, StartsPast
<1>13. ContactsTaken'
  BY <1>2, <1>11 DEF TablesOK, ContactsTaken
<1> QED BY <1>8, <1>10, <1>12, <1>13 DEF TablesOK

LEMMA TypesWhenSent ==
  ASSUME RequestsOK, TablesOK, NEW n \in DOMAIN open, MassTextCommits(n)
  PROVE  TablesOK'
<1> DEFINE p == open[n].on
           q == Questions(db, n, p.id)
           e == Started(n, p)
<1>0. "asked" \in Tables /\ "polls" \in Tables /\ "contacts" \in Tables /\ "members" \in Tables
  BY TablesThere DEF Schema
<1>1. /\ Write(Then(NoEffect, q)) /\ serial' = serial
      /\ e.put["polls"] = {[p EXCEPT !.start = n]}
  BY MassTextIs
<1>2. /\ DOMAIN open' = DOMAIN open /\ open'[n].effect = e
      /\ \A k \in DOMAIN open : k # n => open'[k] = open[k]
  BY MassTextOpen, FurtherIs
<1>3. \A T \in Tables \ {"asked"} : db'[T] = db[T]
  BY <1>1, QuestionsAt
<1>4. DOMAIN db' = Tables
  BY <1>1 DEF Write, After
<1>5. Sound(e)
  BY <1>0, AnyTyped DEF Started
<1>6. e.put["members"] = {} /\ e.drop["contacts"] = {}
  BY <1>0, SavedAt DEF Started
<1>7. Rows("asked", db'["asked"])
  <2> DEFINE R == {[id |-> <<n, p.id, c>>, poll |-> p.id, conn |-> c] : c \in Recipients(db, p.id)}
             w == Then(NoEffect, q)
  <2>1. q.put["asked"] = R
    BY <1>0, InsertedAt DEF Questions
  <2>2. NoEffect.put["asked"] = {}
    BY <1>0, NoEffectAt
  <2>3. Unique(R)
    BY DEF Unique
  <2> HIDE DEF R, q
  <2>4. \A r \in w.put["asked"] : r \in R
    BY <1>0, <2>1, <2>2, ThenIs
  <2>5. Unique(w.put["asked"])
    BY <2>3, <2>4 DEF Unique
  <2>6. Unique(db["asked"])
    BY <1>0 DEF TablesOK, RowsThere, Rows
  <2> HIDE DEF w
  <2>7. Unique(db'["asked"])
    BY <1>0, <1>1, <2>5, <2>6, WriteUnique DEF w
  <2> QED BY <2>7 DEF Rows, Typed
<1> HIDE DEF q, e
<1>8. RowsThere'
  BY <1>3, <1>7 DEF TablesOK, RowsThere
<1>9. Schema = Tables
  BY TablesThere
<1>10. PollsRefer(db)'
  BY <1>3, <1>9 DEF TablesOK, PollsRefer, Schema
<1>11. \A c : Contact(db', c) = Contact(db, c) /\ IsRemoved(db', c) = IsRemoved(db, c)
  <2>1. db'["contacts"] = db["contacts"] /\ db'["tombstones"] = db["tombstones"]
    BY <1>3, <1>9 DEF Schema
  <2> QED BY <2>1 DEF Contact, Select, IsRemoved
<1>12. MembersThere'
  BY <1>0, <1>3, <1>11 DEF TablesOK, MembersThere
<1>13. EffectsTyped'
  <2>1. ASSUME NEW k \in DOMAIN open' PROVE Sound(open'[k].effect) /\ JoinsIn(db', open'[k].effect)
    <3>1. CASE k = n
      BY <1>2, <1>5, <1>6, <3>1 DEF JoinsIn
    <3>2. CASE k # n
      BY <1>2, <1>11, <3>2 DEF TablesOK, EffectsTyped, JoinsIn, BackedIn
    <3> QED BY <3>1, <3>2
  <2> QED BY <2>1 DEF EffectsTyped
<1>14. StartsPast'
  <2>1. \A r \in e.put["polls"] : r.start <= serial
    <3>0. open[n].kind = "start" /\ Wellformed(open[n]) /\ n <= serial
      <4>1. open[n].kind = "start"
        BY DEF MassTextCommits
      <4>2. Wellformed(open[n])
        BY DEF RequestsOK
      <4>3. n \in 1 .. serial /\ serial \in Nat
        BY DEF RequestsOK
      <4> QED BY <4>1, <4>2, <4>3
    <3>1. p \in Poll /\ n <= serial
      BY <3>0 DEF Wellformed, OfPolls
    <3> HIDE DEF p
    <3>2. [p EXCEPT !.start = n].start = n
      BY <3>1 DEF Poll
    <3> QED BY <1>1, <3>1, <3>2 DEF p
  <2> QED BY <1>0, <1>1, <1>2, <1>3, <2>1 DEF TablesOK, StartsPast
<1>15. ContactsTaken'
  BY <1>2, <1>6 DEF TablesOK, ContactsTaken
<1> QED BY <1>4, <1>8, <1>10, <1>12, <1>13, <1>14, <1>15 DEF TablesOK

LEMMA TypesWhenOver ==
  ASSUME RequestsOK, TablesOK, NEW n \in DOMAIN open, Finish(n)
  PROVE  TablesOK'
<1> DEFINE e == open[n].effect
<1>0. "polls" \in Tables /\ "contacts" \in Tables /\ "members" \in Tables
  BY TablesThere DEF Schema
<1>1. Write(e) /\ open' = Closed(n) /\ serial' = serial /\ PollsRefer(db')
  BY DEF Finish, Commit
<1>2. DOMAIN open' \subseteq DOMAIN open /\ \A k \in DOMAIN open' : open'[k] = open[k]
  BY <1>1, ClosedOpen
<1>3. DOMAIN db' = Tables
  BY <1>1 DEF Write, After
<1>4. /\ Sound(e) /\ JoinsIn(db, e) /\ \A p \in e.put["polls"] : p.start <= serial
      /\ \A i \in e.drop["contacts"] : open[n].kind = "remove" /\ i = open[n].on
  BY DEF TablesOK, EffectsTyped, StartsPast, ContactsTaken
<1>5. /\ \A c \in Connections : IsRemoved(db, c) => IsRemoved(db', c)
      /\ open[n].kind = "remove" => open[n].on \in Connections /\ IsRemoved(db', open[n].on)
      /\ \A c \in Connections : IsRemoved(db', c) => \A m \in db'["members"] : m.conn # c
  <2>1. \A c : open[n].kind = "remove" /\ c = open[n].on => Removed(c)'
    BY FinishRemoved
  <2>2. ASSUME NEW c \in Connections, IsRemoved(db', c), NEW m \in db'["members"] PROVE m.conn # c
    <3>1. OfConnection(db', "members", c) = {}
      BY <1>0, <2>2, FinishRemoved DEF Removed
    <3> QED BY <2>2, <3>1 DEF OfConnection
  <2> QED BY <2>1, <2>2, FinishRemoved DEF Removed
<1> HIDE DEF e
<1>6. RowsThere'
  <2>1. ASSUME NEW T \in Tables PROVE Rows(T, db'[T])
    <3>1. Rows(T, db[T]) /\ Rows(T, e.put[T])
      BY <1>4 DEF TablesOK, RowsThere, Sound
    <3>2. Unique(db'[T])
      BY <1>1, <3>1, WriteUnique DEF Rows
    <3>3. \A r \in db'[T] : r \in db[T] \/ r \in e.put[T]
      BY <1>1, WriteAt
    <3> QED BY <3>1, <3>2, <3>3 DEF Rows
  <2> QED BY <2>1 DEF RowsThere
<1>7. StartsPast'
  <2>1. \A p \in db'["polls"] : p \in db["polls"] \/ p \in e.put["polls"]
    BY <1>0, <1>1, WriteAt
  <2> QED BY <1>1, <1>2, <1>4, <2>1 DEF TablesOK, StartsPast
<1>8. ContactsTaken'
  BY <1>2 DEF TablesOK, ContactsTaken
\* A contact that is there stays, or its connection has gone with it.
<1>9. ASSUME NEW c, Contact(db, c) # {} PROVE Contact(db', c) # {} \/ (c \in Connections /\ IsRemoved(db', c))
  <2>1. PICK k \in db["contacts"] : k.id = c
    BY <1>9 DEF Contact, Select
  <2>2. CASE c \in e.drop["contacts"]
    BY <1>4, <1>5, <2>2
  <2>3. CASE c \notin e.drop["contacts"]
    <3>1. \E q \in db'["contacts"] : q.id = c
      BY <1>0, <1>1, <2>1, <2>3, WriteKeepsId
    <3> QED BY <3>1 DEF Contact, Select
  <2> QED BY <2>2, <2>3
<1>10. \A f, c : BackedIn(db, f, c) => BackedIn(db', f, c)
  BY <1>5, <1>9 DEF BackedIn
<1>11. EffectsTyped'
  <2>1. ASSUME NEW k \in DOMAIN open' PROVE Sound(open'[k].effect) /\ JoinsIn(db', open'[k].effect)
    BY <1>2, <1>10 DEF TablesOK, EffectsTyped, JoinsIn
  <2> QED BY <2>1 DEF EffectsTyped
<1>12. MembersThere'
  <2> SUFFICES ASSUME NEW m \in db'["members"] PROVE Contact(db', m.conn) # {}
    BY DEF MembersThere, Contact, Select
  <2> DEFINE c == m.conn
  <2>1. c \in Connections => ~IsRemoved(db', c)
    BY <1>5
  <2>2. m \in db["members"] \/ m \in e.put["members"]
    BY <1>0, <1>1, WriteAt
  <2>3. Contact(db, c) # {} => Contact(db', c) # {}
    BY <1>9, <2>1
  <2>4. ASSUME NEW k \in e.put["contacts"], k.id = c, c \in e.made["contacts"] PROVE Contact(db', c) # {}
    <3>1. k.id \notin Gone(e, "contacts")
      BY <2>4 DEF Gone
    <3>2. k \in db'["contacts"]
      BY <1>0, <1>1, <3>1, WriteAt
    <3> QED BY <2>4, <3>2 DEF Contact, Select
  <2>5. CASE m \in db["members"]
    BY <2>3, <2>5 DEF TablesOK, MembersThere
  <2>6. CASE m \in e.put["members"]
    <3>1. BackedIn(db, e, c)
      BY <1>4, <2>6 DEF JoinsIn
    <3> QED BY <1>5, <2>1, <2>3, <2>4, <3>1 DEF BackedIn
  <2> QED BY <2>2, <2>5, <2>6
<1> QED BY <1>1, <1>3, <1>6, <1>7, <1>8, <1>11, <1>12 DEF TablesOK

LEMMA NextTables ==
  ASSUME RequestsOK, WaitsOK, ResponsesOK, DefaultsOK, NumbersOK, TablesOK, CountersOK, [Next]_vars
  PROVE  TablesOK'
<1>1. ASSUME db' = db, serial' = serial, DOMAIN open' \subseteq DOMAIN open,
             \A k \in DOMAIN open' : open'[k] = open[k]
      PROVE  TablesOK'
  <2>1. (DOMAIN db = Tables)' /\ PollsRefer(db)' /\ RowsThere' /\ MembersThere'
    BY <1>1 DEF TablesOK, RowsThere, MembersThere
  <2>2. EffectsTyped' /\ StartsPast' /\ ContactsTaken'
    BY <1>1 DEF TablesOK, EffectsTyped, StartsPast, ContactsTaken
  <2> QED BY <2>1, <2>2 DEF TablesOK
<1>2. ASSUME NEW n \in DOMAIN open, Fail(n) PROVE TablesOK'
  <2>1. open' = Closed(n) /\ db' = db /\ serial' = serial
    BY <1>2 DEF Fail, Rollback
  <2> QED BY <1>1, <2>1, ClosedOpen
<1>3. CASE UNCHANGED database
  BY <1>1, <1>3 DEF database
<1> QED BY <1>2, <1>3, Moving, TypesWhenBegun, TypesOnWay, TypesWhenSent, TypesWhenOver DEF Moves

\* The invariant that the types rest on.
TypesHold == WaitsOK /\ ResponsesOK /\ Owning /\ DefaultsOK /\ NumbersOK /\ TablesOK /\ CountersOK

LEMMA TypesInit ==
  ASSUME Init
  PROVE  TypesHold
<1>1. PICK w \in Workloads : db = w.db /\ left = w.left /\ DOMAIN open = {} /\ serial = 0 /\ today = 1
  BY DEF Init
<1>2. /\ db["responses"] = {} /\ db["labels"] = {} /\ db["submissions"] = {}
      /\ db["asked"] = {} /\ db["blacklist"] = {}
      /\ \A p \in db["polls"] : p.start = 0
  BY <1>1, IncomingAssumption DEF IncomingAssumption
<1>3. NumbersOK
  BY <1>1, <1>2 DEF NumbersOK, SubmissionRows, MessageRows, SavedRows, RemovedRows, NumbersOnce,
                    NumbersOf, Unique
<1>4. DefaultsOK
  <2>1. CategoryRows /\ \A p : OneIn(db["categories"], p)
    BY <1>1, CategoriesAssumption DEF CategoriesAssumption, CategoryRows, CategoryRow, OneIn, DefaultOf
  <2> QED BY <1>1, <2>1 DEF DefaultsOK, CategoriesPut, OneSeen
<1>5. CountersOK
  BY <1>1, DaysAssumption, WorkloadAssumption DEF DaysAssumption, WorkloadAssumption, CountersOK, DayOK
<1>6. /\ DOMAIN db = Tables /\ PollsRefer(db)
      /\ \A T \in Tables : \A r, q \in db[T] : r.id = q.id => r = q
      /\ \A r \in db["roster"] : r.conn \in Connections /\ r.script \in Scripts /\ r.day \in 0 .. LastDay
      /\ \A k \in db["contacts"] : ContactRow(k)
      /\ \A m \in db["members"] : Contact(db, m.conn) # {}
  BY <1>1, TablesAssumption DEF TablesAssumption, ContactRow
<1>7. RowsThere
  BY <1>2, <1>6 DEF RowsThere, Rows, Unique, Typed
<1>8. EffectsTyped /\ StartsPast /\ ContactsTaken
  BY <1>1, <1>2 DEF EffectsTyped, StartsPast, ContactsTaken
<1>9. TablesOK
  BY <1>6, <1>7, <1>8 DEF TablesOK, MembersThere
<1> QED BY <1>3, <1>4, <1>5, <1>9, AnswersInit DEF TypesHold

LEMMA NextTypes ==
  ASSUME RequestsOK, TypesHold, [Next]_vars
  PROVE  TypesHold'
BY NextWaits, NextResponses, NextOwning, NextDefaults, NextNumbers, NextTables, NextCounters DEF TypesHold

\* Every table holds what it is for, with ids of their own and nothing that
\* refers to what has gone: whatever requests overlap, fail or remove what others
\* save.  A registration that is open when its contact is removed leaves no
\* member without one.
THEOREM IncomingTypeCorrect ==
  Spec => []TypeOK
<1>1. RequestsOK /\ TypesHold => TypeOK
  <2> SUFFICES ASSUME RequestsOK, WaitsOK, ResponsesOK, DefaultsOK, NumbersOK, TablesOK, CountersOK PROVE TypeOK
    BY DEF TypesHold
  <2>1. \A T \in Tables : Unique(db[T]) /\ \A r \in db[T] : Typed(T, r)
    BY DEF TablesOK, RowsThere, Rows
  <2>2. /\ \A r \in db["roster"] : r.conn \in Connections /\ r.script \in Scripts /\ r.day \in 0 .. LastDay
        /\ \A k \in db["contacts"] : k.id \in Connections /\ k.active \in BOOLEAN
        /\ \A x \in db["blacklist"] : x.id \in Connections
        /\ \A r \in db["responses"] : r.errors \in BOOLEAN
        /\ \A s \in db["submissions"] : s.form \in Forms
    BY <2>1, TablesThere DEF Typed, ContactRow, Schema
  <2>3. \A r \in db["responses"] : r.id \in 1 .. serial
    BY DEF ResponsesOK, ResponseRows, Past
  <2>4. \A s \in db["submissions"] : s.confirmation \in 1 .. serial
    <3>1. serial \in Nat /\ IsFiniteSet(DOMAIN open)
      BY OpenFinite DEF RequestsOK
    <3>2. Cardinality(DOMAIN open) \in Nat
      BY <3>1, FS_CardinalityType
    <3>3. \A s \in db["submissions"] : s.confirmation \in 1 .. Room
      BY DEF NumbersOK, SubmissionRows
    <3> QED BY <3>1, <3>2, <3>3 DEF Room
  <2>5. db["polls"] \subseteq Poll /\ DOMAIN open \subseteq 1 .. serial
    BY DEF RequestsOK, PollTable
  <2>6. \A T \in Tables : \A r, q \in db[T] : r.id = q.id => r = q
    BY <2>1 DEF Unique
  <2>7. /\ DOMAIN db = Tables /\ PollsRefer(db) /\ \A m \in db["members"] : Contact(db, m.conn) # {}
        /\ \A p \in db["polls"] : p.start <= serial
        /\ today \in 1 .. LastDay /\ left \in [Kinds -> Nat]
    BY DEF TablesOK, MembersThere, StartsPast, CountersOK, DayOK
  <2> QED BY <2>2, <2>3, <2>4, <2>5, <2>6, <2>7 DEF TypeOK
<1> QED BY RequestsStayOK, TypesInit, NextTypes, <1>1, PTL DEF Spec

-----------------------------------------------------------------------------
(***************************************************************************)
(* Categories and rules are of one poll.                                   *)
(***************************************************************************)

\* A row of the table is there, or an open request writes it.
Stands(T, r) == r \in db[T] \/ \E n \in DOMAIN open : r \in open[n].effect.put[T]

\* An id that no request gives any more.
Issued(i) == i \in Nat => i <= serial

\* The category of the id is of the poll p, and the rule of the id is of one of
\* its categories, whatever row of them there is or is written.
InPoll(i, p) == Issued(i) /\ \A k : Stands("categories", k) /\ k.id = i => k.poll = p
RuleIn(i, p) == Issued(i) /\ \A q : Stands("rules", q) /\ q.id = i => InPoll(q.category, p)

RuleRow(q) == q = [id |-> q.id, category |-> q.category, word |-> q.word]

OnePoll     == \A k : Stands("categories", k) => InPoll(k.id, k.poll)
OneCategory == \A q : Stands("rules", q) =>
                 /\ RuleRow(q) /\ Issued(q.id) /\ Issued(q.category)
                 /\ \A x : Stands("rules", x) /\ x.id = q.id => x.category = q.category

\* The poll whose categories or rules a request changes.
Subject(t) == IF t.kind = "poll" THEN t.on.id ELSE t.on

\* A request changes the categories and rules of one poll.
Keeps(n) ==
  LET e == open[n].effect  s == Subject(open[n])
  IN /\ \A k \in e.put["categories"] : k.poll = s
     /\ \A i \in e.drop["categories"] : InPoll(i, s)
     /\ \A q \in e.put["rules"] : InPoll(q.category, s)
     /\ \A i \in e.drop["rules"] : RuleIn(i, s)
     /\ open[n].kind = "category" => \A i \in e.drop["labels"] : InPoll(i[3], s)

BooksOK == OnePoll /\ OneCategory /\ \A n \in DOMAIN open : Keeps(n)

\* What a request that begins does to them.
IsOf(i, p) == \E j \in db["categories"] : j.id = i /\ j.poll = p

OfBooks(t) ==
  LET e == t.effect  s == Subject(t)
  IN /\ \A k \in e.put["categories"] : k.poll = s /\ (k.id = serial + 1 \/ IsOf(k.id, s))
     /\ \A i \in e.drop["categories"] : IsOf(i, s)
     /\ \A q \in e.put["rules"] :
          /\ RuleRow(q) /\ IsOf(q.category, s)
          /\ q.id = serial + 1 \/ \E x \in db["rules"] : x.id = q.id /\ x.category = q.category
          /\ \A x \in e.put["rules"] : x = q
     /\ \A i \in e.drop["rules"] : \E x \in db["rules"] : x.id = i /\ IsOf(x.category, s)
     /\ t.kind = "category" => \A i \in e.drop["labels"] : IsOf(i[3], s)

LEMMA PutRow ==
  ASSUME NEW T \in Tables, NEW e, NEW f, NEW r \in Then(e, f).put[T]
  PROVE  r \in e.put[T] \/ r \in f.put[T]
BY ThenIs

LEMMA NoDefaultsPut ==
  ASSUME CategoryRows, NEW p, NEW r \in NoDefaults(p).put["categories"]
  PROVE  IsOf(r.id, p)
<1> DEFINE R == {[k EXCEPT !.default = FALSE] : k \in {x \in CategoriesOf(db, p) : x.default}}
<1>1. NoDefaults(p) = Saved("categories", R)
  BY DEF NoDefaults
<1>2. r \in R
  <2> HIDE DEF R
  <2> QED BY <1>1, AnswersThere, SavedAt
<1>3. PICK k \in CategoriesOf(db, p) : r = [k EXCEPT !.default = FALSE]
  BY <1>2
<1>4. CategoryRow(k) /\ k \in db["categories"] /\ k.poll = p
  BY DEF CategoriesOf, CategoryRows
<1>5. r.id = k.id
  BY <1>3, <1>4 DEF CategoryRow
<1> QED BY <1>4, <1>5 DEF IsOf

\* The categories that a change of one writes.
LEMMA CategoryPuts ==
  ASSUME RequestsOK, DefaultsOK, NEW t, Begins(t), t.kind = "category", NEW r \in t.effect.put["categories"]
  PROVE  r.poll = t.on /\ (r.id = serial + 1 \/ IsOf(r.id, r.poll))
<1>1. Begin(t) /\ (AddCategory \/ EditCategory \/ DeleteCategory)
  BY DEF Begins, BegunBy
<1>2. PICK p : t.on = p /\ t.writes = {<<"categories", p>>}
  BY RecategoriseBegins
<1>3. r.poll = p
  <2>1. <<"categories", r.poll>> \in t.writes
    BY CategoryBegins DEF OfCategories
  <2>2. <<"categories", r.poll>> = <<"categories", p>>
    BY <1>2, <2>1
  <2> QED BY <2>2
<1> DEFINE u(q, e) == Request("category", q, "written", e, {<<"rules", q>>}, {<<"categories", q>>},
                              {<<"recategorised", q>>})
           start(q, default) == IF default THEN NoDefaults(q) ELSE NoEffect
<1>4. ASSUME NEW q, NEW e, Recategorised(q, e) PROVE t.effect = e /\ t.on = q
  <2>1. Begin(u(q, e))
    BY <1>4, Zenon DEF Recategorised
  <2>2. t = u(q, e)
    BY <1>1, <2>1, BeginOne
  <2> QED BY <2>2, RequestIs
<1>5. ASSUME NEW q, NEW default, NEW x \in start(q, default).put["categories"] PROVE IsOf(x.id, q)
  <2>1. CASE default
    <3>1. x \in NoDefaults(q).put["categories"]
      BY <1>5, <2>1
    <3> QED BY <3>1, NoDefaultsPut DEF DefaultsOK
  <2>2. CASE ~default
    BY <1>5, <2>2, AnswersThere, NoEffectAt
  <2> QED BY <2>1, <2>2
<1> HIDE DEF start
<1>6. CASE AddCategory
  <2>1. PICK q \in db["polls"], default \in BOOLEAN :
          Recategorised(q.id, Then(start(q.id, default), Inserted("categories", {Category(serial + 1, q.id, default)})))
    BY <1>6, Zenon DEF AddCategory, start
  <2> DEFINE new == Inserted("categories", {Category(serial + 1, q.id, default)})
  <2>2. t.effect = Then(start(q.id, default), new) /\ t.on = q.id
    BY <1>4, <2>1
  <2>3. new.put["categories"] = {Category(serial + 1, q.id, default)}
    BY AnswersThere, PutBasic
  <2> HIDE DEF new
  <2>4. r \in start(q.id, default).put["categories"] \/ r \in new.put["categories"]
    BY <2>2, AnswersThere, PutRow
  <2>5. r \in new.put["categories"] => r.id = serial + 1
    BY <2>3 DEF Category
  <2> QED BY <1>2, <1>3, <1>5, <2>2, <2>4, <2>5
<1>7. CASE EditCategory
  <2>1. PICK k \in db["categories"], default \in BOOLEAN :
          Recategorised(k.poll, Then(start(k.poll, default), Saved("categories", {[k EXCEPT !.default = default]})))
    BY <1>7, Zenon DEF EditCategory, start
  <2> DEFINE new == Saved("categories", {[k EXCEPT !.default = default]})
  <2>2. t.effect = Then(start(k.poll, default), new) /\ t.on = k.poll
    BY <1>4, <2>1
  <2>3. new.put["categories"] = {[k EXCEPT !.default = default]}
    BY AnswersThere, PutBasic
  <2> HIDE DEF new
  <2>4. r \in start(k.poll, default).put["categories"] \/ r \in new.put["categories"]
    BY <2>2, AnswersThere, PutRow
  <2>5. r \in new.put["categories"] => r.id = k.id
    <3>1. CategoryRow(k)
      BY DEF DefaultsOK, CategoryRows
    <3> QED BY <2>3, <3>1 DEF CategoryRow
  <2> QED BY <1>2, <1>3, <1>5, <2>2, <2>4, <2>5 DEF IsOf
<1>8. CASE DeleteCategory
  <2> DEFINE L(k) == Deleted("labels", {l \in db["labels"] : l.category = k.id})
             Q(k) == Deleted("rules", {q \in db["rules"] : q.category = k.id})
             K(k) == Deleted("categories", {k})
             e(k) == Then(L(k), Then(Q(k), K(k)))
  <2>1. PICK k \in db["categories"] : Recategorised(k.poll, e(k))
    BY <1>8, Zenon DEF DeleteCategory
  <2>2. L(k).put["categories"] = {} /\ Q(k).put["categories"] = {} /\ K(k).put["categories"] = {}
    BY AnswersThere, DeletedAt
  <2> HIDE DEF L, Q, K
  <2>3. e(k).put["categories"] = {}
    BY <2>2, AnswersThere, ThenNothing
  <2> QED BY <1>4, <2>1, <2>3
<1> QED BY <1>1, <1>6, <1>7, <1>8

LEMMA CategoryBooks ==
  ASSUME RequestsOK, DefaultsOK, LabelsOK, NEW t, Begins(t), t.kind = "category"
  PROVE  OfBooks(t)
<1> DEFINE e == t.effect
           L(k) == Ids({l \in db["labels"] : l.category = k.id})
           Q(k) == Ids({q \in db["rules"] : q.category = k.id})
<1>1. PICK p : /\ t.on = p
               /\ \A k \in db["categories"] : k.id \in e.drop["categories"] => IsOf(k.id, p)
  BY RecategoriseBegins DEF IsOf
<1>2. \/ \A T \in {"labels", "rules", "categories"} : e.drop[T] = {}
      \/ \E k \in db["categories"] :
           /\ e.drop["categories"] = {k.id} /\ e.drop["labels"] = L(k) /\ e.drop["rules"] = Q(k)
  <2>1. \/ \A T \in {"labels", "rules", "categories"} : t.effect.drop[T] = {}
        \/ \E k \in db["categories"] :
             /\ t.effect.put["categories"] = {} /\ t.effect.drop["categories"] = {k.id}
             /\ t.effect.drop["labels"] = Ids({l \in db["labels"] : l.category = k.id})
             /\ t.effect.drop["rules"] = Ids({q \in db["rules"] : q.category = k.id})
    BY RecategoriseBegins, Zenon
  <2> QED BY <2>1, Zenon
<1> HIDE DEF L, Q
<1>3. \A r \in e.put["categories"] : r.poll = p /\ (r.id = serial + 1 \/ IsOf(r.id, p))
  BY <1>1, CategoryPuts
<1>4. e.put["rules"] = {}
  BY AnswersThere DEF Begins, Own, Within, Puts
<1>5. \A i \in e.drop["categories"] : IsOf(i, p)
  BY <1>1, <1>2
<1>6. \A i \in e.drop["rules"] : \E x \in db["rules"] : x.id = i /\ IsOf(x.category, p)
  <2> SUFFICES ASSUME NEW i \in e.drop["rules"] PROVE \E x \in db["rules"] : x.id = i /\ IsOf(x.category, p)
    OBVIOUS
  <2>1. PICK k \in db["categories"] : e.drop["categories"] = {k.id} /\ i \in Q(k)
    BY <1>2
  <2>2. PICK x \in db["rules"] : x.category = k.id /\ x.id = i
    BY <2>1 DEF Ids, Q
  <2> QED BY <1>5, <2>1, <2>2
<1>7. \A i \in e.drop["labels"] : IsOf(i[3], p)
  <2> SUFFICES ASSUME NEW i \in e.drop["labels"] PROVE IsOf(i[3], p)
    OBVIOUS
  <2>1. PICK k \in db["categories"] : e.drop["categories"] = {k.id} /\ i \in L(k)
    BY <1>2
  <2>2. PICK l \in db["labels"] : l.category = k.id /\ l.id = i
    BY <2>1 DEF Ids, L
  <2>3. PICK n, r, j, o : l = Label(n, r, j, o)
    BY DEF LabelsOK, LabelRows
  <2>4. i[3] = k.id
    BY <2>2, <2>3, LabelIs
  <2> QED BY <1>5, <2>1, <2>4
<1> HIDE DEF e
<1>8. Subject(t) = p
  BY <1>1 DEF Subject
<1> QED BY <1>3, <1>4, <1>5, <1>6, <1>7, <1>8 DEF OfBooks, e

LEMMA PollBooks ==
  ASSUME RequestsOK, NEW t, Begins(t), t.kind = "poll"
  PROVE  OfBooks(t)
<1> DEFINE e == t.effect
<1>1. CASE \A T \in AnswerTables : e.put[T] = {} /\ e.drop[T] = {}
  BY <1>1 DEF OfBooks, AnswerTables
<1>2. CASE \E p \in db["polls"] :
             /\ t.on = p /\ \A T \in AnswerTables : e.put[T] = {}
             /\ e.drop["rules"] = Ids(RulesOf(db, p.id)) /\ e.drop["categories"] = Ids(CategoriesOf(db, p.id))
  <2>1. PICK p \in db["polls"] :
             /\ t.on = p /\ \A T \in AnswerTables : e.put[T] = {}
             /\ e.drop["rules"] = Ids(RulesOf(db, p.id)) /\ e.drop["categories"] = Ids(CategoriesOf(db, p.id))
    BY <1>2
  <2>2. e.put["rules"] = {} /\ e.put["categories"] = {}
    BY <2>1 DEF AnswerTables
  <2>3. \A i \in e.drop["categories"] : IsOf(i, p.id)
    BY <2>1 DEF Ids, CategoriesOf, IsOf
  <2>4. \A i \in e.drop["rules"] : \E x \in db["rules"] : x.id = i /\ IsOf(x.category, p.id)
    BY <2>1 DEF Ids, RulesOf, CategoriesOf, IsOf
  <2>5. Subject(t) = p.id
    BY <2>1 DEF Subject
  <2> HIDE DEF e
  <2> QED BY <2>2, <2>3, <2>4, <2>5 DEF OfBooks, e
<1> QED BY <1>1, <1>2, PollBegins

LEMMA RulesBooks ==
  ASSUME RequestsOK, OneCategory, NEW t, Begins(t), t.kind = "rules"
  PROVE  OfBooks(t)
<1>1. PICK p, e : /\ OneRule(e, serial + 1, p.id) /\ Within(e, {"rules"}, {"rules"})
                  /\ t.effect = Then(e, reprocess_responses(After(db, e), serial + 1, p.id)) /\ t.on = p.id
  BY RulesBegin, Zenon
<1> DEFINE f == reprocess_responses(After(db, e), serial + 1, p.id)
<1>2. Within(f, {"labels", "responses"}, {"labels"})
  BY ReprocessWithin
<1> HIDE DEF f
<1>3. /\ t.effect.put["rules"] = e.put["rules"] /\ t.effect.drop["rules"] = e.drop["rules"]
      /\ t.effect.put["categories"] = {} /\ t.effect.drop["categories"] = {}
  <2>1. t.effect = Then(e, f)
    BY <1>1 DEF f
  <2>2. f.put["rules"] = {} /\ f.drop["rules"] = {} /\ f.put["categories"] = {} /\ f.drop["categories"] = {}
    BY <1>2, AnswersThere DEF Within
  <2>3. e.put["categories"] = {} /\ e.drop["categories"] = {}
    BY <1>1, AnswersThere DEF Within
  <2> QED BY <2>1, <2>2, <2>3, AnswersThere, ThenUntouched, ThenNothing
<1>4. ASSUME NEW q \in RulesOf(db, p.id) PROVE q \in db["rules"] /\ RuleRow(q) /\ IsOf(q.category, p.id)
  <2>1. q \in db["rules"] /\ IsOf(q.category, p.id)
    BY DEF RulesOf, CategoriesOf, IsOf
  <2> QED BY <2>1 DEF OneCategory, Stands
<1>5. /\ \A q \in e.put["rules"] :
           /\ RuleRow(q) /\ IsOf(q.category, p.id)
           /\ q.id = serial + 1 \/ \E x \in db["rules"] : x.id = q.id /\ x.category = q.category
           /\ \A x \in e.put["rules"] : x = q
      /\ \A i \in e.drop["rules"] : \E x \in db["rules"] : x.id = i /\ IsOf(x.category, p.id)
  <2>1. CASE \E k \in CategoriesOf(db, p.id) : \E w : e = Inserted("rules", {[id |-> serial + 1, category |-> k.id, word |-> w]})
    <3>0. PICK k \in CategoriesOf(db, p.id) : \E w : e = Inserted("rules", {[id |-> serial + 1, category |-> k.id, word |-> w]})
      BY <2>1
    <3>1. PICK w : e = Inserted("rules", {[id |-> serial + 1, category |-> k.id, word |-> w]})
      BY <3>0
    <3> DEFINE new == [id |-> serial + 1, category |-> k.id, word |-> w]
    <3>2. new.id = serial + 1 /\ new.category = k.id /\ RuleRow(new)
      BY DEF RuleRow
    <3> HIDE DEF new
    <3>3. e.put["rules"] = {new} /\ e.drop["rules"] = {}
      BY <3>1, AnswersThere, InsertedAt DEF new
    <3>4. IsOf(k.id, p.id)
      BY DEF CategoriesOf, IsOf
    <3> QED BY <3>2, <3>3, <3>4
  <2>2. CASE \E q \in RulesOf(db, p.id) : \E w : e = Saved("rules", {[q EXCEPT !.word = w]})
    <3>0. PICK q \in RulesOf(db, p.id) : \E w : e = Saved("rules", {[q EXCEPT !.word = w]})
      BY <2>2
    <3>1. PICK w : e = Saved("rules", {[q EXCEPT !.word = w]})
      BY <3>0
    <3> DEFINE new == [q EXCEPT !.word = w]
    <3>2. new.id = q.id /\ new.category = q.category /\ RuleRow(new)
      BY <1>4 DEF RuleRow
    <3> HIDE DEF new
    <3>3. e.put["rules"] = {new} /\ e.drop["rules"] = {}
      BY <3>1, AnswersThere, SavedAt DEF new
    <3> QED BY <1>4, <3>2, <3>3
  <2>3. CASE \E q \in RulesOf(db, p.id) : e = Deleted("rules", {q})
    <3>1. PICK q \in RulesOf(db, p.id) : e = Deleted("rules", {q})
      BY <2>3
    <3>2. Ids({q}) = {q.id}
      BY DEF Ids
    <3>3. e.put["rules"] = {} /\ e.drop["rules"] = {q.id}
      BY <3>1, <3>2, AnswersThere, DeletedAt
    <3> QED BY <1>4, <3>3
  <2> QED BY <1>1, <2>1, <2>2, <2>3 DEF OneRule
<1>6. Subject(t) = p.id
  BY <1>1 DEF Subject
<1> QED BY <1>3, <1>5, <1>6 DEF OfBooks

LEMMA BooksBegin ==
  ASSUME RequestsOK, DefaultsOK, LabelsOK, OneCategory, NEW t, Begins(t)
  PROVE  OfBooks(t)
<1>1. CASE t.kind \in {"category", "poll", "rules"}
  BY <1>1, CategoryBooks, PollBooks, RulesBooks
<1>2. CASE t.kind = "remove"
  <2>1. \A T \in {"categories", "rules"} : t.effect.drop[T] = Ids(OfConnection(db, T, t.on))
    BY <1>2, RemovalIs, AnswersThere
  <2>2. \A T \in {"categories", "rules"} : Ids(OfConnection(db, T, t.on)) = {}
    BY DEF OfConnection, Ids
  <2>3. t.effect.put["categories"] = {} /\ t.effect.put["rules"] = {}
    BY <1>2, AnswersThere DEF Begins, Own, Within, Puts
  <2> QED BY <1>2, <2>1, <2>2, <2>3 DEF OfBooks
<1>3. CASE t.kind \notin {"category", "poll", "rules", "remove"}
  <2>1. t.kind \in DOMAIN Puts /\ Within(t.effect, Puts[t.kind], Drops[t.kind])
    BY DEF Begins, Own
  <2>2. "categories" \notin Puts[t.kind] /\ "rules" \notin Puts[t.kind]
    BY <1>3, <2>1 DEF Puts, RosterTables
  <2>3. "categories" \notin Drops[t.kind] /\ "rules" \notin Drops[t.kind]
    BY <1>3, <2>1 DEF Puts, Drops, RosterTables
  <2> QED BY <1>3, <2>1, <2>2, <2>3, AnswersThere DEF OfBooks, Within
<1> QED BY <1>1, <1>2, <1>3

-----------------------------------------------------------------------------
\* A step that changes nothing of the answers and what they are judged by, there
\* or written.
Still ==
  /\ serial' = serial /\ \A T \in AnswerTables : SameAt(T)
  /\ \A k \in DOMAIN open' :
       open[k].kind = "start" \/ \A T \in AnswerTables : open[k].effect.made[T] \subseteq open'[k].effect.made[T]

LEMMA AnswerTablesThere ==
  AnswerTables \subseteq Tables \ {"asked", "polls", "submissions"}
BY TablesThere DEF AnswerTables, Schema

LEMMA AnswerSteps ==
  ASSUME RequestsOK, [Next]_vars
  PROVE  \/ \E t : Begins(t) /\ Wellformed(t) /\ Grounded(t)
         \/ \E n \in DOMAIN open : PollPhase(n) \/ Finish(n)
         \/ Still
<1>1. ASSUME NEW n \in DOMAIN open, FormPhase(n) PROVE Still
  <2>1. PICK f, c, rest : Phase(n, Submit(Seen(n), n, f, c, rest), "written")
    BY <1>1, FormPhaseIs
  <2> DEFINE e == Submit(Seen(n), n, f, c, rest)
  <2>2. \A T \in AnswerTables : e.put[T] = {} /\ e.drop[T] = {}
    BY TablesThere, AnswerTablesThere, InsertedAt DEF Submit, Schema
  <2> HIDE DEF e
  <2>3. Phase(n, e, "written")
    BY <2>1 DEF e
  <2>4. \A T \in AnswerTables : SameAt(T)
    BY <2>2, <2>3, PhaseSame, AnswerTablesThere
  <2> DEFINE u == Then(open[n].effect, e)
  <2>5. DOMAIN open' = DOMAIN open /\ open'[n] = Further(open[n], u, "written") /\ \A k \in DOMAIN open : k # n => open'[k] = open[k]
    BY <2>3, PhaseOpen
  <2>6. \A T \in AnswerTables : open[n].effect.made[T] \subseteq u.made[T]
    BY AnswerTablesThere DEF Then
  <2> HIDE DEF u
  <2>7. open'[n].effect = u
    BY <2>5, FurtherIs
  <2>8. serial' = serial
    BY <2>3 DEF Phase
  <2> QED BY <2>4, <2>5, <2>6, <2>7, <2>8 DEF Still
<1>2. ASSUME NEW n \in DOMAIN open, MassTextCommits(n) PROVE Still
  <2>1. \A T \in AnswerTables : SameAt(T)
    BY <1>2, MassTextSame, AnswerTablesThere
  <2>2. open[n].kind = "start" /\ serial' = serial
    BY <1>2 DEF MassTextCommits, CommitPart
  <2>3. DOMAIN open' = DOMAIN open /\ \A k \in DOMAIN open : k # n => open'[k] = open[k]
    BY <1>2, MassTextOpen
  <2> QED BY <2>1, <2>2, <2>3 DEF Still
<1>3. ASSUME NEW n \in DOMAIN open, Fail(n) PROVE Still
  <2>1. open' = Closed(n) /\ db' = db /\ history \subseteq history' /\ serial' = serial
    BY <1>3 DEF Fail, Rollback
  <2>2. DOMAIN open' \subseteq DOMAIN open /\ \A k \in DOMAIN open' : open'[k] = open[k]
    BY <2>1, ClosedOpen
  <2>3. \A T \in AnswerTables : SameAt(T)
    BY <2>1, <2>2, SameRest, AnswerTablesThere
  <2> QED BY <2>1, <2>2, <2>3 DEF Still
<1>4. CASE UNCHANGED database
  <2>1. db' = db /\ open' = open /\ serial' = serial /\ history' = history
    BY <1>4 DEF database
  <2>2. \A T \in AnswerTables : SameAt(T)
    BY <2>1, SameRest, AnswerTablesThere
  <2> QED BY <2>1, <2>2 DEF Still
<1> QED BY <1>1, <1>2, <1>3, <1>4, Moving DEF Moves

\* The poll app leaves the categories and the rules alone.
LEMMA FiledStep ==
  ASSUME RequestsOK, NEW n \in DOMAIN open, PollPhase(n)
  PROVE  /\ SameAt("categories") /\ SameAt("rules") /\ serial' = serial /\ db' = db /\ history' = history
         /\ DOMAIN open' = DOMAIN open /\ \A k \in DOMAIN open : k # n => open'[k] = open[k]
         /\ open[n].kind = "message" /\ open'[n].kind = "message"
<1>1. PICK e, place : Phase(n, e, place) /\ (e = NoEffect \/ e \in Handle(Seen(n), n, open[n].on.conn, open[n].on.text.words))
  BY PollPhaseIs
<1>2. e = NoEffect \/ Within(e, AppPuts, AppDrops)
  BY <1>1, HandleWithin
<1>3. \A T \in {"categories", "rules"} : e.put[T] = {} /\ e.drop[T] = {}
  BY <1>2, AnswersThere, NoEffectAt DEF Within, AppPuts, AppDrops
<1>4. SameAt("categories") /\ SameAt("rules")
  BY <1>1, <1>3, PhaseSame, AnswersThere
<1>5. /\ DOMAIN open' = DOMAIN open /\ db' = db /\ history' = history
      /\ open'[n] = Further(open[n], Then(open[n].effect, e), place)
      /\ \A k \in DOMAIN open : k # n => open'[k] = open[k]
  BY <1>1, PhaseOpen
<1>6. open'[n].kind = open[n].kind
  BY <1>5, FurtherIs
<1> QED BY <1>1, <1>4, <1>5, <1>6 DEF Phase

\* The rows that stand after a step stood before it, but for the one that a
\* request makes as it begins.
Grows ==
  /\ serial <= serial' /\ serial \in Nat /\ serial' \in Nat
  /\ \A k : Stands("categories", k)' =>
       \/ \E j : Stands("categories", j) /\ j.id = k.id /\ j.poll = k.poll
       \/ k.id = serial' /\ serial' > serial
  /\ \A q : Stands("rules", q)' =>
       \/ \E x : Stands("rules", x) /\ x.id = q.id /\ x.category = q.category
       \/ q.id = serial' /\ serial' > serial

LEMMA InPollKept ==
  ASSUME Grows, NEW i, NEW p, InPoll(i, p)
  PROVE  InPoll(i, p)'
<1>1. Issued(i)' /\ ~(i = serial' /\ serial' > serial)
  BY DEF Grows, InPoll, Issued
<1> QED BY <1>1 DEF Grows, InPoll

LEMMA RuleInKept ==
  ASSUME Grows, NEW i, NEW p, RuleIn(i, p)
  PROVE  RuleIn(i, p)'
<1>1. Issued(i)' /\ ~(i = serial' /\ serial' > serial)
  BY DEF Grows, RuleIn, Issued
<1> QED BY <1>1, InPollKept DEF Grows, RuleIn

\* The open requests keep to their polls.
LEMMA KeepsKept ==
  ASSUME Grows, NEW n \in DOMAIN open, Keeps(n), open'[n].kind = open[n].kind, open'[n].on = open[n].on,
         \A T \in {"categories", "rules"} : /\ open'[n].effect.put[T] = open[n].effect.put[T]
                                            /\ open'[n].effect.drop[T] = open[n].effect.drop[T],
         open[n].kind = "category" => open'[n].effect.drop["labels"] = open[n].effect.drop["labels"]
  PROVE  Keeps(n)'
<1>1. Subject(open'[n]) = Subject(open[n])
  BY DEF Subject
<1>2. (\A i, p : InPoll(i, p) => InPoll(i, p)') /\ (\A i, p : RuleIn(i, p) => RuleIn(i, p)')
  BY InPollKept, RuleInKept
<1> DEFINE s == Subject(open[n])
<1>3. Subject(open[n])' = s
  BY <1>1 DEF Subject
<1> HIDE DEF s
<1>4. /\ \A k \in open[n].effect.put["categories"] : k.poll = s
      /\ \A i \in open[n].effect.drop["categories"] : InPoll(i, s)
      /\ \A q \in open[n].effect.put["rules"] : InPoll(q.category, s)
      /\ \A i \in open[n].effect.drop["rules"] : RuleIn(i, s)
      /\ open[n].kind = "category" => \A i \in open[n].effect.drop["labels"] : InPoll(i[3], s)
  BY DEF Keeps, s
<1> QED BY <1>2, <1>3, <1>4 DEF Keeps

LEMMA GrowsSame ==
  ASSUME RequestsOK, SameAt("categories"), SameAt("rules"), serial' = serial
  PROVE  Grows /\ \A T \in {"categories", "rules"} : \A r : Stands(T, r)' => Stands(T, r)
<1>1. \A T \in {"categories", "rules"} : \A r : Stands(T, r)' => Stands(T, r)
  BY DEF Stands, SameAt
<1> QED BY <1>1 DEF Grows, RequestsOK

LEMMA GrowsOver ==
  ASSUME RequestsOK, NEW n \in DOMAIN open, Finish(n)
  PROVE  /\ Grows /\ \A T \in Tables : \A r : Stands(T, r)' => Stands(T, r)
         /\ serial' = serial /\ DOMAIN open' = DOMAIN open \ {n} /\ \A k \in DOMAIN open' : open'[k] = open[k]
<1>1. DOMAIN open' = DOMAIN open \ {n} /\ \A k \in DOMAIN open' : open'[k] = open[k]
  BY ClosedOpen DEF Finish, Commit
<1>2. ASSUME NEW T \in Tables, NEW r, Stands(T, r)' PROVE Stands(T, r)
  BY <1>1, <1>2, FinishSeen DEF Stands
<1>3. serial' = serial
  BY DEF Finish, Commit
<1> QED BY <1>1, <1>2, <1>3, AnswersThere DEF Grows, RequestsOK

LEMMA IsOfStands ==
  ASSUME OnePoll, NEW i, NEW p, IsOf(i, p)
  PROVE  InPoll(i, p)
BY DEF OnePoll, IsOf, Stands

LEMMA BooksWhenBegun ==
  ASSUME RequestsOK, BooksOK, NEW t, Begins(t), OfBooks(t)
  PROVE  Grows /\ BooksOK'
<1>1. /\ db' = db /\ serial' = serial + 1 /\ serial' \notin DOMAIN open
      /\ DOMAIN open' = DOMAIN open \cup {serial'} /\ open'[serial'] = t
      /\ \A k \in DOMAIN open : open'[k] = open[k]
  BY BeginSeen DEF Begins
<1>2. serial \in Nat /\ serial' \in Nat /\ serial < serial'
  BY <1>1 DEF RequestsOK
<1> DEFINE s == Subject(t)
<1>3. /\ \A k \in t.effect.put["categories"] : k.poll = s /\ (k.id = serial' \/ IsOf(k.id, s))
      /\ \A i \in t.effect.drop["categories"] : IsOf(i, s)
      /\ \A q \in t.effect.put["rules"] :
           /\ RuleRow(q) /\ IsOf(q.category, s)
           /\ q.id = serial' \/ \E x \in db["rules"] : x.id = q.id /\ x.category = q.category
           /\ \A x \in t.effect.put["rules"] : x = q
      /\ \A i \in t.effect.drop["rules"] : \E x \in db["rules"] : x.id = i /\ IsOf(x.category, s)
      /\ t.kind = "category" => \A i \in t.effect.drop["labels"] : IsOf(i[3], s)
  BY <1>1 DEF OfBooks
<1> HIDE DEF s
<1>4. \A T : \A r : Stands(T, r)' => Stands(T, r) \/ r \in t.effect.put[T]
  BY <1>1 DEF Stands
<1>5. Grows
  <2>1. ASSUME NEW k, Stands("categories", k)'
        PROVE  \/ \E j : Stands("categories", j) /\ j.id = k.id /\ j.poll = k.poll
               \/ k.id = serial'
    <3>1. CASE Stands("categories", k)
      BY <3>1
    <3>2. CASE k \in t.effect.put["categories"]
      BY <1>3, <3>2 DEF IsOf, Stands
    <3> QED BY <1>4, <2>1, <3>1, <3>2
  <2>2. ASSUME NEW q, Stands("rules", q)'
        PROVE  \/ \E x : Stands("rules", x) /\ x.id = q.id /\ x.category = q.category
               \/ q.id = serial'
    <3>1. CASE Stands("rules", q)
      BY <3>1
    <3>2. CASE q \in t.effect.put["rules"]
      BY <1>3, <3>2 DEF Stands
    <3> QED BY <1>4, <2>2, <3>1, <3>2
  <2> QED BY <1>2, <2>1, <2>2 DEF Grows
<1>6. \A i, p : IsOf(i, p) => InPoll(i, p) /\ InPoll(i, p)'
  BY <1>5, IsOfStands, InPollKept DEF BooksOK
<1>7. ASSUME NEW k, Stands("categories", k) PROVE InPoll(k.id, k.poll)' /\ k.id # serial'
  <2>1. InPoll(k.id, k.poll)
    BY <1>7 DEF BooksOK, OnePoll
  <2> QED BY <1>2, <1>5, <2>1, InPollKept DEF InPoll, Issued
<1>8. ASSUME NEW q, Stands("rules", q)
      PROVE  /\ RuleRow(q) /\ q.id # serial' /\ Issued(q.id)' /\ Issued(q.category)'
             /\ \A x : Stands("rules", x) /\ x.id = q.id => x.category = q.category
  <2>1. /\ RuleRow(q) /\ Issued(q.id) /\ Issued(q.category)
        /\ \A x : Stands("rules", x) /\ x.id = q.id => x.category = q.category
    BY <1>8 DEF BooksOK, OneCategory
  <2> QED BY <1>2, <2>1 DEF Issued
<1>9. OnePoll'
  <2> SUFFICES ASSUME NEW k, Stands("categories", k)' PROVE InPoll(k.id, k.poll)'
    BY DEF OnePoll
  <2>1. CASE Stands("categories", k)
    BY <1>7, <2>1
  <2>2. CASE k \in t.effect.put["categories"] /\ k.id # serial'
    BY <1>3, <1>6, <2>2
  <2>3. CASE k \in t.effect.put["categories"] /\ k.id = serial'
    <3>1. Issued(k.id)'
      BY <1>2, <2>3 DEF Issued
    <3>2. ASSUME NEW j, Stands("categories", j)', j.id = k.id PROVE j.poll = k.poll
      BY <1>3, <1>4, <1>7, <2>3, <3>2
    <3> QED BY <3>1, <3>2 DEF InPoll
  <2> QED BY <1>4, <2>1, <2>2, <2>3
<1>10. OneCategory'
  <2> SUFFICES ASSUME NEW q, Stands("rules", q)'
               PROVE  /\ RuleRow(q) /\ Issued(q.id)' /\ Issued(q.category)'
                      /\ \A x : Stands("rules", x)' /\ x.id = q.id => x.category = q.category
    BY DEF OneCategory
  <2>1. ASSUME NEW x \in t.effect.put["rules"], NEW y, Stands("rules", y), x.id = y.id PROVE x.category = y.category
    <3>1. PICK z \in db["rules"] : z.id = x.id /\ z.category = x.category
      BY <1>3, <1>8, <2>1
    <3> QED BY <1>8, <2>1, <3>1 DEF Stands
  <2>2. CASE Stands("rules", q)
    BY <1>4, <1>8, <2>1, <2>2
  <2>3. CASE q \in t.effect.put["rules"]
    <3>1. RuleRow(q) /\ Issued(q.category)'
      BY <1>3, <1>6, <2>3 DEF InPoll
    <3>2. Issued(q.id)'
      <4>1. CASE q.id = serial'
        BY <1>2, <4>1 DEF Issued
      <4>2. CASE \E x \in db["rules"] : x.id = q.id
        BY <1>8, <4>2 DEF Stands
      <4> QED BY <1>3, <2>3, <4>1, <4>2
    <3>3. ASSUME NEW x, Stands("rules", x)', x.id = q.id PROVE x.category = q.category
      BY <1>3, <1>4, <2>1, <2>3, <3>3
    <3> QED BY <3>1, <3>2, <3>3
  <2> QED BY <1>4, <2>2, <2>3
<1>11. ASSUME NEW n \in DOMAIN open' PROVE Keeps(n)'
  <2>1. CASE n \in DOMAIN open
    BY <1>1, <1>5, <2>1, KeepsKept DEF BooksOK
  <2>2. CASE n = serial'
    <3>1. \A i \in t.effect.drop["rules"] : RuleIn(i, s)'
      <4> SUFFICES ASSUME NEW i \in t.effect.drop["rules"] PROVE RuleIn(i, s)'
        OBVIOUS
      <4>1. PICK x \in db["rules"] : x.id = i /\ IsOf(x.category, s)
        BY <1>3
      <4>2. Stands("rules", x)
        BY DEF Stands
      <4>3. RuleIn(i, s)
        BY <1>6, <4>1, <4>2 DEF RuleIn, BooksOK, OneCategory
      <4> QED BY <1>5, <4>3, RuleInKept
    <3>2. /\ \A k \in t.effect.put["categories"] : k.poll = s
          /\ \A i \in t.effect.drop["categories"] : InPoll(i, s)'
          /\ \A q \in t.effect.put["rules"] : InPoll(q.category, s)'
          /\ t.kind = "category" => \A i \in t.effect.drop["labels"] : InPoll(i[3], s)'
      BY <1>3, <1>6
    <3>3. open'[n] = t
      BY <1>1, <2>2
    <3>4. Subject(open[n])' = s
      BY <3>3 DEF Subject, s
    <3> QED BY <3>1, <3>2, <3>3, <3>4 DEF Keeps
  <2> QED BY <1>1, <2>1, <2>2
<1> QED BY <1>5, <1>9, <1>10, <1>11 DEF BooksOK

\* The rows that stand stood before, and requests do what they did.
LEMMA BooksSame ==
  ASSUME BooksOK, Grows, DOMAIN open' \subseteq DOMAIN open,
         \A T \in {"categories", "rules"} : \A r : Stands(T, r)' => Stands(T, r),
         serial' = serial, \A n \in DOMAIN open' : Keeps(n)'
  PROVE  BooksOK'
<1>1. OnePoll'
  BY InPollKept DEF BooksOK, OnePoll
<1>2. OneCategory'
  BY DEF BooksOK, OneCategory, Issued
<1> QED BY <1>1, <1>2 DEF BooksOK

LEMMA NextBooks ==
  ASSUME RequestsOK, DefaultsOK, LabelsOK, BooksOK, [Next]_vars
  PROVE  BooksOK' /\ Grows
<1>1. ASSUME NEW t, Begins(t) PROVE BooksOK' /\ Grows
  BY <1>1, BooksBegin, BooksWhenBegun DEF BooksOK
<1>2. ASSUME NEW n \in DOMAIN open, Finish(n) PROVE BooksOK' /\ Grows
  <2>1. /\ Grows /\ \A T \in {"categories", "rules"} : \A r : Stands(T, r)' => Stands(T, r)
        /\ serial' = serial /\ DOMAIN open' = DOMAIN open \ {n} /\ \A k \in DOMAIN open' : open'[k] = open[k]
    BY <1>2, GrowsOver, AnswersThere
  <2>2. \A k \in DOMAIN open' : Keeps(k)'
    BY <2>1, KeepsKept DEF BooksOK
  <2> QED BY <2>1, <2>2, BooksSame
<1>3. ASSUME NEW n \in DOMAIN open, PollPhase(n) PROVE BooksOK' /\ Grows
  <2>1. /\ SameAt("categories") /\ SameAt("rules") /\ serial' = serial
        /\ DOMAIN open' = DOMAIN open /\ \A k \in DOMAIN open : k # n => open'[k] = open[k]
        /\ open[n].kind = "message"
    BY <1>3, FiledStep
  <2>2. Grows /\ \A T \in {"categories", "rules"} : \A r : Stands(T, r)' => Stands(T, r)
    BY <2>1, GrowsSame
  <2>3. ASSUME NEW k \in DOMAIN open' PROVE Keeps(k)'
    <3>1. /\ open'[k].kind = open[k].kind /\ open'[k].on = open[k].on
          /\ \A T \in {"categories", "rules"} : /\ open'[k].effect.put[T] = open[k].effect.put[T]
                                                /\ open'[k].effect.drop[T] = open[k].effect.drop[T]
      BY <2>1, <2>3 DEF SameAt
    <3> QED BY <2>1, <2>2, <2>3, <3>1, KeepsKept DEF BooksOK
  <2> QED BY <2>1, <2>2, <2>3, BooksSame
<1>4. CASE Still
  <2>1. SameAt("categories") /\ SameAt("rules") /\ SameAt("labels") /\ serial' = serial /\ DOMAIN open' \subseteq DOMAIN open
    BY <1>4 DEF Still, AnswerTables, SameAt
  <2>2. Grows /\ \A T \in {"categories", "rules"} : \A r : Stands(T, r)' => Stands(T, r)
    BY <2>1, GrowsSame
  <2>3. ASSUME NEW k \in DOMAIN open' PROVE Keeps(k)'
    <3>1. /\ open'[k].kind = open[k].kind /\ open'[k].on = open[k].on
          /\ open'[k].effect.drop["labels"] = open[k].effect.drop["labels"]
          /\ \A T \in {"categories", "rules"} : /\ open'[k].effect.put[T] = open[k].effect.put[T]
                                                /\ open'[k].effect.drop[T] = open[k].effect.drop[T]
      BY <2>1, <2>3 DEF SameAt
    <3> QED BY <2>1, <2>2, <2>3, <3>1, KeepsKept DEF BooksOK
  <2> QED BY <2>1, <2>2, <2>3, BooksSame
<1> QED BY <1>1, <1>2, <1>3, <1>4, AnswerSteps

-----------------------------------------------------------------------------
(***************************************************************************)
(* What a response is classified by.                                       *)
(***************************************************************************)

\* Two databases have the same categories and rules of a poll.
SameBooks(d, d2, p) == CategoriesOf(d, p) = CategoriesOf(d2, p) /\ RulesOf(d, p) = RulesOf(d2, p)

Bare(d, p) == CategoriesOf(d, p) = {}

\* What the labels put a response into.
Into(L, i) == {l.category : l \in {x \in L : x.response = i}}

\* A response that is in the categories K is where the rules put it.
RulesGive(d, r) == OrDefault(d, r.poll, Matching(d, r.poll, r.text))
Agrees(d, r, K) == K = RulesGive(d, r) /\ r.errors = (K \cap Errors(d, r.poll) # {})

LEMMA AgreesSame ==
  ASSUME NEW d, NEW d2, NEW r, NEW K, SameBooks(d, d2, r.poll), Agrees(d, r, K)
  PROVE  Agrees(d2, r, K)
<1>1. RulesGive(d, r) = RulesGive(d2, r)
  BY DEF SameBooks, RulesGive, OrDefault, Matching, Defaults
<1>2. Errors(d, r.poll) = Errors(d2, r.poll)
  BY DEF SameBooks, Errors
<1> HIDE DEF RulesGive, Errors
<1> QED BY <1>1, <1>2 DEF Agrees

\* The rules put a response into categories of its poll.
LEMMA GivenIs ==
  ASSUME NEW d, NEW r, NEW k \in RulesGive(d, r)
  PROVE  \E c \in d["categories"] : c.id = k /\ c.poll = r.poll
<1>1. CASE k \in Matching(d, r.poll, r.text)
  BY <1>1 DEF Matching, RulesOf, CategoriesOf
<1>2. CASE k \in Defaults(d, r.poll)
  BY <1>2 DEF Defaults, CategoriesOf
<1> QED BY <1>1, <1>2 DEF RulesGive, OrDefault

\* A poll without categories has no response in one, or in error.
LEMMA AgreesBare ==
  ASSUME NEW d, NEW r, Bare(d, r.poll), r.errors = FALSE
  PROVE  Agrees(d, r, {})
<1>1. RulesGive(d, r) = {}
  BY GivenIs DEF Bare, CategoriesOf
<1> HIDE DEF RulesGive
<1> QED BY <1>1 DEF Agrees

\* What leaves the categories alone makes the same rules of the same.
LEMMA BooksAfter ==
  ASSUME NEW d, NEW d2, NEW e, NEW p, SameBooks(d, d2, p), e.put["categories"] = {}, e.drop["categories"] = {}
  PROVE  SameBooks(After(d, e), After(d2, e), p)
<1>1. \A c : c \in After(d, e)["categories"] <=> c \in d["categories"]
  BY AnswersThere, AfterUntouched
<1>2. \A c : c \in After(d2, e)["categories"] <=> c \in d2["categories"]
  BY AnswersThere, AfterUntouched
<1>3. CategoriesOf(After(d, e), p) = CategoriesOf(d, p) /\ CategoriesOf(After(d2, e), p) = CategoriesOf(d2, p)
  BY <1>1, <1>2 DEF CategoriesOf
<1>4. CategoriesOf(d, p) = CategoriesOf(d2, p) /\ RulesOf(d, p) = RulesOf(d2, p)
  BY DEF SameBooks
<1> DEFINE of(q) == \E k \in CategoriesOf(d, p) : q.category = k.id
<1>5. \A q : of(q) => (q \in d["rules"] <=> q \in d2["rules"])
  BY <1>4 DEF RulesOf
<1>6. RulesOf(After(d, e), p) = {q \in After(d, e)["rules"] : of(q)}
  BY <1>3 DEF RulesOf
<1>7. RulesOf(After(d2, e), p) = {q \in After(d2, e)["rules"] : of(q)}
  BY <1>3, <1>4 DEF RulesOf
<1> HIDE DEF of
<1>8. \A q : of(q) => (q \in After(d, e)["rules"] <=> q \in After(d2, e)["rules"])
  BY <1>5, AnswersThere, AfterIs
<1> QED BY <1>3, <1>4, <1>6, <1>7, <1>8 DEF SameBooks

LEMMA BooksEqual ==
  ASSUME NEW d, NEW d2, NEW p, d["categories"] = d2["categories"], d["rules"] = d2["rules"]
  PROVE  SameBooks(d, d2, p)
BY DEF SameBooks, CategoriesOf, RulesOf

-----------------------------------------------------------------------------
(***************************************************************************)
(* The responses whose labels a request writes.                            *)
(***************************************************************************)

\* The labels that a request writes are new, and of its own response, of the
\* one it edits, or of those that it judges; it takes away those of these, or of
\* responses that go with them.
Scoped(n, t) ==
  LET put == t.effect.put  drop == t.effect.drop
  IN /\ \A l \in put["labels"] : l.id \in t.effect.made["labels"]
     /\ t.kind = "message" => \A l \in put["labels"] : l.response = n
     /\ t.kind \in {"message", "remove", "erase", "poll"} => \A i \in drop["labels"] : i[2] \in drop["responses"]
     /\ t.kind = "remove" => drop["categories"] = {} /\ drop["rules"] = {}
     /\ t.kind = "edit" => /\ t.notes = {<<"edited", t.on>>}
                           /\ \A l \in put["labels"] : l.response = t.on
                           /\ \A i \in drop["labels"] : i[2] = t.on
                           /\ \A r \in put["responses"] : r.id = t.on
     /\ t.kind = "rules" => /\ t.on \in PollIds /\ t.writes = {<<"rules", t.on>>}
                            /\ \A r \in put["responses"] : r.poll = t.on
                            /\ \A l \in put["labels"] : l.response \in Ids(put["responses"])
                            /\ \A i \in drop["labels"] : i[2] \in Ids(put["responses"])
     /\ t.kind = "category" => t.notes = {<<"recategorised", t.on>>}

ScopesOK == \A n \in DOMAIN open : Scoped(n, open[n])

\* The labels that an effect puts are new.
NewLabels(e) == \A l \in e.put["labels"] : l.id \in e.made["labels"]

LEMMA NewLabelsBasic ==
  ASSUME NEW R, NEW T \in Tables
  PROVE  /\ NewLabels(NoEffect) /\ NewLabels(Deleted(T, R)) /\ NewLabels(Inserted("labels", R))
         /\ T # "labels" => NewLabels(Inserted(T, R)) /\ NewLabels(Saved(T, R))
<1>1. NewLabels(NoEffect) /\ NewLabels(Deleted(T, R))
  BY AnswersThere, PutBasic DEF NewLabels
<1>2. T # "labels" => NewLabels(Inserted(T, R)) /\ NewLabels(Saved(T, R))
  BY AnswersThere, PutBasic DEF NewLabels
<1>3. Inserted("labels", R).put["labels"] = R /\ Inserted("labels", R).made["labels"] = Ids(R)
  BY AnswersThere DEF Inserted, NoEffect
<1>4. \A l \in R : l.id \in Ids(R)
  BY DEF Ids
<1> QED BY <1>1, <1>2, <1>3, <1>4 DEF NewLabels

LEMMA NewLabelsThen ==
  ASSUME NEW e, NEW f, NewLabels(e), NewLabels(f)
  PROVE  NewLabels(Then(e, f))
<1>1. Then(e, f).made["labels"] = e.made["labels"] \cup f.made["labels"]
  BY AnswersThere DEF Then
<1> QED BY <1>1, AnswersThere, PutRow DEF NewLabels

LEMMA ProcessNew ==
  ASSUME NEW d, NEW n, NEW p, NEW c, NEW words
  PROVE  NewLabels(process_response(d, n, p, c, words))
<1> DEFINE found == IF p.type = "text" THEN Matching(d, p.id, words) ELSE {}
           cats == OrDefault(d, p.id, found)
           bad == cats \cap Errors(d, p.id) # {} \/ (p.type = "numeric" /\ ~Plausible(words))
           L == Inserted("labels", {Label(n, n, k, FALSE) : k \in cats})
<1>1. process_response(d, n, p, c, words) =
        IF Raises(d, p.id, found) THEN Response(n, p, c, words, FALSE) ELSE Then(Response(n, p, c, words, bad), L)
  BY Zenon DEF process_response
<1>2. \A b : NewLabels(Response(n, p, c, words, b))
  BY AnswersThere, NewLabelsBasic DEF Response
<1>3. NewLabels(L)
  BY AnswersThere, NewLabelsBasic
<1> HIDE DEF L, found, bad
<1> QED BY <1>1, <1>2, <1>3, NewLabelsThen

LEMMA ErasedNew ==
  ASSUME NEW d, NEW R
  PROVE  NewLabels(Erased(d, R))
BY AnswersThere, NewLabelsBasic, NewLabelsThen DEF Erased

LEMMA ReprocessNew ==
  ASSUME NEW d, NEW n, NEW p
  PROVE  NewLabels(reprocess_responses(d, n, p))
<1> DEFINE all == PollResponses(d, p)
           cats(r) == OrDefault(d, p, Overrides(d, r) \cup Matching(d, p, r.text)) \ Overrides(d, r)
           D == Deleted("labels", {l \in LabelsOf(d, all) : ~l.override})
           L == Inserted("labels", UNION {{Label(n, r.id, k, FALSE) : k \in cats(r)} : r \in all})
           S == Saved("responses", {[r EXCEPT !.errors = cats(r) \cap Errors(d, p) # {}] : r \in all})
<1>1. reprocess_responses(d, n, p) = Then(D, Then(L, S))
  BY Zenon DEF reprocess_responses
<1>2. NewLabels(D) /\ NewLabels(L) /\ NewLabels(S)
  BY AnswersThere, NewLabelsBasic
<1> HIDE DEF D, L, S
<1> QED BY <1>1, <1>2, NewLabelsThen

LEMMA EditNew ==
  ASSUME RequestsOK, NEW t, Begins(t), t.kind = "edit"
  PROVE  NewLabels(t.effect)
<1>1. Begin(t) /\ EditResponse
  BY DEF Begins, BegunBy
<1> DEFINE O(r) == Deleted("labels", LabelsOf(db, {r}))
           L(r, C) == Inserted("labels", {Label(serial + 1, r.id, k.id, TRUE) : k \in C})
           S(r) == Saved("responses", {r})
           f(r, C) == Then(O(r), Then(L(r, C), S(r)))
<1>2. PICK r \in db["responses"] : \E C \in SUBSET CategoriesOf(db, r.poll) :
        Begin(Request("edit", r.id, "written", f(r, C), {<<"rules", r.poll>>}, {<<"person", r.conn>>}, {<<"edited", r.id>>}))
  BY <1>1, Zenon DEF EditResponse
<1>3. PICK C \in SUBSET CategoriesOf(db, r.poll) :
        Begin(Request("edit", r.id, "written", f(r, C), {<<"rules", r.poll>>}, {<<"person", r.conn>>}, {<<"edited", r.id>>}))
  BY <1>2
<1>4. NewLabels(O(r)) /\ NewLabels(L(r, C)) /\ NewLabels(S(r))
  BY AnswersThere, NewLabelsBasic
<1> HIDE DEF O, L, S
<1>5. NewLabels(f(r, C))
  BY <1>4, NewLabelsThen
<1> HIDE DEF f
<1>6. t = Request("edit", r.id, "written", f(r, C), {<<"rules", r.poll>>}, {<<"person", r.conn>>}, {<<"edited", r.id>>})
  BY <1>1, <1>3, BeginOne
<1> QED BY <1>5, <1>6, RequestIs

LEMMA LabelRowIs ==
  ASSUME LabelRows, NEW l \in db["labels"]
  PROVE  l.id[1] \in Nat /\ l.id[2] = l.response /\ l.id[3] = l.category /\ Past(l.id[1])
<1>1. PICK n, r, k, o : l = Label(n, r, k, o) /\ Past(n)
  BY DEF LabelRows
<1> QED BY <1>1 DEF Label, Past

LEMMA LabelsOfIds ==
  ASSUME LabelRows, NEW R, NEW i \in Ids(LabelsOf(db, R))
  PROVE  i[2] \in Ids(R)
<1>1. PICK l \in LabelsOf(db, R) : i = l.id
  BY DEF Ids
<1>2. PICK r \in R : l \in db["labels"] /\ l.response = r.id
  BY <1>1 DEF LabelsOf
<1>3. i[2] = r.id
  BY <1>1, <1>2, LabelRowIs
<1> QED BY <1>3 DEF Ids

\* What a change of a poll's rules writes.
Rejudges(t, p, e, d) ==
  LET R == PollResponses(db, p)
  IN /\ d = After(db, e) /\ OneRule(e, serial + 1, p)
     /\ d["responses"] = db["responses"] /\ d["labels"] = db["labels"] /\ d["categories"] = db["categories"]
     /\ t.effect.put["responses"] = {Judged(d, p, r) : r \in R} /\ t.effect.drop["responses"] = {}
     /\ t.effect.put["labels"] = UNION {RuleLabels(serial + 1, r.id, Again(d, p, r)) : r \in R}
     /\ t.effect.drop["labels"] = Ids({l \in LabelsOf(db, R) : ~l.override})
     /\ t.effect.put["rules"] = e.put["rules"] /\ e.made["rules"] \subseteq t.effect.made["rules"]
     /\ After(db, t.effect)["categories"] = d["categories"] /\ After(db, t.effect)["rules"] = d["rules"]
     /\ NewLabels(t.effect) /\ t.on = p /\ t.writes = {<<"rules", p>>}

LEMMA RulesWrites ==
  ASSUME RequestsOK, NEW t, Begins(t), t.kind = "rules"
  PROVE  \E p \in TextPolls : \E e, d : Rejudges(t, p.id, e, d)
<1>1. PICK p \in TextPolls : \E e :
         LET d == After(db, e)
         IN /\ Within(e, {"rules"}, {"rules"}) /\ OneRule(e, serial + 1, p.id)
            /\ d["responses"] = db["responses"] /\ d["labels"] = db["labels"] /\ d["categories"] = db["categories"]
            /\ t.effect = Then(e, reprocess_responses(d, serial + 1, p.id))
            /\ t.on = p.id /\ t.writes = {<<"rules", p.id>>}
  BY RulesBegin
<1>2. PICK e, d : /\ d = After(db, e) /\ Within(e, {"rules"}, {"rules"}) /\ OneRule(e, serial + 1, p.id)
                  /\ d["responses"] = db["responses"] /\ d["labels"] = db["labels"] /\ d["categories"] = db["categories"]
                  /\ t.effect = Then(e, reprocess_responses(d, serial + 1, p.id))
                  /\ t.on = p.id /\ t.writes = {<<"rules", p.id>>}
  BY <1>1
<1>3. PICK f : f = reprocess_responses(d, serial + 1, p.id)
  OBVIOUS
<1> DEFINE R == PollResponses(d, p.id)
<1>4. PollResponses(d, p.id) = PollResponses(db, p.id)
  BY <1>2 DEF PollResponses
<1>5. LabelsOf(d, R) = LabelsOf(db, R)
  BY <1>2 DEF LabelsOf
<1>6. /\ f.put["responses"] = {Judged(d, p.id, r) : r \in R} /\ f.drop["responses"] = {}
      /\ f.put["labels"] = UNION {RuleLabels(serial + 1, r.id, Again(d, p.id, r)) : r \in R}
      /\ f.drop["labels"] = Ids({l \in LabelsOf(d, R) : ~l.override})
  <2>1. /\ f.put["responses"] = {Judged(d, p.id, r) : r \in PollResponses(d, p.id)} /\ f.drop["responses"] = {}
        /\ f.put["labels"] = UNION {RuleLabels(serial + 1, r.id, Again(d, p.id, r)) : r \in PollResponses(d, p.id)}
        /\ f.drop["labels"] = Ids({l \in LabelsOf(d, PollResponses(d, p.id)) : ~l.override})
    BY <1>3, ReprocessIs
  <2> QED BY <2>1, Zenon
<1> HIDE DEF R
<1>7. Within(f, {"labels", "responses"}, {"labels"}) /\ NewLabels(f)
  BY <1>3, ReprocessWithin, ReprocessNew
<1>8. /\ \A T \in {"responses", "labels", "categories"} : e.put[T] = {} /\ e.drop[T] = {}
      /\ \A T \in {"rules", "categories"} : f.put[T] = {} /\ f.drop[T] = {}
  BY <1>2, <1>7, AnswersThere DEF Within
<1>9. t.effect = Then(e, f)
  BY <1>2, <1>3
<1>10. /\ \A T \in {"responses", "labels"} : t.effect.put[T] = f.put[T] /\ t.effect.drop[T] = f.drop[T]
       /\ t.effect.put["rules"] = e.put["rules"] /\ e.made["rules"] \subseteq t.effect.made["rules"]
  <2>1. ASSUME NEW T \in {"responses", "labels"} PROVE t.effect.put[T] = f.put[T] /\ t.effect.drop[T] = f.drop[T]
    <3>1. /\ \A r : r \in t.effect.put[T] <=> r \in f.put[T]
          /\ \A i : i \in t.effect.drop[T] <=> i \in f.drop[T]
      BY <1>8, <1>9, AnswersThere, ThenIs
    <3> QED BY <3>1
  <2>2. t.effect.put["rules"] = e.put["rules"]
    <3>1. \A r : r \in t.effect.put["rules"] <=> r \in e.put["rules"]
      BY <1>8, <1>9, AnswersThere, ThenIs
    <3> QED BY <3>1
  <2>3. e.made["rules"] \subseteq t.effect.made["rules"]
    BY <1>9, AnswersThere DEF Then
  <2> QED BY <2>1, <2>2, <2>3
<1>11. After(db, t.effect)["categories"] = d["categories"] /\ After(db, t.effect)["rules"] = d["rules"]
  BY <1>2, <1>8, <1>9, AnswersThere, ThenUntouched
<1>12. NewLabels(t.effect)
  <2>1. NewLabels(e)
    BY <1>8 DEF NewLabels
  <2> QED BY <1>7, <1>9, <2>1, NewLabelsThen
<1>13. Rejudges(t, p.id, e, d)
  <2>1. R = PollResponses(db, p.id)
    BY <1>4 DEF R
  <2>2. /\ t.effect.put["responses"] = {Judged(d, p.id, r) : r \in R} /\ t.effect.drop["responses"] = {}
        /\ t.effect.put["labels"] = UNION {RuleLabels(serial + 1, r.id, Again(d, p.id, r)) : r \in R}
        /\ t.effect.drop["labels"] = Ids({l \in LabelsOf(db, R) : ~l.override})
    BY <1>5, <1>6, <1>10
  <2> QED BY <1>2, <1>10, <1>11, <1>12, <2>1, <2>2, Zenon DEF Rejudges
<1> QED BY <1>13

LEMMA RulesScoped ==
  ASSUME RequestsOK, LabelRows, ResponseRows, NEW t, Begins(t), t.kind = "rules"
  PROVE  Scoped(serial + 1, t)
<1>1. PICK p \in TextPolls : \E e, d : Rejudges(t, p.id, e, d)
  BY RulesWrites
<1>2. PICK e, d : Rejudges(t, p.id, e, d)
  BY <1>1
<1> DEFINE R == PollResponses(db, p.id)
<1>3. /\ t.effect.put["responses"] = {Judged(d, p.id, r) : r \in R}
      /\ t.effect.put["labels"] = UNION {RuleLabels(serial + 1, r.id, Again(d, p.id, r)) : r \in R}
      /\ t.effect.drop["labels"] = Ids({l \in LabelsOf(db, R) : ~l.override})
      /\ NewLabels(t.effect) /\ t.on = p.id /\ t.writes = {<<"rules", p.id>>}
  BY <1>2, Zenon DEF Rejudges
<1>4. p.id \in PollIds
  BY DEF TextPolls, RequestsOK, PollTable, Poll
<1>5. \A r \in R : Judged(d, p.id, r).id = r.id /\ Judged(d, p.id, r).poll = p.id
  <2> SUFFICES ASSUME NEW r \in R PROVE Judged(d, p.id, r).id = r.id /\ Judged(d, p.id, r).poll = p.id
    OBVIOUS
  <2>1. ResponseRow(r) /\ r.poll = p.id
    BY DEF R, PollResponses, ResponseRows
  <2> QED BY <2>1, JudgedIs DEF SameAnswer
<1> HIDE DEF R
<1>6. \A r \in R : r.id \in Ids(t.effect.put["responses"])
  BY <1>3, <1>5 DEF Ids
<1>7. \A r \in t.effect.put["responses"] : r.poll = p.id
  BY <1>3, <1>5
<1>8. \A l \in t.effect.put["labels"] : l.response \in Ids(t.effect.put["responses"])
  <2> SUFFICES ASSUME NEW l \in t.effect.put["labels"] PROVE l.response \in Ids(t.effect.put["responses"])
    OBVIOUS
  <2>1. PICK r \in R : l \in RuleLabels(serial + 1, r.id, Again(d, p.id, r))
    BY <1>3
  <2>2. \E k : l = Label(serial + 1, r.id, k, FALSE)
    BY <2>1 DEF RuleLabels
  <2>3. l.response = r.id
    BY <2>2 DEF Label
  <2> QED BY <1>6, <2>3
<1>9. \A i \in t.effect.drop["labels"] : i[2] \in Ids(t.effect.put["responses"])
  <2> SUFFICES ASSUME NEW i \in t.effect.drop["labels"] PROVE i[2] \in Ids(t.effect.put["responses"])
    OBVIOUS
  <2>1. i \in Ids(LabelsOf(db, R))
    BY <1>3 DEF Ids
  <2>2. i[2] \in Ids(R)
    BY <2>1, LabelsOfIds
  <2> QED BY <1>6, <2>2 DEF Ids
<1> QED BY <1>3, <1>4, <1>7, <1>8, <1>9 DEF Scoped, NewLabels

LEMMA ScopedBegins ==
  ASSUME RequestsOK, LabelRows, ResponseRows, NEW t, Begins(t)
  PROVE  Scoped(serial + 1, t)
<1>1. Own(t) /\ t.kind \in DOMAIN Puts
  BY DEF Begins, Own
<1> DEFINE put == t.effect.put
           drop == t.effect.drop
<1>2. CASE t.kind = "message"
  <2>1. put["labels"] = {} /\ drop["labels"] = {}
    BY <1>2, MessageUnanswered DEF Unanswered, AppPuts
  <2> QED BY <1>2, <2>1 DEF Scoped
<1>3. CASE t.kind = "remove"
  <2>1. /\ drop["responses"] = Ids(OfConnection(db, "responses", t.on))
        /\ drop["labels"] = Ids(LabelsOf(db, OfConnection(db, "responses", t.on)))
        /\ drop["categories"] = Ids(OfConnection(db, "categories", t.on))
        /\ drop["rules"] = Ids(OfConnection(db, "rules", t.on))
    BY <1>3, RemovalIs, AnswersThere
  <2>2. drop["categories"] = {} /\ drop["rules"] = {}
    BY <2>1 DEF OfConnection, Ids
  <2>3. put["labels"] = {}
    BY <1>1, <1>3, AnswersThere DEF Own, Within, Puts
  <2> QED BY <1>3, <2>1, <2>2, <2>3, LabelsOfIds DEF Scoped
<1>4. CASE t.kind = "erase"
  <2>1. PICK r \in db["responses"] : drop["responses"] = {r.id} /\ drop["labels"] = Ids(LabelsOf(db, {r}))
    BY <1>4, EraseBegins
  <2>2. Ids({r}) = {r.id}
    BY DEF Ids
  <2>3. put["labels"] = {}
    BY <1>1, <1>4, AnswersThere DEF Own, Within, Puts
  <2> QED BY <1>4, <2>1, <2>2, <2>3, LabelsOfIds DEF Scoped
<1>5. CASE t.kind = "poll"
  <2>1. \/ drop["labels"] = {}
        \/ \E R : drop["labels"] = Ids(LabelsOf(db, R)) /\ drop["responses"] = Ids(R)
    BY <1>5, PollBegins DEF AnswerTables
  <2>2. put["labels"] = {}
    BY <1>1, <1>5, AnswersThere DEF Own, Within, Puts
  <2> QED BY <1>5, <2>1, <2>2, LabelsOfIds DEF Scoped
<1>6. CASE t.kind = "edit"
  <2>1. PICK r \in db["responses"] : \E C \in SUBSET CategoriesOf(db, r.poll) :
           /\ t.effect.put["responses"] = {r}
           /\ t.effect.put["labels"] = {Label(serial + 1, r.id, k.id, TRUE) : k \in C}
           /\ t.effect.drop["labels"] = Ids(LabelsOf(db, {r}))
           /\ t.on = r.id /\ t.notes = {<<"edited", r.id>>}
    BY <1>6, EditBegins, Zenon
  <2>2. Ids({r}) = {r.id}
    BY DEF Ids
  <2>3. \A l \in put["labels"] : l.response = r.id
    BY <2>1 DEF Label
  <2>4. \A i \in drop["labels"] : i[2] = r.id
    BY <2>1, <2>2, LabelsOfIds
  <2> QED BY <1>6, <2>1, <2>3, <2>4, EditNew DEF Scoped, NewLabels
<1>7. CASE t.kind = "category"
  <2>1. PICK p : t.on = p /\ t.notes = {<<"recategorised", p>>}
    BY <1>7, RecategoriseBegins
  <2>2. put["labels"] = {}
    BY <1>1, <1>7, AnswersThere DEF Own, Within, Puts
  <2> QED BY <1>7, <2>1, <2>2 DEF Scoped
<1>8. CASE t.kind \notin {"message", "remove", "poll", "rules", "category", "edit", "erase"}
  <2>1. "labels" \notin Puts[t.kind]
    BY <1>1, <1>8 DEF Own, Puts, RosterTables
  <2>2. put["labels"] = {}
    BY <1>1, <2>1, AnswersThere DEF Own, Within
  <2> QED BY <1>8, <2>2 DEF Scoped
<1>9. CASE t.kind = "rules"
  BY <1>9, RulesScoped
<1> QED BY <1>2, <1>3, <1>4, <1>5, <1>6, <1>7, <1>8, <1>9

\* The categories that the poll app files an answer into.
LEMMA FiledLabels ==
  ASSUME NEW d, NEW n, NEW c, NEW words, NEW e, NEW p, Filing(d, n, c, words, e, p),
         \A l \in d["labels"] : l.id[1] # n
  PROVE  /\ e.put["labels"] = IF Stuck(d, p, words) THEN {} ELSE RuleLabels(n, n, Filed(d, p, words))
         /\ NewLabels(e)
<1>1. PICK mine : mine = process_response(d, n, p, c, words)
  OBVIOUS
<1> DEFINE L == IF Stuck(d, p, words) THEN {} ELSE RuleLabels(n, n, Filed(d, p, words))
<1>2. mine.put["labels"] = L /\ NewLabels(mine)
  BY <1>1, ProcessIs, ProcessNew
<1>3. \A l \in L : l.id[1] = n
  BY DEF RuleLabels, Label
<1>4. e = mine \/ \E r : e = Then(mine, Erased(d, {r}))
  BY <1>1 DEF Filing
<1> HIDE DEF L
<1>5. ASSUME NEW r, e = Then(mine, Erased(d, {r})) PROVE e.put["labels"] = L /\ NewLabels(e)
  <2>1. PICK f : f = Erased(d, {r})
    OBVIOUS
  <2>2. f.put["labels"] = {} /\ f.drop["labels"] = Ids(LabelsOf(d, {r})) /\ NewLabels(f)
    BY <2>1, AnswersThere, ErasedIs, ErasedNew
  <2>3. \A i \in f.drop["labels"] : i[1] # n
    BY <2>2 DEF Ids, LabelsOf
  <2>4. \A l : l \in e.put["labels"] <=> l \in L
    <3>1. \A l \in L : l.id \notin f.drop["labels"]
      BY <1>3, <2>3
    <3>2. e = Then(mine, f)
      BY <1>5, <2>1
    <3> QED BY <1>2, <2>2, <3>1, <3>2, AnswersThere, ThenIs
  <2>5. NewLabels(e)
    BY <1>2, <1>5, <2>1, <2>2, NewLabelsThen
  <2> QED BY <2>4, <2>5
<1> QED BY <1>2, <1>4, <1>5 DEF L

\* A message's answer, when the poll app files it.
LEMMA FiledIs ==
  ASSUME RequestsOK, WaitsOK, ResponseRows, LabelRows, NEW n \in DOMAIN open, PollPhase(n)
  PROVE  \E e, place :
           /\ Adds(n, e, place) /\ NewLabels(open'[n].effect)
           /\ \/ e = NoEffect
              \/ \E p, new :
                   LET c == open[n].on.conn  words == open[n].on.text.words
                   IN /\ Files(n, e, p, c, new) /\ new = Answer(Seen(n), n, p, c, words)
                      /\ e.put["labels"] = IF Stuck(Seen(n), p, words) THEN {} ELSE RuleLabels(n, n, Filed(Seen(n), p, words))
<1>1. PICK e, place : /\ Adds(n, e, place)
                      /\ e = NoEffect \/ \E p, new : Files(n, e, p, open[n].on.conn, new)
  BY PollFiles
<1> DEFINE c == open[n].on.conn
           words == open[n].on.text.words
<1>2. PICK d : d = Seen(n)
  OBVIOUS
<1>3. /\ open[n].kind = "message" /\ Unanswered(open[n]) /\ open'[n].effect = Then(open[n].effect, e)
      /\ d["responses"] = db["responses"] /\ d["labels"] = db["labels"]
  BY <1>1, <1>2 DEF Adds
<1>4. (\A r \in d["responses"] : r.id # n) /\ (\A l \in d["labels"] : l.id[1] # n)
  BY <1>3, LabelRowIs DEF ResponseRows, Past
<1>5. NewLabels(open[n].effect)
  BY <1>3 DEF NewLabels, Unanswered, AppPuts
<1>6. CASE e = NoEffect
  <2>1. NewLabels(e)
    BY <1>6, AnswersThere, NewLabelsBasic
  <2> QED BY <1>1, <1>3, <1>5, <1>6, <2>1, NewLabelsThen
<1>7. ASSUME NEW p, NEW x, Files(n, e, p, c, x)
      PROVE  /\ NewLabels(open'[n].effect) /\ x = Answer(d, n, p, c, words)
             /\ e.put["labels"] = IF Stuck(d, p, words) THEN {} ELSE RuleLabels(n, n, Filed(d, p, words))
  <2> HIDE DEF c, words
  <2>1. Filing(d, n, c, words, e, p) /\ e.put["responses"] = {x}
    BY <1>2, <1>7 DEF Files, words
  <2>2. PICK new : new = Answer(d, n, p, c, words)
    OBVIOUS
  <2>3. Writes(d, n, c, e, p, new)
    BY <1>4, <2>1, <2>2, FilingIs
  <2>4. x = new
    BY <2>1, <2>3 DEF Writes
  <2>5. /\ e.put["labels"] = IF Stuck(d, p, words) THEN {} ELSE RuleLabels(n, n, Filed(d, p, words))
        /\ NewLabels(e)
    BY <1>4, <2>1, FiledLabels
  <2>6. NewLabels(open'[n].effect)
    BY <1>3, <1>5, <2>5, NewLabelsThen
  <2> QED BY <2>2, <2>4, <2>5, <2>6
<1>8. CASE e # NoEffect
  <2>1. PICK p, x : Files(n, e, p, c, x)
    BY <1>1, <1>8
  <2> QED BY <1>1, <1>2, <1>7, <2>1
<1> QED BY <1>6, <1>8

LEMMA NextScopes ==
  ASSUME RequestsOK, WaitsOK, Owning, ResponsesOK, LabelsOK, ScopesOK, [Next]_vars
  PROVE  ScopesOK'
<1>1. ASSUME NEW t, Begins(t) PROVE ScopesOK'
  <2>1. Scoped(serial + 1, t)
    BY <1>1, ScopedBegins DEF LabelsOK, ResponsesOK
  <2>2. /\ serial' = serial + 1 /\ DOMAIN open' = DOMAIN open \cup {serial'} /\ open'[serial'] = t
        /\ \A k \in DOMAIN open : open'[k] = open[k]
    BY <1>1, BeginSeen DEF Begins
  <2>3. ASSUME NEW k \in DOMAIN open' PROVE Scoped(k, open'[k])
    BY <2>1, <2>2 DEF ScopesOK
  <2> QED BY <2>3 DEF ScopesOK, Scoped
<1>2. ASSUME NEW n \in DOMAIN open, Finish(n) PROVE ScopesOK'
  <2>1. DOMAIN open' = DOMAIN open \ {n} /\ \A k \in DOMAIN open' : open'[k] = open[k]
    BY <1>2, GrowsOver
  <2> QED BY <2>1 DEF ScopesOK, Scoped
<1>3. ASSUME NEW n \in DOMAIN open, PollPhase(n) PROVE ScopesOK'
  <2>1. PICK e, place :
          /\ Adds(n, e, place) /\ NewLabels(open'[n].effect)
          /\ e = NoEffect \/ \E p, new : Files(n, e, p, open[n].on.conn, new)
    BY <1>3, FiledIs DEF ResponsesOK, LabelsOK
  <2>2. /\ DOMAIN open' = DOMAIN open /\ open'[n].kind = "message"
        /\ \A k \in DOMAIN open : k # n => open'[k] = open[k]
        /\ open'[n].effect.put["labels"] = e.put["labels"]
        /\ open'[n].effect.drop["labels"] = e.drop["labels"]
        /\ open'[n].effect.drop["responses"] = e.drop["responses"]
    BY <2>1 DEF Adds, AppPuts
  <2>3. \A l \in e.put["labels"] : l.response = n
    <3>1. CASE e = NoEffect
      BY <3>1, AnswersThere, NoEffectAt
    <3>2. CASE \E p, new : Files(n, e, p, open[n].on.conn, new)
      BY <3>2 DEF Files, OfRule, Label
    <3> QED BY <2>1, <3>1, <3>2
  <2>4. \A i \in e.drop["labels"] : i[2] \in e.drop["responses"]
    <3>1. CASE e = NoEffect
      BY <3>1, AnswersThere, NoEffectAt
    <3>2. ASSUME NEW p, NEW new, Files(n, e, p, open[n].on.conn, new), NEW i \in e.drop["labels"]
          PROVE i[2] \in e.drop["responses"]
      <4>1. PICK r \in db["responses"] : e.drop["responses"] = {r.id} /\ e.drop["labels"] = Ids(LabelsOf(db, {r}))
        BY <3>2 DEF Files
      <4>2. Ids({r}) = {r.id}
        BY DEF Ids
      <4> QED BY <3>2, <4>1, <4>2, LabelsOfIds DEF LabelsOK
    <3> QED BY <2>1, <3>1, <3>2
  <2>5. Scoped(n, open'[n])
    BY <2>1, <2>2, <2>3, <2>4 DEF Scoped, NewLabels
  <2>6. ASSUME NEW k \in DOMAIN open' PROVE Scoped(k, open'[k])
    BY <2>2, <2>5 DEF ScopesOK
  <2> QED BY <2>6 DEF ScopesOK, Scoped
<1>4. CASE Still
  <2>1. ASSUME NEW k \in DOMAIN open' PROVE Scoped(k, open'[k])
    <3>1. /\ k \in DOMAIN open /\ open'[k].kind = open[k].kind /\ open'[k].on = open[k].on
          /\ open'[k].notes = open[k].notes /\ open'[k].writes = open[k].writes
          /\ \A T \in AnswerTables : open'[k].effect.put[T] = open[k].effect.put[T] /\ open'[k].effect.drop[T] = open[k].effect.drop[T]
      BY <1>4 DEF Still, AnswerTables, SameAt
    <3>2. Scoped(k, open[k])
      BY <3>1 DEF ScopesOK
    <3>3. open[k].effect.put["labels"] = {} \/ open[k].effect.made["labels"] \subseteq open'[k].effect.made["labels"]
      <4>1. CASE open[k].kind = "start"
        BY <3>1, <4>1, AnswersThere DEF Owning, Own, Within, Puts
      <4>2. CASE open[k].kind # "start"
        BY <1>4, <4>2 DEF Still, AnswerTables
      <4> QED BY <4>1, <4>2
    <3> QED BY <3>1, <3>2, <3>3 DEF Scoped, AnswerTables
  <2> QED BY <2>1 DEF ScopesOK, Scoped
<1> QED BY <1>1, <1>2, <1>3, <1>4, AnswerSteps

-----------------------------------------------------------------------------
(***************************************************************************)
(* The responses of a text poll are where its rules put them.              *)
(***************************************************************************)

Text(p)     == \E q : Source(q) /\ q.id = p /\ q.type = "text"
Recat(p)    == <<"recategorised", p>> \in history
Edited(i)   == <<"edited", i>> \in history
Loose(p, i) == Changed(p) \/ Recat(p) \/ Edited(i)

\* A poll goes with all its categories.
WholePoll(n) ==
  open[n].kind = "poll" =>
    \/ \A T \in AnswerTables : open[n].effect.put[T] = {} /\ open[n].effect.drop[T] = {}
    \/ \A k \in db["categories"] :
         k.poll = Subject(open[n]) => k.id \in open[n].effect.drop["categories"] \/ Recat(k.poll)

\* A change of the rules judges every response, and saves the rule it has read.
WholeRules(n) ==
  open[n].kind = "rules" =>
    \/ Changed(open[n].on)
    \/ \A r \in db["responses"] : r.poll = open[n].on => r.id \in Ids(open[n].effect.put["responses"])

RuleThere(n) ==
  open[n].kind = "rules" =>
    \/ Changed(open[n].on) \/ Recat(open[n].on) \/ Bare(db, open[n].on)
    \/ \A q \in open[n].effect.put["rules"] :
         q.id \in open[n].effect.made["rules"] \/ q.id \in Ids(db["rules"])

Whole3 == \A n \in DOMAIN open : WholePoll(n) /\ WholeRules(n) /\ RuleThere(n)

Overridden == \A l \in db["labels"] : l.override => Edited(l.response)

OneOrRecat == \A p : Recat(p) \/ OneIn(db["categories"], p)

LEMMA WriteSame ==
  ASSUME NEW e, Write(e), NEW T \in Tables, e.put[T] = {}, e.drop[T] = {}
  PROVE  db'[T] = db[T]
<1>1. \A r \in db[T] : r \in db'[T]
  BY WriteAt DEF Ids
<1>2. \A r \in db'[T] : r \in db[T]
  BY WriteAt
<1> QED BY <1>1, <1>2

\* A commit, and the categories and rules of a poll that is not its subject.
LEMMA OtherBooks ==
  ASSUME RequestsOK, BooksOK, NEW k \in DOMAIN open, Finish(k), NEW p, p # Subject(open[k])
  PROVE  SameBooks(db, db', p)
<1> DEFINE e == open[k].effect
           s == Subject(open[k])
<1>1. Write(e)
  BY DEF Finish, Commit
<1>2. /\ \A c \in e.put["categories"] : c.poll = s /\ Stands("categories", c)
      /\ \A i \in e.drop["categories"] : InPoll(i, s)
      /\ \A q \in e.put["rules"] : InPoll(q.category, s) /\ Stands("rules", q)
      /\ \A i \in e.drop["rules"] : RuleIn(i, s)
  BY DEF BooksOK, Keeps, Stands
<1>3. p # s
  OBVIOUS
<1> HIDE DEF e, s
<1>4. ASSUME NEW c \in db["categories"], c.poll = p PROVE c \in db'["categories"] /\ InPoll(c.id, p)
  <2>1. Stands("categories", c) /\ InPoll(c.id, p)
    BY <1>4 DEF Stands, BooksOK, OnePoll
  <2>2. c.id \notin e.drop["categories"]
    BY <1>2, <1>3, <1>4, <2>1 DEF InPoll
  <2>3. c.id \notin Ids(e.put["categories"])
    BY <1>2, <1>3, <2>1 DEF InPoll, Ids
  <2> QED BY <1>1, <2>1, <2>2, <2>3, WriteAt, AnswersThere
<1>5. ASSUME NEW c \in db'["categories"], c.poll = p PROVE c \in db["categories"]
  BY <1>1, <1>2, <1>3, <1>5, WriteAt, AnswersThere
<1>6. CategoriesOf(db, p) = CategoriesOf(db', p)
  BY <1>4, <1>5 DEF CategoriesOf
<1> DEFINE of(q) == \E c \in CategoriesOf(db, p) : q.category = c.id
<1>7. \A q : of(q) => ~InPoll(q.category, s)
  BY <1>3 DEF CategoriesOf, InPoll, Stands
<1>8. ASSUME NEW q \in db["rules"], of(q) PROVE q \in db'["rules"]
  <2>1. Stands("rules", q)
    BY DEF Stands
  <2>2. q.id \notin e.drop["rules"]
    BY <1>2, <1>7, <1>8, <2>1 DEF RuleIn
  <2>3. q.id \notin Ids(e.put["rules"])
    <3> SUFFICES ASSUME NEW x \in e.put["rules"], x.id = q.id PROVE FALSE
      BY DEF Ids
    <3>1. x.category = q.category
      BY <1>2, <2>1 DEF BooksOK, OneCategory
    <3> QED BY <1>2, <1>7, <1>8, <3>1
  <2> QED BY <1>1, <2>2, <2>3, WriteAt, AnswersThere
<1>9. ASSUME NEW q \in db'["rules"], of(q) PROVE q \in db["rules"]
  BY <1>1, <1>2, <1>7, <1>9, WriteAt, AnswersThere
<1>10. RulesOf(db, p) = {q \in db["rules"] : of(q)} /\ RulesOf(db', p) = {q \in db'["rules"] : of(q)}
  BY <1>6 DEF RulesOf
<1> HIDE DEF of
<1> QED BY <1>6, <1>8, <1>9, <1>10 DEF SameBooks

\* A commit, and the categories and rules of any poll.
LEMMA BooksOver ==
  ASSUME RequestsOK, Owning, ScopesOK, BooksOK, Whole3, NEW k \in DOMAIN open, Finish(k), NEW p
  PROVE  \/ SameBooks(db, db', p) \/ Bare(db', p) \/ Recat(p)'
         \/ open[k].kind = "rules" /\ open[k].on = p
<1> DEFINE e == open[k].effect
<1>1. Write(e) /\ history' = history \cup open[k].notes
  BY DEF Finish, Commit
<1>2. ASSUME \A T \in {"categories", "rules"} : e.put[T] = {} /\ e.drop[T] = {}
      PROVE  SameBooks(db, db', p)
  BY <1>1, <1>2, WriteSame, AnswersThere, BooksEqual
<1>3. CASE open[k].kind \notin {"poll", "rules", "category"}
  <2>1. ASSUME NEW T \in {"categories", "rules"} PROVE e.put[T] = {} /\ e.drop[T] = {}
    <3>1. T \in Tables /\ Own(open[k])
      BY AnswersThere DEF Owning
    <3>2. T \notin Puts[open[k].kind]
      BY <1>3, <3>1 DEF Own, Puts, RosterTables
    <3>3. open[k].kind # "remove" => T \notin Drops[open[k].kind]
      BY <1>3, <3>1 DEF Own, Puts, Drops, RosterTables
    <3> QED BY <3>1, <3>2, <3>3 DEF Own, Within, ScopesOK, Scoped
  <2> QED BY <1>2, <2>1
<1>4. CASE p # Subject(open[k])
  BY <1>4, OtherBooks
<1>5. CASE p = Subject(open[k]) /\ open[k].kind = "category"
  BY <1>1, <1>5 DEF Subject, ScopesOK, Scoped, Recat
<1>6. CASE p = Subject(open[k]) /\ open[k].kind = "rules"
  BY <1>6 DEF Subject
<1>7. CASE p = Subject(open[k]) /\ open[k].kind = "poll"
  <2>1. CASE \A T \in AnswerTables : e.put[T] = {} /\ e.drop[T] = {}
    BY <1>2, <2>1 DEF AnswerTables
  <2>2. CASE \A c \in db["categories"] : c.poll = p => c.id \in e.drop["categories"] \/ Recat(c.poll)
    <3>1. e.put["categories"] = {}
      BY <1>7, AnswersThere DEF Owning, Own, Within, Puts
    <3>2. ASSUME NEW c \in db'["categories"], c.poll = p PROVE Recat(p)
      BY <1>1, <2>2, <3>1, <3>2, WriteDrops, AnswersThere
    <3>3. Recat(p) => Recat(p)'
      BY <1>1 DEF Recat
    <3> QED BY <3>2, <3>3 DEF Bare, CategoriesOf
  <2> QED BY <1>7, <2>1, <2>2 DEF Whole3, WholePoll
<1> QED BY <1>3, <1>4, <1>5, <1>6, <1>7

LEMMA TextBefore ==
  ASSUME NewSources, NEW p, There(p), Text(p)'
  PROVE  Text(p)
BY DEF NewSources, Text, Alike

LEMMA TextId ==
  ASSUME RequestsOK, NEW p, Text(p)
  PROVE  p \in PollIds
BY SourceIs DEF Text, Poll

\* What a message files, or a change of the rules judges: all the labels it finds
\* go, its own are of the poll's categories, and are what the rules give as it
\* sees them, unless the poll has lost all its categories.
Judges(n, r) ==
  LET K == Into(open[n].effect.put["labels"], r.id)
  IN /\ \A l \in db["labels"] : l.response = r.id => l.id \in open[n].effect.drop["labels"]
     /\ r.errors => K # {}
     /\ \A i \in K : InPoll(i, r.poll)
     /\ Bare(db, r.poll) \/ Agrees(Seen(n), r, K)

Judging ==
  \A n \in DOMAIN open : open[n].kind \in {"message", "rules"} =>
    \A r \in open[n].effect.put["responses"] :
      Text(r.poll) => Loose(r.poll, r.id) \/ Judges(n, r)

Classified ==
  \A r \in db["responses"] : Text(r.poll) => Loose(r.poll, r.id) \/ Agrees(db, r, Into(db["labels"], r.id))

\* The labels of a response after a commit, of which none is written and none
\* is taken away.
LEMMA LabelsLeft ==
  ASSUME NEW e, Write(e), LabelRows, NEW i,
         \A l \in e.put["labels"] : l.response # i /\ l.id[2] = l.response,
         \A l \in db["labels"] : l.response = i => l.id \notin e.drop["labels"]
  PROVE  Into(db'["labels"], i) = Into(db["labels"], i)
<1>1. ASSUME NEW l \in db'["labels"], l.response = i PROVE l \in db["labels"]
  BY <1>1, WriteAt, AnswersThere
<1>2. ASSUME NEW l \in db["labels"], l.response = i PROVE l \in db'["labels"]
  <2>1. l.id[2] = i
    BY <1>2, LabelRowIs
  <2>2. l.id \notin Ids(e.put["labels"])
    BY <2>1 DEF Ids
  <2> QED BY <1>2, <2>2, WriteAt, AnswersThere
<1> QED BY <1>1, <1>2 DEF Into

\* After a commit, a label's category is there; of a poll without any, no
\* response is in one.
LEMMA BareLabels ==
  ASSUME RequestsOK, NEW k \in DOMAIN open, Finish(k), NEW l \in db'["labels"], NEW p, InPoll(l.category, p)
  PROVE  ~Bare(db', p)
<1>1. PICK c \in db'["categories"] : c.id = l.category
  BY DEF Finish, PollsRefer, Ids
<1>2. Stands("categories", c)
  <2>1. Stands("categories", c)'
    BY DEF Stands
  <2> QED BY <2>1, GrowsOver, AnswersThere
<1>3. c.poll = p
  BY <1>1, <1>2 DEF InPoll
<1> QED BY <1>3 DEF Bare, CategoriesOf

LEMMA PutLabelIs ==
  ASSUME LabelsOK, NEW k \in DOMAIN open, NEW l \in open[k].effect.put["labels"]
  PROVE  l.id[2] = l.response
BY DEF LabelsOK, LabelsPut, Label

\* A response that a commit does not write is where it was.
LEMMA LeftClassified ==
  ASSUME RequestsOK, Owning, ResponsesOK, LabelsOK, ScopesOK, BooksOK, Whole3, NEW k \in DOMAIN open, Finish(k),
         NEW r \in db'["responses"], r \notin open[k].effect.put["responses"],
         ~Loose(r.poll, r.id)', Agrees(db, r, Into(db["labels"], r.id))
  PROVE  Agrees(db', r, Into(db'["labels"], r.id))
<1> DEFINE e == open[k].effect
           p == r.poll
           K == Into(db["labels"], r.id)
<1>1. Write(e) /\ history' = history \cup open[k].notes
  BY DEF Finish, Commit
<1>2. r \in db["responses"] /\ r.id \notin e.drop["responses"] /\ r.id \notin Ids(e.put["responses"])
  BY <1>1, WriteDrops, WriteReplaces, AnswersThere
<1>3. Past(r.id) /\ r.id # k
  BY <1>2 DEF ResponsesOK, ResponseRows, Past
<1>4. ~Loose(p, r.id) /\ (open[k].kind = "edit" => open[k].on # r.id) /\ (open[k].kind = "category" => open[k].on # p)
  BY <1>1 DEF Loose, Changed, Recat, Edited, ScopesOK, Scoped
<1>5. Own(open[k]) /\ Scoped(k, open[k])
  BY DEF Owning, ScopesOK
<1>6. \A l \in e.put["labels"] : l.response # r.id /\ l.id[2] = l.response
  <2> SUFFICES ASSUME NEW l \in e.put["labels"] PROVE l.response # r.id /\ l.id[2] = l.response
    OBVIOUS
  <2>1. "labels" \in Puts[open[k].kind]
    BY <1>5, AnswersThere DEF Own, Within
  <2>2. open[k].kind \in {"message", "rules", "edit"}
    BY <1>5, <2>1 DEF Own, Puts, RosterTables
  <2> QED BY <1>2, <1>3, <1>4, <1>5, <2>2, PutLabelIs DEF Scoped
<1>7. \A i \in K : InPoll(i, p)
  <2> SUFFICES ASSUME NEW i \in K PROVE InPoll(i, p)
    OBVIOUS
  <2>1. i \in RulesGive(db, r)
    BY DEF Agrees
  <2>2. PICK c \in db["categories"] : c.id = i /\ c.poll = p
    BY <2>1, GivenIs
  <2> QED BY <2>2 DEF BooksOK, OnePoll, Stands
<1>8. \A l \in db["labels"] : l.response = r.id => l.id \notin e.drop["labels"]
  <2> SUFFICES ASSUME NEW l \in db["labels"], l.response = r.id, l.id \in e.drop["labels"] PROVE FALSE
    OBVIOUS
  <2>1. l.id[2] = r.id /\ l.id[3] = l.category
    BY LabelRowIs DEF LabelsOK
  <2>2. open[k].kind \in {"message", "remove", "poll", "rules", "category", "edit", "erase"}
    <3>1. "labels" \in Drops[open[k].kind]
      BY <1>5, AnswersThere DEF Own, Within
    <3> QED BY <1>5, <3>1 DEF Own, Puts, Drops, RosterTables
  <2>3. CASE open[k].kind = "category"
    <3>1. InPoll(l.category, open[k].on)
      BY <2>1, <2>3 DEF BooksOK, Keeps, Subject
    <3>2. l.category \in K
      BY DEF Into
    <3>3. PICK c \in db["categories"] : c.id = l.category /\ c.poll = p
      <4>1. l.category \in RulesGive(db, r)
        BY <3>2 DEF Agrees
      <4> QED BY <4>1, GivenIs
    <3>4. open[k].on = p
      BY <3>1, <3>3 DEF InPoll, Stands
    <3> QED BY <1>4, <2>3, <3>4
  <2> QED BY <1>2, <1>4, <1>5, <2>1, <2>2, <2>3 DEF Scoped
<1>9. Into(db'["labels"], r.id) = K
  BY <1>1, <1>6, <1>8, LabelsLeft DEF LabelsOK
<1>10. SameBooks(db, db', p) \/ Bare(db', p)
  <2>1. ~Recat(p)'
    BY DEF Loose
  <2>2. ~(open[k].kind = "rules" /\ open[k].on = p)
    BY <1>2, <1>4 DEF Whole3, WholeRules, Loose
  <2> QED BY <2>1, <2>2, BooksOver
<1>11. CASE SameBooks(db, db', p)
  BY <1>9, <1>11, AgreesSame
<1>12. CASE Bare(db', p)
  <2>1. K = {}
    <3> SUFFICES ASSUME NEW i \in K PROVE FALSE
      OBVIOUS
    <3>1. PICK l \in db'["labels"] : l.category = i
      BY <1>9 DEF Into
    <3> QED BY <1>7, <1>12, <3>1, BareLabels
  <2>2. r.errors = FALSE
    BY <2>1 DEF Agrees
  <2> QED BY <1>9, <1>12, <2>1, <2>2, AgreesBare
<1> QED BY <1>10, <1>11, <1>12

-----------------------------------------------------------------------------
(***************************************************************************)
(* A request that is over, and the responses it leaves as its rules say.   *)
(***************************************************************************)

\* A message or a change of rules leaves the categories alone, and a message
\* the rules.
LEMMA JudgesOwn ==
  ASSUME NEW t, Own(t), t.kind \in {"message", "rules"}
  PROVE  /\ t.effect.put["categories"] = {} /\ t.effect.drop["categories"] = {}
         /\ t.kind = "message" => t.effect.put["rules"] = {} /\ t.effect.drop["rules"] = {}
BY AnswersThere DEF Own, Within, Puts, Drops

\* The rules and categories after a commit are those that its request has seen.
LEMMA SeenBooks ==
  ASSUME Owning, ScopesOK, Whole3, NEW k \in DOMAIN open, Finish(k), open[k].kind \in {"message", "rules"},
         NEW p, ~Changed(p), ~Recat(p), ~Bare(db, p), open[k].kind = "rules" => open[k].on = p
  PROVE  SameBooks(Seen(k), db', p)
<1> DEFINE e == open[k].effect
<1>1. Write(e) /\ Seen(k) = After(db, e)
  BY DEF Finish, Commit, Seen
<1>2. Own(open[k])
  BY DEF Owning
<1>3. db'["categories"] = db["categories"]
  BY <1>1, <1>2, JudgesOwn, WriteSame, AnswersThere
<1>4. \A c : c \in Seen(k)["categories"] <=> c \in db["categories"]
  BY <1>1, <1>2, JudgesOwn, AfterUntouched, AnswersThere
<1>5. db'["rules"] \subseteq Seen(k)["rules"]
  BY <1>1, WriteSeen, AnswersThere
<1>6. ASSUME NEW q \in Seen(k)["rules"] PROVE q \in db'["rules"]
  <2>1. \/ q \in e.put["rules"]
        \/ q \in db["rules"] /\ q.id \notin e.drop["rules"] /\ \A x \in e.put["rules"] : x.id # q.id
    <3>1. q \in After(db, e)["rules"]
      BY <1>1
    <3> HIDE DEF e
    <3> QED BY <3>1, AfterIs, AnswersThere
  <2>2. CASE q \in e.put["rules"]
    <3>1. open[k].kind = "rules"
      BY <1>2, <2>2, JudgesOwn
    <3>2. q.id \in e.made["rules"] \/ q.id \in Ids(db["rules"])
      BY <2>2, <3>1 DEF Whole3, RuleThere
    <3>3. q.id \notin Gone(e, "rules")
      BY <3>2 DEF Gone
    <3> QED BY <1>1, <2>2, <3>3, WriteAt, AnswersThere
  <2>3. CASE q \in db["rules"] /\ q.id \notin e.drop["rules"] /\ \A x \in e.put["rules"] : x.id # q.id
    <3>1. q.id \notin Ids(e.put["rules"])
      BY <2>3 DEF Ids
    <3> QED BY <1>1, <2>3, <3>1, WriteAt, AnswersThere
  <2> QED BY <2>1, <2>2, <2>3
<1>7. Seen(k)["categories"] = db'["categories"] /\ Seen(k)["rules"] = db'["rules"]
  BY <1>3, <1>4, <1>5, <1>6
<1> QED BY <1>7, BooksEqual

\* A response that a commit writes is where its request put it.
LEMMA WrittenClassified ==
  ASSUME RequestsOK, Owning, TablesOK, ScopesOK, BooksOK, Whole3,
         NEW k \in DOMAIN open, Finish(k), open[k].kind \in {"message", "rules"},
         NEW r \in open[k].effect.put["responses"], ~Loose(r.poll, r.id)', Judges(k, r)
  PROVE  Agrees(db', r, Into(db'["labels"], r.id))
<1> DEFINE e == open[k].effect
           p == r.poll
           K == Into(e.put["labels"], r.id)
<1>1. Write(e) /\ history' = history \cup open[k].notes
  BY DEF Finish, Commit
<1>2. ASSUME NEW l \in e.put["labels"] PROVE l \in db'["labels"]
  <2>1. l.id \in e.made["labels"]
    BY DEF ScopesOK, Scoped
  <2>2. l.id \notin Gone(e, "labels")
    BY <2>1 DEF Gone
  <2> QED BY <1>1, <2>2, WriteAt, AnswersThere
<1>3. ASSUME NEW l \in db'["labels"], l.response = r.id PROVE l \in e.put["labels"]
  BY <1>1, <1>3, WriteDrops, AnswersThere DEF Judges
<1>4. Into(db'["labels"], r.id) = K
  BY <1>2, <1>3 DEF Into
<1>5. /\ r.errors => K # {}
      /\ \A i \in K : InPoll(i, p)
      /\ Bare(db, p) \/ Agrees(Seen(k), r, K)
  BY DEF Judges
<1>6. ~Changed(p) /\ ~Recat(p)
  BY <1>1 DEF Loose, Changed, Recat
<1>7. r.errors \in BOOLEAN
  BY AnswersThere DEF TablesOK, EffectsTyped, Sound, Rows, Typed
<1>8. CASE Bare(db', p)
  <2>1. K = {}
    <3> SUFFICES ASSUME NEW i \in K PROVE FALSE
      OBVIOUS
    <3>1. PICK l \in e.put["labels"] : l.category = i
      BY DEF Into
    <3>2. l \in db'["labels"] /\ InPoll(l.category, p)
      BY <1>2, <1>5, <3>1
    <3> QED BY <1>8, <3>2, BareLabels
  <2>2. r.errors = FALSE
    BY <1>5, <1>7, <2>1
  <2> QED BY <1>4, <1>8, <2>1, <2>2, AgreesBare
<1>9. CASE ~Bare(db', p)
  <2>1. Own(open[k])
    BY DEF Owning
  <2>2. db'["categories"] = db["categories"]
    BY <1>1, <2>1, JudgesOwn, WriteSame, AnswersThere
  <2>3. ~Bare(db, p)
    BY <1>9, <2>2 DEF Bare, CategoriesOf
  <2>4. open[k].kind = "rules" => open[k].on = p
    BY DEF ScopesOK, Scoped
  <2>5. SameBooks(Seen(k), db', p)
    BY <1>6, <2>3, <2>4, SeenBooks
  <2>6. Agrees(Seen(k), r, K)
    BY <1>5, <2>3
  <2> QED BY <1>4, <2>5, <2>6, AgreesSame
<1> QED BY <1>8, <1>9

\* A change of the rules of a poll, and what others judge by them.
LEMMA RulesMeet ==
  ASSUME RequestsOK, WaitsOK, ScopesOK, NEW k \in DOMAIN open, NEW n \in DOMAIN open, n # k,
         open[k].kind = "rules", open[n].kind \in {"message", "rules"},
         open[n].kind = "rules" => open[n].on = open[k].on
  PROVE  Changed(open[k].on)
<1>1. open[k].writes = {<<"rules", open[k].on>>} /\ open[k].on \in PollIds
  BY DEF ScopesOK, Scoped
<1>2. Meet(open[k], open[n]) \subseteq history
  BY DEF RequestsOK
<1>3. CASE open[n].kind = "message"
  <2>1. <<"rules", open[k].on>> \in open[n].reads
    BY <1>1, <1>3 DEF WaitsOK, Waits
  <2> QED BY <1>1, <1>2, <2>1 DEF Meet, Changed
<1>4. CASE open[n].kind = "rules"
  <2>1. <<"rules", open[k].on>> \in open[n].writes
    BY <1>4 DEF ScopesOK, Scoped
  <2> QED BY <1>1, <1>2, <2>1 DEF Meet, Changed
<1> QED BY <1>3, <1>4

\* The labels that a commit adds are of no response that another request judges.
LEMMA JudgedApart ==
  ASSUME RequestsOK, WaitsOK, Owning, ResponsesOK, ScopesOK, NEW k \in DOMAIN open, Finish(k),
         NEW n \in DOMAIN open, n # k, open[n].kind \in {"message", "rules"},
         NEW r \in open[n].effect.put["responses"], ~Loose(r.poll, r.id)',
         NEW l \in open[k].effect.put["labels"]
  PROVE  l.response # r.id
<1> SUFFICES ASSUME l.response = r.id PROVE FALSE
  OBVIOUS
<1>1. history' = history \cup open[k].notes
  BY DEF Finish, Commit
<1>2. ~Changed(r.poll) /\ ~Edited(r.id)'
  BY <1>1 DEF Loose, Changed, Edited
<1>3. Scoped(k, open[k]) /\ Own(open[k])
  BY DEF ScopesOK, Owning
<1>4. open[k].kind \in {"message", "rules", "edit"}
  <2>1. "labels" \in Puts[open[k].kind]
    BY <1>3, AnswersThere DEF Own, Within
  <2> QED BY <1>3, <2>1 DEF Own, Puts, RosterTables
<1>5. CASE open[k].kind = "message"
  <2>1. r.id = k
    BY <1>3, <1>5 DEF Scoped
  <2>2. CASE open[n].kind = "message"
    BY <2>1, <2>2 DEF WaitsOK, Waits
  <2>3. CASE open[n].kind = "rules"
    BY <2>1, <2>3 DEF ResponsesOK, ResponsesPut, Past
  <2> QED BY <2>2, <2>3
<1>6. CASE open[k].kind = "edit"
  BY <1>1, <1>2, <1>3, <1>6 DEF Scoped, Edited
<1>7. CASE open[k].kind = "rules"
  <2>1. PICK x \in open[k].effect.put["responses"] : x.id = r.id
    BY <1>3, <1>7 DEF Scoped, Ids
  <2>2. r.poll = open[k].on
    <3>1. x.poll = open[k].on
      BY <1>3, <1>7 DEF Scoped
    <3>2. SameAnswer(x, r)
      BY <2>1 DEF ResponsesOK, PutAlike
    <3> QED BY <3>1, <3>2 DEF SameAnswer
  <2>3. open[n].kind = "rules" => open[n].on = open[k].on
    BY <2>2 DEF ScopesOK, Scoped
  <2> QED BY <1>2, <1>7, <2>2, <2>3, RulesMeet
<1> QED BY <1>4, <1>5, <1>6, <1>7

LEMMA JudgesOver ==
  ASSUME RequestsOK, WaitsOK, Owning, ResponsesOK, ScopesOK, BooksOK, Whole3, NEW k \in DOMAIN open, Finish(k),
         NEW n \in DOMAIN open, n # k, open[n].kind \in {"message", "rules"},
         NEW r \in open[n].effect.put["responses"], ~Loose(r.poll, r.id)', Judges(n, r)
  PROVE  Judges(n, r)'
<1> DEFINE e == open[n].effect
           p == r.poll
           K == Into(e.put["labels"], r.id)
<1>1. Write(open[k].effect) /\ history' = history \cup open[k].notes
  BY DEF Finish, Commit
<1>2. ~Changed(p) /\ ~Recat(p)'
  BY <1>1 DEF Loose, Changed
<1>3. open'[n] = open[n] /\ Grows
  BY GrowsOver
<1>4. ASSUME NEW l \in db'["labels"], l.response = r.id PROVE l.id \in e.drop["labels"]
  <2>1. l \notin open[k].effect.put["labels"]
    BY <1>4, JudgedApart
  <2>2. l \in db["labels"]
    BY <1>1, <2>1, WriteDrops, AnswersThere
  <2> QED BY <1>4, <2>2 DEF Judges
<1>5. \A i \in K : InPoll(i, p)'
  BY <1>3, InPollKept DEF Judges
<1>6. Bare(db', p) \/ Agrees(Seen(n)', r, K)
  <2>1. ~(open[k].kind = "rules" /\ open[k].on = p)
    <3> SUFFICES ASSUME open[k].kind = "rules", open[k].on = p PROVE FALSE
      OBVIOUS
    <3>1. open[n].kind = "rules" => open[n].on = open[k].on
      BY DEF ScopesOK, Scoped
    <3> QED BY <1>2, <3>1, RulesMeet
  <2>2. SameBooks(db, db', p) \/ Bare(db', p)
    BY <1>2, <2>1, BooksOver
  <2>3. CASE SameBooks(db, db', p) /\ ~Bare(db', p)
    <3>1. Agrees(Seen(n), r, K)
      BY <2>3 DEF Judges, SameBooks, Bare
    <3>2. e.put["categories"] = {} /\ e.drop["categories"] = {}
      BY JudgesOwn DEF Owning
    <3>3. SameBooks(After(db, e), After(db', e), p)
      BY <2>3, <3>2, BooksAfter
    <3>4. Seen(n) = After(db, e) /\ Seen(n)' = After(db', e)
      BY <1>3 DEF Seen
    <3> QED BY <3>1, <3>3, <3>4, AgreesSame
  <2> QED BY <2>2, <2>3
<1>7. r.errors => K # {}
  BY DEF Judges
<1> QED BY <1>3, <1>4, <1>5, <1>6, <1>7 DEF Judges

LEMMA LooseStays ==
  ASSUME history \subseteq history', NEW p, NEW i, Loose(p, i)
  PROVE  Loose(p, i)'
BY DEF Loose, Changed, Recat, Edited

LEMMA ClassifiedOver ==
  ASSUME RequestsOK, WaitsOK, Owning, ResponsesOK, LabelsOK, TablesOK, ResponsesThere, NewSources, ScopesOK,
         BooksOK, Whole3, Judging, Classified, NEW k \in DOMAIN open, Finish(k)
  PROVE  Judging' /\ Classified'
<1>1. /\ Write(open[k].effect) /\ history' = history \cup open[k].notes
      /\ DOMAIN open' = DOMAIN open \ {k} /\ \A n \in DOMAIN open' : open'[n] = open[n]
  BY GrowsOver DEF Finish, Commit
<1>2. ASSUME NEW r \in db'["responses"], Text(r.poll)', ~Loose(r.poll, r.id)'
      PROVE  Agrees(db', r, Into(db'["labels"], r.id))
  <2>1. CASE r \in open[k].effect.put["responses"]
    <3>1. open[k].kind \in {"message", "rules", "edit"}
      <4>1. Own(open[k])
        BY DEF Owning
      <4>2. "responses" \in Puts[open[k].kind]
        BY <2>1, <4>1, AnswersThere DEF Own, Within
      <4> QED BY <4>1, <4>2 DEF Own, Puts, RosterTables
    <3>2. open[k].kind # "edit"
      BY <1>1, <1>2, <2>1 DEF ScopesOK, Scoped, Loose, Edited
    <3>3. Text(r.poll)
      BY <1>2, <2>1, TextBefore DEF ResponsesThere
    <3>4. ~Loose(r.poll, r.id)
      BY <1>1, <1>2, LooseStays
    <3>5. Judges(k, r)
      BY <2>1, <3>1, <3>2, <3>3, <3>4 DEF Judging
    <3> QED BY <1>2, <2>1, <3>1, <3>2, <3>5, WrittenClassified
  <2>2. CASE r \notin open[k].effect.put["responses"]
    <3>1. r \in db["responses"]
      BY <1>1, <2>2, WriteDrops, AnswersThere
    <3>2. Text(r.poll)
      BY <1>2, <3>1, TextBefore DEF ResponsesThere
    <3>3. ~Loose(r.poll, r.id)
      BY <1>1, <1>2, LooseStays
    <3>4. Agrees(db, r, Into(db["labels"], r.id))
      BY <3>1, <3>2, <3>3 DEF Classified
    <3> QED BY <1>2, <2>2, <3>4, LeftClassified
  <2> QED BY <2>1, <2>2
<1>3. ASSUME NEW n \in DOMAIN open', open'[n].kind \in {"message", "rules"},
             NEW r \in open'[n].effect.put["responses"], Text(r.poll)', ~Loose(r.poll, r.id)'
      PROVE  Judges(n, r)'
  <2>1. n \in DOMAIN open /\ n # k /\ open'[n] = open[n]
    BY <1>1
  <2>2. Text(r.poll)
    BY <1>3, <2>1, TextBefore DEF ResponsesThere
  <2>3. ~Loose(r.poll, r.id)
    BY <1>1, <1>3, LooseStays
  <2>4. Judges(n, r)
    BY <1>3, <2>1, <2>2, <2>3 DEF Judging
  <2> QED BY <1>3, <2>1, <2>4, JudgesOver
<1>4. Classified'
  BY <1>2 DEF Classified
<1>5. Judging'
  BY <1>3 DEF Judging
<1> QED BY <1>4, <1>5

\* Who puts rows into the tables of answers.
LEMMA PutBy ==
  ASSUME NEW t, Own(t)
  PROVE  /\ t.effect.put["categories"] # {} => t.kind = "category"
         /\ t.effect.put["rules"] # {} => t.kind = "rules"
         /\ t.effect.put["responses"] # {} => t.kind \in {"message", "rules", "edit"}
         /\ t.effect.put["labels"] # {} => t.kind \in {"message", "rules", "edit"}
<1>1. \A T \in Tables : t.effect.put[T] # {} => T \in Puts[t.kind]
  BY DEF Own, Within
<1>2. t.kind \in DOMAIN Puts
  BY DEF Own
<1>3. "categories" \in Puts[t.kind] => t.kind = "category"
  BY <1>2 DEF Puts, RosterTables
<1>4. "rules" \in Puts[t.kind] => t.kind = "rules"
  BY <1>2 DEF Puts, RosterTables
<1>5. \A T \in {"responses", "labels"} : T \in Puts[t.kind] => t.kind \in {"message", "rules", "edit"}
  BY <1>2 DEF Puts, RosterTables
<1> QED BY <1>1, <1>3, <1>4, <1>5, AnswersThere

LEMMA WholeOver ==
  ASSUME RequestsOK, WaitsOK, Owning, ResponsesOK, TablesOK, ScopesOK, BooksOK, Whole3, NEW k \in DOMAIN open, Finish(k)
  PROVE  Whole3'
<1>1. /\ Write(open[k].effect) /\ history' = history \cup open[k].notes /\ Own(open[k]) /\ Scoped(k, open[k])
      /\ DOMAIN open' = DOMAIN open \ {k} /\ \A n \in DOMAIN open' : open'[n] = open[n]
  BY GrowsOver DEF Finish, Commit, Owning, ScopesOK
<1> SUFFICES ASSUME NEW n \in DOMAIN open' PROVE (WholePoll(n) /\ WholeRules(n) /\ RuleThere(n))'
  BY DEF Whole3
<1>2. n \in DOMAIN open /\ n # k /\ open'[n] = open[n] /\ WholePoll(n) /\ WholeRules(n) /\ RuleThere(n)
  BY <1>1 DEF Whole3
<1>3. \A p : (Changed(p) => Changed(p)') /\ (Recat(p) => Recat(p)')
  BY <1>1 DEF Changed, Recat
<1>4. WholePoll(n)'
  <2> DEFINE p == Subject(open[n])
  <2>1. ASSUME NEW c \in db'["categories"], c \notin db["categories"] PROVE Recat(c.poll)'
    <3>1. c \in open[k].effect.put["categories"]
      BY <1>1, <2>1, WriteDrops, AnswersThere
    <3>2. open[k].kind = "category" /\ c.poll = open[k].on
      BY <1>1, <3>1, PutBy DEF BooksOK, Keeps, Subject
    <3> QED BY <1>1, <3>2 DEF Scoped, Recat
  <2> QED BY <1>2, <1>3, <2>1 DEF WholePoll, Subject
<1>5. WholeRules(n)'
  <2> SUFFICES ASSUME open[n].kind = "rules", ~Changed(open[n].on), NEW r \in db'["responses"], r.poll = open[n].on
               PROVE  r.id \in Ids(open[n].effect.put["responses"])
    BY <1>2, <1>3 DEF WholeRules
  <2>1. CASE r \in db["responses"]
    BY <1>2, <2>1 DEF WholeRules
  <2>2. CASE r \notin db["responses"]
    <3>1. r \in open[k].effect.put["responses"]
      BY <1>1, <2>2, WriteDrops, AnswersThere
    <3>2. CASE open[k].kind = "message"
      BY <1>2, <3>2, RulesMeet
    <3>3. CASE open[k].kind = "rules"
      <4>1. open[k].on = open[n].on
        BY <1>1, <3>1, <3>3 DEF Scoped
      <4> QED BY <1>2, <3>3, <4>1, RulesMeet
    <3>4. CASE open[k].kind = "edit"
      <4>1. <<"rules", r.poll>> \in open[k].reads
        BY <3>1, <3>4 DEF ResponsesOK, ResponsesPut, Saves
      <4>2. <<"rules", r.poll>> \in open[n].writes
        BY <1>2 DEF ScopesOK, Scoped
      <4>3. Meet(open[k], open[n]) \subseteq history
        BY <1>2 DEF RequestsOK
      <4> QED BY <4>1, <4>2, <4>3 DEF Meet, Changed
    <3> QED BY <1>1, <3>1, <3>2, <3>3, <3>4, PutBy
  <2> QED BY <2>1, <2>2
<1>6. RuleThere(n)'
  <2> SUFFICES ASSUME NEW p, p = open[n].on, open[n].kind = "rules", ~Changed(p)', ~Recat(p)', ~Bare(db', p),
                      NEW q \in open[n].effect.put["rules"], q.id \notin open[n].effect.made["rules"]
               PROVE  q.id \in Ids(db'["rules"])
    BY <1>2 DEF RuleThere
  <2>1. ~(open[k].kind = "rules" /\ open[k].on = p)
    BY <1>2, <1>3, RulesMeet
  <2>2. SameBooks(db, db', p)
    BY <2>1, BooksOver
  <2>3. ~Changed(p) /\ ~Recat(p) /\ ~Bare(db, p)
    BY <1>3, <2>2 DEF SameBooks, Bare
  <2>4. PICK x \in db["rules"] : x.id = q.id
    BY <1>2, <2>3 DEF RuleThere, Ids
  <2>5. x.category = q.category /\ InPoll(q.category, p)
    BY <1>2, <2>4 DEF BooksOK, OneCategory, Keeps, Subject, Stands
  <2>6. PICK c \in db["categories"] : c.id = x.category
    BY AnswersThere DEF TablesOK, PollsRefer, Ids
  <2>7. c.poll = p
    BY <2>5, <2>6 DEF InPoll, Stands
  <2>8. x \in RulesOf(db, p)
    BY <2>6, <2>7 DEF RulesOf, CategoriesOf
  <2>9. x \in db'["rules"]
    BY <2>2, <2>8 DEF SameBooks, RulesOf
  <2> QED BY <2>4, <2>9 DEF Ids
<1> QED BY <1>4, <1>5, <1>6

LEMMA OverriddenOver ==
  ASSUME RequestsOK, LabelsOK, ScopesOK, Overridden, NEW k \in DOMAIN open, Finish(k)
  PROVE  Overridden'
<1>1. Write(open[k].effect) /\ history' = history \cup open[k].notes /\ Scoped(k, open[k])
  BY DEF Finish, Commit, ScopesOK
<1> SUFFICES ASSUME NEW l \in db'["labels"], l.override PROVE Edited(l.response)'
  BY DEF Overridden
<1>2. CASE l \in db["labels"]
  BY <1>1, <1>2 DEF Overridden, Edited
<1>3. CASE l \in open[k].effect.put["labels"]
  <2>1. open[k].kind = "edit"
    <3>1. PICK r, c : l = Label(k, r, c, ByEdit(open[k]))
      BY <1>3 DEF LabelsOK, LabelsPut
    <3> SUFFICES ASSUME open[k].kind # "edit" PROVE FALSE
      OBVIOUS
    <3>2. ByEdit(open[k]) = FALSE
      BY DEF ByEdit
    <3>3. l = Label(k, r, c, FALSE)
      BY <3>1, <3>2
    <3>4. l.override = FALSE
      BY <3>3 DEF Label
    <3> QED BY <3>4
  <2> QED BY <1>1, <1>3, <2>1 DEF Scoped, Edited
<1> QED BY <1>1, <1>2, <1>3, WriteDrops, AnswersThere

LEMMA RecatOver ==
  ASSUME RequestsOK, Owning, ScopesOK, BooksOK, OneOrRecat, NEW k \in DOMAIN open, Finish(k)
  PROVE  OneOrRecat'
<1>1. Write(open[k].effect) /\ history' = history \cup open[k].notes /\ Scoped(k, open[k]) /\ Own(open[k])
  BY DEF Finish, Commit, ScopesOK, Owning
<1> SUFFICES ASSUME NEW p, ~Recat(p)' PROVE OneIn(db'["categories"], p)
  BY DEF OneOrRecat
<1>2. OneIn(db["categories"], p)
  BY <1>1 DEF OneOrRecat, Recat
<1>3. ASSUME NEW c \in db'["categories"], DefaultOf(c, p) PROVE c \in db["categories"]
  <2> SUFFICES ASSUME c \in open[k].effect.put["categories"] PROVE FALSE
    BY <1>1, WriteDrops, AnswersThere
  <2>1. open[k].kind = "category" /\ c.poll = open[k].on
    BY <1>1, PutBy DEF BooksOK, Keeps, Subject
  <2> QED BY <1>1, <1>3, <2>1 DEF Scoped, Recat, DefaultOf
<1> QED BY <1>2, <1>3, FewerDefaults

-----------------------------------------------------------------------------
(***************************************************************************)
(* What leaves the responses and their rules alone.                        *)
(***************************************************************************)

\* Nothing is done to the answers and what they are judged by.
SameTables == \A T \in AnswerTables : db'[T] = db[T]
SameOpen(n) ==
  /\ open'[n].kind = open[n].kind /\ open'[n].on = open[n].on
  /\ \A T \in AnswerTables :
       /\ open'[n].effect.put[T] = open[n].effect.put[T] /\ open'[n].effect.drop[T] = open[n].effect.drop[T]
       /\ Seen(n)'[T] = Seen(n)[T]
  /\ open[n].kind = "start" \/ \A T \in AnswerTables : open[n].effect.made[T] \subseteq open'[n].effect.made[T]

LEMMA SameOpenIf ==
  ASSUME db' = db, NEW n, open'[n] = open[n]
  PROVE  SameTables /\ SameOpen(n)
<1>1. Seen(n)' = Seen(n)
  BY DEF Seen
<1> QED BY <1>1 DEF SameTables, SameOpen

\* A step that commits nothing leaves the committed answers where they are.
LEMMA ClassifiedStays ==
  ASSUME SameTables, history \subseteq history', NewSources, ResponsesThere, Classified, Overridden, OneOrRecat
  PROVE  Classified' /\ Overridden' /\ OneOrRecat'
<1>1. db'["labels"] = db["labels"] /\ db'["responses"] = db["responses"] /\ db'["categories"] = db["categories"]
      /\ db'["rules"] = db["rules"]
  BY DEF SameTables, AnswerTables
<1>2. Classified'
  <2> SUFFICES ASSUME NEW r \in db'["responses"], Text(r.poll)', ~Loose(r.poll, r.id)'
               PROVE  Agrees(db', r, Into(db'["labels"], r.id))
    BY DEF Classified
  <2>1. r \in db["responses"] /\ Text(r.poll)
    BY <1>1, TextBefore DEF ResponsesThere
  <2>2. ~Loose(r.poll, r.id)
    BY LooseStays
  <2>3. Agrees(db, r, Into(db["labels"], r.id))
    BY <2>1, <2>2 DEF Classified
  <2> QED BY <1>1, <2>3, AgreesSame, BooksEqual
<1>3. Overridden'
  BY <1>1 DEF Overridden, Edited
<1>4. OneOrRecat'
  BY <1>1 DEF OneOrRecat, Recat
<1> QED BY <1>2, <1>3, <1>4

\* What an open request judges, after a step that is not its own and commits
\* nothing.
LEMMA JudgesStays ==
  ASSUME Grows, SameTables, history \subseteq history', NewSources, ResponsesThere, Judging,
         NEW n \in DOMAIN open, SameOpen(n), open[n].kind \in {"message", "rules"},
         NEW r \in open[n].effect.put["responses"], Text(r.poll)', ~Loose(r.poll, r.id)'
  PROVE  Judges(n, r)'
<1>1. Text(r.poll) /\ ~Loose(r.poll, r.id)
  BY TextBefore, LooseStays DEF ResponsesThere
<1>2. Judges(n, r)
  BY <1>1 DEF Judging
<1> DEFINE K == Into(open[n].effect.put["labels"], r.id)
<1>3. \A i \in K : InPoll(i, r.poll)'
  BY <1>2, InPollKept DEF Judges
<1>4. open'[n].effect.put["labels"] = open[n].effect.put["labels"] /\ open'[n].effect.drop["labels"] = open[n].effect.drop["labels"]
      /\ db'["labels"] = db["labels"]
  BY DEF SameOpen, SameTables, AnswerTables
<1>5. Bare(db, r.poll) => Bare(db', r.poll)
  BY DEF SameTables, AnswerTables, Bare, CategoriesOf
<1>6. Agrees(Seen(n), r, K) => Agrees(Seen(n)', r, K)
  <2>1. Seen(n)'["categories"] = Seen(n)["categories"] /\ Seen(n)'["rules"] = Seen(n)["rules"]
    BY DEF SameOpen, AnswerTables
  <2>2. SameBooks(Seen(n), Seen(n)', r.poll)
    BY <2>1, BooksEqual
  <2> QED BY <2>2, AgreesSame
<1> QED BY <1>2, <1>3, <1>4, <1>5, <1>6 DEF Judges

LEMMA WholeStays ==
  ASSUME SameTables, history \subseteq history', NEW n \in DOMAIN open, SameOpen(n),
         WholePoll(n), WholeRules(n), RuleThere(n)
  PROVE  (WholePoll(n) /\ WholeRules(n) /\ RuleThere(n))'
<1>1. \A p : (Changed(p) => Changed(p)') /\ (Recat(p) => Recat(p)')
  BY DEF Changed, Recat
<1>2. WholePoll(n)'
  BY <1>1 DEF WholePoll, AnswerTables, Subject, SameTables, SameOpen
<1>3. WholeRules(n)'
  BY <1>1 DEF WholeRules, AnswerTables, SameTables, SameOpen
<1>4. RuleThere(n)'
  <2>1. db'["categories"] = db["categories"] /\ db'["rules"] = db["rules"]
    BY DEF SameTables, AnswerTables
  <2>2. \A p : Bare(db, p) => Bare(db', p)
    BY <2>1 DEF Bare, CategoriesOf
  <2> SUFFICES ASSUME open[n].kind = "rules" PROVE RuleThere(n)'
    BY DEF RuleThere, SameOpen
  <2>3. open'[n].kind = "rules" /\ open'[n].on = open[n].on /\ open'[n].effect.put["rules"] = open[n].effect.put["rules"]
        /\ open[n].effect.made["rules"] \subseteq open'[n].effect.made["rules"]
    BY DEF SameOpen, AnswerTables
  <2> QED BY <1>1, <2>1, <2>2, <2>3 DEF RuleThere
<1> QED BY <1>2, <1>3, <1>4

\* A response that the staff has not put anywhere is judged by the rules alone.
LEMMA JudgedAgain ==
  ASSUME LabelRows, Overridden, NEW d, d["labels"] = db["labels"], NEW r, ResponseRow(r), ~Edited(r.id),
         NEW x, x = Judged(d, r.poll, r)
  PROVE  /\ Again(d, r.poll, r) = RulesGive(d, x)
         /\ x.errors = (RulesGive(d, x) \cap Errors(d, x.poll) # {})
         /\ x.id = r.id /\ x.poll = r.poll
<1>1. SameAnswer(r, x) /\ x.id = r.id /\ x.poll = r.poll /\ x.text = r.text
  BY JudgedIs DEF SameAnswer
<1>2. Overrides(d, r) = {}
  <2> SUFFICES ASSUME NEW l \in LabelsOf(d, {r}), l.override PROVE FALSE
    BY DEF Overrides
  <2>1. l \in db["labels"] /\ l.response = r.id
    BY DEF LabelsOf
  <2> QED BY <2>1 DEF Overridden
<1>3. Again(d, r.poll, r) = RulesGive(d, x)
  <2>1. Again(d, r.poll, r) = OrDefault(d, r.poll, {} \cup Matching(d, r.poll, r.text)) \ {}
    BY <1>2 DEF Again
  <2>2. {} \cup Matching(d, r.poll, r.text) = Matching(d, r.poll, r.text)
    OBVIOUS
  <2>3. Again(d, r.poll, r) = OrDefault(d, r.poll, Matching(d, r.poll, r.text))
    <3> HIDE DEF Again, OrDefault, Matching
    <3> QED BY <2>1, <2>2
  <2> QED BY <1>1, <2>3 DEF RulesGive
<1>4. x.errors = (Again(d, r.poll, r) \cap Errors(d, r.poll) # {})
  <2> DEFINE w == Again(d, r.poll, r) \cap Errors(d, r.poll) # {}
  <2>1. x = [r EXCEPT !.errors = w] /\ r = NewResponse(r.id, r.poll, r.conn, r.text, r.errors)
    BY DEF Judged, ResponseRow
  <2> HIDE DEF w
  <2>2. x.errors = w
    BY <2>1 DEF NewResponse
  <2> QED BY <2>2 DEF w
<1> QED BY <1>1, <1>3, <1>4

\* The labels that a change of the rules writes put each response where the
\* rules do.
AgainLabels(n, d, p, R) == UNION {RuleLabels(n, q.id, Again(d, p, q)) : q \in R}

LEMMA IntoAgain ==
  ASSUME NEW n, NEW d, NEW p, NEW R, Unique(R), NEW r \in R, NEW L, L = AgainLabels(n, d, p, R)
  PROVE  Into(L, r.id) = Again(d, p, r)
<1>1. ASSUME NEW l \in L, l.response = r.id PROVE l.category \in Again(d, p, r)
  <2>1. PICK q \in R : l \in RuleLabels(n, q.id, Again(d, p, q))
    BY DEF AgainLabels
  <2>2. PICK c \in Again(d, p, q) : l = Label(n, q.id, c, FALSE)
    BY <2>1 DEF RuleLabels
  <2>3. l.response = q.id /\ l.category = c
    BY <2>2 DEF Label
  <2>4. q = r
    BY <1>1, <2>3 DEF Unique
  <2> QED BY <2>2, <2>3, <2>4
<1>2. ASSUME NEW c \in Again(d, p, r) PROVE \E l \in L : l.response = r.id /\ l.category = c
  <2>1. Label(n, r.id, c, FALSE) \in RuleLabels(n, r.id, Again(d, p, r))
    BY DEF RuleLabels
  <2>2. Label(n, r.id, c, FALSE) \in L
    BY <2>1 DEF AgainLabels
  <2>3. Label(n, r.id, c, FALSE).response = r.id /\ Label(n, r.id, c, FALSE).category = c
    BY DEF Label
  <2> QED BY <2>2, <2>3
<1> HIDE DEF Again
<1> QED BY <1>1, <1>2 DEF Into

LEMMA JudgesBegun ==
  ASSUME RequestsOK, ResponsesOK, LabelsOK, BooksOK, Overridden, Grows, NEW t, Begins(t), t.kind = "rules",
         NEW x \in t.effect.put["responses"], ~Loose(x.poll, x.id), NEW n, n = serial + 1
  PROVE  Judges(n, x)'
<1>1. PICK p \in TextPolls : \E e, d : Rejudges(t, p.id, e, d)
  BY RulesWrites
<1>2. PICK e, d : Rejudges(t, p.id, e, d)
  BY <1>1
<1> DEFINE R == PollResponses(db, p.id)
<1>3. /\ d["labels"] = db["labels"] /\ d["categories"] = db["categories"]
      /\ t.effect.put["responses"] = {Judged(d, p.id, r) : r \in R}
      /\ t.effect.put["labels"] = UNION {RuleLabels(serial + 1, r.id, Again(d, p.id, r)) : r \in R}
      /\ t.effect.drop["labels"] = Ids({l \in LabelsOf(db, R) : ~l.override})
      /\ After(db, t.effect)["categories"] = d["categories"] /\ After(db, t.effect)["rules"] = d["rules"]
  BY <1>2 DEF Rejudges
<1>4. PICK r \in R : x = Judged(d, p.id, r)
  BY <1>3
<1>5. r \in db["responses"] /\ r.poll = p.id /\ ResponseRow(r) /\ Unique(R)
  BY DEF PollResponses, ResponsesOK, ResponseRows, Unique
<1>6. x.id = r.id /\ x.poll = r.poll
  BY <1>4, <1>5, JudgedIs DEF SameAnswer
<1>7. ~Edited(r.id)
  BY <1>6 DEF Loose
<1>8. /\ Again(d, p.id, r) = RulesGive(d, x)
      /\ x.errors = (RulesGive(d, x) \cap Errors(d, x.poll) # {})
  <2>1. x = Judged(d, r.poll, r)
    BY <1>4, <1>5
  <2>2. LabelRows
    BY DEF LabelsOK
  <2>3. Again(d, r.poll, r) = RulesGive(d, x) /\ x.errors = (RulesGive(d, x) \cap Errors(d, x.poll) # {})
    BY <1>3, <1>5, <1>7, <2>1, <2>2, JudgedAgain
  <2> QED BY <1>5, <2>3
<1> DEFINE K == Into(t.effect.put["labels"], x.id)
<1>9. K = RulesGive(d, x)
  <2> DEFINE L == t.effect.put["labels"]
  <2>1. L = AgainLabels(serial + 1, d, p.id, R)
    BY <1>3 DEF AgainLabels
  <2>2. Unique(R) /\ r \in R
    BY <1>5
  <2> HIDE DEF R, L
  <2>3. Into(L, r.id) = Again(d, p.id, r)
    BY <2>1, <2>2, IntoAgain
  <2> QED BY <1>6, <1>8, <2>3 DEF L
<1>10. Begin(t)
  BY DEF Begins
<1>11. db' = db /\ open'[n] = t /\ Seen(n)' = After(db, t.effect)
  BY <1>10, BeginSeen
<1>12. ASSUME NEW l \in db["labels"], l.response = x.id PROVE l.id \in t.effect.drop["labels"]
  <2>1. l \in LabelsOf(db, R)
    BY <1>6, <1>12 DEF LabelsOf
  <2>2. ~l.override
    BY <1>6, <1>7, <1>12 DEF Overridden
  <2> QED BY <1>3, <2>1, <2>2 DEF Ids
<1>13. Agrees(d, x, K)
  BY <1>8, <1>9 DEF Agrees
<1>14. x.errors => K # {}
  BY <1>8, <1>9
<1>15. ASSUME NEW i \in K PROVE InPoll(i, x.poll)'
  <2>1. PICK c \in db["categories"] : c.id = i /\ c.poll = x.poll
    BY <1>3, <1>9, GivenIs
  <2>2. InPoll(i, x.poll)
    BY <2>1 DEF BooksOK, OnePoll, Stands
  <2> QED BY <2>2, InPollKept
<1>16. Agrees(Seen(n)', x, K)
  <2>1. SameBooks(d, After(db, t.effect), x.poll)
    BY <1>3, BooksEqual
  <2> QED BY <1>11, <1>13, <2>1, AgreesSame
<1> HIDE DEF R
<1> QED BY <1>11, <1>12, <1>14, <1>15, <1>16 DEF Judges

\* A request that begins on a poll's categories and rules has read them.
LEMMA WholeBegun ==
  ASSUME RequestsOK, ResponsesOK, BooksOK, NEW t, Begins(t), NEW n, n = serial + 1
  PROVE  (WholePoll(n) /\ WholeRules(n) /\ RuleThere(n))'
<1>1. db' = db /\ open'[n] = t
  BY BeginSeen DEF Begins
<1>2. ASSUME t.kind = "poll"
      PROVE  \/ \A T \in AnswerTables : t.effect.put[T] = {} /\ t.effect.drop[T] = {}
             \/ \A k \in db["categories"] : k.poll = Subject(t) => k.id \in t.effect.drop["categories"]
  BY <1>2, PollBegins DEF Subject, CategoriesOf, Ids
<1>3. WholePoll(n)'
  BY <1>1, <1>2 DEF WholePoll, Subject
<1>4. CASE t.kind # "rules"
  BY <1>1, <1>3, <1>4 DEF WholeRules, RuleThere
<1>5. CASE t.kind = "rules"
  <2>1. PICK p \in TextPolls : \E e, d : Rejudges(t, p.id, e, d)
    BY <1>5, RulesWrites
  <2>2. PICK e, d : Rejudges(t, p.id, e, d)
    BY <2>1
  <2>3. /\ t.on = p.id /\ OneRule(e, serial + 1, p.id)
        /\ t.effect.put["responses"] = {Judged(d, p.id, r) : r \in PollResponses(db, p.id)}
        /\ t.effect.put["rules"] = e.put["rules"] /\ e.made["rules"] \subseteq t.effect.made["rules"]
    BY <2>2 DEF Rejudges
  <2>4. ASSUME NEW r \in db["responses"], r.poll = t.on PROVE r.id \in Ids(t.effect.put["responses"])
    <3>1. Judged(d, p.id, r) \in t.effect.put["responses"]
      BY <2>3, <2>4 DEF PollResponses
    <3>2. Judged(d, p.id, r).id = r.id
      BY JudgedIs DEF ResponsesOK, ResponseRows, SameAnswer
    <3> QED BY <3>1, <3>2 DEF Ids
  <2>5. ASSUME NEW q \in e.put["rules"] PROVE q.id \in t.effect.made["rules"] \/ q.id \in Ids(db["rules"])
    <3>1. CASE \E k \in CategoriesOf(db, p.id) : \E w : e = Inserted("rules", {[id |-> serial + 1, category |-> k.id, word |-> w]})
      <4>1. PICK row : e = Inserted("rules", {row})
        BY <3>1
      <4>2. e.put["rules"] = {row} /\ e.made["rules"] = Ids({row})
        BY <4>1, AnswersThere DEF Inserted, NoEffect
      <4> QED BY <2>3, <4>2 DEF Ids
    <3>2. CASE \E x \in RulesOf(db, p.id) : \E w : e = Saved("rules", {[x EXCEPT !.word = w]})
      <4>1. PICK x \in RulesOf(db, p.id) : \E w : e = Saved("rules", {[x EXCEPT !.word = w]})
        BY <3>2
      <4>2. PICK w : e = Saved("rules", {[x EXCEPT !.word = w]})
        BY <4>1
      <4>3. x \in db["rules"] /\ RuleRow(x)
        BY DEF RulesOf, BooksOK, OneCategory, Stands
      <4> DEFINE new == [x EXCEPT !.word = w]
      <4>4. new.id = x.id
        BY <4>3 DEF RuleRow
      <4> HIDE DEF new
      <4>5. e.put["rules"] = {new}
        BY <4>2, AnswersThere, SavedAt DEF new
      <4> QED BY <4>3, <4>4, <4>5 DEF Ids
    <3>3. CASE \E x \in RulesOf(db, p.id) : e = Deleted("rules", {x})
      <4>1. e.put["rules"] = {}
        BY <3>3, AnswersThere, PutBasic
      <4> QED BY <4>1
    <3> QED BY <2>3, <3>1, <3>2, <3>3 DEF OneRule
  <2>6. WholeRules(n)'
    BY <1>1, <2>4 DEF WholeRules
  <2>7. RuleThere(n)'
    BY <1>1, <2>3, <2>5 DEF RuleThere
  <2> QED BY <1>3, <2>6, <2>7
<1> QED BY <1>4, <1>5

LEMMA ClassifiedBegun ==
  ASSUME RequestsOK, ResponsesOK, LabelsOK, BooksOK, ResponsesThere, NewSources, Grows,
         Whole3, Overridden, OneOrRecat, Judging, Classified, NEW t, Begins(t)
  PROVE  Whole3' /\ Overridden' /\ OneOrRecat' /\ Judging' /\ Classified'
<1>1. Begin(t)
  BY DEF Begins
<1>2. /\ db' = db /\ history \subseteq history' /\ DOMAIN open' = DOMAIN open \cup {serial + 1}
      /\ open'[serial + 1] = t /\ \A k \in DOMAIN open : open'[k] = open[k]
  BY <1>1, BeginSeen
<1>3. Whole3'
  <2> SUFFICES ASSUME NEW n \in DOMAIN open' PROVE (WholePoll(n) /\ WholeRules(n) /\ RuleThere(n))'
    BY DEF Whole3
  <2>1. CASE n = serial + 1
    BY <2>1, WholeBegun
  <2>2. CASE n \in DOMAIN open
    BY <1>2, <2>2, WholeStays, SameOpenIf DEF Whole3
  <2> QED BY <1>2, <2>1, <2>2
<1>4. Classified' /\ Overridden' /\ OneOrRecat'
  BY <1>2, ClassifiedStays DEF SameTables
<1>5. Judging'
  <2> SUFFICES ASSUME NEW n \in DOMAIN open', open'[n].kind \in {"message", "rules"},
                      NEW r \in open'[n].effect.put["responses"], Text(r.poll)', ~Loose(r.poll, r.id)'
               PROVE  Judges(n, r)'
    BY DEF Judging
  <2>1. CASE n = serial + 1 /\ t.kind = "message"
    BY <1>2, <2>1, MessageUnanswered DEF Unanswered, AppPuts
  <2>2. CASE n = serial + 1 /\ t.kind = "rules"
    <3>1. ~Loose(r.poll, r.id)
      BY <1>2, LooseStays
    <3> QED BY <1>2, <2>2, <3>1, JudgesBegun
  <2>3. CASE n \in DOMAIN open
    BY <1>2, <2>3, JudgesStays, SameOpenIf
  <2> QED BY <1>2, <2>1, <2>2, <2>3
<1> QED BY <1>3, <1>4, <1>5

-----------------------------------------------------------------------------
(***************************************************************************)
(* Every response is where its rules put it, after every step.             *)
(***************************************************************************)

LEMMA ClassifiedStill ==
  ASSUME RequestsOK, ResponsesThere, NewSources, Grows,
         Whole3, Overridden, OneOrRecat, Judging, Classified, Still
  PROVE  Whole3' /\ Overridden' /\ OneOrRecat' /\ Judging' /\ Classified'
<1>1. SameTables /\ history \subseteq history' /\ DOMAIN open' \subseteq DOMAIN open /\ \A n \in DOMAIN open' : SameOpen(n)
  BY DEF Still, SameAt, SameTables, SameOpen, AnswerTables
<1>2. Classified' /\ Overridden' /\ OneOrRecat'
  BY <1>1, ClassifiedStays
<1>3. Whole3'
  <2> SUFFICES ASSUME NEW n \in DOMAIN open' PROVE (WholePoll(n) /\ WholeRules(n) /\ RuleThere(n))'
    BY DEF Whole3
  <2> QED BY <1>1, WholeStays DEF Whole3
<1>4. Judging'
  <2> SUFFICES ASSUME NEW n \in DOMAIN open', open'[n].kind \in {"message", "rules"},
                      NEW r \in open'[n].effect.put["responses"], Text(r.poll)', ~Loose(r.poll, r.id)'
               PROVE  Judges(n, r)'
    BY DEF Judging
  <2>1. n \in DOMAIN open /\ SameOpen(n)
    BY <1>1
  <2>2. open[n].kind \in {"message", "rules"} /\ r \in open[n].effect.put["responses"]
    BY <2>1 DEF SameOpen, AnswerTables
  <2> QED BY <1>1, <2>1, <2>2, JudgesStays
<1> QED BY <1>2, <1>3, <1>4

\* With one default category there is nothing to choose from.
LEMMA NotStuck ==
  ASSUME NEW d, NEW p, OneIn(d["categories"], p.id), NEW words
  PROVE  ~Stuck(d, p, words)
<1> DEFINE D == Defaults(d, p.id)
<1>1. \A i, j \in D : i = j
  BY DEF OneIn, DefaultOf, Defaults, CategoriesOf
<1>2. D = {} \/ \E i \in D : D = {i}
  BY <1>1
<1>3. Cardinality(D) \in {0, 1}
  <2> HIDE DEF D
  <2> QED BY <1>2, FS_EmptySet, FS_Singleton
<1>4. ~(Cardinality(D) > 1)
  <2> HIDE DEF D
  <2> QED BY <1>3
<1> QED BY <1>4 DEF Stuck, Raises

\* The poll app puts an answer to a text poll where the rules it sees do.
LEMMA AnswerAgrees ==
  ASSUME NEW d, NEW n, NEW p, NEW c, NEW words, p.type = "text", ~Stuck(d, p, words),
         NEW new, new = Answer(d, n, p, c, words)
  PROVE  Filed(d, p, words) = RulesGive(d, new) /\ Agrees(d, new, Filed(d, p, words))
<1> DEFINE w == Bad(d, p, words)
<1>1. new = NewResponse(n, p.id, c, words, w)
  BY DEF Answer
<1>2. new.poll = p.id /\ new.text = words /\ new.errors = w
  <2> HIDE DEF w
  <2> QED BY <1>1 DEF NewResponse
<1>3. Filed(d, p, words) = RulesGive(d, new)
  BY <1>2 DEF Filed, Found, RulesGive
<1>4. w = (Filed(d, p, words) \cap Errors(d, p.id) # {})
  <2> HIDE DEF Filed, Errors
  <2> QED BY DEF Bad
<1> HIDE DEF w, Filed, RulesGive, Errors
<1> QED BY <1>2, <1>3, <1>4 DEF Agrees

LEMMA IntoRule ==
  ASSUME NEW n, NEW i, NEW K
  PROVE  Into(RuleLabels(n, i, K), i) = K
<1>1. ASSUME NEW k \in K PROVE \E l \in RuleLabels(n, i, K) : l.response = i /\ l.category = k
  <2>1. Label(n, i, k, FALSE) \in RuleLabels(n, i, K)
    BY DEF RuleLabels
  <2>2. Label(n, i, k, FALSE).response = i /\ Label(n, i, k, FALSE).category = k
    BY DEF Label
  <2> QED BY <2>1, <2>2
<1>2. ASSUME NEW l \in RuleLabels(n, i, K) PROVE l.category \in K
  <2>1. PICK k \in K : l = Label(n, i, k, FALSE)
    BY DEF RuleLabels
  <2> QED BY <2>1 DEF Label
<1> HIDE DEF RuleLabels
<1> QED BY <1>1, <1>2 DEF Into

\* The poll app's answer is classified as its message has seen the rules.
LEMMA FiledJudges ==
  ASSUME RequestsOK, WaitsOK, Owning, ResponsesOK, LabelsOK, TablesOK, RulesFixed, NewSources, BooksOK, OneOrRecat, Grows,
         NEW n \in DOMAIN open, PollPhase(n),
         NEW r \in open'[n].effect.put["responses"], Text(r.poll)', ~Loose(r.poll, r.id)'
  PROVE  Judges(n, r)'
<1> DEFINE c     == open[n].on.conn
           words == open[n].on.text.words
           d     == Seen(n)
<1>1. PICK e, place :
        /\ Adds(n, e, place)
        /\ \/ e = NoEffect
           \/ \E p, new :
                /\ Files(n, e, p, c, new) /\ new = Answer(d, n, p, c, words)
                /\ e.put["labels"] = IF Stuck(d, p, words) THEN {} ELSE RuleLabels(n, n, Filed(d, p, words))
  BY FiledIs DEF ResponsesOK, LabelsOK
<1>2. /\ open'[n].effect.put["responses"] = e.put["responses"] /\ open'[n].effect.put["labels"] = e.put["labels"]
      /\ db' = db /\ history' = history /\ open[n].kind = "message"
  BY <1>1 DEF Adds, AppPuts
<1>3. e # NoEffect
  BY <1>2, AnswersThere, NoEffectAt
<1>4. PICK p, new :
        /\ Files(n, e, p, c, new) /\ new = Answer(d, n, p, c, words)
        /\ e.put["labels"] = IF Stuck(d, p, words) THEN {} ELSE RuleLabels(n, n, Filed(d, p, words))
  BY <1>1, <1>3
<1>5. r = new /\ r.id = n /\ r.poll = p.id /\ p \in Latest(d, c)
  BY <1>2, <1>4 DEF Files
<1>6. p \in db["polls"]
  BY <1>2, <1>5, TakerThere
<1>7. p.type = "text"
  <2>1. There(p.id)
    BY <1>6 DEF There
  <2>2. PICK q : Source(q) /\ q.id = p.id /\ q.type = "text"
    BY <1>5, <2>1, TextBefore DEF Text
  <2>3. Source(p)
    BY <1>6 DEF Source
  <2> QED BY <2>2, <2>3 DEF RulesFixed, RuleFixed, Alike
<1>8. SameAt("categories") /\ SameAt("rules")
  BY FiledStep
<1>9. d["categories"] = db["categories"]
  <2>1. open[n].effect.put["categories"] = {} /\ open[n].effect.drop["categories"] = {}
    BY <1>2, JudgesOwn DEF Owning
  <2>2. \A k : k \in d["categories"] <=> k \in db["categories"]
    BY <2>1, AnswersThere, AfterUntouched DEF Seen
  <2> QED BY <2>2
<1>10. ~Stuck(d, p, words)
  <2>1. OneIn(db["categories"], p.id)
    BY <1>2, <1>5 DEF OneOrRecat, Loose, Recat
  <2> QED BY <1>9, <2>1, NotStuck
<1> DEFINE K == Filed(d, p, words)
<1>11. K = RulesGive(d, r) /\ Agrees(d, r, K)
  BY <1>4, <1>5, <1>7, <1>10, AnswerAgrees
<1>12. open'[n].effect.put["labels"] = RuleLabels(n, n, K)
  BY <1>2, <1>4, <1>10
<1>13. Into(open'[n].effect.put["labels"], r.id) = K
  BY <1>5, <1>12, IntoRule
<1>14. \A l \in db["labels"] : l.response # n
  <2> SUFFICES ASSUME NEW l \in db["labels"], l.response = n PROVE FALSE
    OBVIOUS
  <2>1. PICK x \in db["responses"] : x.id = n
    BY DEF TablesOK, PollsRefer, Ids
  <2> QED BY <2>1 DEF ResponsesOK, ResponseRows, Past
<1>15. ASSUME NEW i \in K PROVE InPoll(i, r.poll)'
  <2>1. PICK k \in d["categories"] : k.id = i /\ k.poll = r.poll
    BY <1>11, GivenIs
  <2>2. InPoll(i, r.poll)
    BY <1>9, <2>1 DEF BooksOK, OnePoll, Stands
  <2> QED BY <2>2, InPollKept
<1>16. Agrees(Seen(n)', r, K)
  <2>1. Seen(n)'["categories"] = d["categories"] /\ Seen(n)'["rules"] = d["rules"]
    BY <1>8, FiledStep DEF SameAt
  <2>2. SameBooks(d, Seen(n)', r.poll)
    BY <2>1, BooksEqual
  <2> QED BY <1>11, <2>2, AgreesSame
<1>17. r.errors => K # {}
  BY <1>11 DEF Agrees
<1> HIDE DEF K
<1> QED BY <1>2, <1>5, <1>13, <1>14, <1>15, <1>16, <1>17 DEF Judges

LEMMA ClassifiedFiled ==
  ASSUME RequestsOK, WaitsOK, Owning, ResponsesOK, LabelsOK, TablesOK, RulesFixed, ResponsesThere, NewSources, BooksOK, Grows,
         Whole3, Overridden, OneOrRecat, Judging, Classified, NEW n \in DOMAIN open, PollPhase(n)
  PROVE  Whole3' /\ Overridden' /\ OneOrRecat' /\ Judging' /\ Classified'
<1>1. /\ db' = db /\ history' = history /\ DOMAIN open' = DOMAIN open
      /\ \A k \in DOMAIN open : k # n => open'[k] = open[k]
      /\ open[n].kind = "message" /\ open'[n].kind = "message"
  BY FiledStep
<1>2. SameTables /\ \A k \in DOMAIN open : k # n => SameOpen(k)
  BY <1>1, SameOpenIf DEF SameTables
<1>3. Classified' /\ Overridden' /\ OneOrRecat'
  BY <1>1, <1>2, ClassifiedStays
<1>4. Whole3'
  <2> SUFFICES ASSUME NEW k \in DOMAIN open' PROVE (WholePoll(k) /\ WholeRules(k) /\ RuleThere(k))'
    BY DEF Whole3
  <2>1. CASE k = n
    BY <1>1, <2>1 DEF WholePoll, WholeRules, RuleThere
  <2>2. CASE k # n
    BY <1>1, <1>2, <2>2, WholeStays DEF Whole3
  <2> QED BY <2>1, <2>2
<1>5. Judging'
  <2> SUFFICES ASSUME NEW k \in DOMAIN open', open'[k].kind \in {"message", "rules"},
                      NEW r \in open'[k].effect.put["responses"], Text(r.poll)', ~Loose(r.poll, r.id)'
               PROVE  Judges(k, r)'
    BY DEF Judging
  <2>1. CASE k = n
    BY <1>1, <2>1, FiledJudges
  <2>2. CASE k # n
    BY <1>1, <1>2, <2>2, JudgesStays
  <2> QED BY <2>1, <2>2
<1> QED BY <1>3, <1>4, <1>5

Classifying == Whole3 /\ Overridden /\ OneOrRecat /\ Judging /\ Classified

LEMMA NextClassified ==
  ASSUME RequestsOK, WaitsOK, Owning, ResponsesOK, LabelsOK, DefaultsOK, TablesOK, RulesFixed, ResponsesThere,
         BooksOK, ScopesOK, Classifying, [Next]_vars
  PROVE  Classifying'
<1>1. BooksOK' /\ Grows
  BY NextBooks
<1>2. NewSources
  BY NextSources
<1>3. Whole3 /\ Overridden /\ OneOrRecat /\ Judging /\ Classified
  BY DEF Classifying
<1>4. CASE \E t : Begins(t) /\ Wellformed(t) /\ Grounded(t)
  BY <1>1, <1>2, <1>3, <1>4, ClassifiedBegun DEF Classifying
<1>5. CASE \E n \in DOMAIN open : PollPhase(n)
  BY <1>1, <1>2, <1>3, <1>5, ClassifiedFiled DEF Classifying
<1>6. CASE \E n \in DOMAIN open : Finish(n)
  <2>1. PICK n \in DOMAIN open : Finish(n)
    BY <1>6
  <2>2. Judging' /\ Classified'
    BY <1>2, <1>3, <2>1, ClassifiedOver
  <2>3. Whole3'
    BY <1>3, <2>1, WholeOver
  <2>4. Overridden' /\ OneOrRecat'
    BY <1>3, <2>1, OverriddenOver, RecatOver
  <2> QED BY <2>2, <2>3, <2>4 DEF Classifying
<1>7. CASE Still
  BY <1>1, <1>2, <1>3, <1>7, ClassifiedStill DEF Classifying
<1> QED BY <1>4, <1>5, <1>6, <1>7, AnswerSteps

-----------------------------------------------------------------------------
(***************************************************************************)
(* The classification of responses.                                        *)
(***************************************************************************)

LEMMA BooksInit ==
  ASSUME Init
  PROVE  BooksOK
<1>1. PICK w \in Workloads : db = w.db /\ DOMAIN open = {} /\ serial = 0
  BY DEF Init
<1>2. /\ \A r \in db["rules"] \cup db["categories"] : r.id \notin Nat \ {0}
      /\ \A q \in db["rules"] : RuleRow(q)
  BY <1>1, RulesAssumption DEF RulesAssumption, RuleRow
<1>3. PollsRefer(db) /\ Unique(db["rules"]) /\ Unique(db["categories"])
  BY <1>1, AnswersThere, TablesAssumption DEF TablesAssumption, Unique
<1>4. \A T : \A r : Stands(T, r) <=> r \in db[T]
  BY <1>1 DEF Stands
<1>5. \A i : i \notin Nat \ {0} => Issued(i)
  BY <1>1 DEF Issued
<1>6. OnePoll
  BY <1>2, <1>3, <1>4, <1>5 DEF OnePoll, InPoll, Unique
<1>7. OneCategory
  <2> SUFFICES ASSUME NEW q \in db["rules"]
               PROVE  /\ RuleRow(q) /\ Issued(q.id) /\ Issued(q.category)
                      /\ \A x \in db["rules"] : x.id = q.id => x.category = q.category
    BY <1>4 DEF OneCategory
  <2>1. PICK c \in db["categories"] : c.id = q.category
    BY <1>3 DEF PollsRefer, Ids
  <2> QED BY <1>2, <1>3, <1>5, <2>1 DEF Unique
<1> QED BY <1>1, <1>6, <1>7 DEF BooksOK

\* What the classification of responses rests on.
ClassifiedHold ==
  TypesHold /\ LabelsOK /\ RulesFixed /\ ResponsesThere /\ BooksOK /\ ScopesOK /\ Classifying

LEMMA ClassifiedInit ==
  ASSUME Init
  PROVE  ClassifiedHold
<1>1. PICK w \in Workloads : db = w.db /\ DOMAIN open = {}
  BY DEF Init
<1>2. db["responses"] = {} /\ db["labels"] = {} /\ \A p, q \in db["polls"] : p.id = q.id => p = q
  BY <1>1, IncomingAssumption DEF IncomingAssumption
<1>3. LabelsOK
  BY <1>1, <1>2 DEF LabelsOK, LabelRows, LabelsPut, LabelsTaken, Unique
<1>4. RulesFixed /\ ResponsesThere
  BY <1>1, <1>2 DEF RulesFixed, RuleFixed, Alike, CreatesOwn, SavesThere, Source, ResponsesThere
<1>5. \A p : OneIn(db["categories"], p)
  BY <1>1, CategoriesAssumption DEF CategoriesAssumption, OneIn, DefaultOf
<1>6. ScopesOK /\ Whole3 /\ Overridden /\ OneOrRecat /\ Judging /\ Classified
  BY <1>1, <1>2, <1>5 DEF ScopesOK, Whole3, Overridden, OneOrRecat, Judging, Classified
<1> QED BY <1>3, <1>4, <1>6, BooksInit, TypesInit DEF ClassifiedHold, Classifying

LEMMA NextClassifiedHold ==
  ASSUME RequestsOK, ClassifiedHold, [Next]_vars
  PROVE  ClassifiedHold'
<1>1. TypesHold /\ LabelsOK /\ RulesFixed /\ ResponsesThere /\ BooksOK /\ ScopesOK /\ Classifying
  BY DEF ClassifiedHold
<1>2. WaitsOK /\ ResponsesOK /\ Owning /\ DefaultsOK /\ TablesOK
  BY <1>1 DEF TypesHold
<1>3. TypesHold'
  BY <1>1, NextTypes
<1>4. LabelsOK' /\ RulesFixed' /\ ResponsesThere'
  BY <1>1, <1>2, NextLabels, NextSources, NextThere
<1>5. BooksOK' /\ ScopesOK'
  BY <1>1, <1>2, NextBooks, NextScopes
<1>6. Classifying'
  BY <1>1, <1>2, NextClassified
<1> QED BY <1>3, <1>4, <1>5, <1>6 DEF ClassifiedHold

\* A response that the staff has not categorised is where the poll's rules put
\* it: the poll app puts it there by the rules it sees, and a change of the rules
\* puts there every response there is.  Answers, edits and removals may overlap
\* each other.  Excepted are polls of which a change of the rules was open beside
\* a message or another request about it, which leaves answers where the old
\* rules put them, and polls whose categories have changed.
THEOREM ResponsesFollowRules ==
  Spec => []ClassifiedByRules
<1>1. ClassifiedHold => ClassifiedByRules
  <2> SUFFICES ASSUME Classified, NEW p \in TextPolls, NEW r \in db["responses"], r.poll = p.id,
                      Alone("rules", p.id), Alone("recategorised", p.id), Alone("edited", r.id)
               PROVE  LET cats == {l.category : l \in LabelsOf(db, {r})}
                      IN /\ cats = OrDefault(db, p.id, Matching(db, p.id, r.text))
                         /\ r.errors = (cats \cap Errors(db, p.id) # {})
    BY DEF ClassifiedByRules, ClassifiedHold, Classifying
  <2>1. Text(r.poll)
    BY DEF Text, Source, TextPolls
  <2>2. ~Loose(r.poll, r.id)
    BY DEF Loose, Changed, Recat, Edited, Alone
  <2> DEFINE cats == {l.category : l \in LabelsOf(db, {r})}
  <2>3. Agrees(db, r, Into(db["labels"], r.id))
    BY <2>1, <2>2 DEF Classified
  <2>4. cats = Into(db["labels"], r.id)
    BY DEF LabelsOf, Into
  <2>5. Agrees(db, r, cats)
    BY <2>3, <2>4
  <2> HIDE DEF cats
  <2>6. cats = OrDefault(db, p.id, Matching(db, p.id, r.text)) /\ r.errors = (cats \cap Errors(db, p.id) # {})
    BY <2>5 DEF Agrees, RulesGive
  <2> QED BY <2>6 DEF cats
<1> QED BY RequestsStayOK, ClassifiedInit, NextClassifiedHold, <1>1, PTL DEF Spec
=============================================================================
