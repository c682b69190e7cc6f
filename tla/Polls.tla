-------------------------------- MODULE Polls -------------------------------
(***************************************************************************)
(* rapidsms_polls: polls, what their contacts answer, and the categories   *)
(* that rules or the staff put the answers into.                           *)
(*                                                                         *)
(* An answer is the set of the words in it; a rule puts the answers that   *)
(* have its word into its category; numeric polls have neither.  A poll's  *)
(* start is the number of the request that set its start_date, 0 without   *)
(* one.  Every contact has a language the polls are sent in.               *)
(***************************************************************************)
EXTENDS Database

CONSTANTS
  PollIds,
  Words,       \* what rules look for
  Numbers,     \* the words that are numbers,
  Large        \* and those that are more than PLAUSIBLY_LARGE

ASSUME PollAssumption == Large \subseteq Numbers

Poll == [id : PollIds, type : {"text", "numeric"}, rule : {"one", "all"}, start : Nat, ended : BOOLEAN]

Recipients(d, p)     == {m.conn : m \in {x \in d["recipients"] : x.poll = p}}
PollResponses(d, p)  == {r \in d["responses"] : r.poll = p}
ResponsesOf(d, p, c) == {r \in PollResponses(d, p) : r.conn = c}
LabelsOf(d, R)       == {l \in d["labels"] : \E r \in R : l.response = r.id}
CategoriesOf(d, p)   == {k \in d["categories"] : k.poll = p}
Defaults(d, p)       == {k.id : k \in {x \in CategoriesOf(d, p) : x.default}}
Errors(d, p)         == {k.id : k \in {x \in CategoriesOf(d, p) : x.error}}
RulesOf(d, p)        == {q \in d["rules"] : \E k \in CategoriesOf(d, p) : q.category = k.id}

Category(n, p, default) == [id |-> n, poll |-> p, default |-> default, error |-> FALSE]
Label(n, r, k, override) ==
  [id |-> <<n, r, k>>, response |-> r, category |-> k, override |-> override]
Added(p, C) == Inserted("recipients", {[id |-> <<p, c>>, poll |-> p, conn |-> c] : c \in C})

\* Bug: the labels go and the response stays.
BugErased(d, R) == Deleted("labels", LabelsOf(d, R))

\* Deleting a response takes its labels with it.
Erased(d, R) == Then(Deleted("labels", LabelsOf(d, R)), Deleted("responses", R))

\* What the rules make of an answer.
Matching(d, p, text) == {q.category : q \in {x \in RulesOf(d, p) : x.word \in text}}

\* Without any category, the default one.
OrDefault(d, p, cats) == IF cats = {} THEN Defaults(d, p) ELSE cats

\* categories.get(default=True) raises when there are two.
Raises(d, p, cats) == cats = {} /\ Cardinality(Defaults(d, p)) > 1

-----------------------------------------------------------------------------
(***************************************************************************)
(* The dates of a poll.                                                    *)
(***************************************************************************)

Dates(kind, p, effect) ==
  Request(kind, p, "written", effect, {<<"recipients", p.id>>}, {<<"dates", p.id>>}, {})

\* The same, with other contacts than before.
WithRecipients(t) == [t EXCEPT !.writes = @ \cup t.reads]

\* create_with_bulk, then the response type (send_poll): the contacts that have
\* quit are left out.
CreatePoll ==
  \E p \in PollIds, type \in {"text", "numeric"}, rule \in {"one", "all"} :
    LET row == [id |-> p, type |-> type, rule |-> rule, start |-> 0, ended |-> FALSE]
    IN /\ Select(db, "polls", p) = {} /\ Select(db, "tombstones", <<"polls", p>>) = {}
       /\ \A n \in DOMAIN open : ~(open[n].kind = "create" /\ open[n].on.id = p)
       /\ Begin(WithRecipients(Dates("create", row, Then(Inserted("polls", {row}),
            Added(p, {k.id : k \in {x \in db["contacts"] : Select(db, "blacklist", x.id) = {}}})))))

\* Bug: a poll is started whether it has been or not.
BugStartPoll ==
  \E p \in db["polls"] : Begin([Dates("start", p, NoEffect) EXCEPT !.place = "texts"])

\* start: nothing for a poll that has a start_date.
StartPoll ==
  \E p \in db["polls"] :
    p.start = 0 /\ Begin([Dates("start", p, NoEffect) EXCEPT !.place = "texts"])

Questions(d, n, p) ==
  Inserted("asked", {[id |-> <<n, p, c>>, poll |-> p, conn |-> c] : c \in Recipients(d, p)})

Started(n, p) == Saved("polls", {[p EXCEPT !.start = n]})

\* Bug: the date is saved before the texts are out.
BugMassTextCommits(n) ==
  /\ open[n].kind = "start" /\ open[n].place = "texts"
  /\ CommitPart(n, Started(n, open[n].on), "written", Questions(db, n, open[n].on.id))

\* mass_text commits the questions; then start_date is set, and every column of
\* the poll is saved as it was read.
MassTextCommits(n) ==
  /\ open[n].kind = "start" /\ open[n].place = "texts"
  /\ CommitPart(n, Questions(db, n, open[n].on.id), "written", Started(n, open[n].on))

\* end: every column is saved, start_date among them.
EndPoll ==
  \E p \in db["polls"] : Begin(Dates("stop", p, Saved("polls", {[p EXCEPT !.ended = TRUE]})))

\* edit_poll: every column is saved, though only the contacts change.  Those who
\* are added to a poll that has started are not asked.
EditPoll ==
  \E p \in db["polls"], C \in SUBSET {k.id : k \in db["contacts"]} :
    LET gone == {m \in db["recipients"] : m.poll = p.id /\ m.conn \notin C}
        new  == C \ Recipients(db, p.id)
        e    == Then(Saved("polls", {p}), Then(Deleted("recipients", gone), Added(p.id, new)))
    IN Begin([WithRecipients(Dates("poll", p, e)) EXCEPT
                !.notes = IF p.start = 0 THEN {} ELSE {<<"late", <<p.id, c>>>> : c \in new}])

\* delete_poll: with all that refers to it.
DeletePoll ==
  \E p \in db["polls"] :
    LET all == PollResponses(db, p.id)
    IN Begin(Dates("poll", p,
         Then(Inserted("tombstones", {[id |-> <<"polls", p.id>>]}),
         Then(Erased(db, all),
         Then(Deleted("rules", RulesOf(db, p.id)),
         Then(Deleted("categories", CategoriesOf(db, p.id)),
         Then(Deleted("recipients", {m \in db["recipients"] : m.poll = p.id}),
              Deleted("polls", {p}))))))))

-----------------------------------------------------------------------------
(***************************************************************************)
(* Answers.                                                                *)
(***************************************************************************)

\* One number, and not too large (INVALID_RESPONSE).
Plausible(text) == Cardinality(text \cap Numbers) = 1 /\ text \cap Large = {}

Response(n, p, c, text, bad) ==
  Inserted("responses", {[id |-> n, poll |-> p.id, conn |-> c, text |-> text, errors |-> bad]})

\* Bug: the default category does not make an error.
Bugprocess_response(d, n, p, c, text) ==
  LET cats == IF p.type = "text" THEN Matching(d, p.id, text) ELSE {}
      bad  == cats \cap Errors(d, p.id) # {} \/ (p.type = "numeric" /\ ~Plausible(text))
  IN IF Raises(d, p.id, cats) THEN Response(n, p, c, text, FALSE)
     ELSE Then(Response(n, p, c, text, bad),
               Inserted("labels", {Label(n, n, k, FALSE) : k \in OrDefault(d, p.id, cats)}))

\* The response with its categories, and whether it is in error; without, if
\* there are two defaults to choose from.
process_response(d, n, p, c, text) ==
  LET found == IF p.type = "text" THEN Matching(d, p.id, text) ELSE {}
      cats  == OrDefault(d, p.id, found)
      bad   == cats \cap Errors(d, p.id) # {} \/ (p.type = "numeric" /\ ~Plausible(text))
  IN IF Raises(d, p.id, found) THEN Response(n, p, c, text, FALSE)
     ELSE Then(Response(n, p, c, text, bad), Inserted("labels", {Label(n, n, k, FALSE) : k \in cats}))

\* The poll that takes a contact's answer: the last started of those that run.
Running(d, c) == {p \in d["polls"] : c \in Recipients(d, p.id) /\ p.start # 0 /\ ~p.ended}
Latest(d, c)  == {p \in Running(d, c) : \A q \in Running(d, c) : q.start <= p.start}

\* Bug: any later answer replaces the first.
BugKept(old, new) == TRUE

\* Of two answers to a poll of one response, the new one is kept.
Kept(old, new) == ~new.errors \/ old.errors

\* What the poll app may write: which of several old responses it finds is not
\* defined (there is one at most, or the poll takes all); an error stops it with
\* the response there.
Handle(d, n, c, text) ==
  UNION {LET e   == process_response(d, n, p, c, text)
             new == CHOOSE r \in After(d, e)["responses"] : r.id = n
             old == ResponsesOf(d, p.id, c)
         IN IF p.rule = "all" \/ old = {} \/ Raises(d, p.id, Matching(d, p.id, text)) THEN {e}
            ELSE {IF Kept(r, new) THEN Then(e, Erased(d, {r})) ELSE NoEffect : r \in old}
         : p \in Latest(d, c)}

-----------------------------------------------------------------------------
(***************************************************************************)
(* The staff's pages.                                                      *)
(***************************************************************************)

\* Bug: the staff's categories are dropped with the rules'.
Bugreprocess_responses(d, n, p) ==
  LET all     == PollResponses(d, p)
      cats(r) == OrDefault(d, p, Matching(d, p, r.text))
  IN Then(Deleted("labels", LabelsOf(d, all)),
     Then(Inserted("labels", UNION {{Label(n, r.id, k, FALSE) : k \in cats(r)} : r \in all}),
          Saved("responses", {[r EXCEPT !.errors = cats(r) \cap Errors(d, p) # {}] : r \in all})))

\* What the staff has put a response into.
Overrides(d, r) == {l.category : l \in {x \in LabelsOf(d, {r}) : x.override}}

\* Every response of a text poll is put into the categories of the rules again.
\* The staff's categories stay, and count for nothing in whether it is in error.
reprocess_responses(d, n, p) ==
  LET all     == PollResponses(d, p)
      cats(r) == OrDefault(d, p, Overrides(d, r) \cup Matching(d, p, r.text)) \ Overrides(d, r)
  IN Then(Deleted("labels", {l \in LabelsOf(d, all) : ~l.override}),
     Then(Inserted("labels", UNION {{Label(n, r.id, k, FALSE) : k \in cats(r)} : r \in all}),
          Saved("responses", {[r EXCEPT !.errors = cats(r) \cap Errors(d, p) # {}] : r \in all})))

TextPolls == {p \in db["polls"] : p.type = "text"}

\* The request fails if a response has two default categories to go into.
Change(p, e) ==
  LET d == After(db, e)
  IN /\ \A r \in PollResponses(d, p.id) : ~Raises(d, p.id, Overrides(d, r) \cup Matching(d, p.id, r.text))
     /\ Begin(Request("rules", p.id, "written", Then(e, reprocess_responses(d, serial + 1, p.id)),
                      {<<"categories", p.id>>}, {<<"rules", p.id>>}, {}))

\* add_rule, edit_rule, delete_rule.
ChangeRules ==
  \E p \in TextPolls :
    \/ \E k \in CategoriesOf(db, p.id), w \in Words :
         Change(p, Inserted("rules", {[id |-> serial + 1, category |-> k.id, word |-> w]}))
    \/ \E q \in RulesOf(db, p.id), w \in Words : Change(p, Saved("rules", {[q EXCEPT !.word = w]}))
    \/ \E q \in RulesOf(db, p.id) : Change(p, Deleted("rules", {q}))

\* What the answers and the rules' changes do not look at again.
Recategorised(p, e) ==
  Begin(Request("category", p, "written", e, {<<"rules", p>>}, {<<"categories", p>>}, {<<"recategorised", p>>}))

NoDefaults(p) == Saved("categories", {[k EXCEPT !.default = FALSE] : k \in {x \in CategoriesOf(db, p) : x.default}})

\* Bug: the default category there is stays one.
BugAddCategory ==
  \E p \in db["polls"], default \in BOOLEAN :
    Recategorised(p.id, Inserted("categories", {Category(serial + 1, p.id, default)}))

\* add_category: a new default category takes the place of the old one; nothing
\* is processed again.
AddCategory ==
  \E p \in db["polls"], default \in BOOLEAN :
    Recategorised(p.id, Then(IF default THEN NoDefaults(p.id) ELSE NoEffect,
                             Inserted("categories", {Category(serial + 1, p.id, default)})))

EditCategory ==
  \E k \in db["categories"], default \in BOOLEAN :
    Recategorised(k.poll, Then(IF default THEN NoDefaults(k.poll) ELSE NoEffect,
                                          Saved("categories", {[k EXCEPT !.default = default]})))

\* delete_category: with its rules, and the responses are out of it.
DeleteCategory ==
  \E k \in db["categories"] :
    Recategorised(k.poll,
      Then(Deleted("labels", {l \in db["labels"] : l.category = k.id}),
      Then(Deleted("rules", {q \in db["rules"] : q.category = k.id}), Deleted("categories", {k}))))

\* edit_response: the categories chosen in place of those it has; its error flag
\* is saved as it was.
EditResponse ==
  \E r \in db["responses"] : \E C \in SUBSET CategoriesOf(db, r.poll) :
    /\ \E p \in TextPolls : p.id = r.poll
    /\ Begin(Request("edit", r.id, "written",
         Then(Deleted("labels", LabelsOf(db, {r})),
         Then(Inserted("labels", {Label(serial + 1, r.id, k.id, TRUE) : k \in C}),
              Saved("responses", {r}))),
         {<<"rules", r.poll>>}, {<<"person", r.conn>>}, {<<"edited", r.id>>}))

DeleteResponse ==
  \E r \in db["responses"] :
    Begin(Request("erase", r.id, "written", Erased(db, {r}),
                  {<<"rules", r.poll>>}, {<<"person", r.conn>>}, {}))

-----------------------------------------------------------------------------
(***************************************************************************)
(* Properties.                                                             *)
(***************************************************************************)

\* What a row refers to is there (the foreign keys, at every commit).
PollsRefer(d) ==
  /\ \A T \in {"recipients", "responses", "categories"} : \A r \in d[T] : r.poll \in Ids(d["polls"])
  /\ \A T \in {"rules", "labels"} : \A r \in d[T] : r.category \in Ids(d["categories"])
  /\ \A l \in d["labels"] : l.response \in Ids(d["responses"])

Alone(topic, x) == <<topic, x>> \notin history

\* A poll of one response counts one response of a contact, the last good one:
\* whatever answers, rule changes and edits follow each other.  Not so if two of
\* them overlap: each finds the other's response or none, and a save brings
\* back a response that was replaced.
OneResponsePerContact ==
  \A p \in db["polls"] : p.rule = "one" =>
    \A c \in {r.conn : r \in db["responses"]} :
      Alone("rules", p.id) /\ Alone("person", c) /\ Alone("categories", p.id)
        => Cardinality(ResponsesOf(db, p.id, c)) <= 1

\* A response that the staff has not categorised is in exactly the categories
\* the poll's rules give it now, and in error exactly if one of them is an error
\* category: what process_response says of a new answer, and reprocess_responses
\* of all answers after a change of the rules, are the same, also where answers
\* of one contact, edits and removals overlap.  Not so once a message or another
\* request of the rules was open beside a change of them: such an answer keeps
\* the place the old rules gave it.  Nor of a poll whose categories have changed,
\* since that processes no response again.
ClassifiedByRules ==
  \A p \in TextPolls, r \in db["responses"] :
    /\ r.poll = p.id
    /\ Alone("rules", p.id) /\ Alone("recategorised", p.id) /\ Alone("edited", r.id)
    => LET cats == {l.category : l \in LabelsOf(db, {r})}
       IN /\ cats = OrDefault(db, p.id, Matching(db, p.id, r.text))
          /\ r.errors = (cats \cap Errors(db, p.id) # {})

\* A poll has one default category at most, or its answers are lost on the error:
\* only two changes of its categories that overlap make two.
OneDefault ==
  \A p \in db["polls"] : Alone("categories", p.id) => Cardinality(Defaults(db, p.id)) <= 1

\* Nobody's answer to a poll is there before its question is out: start()
\* commits the questions before the date that opens the poll.  Not so of those
\* who are added to the poll when it has started, or as its dates are changed.
AnswersFollowQuestions ==
  \A r \in db["responses"] :
    Alone("recipients", r.poll) /\ Alone("late", <<r.poll, r.conn>>)
      => \E a \in db["asked"] : a.poll = r.poll /\ a.conn = r.conn

\* A contact gets a poll's question once, unless two requests about its dates
\* overlap or one stops between its two commits.
AskedOnce ==
  \A p \in db["polls"] : \A c \in Recipients(db, p.id) :
    Alone("dates", p.id) /\ Alone("torn", p.id)
      => Cardinality({a \in db["asked"] : a.poll = p.id /\ a.conn = c}) <= 1

Ends(n, kinds) == n \in DOMAIN open /\ n \notin DOMAIN open' /\ open[n].kind \in kinds

\* Only the staff takes a response out of a category the staff has put it in, or
\* one of them goes: whatever rules change, and whatever overlaps.
OverridesKept ==
  \A l \in {x \in db["labels"] : x.override} :
    \/ l \in db'["labels"]
    \/ Select(db', "responses", l.response) = {} \/ Select(db', "categories", l.category) = {}
    \/ \E n \in DOMAIN open : Ends(n, {"edit"}) /\ open[n].on = l.response

Good(d, p, c) == \E r \in ResponsesOf(d, p, c) : ~r.errors

\* A good answer to a poll of one response is not lost to a later bad one, also
\* if answers overlap: only the staff's requests leave the contact without a good
\* one.  Not so of a poll of which a change of the rules was open beside another
\* request: its save brings back a response the answer has replaced.
GoodAnswerKept ==
  \A p \in db["polls"], c \in {r.conn : r \in db["responses"]} :
    p.rule = "one" /\ Good(db, p.id, c) /\ Alone("rules", p.id)
      => Good(db', p.id, c) \/ \E n \in DOMAIN open : Ends(n, {"rules", "edit", "erase", "poll", "remove"})
=============================================================================
