----------------------------- MODULE MCIncoming -----------------------------
(* Two connections; three scripts on a roster of three days; a text poll of one
   response, and one to be made; a form of an integer and an optional text. *)
EXTENDS Incoming

CONSTANTS c1, c2

MCTables == {"roster", "contacts", "members", "blacklist", "polls", "recipients", "asked",
             "categories", "rules", "responses", "labels", "submissions", "tombstones"}
MCScripts == {"autoreg", "special", "p3", "p6", "smc"}
MCDates == [s \in MCScripts |-> CASE s = "p3" -> <<1, 3>> [] s = "p6" -> <<2>>
                                  [] s = "smc" -> <<2, 3>> [] OTHER -> << >>]
MCGroups == [g \in {"Teachers", "SMC", "p3", "p6"} |->
               CASE g = "p3" -> {"p3"} [] g = "p6" -> {"p6"} [] g = "SMC" -> {"smc"} [] OTHER -> {}]
MCAnswers == {[role |-> 1, grade |-> "p3"], [role |-> 1, grade |-> "p6"], [role |-> 3, grade |-> ""]}

MCFields == [f \in {"att"} |-> << [command |-> "age", type |-> "int", required |-> TRUE],
                                  [command |-> "note", type |-> "text", required |-> FALSE] >>]
MCNear == [w \in {"atts"} |-> {"att"}]
MCAllowed == [f \in {"att"} |-> {c1}]

Say(word)    == [word |-> word, words |-> {}, rest |-> << >>]
Reply(words) == [word |-> "", words |-> words, rest |-> << >>]
Fill(word, rest) == [word |-> word, words |-> {}, rest |-> rest]
Cmd(c)  == [command |-> c, value |-> ""]
Val(v)  == [command |-> "", value |-> v]
Glue(c) == [command |-> c, value |-> "number"]

MCTexts ==
  {Say("join"), Say("quit"), Reply({"yes"}), Reply({"no", "yes"}), Reply({"12"}),
   Fill("att", <<Val("number"), Val("text")>>), Fill("atts", <<Glue("age")>>),
   Fill("att", <<Glue("note")>>),
   Fill("att", <<Val("text"), Cmd("age"), Val("number"), Cmd("note")>>)}

Nothing  == [T \in MCTables |-> {}]
Who(c, grade) == [id |-> c, grade |-> grade, active |-> TRUE]
In(c, group)  == [id |-> <<c, group>>, conn |-> c, group |-> group]
OnRoster(c, s, day) == [id |-> <<0, c, s>>, conn |-> c, script |-> s, day |-> day]
Enrolled ==
  [Nothing EXCEPT !["contacts"] = {Who(c1, "p3"), Who(c2, "")},
     !["members"] = {In(c1, "Teachers"), In(c2, "SMC")},
     !["roster"] = {OnRoster(c1, "p3", 3), OnRoster(c2, "smc", 2)}]
\* A teacher has registered, and somebody else is registering.
Halfway ==
  [Nothing EXCEPT !["contacts"] = {Who(c1, "p3")}, !["members"] = {In(c1, "Teachers")},
     !["roster"] = {OnRoster(c1, "p3", 3), OnRoster(c2, "autoreg", 1)}]
P1 == [id |-> "p1", type |-> "text", rule |-> "one", start |-> 0, ended |-> FALSE]
Yes == -1
No == -2
Unknown == -3
Rule(id, k, w) == [id |-> id, category |-> k, word |-> w]
Sent(c) == [id |-> <<"p1", c>>, poll |-> "p1", conn |-> c]
Polled ==
  [Nothing EXCEPT !["contacts"] = {Who(c, "") : c \in {c1, c2}},
     !["members"] = {In(c, "DEO") : c \in {c1, c2}}, !["polls"] = {P1},
     !["recipients"] = {Sent(c1), Sent(c2)},
     !["categories"] = {Category(Yes, "p1", FALSE), [Category(No, "p1", FALSE) EXCEPT !.error = TRUE],
                        [Category(Unknown, "p1", TRUE) EXCEPT !.error = TRUE]},
     !["rules"] = {Rule(0, Yes, "yes"), Rule(-1, No, "no")}]
\* The poll of one contact.
Solo == [Polled EXCEPT !["contacts"] = {Who(c1, "")}, !["members"] = {In(c1, "DEO")}, !["recipients"] = {Sent(c1)}]

\* It has nobody yet.
Unsent == [Solo EXCEPT !["recipients"] = {}]
\* With two categories, and one rule.
Small == [Solo EXCEPT !["categories"] = {k \in @ : k.id # No}, !["rules"] = {Rule(0, Yes, "yes")}]

Quiet == [k \in Kinds |-> 0]
MCWorkloads ==
  {[db |-> Nothing, left |-> [Quiet EXCEPT !["word"] = 3, !["end"] = 1]],
   [db |-> Nothing, left |-> [Quiet EXCEPT !["word"] = 2, !["end"] = 2]],
   [db |-> Enrolled, left |-> [Quiet EXCEPT !["reporter"] = 1, !["end"] = 1, !["reschedule"] = 1]],
   [db |-> Enrolled, left |-> [Quiet EXCEPT !["reporter"] = 1, !["answer"] = 1, !["end"] = 1]],
   [db |-> Enrolled, left |-> [Quiet EXCEPT !["special"] = 1, !["word"] = 1, !["end"] = 1]],
   [db |-> Enrolled, left |-> [Quiet EXCEPT !["word"] = 3, !["end"] = 2]],
   [db |-> Enrolled, left |-> [Quiet EXCEPT !["word"] = 1, !["end"] = 1, !["now"] = 1]],
   [db |-> Enrolled, left |-> [Quiet EXCEPT !["word"] = 1, !["end"] = 1, !["water"] = 1]],
   [db |-> Polled, left |-> [Quiet EXCEPT !["start"] = 1, !["answer"] = 2, !["remove"] = 1]],
   [db |-> Enrolled, left |-> [Quiet EXCEPT !["word"] = 1, !["end"] = 1, !["reporter"] = 1, !["remove"] = 1]],
   [db |-> Enrolled, left |-> [Quiet EXCEPT !["add"] = 1, !["form"] = 1, !["remove"] = 1]],
   [db |-> Halfway, left |-> [Quiet EXCEPT !["word"] = 1, !["end"] = 2, !["add"] = 1]],
   [db |-> Solo, left |-> [Quiet EXCEPT !["start"] = 1, !["answer"] = 2, !["rules"] = 1]],
   [db |-> Solo, left |-> [Quiet EXCEPT !["start"] = 1, !["answer"] = 1, !["rules"] = 1, !["edit"] = 1]],
   [db |-> Polled, left |-> [Quiet EXCEPT !["start"] = 1, !["answer"] = 3]],
   [db |-> Solo, left |-> [Quiet EXCEPT !["start"] = 1, !["answer"] = 2, !["edit"] = 1, !["erase"] = 1]],
   [db |-> Small, left |-> [Quiet EXCEPT !["start"] = 1, !["answer"] = 1, !["rules"] = 1, !["category"] = 1]],
   [db |-> Solo, left |-> [Quiet EXCEPT !["start"] = 1, !["answer"] = 1, !["edit"] = 1, !["category"] = 1]],
   [db |-> Polled, left |-> [Quiet EXCEPT !["category"] = 2]],
   [db |-> Polled, left |-> [Quiet EXCEPT !["start"] = 1, !["answer"] = 1, !["poll"] = 1]],
   [db |-> Unsent, left |-> [Quiet EXCEPT !["start"] = 1, !["stop"] = 1, !["poll"] = 2, !["answer"] = 1]],
   [db |-> Enrolled, left |-> [Quiet EXCEPT !["create"] = 1, !["start"] = 2, !["stop"] = 1, !["answer"] = 1, !["fail"] = 1]],
   [db |-> Enrolled, left |-> [Quiet EXCEPT !["word"] = 1, !["form"] = 1, !["amend"] = 1]],
   [db |-> Enrolled, left |-> [Quiet EXCEPT !["form"] = 2, !["amend"] = 1]]}
=============================================================================
