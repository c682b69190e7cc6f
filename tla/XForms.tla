------------------------------- MODULE XForms -------------------------------
(***************************************************************************)
(* rapidsms_xforms: forms that are filled by SMS, and on the web.          *)
(*                                                                         *)
(* A message is its first word and the segments after it.  A segment is a  *)
(* field's command, a value ("number" or "text"), or both glued together   *)
(* ("age27"); what it lacks is "".  A value of several segments is "text". *)
(***************************************************************************)
EXTENDS Database, Sequences

CONSTANTS
  Forms,     \* by their keywords
  Near,      \* Near[word]: the forms whose keyword is one letter away
  Fields,    \* of a form, in order: command, type ("int" or "text"), required
  Allowed    \* the connections that may submit a form

ASSUME FormsAssumption ==
  \A f \in Forms : \A i, j \in DOMAIN Fields[f] :
    Fields[f][i].command = Fields[f][j].command => i = j

ASSUME NearAssumption == \A word \in DOMAIN Near : Near[word] \subseteq Forms

-----------------------------------------------------------------------------
(***************************************************************************)
(* find_form and parse_sms_submission.                                     *)
(***************************************************************************)

\* The form of the first word; or else the only one near it, if more follows.
find_form(word, segments) ==
  IF word \in Forms THEN {word}
  ELSE IF word \in DOMAIN Near /\ Cardinality(Near[word]) = 1 /\ segments # << >> THEN Near[word]
  ELSE {}

Segments == Seq([command : STRING, value : STRING])

Commands(f)     == {Fields[f][i].command : i \in DOMAIN Fields[f]}
Field(f, c)     == CHOOSE x \in {Fields[f][i] : i \in DOMAIN Fields[f]} : x.command = c
IsCommand(f, s) == s.command \in Commands(f) /\ s.value = ""
Glued(f, s)     == s.command \in Commands(f) /\ s.value = "number"
\* A command by itself, or with the number of an integer field.
Names(f, s)     == IsCommand(f, s) \/ (Glued(f, s) /\ Field(f, s.command).type = "int")

\* What clean_submission takes; a value it does not get is "none".
Fits(field, value) ==
  /\ value # "none" /\ field.type = "int" => value = "number"
  /\ field.required => value # "none"

AsValue(s) == IF s.command = "" THEN s.value ELSE "text"

\* A number glued to any command, where an integer is due, is taken apart.
Splits(f, segments, i) == Fields[f][i].type = "int" /\ Glued(f, segments[i])

\* Segments read as the values of the first fields in order: up to a command, a
\* number glued to one where an integer is due, or a value that does not fit.
Positional(f, segments) ==
  LET fits(i) == /\ i \in DOMAIN Fields[f] \cap DOMAIN segments
                 /\ ~IsCommand(f, segments[i])
                 /\ ~Splits(f, segments, i)
                 /\ Fits(Fields[f][i], AsValue(segments[i]))
  IN CHOOSE k \in 0 .. Len(segments) : (\A i \in 1 .. k : fits(i)) /\ ~fits(k + 1)

\* The value that does not fit ends the first part, and is an error.
Misfit(f, segments) ==
  LET i == Positional(f, segments) + 1
  IN /\ i \in DOMAIN Fields[f] \cap DOMAIN segments
     /\ ~IsCommand(f, segments[i]) /\ ~Splits(f, segments, i)

\* The commands after the first part, and the value of each: what stands before
\* the next one.  Segments before the first command are passed over.
Named(f, segments) ==
  LET k == Positional(f, segments) + 1
      next == IF Misfit(f, segments) THEN k + 1 ELSE k
  IN {i \in next .. Len(segments) :
        \/ Names(f, segments[i])
        \/ i = k /\ k \in DOMAIN Fields[f] /\ Splits(f, segments, k)}

ValueOf(f, segments, i) ==
  LET later == {j \in Named(f, segments) : j > i}
      next  == CHOOSE j \in later \cup {Len(segments) + 1} : \A l \in later : j <= l
      glued == Glued(f, segments[i])
  IN CASE next = i + 1 -> IF glued THEN "number" ELSE "none"
       [] next = i + 2 /\ ~glued -> AsValue(segments[i + 1])
       [] OTHER -> "text"

\* The values given, by where they are: field by field, or by command.
Given(f, segments) ==
  {[at |-> i, command |-> Fields[f][i].command, value |-> AsValue(segments[i])]
     : i \in 1 .. Positional(f, segments)}
  \cup {[at |-> i, command |-> segments[i].command, value |-> ValueOf(f, segments, i)]
     : i \in Named(f, segments)}

Cleaned(f, segments) == {v \in Given(f, segments) : Fits(Field(f, v.command), v.value)}

\* The first value of a field is kept.
Values(f, segments) ==
  LET got == Cleaned(f, segments)
  IN [c \in {v.command : v \in got} |->
        (CHOOSE v \in got : v.command = c /\ \A w \in got : w.command = c => v.at <= w.at).value]

Missing(f, got) == \E c \in Commands(f) \ got : Field(f, c).required

\* Bug: the required fields are not looked for.
BugHasErrors(f, segments) ==
  LET got == Values(f, segments)
  IN \/ Misfit(f, segments) \/ Given(f, segments) # Cleaned(f, segments)
     \/ Cardinality(Given(f, segments)) # Cardinality(DOMAIN got)
     \/ \E c \in DOMAIN got : got[c] = "none"

\* A value that does not fit, two values of a field, a required field without
\* one, or a command without one.
HasErrors(f, segments) ==
  LET got == Values(f, segments)
  IN \/ Misfit(f, segments) \/ Given(f, segments) # Cleaned(f, segments)
     \/ Cardinality(Given(f, segments)) # Cardinality(DOMAIN got)
     \/ Missing(f, DOMAIN got)
     \/ \E c \in DOMAIN got : got[c] = "none"

-----------------------------------------------------------------------------
(***************************************************************************)
(* Submissions.                                                            *)
(***************************************************************************)

SubmissionsOf(d, f) == {s \in d["submissions"] : s.form = f}

\* Bug: the last number is looked for among the sender's submissions.
BugNextConfirmation(d, f, c) ==
  LET given == {s.confirmation : s \in {x \in SubmissionsOf(d, f) : x.conn = c}} \cup {0}
  IN (CHOOSE k \in given : \A j \in given : j <= k) + 1

\* The lock is released before the submission is saved, and long before the
\* transaction commits.
NextConfirmation(d, f, c) ==
  LET given == {s.confirmation : s \in SubmissionsOf(d, f)} \cup {0}
  IN (CHOOSE k \in given : \A j \in given : j <= k) + 1

\* process_sms_submission; one who may not submit the form is told so, and the
\* submission is there, in error.
Submit(d, n, f, c, segments) ==
  Inserted("submissions",
    {[id |-> n, form |-> f, conn |-> c, values |-> Values(f, segments),
      errors |-> HasErrors(f, segments) \/ c \notin Allowed[f],
      confirmation |-> NextConfirmation(d, f, c)]})

\* edit_submission: a value or none for every field, each as clean_submission
\* takes it; the submission is in error no more.
EditSubmission ==
  \E s \in db["submissions"] :
    \E values \in [Commands(s.form) -> {"number", "text", "none"}] :
      /\ \A c \in Commands(s.form) : Fits(Field(s.form, c), values[c])
      /\ Begin(Request("amend", s.id, "written",
                       Saved("submissions", {[s EXCEPT !.values = values, !.errors = FALSE]}),
                       {}, {<<"submission", s.id>>}, {}))

-----------------------------------------------------------------------------
\* A submission that is not in error has a value for every required field of
\* its form, and every value it has fits its field, through any order of values
\* and commands in the message and any edit.
CompleteSubmission ==
  \A s \in db["submissions"] : ~s.errors =>
    /\ ~Missing(s.form, DOMAIN s.values)
    /\ \A c \in DOMAIN s.values : Fits(Field(s.form, c), s.values[c])

\* The confirmation number a sender is told is that of one submission of the
\* form.  Not so if two messages for the form overlap: the lock is not held
\* until the number can be read by others.
UniqueConfirmation ==
  \A s, t \in db["submissions"] :
    s.form = t.form /\ <<"form", s.form>> \notin history /\ s.confirmation = t.confirmation => s = t
=============================================================================
