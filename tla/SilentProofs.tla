---------------------------- MODULE SilentProofs ----------------------------
(***************************************************************************)
(* Theorems about the connections that never answer, while no staff        *)
(* schedules anything: for every script, whatever passes fail and roll     *)
(* back.                                                                   *)
(*                                                                         *)
(* With no message there is no answer, no request and no blacklist, and    *)
(* the table changes under nobody but the pass.  The pass works on a       *)
(* version of the table of its own, so the invariant says of both versions *)
(* that a connection has one row at most, with an open session if and only *)
(* if its run has begun; and of the pass, which rows its lists hold and    *)
(* which rows it has closed the session of and not deleted yet.            *)
(***************************************************************************)
EXTENDS EducationAppProofs

\* Nobody reschedules a connection.
Unstaffed == Staffed = {}

Live(t)    == {p \in Pk : t[p].status # "gone"}
Started(t) == {p \in Live(t) : t[p].step # -1}

Quiet == requests = {} /\ inflight = {} /\ blacklist = {}

\* A connection has one row at most, and one session for a row of H.
Single(t)      == \A p, q \in Live(t) : p[1] = q[1] => p = q
Sessions(s, H) == \A c \in Conn : s[c] = IF \E p \in H : p[1] = c THEN 1 ELSE 0
Scheduled(t)   == Recurring =>
  \A c \in Conn : runs[c] < MaxRuns => \E p \in Live(t) : p[1] = c

\* The rows that giveup deletes at the end, and those with a session: the
\* pass has closed that of the condemned rows it is through with, and opened
\* that of the rows it is about to start.
Condemned == IF pc = "expired" THEN expired(at) ELSE need_to_transition(at)
InSession ==
  IF pc \in {"expired", "ending"} THEN Started(View) \ (Condemned \ todo)
  ELSE IF pc = "starting" THEN Started(View) \cup list
  ELSE Started(View)

\* What the pass has read is what it would read again.
Lists ==
  /\ \A p \in list : p[2] <= runs[p[1]]
  /\ pc = "resending" => list = need_to_resend(at)
  /\ pc \in {"moving", "last"} => list = need_to_transition(at)
  /\ pc = "ending" => list \cap Live(View) \subseteq need_to_transition(at)
  /\ pc = "starting" => list = need_to_start
  /\ pc \in {"expired", "ending"} => /\ todo \subseteq Condemned
                                     /\ Recurring => Condemned \subseteq todo
  /\ pc = "expired" => Rule[at] \in GivingUp
  /\ pc \in {"last", "ending"} => at = Last

Committed == Single(db) /\ Sessions(open, Started(db)) /\ Scheduled(db)
Working   == Single(View) /\ Sessions(txopen, InSession) /\ Scheduled(View)

Silent == msgs = 0 => Quiet /\ Committed /\ Working /\ Lists

-----------------------------------------------------------------------------
(***************************************************************************)
(* The pass's version of the table after a write or a commit.              *)
(***************************************************************************)

\* What a write of a version leaves: the pass sees it, up to what the rows
\* that are gone once held; and the table is as it was, or is the version.
LEMMA Versions ==
  ASSUME TypeOK,
         NEW S \in SUBSET Pk, NEW new \in [Pk -> Row], NEW sessions, NEW F,
         Write(S, new, sessions, F) \/ mass_text(new, S, sessions, F),
         \A p \in Pk \ S : new[p] = View[p] \/ (new[p].status = "gone" /\ ~Exists(p))
  PROVE  /\ Live(View)' = Live(new) /\ Started(View)' = Started(new)
         /\ \A p \in Live(new) : View'[p] = new[p]
         /\ txopen' = sessions /\ runs' = RunsAfter(F)
         /\ \/ UNCHANGED <<db, open>>
            \/ db' = new /\ open' = sessions
<1>1. TableOK
  BY DEF TypeOK
<1>2. /\ txopen' = sessions /\ runs' = RunsAfter(F)
      /\ \/ UNCHANGED <<db, open>>
         \/ db' = new /\ open' = sessions
  BY DEF Write, mass_text, Commit
<1>3. \A p \in Pk : View'[p] = new[p] \/ (new[p].status = "gone" /\ View'[p].status = "gone")
  <2>1. /\ \A p \in Pk : View'[p] = new[p] \/ View'[p] = View[p]
        /\ \A p \in S : View'[p] = new[p]
    BY <1>1, WriteView, MassTextView
  <2>. QED BY <2>1 DEF Exists
<1>. HIDE DEF View
<1>4. Live(View)' = Live(new) /\ Started(View)' = Started(new)
  BY <1>3 DEF Live, Started
<1>5. \A p \in Live(new) : View'[p] = new[p]
  BY <1>3 DEF Live
<1>. QED BY <1>2, <1>4, <1>5

\* The same of mass_text.
LEMMA TextVersions ==
  ASSUME TypeOK,
         NEW S \in SUBSET Pk, NEW new \in [Pk -> Row], NEW sessions, NEW F,
         mass_text(new, S, sessions, F),
         \A p \in Pk \ S : new[p] = View[p] \/ (new[p].status = "gone" /\ ~Exists(p))
  PROVE  /\ Live(View)' = Live(new)
         /\ \A p \in Live(new) : View'[p] = new[p]
         /\ runs' = RunsAfter(F)
<1>1. runs' = RunsAfter(F)
  BY MassTextView DEF TypeOK
<1>2. \A p \in Pk : View'[p] = new[p] \/ (new[p].status = "gone" /\ View'[p].status = "gone")
  <2>1. /\ \A p \in Pk : View'[p] = new[p] \/ View'[p] = View[p]
        /\ \A p \in S : View'[p] = new[p]
    BY MassTextView DEF TypeOK
  <2>. QED BY <2>1 DEF Exists
<1>. HIDE DEF View
<1>. QED BY <1>1, <1>2 DEF Live

\* A version with one row and one session for a connection keeps both.
LEMMA Carried ==
  ASSUME TypeOK, Committed,
         NEW S \in SUBSET Pk, NEW new \in [Pk -> Row], NEW sessions, NEW F,
         Write(S, new, sessions, F) \/ mass_text(new, S, sessions, F),
         \A p \in Pk \ S : new[p] = View[p] \/ (new[p].status = "gone" /\ ~Exists(p)),
         Single(new), Sessions(sessions, Started(new)),
         Recurring => \A c \in Conn : RunsAfter(F)[c] < MaxRuns => \E p \in Live(new) : p[1] = c
  PROVE  /\ Committed'
         /\ Single(View)' /\ Sessions(txopen, Started(View))' /\ Scheduled(View)'
<1>1. /\ Live(View)' = Live(new) /\ Started(View)' = Started(new)
      /\ txopen' = sessions /\ runs' = RunsAfter(F)
      /\ \/ UNCHANGED <<db, open>>
         \/ db' = new /\ open' = sessions
  BY Versions
<1>2. \A c \in Conn : runs[c] \in Int /\ runs'[c] \in Int /\ runs[c] <= runs'[c]
  BY <1>1, RunsGrow DEF TypeOK
<1>3. Single(View)' /\ Sessions(txopen, Started(View))' /\ Scheduled(View)'
  BY <1>1 DEF Single, Sessions, Scheduled
<1>4. CASE UNCHANGED <<db, open>>
  <2>1. Live(db)' = Live(db) /\ Started(db)' = Started(db)
    BY <1>4 DEF Live, Started
  <2>2. MaxRuns \in Int
    BY ConstantsAssumption DEF ConstantsAssumption
  <2>. QED BY <1>2, <1>3, <1>4, <2>1, <2>2 DEF Committed, Single, Sessions, Scheduled
<1>5. CASE db' = new /\ open' = sessions
  <2>1. Live(db)' = Live(new) /\ Started(db)' = Started(new)
    BY <1>5 DEF Live, Started
  <2>. QED BY <1>1, <1>3, <1>5, <2>1 DEF Committed, Single, Sessions, Scheduled
<1>. QED BY <1>1, <1>4, <1>5

\* A row that enters step k.
Entered(row, k) == [row EXCEPT !.step = k, !.status = "P", !.age = 0]

LEMMA EnteredRow ==
  ASSUME NEW row \in Row, NEW k \in Steps
  PROVE  /\ Entered(row, k) \in Row /\ Entered(row, k).step = k
         /\ Entered(row, k).status = "P" /\ Entered(row, k).tries = row.tries
<1>1. Entered(row, k) \in Row
  BY RowTypes DEF Entered
<1>. QED BY <1>1 DEF Entered, Row

\* The sessions after the runs of F have ended.
Closed(F) == [c \in Conn |-> IF c \in F THEN txopen[c] - 1 ELSE txopen[c]]

\* What moveon and the texts after it leave of a connection whose row was in S:
\* a row at the step it lands on, or, where the receiver gives the run up, the
\* next one on the roster.
Moved(new, S, F, k) ==
  /\ F = {p[1] : p \in {q \in S : Land[q[1]][k] = Done}}
  /\ \A p \in Pk \ S : p[1] \notin F => new[p] = View[p]
  /\ \A p \in S : p[1] \notin F =>
       new[p] = Bump(Entered(View[p], Land[p[1]][k]))
  /\ \A p \in Pk : p[1] \in F =>
       IF Recurring /\ p[2] = runs[p[1]] + 1
       THEN new[p] = Fresh(-Gap)
       ELSE new[p].status = "gone" /\ new[p] \in {NoRow, View[p]}

\* moveon and its texts write one version of the table, and it is Moved.
LEMMA MoveOnVersion ==
  ASSUME TypeOK, KeysGiven, Quiet, Single(View),
         NEW S \in SUBSET Live(View), NEW k \in Steps, list = S,
         \A p \in S : txopen[p[1]] > 0,
         MoveOn(S, k)
  PROVE  \E new \in [Pk -> Row], rows \in SUBSET Pk, F \in SUBSET Conn :
           /\ mass_text(new, rows, Closed(F), F)
           /\ Moved(new, S, F, k)
           /\ \A p \in Pk \ rows : new[p] = View[p] \/ (new[p].status = "gone" /\ ~Exists(p))
<1>. DEFINE Landing(p) == IF txopen[p[1]] > 0 THEN Land[p[1]][k] ELSE k
            F == {p[1] : p \in {q \in S : Landing(q) = Done}}
            stepped == [p \in Pk |->
                          IF p \notin S THEN View[p]
                          ELSE IF Landing(p) = Done THEN NoRow
                          ELSE [View[p] EXCEPT !.step = Landing(p), !.status = "P", !.age = 0]]
            new == Counted(Rescheduled(stepped, F))
            rows == S \cup {p \in list : Exists(p)} \cup Touched(F)
<1>1. mass_text(new, rows, Closed(F), F)
  BY DEF MoveOn, Closed
<1>2. TableOK /\ list \subseteq Pk /\ S \in SUBSET Pk /\ \A p \in S : Exists(p)
  BY DEF TypeOK, CronOK, Live, Exists
<1>3. F \in SUBSET Conn
  BY <1>2, KeyParts
<1>4. rows \in SUBSET Pk
  <2>. HIDE DEF F
  <2>. QED BY <1>2, TouchedType
<1>5. \A p \in S : Landing(p) = Land[p[1]][k]
  OBVIOUS
<1>6. F = {p[1] : p \in {q \in S : Land[q[1]][k] = Done}}
  <2>1. {q \in S : Landing(q) = Done} = {q \in S : Land[q[1]][k] = Done}
    BY <1>5
  <2>. HIDE DEF Landing
  <2>. QED BY <2>1
<1>7. ASSUME NEW p \in S
      PROVE  /\ p[1] \in F <=> Land[p[1]][k] = Done
             /\ p[1] \notin F => Land[p[1]][k] \in Steps
  <2>1. p[1] \in F <=> Land[p[1]][k] = Done
    <3>. HIDE DEF F
    <3>. QED BY <1>6
  <2>2. Land[p[1]][k] \in 0 .. Done
    BY <1>2, KeyParts, ConstantsAssumption DEF ConstantsAssumption
  <2>3. \A n \in 0 .. Done : n # Done => n \in Steps
    BY ConstantsAssumption DEF Steps, Done, ConstantsAssumption
  <2>. HIDE DEF F
  <2>. QED BY <2>1, <2>2, <2>3
<1>8. \A p \in Pk : View[p] \in Row
  BY <1>2, ViewType
<1>9. ASSUME NEW p \in Pk
      PROVE  /\ p \notin S => stepped[p] = View[p]
             /\ p \in S /\ p[1] \in F => stepped[p] = NoRow
             /\ p \in S /\ p[1] \notin F =>
                  stepped[p] = Entered(View[p], Land[p[1]][k])
  <2>. HIDE DEF F, Landing
  <2>. QED BY <1>5, <1>7 DEF Entered
<1>. HIDE DEF stepped
<1>10. stepped \in [Pk -> Row]
  <2>1. ASSUME NEW p \in Pk PROVE stepped[p] \in Row
    <3>. HIDE DEF F, Landing
    <3>1. CASE p \notin S
      BY <1>8, <1>9, <3>1
    <3>2. CASE p \in S /\ p[1] \in F
      BY <1>9, <3>2, RowTypes
    <3>3. CASE p \in S /\ p[1] \notin F
      <4>1. Land[p[1]][k] \in Steps /\ stepped[p] = Entered(View[p], Land[p[1]][k])
        BY <1>7, <1>9, <3>3
      <4>. QED BY <1>8, <4>1, EnteredRow
    <3>. QED BY <3>1, <3>2, <3>3
  <2>2. stepped = [p \in Pk |-> stepped[p]]
    BY DEF stepped
  <2>. QED BY <2>1, <2>2
<1>. HIDE DEF F
<1>11. new \in [Pk -> Row]
  BY <1>10, RescheduledType, CountedType
<1>12. ASSUME NEW p \in Pk
       PROVE  /\ p[1] \in Conn /\ runs[p[1]] \in Int
              /\ p \in S => p[2] # runs[p[1]] + 1
  <2>1. p[1] \in Conn /\ runs[p[1]] \in Int /\ p[2] \in Int
    BY <1>2, KeyParts, ConstantsAssumption DEF TableOK, ConstantsAssumption
  <2>. QED BY <1>2, <2>1 DEF KeysGiven
<1>13. ASSUME NEW p \in Pk
       PROVE  /\ p[1] \notin F \/ ~Recurring => Rescheduled(stepped, F)[p] = stepped[p]
              /\ p[1] \in F /\ Recurring =>
                   Rescheduled(stepped, F)[p] =
                     IF p[2] = runs[p[1]] + 1 THEN Fresh(-Gap) ELSE NoRow
  BY DEF Rescheduled, Quiet
<1>14. ASSUME NEW p \in Pk
       PROVE  new[p] = IF p \in S /\ Rescheduled(stepped, F)[p].status # "gone"
                       THEN Bump(Rescheduled(stepped, F)[p]) ELSE Rescheduled(stepped, F)[p]
  BY DEF Counted
<1>. HIDE DEF new
<1>15. ASSUME NEW p \in Pk \ S, p[1] \notin F PROVE new[p] = View[p]
  BY <1>9, <1>13, <1>14, <1>15
<1>16. ASSUME NEW p \in S, p[1] \notin F
       PROVE  new[p] = Bump(Entered(View[p], Land[p[1]][k]))
  <2>1. p \in Pk /\ stepped[p] = Entered(View[p], Land[p[1]][k])
    BY <1>2, <1>9, <1>16
  <2>2. stepped[p].status = "P"
    BY <1>7, <1>8, <1>16, <2>1, EnteredRow
  <2>3. Rescheduled(stepped, F)[p] = stepped[p]
    BY <1>13, <1>16, <2>1
  <2>. QED BY <1>14, <2>1, <2>2, <2>3
<1>17. ASSUME NEW p \in Pk, p[1] \in F
       PROVE  IF Recurring /\ p[2] = runs[p[1]] + 1
              THEN new[p] = Fresh(-Gap)
              ELSE new[p].status = "gone" /\ new[p] \in {NoRow, View[p]}
  <2>1. CASE Recurring
    BY <1>12, <1>13, <1>14, <1>17, <2>1 DEF NoRow
  <2>2. CASE ~Recurring
    <3>1. stepped[p].status = "gone" /\ stepped[p] \in {NoRow, View[p]}
      <4>1. CASE p \in S
        <5>1. stepped[p] = NoRow
          BY <1>9, <1>17, <4>1
        <5>. QED BY <5>1 DEF NoRow
      <4>2. CASE p \notin S
        <5>1. PICK q \in S : q[1] = p[1]
          BY <1>6, <1>17
        <5>. QED BY <1>9, <4>2, <5>1 DEF Single, Live
      <4>. QED BY <4>1, <4>2
    <3>. QED BY <1>13, <1>14, <2>2, <3>1
  <2>. QED BY <2>1, <2>2
<1>18. ASSUME NEW p \in Pk \ rows
       PROVE  new[p] = View[p] \/ (new[p].status = "gone" /\ ~Exists(p))
  <2>1. p \notin S
    BY <1>18
  <2>2. CASE p[1] \notin F
    BY <1>15, <2>1, <2>2
  <2>3. CASE p[1] \in F
    <3>1. ~Exists(p)
      <4>1. PICK q \in S : q[1] = p[1]
        BY <1>6, <2>3
      <4>. QED BY <2>1, <4>1 DEF Single, Live, Exists
    <3>2. ~(Recurring /\ p[2] = runs[p[1]] + 1)
      <4>1. ASSUME Recurring, p[2] = runs[p[1]] + 1 PROVE FALSE
        <5>1. p[2] \in Int /\ p[2] <= MaxRuns /\ MaxRuns \in Int
          BY KeyParts, ConstantsAssumption DEF ConstantsAssumption
        <5>2. runs[p[1]] < MaxRuns
          BY <1>12, <4>1, <5>1
        <5>3. RunsAfter(F)[p[1]] = runs[p[1]] + 1
          BY <1>12, <2>3, <4>1, <5>2 DEF RunsAfter, Quiet
        <5>4. p \in Touched(F)
          BY <1>12, <2>3, <4>1, <5>1, <5>3 DEF Touched
        <5>. QED BY <5>4
      <4>. QED BY <4>1
    <3>. QED BY <1>17, <2>3, <3>1, <3>2
  <2>. QED BY <2>2, <2>3
<1>19. Moved(new, S, F, k)
  BY <1>6, <1>15, <1>16, <1>17 DEF Moved
<1>. HIDE DEF rows
<1>. QED BY <1>1, <1>3, <1>4, <1>11, <1>18, <1>19

\* What a bumped row keeps.
LEMMA BumpRow ==
  ASSUME NEW row \in Row
  PROVE  /\ Bump(row) \in Row
         /\ Bump(row).step = row.step /\ Bump(row).status = row.status
         /\ Bump(row).tries = IF row.tries < TopTries THEN row.tries + 1 ELSE row.tries
<1>1. Bump(row) \in Row
  BY RowTypes
<1>. QED BY <1>1 DEF Bump, Row

\* The rows there are after moveon, and those that have begun.
LEMMA MovedRows ==
  ASSUME TypeOK, Single(View),
         NEW S \in SUBSET Live(View), NEW k \in Steps, NEW F \in SUBSET Conn,
         NEW new \in [Pk -> Row], Moved(new, S, F, k)
  PROVE  /\ \A p \in S : p[1] \in F \/ Land[p[1]][k] \in Steps
         /\ \A p \in Pk : p[1] \in F =>
              (p \in Live(new) <=> Recurring /\ p[2] = runs[p[1]] + 1)
         /\ \A p \in Pk : p[1] \notin F => (p \in Live(new) <=> p \in Live(View))
         /\ Started(new) = {p \in Started(View) \cup S : p[1] \notin F}
<1>1. \A p \in Pk : View[p] \in Row /\ p[1] \in Conn
  BY ViewType, KeyParts DEF TypeOK
<1>2. ASSUME NEW p \in S, p[1] \notin F
      PROVE  /\ Land[p[1]][k] \in Steps
             /\ new[p].status = "P" /\ new[p].step = Land[p[1]][k]
  <2>1. p \in Pk /\ Land[p[1]][k] # Done
    BY <1>2 DEF Live, Moved
  <2>2. Land[p[1]][k] \in 0 .. Done
    BY <1>1, <2>1, ConstantsAssumption DEF ConstantsAssumption
  <2>3. \A n \in 0 .. Done : n # Done => n \in Steps
    BY ConstantsAssumption DEF Steps, Done, ConstantsAssumption
  <2>4. Land[p[1]][k] \in Steps
    BY <2>1, <2>2, <2>3
  <2>5. new[p] = Bump(Entered(View[p], Land[p[1]][k]))
    BY <1>2 DEF Moved
  <2>. QED BY <1>1, <2>1, <2>4, <2>5, EnteredRow, BumpRow
<1>3. ASSUME NEW p \in Pk, p[1] \in F
      PROVE  /\ p \in Live(new) <=> Recurring /\ p[2] = runs[p[1]] + 1
             /\ p \notin Started(new)
  BY <1>3 DEF Moved, Live, Started, Fresh
<1>4. ASSUME NEW p \in Pk, p[1] \notin F
      PROVE  /\ p \in Live(new) <=> p \in Live(View)
             /\ p \in Started(new) <=> p \in Started(View) \cup S
  <2>1. CASE p \in S
    <3>1. Land[p[1]][k] \in Steps /\ new[p].status = "P" /\ new[p].step = Land[p[1]][k]
      BY <1>2, <1>4, <2>1
    <3>2. new[p].step # -1
      BY <3>1 DEF Steps
    <3>. QED BY <2>1, <3>1, <3>2 DEF Live, Started
  <2>2. CASE p \notin S
    <3>1. new[p] = View[p]
      BY <1>4, <2>2 DEF Moved
    <3>. QED BY <2>2, <3>1 DEF Live, Started
  <2>. QED BY <2>1, <2>2
<1>5. Started(new) = {p \in Started(View) \cup S : p[1] \notin F}
  <2>1. Started(new) \subseteq Pk /\ Started(View) \cup S \subseteq Pk
    BY DEF Started, Live
  <2>. QED BY <1>3, <1>4, <2>1
<1>. QED BY <1>2, <1>3, <1>4, <1>5

\* After moveon a connection has still one row and one session at most.
LEMMA MovedVersion ==
  ASSUME TypeOK, Quiet, Single(View), Scheduled(View),
         NEW S \in SUBSET Live(View), NEW k \in Steps, NEW F \in SUBSET Conn,
         Sessions(txopen, Started(View) \cup S),
         NEW new \in [Pk -> Row], Moved(new, S, F, k)
  PROVE  /\ Single(new)
         /\ Sessions(Closed(F), Started(new))
         /\ Recurring => \A c \in Conn :
              RunsAfter(F)[c] < MaxRuns => \E p \in Live(new) : p[1] = c
<1>1. /\ \A p \in Pk : p[1] \in F =>
           (p \in Live(new) <=> Recurring /\ p[2] = runs[p[1]] + 1)
      /\ \A p \in Pk : p[1] \notin F => (p \in Live(new) <=> p \in Live(View))
      /\ Started(new) = {p \in Started(View) \cup S : p[1] \notin F}
  BY MovedRows
<1>2. Live(new) \subseteq Pk /\ Live(View) \subseteq Pk
  BY DEF Live
<1>3. Single(new)
  <2>. SUFFICES ASSUME NEW p \in Live(new), NEW q \in Live(new), p[1] = q[1]
                PROVE  p = q
    BY DEF Single
  <2>1. CASE p[1] \in F
    <3>1. p[2] = q[2]
      BY <1>1, <1>2, <2>1
    <3>. QED BY <1>2, <3>1, KeyParts
  <2>2. CASE p[1] \notin F
    BY <1>1, <1>2, <2>2 DEF Single
  <2>. QED BY <2>1, <2>2
<1>4. ASSUME NEW c \in Conn
      PROVE  Closed(F)[c] = IF \E p \in Started(new) : p[1] = c THEN 1 ELSE 0
  <2>1. CASE c \in F
    <3>1. PICK q \in S : q[1] = c
      BY <2>1 DEF Moved
    <3>2. txopen[c] = 1
      BY <3>1 DEF Sessions
    <3>3. ~ \E p \in Started(new) : p[1] = c
      BY <1>1, <2>1
    <3>. QED BY <2>1, <3>2, <3>3 DEF Closed
  <2>2. CASE c \notin F
    <3>1. (\E p \in Started(new) : p[1] = c) <=> (\E p \in Started(View) \cup S : p[1] = c)
      BY <1>1, <2>2
    <3>. QED BY <2>2, <3>1 DEF Sessions, Closed
  <2>. QED BY <2>1, <2>2
<1>5. ASSUME Recurring, NEW c \in Conn, RunsAfter(F)[c] < MaxRuns
      PROVE  \E p \in Live(new) : p[1] = c
  <2>1. runs[c] \in 1 .. MaxRuns /\ MaxRuns \in Nat
    BY ConstantsAssumption DEF TypeOK, TableOK, ConstantsAssumption
  <2>2. runs[c] < MaxRuns
    BY <1>5, <2>1 DEF RunsAfter
  <2>3. CASE c \in F
    <3>1. <<c, runs[c] + 1>> \in Pk
      BY <2>1, <2>2 DEF Pk
    <3>. QED BY <1>1, <1>5, <2>3, <3>1
  <2>4. CASE c \notin F
    <3>1. PICK p \in Live(View) : p[1] = c
      BY <1>5, <2>2 DEF Scheduled
    <3>. QED BY <1>1, <1>2, <2>4, <3>1
  <2>. QED BY <2>3, <2>4
<1>. QED BY <1>3, <1>4, <1>5 DEF Sessions

\* It keeps one row, one session and the roster.
LEMMA MoveOnSilent ==
  ASSUME TypeOK, KeysGiven, Quiet, Committed, Single(View), Scheduled(View),
         NEW S \in SUBSET Live(View), NEW k \in Steps, list = S,
         Sessions(txopen, Started(View) \cup S),
         MoveOn(S, k)
  PROVE  /\ Committed'
         /\ Single(View)' /\ Sessions(txopen, Started(View))' /\ Scheduled(View)'
<1>1. \A p \in S : txopen[p[1]] > 0
  BY KeyParts DEF Sessions, Live
<1>2. PICK new \in [Pk -> Row], rows \in SUBSET Pk, F \in SUBSET Conn :
           /\ mass_text(new, rows, Closed(F), F)
           /\ Moved(new, S, F, k)
           /\ \A p \in Pk \ rows : new[p] = View[p] \/ (new[p].status = "gone" /\ ~Exists(p))
  BY <1>1, MoveOnVersion
<1>3. Moved(new, S, F, k)
  BY <1>2
<1>4. /\ Single(new) /\ Sessions(Closed(F), Started(new))
      /\ Recurring => \A c \in Conn :
           RunsAfter(F)[c] < MaxRuns => \E p \in Live(new) : p[1] = c
  BY <1>3, MovedVersion, ZenonT(60)
<1>. QED BY <1>2, <1>4, Carried

-----------------------------------------------------------------------------
(***************************************************************************)
(* The steps of the pass.                                                  *)
(***************************************************************************)

\* A step that writes no row: everything read from the table stays.
LEMMA SameView ==
  ASSUME UNCHANGED <<db, tx, held, runs>>
  PROVE  /\ View' = View
         /\ Live(db)' = Live(db) /\ Started(db)' = Started(db)
         /\ Live(View)' = Live(View) /\ Started(View)' = Started(View)
         /\ Single(db)' = Single(db) /\ Single(View)' = Single(View)
         /\ Scheduled(db)' = Scheduled(db) /\ Scheduled(View)' = Scheduled(View)
         /\ need_to_start' = need_to_start
         /\ at' = at => /\ expired(at)' = expired(at)
                        /\ need_to_resend(at)' = need_to_resend(at)
                        /\ need_to_transition(at)' = need_to_transition(at)
<1>1. View' = View
  BY DEF View
<1>2. /\ Live(db)' = Live(db) /\ Started(db)' = Started(db)
      /\ Live(View)' = Live(View) /\ Started(View)' = Started(View)
  BY <1>1 DEF Live, Started
<1>3. /\ Single(db)' = Single(db) /\ Single(View)' = Single(View)
      /\ Scheduled(db)' = Scheduled(db) /\ Scheduled(View)' = Scheduled(View)
  BY <1>2 DEF Single, Scheduled
<1>4. need_to_start' = need_to_start
  BY <1>1 DEF need_to_start, Exists
<1>5. ASSUME at' = at
      PROVE  /\ expired(at)' = expired(at)
             /\ need_to_resend(at)' = need_to_resend(at)
             /\ need_to_transition(at)' = need_to_transition(at)
  BY <1>1, <1>5 DEF expired, need_to_resend, need_to_transition, Exists, TriesSpent
<1>. QED BY <1>1, <1>2, <1>3, <1>4, <1>5

\* The rows a queryset returns are there, given out, and, but for those to
\* start, begun.
LEMMA RowsKnown ==
  ASSUME TypeOK, KeysGiven
  PROVE  /\ expired(at) \in SUBSET Started(View)
         /\ need_to_resend(at) \in SUBSET Started(View)
         /\ need_to_transition(at) \in SUBSET Started(View)
         /\ need_to_start \in SUBSET (Live(View) \ Started(View))
         /\ \A p \in Live(View) : p[2] <= runs[p[1]]
<1>1. at # -1
  BY DEF TypeOK, CronOK, Steps
<1>. QED BY <1>1 DEF KeysGiven, expired, need_to_resend, need_to_transition, need_to_start,
                     Live, Started, Exists

\* A version that has the rows of the pass's, at their steps.
LEMMA SameRows ==
  ASSUME NEW t, NEW u, \A p \in Pk : t[p].step = u[p].step /\ (t[p].status = "gone" <=> u[p].status = "gone")
  PROVE  Live(t) = Live(u) /\ Started(t) = Started(u)
BY DEF Live, Started

\* Where neither a run is about to start nor one about to be deleted, the runs
\* that have begun are those with a session.
Plain == pc \notin {"expired", "ending", "starting"}

LEMMA PlainPhase ==
  ASSUME Plain
  PROVE  InSession = Started(View)
BY DEF Plain, InSession

LEMMA PlainPhaseAfter ==
  ASSUME Plain'
  PROVE  InSession' = Started(View)'
BY DEF Plain, InSession

\* A write that leaves no list.
LEMMA QuietWrite ==
  ASSUME TypeOK, Committed,
         NEW S \in SUBSET Pk, NEW new \in [Pk -> Row], NEW sessions,
         Write(S, new, sessions, {}) \/ mass_text(new, S, sessions, {}),
         \A p \in Pk \ S : new[p] = View[p],
         Single(new), Sessions(sessions, Started(new)),
         Recurring => \A c \in Conn : runs[c] < MaxRuns => \E p \in Live(new) : p[1] = c,
         Plain', pc' \notin {"resending", "moving", "last"},
         \A p \in list' : p[2] <= runs[p[1]]
  PROVE  Committed' /\ Working' /\ Lists'
<1>1. RunsAfter({}) = runs
  BY DEF RunsAfter, TypeOK, TableOK
<1>2. /\ Committed'
      /\ Single(View)' /\ Sessions(txopen, Started(View))' /\ Scheduled(View)'
  BY <1>1, Carried
<1>3. runs' = runs
  BY <1>1 DEF Write, mass_text, Commit
<1>4. InSession' = Started(View)'
  BY PlainPhaseAfter
<1>5. Working'
  BY <1>2, <1>4 DEF Working, Sessions
<1>6. Lists'
  BY <1>3 DEF Lists, Plain
<1>. QED BY <1>2, <1>5, <1>6

\* The rows of S are changed, at the same step.
LEMMA UpdateSilent ==
  ASSUME TypeOK, Committed, Working, Lists, Plain,
         NEW S \in SUBSET Pk, NEW new \in [Pk -> Row],
         Write(S, new, txopen, {}) \/ mass_text(new, S, txopen, {}),
         \A p \in Pk \ S : new[p] = View[p],
         \A p \in S : /\ new[p].step = View[p].step
                      /\ new[p].status # "gone" /\ Exists(p),
         Plain', pc' \notin {"resending", "moving", "last"},
         list' \subseteq list
  PROVE  Committed' /\ Working' /\ Lists'
<1>1. Live(new) = Live(View) /\ Started(new) = Started(View)
  BY SameRows DEF Exists
<1>2. /\ Single(new) /\ Sessions(txopen, Started(new))
      /\ Recurring => \A c \in Conn : runs[c] < MaxRuns => \E p \in Live(new) : p[1] = c
  BY <1>1, PlainPhase DEF Working, Single, Sessions, Scheduled
<1>3. \A p \in list' : p[2] <= runs[p[1]]
  BY DEF Lists
<1>. QED BY <1>2, <1>3, QuietWrite

\* The condemned rows are deleted, their sessions closed before.
LEMMA DeleteSilent ==
  ASSUME TypeOK, KeysGiven, Committed, Working, Lists,
         pc \in {"expired", "ending"}, todo = {},
         NEW rows \in SUBSET Pk, Condemned \subseteq rows,
         NEW new \in [Pk -> Row],
         Write(rows, new, txopen, {}) \/ mass_text(new, rows, txopen, {}),
         \A p \in Pk \ rows : new[p] = View[p],
         \A p \in Condemned : new[p].status = "gone",
         \A p \in Pk \ Condemned : /\ new[p].step = View[p].step
                                   /\ new[p].status = "gone" <=> ~Exists(p),
         Plain', pc' \notin {"resending", "moving", "last"},
         list' \subseteq list
  PROVE  Committed' /\ Working' /\ Lists'
<1>1. Condemned \in SUBSET Started(View)
  BY RowsKnown DEF Condemned
<1>2. /\ Live(new) = Live(View) \ Condemned
      /\ Started(new) = Started(View) \ Condemned
  BY DEF Live, Started, Exists
<1>3. Sessions(txopen, Started(new))
  BY <1>2 DEF Working, InSession, Sessions
<1>4. Single(new)
  BY <1>2 DEF Working, Single
<1>5. Recurring => \A c \in Conn : runs[c] < MaxRuns => \E p \in Live(new) : p[1] = c
  <2>1. Recurring => Condemned = {}
    BY DEF Lists
  <2>. QED BY <1>2, <2>1 DEF Working, Scheduled
<1>6. \A p \in list' : p[2] <= runs[p[1]]
  BY DEF Lists
<1>. QED BY <1>3, <1>4, <1>5, <1>6, QuietWrite

\* giveup of one run: its session is closed and, where the roster has dates,
\* its row gives way to the next one.
LEMMA GiveUpVersion ==
  ASSUME TypeOK, KeysGiven, Quiet, Working, Lists, NEW p \in Pk, GiveUpOne(p)
  PROVE  /\ p \in Condemned /\ p \in Started(View) /\ View[p].step = at
         /\ UNCHANGED <<db, open, sent, pc, at, list>> /\ todo' = todo \ {p}
         /\ runs' = RunsAfter({p[1]})
         /\ txopen' = [txopen EXCEPT ![p[1]] = 0]
         /\ ~Recurring => \A q \in Pk : View'[q] = View[q]
         /\ \A q \in Pk : q[1] # p[1] => View'[q] = View[q]
         /\ Recurring => \A q \in Pk : q[1] = p[1] =>
              IF q[2] = runs[p[1]] + 1 THEN View'[q] = Fresh(-Gap)
                                       ELSE View'[q].status = "gone"
<1>. DEFINE c == p[1]
            F == IF txopen[c] > 0 THEN {c} ELSE {}
            sessions == [txopen EXCEPT ![c] = IF @ > 0 THEN @ - 1 ELSE @]
<1>1. /\ pc \in {"expired", "ending"} /\ p \in todo
      /\ Write(Touched(F), Rescheduled(View, F), sessions, F)
      /\ UNCHANGED <<sent, pc, at, list>> /\ todo' = todo \ {p}
  BY DEF GiveUpOne, Goto
<1>2. p \in Condemned /\ p \in Started(View) /\ View[p].step = at /\ c \in Conn
  <2>1. p \in Condemned
    BY <1>1 DEF Lists
  <2>2. View[p].step = at
    BY <2>1 DEF Condemned, expired, need_to_transition
  <2>. QED BY <2>1, <2>2, RowsKnown, KeyParts DEF Condemned
<1>3. txopen[c] = 1
  BY <1>1, <1>2 DEF Working, InSession, Sessions
<1>4. F = {c} /\ sessions = [txopen EXCEPT ![c] = 0]
  BY <1>3
<1>5. Write(Touched({c}), Rescheduled(View, {c}), [txopen EXCEPT ![c] = 0], {c})
  BY <1>1, <1>4
<1>6. /\ UNCHANGED <<db, open>> /\ runs' = RunsAfter({c}) /\ txopen' = [txopen EXCEPT ![c] = 0]
      /\ View' = [q \in Pk |-> IF q \in held \cup Touched({c})
                               THEN Rescheduled(View, {c})[q] ELSE db[q]]
  BY <1>5 DEF Write, View
<1>7. ASSUME NEW q \in Pk, q[1] # c \/ ~Recurring PROVE View'[q] = View[q]
  <2>1. Rescheduled(View, {c})[q] = View[q] /\ q \notin Touched({c})
    BY <1>7 DEF Rescheduled, Touched
  <2>. QED BY <1>6, <2>1 DEF View
<1>8. ASSUME Recurring, NEW q \in Pk, q[1] = c
      PROVE  IF q[2] = runs[c] + 1 THEN View'[q] = Fresh(-Gap) ELSE View'[q].status = "gone"
  <2>1. Rescheduled(View, {c})[q] = IF q[2] = runs[c] + 1 THEN Fresh(-Gap) ELSE NoRow
    BY <1>8 DEF Rescheduled, Quiet
  <2>2. CASE q \in Touched({c})
    <3>1. View'[q] = Rescheduled(View, {c})[q]
      BY <1>6, <2>2
    <3>. QED BY <2>1, <3>1 DEF NoRow
  <2>3. CASE q \notin Touched({c})
    <3>1. /\ q[2] \in Int /\ q[2] <= MaxRuns /\ MaxRuns \in Int
          /\ runs[c] \in Int /\ runs[c] <= MaxRuns
      BY <1>2, KeyParts, ConstantsAssumption DEF TypeOK, TableOK, ConstantsAssumption
    <3>2. RunsAfter({c})[c] = IF runs[c] < MaxRuns THEN runs[c] + 1 ELSE runs[c]
      BY <1>2, <1>8 DEF RunsAfter, Quiet
    <3>3. q[2] > RunsAfter({c})[c]
      BY <1>8, <2>3, <3>1, <3>2 DEF Touched
    <3>4. q[2] # runs[c] + 1 /\ q[2] > runs[c]
      BY <3>1, <3>2, <3>3
    <3>5. db[q].status = "gone"
      BY <1>8, <3>1, <3>4 DEF KeysGiven
    <3>. QED BY <1>6, <2>1, <3>4, <3>5 DEF NoRow
  <2>. QED BY <2>2, <2>3
<1>. QED BY <1>1, <1>2, <1>6, <1>7, <1>8

\* The rows of other connections are condemned as before.
LEMMA CondemnedOthers ==
  ASSUME UNCHANGED <<pc, at>>, NEW q \in Pk, View'[q] = View[q]
  PROVE  (q \in Condemned)' <=> q \in Condemned
<1>1. q' = q
  OBVIOUS
<1>. QED BY DEF Condemned, expired, need_to_transition, Exists, TriesSpent

\* The pass keeps the invariant through giveup, one row at a time.
LEMMA GiveUpSilent ==
  ASSUME TypeOK, KeysGiven, Quiet, Committed, Working, Lists, NEW p \in Pk, GiveUpOne(p)
  PROVE  Committed' /\ Working' /\ Lists'
<1>. DEFINE c == p[1]
<1>1. /\ pc \in {"expired", "ending"} /\ p \in todo /\ c \in Conn
      /\ p \in Condemned /\ p \in Live(View)
      /\ UNCHANGED <<db, open, pc, at, list>> /\ todo' = todo \ {p}
      /\ runs' = RunsAfter({c})
      /\ txopen' = [txopen EXCEPT ![c] = 0]
  BY GiveUpVersion, KeyParts DEF GiveUpOne, Started
<1>2. ASSUME NEW q \in Pk, q[1] # c \/ ~Recurring
      PROVE  /\ q \in Live(View)' <=> q \in Live(View)
             /\ q \in Started(View)' <=> q \in Started(View)
             /\ q \in Condemned' <=> q \in Condemned
  <2>1. View'[q] = View[q]
    BY <1>2, GiveUpVersion
  <2>2. q \in Condemned' <=> q \in Condemned
    BY <1>1, <2>1, CondemnedOthers
  <2>. QED BY <2>1, <2>2 DEF Live, Started
<1>3. ASSUME Recurring, NEW q \in Pk, q[1] = c
      PROVE  /\ q \in Live(View)' <=> q[2] = runs[c] + 1
             /\ q \notin Started(View)' /\ q \notin Condemned'
  <2>1. IF q[2] = runs[c] + 1 THEN View'[q] = Fresh(-Gap) ELSE View'[q].status = "gone"
    BY <1>3, GiveUpVersion
  <2>. QED BY <2>1 DEF Live, Started, Condemned, expired, need_to_transition, Fresh
<1>4. /\ Live(View) \subseteq Pk /\ Live(View)' \subseteq Pk
      /\ Started(View) \subseteq Live(View) /\ Started(View)' \subseteq Live(View)'
      /\ Condemned \subseteq Pk /\ Condemned' \subseteq Pk
  BY QuerySets DEF Live, Started, Condemned, expired, need_to_transition
<1>. HIDE DEF c
<1>5. Single(View)'
  <2>. SUFFICES ASSUME NEW q \in Live(View)', NEW r \in Live(View)', q[1] = r[1]
                PROVE  q = r
    BY DEF Single
  <2>1. CASE q[1] # c \/ ~Recurring
    BY <1>2, <1>4, <2>1 DEF Working, Single
  <2>2. CASE q[1] = c /\ Recurring
    <3>1. q \in Pk /\ r \in Pk /\ r[1] = c
      BY <1>4, <2>2
    <3>2. q[2] = runs[c] + 1
      BY <1>3, <2>2, <3>1
    <3>3. r[2] = runs[c] + 1
      BY <1>3, <2>2, <3>1
    <3>. QED BY <3>1, <3>2, <3>3, KeyParts
  <2>. QED BY <2>1, <2>2
<1>6. ASSUME NEW d \in Conn
      PROVE  txopen'[d] = IF \E q \in InSession' : q[1] = d THEN 1 ELSE 0
  <2>1. /\ InSession = Started(View) \ (Condemned \ todo)
        /\ InSession' = Started(View)' \ (Condemned' \ todo')
    BY <1>1 DEF InSession
  <2>2. txopen'[d] = IF d = c THEN 0 ELSE txopen[d]
    BY <1>1 DEF TypeOK, TableOK
  <2>3. CASE d # c
    <3>1. \A q \in Pk : q[1] = d => (q \in InSession' <=> q \in InSession)
      BY <1>1, <1>2, <2>1, <2>3 DEF c
    <3>. QED BY <1>4, <2>1, <2>2, <2>3, <3>1 DEF Working, Sessions
  <2>4. CASE d = c
    <3>1. ASSUME NEW q \in InSession', q[1] = c PROVE FALSE
      <4>1. ~Recurring /\ q \in Pk
        BY <1>3, <1>4, <2>1, <3>1
      <4>2. q = p
        BY <1>1, <1>2, <1>4, <2>1, <3>1, <4>1 DEF Working, Single, c
      <4>. QED BY <1>1, <1>2, <2>1, <3>1, <4>1, <4>2
    <3>. QED BY <2>2, <2>4, <3>1
  <2>. QED BY <2>3, <2>4
<1>7. \A d \in Conn : /\ runs[d] \in Int /\ runs'[d] \in Int /\ runs[d] <= runs'[d]
                      /\ MaxRuns \in Int
  BY <1>1, RunsGrow, ConstantsAssumption DEF TypeOK, ConstantsAssumption
<1>8. ASSUME Recurring, NEW d \in Conn, runs'[d] < MaxRuns
      PROVE  \E q \in Live(View)' : q[1] = d
  <2>1. runs[d] < MaxRuns
    BY <1>7, <1>8
  <2>2. CASE d # c
    <3>1. PICK q \in Live(View) : q[1] = d
      BY <1>8, <2>1 DEF Working, Scheduled
    <3>. QED BY <1>2, <1>4, <2>2, <3>1
  <2>3. CASE d = c
    <3>1. <<c, runs[c] + 1>> \in Pk
      BY <1>7, <2>1, <2>3, ConstantsAssumption
         DEF Pk, TypeOK, TableOK, ConstantsAssumption
    <3>. QED BY <1>3, <1>8, <2>3, <3>1
  <2>. QED BY <2>2, <2>3
<1>9. Committed'
  <2>1. Live(db)' = Live(db) /\ Started(db)' = Started(db)
    BY <1>1 DEF Live, Started
  <2>. QED BY <1>1, <1>7, <2>1 DEF Committed, Single, Sessions, Scheduled
<1>10. Working'
  BY <1>5, <1>6, <1>8 DEF Working, Sessions, Scheduled
<1>11. Lists'
  <2>1. \A q \in list' : q \in Pk /\ q[1] \in Conn /\ q[2] <= runs[q[1]] /\ q[2] \in Int
    BY <1>1, KeyParts DEF Lists, TypeOK, CronOK
  <2>2. \A q \in list' : q[2] <= runs'[q[1]]
    BY <1>7, <2>1
  <2>3. pc' = "ending" => list' \cap Live(View)' \subseteq need_to_transition(at)'
    <3>. SUFFICES ASSUME pc = "ending", NEW q \in list, q \in Live(View)'
                  PROVE  q \in Condemned'
      BY <1>1 DEF Condemned
    <3>1. q[1] # c \/ ~Recurring
      BY <1>1, <1>3, <1>7, <2>1
    <3>2. q \in Condemned
      BY <1>1, <1>2, <2>1, <3>1 DEF Lists, Condemned
    <3>. QED BY <1>1, <1>2, <2>1, <3>1, <3>2
  <2>4. /\ todo' \subseteq Condemned'
        /\ Recurring => Condemned' \subseteq todo'
    <3>1. ASSUME NEW q \in todo' PROVE q \in Condemned'
      <4>1. q \in Condemned /\ q # p /\ q \in Live(View) /\ q \in Pk
        BY <1>1, <1>4, <3>1, RowsKnown DEF Lists, Condemned
      <4>2. q[1] # c
        BY <1>1, <4>1 DEF Working, Single, c
      <4>. QED BY <1>2, <4>1, <4>2
    <3>2. ASSUME Recurring, NEW q \in Condemned' PROVE q \in todo'
      <4>1. q \in Pk /\ q[1] # c
        BY <1>3, <1>4, <3>2
      <4>2. q \in Condemned /\ q # p
        BY <1>2, <4>1 DEF c
      <4>. QED BY <1>1, <3>2, <4>2 DEF Lists
    <3>. QED BY <3>1, <3>2
  <2>. QED BY <1>1, <2>2, <2>3, <2>4 DEF Lists
<1>. QED BY <1>9, <1>10, <1>11

\* A step that writes nothing, to a phase whose list it reads.
LEMMA ReadSilent ==
  ASSUME TypeOK, KeysGiven, Committed, Working, Lists, Plain,
         UNCHANGED <<table, at>>,
         list' \subseteq list \cup Live(View),
         pc' \in {"expired", "ending"} => todo' = Condemned',
         pc' = "expired" => Rule[at] \in GivingUp,
         pc' = "resending" => list' = need_to_resend(at),
         pc' \in {"moving", "last"} => list' = need_to_transition(at),
         pc' = "ending" => list' \subseteq need_to_transition(at),
         pc' \in {"last", "ending"} => at = Last,
         pc' # "starting"
  PROVE  Committed' /\ Working' /\ Lists'
<1>1. UNCHANGED <<db, tx, held, runs, open, txopen>>
  BY DEF table
<1>2. Committed'
  BY <1>1, SameView DEF Committed, Sessions
<1>3. InSession' = InSession
  BY <1>1, SameView DEF InSession, Plain
<1>4. Working'
  BY <1>1, <1>3, SameView DEF Working, Sessions
<1>5. \A p \in list' : p[2] <= runs'[p[1]]
  BY <1>1, RowsKnown DEF Lists
<1>6. Lists'
  BY <1>1, <1>5, SameView DEF Lists
<1>. QED BY <1>2, <1>4, <1>6

\* Going to the next step of the loop is reading nothing.
LEMMA IdleSilent ==
  ASSUME TypeOK, KeysGiven, Committed, Working, Lists, Plain,
         UNCHANGED table, list' \subseteq list,
         Plain', pc' \notin {"resending", "moving", "last"}
  PROVE  Committed' /\ Working' /\ Lists'
<1>1. UNCHANGED <<db, tx, held, runs, open, txopen>>
  BY DEF table
<1>2. Committed'
  BY <1>1, SameView DEF Committed, Sessions
<1>3. InSession' = InSession
  BY <1>1, SameView, PlainPhase, PlainPhaseAfter
<1>4. Working'
  BY <1>1, <1>3, SameView DEF Working, Sessions
<1>5. Lists'
  BY <1>1 DEF Lists, Plain
<1>. QED BY <1>2, <1>4, <1>5

\* moveon and its texts.
LEMMA MovingSilent ==
  ASSUME TypeOK, KeysGiven, Quiet, Committed, Working, Lists,
         NEW S \in SUBSET Live(View), NEW k \in Steps, list = S,
         InSession = Started(View) \cup S,
         MoveOn(S, k), Plain', pc' \notin {"resending", "moving", "last"}
  PROVE  Committed' /\ Working' /\ Lists'
<1>1. Single(View) /\ Scheduled(View) /\ Sessions(txopen, Started(View) \cup S)
  BY DEF Working
<1>2. /\ Committed'
      /\ Single(View)' /\ Sessions(txopen, Started(View))' /\ Scheduled(View)'
  BY <1>1, MoveOnSilent
<1>3. InSession' = Started(View)'
  BY PlainPhaseAfter
<1>4. Working'
  BY <1>2, <1>3 DEF Working, Sessions
<1>5. Lists'
  BY DEF MoveOn, Lists, Plain
<1>. QED BY <1>2, <1>4, <1>5

\* A session is created for each row that is to start.
LEMMA SelectStartSilent ==
  ASSUME TypeOK, KeysGiven, Committed, Working, Lists, SelectStart
  PROVE  Committed' /\ Working' /\ Lists'
<1>1. /\ UNCHANGED <<db, tx, held, runs, open, at>>
      /\ pc = "start" /\ list' = need_to_start
      /\ pc' = IF list' = {} THEN "commit" ELSE "starting"
      /\ txopen' = [c \in Conn |-> txopen[c] + Cardinality(RowsOf(c) \cap list')]
  BY DEF SelectStart, Goto
<1>2. Committed'
  BY <1>1, SameView DEF Committed, Sessions
<1>3. /\ InSession = Started(View) /\ InSession' = Started(View) \cup need_to_start
      /\ need_to_start \subseteq Live(View) \ Started(View)
      /\ Live(View) \subseteq Pk /\ Started(View) \subseteq Live(View)
  BY <1>1, SameView, RowsKnown DEF InSession, Live, Started
<1>4. ASSUME NEW c \in Conn
      PROVE  txopen'[c] = IF \E p \in InSession' : p[1] = c THEN 1 ELSE 0
  <2>1. txopen'[c] = txopen[c] + Cardinality(RowsOf(c) \cap need_to_start)
    BY <1>1
  <2>2. CASE \E p \in need_to_start : p[1] = c
    <3>1. PICK p \in need_to_start : p[1] = c
      BY <2>2
    <3>2. RowsOf(c) \cap need_to_start = {p}
      BY <1>3, <3>1 DEF Working, Single, RowsOf
    <3>3. Cardinality({p}) = 1
      BY FS_Singleton
    <3>4. ~ \E q \in Started(View) : q[1] = c
      BY <1>3, <3>1 DEF Working, Single
    <3>5. txopen[c] = 0
      BY <1>3, <3>4 DEF Working, Sessions
    <3>. QED BY <1>3, <2>1, <3>1, <3>2, <3>3, <3>5
  <2>3. CASE ~ \E p \in need_to_start : p[1] = c
    <3>1. RowsOf(c) \cap need_to_start = {}
      BY <2>3 DEF RowsOf
    <3>2. Cardinality({}) = 0
      BY FS_EmptySet
    <3>3. txopen[c] = IF \E p \in InSession' : p[1] = c THEN 1 ELSE 0
      BY <1>3, <2>3 DEF Working, Sessions
    <3>. QED BY <2>1, <3>1, <3>2, <3>3
  <2>. QED BY <2>2, <2>3
<1>5. Working'
  BY <1>1, <1>4, SameView DEF Working, Sessions
<1>6. Lists'
  BY <1>1, <1>3, SameView, RowsKnown DEF Lists
<1>. QED BY <1>2, <1>5, <1>6

\* The end of a pass: what it sees is what there is.
LEMMA EndPassSilent ==
  ASSUME TypeOK, KeysGiven, Committed, Working, Lists, EndPass
  PROVE  Committed' /\ Working' /\ Lists'
<1>1. /\ db' = View /\ open' = txopen /\ txopen' = txopen /\ runs' = RunsAfter({})
      /\ held' = {} /\ pc = "commit" /\ pc' = "idle" /\ list' = list
  BY DEF EndPass, Commit, Goto
<1>2. runs' = runs
  BY <1>1 DEF RunsAfter, TypeOK, TableOK
<1>3. \A p \in Pk : View'[p] = View[p] /\ db'[p] = View[p]
  BY <1>1 DEF View
<1>4. /\ Live(View)' = Live(View) /\ Started(View)' = Started(View)
      /\ Live(db)' = Live(View) /\ Started(db)' = Started(View)
  BY <1>3 DEF Live, Started
<1>5. InSession = Started(View) /\ InSession' = Started(View)'
  BY <1>1 DEF InSession
<1>6. Committed' /\ Working'
  BY <1>1, <1>2, <1>4, <1>5 DEF Committed, Working, Single, Sessions, Scheduled
<1>7. Lists'
  BY <1>1, <1>2 DEF Lists
<1>. QED BY <1>6, <1>7

\* A pass that fails is as if it had not been.
LEMMA FailPassSilent ==
  ASSUME TypeOK, Committed, FailPass
  PROVE  Committed' /\ Working' /\ Lists'
<1>1. /\ UNCHANGED <<db, open, runs>> /\ txopen' = open /\ held' = {}
      /\ pc' = "idle" /\ list' = {}
  BY DEF FailPass, Goto
<1>2. \A p \in Pk : View'[p] = db[p] /\ db'[p] = db[p]
  BY <1>1 DEF View
<1>3. /\ Live(View)' = Live(db) /\ Started(View)' = Started(db)
      /\ Live(db)' = Live(db) /\ Started(db)' = Started(db)
  BY <1>2 DEF Live, Started
<1>4. InSession' = Started(View)'
  BY <1>1 DEF InSession
<1>5. Committed' /\ Working'
  BY <1>1, <1>3, <1>4 DEF Committed, Working, Single, Sessions, Scheduled
<1>6. Lists'
  BY <1>1 DEF Lists
<1>. QED BY <1>5, <1>6

\* A step of the pass.
LEMMA PassSilent ==
  ASSUME TypeOK, KeysGiven, Quiet, Committed, Working, Lists, Pass
  PROVE  Committed' /\ Working' /\ Lists'
<1>1. /\ View \in [Pk -> Row] /\ at \in Steps
      /\ \A k : expired(k) \in SUBSET Pk /\ need_to_resend(k) \in SUBSET Pk
                /\ need_to_transition(k) \in SUBSET Pk
  BY ViewType, QuerySets DEF TypeOK, CronOK
<1>2. NextStep => Plain' /\ pc' \notin {"resending", "moving", "last"}
  BY DEF NextStep, Plain
<1>3. CASE ExpireMoveOn
  <2>. DEFINE S == expired(at)
              new == [p \in Pk |-> IF p \in S THEN [View[p] EXCEPT !.status = "C", !.age = 0]
                                              ELSE View[p]]
  <2>1. Write(S, new, txopen, {}) /\ list' = list /\ pc = "expire" /\ pc' = "resend"
    BY <1>3 DEF ExpireMoveOn, Goto
  <2>2. new \in [Pk -> Row]
    BY <1>1, RowTypes
  <2>3. \A p \in Pk \ S : new[p] = View[p]
    OBVIOUS
  <2>4. ASSUME NEW p \in S
        PROVE  /\ new[p].step = View[p].step
               /\ new[p].status # "gone" /\ Exists(p)
    <3>1. p \in Pk /\ View[p] \in Row /\ Exists(p)
      BY <1>1, RowsRead
    <3>2. new[p] = [View[p] EXCEPT !.status = "C", !.age = 0]
      BY <3>1
    <3>. HIDE DEF new
    <3>. QED BY <3>1, <3>2 DEF Row
  <2>5. Plain /\ Plain' /\ pc' \notin {"resending", "moving", "last"}
    BY <2>1 DEF Plain
  <2>. HIDE DEF new
  <2>. QED BY <1>1, <2>1, <2>2, <2>3, <2>4, <2>5, UpdateSilent
<1>4. CASE ExpireGiveUp
  <2>1. /\ pc = "expire" /\ Rule[at] \in GivingUp /\ todo' = expired(at)
        /\ pc' = "expired" /\ UNCHANGED <<table, at, list>>
    BY <1>4 DEF ExpireGiveUp, Goto
  <2>2. Condemned' = todo'
    <3>1. expired(at)' = expired(at)
      BY <2>1, SameView DEF table
    <3>. QED BY <2>1, <3>1 DEF Condemned
  <2>. QED BY <2>1, <2>2, ReadSilent DEF Plain
<1>5. ASSUME NEW p \in Pk, GiveUpOne(p) PROVE Committed' /\ Working' /\ Lists'
  BY <1>5, GiveUpSilent
<1>6. CASE DeleteExpired
  <2>. DEFINE S == expired(at)
              new == [p \in Pk |-> IF p \in S THEN NoRow ELSE View[p]]
  <2>1. /\ Write(S, new, txopen, {}) /\ list' = list /\ todo = {}
        /\ pc = "expired" /\ pc' = "resend"
    BY <1>6 DEF DeleteExpired, Goto
  <2>2. new \in [Pk -> Row]
    BY <1>1, RowTypes
  <2>3. Condemned = S
    BY <2>1 DEF Condemned
  <2>4. \A p \in Pk \ S : /\ new[p] = View[p] /\ new[p].step = View[p].step
                          /\ new[p].status = "gone" <=> ~Exists(p)
    BY DEF Exists
  <2>5. \A p \in S : new[p].status = "gone"
    BY <1>1 DEF NoRow
  <2>6. Plain' /\ pc' \notin {"resending", "moving", "last"}
    BY <2>1 DEF Plain
  <2>. HIDE DEF new, S
  <2>. QED BY <1>1, <2>1, <2>2, <2>3, <2>4, <2>5, <2>6, DeleteSilent DEF S
<1>7. CASE SelectResend
  <2>1. /\ pc = "resend" /\ list' = need_to_resend(at) /\ UNCHANGED <<table, at>>
        /\ pc' \in {"transition", "resending"}
    BY <1>7 DEF SelectResend, Goto
  <2>2. list' \subseteq list \cup Live(View)
    BY <2>1, RowsKnown DEF Started
  <2>. QED BY <2>1, <2>2, ReadSilent DEF Plain
<1>8. CASE Resend
  <2>. DEFINE S == need_to_resend(at)
              new == [p \in Pk |-> IF p \in S THEN Bump(View[p]) ELSE View[p]]
  <2>1. /\ mass_text(new, S, txopen, {}) /\ list' = {}
        /\ pc = "resending" /\ pc' = "transition"
    BY <1>8 DEF Resend, Goto
  <2>2. new \in [Pk -> Row]
    BY <1>1, RowTypes
  <2>3. \A p \in Pk \ S : new[p] = View[p]
    OBVIOUS
  <2>4. ASSUME NEW p \in S
        PROVE  /\ new[p].step = View[p].step
               /\ new[p].status # "gone" /\ Exists(p)
    <3>1. p \in Pk /\ View[p] \in Row /\ Exists(p)
      BY <1>1, RowsRead
    <3>2. new[p] = Bump(View[p])
      BY <3>1
    <3>. HIDE DEF new
    <3>. QED BY <3>1, <3>2, BumpRow DEF Exists
  <2>5. Plain /\ Plain' /\ pc' \notin {"resending", "moving", "last"} /\ list' \subseteq list
    BY <2>1 DEF Plain
  <2>. HIDE DEF new
  <2>. QED BY <1>1, <2>1, <2>2, <2>3, <2>4, <2>5, UpdateSilent
<1>9. CASE SelectTransition
  <2>1. /\ pc = "transition" /\ list' = need_to_transition(at) /\ UNCHANGED <<table, at>>
        /\ pc' = IF at = Last THEN "last" ELSE "moving"
    BY <1>9 DEF SelectTransition, Goto
  <2>2. list' \subseteq list \cup Live(View)
    BY <2>1, RowsKnown DEF Started
  <2>. QED BY <2>1, <2>2, ReadSilent DEF Plain
<1>10. CASE Transition
  <2>. DEFINE S == need_to_transition(at)
  <2>1. pc = "moving" /\ Plain' /\ pc' \notin {"resending", "moving", "last"} /\ Plain
    BY <1>2, <1>10 DEF Transition, Plain
  <2>2. CASE S = {}
    BY <1>10, <2>1, <2>2, IdleSilent DEF Transition
  <2>3. CASE S # {}
    <3>1. /\ MoveOn(S, at + 1) /\ at + 1 \in Steps /\ list = S
          /\ S \in SUBSET Live(View)
      BY <1>1, <1>10, <2>1, <2>3, StepParts, RowsKnown
         DEF Transition, TypeOK, CronOK, Lists, Started
    <3>2. InSession = Started(View) \cup S
      BY <2>1, PlainPhase, RowsKnown
    <3>. HIDE DEF S
    <3>. QED BY <2>1, <3>1, <3>2, MovingSilent
  <2>. QED BY <2>2, <2>3
<1>11. CASE SelectEnding
  <2>1. /\ pc = "last" /\ todo' = need_to_transition(at) /\ UNCHANGED table
        /\ IF todo' = {} THEN NextStep /\ list' = {}
                         ELSE pc' = "ending" /\ UNCHANGED <<at, list>>
    BY <1>11 DEF SelectEnding, Goto
  <2>2. Plain /\ at = Last /\ list = need_to_transition(at)
    BY <2>1 DEF Plain, Lists
  <2>3. CASE todo' = {}
    BY <1>2, <2>1, <2>2, <2>3, IdleSilent
  <2>4. CASE todo' # {}
    <3>1. Condemned' = todo'
      <4>1. need_to_transition(at)' = need_to_transition(at)
        BY <2>1, <2>4, SameView DEF table
      <4>. QED BY <2>1, <2>4, <4>1 DEF Condemned
    <3>. QED BY <2>1, <2>2, <2>4, <3>1, ReadSilent
  <2>. QED BY <2>3, <2>4
<1>12. CASE DeleteEnded
  <2>. DEFINE S == need_to_transition(at)
              old == [p \in Pk |-> IF p \in S THEN NoRow ELSE View[p]]
              rows == S \cup {p \in list : Exists(p)}
  <2>1. /\ mass_text(Counted(old), rows, txopen, {}) /\ list' = {} /\ todo = {}
        /\ pc = "ending" /\ NextStep
    BY <1>12 DEF DeleteEnded
  <2>2. rows = S /\ Condemned = S
    BY <2>1 DEF Condemned, Lists, Live, Exists, TypeOK, CronOK
  <2>3. old \in [Pk -> Row] /\ Counted(old) \in [Pk -> Row]
    BY <1>1, RowTypes, CountedType
  <2>4. /\ \A p \in Pk \ S : old[p] = View[p]
        /\ \A p \in S : p \in Pk /\ old[p].status = "gone"
    BY <1>1 DEF NoRow
  <2>. HIDE DEF old
  <2>5. \A p \in Pk \ S : p \notin list \/ ~Exists(p)
    BY <2>2
  <2>6. \A p \in Pk : Counted(old)[p] = old[p]
    BY <2>4, <2>5 DEF Counted, Exists
  <2>7. \A p \in Pk \ S : /\ Counted(old)[p] = View[p] /\ Counted(old)[p].step = View[p].step
                          /\ Counted(old)[p].status = "gone" <=> ~Exists(p)
    BY <2>4, <2>6 DEF Exists
  <2>8. \A p \in S : Counted(old)[p].status = "gone"
    BY <2>4, <2>6
  <2>9. mass_text(Counted(old), S, txopen, {})
    BY <2>1, <2>2
  <2>. HIDE DEF S, rows
  <2>. QED BY <1>1, <1>2, <2>1, <2>2, <2>3, <2>7, <2>8, <2>9, DeleteSilent DEF S
<1>13. CASE SelectStart
  BY <1>13, SelectStartSilent
<1>14. CASE StartRuns
  <2>1. /\ MoveOn(need_to_start, 0) /\ pc = "starting" /\ pc' = "commit" /\ 0 \in Steps
        /\ list = need_to_start /\ need_to_start \in SUBSET Live(View)
        /\ InSession = Started(View) \cup need_to_start
    BY <1>14, StepParts, RowsKnown DEF StartRuns, Goto, Lists, InSession
  <2>2. Plain' /\ pc' \notin {"resending", "moving", "last"}
    BY <2>1 DEF Plain
  <2>. QED BY <2>1, <2>2, MovingSilent
<1>15. CASE EndPass
  BY <1>15, EndPassSilent
<1>. QED
  BY <1>3, <1>4, <1>5, <1>6, <1>7, <1>8, <1>9, <1>10, <1>11, <1>12, <1>13, <1>14, <1>15,
     Zenon DEF Pass

\* Time passes between two passes: the rows get older.
LEMMA OlderRow ==
  ASSUME NEW row \in Row
  PROVE  /\ Older(row).step = row.step /\ Older(row).status = row.status
         /\ Older(row).tries = row.tries
BY DEF Older, Row

\* Between passes there is one version, and both get older.
LEMMA TickVersions ==
  ASSUME TypeOK, Tick
  PROVE  /\ pc = "idle" /\ UNCHANGED <<pc, list, open, txopen, runs, sent>>
         /\ \A p \in Pk : /\ View[p] = db[p] /\ View'[p] = db'[p] /\ db[p] \in Row
                          /\ db'[p] = Older(db[p])
<1>1. held = {} /\ db \in [Pk -> Row] /\ pc = "idle"
  BY DEF Tick, TypeOK, TableOK, CronOK
<1>2. /\ UNCHANGED <<pc, list, open, txopen, runs, sent, held>>
      /\ db' = [p \in Pk |-> Older(db[p])]
  BY DEF Tick
<1>. QED BY <1>1, <1>2 DEF View

\* So the clock keeps the invariant.
LEMMA TickSilent ==
  ASSUME TypeOK, Committed, Working, Lists, Tick
  PROVE  Committed' /\ Working' /\ Lists'
<1>1. /\ pc = "idle" /\ UNCHANGED <<pc, list, open, txopen, runs>>
      /\ \A p \in Pk : /\ View[p] = db[p] /\ View'[p] = db'[p] /\ db[p] \in Row
                       /\ db'[p] = Older(db[p])
  BY TickVersions
<1>2. \A p \in Pk : db'[p].step = db[p].step /\ db'[p].status = db[p].status
  BY <1>1, OlderRow
<1>3. /\ Live(View)' = Live(View) /\ Started(View)' = Started(View)
      /\ Live(db)' = Live(db) /\ Started(db)' = Started(db)
  BY <1>1, <1>2 DEF Live, Started
<1>4. InSession' = InSession
  BY <1>1, <1>3 DEF InSession
<1>5. Committed' /\ Working'
  BY <1>1, <1>3, <1>4 DEF Committed, Working, Single, Sessions, Scheduled
<1>6. Lists'
  BY <1>1 DEF Lists
<1>. QED BY <1>5, <1>6

\* While nobody writes and no staff schedules, only the cron job and time act.
LEMMA OnlyCronActs ==
  ASSUME Unstaffed, TypeOK, msgs = 0 => Quiet, Next, msgs' = 0
  PROVE  /\ msgs = 0 /\ Quiet /\ Quiet'
         /\ Tick \/ ((BeginPass \/ Pass \/ FailPass) /\ UNCHANGED workers)
<1>1. msgs \in Nat
  BY WorkersAssumption DEF TypeOK, WorkersOK, WorkersAssumption
<1>2. CASE Cron
  BY <1>2 DEF Cron, workers, Quiet
<1>3. CASE Tick
  BY <1>3 DEF Tick, Quiet
<1>4. ASSUME NEW p \in Pk, RepeatError(p) \/ \E bad \in BOOLEAN : ReadProgress(p, bad)
      PROVE  FALSE
  BY <1>1, <1>4 DEF RepeatError, ReadProgress, Read
<1>5. ASSUME NEW w \in inflight, Handler(w) PROVE FALSE
  <2>1. UNCHANGED msgs
    BY <1>5 DEF Handler, LogResponse, SaveProgress, LoseAnswer
  <2>. QED BY <1>5, <2>1 DEF Quiet
<1>6. ASSUME NEW c \in Conn, ReadQuit(c) \/ Join(c) \/ ReadSchedule(c) PROVE FALSE
  BY <1>1, <1>6 DEF ReadQuit, Join, ReadSchedule, Unstaffed
<1>7. ASSUME NEW r \in requests, Server(r) PROVE FALSE
  <2>1. UNCHANGED msgs
    BY <1>7 DEF Server, Quit, schedule_at
  <2>. QED BY <1>7, <2>1 DEF Quiet
<1>. QED BY <1>2, <1>3, <1>4, <1>5, <1>6, <1>7 DEF Next, Cron

\* At first every connection has the row it was scheduled with, not begun.
LEMMA InitSilent == Init => Silent
<1>. SUFFICES ASSUME Init PROVE Quiet /\ Committed /\ Working /\ Lists
  BY DEF Silent
<1>1. /\ pc = "idle" /\ held = {} /\ list = {} /\ runs = [c \in Conn |-> 1]
      /\ open = [c \in Conn |-> 0] /\ txopen = [c \in Conn |-> 0]
      /\ requests = {} /\ inflight = {} /\ blacklist = {}
  BY DEF Init
<1>2. PICK age : db = [p \in Pk |-> IF p[2] = 1 THEN Fresh(age[p[1]]) ELSE NoRow]
  BY DEF Init
<1>3. \A p \in Pk : /\ View[p] = db[p]
                    /\ db[p].status # "gone" <=> p[2] = 1
                    /\ db[p].step = -1
  BY <1>1, <1>2 DEF View, Fresh, NoRow
<1>4. /\ Live(db) = {p \in Pk : p[2] = 1} /\ Live(View) = {p \in Pk : p[2] = 1}
      /\ Started(db) = {} /\ Started(View) = {}
  BY <1>3 DEF Live, Started
<1>5. \A c \in Conn : <<c, 1>> \in Pk
  BY ConstantsAssumption DEF Pk, ConstantsAssumption
<1>6. \A p, q \in Pk : p[1] = q[1] /\ p[2] = q[2] => p = q
  BY KeyParts
<1>7. InSession = {}
  BY <1>1, <1>4 DEF InSession
<1>8. Quiet /\ Lists
  BY <1>1 DEF Quiet, Lists
<1>. QED BY <1>1, <1>4, <1>5, <1>6, <1>7, <1>8
         DEF Committed, Working, Single, Sessions, Scheduled

\* Every step keeps the invariant.
LEMMA NextSilent ==
  ASSUME Unstaffed
  PROVE  TypeOK /\ KeysGiven /\ Silent /\ [Next]_vars => Silent'
<1>. SUFFICES ASSUME TypeOK, KeysGiven, Silent, [Next]_vars, msgs' = 0
              PROVE  Quiet' /\ Committed' /\ Working' /\ Lists'
  BY DEF Silent
<1>1. CASE Next
  <2>1. /\ Quiet /\ Committed /\ Working /\ Lists /\ Quiet'
        /\ Tick \/ ((BeginPass \/ Pass \/ FailPass) /\ UNCHANGED workers)
    BY <1>1, OnlyCronActs DEF Silent
  <2>2. CASE Tick
    BY <2>1, <2>2, TickSilent
  <2>3. CASE Pass
    BY <2>1, <2>3, PassSilent
  <2>4. CASE FailPass
    BY <2>1, <2>4, FailPassSilent
  <2>5. CASE BeginPass
    BY <2>1, <2>5, IdleSilent DEF BeginPass, Plain
  <2>. QED BY <2>1, <2>2, <2>3, <2>4, <2>5
<1>2. CASE UNCHANGED vars
  <2>1. UNCHANGED <<db, tx, held, runs, open, txopen, pc, at, list, todo, msgs,
                    requests, inflight, blacklist>>
    BY <1>2 DEF vars, cron, table, workers
  <2>2. Quiet /\ Committed /\ Working /\ Lists
    BY <2>1 DEF Silent
  <2>3. Condemned' = Condemned
    BY <2>1, SameView DEF Condemned
  <2>4. InSession' = InSession
    BY <2>1, <2>3, SameView DEF InSession
  <2>5. Committed' /\ Working'
    BY <2>1, <2>2, <2>4, SameView DEF Committed, Working, Sessions
  <2>6. Lists'
    BY <2>1, <2>2, <2>3, SameView DEF Lists
  <2>. QED BY <2>1, <2>2, <2>5, <2>6 DEF Quiet
<1>. QED BY <1>1, <1>2

\* Passes, their commits and their rollbacks leave a connection that
\* never answers one row at most, on the roster, with a session if and only if
\* its run has begun, in what is committed and in what the pass sees.
THEOREM SilentInvariant ==
  ASSUME Unstaffed
  PROVE  Spec => [](TypeOK /\ KeysGiven /\ Silent)
<1>1. Init => TypeOK /\ KeysGiven /\ Ahead /\ Silent
  BY InitTypeOK, InitAhead, InitSilent
<1>2. TypeOK /\ KeysGiven /\ Ahead /\ Silent /\ [Next]_vars
        => (TypeOK /\ KeysGiven /\ Ahead /\ Silent)'
  BY NextTypeOK, NextAhead, NextSilent
<1>. QED BY <1>1, <1>2, PTL DEF Spec

\* A connection that never answers keeps a row of every recurring script while
\* the roster has dates, however many passes are rolled back halfway: the row
\* that ends and the row that follows it are written in one transaction.
THEOREM StaysOnRoster ==
  ASSUME Unstaffed
  PROVE  Spec => []KeptOnRoster
<1>1. Silent => KeptOnRoster
  BY DEF Silent, Committed, Scheduled, KeptOnRoster, Live, RowsOf
<1>. QED BY <1>1, SilentInvariant, PTL

\* A set whose members are all the same has one at most.
LEMMA AtMostOne ==
  ASSUME NEW R, \A p, q \in R : p = q
  PROVE  Cardinality(R) = IF R = {} THEN 0 ELSE 1
<1>1. CASE R = {}
  BY <1>1, FS_EmptySet
<1>2. CASE R # {}
  <2>1. PICK p \in R : R = {p}
    BY <1>2
  <2>2. Cardinality({p}) = 1
    BY FS_Singleton
  <2>. QED BY <2>1, <2>2
<1>. QED BY <1>1, <1>2

\* Between passes a connection that never answers has one open session for its
\* run if that has begun, and none if not: giveup and the receivers find the
\* session they close, and no session is left behind or opened twice.
THEOREM SessionsMatchRuns ==
  ASSUME Unstaffed
  PROVE  Spec => []SessionPerRun
<1>1. Silent => SessionPerRun
  <2>. SUFFICES ASSUME Silent, msgs = 0, NEW c \in Conn
                PROVE  open[c] = Cardinality({p \in RowsOf(c) : db[p].status # "gone"
                                                                /\ db[p].step # -1})
    BY DEF SessionPerRun
  <2>1. {p \in RowsOf(c) : db[p].status # "gone" /\ db[p].step # -1}
          = {p \in Started(db) : p[1] = c}
    BY DEF Started, Live, RowsOf
  <2>2. /\ \A p, q \in {r \in Started(db) : r[1] = c} : p = q
        /\ open[c] = IF {p \in Started(db) : p[1] = c} = {} THEN 0 ELSE 1
    BY DEF Silent, Committed, Single, Sessions, Started
  <2>. QED BY <2>1, <2>2, AtMostOne
<1>. QED BY <1>1, SilentInvariant, PTL

-----------------------------------------------------------------------------
(***************************************************************************)
(* SilentTextLimit.  The number of tries of a row bounds the texts of its  *)
(* step, and the steps ahead of it have had none.  mass_text takes the     *)
(* text of one row for all: that is the text of the others too where the   *)
(* receivers skip the same steps for everybody.                            *)
(***************************************************************************)

Alike == \A c, d \in Conn : Land[c] = Land[d]

Counts(t) ==
  \A p \in Live(t), k \in Steps :
    /\ k > t[p].step => sent[p][k] = 0
    /\ k = t[p].step => sent[p][k] <= t[p].tries

\* A key that was not given out yet has had no text either.
Texts ==
  /\ \A p \in Pk, k \in Steps : sent[p][k] <= MaxTries[k]
  /\ \A p \in Pk, k \in Steps : p[2] > runs[p[1]] => sent[p][k] = 0
  /\ Counts(db) /\ Counts(View)

\* What counting needs to know of a row.
LEMMA Numbers ==
  ASSUME TypeOK
  PROVE  /\ \A p \in Pk : /\ View[p] \in Row /\ db[p] \in Row
                          /\ View[p].step \in Int /\ db[p].step \in Int
                          /\ View[p].tries \in Nat /\ db[p].tries \in Nat
                          /\ p[1] \in Conn /\ p[2] \in Int
         /\ \A c \in Conn : runs[c] \in Int
         /\ \A p \in Pk, k \in Steps : sent[p][k] \in Nat
         /\ \A k \in Steps : k \in Int /\ MaxTries[k] \in Int /\ MaxTries[k] >= 1
                             /\ MaxTries[k] <= TopTries
         /\ TopTries \in Int /\ TopTries >= 1
<1>1. \A row \in Row : row.step \in Int /\ row.tries \in Nat
  BY ConstantsAssumption DEF Row, ConstantsAssumption
<1>2. /\ \A k \in Steps : k \in Int /\ MaxTries[k] \in Int /\ MaxTries[k] >= 1
                          /\ MaxTries[k] <= TopTries
      /\ TopTries \in Int
  BY ConstantsAssumption DEF Steps, ConstantsAssumption
<1>3. TopTries >= 1
  BY <1>2, StepParts
<1>4. \A p \in Pk : View[p] \in Row /\ db[p] \in Row /\ p[1] \in Conn /\ p[2] \in Int
  BY ViewType, KeyParts DEF TypeOK, TableOK
<1>5. /\ \A c \in Conn : runs[c] \in Int
      /\ \A p \in Pk, k \in Steps : sent[p][k] \in Nat
  BY ConstantsAssumption DEF TypeOK, TableOK, ConstantsAssumption
<1>. QED BY <1>1, <1>2, <1>3, <1>4, <1>5

\* A row that stays where it is, or is created under a new key.
Unmoved(t, p) == \/ p \in Live(t) /\ View'[p].step = t[p].step /\ View'[p].tries = t[p].tries
                 \/ View'[p].step = -1 /\ p[2] > runs[p[1]]

\* A step without texts that moves no row on.
LEMMA QuietTexts ==
  ASSUME TypeOK, TypeOK', Texts, UNCHANGED sent,
         \A c \in Conn : runs[c] <= runs'[c],
         \A p \in Live(View)' : Unmoved(View, p) \/ Unmoved(db, p),
         \A p \in Live(db)' :
            \/ p \in Live(db) /\ db'[p].step = db[p].step /\ db'[p].tries = db[p].tries
            \/ p \in Live(View) /\ db'[p].step = View[p].step /\ db'[p].tries = View[p].tries
  PROVE  Texts'
<1>1. \A p \in Pk, k \in Steps : p[2] > runs'[p[1]] => sent[p][k] = 0
  <2>1. \A c \in Conn : runs[c] \in Int /\ runs'[c] \in Int
    BY ConstantsAssumption DEF TypeOK, TableOK, ConstantsAssumption
  <2>. QED BY <2>1, Numbers DEF Texts
<1>2. Live(View)' \subseteq Pk /\ Live(db)' \subseteq Pk /\ Live(View) \subseteq Pk
      /\ Live(db) \subseteq Pk
  BY DEF Live
<1>3. ASSUME NEW p \in Live(View)', NEW k \in Steps
      PROVE  /\ k > View'[p].step => sent[p][k] = 0
             /\ k = View'[p].step => sent[p][k] <= View'[p].tries
  <2>1. CASE p \in Live(View) /\ View'[p].step = View[p].step /\ View'[p].tries = View[p].tries
    BY <2>1 DEF Texts, Counts
  <2>2. CASE p \in Live(db) /\ View'[p].step = db[p].step /\ View'[p].tries = db[p].tries
    BY <2>2 DEF Texts, Counts
  <2>3. CASE View'[p].step = -1 /\ p[2] > runs[p[1]]
    <3>1. sent[p][k] = 0 /\ k # -1
      BY <1>2, <2>3, Numbers DEF Texts, Steps
    <3>. QED BY <2>3, <3>1
  <2>. QED BY <2>1, <2>2, <2>3 DEF Unmoved
<1>4. ASSUME NEW p \in Live(db)', NEW k \in Steps
      PROVE  /\ k > db'[p].step => sent[p][k] = 0
             /\ k = db'[p].step => sent[p][k] <= db'[p].tries
  BY DEF Texts, Counts
<1>. QED BY <1>1, <1>3, <1>4 DEF Texts, Counts

\* What mass_text sends.
LEMMA SentAfter ==
  ASSUME TypeOK, NEW new \in [Pk -> Row], NEW S, NEW sessions, NEW F,
         mass_text(new, S, sessions, F)
  PROVE  \/ /\ UNCHANGED <<db, sent>>
            /\ {p \in list : new[p].status # "gone"} = {}
         \/ \E first \in {p \in list : new[p].status # "gone"} :
              /\ db' = new
              /\ \A p \in Pk, k \in Steps :
                   sent'[p][k] = IF p \in list /\ new[p].status # "gone" /\ k = new[first].step
                                 THEN sent[p][k] + 1 ELSE sent[p][k]
<1>. DEFINE recipients == {p \in list : new[p].status # "gone"}
<1>1. CASE recipients = {}
  BY <1>1 DEF mass_text, Write
<1>2. CASE recipients # {}
  <2>1. PICK first \in recipients :
          /\ new[first].step \in Steps
          /\ sent' = [p \in Pk |-> IF p \in recipients
                                   THEN [sent[p] EXCEPT ![new[first].step] = @ + 1] ELSE sent[p]]
          /\ db' = new
    BY <1>2 DEF mass_text, Commit
  <2>2. sent \in [Pk -> [Steps -> Nat]]
    BY DEF TypeOK, TableOK
  <2>3. \A p \in Pk, k \in Steps :
          sent'[p][k] = IF p \in recipients /\ k = new[first].step
                        THEN sent[p][k] + 1 ELSE sent[p][k]
    BY <2>1, <2>2
  <2>. QED BY <2>1, <2>3
<1>. QED BY <1>1, <1>2

\* What holds of the version the pass works on holds of the table once it is
\* committed.
LEMMA TextsCommitted ==
  ASSUME TypeOK, TypeOK', Texts,
         NEW new \in [Pk -> Row],
         Live(View)' = Live(new), \A p \in Live(new) : View'[p] = new[p],
         UNCHANGED <<db, sent>> \/ db' = new,
         \A p \in Pk, k \in Steps : sent'[p][k] <= MaxTries[k],
         \A p \in Pk, k \in Steps : p[2] > runs'[p[1]] => sent'[p][k] = 0,
         \A p \in Live(new), k \in Steps :
           /\ k > new[p].step => sent'[p][k] = 0
           /\ k = new[p].step => sent'[p][k] <= new[p].tries
  PROVE  Texts'
<1>1. Counts(View)'
  BY DEF Counts
<1>2. CASE UNCHANGED <<db, sent>>
  <2>1. Live(db)' = Live(db)
    BY <1>2 DEF Live
  <2>2. Counts(db)'
    BY <1>2, <2>1 DEF Texts, Counts
  <2>. QED BY <1>1, <2>2 DEF Texts
<1>3. CASE db' = new
  <2>1. Live(db)' = Live(new)
    BY <1>3 DEF Live
  <2>2. Counts(db)'
    BY <1>3, <2>1 DEF Counts
  <2>. QED BY <1>1, <2>2 DEF Texts
<1>. QED BY <1>2, <1>3

\* A write without texts.
LEMMA WriteTexts ==
  ASSUME TypeOK, TypeOK', Texts,
         NEW S \in SUBSET Pk, NEW new \in [Pk -> Row], NEW sessions,
         Write(S, new, sessions, {}) \/ mass_text(new, S, sessions, {}),
         UNCHANGED sent,
         \A p \in Pk \ S : new[p] = View[p],
         \A p \in Live(new) : p \in Live(View) /\ new[p].step = View[p].step
                              /\ new[p].tries = View[p].tries
  PROVE  Texts'
<1>1. /\ Live(View)' = Live(new) /\ \A p \in Live(new) : View'[p] = new[p]
      /\ runs' = RunsAfter({})
      /\ UNCHANGED db \/ db' = new
  BY Versions
<1>2. runs' = runs /\ \A c \in Conn : runs[c] <= runs'[c]
  BY <1>1, Numbers DEF RunsAfter, TypeOK, TableOK
<1>3. \A p \in Live(View)' : Unmoved(View, p)
  BY <1>1 DEF Unmoved
<1>4. \A p \in Live(db)' :
            \/ p \in Live(db) /\ db'[p].step = db[p].step /\ db'[p].tries = db[p].tries
            \/ p \in Live(View) /\ db'[p].step = View[p].step /\ db'[p].tries = View[p].tries
  BY <1>1 DEF Live
<1>. QED BY <1>2, <1>3, <1>4, QuietTexts

\* A resend counts the try before it sends the text, and has one left.
LEMMA ResendTexts ==
  ASSUME TypeOK, TypeOK', KeysGiven, Lists, Texts, Resend
  PROVE  Texts'
<1>. DEFINE S == need_to_resend(at)
            new == [p \in Pk |-> IF p \in S THEN Bump(View[p]) ELSE View[p]]
<1>1. mass_text(new, S, txopen, {}) /\ list = S
  BY DEF Resend, Lists
<1>2. /\ S \in SUBSET Pk /\ \A p \in S : /\ p \in Live(View) /\ View[p].step = at
                                         /\ View[p].tries < MaxTries[at]
      /\ at \in Steps
  BY DEF need_to_resend, Live, Exists, TypeOK, CronOK
<1>3. new \in [Pk -> Row]
  BY Numbers, RowTypes
<1>4. ASSUME NEW p \in S
      PROVE  /\ new[p].status # "gone" /\ new[p].step = at
             /\ new[p].tries = View[p].tries + 1
  <2>1. p \in Pk /\ View[p] \in Row /\ View[p].tries \in Nat /\ View[p].tries < TopTries
        /\ View[p].status # "gone"
    BY <1>2, Numbers DEF Live
  <2>2. new[p] = Bump(View[p])
    BY <2>1
  <2>. HIDE DEF new
  <2>. QED BY <1>2, <2>1, <2>2, BumpRow
<1>5. \A p \in Pk \ S : new[p] = View[p]
  OBVIOUS
<1>. HIDE DEF new, S
<1>6. /\ Live(View)' = Live(new)
      /\ \A p \in Live(new) : View'[p] = new[p]
      /\ runs' = RunsAfter({})
  <2>1. \A p \in Pk \ S : new[p] = View[p] \/ (new[p].status = "gone" /\ ~Exists(p))
    BY <1>5
  <2>. QED BY <1>1, <1>2, <1>3, <2>1, TextVersions
<1>7. runs' = runs
  BY <1>6 DEF RunsAfter, TypeOK, TableOK
<1>8. /\ UNCHANGED <<db, sent>> \/ db' = new
      /\ \A p \in Pk, k \in Steps :
           sent'[p][k] = IF p \in S /\ k = at THEN sent[p][k] + 1 ELSE sent[p][k]
  BY <1>1, <1>2, <1>3, <1>4, SentAfter
<1>9. \A p \in S : sent[p][at] <= View[p].tries
  BY <1>2 DEF Texts, Counts
<1>10. \A p \in Pk, k \in Steps : sent'[p][k] <= MaxTries[k]
  <2>. SUFFICES ASSUME NEW p \in Pk, NEW k \in Steps PROVE sent'[p][k] <= MaxTries[k]
    OBVIOUS
  <2>1. CASE p \in S /\ k = at
    BY <1>2, <1>8, <1>9, <2>1, Numbers
  <2>2. CASE ~(p \in S /\ k = at)
    BY <1>8, <2>2 DEF Texts
  <2>. QED BY <2>1, <2>2
<1>11. \A p \in Pk, k \in Steps : p[2] > runs'[p[1]] => sent'[p][k] = 0
  <2>. SUFFICES ASSUME NEW p \in Pk, NEW k \in Steps, p[2] > runs[p[1]]
                PROVE  sent'[p][k] = 0
    BY <1>7
  <2>1. p \notin S
    BY <1>2, RowsKnown, Numbers
  <2>. QED BY <1>8, <2>1 DEF Texts
<1>12. ASSUME NEW p \in Live(new), NEW k \in Steps
       PROVE  /\ k > new[p].step => sent'[p][k] = 0
              /\ k = new[p].step => sent'[p][k] <= new[p].tries
  <2>1. CASE p \in S
    <3>1. p \in Pk /\ View[p].step = at /\ new[p].step = at /\ new[p].tries = View[p].tries + 1
          /\ p \in Live(View)
      BY <1>2, <1>4, <2>1
    <3>2. k > at => sent[p][k] = 0
      BY <3>1 DEF Texts, Counts
    <3>. QED BY <1>2, <1>8, <1>9, <2>1, <3>1, <3>2, Numbers
  <2>2. CASE p \notin S
    <3>1. p \in Pk /\ new[p] = View[p] /\ p \in Live(View) /\ sent'[p][k] = sent[p][k]
      BY <1>5, <1>8, <2>2 DEF Live
    <3>. QED BY <3>1 DEF Texts, Counts
  <2>. QED BY <2>1, <2>2
<1>. QED BY <1>3, <1>6, <1>8, <1>10, <1>11, <1>12, TextsCommitted

\* A row that moves on gets the first text of its new step, with its try.
LEMMA MoveOnTexts ==
  ASSUME Alike, TypeOK, TypeOK', KeysGiven, Quiet, Single(View), Texts,
         NEW S \in SUBSET Live(View), NEW k \in Steps, list = S,
         \A p \in S : View[p].step < k,
         \A p \in S : txopen[p[1]] > 0,
         MoveOn(S, k)
  PROVE  Texts'
<1>1. PICK new \in [Pk -> Row], rows \in SUBSET Pk, F \in SUBSET Conn :
           /\ mass_text(new, rows, Closed(F), F)
           /\ Moved(new, S, F, k)
           /\ \A p \in Pk \ rows : new[p] = View[p] \/ (new[p].status = "gone" /\ ~Exists(p))
  BY MoveOnVersion
<1>2. /\ \A p \in S : p[1] \in F \/ Land[p[1]][k] \in Steps
      /\ \A p \in Pk : p[1] \in F => (p \in Live(new) <=> Recurring /\ p[2] = runs[p[1]] + 1)
      /\ \A p \in Pk : p[1] \notin F => (p \in Live(new) <=> p \in Live(View))
  BY <1>1, MovedRows
<1>3. S \subseteq Pk /\ Live(View) \subseteq Pk /\ Live(new) \subseteq Pk
  BY DEF Live
<1>4. /\ Live(View)' = Live(new)
      /\ \A p \in Live(new) : View'[p] = new[p]
      /\ runs' = RunsAfter(F)
  <2>1. mass_text(new, rows, Closed(F), F)
    BY <1>1
  <2>2. \A p \in Pk \ rows : new[p] = View[p] \/ (new[p].status = "gone" /\ ~Exists(p))
    BY <1>1
  <2>. QED BY <2>1, <2>2, TextVersions
<1>5. \A c \in Conn : runs[c] <= runs'[c] /\ runs[c] \in Int /\ runs'[c] \in Int
  BY <1>4, RunsGrow DEF TypeOK
<1>6. ASSUME NEW p \in S
      PROVE  /\ p \in Pk /\ p[2] <= runs[p[1]] /\ p[2] # runs[p[1]] + 1
             /\ p \in Live(new) <=> p[1] \notin F
  <2>1. p \in Pk /\ p \in Live(View) /\ p[2] <= runs[p[1]] /\ p[2] # runs[p[1]] + 1
    BY <1>3, RowsKnown, Numbers
  <2>. QED BY <1>2, <2>1
<1>7. ASSUME NEW p \in S, p[1] \notin F
      PROVE  /\ Land[p[1]][k] \in Steps /\ Land[p[1]][k] >= k
             /\ new[p].step = Land[p[1]][k] /\ new[p].tries >= 1
  <2>1. p \in Pk /\ Land[p[1]][k] \in Steps /\ View[p] \in Row /\ View[p].tries \in Nat
        /\ p[1] \in Conn
    BY <1>2, <1>6, <1>7, Numbers
  <2>2. new[p] = Bump(Entered(View[p], Land[p[1]][k]))
    BY <1>1, <1>7 DEF Moved
  <2>3. /\ new[p].step = Land[p[1]][k]
        /\ new[p].tries = IF View[p].tries < TopTries THEN View[p].tries + 1 ELSE View[p].tries
    BY <2>1, <2>2, EnteredRow, BumpRow
  <2>4. Land[p[1]][k] >= k
    BY <2>1, ConstantsAssumption DEF ConstantsAssumption
  <2>5. new[p].tries >= 1
    BY <2>1, <2>3, Numbers
  <2>. QED BY <2>1, <2>3, <2>4, <2>5
<1>8. /\ UNCHANGED <<db, sent>> \/ db' = new
      /\ \A p \in Pk, n \in Steps :
           sent'[p][n] = IF p \in S /\ p[1] \notin F /\ n = Land[p[1]][k]
                         THEN sent[p][n] + 1 ELSE sent[p][n]
  <2>1. {p \in list : new[p].status # "gone"} = {p \in S : p[1] \notin F}
    BY <1>6 DEF Live
  <2>2. CASE UNCHANGED <<db, sent>> /\ {p \in list : new[p].status # "gone"} = {}
    BY <2>1, <2>2
  <2>3. ASSUME NEW first \in {p \in list : new[p].status # "gone"},
               db' = new,
               \A p \in Pk, n \in Steps :
                   sent'[p][n] = IF p \in list /\ new[p].status # "gone" /\ n = new[first].step
                                 THEN sent[p][n] + 1 ELSE sent[p][n]
        PROVE  \A p \in Pk, n \in Steps :
                  sent'[p][n] = IF p \in S /\ p[1] \notin F /\ n = Land[p[1]][k]
                                THEN sent[p][n] + 1 ELSE sent[p][n]
    <3>1. first \in S /\ first[1] \notin F /\ first[1] \in Conn
      BY <1>3, <2>1, Numbers
    <3>2. new[first].step = Land[first[1]][k]
      BY <1>7, <3>1
    <3>3. \A p \in S : Land[p[1]][k] = Land[first[1]][k]
      BY <1>3, <3>1, Numbers DEF Alike
    <3>4. \A p \in Pk : p \in list /\ new[p].status # "gone" <=> p \in S /\ p[1] \notin F
      BY <2>1
    <3>. QED BY <2>3, <3>2, <3>3, <3>4
  <2>. QED BY <1>1, <2>2, <2>3, SentAfter
<1>9. ASSUME NEW p \in S, NEW n \in Steps, n >= k PROVE sent[p][n] = 0
  <2>1. n > View[p].step /\ p \in Live(View)
    BY <1>6, <1>9, Numbers
  <2>. QED BY <2>1 DEF Texts, Counts
<1>10. \A p \in Pk, n \in Steps : sent'[p][n] <= MaxTries[n]
  <2>. SUFFICES ASSUME NEW p \in Pk, NEW n \in Steps PROVE sent'[p][n] <= MaxTries[n]
    OBVIOUS
  <2>1. CASE p \in S /\ p[1] \notin F /\ n = Land[p[1]][k]
    <3>1. sent[p][n] = 0
      BY <1>7, <1>9, <2>1
    <3>. QED BY <1>8, <2>1, <3>1, Numbers
  <2>2. CASE ~(p \in S /\ p[1] \notin F /\ n = Land[p[1]][k])
    BY <1>8, <2>2 DEF Texts
  <2>. QED BY <2>1, <2>2
<1>11. \A p \in Pk, n \in Steps : p[2] > runs'[p[1]] => sent'[p][n] = 0
  <2>. SUFFICES ASSUME NEW p \in Pk, NEW n \in Steps, p[2] > runs'[p[1]]
                PROVE  sent'[p][n] = 0
    OBVIOUS
  <2>1. p[2] > runs[p[1]]
    BY <1>5, Numbers
  <2>2. p \notin S
    BY <1>6, <2>1, Numbers
  <2>. QED BY <1>8, <2>1, <2>2 DEF Texts
<1>12. ASSUME NEW p \in Live(new), NEW n \in Steps
       PROVE  /\ n > new[p].step => sent'[p][n] = 0
              /\ n = new[p].step => sent'[p][n] <= new[p].tries
  <2>0. p \in Pk
    BY <1>3
  <2>1. CASE p[1] \in F
    <3>1. Recurring /\ p[2] = runs[p[1]] + 1 /\ p \notin S
      BY <1>2, <1>6, <2>0, <2>1
    <3>2. new[p].step = -1
      BY <1>1, <2>0, <2>1, <3>1 DEF Moved, Fresh
    <3>3. sent'[p][n] = 0
      BY <1>8, <2>0, <3>1, Numbers DEF Texts
    <3>. QED BY <3>2, <3>3 DEF Steps
  <2>2. CASE p[1] \notin F /\ p \notin S
    <3>1. new[p] = View[p] /\ p \in Live(View) /\ sent'[p][n] = sent[p][n]
      BY <1>1, <1>2, <1>8, <2>0, <2>2 DEF Moved
    <3>. QED BY <3>1 DEF Texts, Counts
  <2>3. CASE p[1] \notin F /\ p \in S
    <3>1. /\ Land[p[1]][k] \in Steps /\ Land[p[1]][k] >= k
          /\ new[p].step = Land[p[1]][k] /\ new[p].tries >= 1
      BY <1>7, <2>3
    <3>2. n >= Land[p[1]][k] => sent[p][n] = 0
      <4>1. n >= Land[p[1]][k] => n >= k
        BY <3>1, Numbers
      <4>. QED BY <1>9, <2>3, <4>1
    <3>3. n > Land[p[1]][k] => sent'[p][n] = 0
      BY <1>8, <2>0, <3>1, <3>2, Numbers
    <3>4. n = Land[p[1]][k] => sent'[p][n] = 1
      BY <1>8, <2>0, <2>3, <3>1, <3>2, Numbers
    <3>. QED BY <3>1, <3>3, <3>4
  <2>. QED BY <2>1, <2>2, <2>3
<1>. QED BY <1>4, <1>8, <1>10, <1>11, <1>12, TextsCommitted

\* A step that writes no row and sends nothing.
LEMMA SameTexts ==
  ASSUME UNCHANGED <<db, tx, held, sent, runs>>, Texts
  PROVE  Texts'
<1>1. /\ View' = View /\ Live(db)' = Live(db) /\ Live(View)' = Live(View)
  BY SameView
<1>. QED BY <1>1 DEF Texts, Counts

\* The texts of a step of the pass.
LEMMA PassTexts ==
  ASSUME Alike, TypeOK, TypeOK', KeysGiven, Quiet, Committed, Working, Lists, Texts, Pass
  PROVE  Texts'
<1>1. /\ View \in [Pk -> Row] /\ at \in Steps
      /\ \A k : expired(k) \in SUBSET Pk /\ need_to_resend(k) \in SUBSET Pk
                /\ need_to_transition(k) \in SUBSET Pk
  BY ViewType, QuerySets DEF TypeOK, CronOK
<1>2. ASSUME NEW S \in SUBSET Live(View), NEW k \in Steps, list = S,
             InSession = Started(View) \cup S,
             \A p \in S : View[p].step < k, MoveOn(S, k)
      PROVE  Texts'
  <2>1. \A p \in S : txopen[p[1]] > 0
    BY <1>2, KeyParts DEF Working, Sessions, Live
  <2>. QED BY <1>2, <2>1, MoveOnTexts DEF Working
<1>3. CASE ExpireMoveOn
  <2>. DEFINE S == expired(at)
              new == [p \in Pk |-> IF p \in S THEN [View[p] EXCEPT !.status = "C", !.age = 0]
                                              ELSE View[p]]
  <2>1. Write(S, new, txopen, {}) /\ UNCHANGED sent
    BY <1>3 DEF ExpireMoveOn
  <2>2. new \in [Pk -> Row]
    BY <1>1, RowTypes
  <2>3. \A p \in Pk \ S : new[p] = View[p]
    OBVIOUS
  <2>4. ASSUME NEW p \in Live(new)
        PROVE  p \in Live(View) /\ new[p].step = View[p].step /\ new[p].tries = View[p].tries
    <3>1. p \in Pk /\ new[p].status # "gone"
      BY DEF Live
    <3>2. CASE p \in S
      <4>1. View[p] \in Row /\ p \in Live(View)
        BY <1>1, <3>1, <3>2, RowsKnown DEF Started
      <4>2. new[p] = [View[p] EXCEPT !.status = "C", !.age = 0]
        BY <3>1, <3>2
      <4>. HIDE DEF new
      <4>. QED BY <4>1, <4>2 DEF Row
    <3>3. CASE p \notin S
      BY <2>3, <3>1, <3>3 DEF Live
    <3>. QED BY <3>2, <3>3
  <2>. HIDE DEF new
  <2>. QED BY <1>1, <2>1, <2>2, <2>3, <2>4, WriteTexts
<1>4. CASE ExpireGiveUp \/ SelectResend \/ SelectTransition \/ SelectEnding \/ SelectStart
  BY <1>4, SameTexts
     DEF ExpireGiveUp, SelectResend, SelectTransition, SelectEnding, SelectStart, table
<1>5. ASSUME NEW p \in Pk, GiveUpOne(p) PROVE Texts'
  <2>1. /\ UNCHANGED <<db, sent>> /\ runs' = RunsAfter({p[1]})
        /\ ~Recurring => \A q \in Pk : View'[q] = View[q]
        /\ \A q \in Pk : q[1] # p[1] => View'[q] = View[q]
        /\ Recurring => \A q \in Pk : q[1] = p[1] =>
              IF q[2] = runs[p[1]] + 1 THEN View'[q] = Fresh(-Gap)
                                       ELSE View'[q].status = "gone"
    BY <1>5, GiveUpVersion
  <2>2. ASSUME NEW q \in Live(View)' PROVE Unmoved(View, q)
    <3>1. q \in Pk /\ View'[q].status # "gone"
      BY DEF Live
    <3>2. CASE View'[q] = View[q]
      BY <3>1, <3>2 DEF Unmoved, Live
    <3>3. CASE View'[q] # View[q]
      <4>1. q[2] = runs[q[1]] + 1 /\ View'[q] = Fresh(-Gap)
        BY <2>1, <3>1, <3>3
      <4>. QED BY <3>1, <4>1, Numbers DEF Unmoved, Fresh
    <3>. QED BY <3>2, <3>3
  <2>3. \A c \in Conn : runs[c] <= runs'[c]
    BY <2>1, RunsGrow DEF TypeOK
  <2>4. \A q \in Live(db)' : q \in Live(db) /\ db'[q] = db[q]
    BY <2>1 DEF Live
  <2>. QED BY <2>1, <2>2, <2>3, <2>4, QuietTexts
<1>6. CASE DeleteExpired
  <2>. DEFINE S == expired(at)
              new == [p \in Pk |-> IF p \in S THEN NoRow ELSE View[p]]
  <2>1. Write(S, new, txopen, {}) /\ UNCHANGED sent
    BY <1>6 DEF DeleteExpired
  <2>2. new \in [Pk -> Row]
    BY <1>1, RowTypes
  <2>3. /\ \A p \in Pk \ S : new[p] = View[p]
        /\ \A p \in Live(new) : p \in Live(View) /\ new[p] = View[p]
    BY DEF Live, NoRow
  <2>. HIDE DEF new
  <2>. QED BY <1>1, <2>1, <2>2, <2>3, WriteTexts
<1>7. CASE Resend
  BY <1>7, ResendTexts
<1>8. CASE Transition
  <2>. DEFINE S == need_to_transition(at)
  <2>1. CASE S = {}
    BY <1>8, <2>1, SameTexts DEF Transition, table
  <2>2. CASE S # {}
    <3>1. /\ MoveOn(S, at + 1) /\ at + 1 \in Steps /\ list = S /\ pc = "moving"
          /\ S \in SUBSET Live(View)
      BY <1>1, <1>8, <2>2, StepParts, RowsKnown
         DEF Transition, TypeOK, CronOK, Lists, Started
    <3>2. InSession = Started(View) \cup S
      BY <3>1, PlainPhase, RowsKnown DEF Plain
    <3>3. \A p \in S : View[p].step < at + 1
      BY <1>1, RowsRead, Numbers
    <3>. HIDE DEF S
    <3>. QED BY <1>2, <3>1, <3>2, <3>3
  <2>. QED BY <2>1, <2>2
<1>9. CASE DeleteEnded
  <2>. DEFINE S == need_to_transition(at)
              old == [p \in Pk |-> IF p \in S THEN NoRow ELSE View[p]]
              rows == S \cup {p \in list : Exists(p)}
  <2>1. mass_text(Counted(old), rows, txopen, {}) /\ pc = "ending"
    BY <1>9 DEF DeleteEnded
  <2>2. rows = S
    BY <2>1 DEF Lists, Live, Exists, TypeOK, CronOK
  <2>3. old \in [Pk -> Row] /\ Counted(old) \in [Pk -> Row]
    BY <1>1, RowTypes, CountedType
  <2>4. /\ \A p \in Pk \ S : old[p] = View[p]
        /\ \A p \in S : p \in Pk /\ old[p].status = "gone"
    BY <1>1 DEF NoRow
  <2>. HIDE DEF old
  <2>5. \A p \in list : old[p].status = "gone"
    BY <2>2, <2>4 DEF Exists, TypeOK, CronOK
  <2>6. \A p \in Pk : Counted(old)[p] = old[p]
    BY <2>5 DEF Counted
  <2>7. mass_text(Counted(old), S, txopen, {})
    BY <2>1, <2>2
  <2>8. {p \in list : Counted(old)[p].status # "gone"} = {}
    BY <2>5, <2>6 DEF TypeOK, CronOK
  <2>. HIDE DEF rows
  <2>9. UNCHANGED sent
    BY <2>7, <2>8 DEF mass_text
  <2>10. /\ \A p \in Pk \ S : Counted(old)[p] = View[p]
         /\ \A p \in Live(Counted(old)) : p \in Live(View) /\ Counted(old)[p] = View[p]
    BY <2>4, <2>6 DEF Live
  <2>. HIDE DEF S
  <2>. QED BY <1>1, <2>3, <2>7, <2>9, <2>10, WriteTexts DEF S
<1>10. CASE StartRuns
  <2>1. /\ MoveOn(need_to_start, 0) /\ pc = "starting" /\ 0 \in Steps
        /\ list = need_to_start /\ need_to_start \in SUBSET Live(View)
        /\ InSession = Started(View) \cup need_to_start
        /\ \A p \in need_to_start : View[p].step < 0
    BY <1>10, StepParts, RowsKnown, RowsRead DEF StartRuns, Lists, InSession
  <2>. QED BY <1>2, <2>1
<1>11. CASE EndPass
  <2>1. /\ db' = View /\ runs' = RunsAfter({}) /\ held' = {} /\ UNCHANGED sent
    BY <1>11 DEF EndPass, Commit
  <2>2. runs' = runs
    BY <2>1 DEF RunsAfter, TypeOK, TableOK
  <2>3. \A p \in Pk : View'[p] = View[p] /\ db'[p] = View[p]
    BY <2>1 DEF View
  <2>4. /\ \A p \in Live(View)' : Unmoved(View, p)
        /\ \A p \in Live(db)' : p \in Live(View) /\ db'[p] = View[p]
        /\ \A c \in Conn : runs[c] <= runs'[c]
    BY <2>2, <2>3, Numbers DEF Live, Unmoved
  <2>. QED BY <2>1, <2>4, QuietTexts
<1>. QED
  BY <1>3, <1>4, <1>5, <1>6, <1>7, <1>8, <1>9, <1>10, <1>11, Zenon DEF Pass

\* Every step keeps the bound on texts.
LEMMA NextTexts ==
  ASSUME Unstaffed, Alike
  PROVE  TypeOK /\ TypeOK' /\ KeysGiven /\ Silent /\ (msgs = 0 => Texts) /\ [Next]_vars
           => (msgs' = 0 => Texts')
<1>. SUFFICES ASSUME TypeOK, TypeOK', KeysGiven, Silent, msgs = 0 => Texts, [Next]_vars, msgs' = 0
              PROVE  Texts'
  OBVIOUS
<1>1. CASE Next
  <2>1. /\ Quiet /\ Committed /\ Working /\ Lists /\ Texts
        /\ Tick \/ ((BeginPass \/ Pass \/ FailPass) /\ UNCHANGED workers)
    BY <1>1, OnlyCronActs DEF Silent
  <2>2. CASE Tick
    <3>1. /\ UNCHANGED <<runs, sent>>
          /\ \A p \in Pk : /\ View[p] = db[p] /\ View'[p] = db'[p] /\ db[p] \in Row
                           /\ db'[p] = Older(db[p])
      BY <2>2, TickVersions
    <3>2. \A p \in Pk : /\ db'[p].step = db[p].step /\ db'[p].status = db[p].status
                        /\ db'[p].tries = db[p].tries
      BY <3>1, OlderRow
    <3>3. /\ \A p \in Live(View)' : Unmoved(db, p)
          /\ \A p \in Live(db)' : p \in Live(db) /\ db'[p].step = db[p].step
                                  /\ db'[p].tries = db[p].tries
          /\ \A c \in Conn : runs[c] <= runs'[c]
      BY <3>1, <3>2, Numbers DEF Live, Unmoved
    <3>. QED BY <2>1, <3>1, <3>3, QuietTexts
  <2>3. CASE Pass
    BY <2>1, <2>3, PassTexts
  <2>4. CASE FailPass
    <3>1. /\ UNCHANGED <<db, runs, sent>> /\ held' = {}
      BY <2>4 DEF FailPass
    <3>2. \A p \in Pk : View'[p] = db[p] /\ db'[p] = db[p]
      BY <3>1 DEF View
    <3>3. /\ \A p \in Live(View)' : Unmoved(db, p)
          /\ \A p \in Live(db)' : p \in Live(db) /\ db'[p] = db[p]
          /\ \A c \in Conn : runs[c] <= runs'[c]
      BY <3>1, <3>2, Numbers DEF Live, Unmoved
    <3>. QED BY <2>1, <3>1, <3>3, QuietTexts
  <2>5. CASE BeginPass
    BY <2>1, <2>5, SameTexts DEF BeginPass, table
  <2>. QED BY <2>1, <2>2, <2>3, <2>4, <2>5
<1>2. CASE UNCHANGED vars
  BY <1>2, SameTexts DEF vars, cron, table, workers
<1>. QED BY <1>1, <1>2

\* At first nothing was sent.
LEMMA InitTexts == Init => Texts
<1>. SUFFICES ASSUME Init PROVE Texts
  OBVIOUS
<1>1. /\ held = {} /\ sent = [p \in Pk |-> [k \in Steps |-> 0]]
  BY DEF Init
<1>2. PICK age \in [Conn -> {-Gap, 0}] :
        db = [p \in Pk |-> IF p[2] = 1 THEN Fresh(age[p[1]]) ELSE NoRow]
  BY DEF Init
<1>3. \A p \in Pk : View[p] = db[p] /\ db[p].tries = 0
  BY <1>1, <1>2 DEF View, Fresh, NoRow
<1>4. \A k \in Steps : 0 <= MaxTries[k]
  BY InitTypeOK, Numbers
<1>. QED BY <1>1, <1>3, <1>4 DEF Texts, Counts, Live

\* A connection that never answers is not asked the same question for ever: no
\* question is sent more often than its step has tries, whatever passes are
\* rolled back after they have sent some of their texts, because the try is
\* counted in the transaction that queues the text.  (Receivers that skip
\* other steps for other connections are left out: one of them is then sent
\* the text of another's step.)
THEOREM TextsLimited ==
  ASSUME Unstaffed, Alike
  PROVE  Spec => []SilentTextLimit
<1>1. Init => TypeOK /\ KeysGiven /\ Ahead /\ Silent /\ (msgs = 0 => Texts)
  BY InitTypeOK, InitAhead, InitSilent, InitTexts
<1>2. TypeOK /\ KeysGiven /\ Ahead /\ Silent /\ (msgs = 0 => Texts) /\ [Next]_vars
        => (TypeOK /\ KeysGiven /\ Ahead /\ Silent /\ (msgs = 0 => Texts))'
  BY NextTypeOK, NextAhead, NextSilent, NextTexts
<1>3. (msgs = 0 => Texts) => SilentTextLimit
  BY DEF Texts, SilentTextLimit
<1>. QED BY <1>1, <1>2, <1>3, PTL DEF Spec

-----------------------------------------------------------------------------
(***************************************************************************)
(* OnlyOwnQuestions.  A run enters a step with a session open, so that the *)
(* receiver looks at it and it lands where the receiver would leave it.    *)
(***************************************************************************)

\* The step a receiver leaves a row on is one it does not skip.
Settled ==
  \A c \in Conn, k \in Steps : Land[c][k] \in Steps => Land[c][Land[c][k]] = Land[c][k]

Own(t) == \A p \in Pk : t[p].step \in Steps => Land[p[1]][t[p].step] = t[p].step

\* A step that writes rows at steps of their own.
LEMMA WriteOwn ==
  ASSUME TypeOK, Own(db), Own(View),
         NEW S \in SUBSET Pk, NEW new \in [Pk -> Row], NEW sessions, NEW F,
         Write(S, new, sessions, F) \/ mass_text(new, S, sessions, F),
         Own(new)
  PROVE  Own(db)' /\ Own(View)'
<1>1. \A p \in Pk : /\ View'[p] = new[p] \/ View'[p] = View[p]
                    /\ db'[p] = new[p] \/ db'[p] = db[p]
  BY WriteView, MassTextView DEF TypeOK
<1>. HIDE DEF View
<1>. QED BY <1>1 DEF Own

\* moveon lands every row where its receiver leaves it.
LEMMA MoveOnOwn ==
  ASSUME Settled, TypeOK, KeysGiven, Quiet, Single(View), Own(db), Own(View),
         NEW S \in SUBSET Live(View), NEW k \in Steps, list = S,
         \A p \in S : txopen[p[1]] > 0,
         MoveOn(S, k)
  PROVE  Own(db)' /\ Own(View)'
<1>1. PICK new \in [Pk -> Row], rows \in SUBSET Pk, F \in SUBSET Conn :
           /\ mass_text(new, rows, Closed(F), F)
           /\ Moved(new, S, F, k)
           /\ \A p \in Pk \ rows : new[p] = View[p] \/ (new[p].status = "gone" /\ ~Exists(p))
  BY MoveOnVersion
<1>2. \A p \in S : p[1] \in F \/ Land[p[1]][k] \in Steps
  BY <1>1, MovedRows
<1>3. ASSUME NEW p \in Pk, new[p].step \in Steps
      PROVE  Land[p[1]][new[p].step] = new[p].step
  <2>1. CASE p[1] \in F
    <3>1. new[p] = View[p]
      BY <1>1, <1>3, <2>1 DEF Moved, NoRow, Fresh, Steps
    <3>. QED BY <1>3, <3>1 DEF Own
  <2>2. CASE p[1] \notin F /\ p \notin S
    BY <1>1, <1>3, <2>2 DEF Moved, Own
  <2>3. CASE p[1] \notin F /\ p \in S
    <3>1. View[p] \in Row /\ Land[p[1]][k] \in Steps /\ p[1] \in Conn
      BY <1>2, <2>3, Numbers
    <3>2. new[p] = Bump(Entered(View[p], Land[p[1]][k]))
      BY <1>1, <2>3 DEF Moved
    <3>3. new[p].step = Land[p[1]][k]
      BY <3>1, <3>2, EnteredRow, BumpRow
    <3>. QED BY <3>1, <3>3 DEF Settled
  <2>. QED BY <2>1, <2>2, <2>3
<1>4. Own(new)
  BY <1>3 DEF Own
<1>. QED BY <1>1, <1>4, WriteOwn

\* A step of the pass.
LEMMA PassOwn ==
  ASSUME Settled, TypeOK, KeysGiven, Quiet, Committed, Working, Lists, Own(db), Own(View), Pass
  PROVE  Own(db)' /\ Own(View)'
<1>1. /\ View \in [Pk -> Row] /\ at \in Steps
      /\ \A k : expired(k) \in SUBSET Pk /\ need_to_resend(k) \in SUBSET Pk
                /\ need_to_transition(k) \in SUBSET Pk
  BY ViewType, QuerySets DEF TypeOK, CronOK
<1>2. ASSUME NEW S \in SUBSET Live(View), NEW k \in Steps, list = S,
             InSession = Started(View) \cup S, MoveOn(S, k)
      PROVE  Own(db)' /\ Own(View)'
  <2>1. \A p \in S : txopen[p[1]] > 0
    BY <1>2, KeyParts DEF Working, Sessions, Live
  <2>. QED BY <1>2, <2>1, MoveOnOwn DEF Working
<1>3. UNCHANGED <<db, tx, held>> => Own(db)' /\ Own(View)'
  BY DEF Own, View
<1>4. CASE ExpireMoveOn
  <2>. DEFINE S == expired(at)
              new == [p \in Pk |-> IF p \in S THEN [View[p] EXCEPT !.status = "C", !.age = 0]
                                              ELSE View[p]]
  <2>1. Write(S, new, txopen, {}) /\ new \in [Pk -> Row]
    BY <1>1, <1>4, RowTypes DEF ExpireMoveOn
  <2>2. \A p \in Pk : new[p].step = View[p].step
    BY <1>1 DEF Row
  <2>. HIDE DEF new
  <2>3. Own(new)
    BY <2>2 DEF Own
  <2>. QED BY <1>1, <2>1, <2>3, WriteOwn
<1>5. CASE ExpireGiveUp \/ SelectResend \/ SelectTransition \/ SelectEnding \/ SelectStart
  BY <1>3, <1>5 DEF ExpireGiveUp, SelectResend, SelectTransition, SelectEnding, SelectStart, table
<1>6. ASSUME NEW p \in Pk, GiveUpOne(p) PROVE Own(db)' /\ Own(View)'
  <2>1. PICK F, sessions : Write(Touched(F), Rescheduled(View, F), sessions, F)
    BY <1>6 DEF GiveUpOne
  <2>2. Rescheduled(View, F) \in [Pk -> Row] /\ Touched(F) \in SUBSET Pk
    BY <1>1, RescheduledType, TouchedType
  <2>3. \A q \in Pk : \/ Rescheduled(View, F)[q] = View[q]
                      \/ Rescheduled(View, F)[q].step = -1
    BY DEF Rescheduled, NoRow, Fresh
  <2>4. Own(Rescheduled(View, F))
    BY <2>3 DEF Own, Steps
  <2>. QED BY <2>1, <2>2, <2>4, WriteOwn
<1>7. CASE DeleteExpired
  <2>. DEFINE S == expired(at)
              new == [p \in Pk |-> IF p \in S THEN NoRow ELSE View[p]]
  <2>1. Write(S, new, txopen, {}) /\ new \in [Pk -> Row]
    BY <1>1, <1>7, RowTypes DEF DeleteExpired
  <2>2. \A p \in Pk : new[p].step = View[p].step \/ new[p].step = -1
    BY DEF NoRow
  <2>. HIDE DEF new
  <2>3. Own(new)
    BY <2>2 DEF Own, Steps
  <2>. QED BY <1>1, <2>1, <2>3, WriteOwn
<1>8. CASE Resend
  <2>. DEFINE S == need_to_resend(at)
              new == [p \in Pk |-> IF p \in S THEN Bump(View[p]) ELSE View[p]]
  <2>1. mass_text(new, S, txopen, {}) /\ new \in [Pk -> Row]
    BY <1>1, <1>8, RowTypes DEF Resend
  <2>2. \A p \in Pk : new[p].step = View[p].step
    BY <1>1, BumpRow
  <2>. HIDE DEF new
  <2>3. Own(new)
    BY <2>2 DEF Own
  <2>. QED BY <1>1, <2>1, <2>3, WriteOwn
<1>9. CASE Transition
  <2>. DEFINE S == need_to_transition(at)
  <2>1. CASE S = {}
    BY <1>3, <1>9, <2>1 DEF Transition, table
  <2>2. CASE S # {}
    <3>1. /\ MoveOn(S, at + 1) /\ at + 1 \in Steps /\ list = S /\ pc = "moving"
          /\ S \in SUBSET Live(View)
      BY <1>1, <1>9, <2>2, StepParts, RowsKnown
         DEF Transition, TypeOK, CronOK, Lists, Started
    <3>2. InSession = Started(View) \cup S
      BY <3>1, PlainPhase, RowsKnown DEF Plain
    <3>. HIDE DEF S
    <3>. QED BY <1>2, <3>1, <3>2
  <2>. QED BY <2>1, <2>2
<1>10. CASE DeleteEnded
  <2>. DEFINE S == need_to_transition(at)
              old == [p \in Pk |-> IF p \in S THEN NoRow ELSE View[p]]
              rows == S \cup {p \in list : Exists(p)}
  <2>1. mass_text(Counted(old), rows, txopen, {})
    BY <1>10 DEF DeleteEnded
  <2>2. old \in [Pk -> Row] /\ Counted(old) \in [Pk -> Row] /\ rows \in SUBSET Pk
    BY <1>1, RowTypes, CountedType DEF TypeOK, CronOK
  <2>3. \A p \in Pk : old[p].step = View[p].step \/ old[p].step = -1
    BY DEF NoRow
  <2>. HIDE DEF old, rows
  <2>4. \A p \in Pk : Counted(old)[p].step = old[p].step
    BY <2>2, BumpRow DEF Counted
  <2>5. Own(Counted(old))
    BY <2>3, <2>4 DEF Own, Steps
  <2>. QED BY <2>1, <2>2, <2>5, WriteOwn
<1>11. CASE StartRuns
  <2>1. /\ MoveOn(need_to_start, 0) /\ pc = "starting" /\ 0 \in Steps
        /\ list = need_to_start /\ need_to_start \in SUBSET Live(View)
        /\ InSession = Started(View) \cup need_to_start
    BY <1>11, StepParts, RowsKnown DEF StartRuns, Lists, InSession
  <2>. QED BY <1>2, <2>1
<1>12. CASE EndPass
  <2>1. db' = View /\ held' = {}
    BY <1>12 DEF EndPass, Commit
  <2>2. \A p \in Pk : View'[p] = View[p] /\ db'[p] = View[p]
    BY <2>1 DEF View
  <2>. QED BY <2>2 DEF Own
<1>. QED
  BY <1>4, <1>5, <1>6, <1>7, <1>8, <1>9, <1>10, <1>11, <1>12, Zenon DEF Pass

\* Every step leaves rows on steps of their own.
LEMMA NextOwn ==
  ASSUME Unstaffed, Settled
  PROVE  TypeOK /\ KeysGiven /\ Silent /\ (msgs = 0 => Own(db) /\ Own(View)) /\ [Next]_vars
           => (msgs' = 0 => Own(db)' /\ Own(View)')
<1>. SUFFICES ASSUME TypeOK, KeysGiven, Silent, msgs = 0 => Own(db) /\ Own(View),
                     [Next]_vars, msgs' = 0
              PROVE  Own(db)' /\ Own(View)'
  OBVIOUS
<1>1. CASE Next
  <2>1. /\ Quiet /\ Committed /\ Working /\ Lists /\ Own(db) /\ Own(View)
        /\ Tick \/ ((BeginPass \/ Pass \/ FailPass) /\ UNCHANGED workers)
    BY <1>1, OnlyCronActs DEF Silent
  <2>2. CASE Tick
    <3>1. \A p \in Pk : View'[p].step = View[p].step /\ db'[p].step = db[p].step
      BY <2>2, TickVersions, OlderRow
    <3>. HIDE DEF View
    <3>. QED BY <2>1, <3>1 DEF Own
  <2>3. CASE Pass
    BY <2>1, <2>3, PassOwn
  <2>4. CASE FailPass
    <3>1. db' = db /\ held' = {}
      BY <2>4 DEF FailPass
    <3>2. \A p \in Pk : View'[p] = db[p] /\ db'[p] = db[p]
      BY <3>1 DEF View
    <3>. QED BY <2>1, <3>2 DEF Own
  <2>5. CASE BeginPass
    BY <2>1, <2>5 DEF BeginPass, table, Own, View
  <2>. QED BY <2>1, <2>2, <2>3, <2>4, <2>5
<1>2. CASE UNCHANGED vars
  BY <1>2 DEF vars, cron, table, workers, Own, View
<1>. QED BY <1>1, <1>2

\* A connection that never answers is only ever on questions of its own: the
\* receivers that skip the questions for other grades have seen every step it
\* enters, since the session they look for is open whenever it moves on.
THEOREM AskedItsOwn ==
  ASSUME Unstaffed, Settled
  PROVE  Spec => []OnlyOwnQuestions
<1>1. Init => Own(db) /\ Own(View)
  <2>. SUFFICES ASSUME Init PROVE \A p \in Pk : db[p].step = -1 /\ View[p].step = -1
    BY DEF Own, Steps
  <2>1. PICK age \in [Conn -> {-Gap, 0}] :
          db = [p \in Pk |-> IF p[2] = 1 THEN Fresh(age[p[1]]) ELSE NoRow]
    BY DEF Init
  <2>2. held = {}
    BY DEF Init
  <2>. QED BY <2>1, <2>2 DEF View, Fresh, NoRow
<1>2. Init => TypeOK /\ KeysGiven /\ Ahead /\ Silent /\ (msgs = 0 => Own(db) /\ Own(View))
  BY <1>1, InitTypeOK, InitAhead, InitSilent
<1>3. TypeOK /\ KeysGiven /\ Ahead /\ Silent /\ (msgs = 0 => Own(db) /\ Own(View)) /\ [Next]_vars
        => (TypeOK /\ KeysGiven /\ Ahead /\ Silent /\ (msgs = 0 => Own(db) /\ Own(View)))'
  BY NextTypeOK, NextAhead, NextSilent, NextOwn
<1>4. (msgs = 0 => Own(db) /\ Own(View)) => OnlyOwnQuestions
  BY DEF Own, OnlyOwnQuestions
<1>. QED BY <1>2, <1>3, <1>4, PTL DEF Spec

-----------------------------------------------------------------------------
(***************************************************************************)
(* The engine implements Dialogue: for every script that is scheduled      *)
(* again from the roster, what commits of the connections, while none of   *)
(* them answers, is a dialogue.                                            *)
(*                                                                         *)
(* A commit may carry what the pass has done to a connection since the     *)
(* last one, and a step of Dialogue is one thing at most.  So the          *)
(* invariant says how far the pass's version is ahead: not at all, or the  *)
(* connection's run is over and the next one, which is not yet due, has    *)
(* its place.  A run that moves on is committed as it does, because it is  *)
(* sent a text.                                                            *)
(***************************************************************************)

\* No connection ever answers, and the roster's dates are ahead.
Unanswered == Unstaffed /\ MaxMsgs = 0 /\ Recurring /\ Gap > 0

LeavesAt(c, k) == \/ k = Last
                  \/ k \in Steps /\ Rule[k] \in GivingUp
                  \/ Land[c][k + 1] = Done

\* What may become of c from version t of the table to version u.
Stays(t, u, c) ==
  \A p \in Pk : p[1] = c =>
    /\ p \in Live(t) <=> p \in Live(u)
    /\ p \in Live(t) => t[p].step = u[p].step

Advances(t, u, c) ==
  \E p \in Live(t) \cap Live(u) :
    /\ p[1] = c /\ t[p].step < Last
    /\ Land[c][t[p].step + 1] \in Steps
    /\ u[p].step = Land[c][t[p].step + 1]

\* The run is over; the next one is not due before the pass ends.
Ends(t, u, c) ==
  \E p \in Live(t) :
    /\ p[1] = c /\ LeavesAt(c, t[p].step)
    /\ \/ \E q \in Live(u) : q[1] = c /\ q[2] > p[2] /\ u[q].step = -1 /\ u[q].age < 0
       \/ runs[c] = MaxRuns /\ \A q \in Live(u) : q[1] # c

Reaches(u, c) == Stays(db, u, c) \/ Ends(db, u, c)
Follows       == \A c \in Conn : Reaches(View, c)

\* A step of the table that Dialogue allows.
Moves(c) == Stays(db, db', c) \/ Advances(db, db', c) \/ Ends(db, db', c)

Texted(c) ==
  \/ \A q \in Pk : q[1] = c => sent'[q] = sent[q]
  \/ \E p \in Live(db) \cap Live(db)', k \in Steps :
       /\ p[1] = c /\ db'[p].step \in Steps
       /\ sent'[p] = [sent[p] EXCEPT ![k] = @ + 1]
       /\ \A q \in Pk : q[1] = c /\ q # p => sent'[q] = sent[q]

Dialogic == \A c \in Conn : Moves(c) /\ Texted(c) /\ runs[c] <= runs'[c]

-----------------------------------------------------------------------------
(***************************************************************************)
(* The mapping.                                                            *)
(***************************************************************************)

\* The place of a connection with one row.
LEMMA PlaceOne ==
  ASSUME NEW p \in Live(db), Single(db)
  PROVE  p[1] \in Conn /\ Places[p[1]] = {<<p[2], db[p].step>>}
<1>1. p \in Pk /\ p[1] \in Conn
  BY KeyParts DEF Live
<1>2. Present(p[1]) = {p}
  BY <1>1 DEF Present, RowsOf, Live, Single
<1>. QED BY <1>1, <1>2 DEF Places

LEMMA PlaceNone ==
  ASSUME NEW c \in Conn, \A p \in Live(db) : p[1] # c
  PROVE  Places[c] = {}
<1>1. Present(c) = {}
  BY DEF Present, RowsOf, Live
<1>. QED BY <1>1 DEF Places

\* The same after a step.
LEMMA PlaceOneAfter ==
  ASSUME NEW p \in Live(db)', Single(db)'
  PROVE  Places'[p[1]] = {<<p[2], db'[p].step>>}
<1>1. p \in Pk /\ p[1] \in Conn
  BY KeyParts DEF Live
<1>2. Present(p[1])' = {p}
  BY <1>1 DEF Present, RowsOf, Live, Single
<1>. QED BY <1>1, <1>2 DEF Places

LEMMA PlaceNoneAfter ==
  ASSUME NEW c \in Conn, \A p \in Live(db)' : p[1] # c
  PROVE  Places'[c] = {}
<1>1. Present(c)' = {}
  BY DEF Present, RowsOf, Live
<1>. QED BY <1>1 DEF Places

\* A connection that stays has the place it had.
LEMMA StayPlace ==
  ASSUME NEW c \in Conn, Stays(db, db', c), Single(db), Single(db)'
  PROVE  Places'[c] = Places[c]
<1>1. CASE \E p \in Live(db) : p[1] = c
  <2>1. PICK p \in Live(db) : p[1] = c
    BY <1>1
  <2>2. p \in Live(db)' /\ db'[p].step = db[p].step
    BY <2>1 DEF Stays, Live
  <2>. QED BY <2>1, <2>2, PlaceOne, PlaceOneAfter
<1>2. CASE \A p \in Live(db) : p[1] # c
  <2>1. \A p \in Live(db)' : p[1] # c
    BY <1>2 DEF Stays, Live
  <2>. QED BY <1>2, <2>1, PlaceNone, PlaceNoneAfter
<1>. QED BY <1>1, <1>2

LEMMA MovePlace ==
  ASSUME TypeOK, TypeOK', NEW c \in Conn, Moves(c), Single(db), Single(db)'
  PROVE  Dialogues!Stay(c) \/ Dialogues!Advance(c) \/ Dialogues!Finish(c)
<1>1. CASE Stays(db, db', c)
  BY <1>1, StayPlace DEF Dialogues!Stay
<1>2. CASE Advances(db, db', c)
  <2>1. PICK p \in Live(db) \cap Live(db)' :
          /\ p[1] = c /\ db[p].step < Last
          /\ Land[c][db[p].step + 1] \in Steps
          /\ db'[p].step = Land[c][db[p].step + 1]
    BY <1>2 DEF Advances, Live
  <2>2. /\ Places[c] = {<<p[2], db[p].step>>}
        /\ Places'[c] = {<<p[2], Land[c][db[p].step + 1]>>}
    BY <2>1, PlaceOne, PlaceOneAfter
  <2>3. Land[c][db[p].step + 1] <= Last
    BY <2>1, ConstantsAssumption DEF Steps, ConstantsAssumption
  <2>. QED BY <2>1, <2>2, <2>3 DEF Dialogues!Advance
<1>3. CASE Ends(db, db', c)
  <2>1. PICK p \in Live(db) :
          /\ p[1] = c /\ LeavesAt(c, db[p].step)
          /\ \/ \E q \in Live(db)' : q[1] = c /\ q[2] > p[2] /\ db'[q].step = -1
             \/ runs[c] = MaxRuns /\ \A q \in Live(db)' : q[1] # c
    BY <1>3 DEF Ends, Live
  <2>2. Places[c] = {<<p[2], db[p].step>>} /\ p[2] \in 1 .. MaxRuns
    BY <2>1, PlaceOne, KeyParts DEF Live
  <2>3. Dialogues!Leaves(c, db[p].step)
    BY <2>1 DEF LeavesAt, Dialogues!Leaves, Done
  <2>4. CASE \E q \in Live(db)' : q[1] = c /\ q[2] > p[2] /\ db'[q].step = -1
    <3>1. PICK q \in Live(db)' : q[1] = c /\ q[2] > p[2] /\ db'[q].step = -1
      BY <2>4
    <3>2. Places'[c] = {<<q[2], -1>>} /\ q[2] \in 1 .. MaxRuns
      BY <3>1, PlaceOneAfter, KeyParts DEF Live
    <3>3. q[2] \in p[2] + 1 .. MaxRuns
      BY <2>2, <3>1, <3>2, ConstantsAssumption DEF ConstantsAssumption
    <3>. QED BY <2>2, <2>3, <3>2, <3>3 DEF Dialogues!Finish
  <2>5. CASE runs[c] = MaxRuns /\ \A q \in Live(db)' : q[1] # c
    <3>1. Places'[c] = {}
      BY <2>5, PlaceNoneAfter
    <3>. QED BY <2>2, <2>3, <2>5, <3>1 DEF Dialogues!Finish
  <2>. QED BY <2>1, <2>4, <2>5
<1>. QED BY <1>1, <1>2, <1>3 DEF Moves

LEMMA TextPlace ==
  ASSUME TypeOK, TypeOK', NEW c \in Conn, Texted(c), Single(db), Single(db)'
  PROVE  Questions'[c] = Questions[c] \/ Dialogues!Text(c)
<1>1. \A n \in 1 .. MaxRuns : <<c, n>> \in Pk
  BY DEF Pk
<1>2. /\ Questions[c] = [n \in 1 .. MaxRuns |-> sent[<<c, n>>]]
      /\ Questions'[c] = [n \in 1 .. MaxRuns |-> sent'[<<c, n>>]]
  BY DEF Questions
<1>3. CASE \A q \in Pk : q[1] = c => sent'[q] = sent[q]
  BY <1>1, <1>2, <1>3
<1>4. ASSUME NEW p \in Live(db), p \in Live(db)', NEW k \in Steps,
             p[1] = c, db'[p].step \in Steps,
             sent'[p] = [sent[p] EXCEPT ![k] = @ + 1],
             \A q \in Pk : q[1] = c /\ q # p => sent'[q] = sent[q]
      PROVE  Dialogues!Text(c)
  <2>1. p = <<c, p[2]>> /\ p[2] \in 1 .. MaxRuns
    BY <1>4, KeyParts DEF Live
  <2>2. ASSUME NEW n \in 1 .. MaxRuns
        PROVE  sent'[<<c, n>>] = IF n = p[2] THEN [sent[<<c, n>>] EXCEPT ![k] = @ + 1]
                                 ELSE sent[<<c, n>>]
    <3>1. CASE n = p[2]
      BY <1>4, <2>1, <3>1
    <3>2. CASE n # p[2]
      BY <1>1, <1>4, <2>1, <3>2
    <3>. QED BY <3>1, <3>2
  <2>3. Questions'[c] = [Questions[c] EXCEPT ![p[2]][k] = @ + 1]
    <3>. DEFINE before == Questions[c]
                counted == [before[p[2]] EXCEPT ![k] = @ + 1]
    <3>1. /\ before = [n \in 1 .. MaxRuns |-> sent[<<c, n>>]]
          /\ before[p[2]] = sent[<<c, p[2]>>]
      BY <1>2, <2>1
    <3>2. \A n \in 1 .. MaxRuns :
            sent'[<<c, n>>] = IF n = p[2] THEN counted ELSE sent[<<c, n>>]
      BY <2>1, <2>2, <3>1
    <3>3. Questions'[c] = [n \in 1 .. MaxRuns |-> IF n = p[2] THEN counted ELSE sent[<<c, n>>]]
      BY <1>2, <3>2
    <3>4. [before EXCEPT ![p[2]] = counted]
            = [n \in 1 .. MaxRuns |-> IF n = p[2] THEN counted ELSE sent[<<c, n>>]]
      <4>. HIDE DEF counted, before
      <4>. QED BY <3>1
    <3>5. [before EXCEPT ![p[2]] = counted] = [Questions[c] EXCEPT ![p[2]][k] = @ + 1]
      OBVIOUS
    <3>. QED BY <3>3, <3>4, <3>5
  <2>4. /\ Places[c] = {<<p[2], db[p].step>>}
        /\ Places'[c] = {<<p[2], db'[p].step>>}
    BY <1>4, PlaceOne, PlaceOneAfter
  <2>5. db'[p].step >= 0 /\ k \in 0 .. Last
    BY <1>4, ConstantsAssumption DEF Steps, ConstantsAssumption
  <2>. QED BY <2>3, <2>4, <2>5 DEF Dialogues!Text
<1>. QED BY <1>3, <1>4 DEF Texted, Live

\* A step that is Dialogic for every connection is a step of Dialogue.
LEMMA DialogueStep ==
  ASSUME TypeOK, TypeOK', Single(db), Single(db)', Dialogic
  PROVE  Dialogues!Next
<1>1. ASSUME NEW c \in Conn
      PROVE  /\ Dialogues!Stay(c) \/ Dialogues!Advance(c) \/ Dialogues!Finish(c)
             /\ Questions'[c] = Questions[c] \/ Dialogues!Text(c)
             /\ runs'[c] \in runs[c] .. MaxRuns
  <2>1. Moves(c) /\ Texted(c) /\ runs[c] <= runs'[c]
    BY DEF Dialogic
  <2>2. runs[c] \in 1 .. MaxRuns /\ runs'[c] \in 1 .. MaxRuns
    BY DEF TypeOK, TableOK
  <2>3. runs'[c] \in runs[c] .. MaxRuns
    BY <2>1, <2>2, ConstantsAssumption DEF ConstantsAssumption
  <2>. QED BY <2>1, <2>3, MovePlace, TextPlace
<1>2. DOMAIN runs' = Conn /\ DOMAIN Places' = Conn /\ DOMAIN Questions' = Conn
  BY DEF TypeOK, TableOK, Places, Questions
<1>. QED BY <1>1, <1>2 DEF Dialogues!Next

-----------------------------------------------------------------------------
(***************************************************************************)
(* How far the pass is ahead.                                              *)
(***************************************************************************)

\* Rows that are on a step, or due, are where they are committed to be.
LEMMA NotAhead ==
  ASSUME TypeOK, Single(View), Follows, NEW p \in Live(View),
         View[p].step # -1 \/ View[p].age >= 0
  PROVE  p \in Live(db) /\ db[p].step = View[p].step
<1>1. p \in Pk /\ p[1] \in Conn /\ View[p] \in Row
  BY KeyParts, ViewType DEF Live, TypeOK
<1>2. Reaches(View, p[1])
  BY <1>1 DEF Follows
<1>3. ~Ends(db, View, p[1])
  <2>1. \A q \in Live(View) : q[1] = p[1] => q = p
    BY DEF Single
  <2>2. View[p].age \in Int
    BY <1>1, ConstantsAssumption DEF Row, ConstantsAssumption
  <2>. QED BY <2>1, <2>2 DEF Ends
<1>. QED BY <1>1, <1>2, <1>3 DEF Reaches, Stays

\* A version that has the rows of a connection where the pass's has them.
LEMMA StillReaches ==
  ASSUME Follows, NEW new, NEW c \in Conn,
         \A p \in Pk : p[1] = c =>
           /\ new[p].status = "gone" <=> ~Exists(p)
           /\ new[p].step = View[p].step
           /\ View[p].step = -1 => new[p].age = View[p].age
  PROVE  Reaches(new, c)
<1>1. \A p \in Pk : p[1] = c => (p \in Live(new) <=> p \in Live(View))
  BY DEF Live, Exists
<1>2. Live(new) \subseteq Pk /\ Live(View) \subseteq Pk
  BY DEF Live
<1>3. CASE Stays(db, View, c)
  BY <1>1, <1>3 DEF Stays, Reaches
<1>4. CASE Ends(db, View, c)
  BY <1>1, <1>2, <1>4 DEF Ends, Reaches
<1>. QED BY <1>3, <1>4 DEF Follows, Reaches

\* A write that commits nothing.
LEMMA WriteFollows ==
  ASSUME TypeOK,
         NEW S \in SUBSET Pk, NEW new \in [Pk -> Row], NEW sessions, NEW F,
         Write(S, new, sessions, F) \/ mass_text(new, S, sessions, F),
         UNCHANGED <<db, sent>>,
         \A p \in Pk \ S : new[p] = View[p] \/ (new[p].status = "gone" /\ ~Exists(p)),
         \A c \in Conn : Reaches(new, c)
  PROVE  Follows' /\ Dialogic
<1>1. /\ Live(View)' = Live(new) /\ \A p \in Live(new) : View'[p] = new[p]
      /\ runs' = RunsAfter(F)
  BY Versions
<1>2. \A c \in Conn : runs[c] <= runs'[c] /\ (runs[c] = MaxRuns => runs'[c] = MaxRuns)
  BY <1>1, RunsGrow, RunsAfterType, ConstantsAssumption DEF TypeOK, TableOK, ConstantsAssumption
<1>3. Live(db)' = Live(db)
  BY DEF Live
<1>4. ASSUME NEW c \in Conn PROVE Reaches(View, c)'
  <2>1. CASE Stays(db, new, c)
    <3>1. Stays(db, View, c)'
      BY <1>1, <1>3, <2>1 DEF Stays
    <3>. QED BY <3>1 DEF Reaches
  <2>2. CASE Ends(db, new, c)
    <3>1. Ends(db, View, c)'
      BY <1>1, <1>2, <1>3, <2>2 DEF Ends, LeavesAt
    <3>. QED BY <3>1 DEF Reaches
  <2>. QED BY <2>1, <2>2 DEF Reaches
<1>5. Dialogic
  BY <1>2 DEF Dialogic, Moves, Stays, Texted
<1>. QED BY <1>4, <1>5 DEF Follows

\* What is committed is followed.
LEMMA CommitFollows ==
  ASSUME \A p \in Pk : View'[p] = db'[p] \/ (View'[p].status = "gone" /\ db'[p].status = "gone")
  PROVE  Follows'
<1>1. \A p \in Pk : /\ p \in Live(View)' <=> p \in Live(db)'
                    /\ p \in Live(db)' => View'[p] = db'[p]
  BY DEF Live
<1>2. \A c \in Conn : Stays(db, View, c)'
  BY <1>1 DEF Stays
<1>. QED BY <1>2 DEF Follows, Reaches

\* mass_text: its rows are those it is committed with.
LEMMA TextFollows ==
  ASSUME TypeOK, Single(db),
         NEW S \in SUBSET Pk, NEW new \in [Pk -> Row], NEW sessions, NEW F,
         mass_text(new, S, sessions, F),
         \A p \in Pk \ S : new[p] = View[p] \/ (new[p].status = "gone" /\ ~Exists(p)),
         \A c \in Conn : Reaches(new, c) \/ Advances(db, new, c),
         {p \in list : new[p].status # "gone"} = {} => \A c \in Conn : Reaches(new, c),
         \A p \in list : new[p].status # "gone" => p \in Live(db) /\ new[p].step \in Steps
  PROVE  Follows' /\ Dialogic
<1>. DEFINE recipients == {p \in list : new[p].status # "gone"}
<1>1. CASE recipients = {}
  <2>1. Write(S, new, sessions, F) /\ UNCHANGED <<db, sent>>
    BY <1>1 DEF mass_text, Write
  <2>. QED BY <1>1, <2>1, WriteFollows
<1>2. CASE recipients # {}
  <2>1. PICK k \in Steps :
          /\ sent' = [p \in Pk |-> IF p \in recipients
                                   THEN [sent[p] EXCEPT ![k] = @ + 1] ELSE sent[p]]
          /\ Commit(new, sessions, F)
    BY <1>2 DEF mass_text
  <2>2. db' = new /\ held' = {} /\ runs' = RunsAfter(F)
    BY <2>1 DEF Commit
  <2>3. Follows'
    <3>1. \A p \in Pk : View'[p] = db'[p]
      BY <2>2 DEF View
    <3>. QED BY <3>1, CommitFollows
  <2>4. ASSUME NEW c \in Conn PROVE Moves(c) /\ Texted(c) /\ runs[c] <= runs'[c]
    <3>1. Moves(c)
      BY <2>2 DEF Moves, Reaches
    <3>2. ASSUME \A q \in recipients : q[1] # c PROVE Texted(c)
      BY <2>1, <3>2 DEF Texted
    <3>3. ASSUME \E q \in recipients : q[1] = c PROVE Texted(c)
      <4>1. PICK p \in recipients : p[1] = c
        BY <3>3
      <4>2. /\ p \in Live(db) /\ p \in Pk /\ p \in Live(db)'
            /\ db'[p].step \in Steps
        BY <2>2, <4>1 DEF Live, TypeOK, CronOK
      <4>3. \A q \in recipients : q[1] = c => q = p
        BY <4>1, <4>2 DEF Single
      <4>4. /\ sent'[p] = [sent[p] EXCEPT ![k] = @ + 1]
            /\ \A q \in Pk : q[1] = c /\ q # p => sent'[q] = sent[q]
        <5>. HIDE DEF recipients
        <5>. QED BY <2>1, <4>1, <4>2, <4>3
      <4>. QED BY <4>1, <4>2, <4>4 DEF Texted
    <3>4. runs[c] <= runs'[c]
      BY <2>2, RunsGrow DEF TypeOK
    <3>. QED BY <3>1, <3>2, <3>3, <3>4
  <2>. QED BY <2>3, <2>4 DEF Dialogic
<1>. QED BY <1>1, <1>2

\* A run that is over and gives way to the next.
LEMMA GivesWay ==
  ASSUME TypeOK, Recurring, Gap > 0, NEW u, NEW p \in Live(db), NEW c \in Conn,
         p[1] = c, p[2] <= runs[c], LeavesAt(c, db[p].step),
         \A q \in Pk : q[1] = c =>
           IF q[2] = runs[c] + 1 THEN u[q] = Fresh(-Gap) ELSE u[q].status = "gone"
  PROVE  Ends(db, u, c)
<1>1. runs[c] \in 1 .. MaxRuns /\ MaxRuns \in Nat /\ p[2] \in Int /\ Gap \in Nat
  BY KeyParts, ConstantsAssumption DEF Live, TypeOK, TableOK, ConstantsAssumption
<1>2. CASE runs[c] < MaxRuns
  <2>. DEFINE q == <<c, runs[c] + 1>>
  <2>1. q \in Pk /\ q[1] = c /\ q[2] = runs[c] + 1
    BY <1>1, <1>2 DEF Pk
  <2>2. u[q] = Fresh(-Gap)
    BY <2>1
  <2>. HIDE DEF q
  <2>3. q \in Live(u) /\ u[q].step = -1 /\ u[q].age < 0
    BY <1>1, <2>1, <2>2 DEF Live, Fresh
  <2>4. q[2] > p[2]
    BY <1>1, <2>1
  <2>. QED BY <2>1, <2>3, <2>4 DEF Ends
<1>3. CASE runs[c] = MaxRuns
  <2>1. \A q \in Live(u) : q[1] # c
    BY <1>1, <1>3, KeyParts DEF Live
  <2>. QED BY <1>3, <2>1 DEF Ends
<1>. QED BY <1>1, <1>2, <1>3

\* giveup of one run.
LEMMA GiveUpFollows ==
  ASSUME Unanswered, TypeOK, KeysGiven, Quiet, Working, Lists, Follows,
         NEW p \in Pk, GiveUpOne(p)
  PROVE  Follows' /\ Dialogic
<1>1. /\ p \in Condemned /\ p \in Started(View) /\ View[p].step = at
      /\ UNCHANGED <<db, sent>> /\ runs' = RunsAfter({p[1]})
      /\ \A q \in Pk : q[1] # p[1] => View'[q] = View[q]
      /\ \A q \in Pk : q[1] = p[1] =>
           IF q[2] = runs[p[1]] + 1 THEN View'[q] = Fresh(-Gap) ELSE View'[q].status = "gone"
  BY GiveUpVersion DEF Unanswered
<1>2. /\ p \in Live(View) /\ p[1] \in Conn /\ p[2] <= runs[p[1]]
      /\ p \in Live(db) /\ db[p].step = at
  <2>1. p \in Live(View) /\ View[p].step # -1
    BY <1>1 DEF Started
  <2>2. p \in Live(db) /\ db[p].step = View[p].step
    BY <2>1, NotAhead DEF Working
  <2>. QED BY <1>1, <2>1, <2>2, KeyParts, RowsKnown
<1>3. LeavesAt(p[1], at)
  <2>1. pc \in {"expired", "ending"} /\ at \in Steps
    BY DEF GiveUpOne, TypeOK, CronOK
  <2>. QED BY <2>1 DEF Lists, LeavesAt
<1>4. Ends(db, View', p[1])
  BY <1>1, <1>2, <1>3, GivesWay DEF Unanswered
<1>5. Live(db)' = Live(db)
  BY <1>1 DEF Live
<1>6. \A c \in Conn : runs[c] <= runs'[c] /\ (runs[c] = MaxRuns => runs'[c] = MaxRuns)
  BY <1>1, RunsGrow, RunsAfterType, ConstantsAssumption DEF TypeOK, TableOK, ConstantsAssumption
<1>7. ASSUME NEW c \in Conn PROVE Reaches(View, c)'
  <2>1. CASE c = p[1]
    <3>1. Ends(db, View, c)'
      BY <1>1, <1>4, <1>5, <1>6, <2>1 DEF Ends, LeavesAt, Live
    <3>. QED BY <3>1 DEF Reaches
  <2>2. CASE c # p[1]
    <3>1. \A q \in Pk : q[1] = c => View'[q] = View[q] /\ (q \in Live(View)' <=> q \in Live(View))
      BY <1>1, <2>2 DEF Live
    <3>2. Live(View) \subseteq Pk /\ Live(View)' \subseteq Pk
      BY DEF Live
    <3>. HIDE DEF View
    <3>3. CASE Stays(db, View, c)
      <4>1. Stays(db, View, c)'
        BY <1>1, <1>5, <3>1, <3>3 DEF Stays
      <4>. QED BY <4>1 DEF Reaches
    <3>4. CASE Ends(db, View, c)
      <4>1. Ends(db, View, c)'
        BY <1>1, <1>5, <1>6, <3>1, <3>2, <3>4 DEF Ends, LeavesAt
      <4>. QED BY <4>1 DEF Reaches
    <3>. QED BY <3>3, <3>4 DEF Follows, Reaches
  <2>. QED BY <2>1, <2>2
<1>8. Dialogic
  BY <1>1, <1>5, <1>6 DEF Dialogic, Moves, Stays, Texted
<1>. QED BY <1>7, <1>8 DEF Follows

\* moveon and its texts.
LEMMA MoveOnFollows ==
  ASSUME Unanswered, TypeOK, KeysGiven, Quiet, Committed, Single(View), Follows,
         NEW S \in SUBSET Live(View), NEW k \in Steps, list = S,
         \A p \in S : txopen[p[1]] > 0,
         \A p \in S : View[p].step = k - 1 /\ (k = 0 => View[p].age >= 0),
         MoveOn(S, k)
  PROVE  Follows' /\ Dialogic
<1>1. PICK new \in [Pk -> Row], rows \in SUBSET Pk, F \in SUBSET Conn :
           /\ mass_text(new, rows, Closed(F), F)
           /\ Moved(new, S, F, k)
           /\ \A p \in Pk \ rows : new[p] = View[p] \/ (new[p].status = "gone" /\ ~Exists(p))
  BY MoveOnVersion
<1>2. /\ S \subseteq Pk /\ k \in Int /\ k <= Last /\ Last \in Int
      /\ \A p \in S : p[1] \in Conn
  BY KeyParts, ConstantsAssumption DEF Live, Steps, ConstantsAssumption
<1>3. ASSUME NEW p \in S
      PROVE  p \in Live(db) /\ db[p].step = k - 1 /\ p[2] <= runs[p[1]]
  <2>1. View[p].step # -1 \/ View[p].age >= 0
    BY <1>2
  <2>. QED BY <2>1, NotAhead, RowsKnown
<1>4. ASSUME NEW p \in S, p[1] \notin F
      PROVE  /\ Land[p[1]][k] \in Steps /\ new[p].step = Land[p[1]][k] /\ p \in Live(new)
  <2>1. Land[p[1]][k] \in Steps /\ p \in Live(new)
    BY <1>1, <1>2, <1>4, MovedRows
  <2>2. View[p] \in Row /\ new[p] = Bump(Entered(View[p], Land[p[1]][k]))
    BY <1>1, <1>2, <1>4, Numbers DEF Moved
  <2>3. new[p].step = Land[p[1]][k]
    BY <2>1, <2>2, EnteredRow, BumpRow
  <2>. QED BY <2>1, <2>3
<1>5. ASSUME NEW c \in F PROVE Reaches(new, c)
  <2>1. PICK p \in S : p[1] = c /\ Land[c][k] = Done
    BY <1>1 DEF Moved
  <2>2. LeavesAt(c, db[p].step)
    <3>1. db[p].step + 1 = k
      BY <1>2, <1>3
    <3>. QED BY <2>1, <3>1 DEF LeavesAt
  <2>3. \A q \in Pk : q[1] = c =>
          IF q[2] = runs[c] + 1 THEN new[q] = Fresh(-Gap) ELSE new[q].status = "gone"
    BY <1>1 DEF Moved, Unanswered
  <2>4. Ends(db, new, c)
    BY <1>3, <2>1, <2>2, <2>3, GivesWay DEF Unanswered
  <2>. QED BY <2>4 DEF Reaches
<1>6. ASSUME NEW c \in Conn, c \notin F, NEW p \in S, p[1] = c
      PROVE  Advances(db, new, c)
  <2>1. /\ p \in Live(db) \cap Live(new) /\ db[p].step = k - 1
        /\ Land[c][k] \in Steps /\ new[p].step = Land[c][k]
    BY <1>3, <1>4, <1>6
  <2>2. db[p].step < Last /\ db[p].step + 1 = k
    BY <1>2, <2>1
  <2>. QED BY <1>6, <2>1, <2>2 DEF Advances
<1>7. ASSUME NEW c \in Conn, c \notin F, \A p \in S : p[1] # c
      PROVE  Reaches(new, c)
  <2>1. \A q \in Pk : q[1] = c => new[q] = View[q]
    BY <1>1, <1>7 DEF Moved
  <2>. QED BY <2>1, StillReaches DEF Exists
<1>8. \A c \in Conn : Reaches(new, c) \/ Advances(db, new, c)
  BY <1>5, <1>6, <1>7
<1>9. {p \in list : new[p].status # "gone"} = {} => \A c \in Conn : Reaches(new, c)
  <2>. SUFFICES ASSUME {p \in list : new[p].status # "gone"} = {}, NEW c \in Conn
                PROVE  Reaches(new, c)
    OBVIOUS
  <2>1. \A p \in S : p[1] \in F
    BY <1>4 DEF Live
  <2>. QED BY <1>5, <1>7, <2>1
<1>10. ASSUME NEW p \in list, new[p].status # "gone"
       PROVE  p \in Live(db) /\ new[p].step \in Steps
  <2>1. p[1] \notin F
    <3>1. p[2] # runs[p[1]] + 1
      BY <1>2, <1>3, Numbers
    <3>. QED BY <1>1, <1>2, <1>10, <3>1 DEF Moved
  <2>. QED BY <1>3, <1>4, <2>1
<1>. QED BY <1>1, <1>8, <1>9, <1>10, TextFollows DEF Committed

\* A write that leaves every row at its step.
LEMMA SameStepFollows ==
  ASSUME TypeOK, Single(db), Follows,
         NEW S \in SUBSET Pk, NEW new \in [Pk -> Row], NEW sessions,
         \/ Write(S, new, sessions, {}) /\ UNCHANGED sent
         \/ mass_text(new, S, sessions, {}),
         \A p \in Pk \ S : new[p] = View[p],
         \A p \in Pk : /\ new[p].status = "gone" <=> ~Exists(p)
                       /\ new[p].step = View[p].step
                       /\ View[p].step = -1 => new[p].age = View[p].age,
         \A p \in list : new[p].status # "gone" => p \in Live(db) /\ new[p].step \in Steps
  PROVE  Follows' /\ Dialogic
<1>1. \A c \in Conn : Reaches(new, c)
  BY StillReaches
<1>2. CASE Write(S, new, sessions, {}) /\ UNCHANGED sent
  <2>1. UNCHANGED <<db, sent>>
    BY <1>2 DEF Write
  <2>. QED BY <1>1, <1>2, <2>1, WriteFollows
<1>3. CASE mass_text(new, S, sessions, {})
  BY <1>1, <1>3, TextFollows
<1>. QED BY <1>2, <1>3

\* A step that writes no row.
LEMMA ReadFollows ==
  ASSUME TypeOK, Follows, UNCHANGED <<db, tx, held, sent, runs>>
  PROVE  Follows' /\ Dialogic
<1>1. View' = View /\ Live(db)' = Live(db) /\ Live(View)' = Live(View)
  BY SameView
<1>2. \A c \in Conn : runs[c] <= runs'[c]
  BY ConstantsAssumption DEF TypeOK, TableOK, ConstantsAssumption
<1>3. Dialogic
  BY <1>1, <1>2 DEF Dialogic, Moves, Stays, Texted
<1>. HIDE DEF View
<1>4. \A c \in Conn : /\ Stays(db, View, c)' <=> Stays(db, View, c)
                      /\ Ends(db, View, c)' <=> Ends(db, View, c)
  BY <1>1 DEF Stays, Ends, LeavesAt
<1>. QED BY <1>3, <1>4 DEF Follows, Reaches

\* A step that makes what the pass sees what is committed, without texts.
LEMMA MeetFollows ==
  ASSUME TypeOK, Follows, UNCHANGED <<sent, runs>>,
         \/ \A p \in Pk : View'[p] = View[p] /\ db'[p] = View[p]
         \/ \A p \in Pk : /\ View'[p] = db'[p] /\ db'[p].step = db[p].step
                          /\ db'[p].status = db[p].status
  PROVE  Follows' /\ Dialogic
<1>1. Follows'
  BY CommitFollows, Zenon
<1>2. \A c \in Conn : runs[c] <= runs'[c]
  BY ConstantsAssumption DEF TypeOK, TableOK, ConstantsAssumption
<1>. HIDE DEF View
<1>3. ASSUME NEW c \in Conn PROVE Moves(c)
  <2>1. CASE \A p \in Pk : db'[p] = View[p]
    <3>1. Live(db') = Live(View) /\ \A p \in Live(View) : db'[p] = View[p]
      BY <2>1 DEF Live
    <3>2. Live(View) \subseteq Pk
      BY DEF Live
    <3>3. CASE Stays(db, View, c)
      BY <2>1, <3>1, <3>3 DEF Stays, Moves
    <3>4. CASE Ends(db, View, c)
      BY <3>1, <3>4 DEF Ends, Moves
    <3>. QED BY <3>3, <3>4 DEF Follows, Reaches
  <2>2. CASE \A p \in Pk : db'[p].step = db[p].step /\ db'[p].status = db[p].status
    BY <2>2 DEF Moves, Stays, Live
  <2>. QED BY <2>1, <2>2
<1>. QED BY <1>1, <1>2, <1>3 DEF Dialogic, Texted

\* A step of the pass.
LEMMA PassFollows ==
  ASSUME Unanswered, TypeOK, KeysGiven, Quiet, Committed, Working, Lists, Follows, Pass
  PROVE  Follows' /\ Dialogic
<1>1. /\ View \in [Pk -> Row] /\ at \in Steps /\ at # -1
      /\ \A k : expired(k) \in SUBSET Pk /\ need_to_resend(k) \in SUBSET Pk
                /\ need_to_transition(k) \in SUBSET Pk
      /\ Single(db) /\ Single(View)
  BY ViewType, QuerySets DEF TypeOK, CronOK, Committed, Working, Steps
<1>2. ASSUME NEW S \in SUBSET Live(View), NEW k \in Steps, list = S,
             InSession = Started(View) \cup S, MoveOn(S, k),
             \A p \in S : View[p].step = k - 1 /\ (k = 0 => View[p].age >= 0)
      PROVE  Follows' /\ Dialogic
  <2>1. \A p \in S : txopen[p[1]] > 0
    BY <1>2, KeyParts DEF Working, Sessions, Live
  <2>. QED BY <1>1, <1>2, <2>1, MoveOnFollows
<1>3. UNCHANGED <<db, tx, held, sent, runs>> => Follows' /\ Dialogic
  BY ReadFollows
<1>4. CASE ExpireMoveOn
  <2>. DEFINE S == expired(at)
              new == [p \in Pk |-> IF p \in S THEN [View[p] EXCEPT !.status = "C", !.age = 0]
                                              ELSE View[p]]
  <2>1. Write(S, new, txopen, {}) /\ UNCHANGED sent /\ new \in [Pk -> Row] /\ pc = "expire"
    BY <1>1, <1>4, RowTypes DEF ExpireMoveOn
  <2>2. \A p \in Pk : /\ new[p].status = "gone" <=> ~Exists(p)
                      /\ new[p].step = View[p].step
                      /\ View[p].step = -1 => new[p].age = View[p].age
    BY <1>1 DEF Row, Exists, expired
  <2>3. \A p \in Pk \ S : new[p] = View[p]
    OBVIOUS
  <2>. HIDE DEF new, S
  <2>4. \A c \in Conn : Reaches(new, c)
    BY <2>2, StillReaches
  <2>5. UNCHANGED <<db, sent>> /\ S \in SUBSET Pk
    BY <1>1, <2>1 DEF Write, S
  <2>. QED BY <2>1, <2>3, <2>4, <2>5, WriteFollows
<1>5. CASE ExpireGiveUp \/ SelectResend \/ SelectTransition \/ SelectEnding \/ SelectStart
  BY <1>3, <1>5 DEF ExpireGiveUp, SelectResend, SelectTransition, SelectEnding, SelectStart, table
<1>6. ASSUME NEW p \in Pk, GiveUpOne(p) PROVE Follows' /\ Dialogic
  BY <1>6, GiveUpFollows
<1>7. CASE DeleteExpired
  <2>. DEFINE S == expired(at)
              new == [p \in Pk |-> IF p \in S THEN NoRow ELSE View[p]]
  <2>1. Write(S, new, txopen, {}) /\ UNCHANGED sent /\ new \in [Pk -> Row] /\ pc = "expired" /\ todo = {}
    BY <1>1, <1>7, RowTypes DEF DeleteExpired
  <2>2. S = {}
    BY <2>1 DEF Lists, Condemned, Unanswered
  <2>3. \A p \in Pk : new[p] = View[p]
    BY <2>2
  <2>. HIDE DEF new, S
  <2>4. \A c \in Conn : Reaches(new, c)
    BY <2>3, StillReaches DEF Exists
  <2>5. UNCHANGED <<db, sent>> /\ S \in SUBSET Pk
    BY <2>1, <2>2 DEF Write
  <2>. QED BY <2>1, <2>3, <2>4, <2>5, WriteFollows
<1>8. CASE Resend
  <2>. DEFINE S == need_to_resend(at)
              new == [p \in Pk |-> IF p \in S THEN Bump(View[p]) ELSE View[p]]
  <2>1. mass_text(new, S, txopen, {}) /\ new \in [Pk -> Row] /\ list = S
    BY <1>1, <1>8, RowTypes DEF Resend, Lists
  <2>2. \A p \in Pk \ S : new[p] = View[p]
    OBVIOUS
  <2>3. \A p \in S : new[p] = Bump(View[p])
    BY <1>1
  <2>4. \A p \in S : p \in Live(View) /\ View[p].step = at
    BY DEF need_to_resend, Live, Exists
  <2>5. S \in SUBSET Pk
    BY <1>1
  <2>. HIDE DEF new, S
  <2>6. \A p \in Pk : /\ new[p].status = "gone" <=> ~Exists(p)
                      /\ new[p].step = View[p].step
                      /\ View[p].step = -1 => new[p].age = View[p].age
    BY <1>1, <2>2, <2>3, <2>4, BumpRow DEF Exists
  <2>7. \A p \in list : p \in Live(db) /\ new[p].step \in Steps
    BY <1>1, <2>1, <2>4, <2>5, <2>6, NotAhead
  <2>. QED BY <1>1, <2>1, <2>2, <2>5, <2>6, <2>7, SameStepFollows
<1>9. CASE Transition
  <2>. DEFINE S == need_to_transition(at)
  <2>1. CASE S = {}
    BY <1>3, <1>9, <2>1 DEF Transition, table
  <2>2. CASE S # {}
    <3>1. /\ MoveOn(S, at + 1) /\ at + 1 \in Steps /\ list = S /\ pc = "moving"
          /\ S \in SUBSET Live(View)
      BY <1>1, <1>9, <2>2, StepParts, RowsKnown
         DEF Transition, TypeOK, CronOK, Lists, Started
    <3>2. InSession = Started(View) \cup S
      BY <3>1, PlainPhase, RowsKnown DEF Plain
    <3>3. \A p \in S : View[p].step = (at + 1) - 1 /\ at + 1 # 0
      BY <1>1 DEF need_to_transition, Steps
    <3>. HIDE DEF S
    <3>. QED BY <1>2, <3>1, <3>2, <3>3
  <2>. QED BY <2>1, <2>2
<1>10. CASE DeleteEnded
  <2>. DEFINE S == need_to_transition(at)
              old == [p \in Pk |-> IF p \in S THEN NoRow ELSE View[p]]
              rows == S \cup {p \in list : Exists(p)}
  <2>1. mass_text(Counted(old), rows, txopen, {}) /\ pc = "ending" /\ todo = {}
    BY <1>10 DEF DeleteEnded
  <2>2. S = {}
    BY <2>1 DEF Lists, Condemned, Unanswered
  <2>3. list \cap Live(View) = {} /\ list \subseteq Pk
    BY <2>1, <2>2 DEF Lists, TypeOK, CronOK
  <2>4. \A p \in Pk : old[p] = View[p]
    BY <2>2
  <2>5. rows \in SUBSET Pk /\ old \in [Pk -> Row]
    BY <1>1, <2>3, <2>4
  <2>. HIDE DEF old, rows, S
  <2>6. \A p \in list : old[p].status = "gone"
    BY <2>3, <2>4 DEF Live
  <2>7. Counted(old) \in [Pk -> Row] /\ \A p \in Pk : Counted(old)[p] = View[p]
    BY <2>4, <2>5, <2>6, CountedType DEF Counted
  <2>8. \A c \in Conn : Reaches(Counted(old), c)
    BY <2>7, StillReaches DEF Exists
  <2>9. {p \in list : Counted(old)[p].status # "gone"} = {}
    BY <2>3, <2>4, <2>6, <2>7
  <2>. QED BY <1>1, <2>1, <2>5, <2>7, <2>8, <2>9, TextFollows
<1>11. CASE StartRuns
  <2>1. /\ MoveOn(need_to_start, 0) /\ pc = "starting" /\ 0 \in Steps
        /\ list = need_to_start /\ need_to_start \in SUBSET Live(View)
        /\ InSession = Started(View) \cup need_to_start
    BY <1>11, StepParts, RowsKnown DEF StartRuns, Lists, InSession
  <2>2. \A p \in need_to_start : View[p].step = 0 - 1 /\ View[p].age >= 0
    <3>1. Start[0] \in Nat
      BY StepParts, ConstantsAssumption DEF ConstantsAssumption
    <3>2. \A p \in need_to_start : View[p].step = -1 /\ View[p].age >= Start[0] /\ View[p].age \in Int
      BY <1>1, ConstantsAssumption DEF need_to_start, Row, ConstantsAssumption
    <3>. QED BY <3>1, <3>2
  <2>. QED BY <1>2, <2>1, <2>2
<1>12. CASE EndPass
  <2>1. db' = View /\ held' = {} /\ runs' = RunsAfter({}) /\ sent' = sent
    BY <1>12 DEF EndPass, Commit
  <2>2. \A p \in Pk : View'[p] = View[p] /\ db'[p] = View[p]
    BY <2>1 DEF View
  <2>3. runs' = runs
    BY <2>1 DEF RunsAfter, TypeOK, TableOK
  <2>. QED BY <2>1, <2>2, <2>3, MeetFollows
<1>. QED
  BY <1>4, <1>5, <1>6, <1>7, <1>8, <1>9, <1>10, <1>11, <1>12, Zenon DEF Pass

\* Every step keeps what the pass is ahead by, and is one of Dialogue.
LEMMA NextFollows ==
  ASSUME Unanswered, TypeOK, TypeOK', KeysGiven, Silent, Silent', Follows, [Next]_vars
  PROVE  Follows' /\ [Dialogues!Next]_(Dialogues!vars)
<1>1. msgs = 0 /\ msgs' = 0
  BY DEF TypeOK, WorkersOK, Unanswered
<1>2. /\ Quiet /\ Committed /\ Working /\ Lists
      /\ Single(db) /\ Single(db)'
  BY <1>1 DEF Silent, Committed
<1>3. ASSUME Follows' /\ Dialogic
      PROVE  Follows' /\ [Dialogues!Next]_(Dialogues!vars)
  BY <1>2, <1>3, DialogueStep
<1>4. CASE Next
  <2>1. Tick \/ ((BeginPass \/ Pass \/ FailPass) /\ UNCHANGED workers)
    BY <1>1, <1>2, <1>4, OnlyCronActs DEF Unanswered
  <2>2. CASE Tick
    <3>1. UNCHANGED <<sent, runs>>
      BY <2>2 DEF Tick
    <3>2. \A p \in Pk : /\ View'[p] = db'[p] /\ db'[p].step = db[p].step
                        /\ db'[p].status = db[p].status
      BY <2>2, TickVersions, OlderRow
    <3>. QED BY <1>3, <3>1, <3>2, MeetFollows
  <2>3. CASE Pass
    BY <1>2, <1>3, <2>3, PassFollows
  <2>4. CASE FailPass
    <3>1. UNCHANGED <<db, sent, runs>> /\ held' = {}
      BY <2>4 DEF FailPass
    <3>2. \A p \in Pk : /\ View'[p] = db'[p] /\ db'[p].step = db[p].step
                        /\ db'[p].status = db[p].status
      BY <3>1 DEF View
    <3>. QED BY <1>3, <3>1, <3>2, MeetFollows
  <2>5. CASE BeginPass
    BY <1>3, <2>5, ReadFollows DEF BeginPass, table
  <2>. QED BY <2>1, <2>2, <2>3, <2>4, <2>5
<1>5. CASE UNCHANGED vars
  BY <1>3, <1>5, ReadFollows DEF vars, cron, table
<1>. QED BY <1>4, <1>5

\* At first every connection waits for its first run.
LEMMA InitFollows == Init => Follows /\ Dialogues!Init
<1>. SUFFICES ASSUME Init PROVE Follows /\ Dialogues!Init
  OBVIOUS
<1>1. /\ held = {} /\ runs = [c \in Conn |-> 1]
      /\ sent = [p \in Pk |-> [k \in Steps |-> 0]]
  BY DEF Init
<1>2. PICK age \in [Conn -> {-Gap, 0}] :
        db = [p \in Pk |-> IF p[2] = 1 THEN Fresh(age[p[1]]) ELSE NoRow]
  BY DEF Init
<1>3. \A p \in Pk : View[p] = db[p]
  BY <1>1, <1>2 DEF View
<1>4. Follows
  <2>1. Live(View) = Live(db)
    BY <1>3 DEF Live
  <2>. HIDE DEF View
  <2>2. \A c \in Conn : Stays(db, View, c)
    BY <1>3, <2>1 DEF Stays
  <2>. QED BY <2>2 DEF Follows, Reaches
<1>5. ASSUME NEW c \in Conn PROVE Places[c] = {<<1, -1>>}
  <2>1. <<c, 1>> \in Pk
    BY ConstantsAssumption DEF Pk, ConstantsAssumption
  <2>2. \A p \in Pk : db[p].status # "gone" <=> p[2] = 1
    BY <1>2 DEF Fresh, NoRow
  <2>3. Present(c) = {<<c, 1>>}
    BY <2>1, <2>2, KeyParts DEF Present, RowsOf
  <2>4. db[<<c, 1>>].step = -1
    BY <1>2, <2>1 DEF Fresh
  <2>. QED BY <2>3, <2>4 DEF Places
<1>6. Places = [c \in Conn |-> {<<1, -1>>}]
  BY <1>5 DEF Places
<1>7. Questions = [c \in Conn |-> [n \in 1 .. MaxRuns |-> [k \in 0 .. Last |-> 0]]]
  <2>1. \A c \in Conn, n \in 1 .. MaxRuns : sent[<<c, n>>] = [k \in 0 .. Last |-> 0]
    BY <1>1 DEF Pk, Steps
  <2>. QED BY <2>1 DEF Questions
<1>. QED BY <1>1, <1>4, <1>6, <1>7 DEF Dialogues!Init

\* Whatever querysets a pass runs twice, wherever it commits and wherever it
\* is rolled back, what becomes of a connection that never answers is a
\* dialogue: one run at a time and one step at a time, no run left but where
\* its rule, its receiver or its last step ends it, the next one on the roster
\* as of the same commit, and one text at a time, for the run it is in.
THEOREM EngineKeepsDialogue ==
  ASSUME Unanswered
  PROVE  Spec => KeepsDialogue
<1>1. Init => TypeOK /\ KeysGiven /\ Ahead /\ Silent /\ Follows /\ Dialogues!Init
  BY InitTypeOK, InitAhead, InitSilent, InitFollows
<1>2. TypeOK /\ KeysGiven /\ Ahead /\ Silent /\ Follows /\ [Next]_vars
        => (TypeOK /\ KeysGiven /\ Ahead /\ Silent /\ Follows)'
           /\ [Dialogues!Next]_(Dialogues!vars)
  <2>1. Unstaffed
    BY DEF Unanswered
  <2>. QED BY <2>1, NextTypeOK, NextAhead, NextSilent, NextFollows
<1>. QED BY <1>1, <1>2, PTL DEF Spec, KeepsDialogue, Dialogues!Spec
=============================================================================
