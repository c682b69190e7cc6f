------------------------- MODULE EducationAppProofs -------------------------
(***************************************************************************)
(* Theorems about EducationApp, for every value of the constants.          *)
(***************************************************************************)
EXTENDS EducationApp, TLAPS, FiniteSetTheorems

-----------------------------------------------------------------------------
(***************************************************************************)
(* What the operators return.                                              *)
(***************************************************************************)

\* A primary key is a connection and a number.
LEMMA KeyParts ==
  ASSUME NEW p \in Pk
  PROVE  p[1] \in Conn /\ p[2] \in 1 .. MaxRuns /\ p = <<p[1], p[2]>>
BY DEF Pk

\* The steps, and the step after one that is not the last.
LEMMA StepParts ==
  /\ Last \in Nat /\ 0 \in Steps /\ Last \in Steps
  /\ \A k \in Steps : k # Last => k + 1 \in Steps
  /\ \A k \in Steps : k > 0 => k - 1 \in Steps
  /\ \A k \in Steps : k \in -1 .. Last /\ k # Done
BY ConstantsAssumption DEF ConstantsAssumption, Steps, Done

\* The rows that the model writes are rows.
LEMMA RowTypes ==
  /\ NoRow \in Row /\ Fresh(0) \in Row /\ Fresh(-Gap) \in Row
  /\ \A row \in Row : Bump(row) \in Row /\ Older(row) \in Row
  /\ \A row \in Row : [row EXCEPT !.status = "C", !.age = 0] \in Row
  /\ \A row \in Row, k \in Steps :
       [row EXCEPT !.step = k, !.status = "P", !.age = 0] \in Row
<1>1. /\ -1 \in -1 .. Last /\ \A k \in Steps : k \in -1 .. Last
      /\ 0 \in 0 .. TopTries
      /\ \A n \in 0 .. TopTries : n < TopTries => n + 1 \in 0 .. TopTries
      /\ 0 \in -Gap .. MaxAge /\ -Gap \in -Gap .. MaxAge
      /\ \A a \in -Gap .. MaxAge : a # MaxAge => a + 1 \in -Gap .. MaxAge
  BY ConstantsAssumption DEF ConstantsAssumption, Steps
<1>2. NoRow \in Row /\ Fresh(0) \in Row /\ Fresh(-Gap) \in Row
  BY <1>1 DEF Row, NoRow, Fresh
<1>3. ASSUME NEW row \in Row PROVE Bump(row) \in Row
  <2>1. [row EXCEPT !.age = 0] \in Row
    BY <1>1 DEF Row
  <2>2. ASSUME row.tries < TopTries PROVE Bump(row) \in Row
    BY <1>1, <2>2 DEF Row, Bump
  <2>3. ASSUME ~(row.tries < TopTries) PROVE Bump(row) \in Row
    BY <1>1, <2>3 DEF Row, Bump
  <2>. QED BY <2>2, <2>3
<1>4. ASSUME NEW row \in Row PROVE Older(row) \in Row
  BY <1>1 DEF Row, Older
<1>5. ASSUME NEW row \in Row PROVE [row EXCEPT !.status = "C", !.age = 0] \in Row
  BY <1>1 DEF Row
<1>6. ASSUME NEW row \in Row, NEW k \in Steps
      PROVE  [row EXCEPT !.step = k, !.status = "P", !.age = 0] \in Row
  BY <1>1 DEF Row
<1>. QED BY <1>2, <1>3, <1>4, <1>5, <1>6

\* The row a worker saves is a row.
LEMMA SavedType ==
  ASSUME NEW w \in Answer
  PROVE  w.pk \in Pk /\ w.row \in Row /\ Saved(w) \in Row
BY ConstantsAssumption DEF ConstantsAssumption, Answer, Saved, Row

\* Both readings of the table are tables.
LEMMA ViewType ==
  ASSUME TableOK
  PROVE  View \in [Pk -> Row]
BY DEF TableOK, View

LEMMA RescheduledType ==
  ASSUME NEW new \in [Pk -> Row], NEW F
  PROVE  Rescheduled(new, F) \in [Pk -> Row]
BY RowTypes DEF Rescheduled

LEMMA CountedType ==
  ASSUME NEW new \in [Pk -> Row]
  PROVE  Counted(new) \in [Pk -> Row]
BY RowTypes DEF Counted

LEMMA RunsAfterType ==
  ASSUME TableOK, NEW F
  PROVE  RunsAfter(F) \in [Conn -> 1 .. MaxRuns]
BY ConstantsAssumption DEF ConstantsAssumption, TableOK, RunsAfter

\* The sessions created for the rows of a connection can be counted.
LEMMA SessionCount ==
  ASSUME NEW S \in SUBSET Pk, NEW c \in Conn
  PROVE  Cardinality(RowsOf(c) \cap S) \in Nat
<1>1. IsFiniteSet({c} \X (1 .. MaxRuns))
  <2>1. IsFiniteSet({c})
    BY FS_Singleton
  <2>2. IsFiniteSet(1 .. MaxRuns)
    BY FS_Interval, ConstantsAssumption DEF ConstantsAssumption
  <2>. QED BY <2>1, <2>2, FS_Product
<1>2. RowsOf(c) \cap S \in SUBSET ({c} \X (1 .. MaxRuns))
  BY DEF RowsOf, Pk
<1>. QED BY <1>1, <1>2, FS_Subset, FS_CardinalityType

-----------------------------------------------------------------------------
(***************************************************************************)
(* The table keeps its type, whether the pass writes or commits.           *)
(***************************************************************************)

\* A write by the cron transaction.
LEMMA WriteType ==
  ASSUME TableOK,
         NEW S \in SUBSET Pk, NEW new \in [Pk -> Row], NEW sessions \in [Conn -> Nat],
         NEW F,
         Write(S, new, sessions, F), UNCHANGED sent
  PROVE  TableOK'
<1>1. runs' \in [Conn -> 1 .. MaxRuns]
  BY RunsAfterType DEF Write
<1>2. tx' \in [Pk -> Row] /\ held' \in SUBSET Pk
  BY RowTypes DEF Write, TableOK
<1>. QED BY <1>1, <1>2 DEF Write, TableOK

\* A commit.
LEMMA CommitType ==
  ASSUME TableOK,
         NEW new \in [Pk -> Row], NEW sessions \in [Conn -> Nat], NEW F,
         Commit(new, sessions, F), sent' \in [Pk -> [Steps -> Nat]]
  PROVE  TableOK' /\ held' = {} /\ txopen' = open'
<1>1. runs' \in [Conn -> 1 .. MaxRuns]
  BY RunsAfterType DEF Commit
<1>2. tx' \in [Pk -> Row]
  BY RowTypes DEF Commit
<1>. QED BY <1>1, <1>2 DEF Commit, TableOK

\* mass_text commits if there is somebody to text.
LEMMA MassTextType ==
  ASSUME TableOK,
         NEW S \in SUBSET Pk, NEW new \in [Pk -> Row], NEW sessions \in [Conn -> Nat],
         NEW F,
         mass_text(new, S, sessions, F)
  PROVE  TableOK'
<1>. DEFINE recipients == {p \in list : new[p].status # "gone"}
<1>1. CASE recipients = {}
  BY <1>1, WriteType DEF mass_text
<1>2. CASE recipients # {}
  <2>1. PICK k \in Steps :
          /\ sent' = [p \in Pk |-> IF p \in recipients
                                   THEN [sent[p] EXCEPT ![k] = @ + 1] ELSE sent[p]]
          /\ Commit(new, sessions, F)
    BY <1>2 DEF mass_text
  <2>2. sent' \in [Pk -> [Steps -> Nat]]
    BY <2>1 DEF TableOK
  <2>. QED BY <2>1, <2>2, CommitType
<1>. QED BY <1>1, <1>2

-----------------------------------------------------------------------------
(***************************************************************************)
(* Type correctness.                                                       *)
(***************************************************************************)

\* The state starts typed.
LEMMA InitTypeOK == Init => TypeOK
<1>. SUFFICES ASSUME Init PROVE TypeOK
  OBVIOUS
<1>1. db \in [Pk -> Row]
  <2>1. PICK age \in [Conn -> {-Gap, 0}] :
          db = [p \in Pk |-> IF p[2] = 1 THEN Fresh(age[p[1]]) ELSE NoRow]
    BY DEF Init
  <2>2. \A p \in Pk : age[p[1]] \in {-Gap, 0}
    BY <2>1, KeyParts
  <2>3. \A p \in Pk : Fresh(age[p[1]]) \in Row
    BY <2>2, RowTypes
  <2>. QED BY <2>1, <2>3, RowTypes
<1>2. tx \in [Pk -> Row] /\ held \subseteq Pk
  BY RowTypes DEF Init
<1>3. /\ open \in [Conn -> Nat] /\ txopen \in [Conn -> Nat]
      /\ sent \in [Pk -> [Steps -> Nat]] /\ runs \in [Conn -> 1 .. MaxRuns]
  BY ConstantsAssumption DEF Init, ConstantsAssumption
<1>4. CronOK
  BY ConstantsAssumption, StepParts DEF Init, CronOK, Phases, ConstantsAssumption
<1>5. WorkersOK
  BY WorkersAssumption DEF Init, WorkersOK, WorkersAssumption
<1>. QED BY <1>1, <1>2, <1>3, <1>4, <1>5 DEF TypeOK, TableOK

\* Where the pass goes next.
LEMMA GotoType ==
  ASSUME CronOK, NEW phase \in Phases \ {"idle", "moving"}, Goto(phase)
  PROVE  pc' \in Phases /\ at' \in Steps /\ pc' \notin {"idle", "moving"}
BY DEF Goto, CronOK

LEMMA NextStepType ==
  ASSUME CronOK, NextStep
  PROVE  pc' \in Phases /\ at' \in Steps /\ pc' \notin {"idle", "moving"}
BY StepParts DEF NextStep, CronOK, Phases

\* The rows a queryset returns are rows of the table.
LEMMA QuerySets ==
  /\ \A k : expired(k) \in SUBSET Pk /\ need_to_resend(k) \in SUBSET Pk
            /\ need_to_transition(k) \in SUBSET Pk
  /\ need_to_start \in SUBSET Pk
BY DEF expired, need_to_resend, need_to_transition, need_to_start

LEMMA TouchedType == \A F : Touched(F) \in SUBSET Pk
BY DEF Touched

\* moveon keeps the types: nobody lands beyond the last step, and a session is
\* closed only where one is open.
LEMMA MoveOnType ==
  ASSUME TableOK, list \subseteq Pk, moved \subseteq Pk,
         NEW S \in SUBSET Pk, NEW k \in Steps, MoveOn(S, k)
  PROVE  TableOK' /\ list' = {} /\ moved' \subseteq Pk
<1>. DEFINE Landing(p) == IF txopen[p[1]] > 0 THEN Land[p[1]][k] ELSE k
            F == {p[1] : p \in {q \in S : Landing(q) = Done}}
            stepped == [p \in Pk |->
                          IF p \notin S THEN View[p]
                          ELSE IF Landing(p) = Done THEN NoRow
                          ELSE [View[p] EXCEPT !.step = Landing(p), !.status = "P", !.age = 0]]
            sessions == [c \in Conn |-> IF c \in F THEN txopen[c] - 1 ELSE txopen[c]]
            rows == S \cup {p \in list : Exists(p)} \cup Touched(F)
<1>1. mass_text(Counted(Rescheduled(stepped, F)), rows, sessions, F)
  BY DEF MoveOn
<1>2. stepped \in [Pk -> Row]
  <2>1. ASSUME NEW p \in Pk, Landing(p) # Done PROVE Landing(p) \in Steps
    <3>1. Land[p[1]][k] \in 0 .. Done
      BY KeyParts, ConstantsAssumption DEF ConstantsAssumption
    <3>2. \A n \in 0 .. Done : n # Done => n \in Steps
      BY ConstantsAssumption DEF ConstantsAssumption, Steps, Done
    <3>3. CASE txopen[p[1]] > 0
      BY <2>1, <3>1, <3>2, <3>3
    <3>4. CASE ~(txopen[p[1]] > 0)
      BY <3>4
    <3>. QED BY <3>3, <3>4
  <2>2. \A p \in Pk : View[p] \in Row
    BY ViewType
  <2>3. ASSUME NEW p \in Pk, Landing(p) # Done
        PROVE  [View[p] EXCEPT !.step = Landing(p), !.status = "P", !.age = 0] \in Row
    BY <2>1, <2>2, <2>3, RowTypes
  <2>. HIDE DEF Landing
  <2>. QED BY <2>2, <2>3, RowTypes
<1>3. Counted(Rescheduled(stepped, F)) \in [Pk -> Row]
  <2>. HIDE DEF stepped, F
  <2>. QED BY <1>2, RescheduledType, CountedType
<1>4. sessions \in [Conn -> Nat]
  <2>1. ASSUME NEW c \in Conn, c \in F PROVE txopen[c] > 0
    <3>1. PICK p \in S : p[1] = c /\ Landing(p) = Done
      BY <2>1
    <3>. QED BY <3>1, StepParts
  <2>2. \A c \in Conn : txopen[c] \in Nat
    BY DEF TableOK
  <2>. HIDE DEF F
  <2>. QED BY <2>1, <2>2
<1>5. rows \in SUBSET Pk
  <2>. HIDE DEF F
  <2>. QED BY TouchedType
<1>6. TableOK'
  <2>. HIDE DEF stepped, F, sessions, rows
  <2>. QED BY <1>1, <1>3, <1>4, <1>5, MassTextType
<1>. QED BY <1>6 DEF MoveOn

\* A step of the pass keeps the types of the table and of its own state.
LEMMA PassType ==
  ASSUME TableOK, CronOK, Pass
  PROVE  TableOK' /\ CronOK'
<1>. DEFINE Updated(S) == [p \in Pk |-> IF p \in S THEN [View[p] EXCEPT !.status = "C", !.age = 0]
                                        ELSE View[p]]
            Deleted(S) == [p \in Pk |-> IF p \in S THEN NoRow ELSE View[p]]
<1>1. /\ \A S \in SUBSET Pk : Updated(S) \in [Pk -> Row] /\ Deleted(S) \in [Pk -> Row]
      /\ txopen \in [Conn -> Nat]
  BY ViewType, RowTypes DEF TableOK
<1>2. CASE ExpireMoveOn
  <2>1. TableOK'
    <3>1. Write(expired(at), Updated(expired(at)), txopen, {})
      BY <1>2 DEF ExpireMoveOn
    <3>. HIDE DEF Updated
    <3>. QED BY <1>1, <1>2, <3>1, WriteType, QuerySets DEF ExpireMoveOn
  <2>2. Goto("resend")
    BY <1>2 DEF ExpireMoveOn
  <2>3. pc' \in Phases /\ at' \in Steps /\ pc' \notin {"idle", "moving"}
    BY <2>2, GotoType DEF Phases
  <2>. QED BY <1>2, <2>1, <2>3 DEF ExpireMoveOn, CronOK
<1>3. CASE ExpireGiveUp
  <2>1. Goto("expired")
    BY <1>3 DEF ExpireGiveUp
  <2>2. pc' \in Phases /\ at' \in Steps /\ pc' \notin {"idle", "moving"}
    BY <2>1, GotoType DEF Phases
  <2>. QED BY <1>3, <2>2, QuerySets DEF ExpireGiveUp, CronOK, TableOK, table
<1>4. ASSUME NEW p \in Pk, GiveUpOne(p) PROVE TableOK' /\ CronOK'
  <2>. DEFINE c == p[1]
              F == IF txopen[c] > 0 THEN {c} ELSE {}
              sessions == [txopen EXCEPT ![c] = IF @ > 0 THEN @ - 1 ELSE @]
  <2>1. Write(Touched(F), Rescheduled(View, F), sessions, F) /\ UNCHANGED sent
    BY <1>4 DEF GiveUpOne
  <2>2. sessions \in [Conn -> Nat]
    <3>1. txopen[c] \in Nat
      BY <1>1, KeyParts
    <3>2. (IF txopen[c] > 0 THEN txopen[c] - 1 ELSE txopen[c]) \in Nat
      BY <3>1
    <3>. QED BY <1>1, <3>2
  <2>3. TableOK'
    <3>1. Rescheduled(View, F) \in [Pk -> Row] /\ Touched(F) \in SUBSET Pk
      BY ViewType, RescheduledType, TouchedType
    <3>. HIDE DEF F, sessions
    <3>. QED BY <2>1, <2>2, <3>1, WriteType
  <2>4. pc \in Phases \ {"idle", "moving"} /\ Goto(pc)
    BY <1>4 DEF GiveUpOne, Phases
  <2>5. pc' \in Phases /\ at' \in Steps /\ pc' \notin {"idle", "moving"}
    BY <2>4, GotoType
  <2>. QED BY <1>4, <2>3, <2>5 DEF GiveUpOne, CronOK
<1>5. CASE DeleteExpired
  <2>1. TableOK'
    <3>1. Write(expired(at), Deleted(expired(at)), txopen, {})
      BY <1>5 DEF DeleteExpired
    <3>. HIDE DEF Deleted
    <3>. QED BY <1>1, <1>5, <3>1, WriteType, QuerySets DEF DeleteExpired
  <2>2. Goto("resend")
    BY <1>5 DEF DeleteExpired
  <2>3. pc' \in Phases /\ at' \in Steps /\ pc' \notin {"idle", "moving"}
    BY <2>2, GotoType DEF Phases
  <2>. QED BY <1>5, <2>1, <2>3 DEF DeleteExpired, CronOK
<1>6. CASE SelectResend
  <2>1. pc' \in Phases /\ at' \in Steps /\ pc' \notin {"idle", "moving"}
    BY <1>6 DEF SelectResend, Goto, CronOK, Phases
  <2>. QED BY <1>6, <2>1, QuerySets DEF SelectResend, CronOK, TableOK, table
<1>7. CASE Resend
  <2>. DEFINE S == need_to_resend(at)
              new == [p \in Pk |-> IF p \in S THEN Bump(View[p]) ELSE View[p]]
  <2>1. mass_text(new, S, txopen, {})
    BY <1>7 DEF Resend
  <2>2. new \in [Pk -> Row] /\ S \in SUBSET Pk
    BY ViewType, RowTypes, QuerySets
  <2>3. TableOK'
    <3>. HIDE DEF new, S
    <3>. QED BY <1>1, <2>1, <2>2, MassTextType
  <2>4. pc' \in Phases /\ at' \in Steps /\ pc' \notin {"idle", "moving"}
    BY <1>7 DEF Resend, Goto, CronOK, Phases
  <2>. QED BY <1>7, <2>3, <2>4 DEF Resend, CronOK
<1>8. CASE SelectTransition
  <2>1. pc' \in Phases /\ at' \in Steps /\ pc' # "idle" /\ (pc' = "moving" => at' # Last)
    BY <1>8 DEF SelectTransition, Goto, CronOK, Phases
  <2>. QED BY <1>8, <2>1, QuerySets DEF SelectTransition, CronOK, TableOK, table
<1>9. CASE Transition
  <2>1. pc' \in Phases /\ at' \in Steps /\ pc' \notin {"idle", "moving"}
    BY <1>9, NextStepType DEF Transition
  <2>2. TableOK' /\ list' = {} /\ moved' \subseteq Pk
    <3>. DEFINE S == need_to_transition(at)
    <3>1. CASE S = {}
      BY <1>9, <3>1 DEF Transition, TableOK, CronOK, table
    <3>2. CASE S # {}
      <4>1. at + 1 \in Steps
        BY <1>9, StepParts DEF Transition, CronOK
      <4>2. MoveOn(S, at + 1)
        BY <1>9, <3>2 DEF Transition
      <4>. QED BY <4>1, <4>2, MoveOnType, QuerySets DEF CronOK
    <3>. QED BY <3>1, <3>2
  <2>. QED BY <1>9, <2>1, <2>2 DEF Transition, CronOK
<1>10. CASE SelectEnding
  <2>1. pc' \in Phases /\ at' \in Steps /\ pc' \notin {"idle", "moving"}
    BY <1>10, NextStepType DEF SelectEnding, Goto, CronOK, Phases
  <2>. QED BY <1>10, <2>1, QuerySets DEF SelectEnding, CronOK, TableOK, table
<1>11. CASE DeleteEnded
  <2>. DEFINE S == need_to_transition(at)
              rows == S \cup {p \in list : Exists(p)}
  <2>1. mass_text(Counted(Deleted(S)), rows, txopen, {})
    BY <1>11 DEF DeleteEnded
  <2>2. Counted(Deleted(S)) \in [Pk -> Row] /\ rows \in SUBSET Pk
    <3>. HIDE DEF Deleted
    <3>. QED BY <1>1, CountedType, QuerySets DEF CronOK
  <2>3. TableOK'
    <3>. HIDE DEF Deleted, S, rows
    <3>. QED BY <1>1, <2>1, <2>2, MassTextType
  <2>4. pc' \in Phases /\ at' \in Steps /\ pc' \notin {"idle", "moving"}
    BY <1>11, NextStepType DEF DeleteEnded
  <2>. QED BY <1>11, <2>3, <2>4 DEF DeleteEnded, CronOK
<1>12. CASE SelectStart
  <2>1. txopen' \in [Conn -> Nat]
    <3>1. \A c \in Conn : Cardinality(RowsOf(c) \cap list') \in Nat
      BY <1>12, SessionCount, QuerySets DEF SelectStart
    <3>2. \A c \in Conn : txopen[c] \in Nat
      BY <1>1
    <3>. QED BY <1>12, <3>1, <3>2 DEF SelectStart
  <2>2. pc' \in Phases /\ at' \in Steps /\ pc' \notin {"idle", "moving"}
    BY <1>12 DEF SelectStart, Goto, CronOK, Phases
  <2>. QED BY <1>12, <2>1, <2>2, QuerySets DEF SelectStart, CronOK, TableOK
<1>13. CASE StartRuns
  <2>1. TableOK' /\ list' = {} /\ moved' \subseteq Pk
    BY <1>13, MoveOnType, QuerySets, StepParts DEF StartRuns, CronOK
  <2>2. pc' \in Phases /\ at' \in Steps /\ pc' \notin {"idle", "moving"}
    BY <1>13 DEF StartRuns, Goto, CronOK, Phases
  <2>. QED BY <1>13, <2>1, <2>2 DEF StartRuns, CronOK
<1>14. CASE EndPass
  <2>1. TableOK' /\ held' = {} /\ txopen' = open'
    BY <1>1, <1>14, ViewType, CommitType DEF EndPass, TableOK
  <2>. QED BY <1>14, <2>1 DEF EndPass, Goto, CronOK, Phases
<1>. QED
  BY <1>2, <1>3, <1>4, <1>5, <1>6, <1>7, <1>8, <1>9, <1>10, <1>11, <1>12, <1>13, <1>14 DEF Pass

\* So does the beginning of a pass, and its failure.
LEMMA CronType ==
  ASSUME TypeOK, Cron
  PROVE  TypeOK'
<1>1. TableOK /\ CronOK /\ WorkersOK
  BY DEF TypeOK
<1>2. WorkersOK'
  BY <1>1 DEF Cron, WorkersOK, workers
<1>3. ASSUME BeginPass PROVE TableOK' /\ CronOK'
  BY <1>1, <1>3, StepParts DEF BeginPass, TableOK, CronOK, table, Phases
<1>4. ASSUME FailPass PROVE TableOK' /\ CronOK'
  <2>1. tx' \in [Pk -> Row]
    BY <1>4, RowTypes DEF FailPass
  <2>2. fails' \in 0 .. MaxFails
    BY <1>1, <1>4, ConstantsAssumption DEF FailPass, CronOK, ConstantsAssumption
  <2>. QED BY <1>1, <1>4, <2>1, <2>2 DEF FailPass, TableOK, CronOK, Goto, Phases
<1>5. ASSUME Pass PROVE TableOK' /\ CronOK'
  BY <1>1, <1>5, PassType
<1>6. TableOK' /\ CronOK'
  BY <1>3, <1>4, <1>5 DEF Cron
<1>. QED BY <1>2, <1>6 DEF TypeOK

\* What leaves the table and the pass alone keeps their types.
LEMMA CronUnchanged ==
  ASSUME TypeOK, UNCHANGED cron
  PROVE  TableOK' /\ CronOK'
BY DEF cron, table, TypeOK, TableOK, CronOK

\* A worker reads a row.
LEMMA ReadType ==
  ASSUME TypeOK, NEW p \in Pk, NEW bad \in BOOLEAN, NEW logged \in BOOLEAN,
         Read(p, bad, logged)
  PROVE  TypeOK'
<1>. DEFINE answer == [id |-> msgs + 1, pk |-> p, row |-> db[p], bad |-> bad,
                       logged |-> logged, session |-> 0, life |-> 0]
<1>1. db[p] \in Row
  BY DEF TypeOK, TableOK
<1>2. msgs + 1 \in 1 .. MaxMsgs /\ msgs' \in 0 .. MaxMsgs /\ 0 \in 0 .. MaxLife
  BY WorkersAssumption DEF Read, TypeOK, WorkersOK, WorkersAssumption
<1>3. answer \in Answer
  BY <1>1, <1>2 DEF Answer
<1>4. TableOK' /\ CronOK'
  BY CronUnchanged DEF Read
<1>5. WorkersOK'
  BY <1>2, <1>3 DEF Read, TypeOK, WorkersOK
<1>. QED BY <1>4, <1>5 DEF TypeOK

\* A worker logs, saves, or dies.
LEMMA HandlerType ==
  ASSUME TypeOK, NEW w \in inflight, Handler(w)
  PROVE  TypeOK'
<1>1. w \in Answer /\ w.pk \in Pk /\ w.pk[1] \in Conn /\ Saved(w) \in Row
  BY SavedType, KeyParts DEF TypeOK, WorkersOK
<1>2. CASE LogResponse(w)
  <2>0. open[w.pk[1]] \in Nat
    BY <1>1 DEF TypeOK, TableOK
  <2>1. [w EXCEPT !.logged = TRUE, !.session = open[w.pk[1]]] \in Answer
    BY <1>1, <2>0 DEF Answer
  <2>2. WorkersOK'
    BY <1>1, <1>2, <2>1 DEF LogResponse, TypeOK, WorkersOK
  <2>3. TableOK' /\ CronOK'
    BY <1>2, CronUnchanged DEF LogResponse
  <2>. QED BY <2>2, <2>3 DEF TypeOK
<1>3. CASE SaveProgress(w)
  <2>1. db' \in [Pk -> Row] /\ moved' \subseteq Pk
    BY <1>1, <1>3 DEF SaveProgress, TypeOK, TableOK, CronOK
  <2>2. WorkersOK'
    BY <1>1, <1>3 DEF SaveProgress, TypeOK, WorkersOK
  <2>3. UNCHANGED <<tx, held, open, txopen, sent, runs, pc, at, list, todo, due, fails>>
    BY <1>3 DEF SaveProgress
  <2>4. TableOK' /\ CronOK'
    BY <2>1, <2>3 DEF TypeOK, TableOK, CronOK
  <2>. QED BY <2>2, <2>4 DEF TypeOK
<1>4. CASE LoseAnswer(w)
  <2>1. WorkersOK'
    BY <1>4 DEF LoseAnswer, TypeOK, WorkersOK
  <2>2. TableOK' /\ CronOK'
    BY <1>4, CronUnchanged DEF LoseAnswer
  <2>. QED BY <2>1, <2>2 DEF TypeOK
<1>. QED BY <1>2, <1>3, <1>4 DEF Handler

\* A request collects the rows it will delete.
LEMMA CollectType ==
  ASSUME NEW c \in Conn, NEW kind \in {"quit", "schedule_at"}, Collect(kind, c)
  PROVE  requests' \subseteq Request
BY DEF Collect, Request, Present, RowsOf

LEMMA ReadRequestType ==
  ASSUME TypeOK, NEW c \in Conn, ReadQuit(c) \/ ReadSchedule(c)
  PROVE  TypeOK'
<1>1. TableOK' /\ CronOK'
  BY CronUnchanged DEF ReadQuit, ReadSchedule
<1>2. msgs' \in 0 .. MaxMsgs
  BY WorkersAssumption DEF ReadQuit, ReadSchedule, TypeOK, WorkersOK, WorkersAssumption
<1>3. requests' \subseteq Request
  BY CollectType DEF ReadQuit, ReadSchedule, TypeOK, WorkersOK
<1>4. WorkersOK'
  BY <1>2, <1>3 DEF ReadQuit, ReadSchedule, TypeOK, WorkersOK
<1>. QED BY <1>1, <1>4 DEF TypeOK

\* Joining creates a row under the next key, if any.
LEMMA JoinType ==
  ASSUME TypeOK, NEW c \in Conn, Join(c)
  PROVE  TypeOK'
<1>1. msgs' \in 0 .. MaxMsgs
  BY WorkersAssumption DEF Join, TypeOK, WorkersOK, WorkersAssumption
<1>2. db' \in [Pk -> Row] /\ runs' \in [Conn -> 1 .. MaxRuns]
  <2>1. CASE UNCHANGED <<db, runs>>
    BY <2>1 DEF TypeOK, TableOK
  <2>2. CASE Create(c, Fresh(0))
    <3>1. runs[c] \in 1 .. MaxRuns /\ runs[c] < MaxRuns
      BY <2>2 DEF Create, TypeOK, TableOK
    <3>2. runs[c] + 1 \in 1 .. MaxRuns
      BY <3>1, ConstantsAssumption DEF ConstantsAssumption
    <3>3. Fresh(0) \in Row
      BY RowTypes
    <3>. QED BY <2>2, <3>2, <3>3 DEF Create, TypeOK, TableOK
  <2>. QED BY <2>1, <2>2 DEF Join
<1>3. UNCHANGED <<tx, held, open, txopen, sent, pc, at, list, todo, moved, due, fails,
                  inflight, erred, requests>>
  BY DEF Join
<1>4. TableOK' /\ CronOK'
  BY <1>2, <1>3 DEF TypeOK, TableOK, CronOK
<1>5. WorkersOK'
  BY <1>1, <1>3 DEF Join, TypeOK, WorkersOK
<1>. QED BY <1>4, <1>5 DEF TypeOK

\* A request is served.
LEMMA ServerType ==
  ASSUME TypeOK, NEW r \in requests, Server(r)
  PROVE  TypeOK'
<1>. DEFINE c == r.conn
<1>1. r \in Request /\ c \in Conn
  BY DEF TypeOK, WorkersOK, Request
<1>2. CASE Quit(r)
  <2>1. db' \in [Pk -> Row]
    BY <1>2, RowTypes DEF Quit, TypeOK, TableOK
  <2>2. open' \in [Conn -> Nat] /\ txopen' \in [Conn -> Nat]
    BY <1>1, <1>2 DEF Quit, TypeOK, TableOK
  <2>3. pc = "idle" => txopen' = open'
    <3>. SUFFICES ASSUME pc = "idle" PROVE txopen' = open'
      OBVIOUS
    <3>1. txopen = open /\ open \in [Conn -> Nat]
      BY DEF TypeOK, TableOK, CronOK
    <3>2. open[c] - open[c] = 0
      BY <1>1, <3>1
    <3>. QED BY <1>2, <3>1, <3>2 DEF Quit
  <2>4. /\ UNCHANGED <<tx, held, sent, runs, pc, at, list, todo, moved, due, fails,
                       erred, msgs>>
        /\ inflight' \subseteq inflight
    BY <1>2 DEF Quit
  <2>5. TableOK'
    BY <2>1, <2>2, <2>4 DEF TypeOK, TableOK
  <2>6. CronOK'
    BY <2>3, <2>4 DEF TypeOK, CronOK
  <2>7. WorkersOK'
    BY <1>1, <1>2, <2>4 DEF Quit, TypeOK, WorkersOK
  <2>. QED BY <2>5, <2>6, <2>7 DEF TypeOK
<1>3. ASSUME NEW age \in {-Gap, 0}, schedule_at(r, age) PROVE TypeOK'
  <2>. DEFINE created == IF c \notin blacklist /\ runs[c] < MaxRuns
                         THEN {<<c, runs[c] + 1>>} ELSE {}
  <2>1. Fresh(age) \in Row /\ NoRow \in Row
    BY RowTypes
  <2>2. db' \in [Pk -> Row]
    <3>1. db' = [p \in Pk |-> IF p \in created THEN Fresh(age)
                              ELSE IF p \in r.rows THEN NoRow ELSE db[p]]
      BY <1>3 DEF schedule_at
    <3>. HIDE DEF created
    <3>. QED BY <2>1, <3>1 DEF TypeOK, TableOK
  <2>3. runs' \in [Conn -> 1 .. MaxRuns]
    <3>1. runs[c] \in 1 .. MaxRuns
      BY <1>1 DEF TypeOK, TableOK
    <3>2. runs[c] + Cardinality(created) \in 1 .. MaxRuns
      <4>1. CASE created = {}
        BY <3>1, <4>1, FS_EmptySet
      <4>2. CASE created # {}
        <5>1. created = {<<c, runs[c] + 1>>} /\ runs[c] < MaxRuns
          BY <4>2
        <5>2. Cardinality({<<c, runs[c] + 1>>}) = 1
          BY FS_Singleton
        <5>3. Cardinality(created) = 1
          BY <5>1, <5>2
        <5>. QED BY <3>1, <5>1, <5>3, ConstantsAssumption DEF ConstantsAssumption
      <4>. QED BY <4>1, <4>2
    <3>3. runs' = [runs EXCEPT ![c] = @ + Cardinality(created)]
      BY <1>3 DEF schedule_at
    <3>. HIDE DEF created
    <3>. QED BY <3>2, <3>3 DEF TypeOK, TableOK
  <2>4. UNCHANGED <<tx, held, open, txopen, sent, pc, at, list, todo, moved, due, fails,
                    inflight, erred, blacklist, msgs>>
    BY <1>3 DEF schedule_at
  <2>5. TableOK' /\ CronOK'
    BY <2>2, <2>3, <2>4 DEF TypeOK, TableOK, CronOK
  <2>6. WorkersOK'
    BY <1>3, <2>4 DEF schedule_at, TypeOK, WorkersOK
  <2>. QED BY <2>5, <2>6 DEF TypeOK
<1>. QED BY <1>2, <1>3 DEF Server

\* Time passes.
LEMMA TickType ==
  ASSUME TypeOK, Tick
  PROVE  TypeOK'
<1>1. db' \in [Pk -> Row]
  BY RowTypes DEF Tick, TypeOK, TableOK
<1>2. inflight' \subseteq Answer
  <2>1. ASSUME NEW w \in inflight
        PROVE  [w EXCEPT !.row = Older(w.row), !.life = @ + 1] \in Answer
    <3>1. w \in Answer /\ Older(w.row) \in Row
      BY RowTypes DEF TypeOK, WorkersOK, Answer
    <3>2. w.life \in 0 .. MaxLife /\ w.life < MaxLife
      BY <3>1 DEF Tick, Answer
    <3>3. w.life + 1 \in 0 .. MaxLife
      BY <3>2, WorkersAssumption DEF WorkersAssumption
    <3>. QED BY <3>1, <3>3 DEF Answer
  <2>. QED BY <2>1 DEF Tick
<1>3. TableOK' /\ CronOK'
  BY <1>1 DEF Tick, TypeOK, TableOK, CronOK
<1>4. WorkersOK'
  BY <1>2 DEF Tick, TypeOK, WorkersOK
<1>. QED BY <1>3, <1>4 DEF TypeOK

\* Every step keeps the types.
LEMMA NextTypeOK == TypeOK /\ [Next]_vars => TypeOK'
<1>. SUFFICES ASSUME TypeOK, [Next]_vars PROVE TypeOK'
  OBVIOUS
<1>1. CASE Cron
  BY <1>1, CronType
<1>2. ASSUME NEW p \in Pk, RepeatError(p) \/ \E bad \in BOOLEAN : ReadProgress(p, bad)
      PROVE  TypeOK'
  BY <1>2, ReadType DEF RepeatError, ReadProgress
<1>3. ASSUME NEW w \in inflight, Handler(w) PROVE TypeOK'
  BY <1>3, HandlerType
<1>4. ASSUME NEW c \in Conn, ReadQuit(c) \/ Join(c) \/ ReadSchedule(c) PROVE TypeOK'
  BY <1>4, ReadRequestType, JoinType
<1>5. ASSUME NEW r \in requests, Server(r) PROVE TypeOK'
  BY <1>5, ServerType
<1>6. CASE Tick
  BY <1>6, TickType
<1>7. CASE UNCHANGED vars
  <2>1. UNCHANGED cron /\ UNCHANGED workers
    BY <1>7 DEF vars
  <2>2. WorkersOK'
    BY <2>1 DEF workers, TypeOK, WorkersOK
  <2>. QED BY <2>1, <2>2, CronUnchanged DEF TypeOK
<1>. QED BY <1>1, <1>2, <1>3, <1>4, <1>5, <1>6, <1>7 DEF Next

\* In every reachable state the table, the pass and the workers are typed:
\* nothing lands beyond the last step, no session is closed twice, no key is
\* beyond those given out, and nothing is held between passes.
THEOREM TypeCorrect == Spec => []TypeOK
BY InitTypeOK, NextTypeOK, PTL DEF Spec

-----------------------------------------------------------------------------
(***************************************************************************)
(* MovedOncePerPass.  What a pass has moved stays ahead of its loop, which *)
(* goes down the steps: that is the invariant Ahead.  It needs KeysGiven,  *)
(* since a key that was not given out could appear in the table as a new   *)
(* row, before the first step, and yet be among the rows moved.            *)
(***************************************************************************)

Loop == {"expire", "expired", "resend", "resending", "transition", "moving", "last", "ending"}

KeysGiven ==
  /\ \A p \in Pk : db[p].status # "gone" \/ Exists(p) => p[2] <= runs[p[1]]
  /\ \A p \in moved : p[2] <= runs[p[1]]
  /\ \A w \in inflight : w.pk[2] <= runs[w.pk[1]]

Ahead ==
  /\ pc = "idle" => moved = {}
  /\ \A p \in moved : Exists(p) =>
       /\ pc \in Loop => View[p].step > at
       /\ pc \in {"start", "starting"} => View[p].step >= 0

\* A version of the table in which a row is no further back than it was, or
\* has just been given its key.
Kept(new, F) ==
  \A p \in Pk : new[p].status # "gone" =>
    \/ Exists(p) /\ new[p].step >= View[p].step
    \/ p[2] = runs[p[1]] + 1 /\ p[2] <= RunsAfter(F)[p[1]]

\* What the pass sees after a write: the new version of what it has written.
LEMMA WriteView ==
  ASSUME TableOK,
         NEW S \in SUBSET Pk, NEW new \in [Pk -> Row], NEW sessions, NEW F,
         Write(S, new, sessions, F)
  PROVE  /\ \A p \in Pk : View'[p] = new[p] \/ View'[p] = View[p]
         /\ \A p \in S : View'[p] = new[p]
         /\ \A p \in Pk : db'[p] = new[p] \/ db'[p] = db[p]
         /\ runs' = RunsAfter(F)
<1>1. View' = [p \in Pk |-> IF p \in held \cup S THEN new[p] ELSE db[p]]
  BY DEF Write, View
<1>. QED BY <1>1 DEF Write, View

LEMMA MassTextView ==
  ASSUME TableOK,
         NEW S \in SUBSET Pk, NEW new \in [Pk -> Row], NEW sessions, NEW F,
         mass_text(new, S, sessions, F)
  PROVE  /\ \A p \in Pk : View'[p] = new[p] \/ View'[p] = View[p]
         /\ \A p \in S : View'[p] = new[p]
         /\ \A p \in Pk : db'[p] = new[p] \/ db'[p] = db[p]
         /\ runs' = RunsAfter(F)
<1>. DEFINE recipients == {p \in list : new[p].status # "gone"}
<1>1. CASE recipients = {}
  BY <1>1, WriteView DEF mass_text
<1>2. CASE recipients # {}
  <2>1. Commit(new, sessions, F)
    BY <1>2 DEF mass_text
  <2>2. View' = [p \in Pk |-> new[p]]
    BY <2>1 DEF Commit, View
  <2>. QED BY <2>1, <2>2 DEF Commit
<1>. QED BY <1>1, <1>2

\* The keys given out are never fewer.
LEMMA RunsGrow ==
  ASSUME TableOK, NEW F
  PROVE  \A c \in Conn : /\ runs[c] \in Int /\ RunsAfter(F)[c] \in Int
                         /\ runs[c] <= RunsAfter(F)[c]
BY ConstantsAssumption DEF RunsAfter, TableOK, ConstantsAssumption

\* After a write or a commit of a kept version, a row moved before is no
\* further back, and every key in the table was given out.
LEMMA KeptStep ==
  ASSUME TableOK, list \subseteq Pk, moved \subseteq Pk, inflight \subseteq Answer,
         KeysGiven,
         NEW S \in SUBSET Pk, NEW new \in [Pk -> Row], NEW sessions, NEW F,
         Kept(new, F),
         Write(S, new, sessions, F) \/ mass_text(new, S, sessions, F),
         NEW M \in SUBSET Pk, moved' = moved \cup M, \A p \in M : Exists(p),
         UNCHANGED inflight
  PROVE  /\ KeysGiven'
         /\ \A p \in moved : Exists(p)' => Exists(p) /\ View'[p].step >= View[p].step
<1>1. /\ \A p \in Pk : View'[p] = new[p] \/ View'[p] = View[p]
      /\ \A p \in Pk : db'[p] = new[p] \/ db'[p] = db[p]
      /\ runs' = RunsAfter(F)
  BY WriteView, MassTextView
<1>2. \A c \in Conn : /\ runs[c] \in Int /\ runs'[c] \in Int /\ runs[c] <= runs'[c]
  BY <1>1, RunsGrow
<1>3. ASSUME NEW p \in Pk
      PROVE  /\ p[1] \in Conn /\ p[2] \in Int
             /\ View[p].step \in Int
  <2>1. View[p] \in Row
    BY ViewType
  <2>. QED BY <2>1, KeyParts, ConstantsAssumption DEF Row, ConstantsAssumption
<1>4. \A p \in Pk : db'[p].status # "gone" \/ Exists(p)' => p[2] <= runs'[p[1]]
  BY <1>1, <1>2, <1>3 DEF Kept, KeysGiven, Exists
<1>5. \A p \in moved' : p[2] <= runs'[p[1]]
  BY <1>2, <1>3 DEF KeysGiven
<1>6. \A w \in inflight' : w.pk[2] <= runs'[w.pk[1]]
  BY <1>2, <1>3, SavedType DEF KeysGiven
<1>7. ASSUME NEW p \in moved, Exists(p)'
      PROVE  Exists(p) /\ View'[p].step >= View[p].step
  BY <1>1, <1>2, <1>3, <1>7 DEF Kept, KeysGiven, Exists
<1>. QED BY <1>4, <1>5, <1>6, <1>7 DEF KeysGiven

\* The versions the pass writes are kept versions.
LEMMA KeptVersions ==
  ASSUME TableOK, CronOK, NEW F \in SUBSET Conn
  PROVE  /\ \A S \in SUBSET Pk :
              Kept([p \in Pk |-> IF p \in S THEN NoRow ELSE View[p]], F)
         /\ \A S \in SUBSET Pk : (\A p \in S : Exists(p)) =>
              /\ Kept([p \in Pk |-> IF p \in S THEN Bump(View[p]) ELSE View[p]], F)
              /\ Kept([p \in Pk |-> IF p \in S THEN [View[p] EXCEPT !.status = "C", !.age = 0]
                                    ELSE View[p]], F)
         /\ Kept(View, F)
<1>1. \A p \in Pk : View[p] \in Row /\ View[p].step \in Int
  BY ViewType, ConstantsAssumption DEF Row, ConstantsAssumption
<1>2. \A p \in Pk : Bump(View[p]).step = View[p].step
  BY <1>1 DEF Bump, Row
<1>3. \A p \in Pk : [View[p] EXCEPT !.status = "C", !.age = 0].step = View[p].step
  BY <1>1 DEF Row
<1>4. \A p \in Pk : View[p].step >= View[p].step
  BY <1>1
<1>. QED BY <1>1, <1>2, <1>3, <1>4 DEF Kept, Exists, NoRow

\* Scheduling again takes rows away and gives out one key.
LEMMA KeptRescheduled ==
  ASSUME TableOK, NEW new \in [Pk -> Row], NEW F \in SUBSET Conn, Kept(new, F)
  PROVE  Kept(Rescheduled(new, F), F)
<1>. SUFFICES ASSUME NEW p \in Pk, Rescheduled(new, F)[p].status # "gone"
              PROVE  \/ Exists(p) /\ Rescheduled(new, F)[p].step >= View[p].step
                     \/ p[2] = runs[p[1]] + 1 /\ p[2] <= RunsAfter(F)[p[1]]
  BY DEF Kept
<1>1. p[1] \in Conn /\ p[2] \in 1 .. MaxRuns
  BY KeyParts
<1>2. CASE p[1] \notin F \/ ~Recurring
  <2>1. Rescheduled(new, F)[p] = new[p]
    BY <1>2 DEF Rescheduled
  <2>. QED BY <2>1 DEF Kept
<1>3. CASE p[1] \in F /\ Recurring
  <2>1. p[2] = runs[p[1]] + 1 /\ p[1] \notin blacklist
    BY <1>3 DEF Rescheduled, NoRow
  <2>2. runs[p[1]] < MaxRuns
    BY <1>1, <2>1, ConstantsAssumption DEF TableOK, ConstantsAssumption
  <2>3. RunsAfter(F)[p[1]] = runs[p[1]] + 1
    BY <1>1, <1>3, <2>1, <2>2 DEF RunsAfter
  <2>4. runs[p[1]] + 1 \in Int
    BY <1>1, ConstantsAssumption DEF TableOK, ConstantsAssumption
  <2>. QED BY <2>1, <2>3, <2>4
<1>. QED BY <1>2, <1>3

LEMMA KeptCounted ==
  ASSUME NEW new \in [Pk -> Row], NEW F, Kept(new, F)
  PROVE  Kept(Counted(new), F)
<1>1. \A p \in Pk : /\ Counted(new)[p].status = new[p].status
                    /\ Counted(new)[p].step = new[p].step
  BY DEF Counted, Bump, Row
<1>. QED BY <1>1 DEF Kept

\* moveon writes a version in which the rows it has updated land at k or beyond
\* it, or are gone, and the others are as they were.
LEMMA SteppedVersion ==
  ASSUME TypeOK, NEW S \in SUBSET Pk, NEW k \in Steps, MoveOn(S, k)
  PROVE  \E stepped \in [Pk -> Row], F \in SUBSET Conn, rows \in SUBSET Pk,
            sessions \in [Conn -> Int] :
           /\ mass_text(Counted(Rescheduled(stepped, F)), rows, sessions, F)
           /\ moved' = moved \cup S
           /\ S \subseteq rows
           /\ \A p \in Pk \ S : stepped[p] = View[p]
           /\ \A p \in S : stepped[p].status # "gone" => stepped[p].step >= k
<1>. DEFINE Landing(p) == IF txopen[p[1]] > 0 THEN Land[p[1]][k] ELSE k
            F == {p[1] : p \in {q \in S : Landing(q) = Done}}
            stepped == [p \in Pk |->
                          IF p \notin S THEN View[p]
                          ELSE IF Landing(p) = Done THEN NoRow
                          ELSE [View[p] EXCEPT !.step = Landing(p), !.status = "P", !.age = 0]]
            sessions == [c \in Conn |-> IF c \in F THEN txopen[c] - 1 ELSE txopen[c]]
            rows == S \cup {p \in list : Exists(p)} \cup Touched(F)
<1>1. mass_text(Counted(Rescheduled(stepped, F)), rows, sessions, F) /\ moved' = moved \cup S
  BY DEF MoveOn
<1>2. F \in SUBSET Conn
  BY KeyParts
<1>3. rows \in SUBSET Pk /\ S \subseteq rows
  <2>. HIDE DEF F
  <2>. QED BY TouchedType DEF TypeOK, CronOK
<1>9. sessions \in [Conn -> Int]
  <2>. HIDE DEF F
  <2>. QED BY DEF TypeOK, TableOK
<1>4. \A p \in Pk : View[p] \in Row
  BY ViewType DEF TypeOK
<1>5. ASSUME NEW p \in S, Landing(p) # Done
      PROVE  stepped[p] \in Row /\ stepped[p].step = Landing(p) /\ Landing(p) >= k
  <2>1. p[1] \in Conn /\ k \in Int
    BY KeyParts, ConstantsAssumption DEF Steps, ConstantsAssumption
  <2>2. Landing(p) >= k /\ Landing(p) \in 0 .. Done
    <3>1. Land[p[1]][k] >= k /\ Land[p[1]][k] \in 0 .. Done /\ k \in 0 .. Done /\ k >= k
      BY <2>1, ConstantsAssumption DEF ConstantsAssumption, Steps, Done
    <3>. QED BY <3>1
  <2>3. \A n \in 0 .. Done : n # Done => n \in Steps
    BY ConstantsAssumption DEF Steps, Done, ConstantsAssumption
  <2>4. stepped[p] = [View[p] EXCEPT !.step = Landing(p), !.status = "P", !.age = 0]
    BY <1>5
  <2>. HIDE DEF stepped, Landing
  <2>. QED BY <1>4, <1>5, <2>2, <2>3, <2>4, RowTypes DEF Row
<1>6. stepped \in [Pk -> Row]
  <2>1. ASSUME NEW p \in Pk PROVE stepped[p] \in Row
    <3>1. CASE p \notin S
      BY <3>1, <1>4
    <3>2. CASE p \in S /\ Landing(p) = Done
      BY <3>2, RowTypes
    <3>3. CASE p \in S /\ Landing(p) # Done
      BY <3>3, <1>5
    <3>. QED BY <3>1, <3>2, <3>3
  <2>. QED BY <2>1
<1>7. \A p \in Pk \ S : stepped[p] = View[p]
  OBVIOUS
<1>8. ASSUME NEW p \in S, stepped[p].status # "gone" PROVE stepped[p].step >= k
  <2>1. Landing(p) # Done
    BY <1>8 DEF NoRow
  <2>. HIDE DEF stepped, Landing
  <2>. QED BY <1>5, <2>1
<1>. HIDE DEF stepped, F, rows, sessions
<1>. QED BY <1>1, <1>2, <1>3, <1>6, <1>7, <1>8, <1>9

\* The rows updated are at k or beyond it, or gone; the others are no further
\* back than they were.
LEMMA MoveOnStep ==
  ASSUME TypeOK, KeysGiven, NEW S \in SUBSET Pk, NEW k \in Steps, MoveOn(S, k),
         \A p \in S : Exists(p) /\ View[p].step < k,
         UNCHANGED inflight
  PROVE  /\ KeysGiven'
         /\ \A p \in moved : Exists(p)' => Exists(p) /\ View'[p].step >= View[p].step
         /\ \A p \in S : Exists(p)' => View'[p].step >= k
         /\ moved' = moved \cup S
<1>1. PICK stepped \in [Pk -> Row], F \in SUBSET Conn, rows \in SUBSET Pk,
            sessions \in [Conn -> Int] :
           /\ mass_text(Counted(Rescheduled(stepped, F)), rows, sessions, F)
           /\ moved' = moved \cup S
           /\ S \subseteq rows
           /\ \A p \in Pk \ S : stepped[p] = View[p]
           /\ \A p \in S : stepped[p].status # "gone" => stepped[p].step >= k
  BY SteppedVersion
<1>. DEFINE new == Counted(Rescheduled(stepped, F))
<1>2. TableOK /\ list \subseteq Pk /\ moved \subseteq Pk /\ inflight \subseteq Answer
  BY DEF TypeOK, CronOK, WorkersOK
<1>3. \A p \in Pk : View[p].step \in Int /\ stepped[p].step \in Int
  BY <1>2, ViewType, ConstantsAssumption DEF Row, ConstantsAssumption
<1>4. k \in Int
  BY ConstantsAssumption DEF Steps, ConstantsAssumption
<1>5. ASSUME NEW p \in Pk, stepped[p].status # "gone"
      PROVE  Exists(p) /\ stepped[p].step >= View[p].step
  BY <1>1, <1>3, <1>4, <1>5 DEF Exists
<1>6. Kept(stepped, F)
  BY <1>5 DEF Kept
<1>7. new \in [Pk -> Row] /\ Kept(new, F)
  BY <1>2, <1>6, RescheduledType, CountedType, KeptRescheduled, KeptCounted
<1>8. /\ KeysGiven'
      /\ \A p \in moved : Exists(p)' => Exists(p) /\ View'[p].step >= View[p].step
  <2>. HIDE DEF new
  <2>. QED BY <1>1, <1>2, <1>7, KeptStep DEF new
<1>9. ASSUME NEW p \in S, Exists(p)' PROVE View'[p].step >= k
  <2>1. View'[p] = new[p]
    BY <1>1, <1>2, <1>7, MassTextView
  <2>2. p[2] # runs[p[1]] + 1
    <3>1. p[2] <= runs[p[1]] /\ p[2] \in Int /\ runs[p[1]] \in Int
      BY KeyParts, ConstantsAssumption DEF KeysGiven, TypeOK, TableOK, ConstantsAssumption
    <3>. QED BY <3>1
  <2>3. /\ Rescheduled(stepped, F)[p].status # "gone"
        /\ new[p].step = Rescheduled(stepped, F)[p].step
    <3>1. Rescheduled(stepped, F)[p] \in Row /\ Rescheduled(stepped, F) \in [Pk -> Row]
      BY RescheduledType
    <3>2. new[p].status # "gone"
      BY <1>9, <2>1 DEF Exists
    <3>. QED BY <3>1, <3>2 DEF Counted, Bump, Row
  <2>4. Rescheduled(stepped, F)[p] = stepped[p]
    BY <2>2, <2>3 DEF Rescheduled, NoRow
  <2>. QED BY <1>1, <2>1, <2>3, <2>4
<1>. QED BY <1>1, <1>8, <1>9

LEMMA StepsAreInts ==
  /\ TableOK => \A p \in Pk : View[p].step \in Int
  /\ TableOK' => \A p \in Pk : View'[p].step \in Int
<1>1. \A row \in Row : row.step \in Int
  BY ConstantsAssumption DEF Row, ConstantsAssumption
<1>2. ASSUME TableOK, NEW p \in Pk PROVE View[p].step \in Int
  BY <1>1, <1>2, ViewType
<1>3. ASSUME TableOK', NEW p \in Pk PROVE View'[p].step \in Int
  <2>1. View'[p] \in Row
    BY <1>3 DEF TableOK, View
  <2>. QED BY <1>1, <2>1
<1>. QED BY <1>2, <1>3

\* The pass goes on, or down a step: the rows moved before stay ahead.
LEMMA AheadStep ==
  ASSUME TypeOK, TypeOK', Ahead, moved' = moved,
         \A p \in moved : Exists(p)' => Exists(p) /\ View'[p].step >= View[p].step,
         pc \in Loop, (pc' \in Loop /\ at' = at) \/ NextStep
  PROVE  Ahead'
<1>1. \A p \in moved : View[p].step \in Int /\ View'[p].step \in Int
  BY StepsAreInts DEF TypeOK, CronOK
<1>2. at \in Int /\ at' \in Int
  BY ConstantsAssumption DEF TypeOK, CronOK, Steps, ConstantsAssumption
<1>3. \A p \in moved : Exists(p)' => View'[p].step > at
  BY <1>1, <1>2 DEF Ahead
<1>4. CASE pc' \in Loop /\ at' = at
  BY <1>3, <1>4 DEF Ahead, Loop
<1>5. CASE NextStep
  <2>1. at >= 0
    BY DEF TypeOK, CronOK, Steps
  <2>2. CASE at > 0
    BY <1>1, <1>2, <1>3, <1>5, <2>2 DEF Ahead, Loop, NextStep
  <2>3. CASE ~(at > 0)
    BY <1>1, <1>2, <1>3, <1>5, <2>1, <2>3 DEF Ahead, Loop, NextStep
  <2>. QED BY <2>2, <2>3
<1>. QED BY <1>4, <1>5

\* The loop moves rows to the step above and goes down.
LEMMA AheadMoved ==
  ASSUME TypeOK, TypeOK', Ahead,
         NEW S \in SUBSET Pk, moved' = moved \cup S,
         \A p \in moved : Exists(p)' => Exists(p) /\ View'[p].step >= View[p].step,
         \A p \in S : Exists(p)' => View'[p].step >= at + 1,
         pc \in Loop, NextStep
  PROVE  Ahead'
<1>1. \A p \in Pk : View[p].step \in Int /\ View'[p].step \in Int
  BY StepsAreInts DEF TypeOK
<1>2. at \in Int /\ at' \in Int /\ at >= 0 /\ moved \subseteq Pk
  BY ConstantsAssumption DEF TypeOK, CronOK, Steps, ConstantsAssumption
<1>3. \A p \in moved : Exists(p)' => View'[p].step > at
  BY <1>1, <1>2 DEF Ahead
<1>4. \A p \in moved' : Exists(p)' => View'[p].step > at
  BY <1>1, <1>2, <1>3
<1>5. CASE at > 0
  BY <1>1, <1>2, <1>4, <1>5 DEF Ahead, Loop, NextStep
<1>6. CASE ~(at > 0)
  BY <1>1, <1>2, <1>4, <1>6 DEF Ahead, Loop, NextStep
<1>. QED BY <1>5, <1>6

\* What leaves the table alone keeps the keys given, and moves nothing.
LEMMA SameTable ==
  ASSUME KeysGiven, UNCHANGED <<db, tx, held, runs, moved, inflight>>, View' = View
  PROVE  /\ KeysGiven'
         /\ View \in [Pk -> Row] /\ moved \subseteq Pk =>
              \A p \in moved : Exists(p)' => Exists(p) /\ View'[p].step >= View[p].step
<1>1. KeysGiven'
  BY DEF KeysGiven, Exists
<1>2. ASSUME View \in [Pk -> Row], NEW p \in Pk PROVE View[p].step >= View[p].step
  <2>1. View[p].step \in Int
    BY <1>2, ConstantsAssumption DEF Row, ConstantsAssumption
  <2>. QED BY <2>1
<1>. QED BY <1>1, <1>2 DEF Exists

\* A step of the loop that writes a kept version, and moves nothing.
LEMMA QuietStep ==
  ASSUME TypeOK, TypeOK', KeysGiven, Ahead,
         NEW S \in SUBSET Pk, NEW new \in [Pk -> Row], NEW sessions, NEW F,
         Kept(new, F),
         Write(S, new, sessions, F) \/ mass_text(new, S, sessions, F),
         UNCHANGED <<moved, inflight>>,
         pc \in Loop, (pc' \in Loop /\ at' = at) \/ NextStep
  PROVE  KeysGiven' /\ Ahead'
<1>1. TableOK /\ list \subseteq Pk /\ moved \subseteq Pk /\ inflight \subseteq Answer
  BY DEF TypeOK, CronOK, WorkersOK
<1>2. moved' = moved \cup {} /\ {} \in SUBSET Pk
  OBVIOUS
<1>3. /\ KeysGiven'
      /\ \A p \in moved : Exists(p)' => Exists(p) /\ View'[p].step >= View[p].step
  BY <1>1, <1>2, KeptStep
<1>. QED BY <1>3, AheadStep

\* A row the loop has read is there, and before the row's next step.
LEMMA RowsRead ==
  /\ \A p \in expired(at) \cup need_to_resend(at) : Exists(p)
  /\ \A p \in need_to_transition(at) : Exists(p) /\ View[p].step = at
  /\ \A p \in need_to_start : Exists(p) /\ View[p].step = -1
BY DEF expired, need_to_resend, need_to_transition, need_to_start, Exists

\* A step of the pass keeps what it has moved ahead of it.
LEMMA PassAhead ==
  ASSUME TypeOK, TypeOK', KeysGiven, Ahead, Pass, UNCHANGED workers
  PROVE  KeysGiven' /\ Ahead'
<1>1. /\ TableOK /\ CronOK /\ at \in Steps /\ View \in [Pk -> Row]
      /\ moved \subseteq Pk /\ UNCHANGED inflight
      /\ {} \in SUBSET Conn /\ {} \in SUBSET Pk
  BY ViewType DEF TypeOK, CronOK, workers
<1>. DEFINE Updated(S) == [p \in Pk |-> IF p \in S THEN [View[p] EXCEPT !.status = "C", !.age = 0]
                                        ELSE View[p]]
            Deleted(S) == [p \in Pk |-> IF p \in S THEN NoRow ELSE View[p]]
            Bumped(S) == [p \in Pk |-> IF p \in S THEN Bump(View[p]) ELSE View[p]]
<1>2. \A S \in SUBSET Pk : /\ Updated(S) \in [Pk -> Row]
                           /\ Deleted(S) \in [Pk -> Row]
                           /\ Bumped(S) \in [Pk -> Row]
  BY <1>1, RowTypes
<1>3. /\ Kept(Updated(expired(at)), {}) /\ Kept(Bumped(need_to_resend(at)), {})
      /\ \A S \in SUBSET Pk : Kept(Deleted(S), {})
      /\ \A F \in SUBSET Conn : Kept(View, F)
  BY <1>1, KeptVersions, QuerySets, RowsRead
<1>4. CASE ExpireMoveOn
  <2>1. /\ Write(expired(at), Updated(expired(at)), txopen, {})
        /\ moved' = moved /\ pc \in Loop /\ pc' \in Loop /\ at' = at
    BY <1>4 DEF ExpireMoveOn, Goto, Loop
  <2>. HIDE DEF Updated
  <2>. QED BY <1>1, <1>2, <1>3, <2>1, QuerySets, QuietStep
<1>5. ASSUME NEW p \in Pk, GiveUpOne(p) PROVE KeysGiven' /\ Ahead'
  <2>. DEFINE c == p[1]
              F == IF txopen[c] > 0 THEN {c} ELSE {}
              sessions == [txopen EXCEPT ![c] = IF @ > 0 THEN @ - 1 ELSE @]
  <2>1. /\ Write(Touched(F), Rescheduled(View, F), sessions, F)
        /\ moved' = moved /\ pc \in Loop /\ pc' \in Loop /\ at' = at
    BY <1>5 DEF GiveUpOne, Goto, Loop
  <2>2. F \in SUBSET Conn /\ Touched(F) \in SUBSET Pk
    BY KeyParts, TouchedType
  <2>3. Rescheduled(View, F) \in [Pk -> Row] /\ Kept(Rescheduled(View, F), F)
    <3>. HIDE DEF F
    <3>. QED BY <1>1, <1>3, <2>2, RescheduledType, KeptRescheduled
  <2>. HIDE DEF F, sessions
  <2>. QED BY <1>1, <2>1, <2>2, <2>3, QuietStep
<1>6. CASE DeleteExpired
  <2>1. /\ Write(expired(at), Deleted(expired(at)), txopen, {})
        /\ moved' = moved /\ pc \in Loop /\ pc' \in Loop /\ at' = at
    BY <1>6 DEF DeleteExpired, Goto, Loop
  <2>. HIDE DEF Deleted
  <2>. QED BY <1>1, <1>2, <1>3, <2>1, QuerySets, QuietStep
<1>7. CASE Resend
  <2>1. /\ mass_text(Bumped(need_to_resend(at)), need_to_resend(at), txopen, {})
        /\ moved' = moved /\ pc \in Loop /\ pc' \in Loop /\ at' = at
    BY <1>7 DEF Resend, Goto, Loop
  <2>. HIDE DEF Bumped
  <2>. QED BY <1>1, <1>2, <1>3, <2>1, QuerySets, QuietStep
<1>8. CASE DeleteEnded
  <2>. DEFINE S == need_to_transition(at)
              rows == S \cup {p \in list : Exists(p)}
  <2>1. /\ mass_text(Counted(Deleted(S)), rows, txopen, {})
        /\ moved' = moved /\ pc \in Loop /\ NextStep
    BY <1>8 DEF DeleteEnded, Loop
  <2>2. rows \in SUBSET Pk
    BY QuerySets DEF TypeOK, CronOK
  <2>3. Counted(Deleted(S)) \in [Pk -> Row] /\ Kept(Counted(Deleted(S)), {})
    <3>. HIDE DEF Deleted
    <3>. QED BY <1>2, <1>3, QuerySets, CountedType, KeptCounted
  <2>. HIDE DEF Deleted, S, rows
  <2>. QED BY <1>1, <2>1, <2>2, <2>3, QuietStep
<1>9. CASE ExpireGiveUp \/ SelectResend \/ SelectTransition \/ SelectEnding
  <2>1. /\ UNCHANGED <<table, moved>> /\ pc \in Loop
        /\ (pc' \in Loop /\ at' = at) \/ NextStep
    BY <1>9 DEF ExpireGiveUp, SelectResend, SelectTransition, SelectEnding, Goto, Loop
  <2>2. UNCHANGED <<db, tx, held, runs>> /\ View' = View
    BY <2>1 DEF table, View
  <2>. QED BY <1>1, <2>1, <2>2, SameTable, AheadStep
<1>10. CASE Transition
  <2>. DEFINE S == need_to_transition(at)
  <2>1. pc \in Loop /\ NextStep /\ at # Last
    BY <1>10 DEF Transition, Loop, TypeOK, CronOK
  <2>2. CASE S = {}
    <3>1. UNCHANGED <<db, tx, held, runs, moved>> /\ View' = View
      BY <1>10, <2>2 DEF Transition, table, View
    <3>. QED BY <1>1, <2>1, <3>1, SameTable, AheadStep
  <2>3. CASE S # {}
    <3>1. at + 1 \in Steps /\ at \in Int
      BY <1>1, <2>1, StepParts DEF Steps
    <3>2. MoveOn(S, at + 1)
      BY <1>10, <2>3 DEF Transition
    <3>3. \A p \in S : Exists(p) /\ View[p].step < at + 1
      BY <3>1, RowsRead
    <3>4. S \in SUBSET Pk
      BY QuerySets
    <3>5. /\ KeysGiven'
          /\ \A p \in moved : Exists(p)' => Exists(p) /\ View'[p].step >= View[p].step
          /\ \A p \in S : Exists(p)' => View'[p].step >= at + 1
          /\ moved' = moved \cup S
      <4>. HIDE DEF S
      <4>. QED BY <1>1, <3>1, <3>2, <3>3, <3>4, MoveOnStep
    <3>. HIDE DEF S
    <3>. QED BY <2>1, <3>4, <3>5, AheadMoved
  <2>. QED BY <2>2, <2>3
<1>11. CASE SelectStart
  <2>1. UNCHANGED <<db, tx, held, runs, moved>> /\ View' = View
    BY <1>11 DEF SelectStart, View
  <2>2. KeysGiven'
    BY <1>1, <2>1, SameTable
  <2>3. Ahead'
    BY <1>11, <2>1 DEF SelectStart, Goto, Ahead, Exists, Loop
  <2>. QED BY <2>2, <2>3
<1>12. CASE StartRuns
  <2>. DEFINE S == need_to_start
  <2>1. MoveOn(S, 0) /\ 0 \in Steps /\ S \in SUBSET Pk
    BY <1>12, StepParts, QuerySets DEF StartRuns
  <2>2. \A p \in S : Exists(p) /\ View[p].step < 0
    BY RowsRead
  <2>3. KeysGiven'
    <3>. HIDE DEF S
    <3>. QED BY <1>1, <2>1, <2>2, MoveOnStep
  <2>4. Ahead'
    BY <1>12 DEF StartRuns, Goto, Ahead, Loop
  <2>. QED BY <2>3, <2>4
<1>13. CASE EndPass
  <2>1. db' = View /\ held' = {} /\ runs' = RunsAfter({}) /\ moved' = {} /\ pc' = "idle"
    BY <1>13 DEF EndPass, Commit, Goto
  <2>2. \A p \in Pk : View'[p] = View[p]
    BY <2>1 DEF View
  <2>3. runs' = runs
    BY <2>1 DEF RunsAfter, TypeOK, TableOK
  <2>4. KeysGiven'
    BY <1>1, <2>1, <2>2, <2>3 DEF KeysGiven, Exists
  <2>. QED BY <2>1, <2>4 DEF Ahead, Loop
<1>. QED
  BY <1>4, <1>5, <1>6, <1>7, <1>8, <1>9, <1>10, <1>11, <1>12, <1>13 DEF Pass

LEMMA InitAhead == Init => KeysGiven /\ Ahead
<1>. SUFFICES ASSUME Init PROVE KeysGiven /\ Ahead
  OBVIOUS
<1>1. /\ pc = "idle" /\ moved = {} /\ inflight = {} /\ held = {}
      /\ runs = [c \in Conn |-> 1]
  BY DEF Init
<1>2. ASSUME NEW p \in Pk, db[p].status # "gone" \/ Exists(p) PROVE p[2] <= runs[p[1]]
  <2>1. db[p].status # "gone"
    BY <1>1, <1>2 DEF Exists, View
  <2>2. PICK age : db = [q \in Pk |-> IF q[2] = 1 THEN Fresh(age[q[1]]) ELSE NoRow]
    BY DEF Init
  <2>3. p[2] = 1
    BY <2>1, <2>2 DEF NoRow
  <2>. QED BY <1>1, <2>3, KeyParts
<1>. QED BY <1>1, <1>2 DEF KeysGiven, Ahead, Loop

\* The cron job keeps both.
LEMMA CronAhead ==
  ASSUME TypeOK, TypeOK', KeysGiven, Ahead, Cron
  PROVE  KeysGiven' /\ Ahead'
<1>1. UNCHANGED workers /\ UNCHANGED inflight
  BY DEF Cron, workers
<1>2. CASE BeginPass
  <2>1. UNCHANGED <<db, tx, held, runs, moved>> /\ View' = View /\ moved = {}
    BY <1>2 DEF BeginPass, table, View, Ahead
  <2>. QED BY <1>1, <2>1, SameTable DEF Ahead
<1>3. CASE Pass
  BY <1>1, <1>3, PassAhead
<1>4. CASE FailPass
  <2>1. UNCHANGED <<db, runs>> /\ held' = {} /\ moved' = {} /\ pc' = "idle"
    BY <1>4 DEF FailPass, Goto
  <2>2. \A p \in Pk : View'[p] = db[p]
    BY <2>1 DEF View
  <2>3. KeysGiven'
    BY <1>1, <2>1, <2>2 DEF KeysGiven, Exists
  <2>. QED BY <2>1, <2>3 DEF Ahead, Loop
<1>. QED BY <1>2, <1>3, <1>4 DEF Cron

\* What writes no row that the pass has moved keeps Ahead.
LEMMA AheadUnmoved ==
  ASSUME Ahead, UNCHANGED <<pc, at>>, moved' \subseteq moved,
         \A p \in moved' : Exists(p)' => Exists(p) /\ View'[p] = View[p]
  PROVE  Ahead'
BY DEF Ahead, Loop

\* Reading keeps both: the copy's key is in the table.
LEMMA ReadAhead ==
  ASSUME TypeOK, KeysGiven, Ahead,
         NEW p \in Pk, NEW bad \in BOOLEAN, NEW logged \in BOOLEAN, Read(p, bad, logged)
  PROVE  KeysGiven' /\ Ahead'
<1>1. UNCHANGED <<db, tx, held, runs, moved, pc, at>> /\ View' = View
  BY DEF Read, cron, table, View
<1>2. p[2] <= runs[p[1]]
  BY DEF Read, IsLatest, Present, KeysGiven
<1>3. KeysGiven'
  BY <1>1, <1>2 DEF Read, KeysGiven, Exists
<1>. QED BY <1>1, <1>3, AheadUnmoved DEF Exists

LEMMA HandlerAhead ==
  ASSUME TypeOK, KeysGiven, Ahead, NEW w \in inflight, Handler(w)
  PROVE  KeysGiven' /\ Ahead'
<1>1. w \in Answer /\ w.pk \in Pk
  BY SavedType DEF TypeOK, WorkersOK
<1>2. CASE LogResponse(w) \/ LoseAnswer(w)
  <2>1. UNCHANGED <<db, tx, held, runs, moved, pc, at>> /\ View' = View
    BY <1>2 DEF LogResponse, LoseAnswer, cron, table, View
  <2>2. \A v \in inflight' : \E u \in inflight : v.pk = u.pk
    BY <1>1, <1>2 DEF LogResponse, LoseAnswer, Answer
  <2>3. KeysGiven'
    BY <2>1, <2>2 DEF KeysGiven, Exists
  <2>. QED BY <2>1, <2>3, AheadUnmoved DEF Exists
<1>3. CASE SaveProgress(w)
  <2>1. UNCHANGED <<tx, held, runs, pc, at>> /\ inflight' \subseteq inflight
    BY <1>3 DEF SaveProgress
  <2>2. \A p \in Pk : p # w.pk => db'[p] = db[p] /\ View'[p] = View[p]
    BY <1>3 DEF SaveProgress, View, TypeOK, TableOK
  <2>3. w.pk[2] <= runs[w.pk[1]]
    BY DEF KeysGiven
  <2>4. moved' \subseteq moved /\ (w.pk \in moved' => db' = db)
    BY <1>3 DEF SaveProgress
  <2>5. \A p \in moved' : View'[p] = View[p]
    <3>1. db' = db => View' = View
      BY <2>1 DEF View
    <3>. QED BY <2>2, <2>4, <3>1 DEF TypeOK, CronOK
  <2>6. KeysGiven'
    BY <2>1, <2>2, <2>3, <2>4 DEF KeysGiven, Exists
  <2>. QED BY <2>1, <2>4, <2>5, <2>6, AheadUnmoved DEF Exists
<1>. QED BY <1>2, <1>3 DEF Handler

\* Joining creates a row under a key not given out before.
LEMMA JoinAhead ==
  ASSUME TypeOK, KeysGiven, Ahead, NEW c \in Conn, Join(c)
  PROVE  KeysGiven' /\ Ahead'
<1>1. UNCHANGED <<tx, held, pc, at, moved, inflight>>
  BY DEF Join
<1>2. CASE UNCHANGED <<db, runs>>
  <2>1. View' = View
    BY <1>1, <1>2 DEF View
  <2>. QED BY <1>1, <1>2, <2>1 DEF KeysGiven, Ahead, Exists, Loop
<1>3. CASE Create(c, Fresh(0))
  <2>. DEFINE new == <<c, runs[c] + 1>>
  <2>1. \A d \in Conn : runs[d] \in Int /\ runs'[d] \in Int /\ runs[d] <= runs'[d]
    BY <1>3, ConstantsAssumption DEF Create, TypeOK, TableOK, ConstantsAssumption
  <2>2. \A p \in Pk : p # new => db'[p] = db[p] /\ View'[p] = View[p]
    BY <1>1, <1>3 DEF Create, View, TypeOK, TableOK
  <2>3. new[1] = c /\ new[2] = runs[c] + 1 /\ new[2] = runs'[c]
    BY <1>3 DEF Create, TypeOK, TableOK
  <2>4. \A p \in Pk : p[1] \in Conn /\ p[2] \in Int
    BY KeyParts
  <2>5. moved \subseteq Pk /\ \A w \in inflight : w.pk \in Pk
    BY SavedType DEF TypeOK, CronOK, WorkersOK
  <2>6. new \notin moved
    <3>. HIDE DEF new
    <3>. QED BY <2>1, <2>3 DEF KeysGiven
  <2>7. KeysGiven'
    <3>1. \A p \in Pk : db'[p].status # "gone" \/ Exists(p)' => p[2] <= runs'[p[1]]
      <4>. HIDE DEF new
      <4>. QED BY <2>1, <2>2, <2>3, <2>4 DEF KeysGiven, Exists
    <3>. HIDE DEF new
    <3>. QED BY <1>1, <2>1, <2>4, <2>5, <3>1 DEF KeysGiven
  <2>8. \A p \in moved' : Exists(p)' => Exists(p) /\ View'[p] = View[p]
    <3>. HIDE DEF new
    <3>. QED BY <1>1, <2>2, <2>5, <2>6 DEF Exists
  <2>. QED BY <1>1, <2>7, <2>8, AheadUnmoved
<1>. QED BY <1>2, <1>3 DEF Join

\* Requests delete rows, and create one under a key not given out before.
LEMMA ServerAhead ==
  ASSUME TypeOK, KeysGiven, Ahead, NEW r \in requests, Server(r)
  PROVE  KeysGiven' /\ Ahead'
<1>. DEFINE c == r.conn
<1>1. c \in Conn
  BY DEF TypeOK, WorkersOK, Request
<1>2. \A d \in Conn : runs[d] \in Int /\ runs[d] \in Nat
  BY ConstantsAssumption DEF TypeOK, TableOK, ConstantsAssumption
<1>3. CASE Quit(r)
  <2>1. UNCHANGED <<tx, held, runs, pc, at, moved>> /\ inflight' \subseteq inflight
    BY <1>3 DEF Quit
  <2>2. \A p \in Pk : db'[p] = db[p] \/ db'[p] = NoRow
    BY <1>3 DEF Quit
  <2>3. \A p \in Pk : View'[p] = View[p] \/ View'[p] = NoRow
    BY <2>1, <2>2 DEF View
  <2>4. KeysGiven'
    BY <2>1, <2>2, <2>3 DEF KeysGiven, Exists, NoRow
  <2>5. \A p \in moved' : Exists(p)' => Exists(p) /\ View'[p] = View[p]
    BY <2>1, <2>3 DEF Exists, NoRow, TypeOK, CronOK
  <2>. QED BY <2>1, <2>4, <2>5, AheadUnmoved
<1>4. ASSUME NEW age \in {-Gap, 0}, schedule_at(r, age) PROVE KeysGiven' /\ Ahead'
  <2>. DEFINE created == IF c \notin blacklist /\ runs[c] < MaxRuns
                         THEN {<<c, runs[c] + 1>>} ELSE {}
  <2>1. UNCHANGED <<tx, held, pc, at, moved, inflight>>
    BY <1>4 DEF schedule_at
  <2>2. \A p \in Pk : db'[p] = db[p] \/ db'[p] = NoRow \/ p \in created
    <3>1. db' = [p \in Pk |-> IF p \in created THEN Fresh(age)
                              ELSE IF p \in r.rows THEN NoRow ELSE db[p]]
      BY <1>4 DEF schedule_at
    <3>. HIDE DEF created
    <3>. QED BY <3>1
  <2>3. \A p \in Pk : View'[p] = View[p] \/ View'[p] = NoRow \/ p \in created
    <3>. HIDE DEF created
    <3>. QED BY <2>1, <2>2 DEF View
  <2>4. /\ \A d \in Conn : runs'[d] \in Int /\ runs[d] <= runs'[d]
        /\ created # {} => runs'[c] = runs[c] + 1
    <3>1. Cardinality(created) \in Int /\ Cardinality(created) >= 0
          /\ (created # {} => Cardinality(created) = 1)
      <4>1. Cardinality({}) = 0 /\ Cardinality({<<c, runs[c] + 1>>}) = 1
        BY FS_EmptySet, FS_Singleton
      <4>2. created = {} \/ created = {<<c, runs[c] + 1>>}
        OBVIOUS
      <4>3. created = {} => Cardinality(created) = 0
        BY <4>1
      <4>4. created # {} => Cardinality(created) = 1
        BY <4>1, <4>2
      <4>. HIDE DEF created
      <4>. QED BY <4>3, <4>4
    <3>2. runs' = [runs EXCEPT ![c] = @ + Cardinality(created)]
      BY <1>4 DEF schedule_at
    <3>. HIDE DEF created
    <3>. QED BY <1>1, <1>2, <3>1, <3>2 DEF TypeOK, TableOK
  <2>5. \A p \in created : p[1] = c /\ p[2] = runs[c] + 1 /\ created # {}
    OBVIOUS
  <2>6. \A p \in Pk : p[1] \in Conn /\ p[2] \in Int
    BY KeyParts
  <2>7. KeysGiven'
    <3>1. \A p \in Pk : db'[p].status # "gone" \/ Exists(p)' => p[2] <= runs'[p[1]]
      <4>. HIDE DEF created
      <4>. QED BY <1>1, <1>2, <2>2, <2>3, <2>4, <2>5, <2>6 DEF KeysGiven, Exists, NoRow
    <3>2. /\ \A p \in moved' : p[2] <= runs'[p[1]]
          /\ \A w \in inflight' : w.pk[2] <= runs'[w.pk[1]]
      <4>1. moved \subseteq Pk /\ \A w \in inflight : w.pk \in Pk
        BY SavedType DEF TypeOK, CronOK, WorkersOK
      <4>. HIDE DEF created
      <4>. QED BY <1>2, <2>1, <2>4, <2>6, <4>1 DEF KeysGiven
    <3>. QED BY <3>1, <3>2 DEF KeysGiven
  <2>8. \A p \in moved' : Exists(p)' => Exists(p) /\ View'[p] = View[p]
    <3>1. \A p \in moved : p \in Pk /\ p \notin created
      <4>. HIDE DEF created
      <4>. QED BY <1>1, <1>2, <2>5, <2>6 DEF KeysGiven, TypeOK, CronOK
    <3>. HIDE DEF created
    <3>. QED BY <2>1, <2>3, <3>1 DEF Exists, NoRow
  <2>. QED BY <2>1, <2>7, <2>8, AheadUnmoved
<1>. QED BY <1>3, <1>4 DEF Server

LEMMA TickAhead ==
  ASSUME TypeOK, KeysGiven, Ahead, Tick
  PROVE  KeysGiven' /\ Ahead'
<1>1. /\ pc' = "idle" /\ moved' = {} /\ held = {} /\ held' = {} /\ runs' = runs
  BY DEF Tick, Ahead, TypeOK, CronOK
<1>2. \A p \in Pk : db'[p].status # "gone" => db[p].status # "gone"
  <2>1. \A p \in Pk : db'[p] = Older(db[p]) /\ db[p] \in Row
    BY DEF Tick, TypeOK, TableOK
  <2>. QED BY <2>1 DEF Older
<1>3. \A v \in inflight' : \E u \in inflight : v.pk = u.pk
  BY DEF Tick, TypeOK, WorkersOK, Answer
<1>4. KeysGiven'
  BY <1>1, <1>2, <1>3 DEF KeysGiven, Exists, View
<1>. QED BY <1>1, <1>4 DEF Ahead, Loop

\* Every step keeps both.
LEMMA NextAhead == TypeOK /\ TypeOK' /\ KeysGiven /\ Ahead /\ [Next]_vars => KeysGiven' /\ Ahead'
<1>. SUFFICES ASSUME TypeOK, TypeOK', KeysGiven, Ahead, [Next]_vars
              PROVE  KeysGiven' /\ Ahead'
  OBVIOUS
<1>1. CASE Cron
  BY <1>1, CronAhead
<1>2. ASSUME NEW p \in Pk, RepeatError(p) \/ \E bad \in BOOLEAN : ReadProgress(p, bad)
      PROVE  KeysGiven' /\ Ahead'
  BY <1>2, ReadAhead DEF RepeatError, ReadProgress
<1>3. ASSUME NEW w \in inflight, Handler(w) PROVE KeysGiven' /\ Ahead'
  BY <1>3, HandlerAhead
<1>4. ASSUME UNCHANGED <<cron, inflight>> PROVE KeysGiven' /\ Ahead'
  <2>1. UNCHANGED <<db, tx, held, runs, moved, pc, at>> /\ View' = View
    BY <1>4 DEF cron, table, View
  <2>. QED BY <1>4, <2>1 DEF KeysGiven, Ahead, Exists, Loop
<1>5. ASSUME NEW c \in Conn, ReadQuit(c) \/ Join(c) \/ ReadSchedule(c)
      PROVE  KeysGiven' /\ Ahead'
  BY <1>4, <1>5, JoinAhead DEF ReadQuit, ReadSchedule
<1>6. ASSUME NEW r \in requests, Server(r) PROVE KeysGiven' /\ Ahead'
  BY <1>6, ServerAhead
<1>7. CASE Tick
  BY <1>7, TickAhead
<1>8. CASE UNCHANGED vars
  <2>1. UNCHANGED <<cron, inflight>>
    BY <1>8 DEF vars, workers
  <2>. QED BY <1>4, <2>1
<1>. QED BY <1>1, <1>2, <1>3, <1>5, <1>6, <1>7, <1>8 DEF Next

\* What is ahead of the loop is not among the rows it selects.
LEMMA AheadMovesOnce == TypeOK /\ Ahead => MovedOncePerPass
<1>. SUFFICES ASSUME TypeOK, Ahead PROVE MovedOncePerPass
  OBVIOUS
<1>1. ASSUME pc \in Loop, NEW p \in need_to_transition(at) \cap moved PROVE FALSE
  <2>1. at \in Int
    BY ConstantsAssumption DEF TypeOK, CronOK, Steps, ConstantsAssumption
  <2>. QED BY <1>1, <2>1, RowsRead DEF Ahead
<1>2. pc = "starting" => need_to_start \cap moved = {}
  BY RowsRead DEF Ahead
<1>. QED BY <1>1, <1>2 DEF MovedOncePerPass, Loop

\* Whatever the workers do meanwhile, a pass moves a run on from one step at
\* most: a row it has moved is not among those it selects to move later,
\* unless a worker has saved a stale copy over it.
THEOREM MovedOnce == Spec => []MovedOncePerPass
<1>1. Init => TypeOK /\ KeysGiven /\ Ahead
  BY InitTypeOK, InitAhead
<1>2. TypeOK /\ KeysGiven /\ Ahead /\ [Next]_vars => (TypeOK /\ KeysGiven /\ Ahead)'
  BY NextTypeOK, NextAhead
<1>3. TypeOK /\ KeysGiven /\ Ahead => MovedOncePerPass
  BY AheadMovesOnce
<1>. QED BY <1>1, <1>2, <1>3, PTL DEF Spec

-----------------------------------------------------------------------------
(***************************************************************************)
(* TextsReachLiveRuns: texts are queued by mass_text only.                 *)
(***************************************************************************)

LEMMA MassTextReaches ==
  ASSUME NEW S, NEW new, NEW sessions, NEW F, mass_text(new, S, sessions, F)
  PROVE  \A p \in Pk : sent'[p] # sent[p] => db'[p].status # "gone"
<1>. DEFINE recipients == {p \in list : new[p].status # "gone"}
<1>1. CASE recipients = {}
  BY <1>1 DEF mass_text
<1>2. CASE recipients # {}
  <2>1. PICK k :
          /\ sent' = [p \in Pk |-> IF p \in recipients
                                   THEN [sent[p] EXCEPT ![k] = @ + 1] ELSE sent[p]]
          /\ db' = new
    BY <1>2 DEF mass_text, Commit
  <2>2. \A p \in Pk : p \notin recipients => sent'[p] = sent[p]
    <3>. HIDE DEF recipients
    <3>. QED BY <2>1
  <2>. QED BY <2>1, <2>2
<1>. QED BY <1>1, <1>2

LEMMA MoveOnReaches ==
  ASSUME NEW S, NEW k, MoveOn(S, k)
  PROVE  \A p \in Pk : sent'[p] # sent[p] => db'[p].status # "gone"
<1>1. PICK new, rows, sessions, F : mass_text(new, rows, sessions, F)
  BY DEF MoveOn
<1>. QED BY <1>1, MassTextReaches

\* Whatever quits and reschedules happen under a pass, no text is committed for
\* a run whose row is gone.
THEOREM TextsReach == Spec => TextsReachLiveRuns
<1>. DEFINE Reached == \A p \in Pk : sent'[p] # sent[p] => db'[p].status # "gone"
<1>1. [Next]_vars => [Reached]_vars
  <2>. SUFFICES ASSUME Next PROVE Reached
    OBVIOUS
  <2>1. ASSUME Resend PROVE Reached
    BY <2>1, MassTextReaches DEF Resend
  <2>2. ASSUME DeleteEnded PROVE Reached
    BY <2>2, MassTextReaches DEF DeleteEnded
  <2>3. ASSUME Transition PROVE Reached
    <3>1. CASE need_to_transition(at) = {}
      BY <2>3, <3>1 DEF Transition, table
    <3>2. CASE need_to_transition(at) # {}
      BY <2>3, <3>2, MoveOnReaches DEF Transition
    <3>. QED BY <3>1, <3>2
  <2>4. ASSUME StartRuns PROVE Reached
    BY <2>4, MoveOnReaches DEF StartRuns
  <2>5. ASSUME BeginPass \/ FailPass \/ ExpireMoveOn \/ ExpireGiveUp
               \/ (\E p \in Pk : GiveUpOne(p)) \/ DeleteExpired \/ SelectResend
               \/ SelectTransition \/ SelectEnding \/ SelectStart \/ EndPass
        PROVE  sent' = sent
    BY <2>5 DEF BeginPass, FailPass, ExpireMoveOn, ExpireGiveUp, GiveUpOne, DeleteExpired,
                SelectResend, SelectTransition, SelectEnding, SelectStart, EndPass, table
  <2>6. ASSUME Cron PROVE Reached
    BY <2>1, <2>2, <2>3, <2>4, <2>5, <2>6 DEF Cron, Pass
  <2>7. ASSUME NEW p \in Pk, RepeatError(p) \/ \E bad \in BOOLEAN : ReadProgress(p, bad)
        PROVE  sent' = sent
    BY <2>7 DEF RepeatError, ReadProgress, Read, cron, table
  <2>8. ASSUME NEW w \in inflight, Handler(w) PROVE sent' = sent
    BY <2>8 DEF Handler, LogResponse, SaveProgress, LoseAnswer, cron, table
  <2>9. ASSUME NEW c \in Conn, ReadQuit(c) \/ Join(c) \/ ReadSchedule(c) PROVE sent' = sent
    BY <2>9 DEF ReadQuit, Join, ReadSchedule, cron, table
  <2>10. ASSUME NEW r \in requests, Server(r) PROVE sent' = sent
    BY <2>10 DEF Server, Quit, schedule_at
  <2>11. ASSUME Tick PROVE sent' = sent
    BY <2>11 DEF Tick
  <2>. QED BY <2>6, <2>7, <2>8, <2>9, <2>10, <2>11 DEF Next
<1>. QED BY <1>1, PTL DEF Spec, TextsReachLiveRuns

-----------------------------------------------------------------------------
(***************************************************************************)
(* AnsweredStaysAnswered.  What the pass commits later was written before, *)
(* from rows that were read before that: the invariant Firm says of what   *)
(* the pass sees that an answered question is still answered there, or     *)
(* left for a later one.  Workers write between, but not rows it holds.    *)
(***************************************************************************)

\* From version t of the table to version u nothing answered is reopened.
Firmly(t, u) ==
  \A p \in Pk : t[p].status = "C" /\ u[p].status # "gone" =>
    u[p].step > t[p].step \/ (u[p].step = t[p].step /\ u[p].status = "C")

Firm == Firmly(db, View)

\* A version in which a row has moved on, or is where it was and as complete
\* as it was, or has a new key.
Firmer(new) ==
  \A p \in Pk : new[p].status # "gone" =>
    \/ /\ Exists(p)
       /\ \/ new[p].step > View[p].step
          \/ new[p].step = View[p].step /\ (View[p].status = "C" => new[p].status = "C")
    \/ p[2] > runs[p[1]]

LEMMA FirmerIsFirm ==
  ASSUME TableOK, KeysGiven, Firm, NEW new \in [Pk -> Row], Firmer(new)
  PROVE  Firmly(db, new)
<1>. SUFFICES ASSUME NEW p \in Pk, db[p].status = "C", new[p].status # "gone"
              PROVE  \/ new[p].step > db[p].step
                     \/ new[p].step = db[p].step /\ new[p].status = "C"
  BY DEF Firmly
<1>1. \A row \in Row : row.step \in Int
  BY ConstantsAssumption DEF Row, ConstantsAssumption
<1>2. db[p].step \in Int /\ View[p].step \in Int /\ new[p].step \in Int
  BY <1>1, ViewType DEF TableOK
<1>3. ~(p[2] > runs[p[1]])
  <2>1. p[2] \in Int /\ runs[p[1]] \in Int
    BY KeyParts, ConstantsAssumption DEF TableOK, ConstantsAssumption
  <2>. QED BY <2>1 DEF KeysGiven
<1>. QED BY <1>2, <1>3 DEF Firmer, Firm, Firmly, Exists

\* A write leaves the committed table alone, a text commits the new version.
LEMMA FirmStep ==
  ASSUME TableOK, KeysGiven, Firm,
         NEW S \in SUBSET Pk, NEW new \in [Pk -> Row], NEW sessions, NEW F,
         Firmer(new),
         Write(S, new, sessions, F) \/ mass_text(new, S, sessions, F)
  PROVE  Firm' /\ Firmly(db, db')
<1>1. Firmly(db, new)
  BY FirmerIsFirm
<1>2. CASE Write(S, new, sessions, F)
  <2>1. db' = db /\ \A p \in Pk : View'[p] = new[p] \/ View'[p] = View[p]
    BY <1>2, WriteView DEF Write
  <2>. QED BY <1>1, <2>1 DEF Firm, Firmly
<1>3. CASE \E T : Commit(new, sessions, T)
  <2>1. db' = new /\ View' = [p \in Pk |-> new[p]]
    BY <1>3 DEF Commit, View
  <2>. QED BY <1>1, <2>1 DEF Firm, Firmly
<1>. QED BY <1>2, <1>3 DEF mass_text

\* The versions the pass writes: rows completed, deleted, counted a try.
LEMMA FirmerVersions ==
  ASSUME TableOK
  PROVE  /\ \A S \in SUBSET Pk :
              Firmer([p \in Pk |-> IF p \in S THEN NoRow ELSE View[p]])
         /\ \A S \in SUBSET Pk : (\A p \in S : Exists(p)) =>
              /\ Firmer([p \in Pk |-> IF p \in S THEN Bump(View[p]) ELSE View[p]])
              /\ Firmer([p \in Pk |-> IF p \in S THEN [View[p] EXCEPT !.status = "C", !.age = 0]
                                      ELSE View[p]])
         /\ Firmer(View)
<1>1. \A p \in Pk : View[p] \in Row
  BY ViewType
<1>2. \A p \in Pk : Bump(View[p]).step = View[p].step /\ Bump(View[p]).status = View[p].status
  BY <1>1 DEF Bump, Row
<1>3. \A p \in Pk : /\ [View[p] EXCEPT !.status = "C", !.age = 0].step = View[p].step
                    /\ [View[p] EXCEPT !.status = "C", !.age = 0].status = "C"
  BY <1>1 DEF Row
<1>. QED BY <1>1, <1>2, <1>3 DEF Firmer, Exists, NoRow

\* A row that scheduling again adds has a key that was not given out.
LEMMA FirmerRescheduled ==
  ASSUME TableOK, NEW new \in [Pk -> Row], NEW F, Firmer(new)
  PROVE  Firmer(Rescheduled(new, F))
<1>. SUFFICES ASSUME NEW p \in Pk, Rescheduled(new, F)[p].status # "gone",
                     Rescheduled(new, F)[p] # new[p]
              PROVE  p[2] > runs[p[1]]
  BY DEF Firmer
<1>1. p[2] = runs[p[1]] + 1
  BY DEF Rescheduled, NoRow
<1>2. runs[p[1]] \in Int
  BY KeyParts, ConstantsAssumption DEF TableOK, ConstantsAssumption
<1>. QED BY <1>1, <1>2

LEMMA FirmerCounted ==
  ASSUME NEW new \in [Pk -> Row], Firmer(new)
  PROVE  Firmer(Counted(new))
<1>1. \A p \in Pk : /\ Counted(new)[p].status = new[p].status
                    /\ Counted(new)[p].step = new[p].step
  BY DEF Counted, Bump, Row
<1>. QED BY <1>1 DEF Firmer

\* moveon moves rows on, to the step above or beyond it.
LEMMA MoveOnFirm ==
  ASSUME TypeOK, KeysGiven, Firm, NEW S \in SUBSET Pk, NEW k \in Steps, MoveOn(S, k),
         \A p \in S : Exists(p) /\ View[p].step < k
  PROVE  Firm' /\ Firmly(db, db')
<1>1. PICK stepped \in [Pk -> Row], F \in SUBSET Conn, rows \in SUBSET Pk,
            sessions \in [Conn -> Int] :
           /\ mass_text(Counted(Rescheduled(stepped, F)), rows, sessions, F)
           /\ \A p \in Pk \ S : stepped[p] = View[p]
           /\ \A p \in S : stepped[p].status # "gone" => stepped[p].step >= k
  BY SteppedVersion
<1>. DEFINE new == Counted(Rescheduled(stepped, F))
<1>2. TableOK
  BY DEF TypeOK
<1>3. \A p \in Pk : View[p].step \in Int /\ stepped[p].step \in Int
  BY <1>2, ViewType, ConstantsAssumption DEF Row, ConstantsAssumption
<1>4. k \in Int
  BY ConstantsAssumption DEF Steps, ConstantsAssumption
<1>5. Firmer(stepped)
  BY <1>1, <1>3, <1>4 DEF Firmer, Exists
<1>6. new \in [Pk -> Row] /\ Firmer(new)
  BY <1>2, <1>5, RescheduledType, CountedType, FirmerRescheduled, FirmerCounted
<1>. HIDE DEF new
<1>. QED BY <1>1, <1>2, <1>6, FirmStep DEF new

\* Where the table stays, or each row the pass sees becomes the committed one.
LEMMA FirmElsewhere ==
  ASSUME Firm,
         \A p \in Pk : \/ db'[p] = db[p] /\ View'[p] = View[p]
                       \/ db'[p].status # "C"
                       \/ View'[p] = db'[p]
  PROVE  Firm'
<1>. SUFFICES ASSUME NEW p \in Pk, db'[p].status = "C", View'[p].status # "gone"
              PROVE  \/ View'[p].step > db'[p].step
                     \/ View'[p].step = db'[p].step /\ View'[p].status = "C"
  BY DEF Firm, Firmly
<1>. QED BY DEF Firm, Firmly

\* A step of the pass.
LEMMA PassFirm ==
  ASSUME TypeOK, KeysGiven, Firm, Pass
  PROVE  Firm' /\ Firmly(db, db')
<1>1. TableOK /\ at \in Steps /\ {} \in SUBSET Pk
  BY DEF TypeOK, CronOK
<1>. DEFINE Updated(S) == [p \in Pk |-> IF p \in S THEN [View[p] EXCEPT !.status = "C", !.age = 0]
                                        ELSE View[p]]
            Deleted(S) == [p \in Pk |-> IF p \in S THEN NoRow ELSE View[p]]
            Bumped(S) == [p \in Pk |-> IF p \in S THEN Bump(View[p]) ELSE View[p]]
<1>2. \A S \in SUBSET Pk : /\ Updated(S) \in [Pk -> Row]
                           /\ Deleted(S) \in [Pk -> Row]
                           /\ Bumped(S) \in [Pk -> Row]
  BY <1>1, RowTypes, ViewType
<1>3. /\ Firmer(Updated(expired(at))) /\ Firmer(Bumped(need_to_resend(at)))
      /\ \A S \in SUBSET Pk : Firmer(Deleted(S))
      /\ Firmer(View) /\ View \in [Pk -> Row]
  BY <1>1, FirmerVersions, QuerySets, RowsRead, ViewType
<1>. HIDE DEF Updated, Deleted, Bumped
<1>4. CASE ExpireMoveOn
  <2>1. Write(expired(at), Updated(expired(at)), txopen, {})
    BY <1>4 DEF ExpireMoveOn, Updated
  <2>. QED BY <1>1, <1>2, <1>3, <2>1, QuerySets, FirmStep
<1>5. ASSUME NEW p \in Pk, GiveUpOne(p) PROVE Firm' /\ Firmly(db, db')
  <2>1. PICK sessions, F : Write(Touched(F), Rescheduled(View, F), sessions, F)
    BY <1>5 DEF GiveUpOne
  <2>2. Rescheduled(View, F) \in [Pk -> Row] /\ Firmer(Rescheduled(View, F))
    BY <1>1, <1>3, RescheduledType, FirmerRescheduled
  <2>. QED BY <1>1, <2>1, <2>2, TouchedType, FirmStep
<1>6. CASE DeleteExpired
  <2>1. Write(expired(at), Deleted(expired(at)), txopen, {})
    BY <1>6 DEF DeleteExpired, Deleted
  <2>. QED BY <1>1, <1>2, <1>3, <2>1, QuerySets, FirmStep
<1>7. CASE Resend
  <2>1. mass_text(Bumped(need_to_resend(at)), need_to_resend(at), txopen, {})
    BY <1>7 DEF Resend, Bumped
  <2>. QED BY <1>1, <1>2, <1>3, <2>1, QuerySets, FirmStep
<1>8. CASE DeleteEnded
  <2>. DEFINE S == need_to_transition(at)
              rows == S \cup {p \in list : Exists(p)}
  <2>1. mass_text(Counted(Deleted(S)), rows, txopen, {})
    BY <1>8 DEF DeleteEnded, Deleted
  <2>2. rows \in SUBSET Pk
    BY QuerySets DEF TypeOK, CronOK
  <2>3. Counted(Deleted(S)) \in [Pk -> Row] /\ Firmer(Counted(Deleted(S)))
    BY <1>2, <1>3, QuerySets, CountedType, FirmerCounted
  <2>. HIDE DEF S, rows
  <2>. QED BY <1>1, <2>1, <2>2, <2>3, FirmStep
<1>9. ASSUME db' = db, View' = View PROVE Firm' /\ Firmly(db, db')
  BY <1>9 DEF Firm, Firmly
<1>10. CASE ExpireGiveUp \/ SelectResend \/ SelectTransition \/ SelectEnding \/ SelectStart
  <2>1. UNCHANGED <<db, tx, held>>
    BY <1>10 DEF ExpireGiveUp, SelectResend, SelectTransition, SelectEnding, SelectStart, table
  <2>. QED BY <1>9, <2>1 DEF View
<1>11. CASE Transition
  <2>. DEFINE S == need_to_transition(at)
  <2>1. CASE S = {}
    <3>1. UNCHANGED <<db, tx, held>>
      BY <1>11, <2>1 DEF Transition, table
    <3>. QED BY <1>9, <3>1 DEF View
  <2>2. CASE S # {}
    <3>1. at # Last
      BY <1>11 DEF Transition, TypeOK, CronOK
    <3>2. at + 1 \in Steps /\ at \in Int
      BY <1>1, <3>1, StepParts DEF Steps
    <3>3. MoveOn(S, at + 1)
      BY <1>11, <2>2 DEF Transition
    <3>4. \A p \in S : Exists(p) /\ View[p].step < at + 1
      BY <3>2, RowsRead
    <3>5. S \in SUBSET Pk
      BY QuerySets
    <3>. HIDE DEF S
    <3>. QED BY <3>2, <3>3, <3>4, <3>5, MoveOnFirm
  <2>. QED BY <2>1, <2>2
<1>12. CASE StartRuns
  <2>1. MoveOn(need_to_start, 0) /\ 0 \in Steps /\ need_to_start \in SUBSET Pk
    BY <1>12, StepParts, QuerySets DEF StartRuns
  <2>2. \A p \in need_to_start : Exists(p) /\ View[p].step < 0
    BY RowsRead
  <2>. QED BY <2>1, <2>2, MoveOnFirm
<1>13. CASE EndPass
  <2>1. Firmly(db, View)
    BY DEF Firm
  <2>2. db' = View /\ held' = {}
    BY <1>13 DEF EndPass, Commit
  <2>3. \A p \in Pk : View'[p] = db'[p]
    BY <2>2 DEF View
  <2>. QED BY <2>1, <2>2, <2>3, FirmElsewhere
<1>. QED
  BY <1>4, <1>5, <1>6, <1>7, <1>8, <1>10, <1>11, <1>12, <1>13 DEF Pass

\* The question of p is reopened by a wrong answer.
Reopened(p) ==
  db[p].status = "C" /\ db'[p].step = db[p].step /\ db'[p].status \notin {"C", "gone"}
  => \E w \in inflight : w.pk = p /\ w.bad

LEMMA FirmIsNotReopened ==
  ASSUME TableOK, Firmly(db, db')
  PROVE  \A p \in Pk : Reopened(p)
<1>1. \A p \in Pk : db[p].step \in Int
  BY ConstantsAssumption DEF TableOK, Row, ConstantsAssumption
<1>. QED BY <1>1 DEF Firmly, Reopened

\* Saving an answer writes a complete row, unless the answer is wrong.
LEMMA SaveFirm ==
  ASSUME TypeOK, Firm, NEW w \in inflight, SaveProgress(w)
  PROVE  Firm' /\ \A p \in Pk : Reopened(p)
<1>1. w \in Answer /\ w.pk \in Pk /\ db \in [Pk -> Row]
  BY SavedType DEF TypeOK, TableOK, WorkersOK
<1>2. CASE db' = db
  <2>1. View' = View
    BY <1>2 DEF SaveProgress, View
  <2>. QED BY <1>2, <2>1, FirmElsewhere DEF Reopened
<1>3. CASE w.pk \notin held /\ db' = [db EXCEPT ![w.pk] = Saved(w)]
  <2>1. \A p \in Pk : p # w.pk => db'[p] = db[p]
    BY <1>1, <1>3
  <2>2. db'[w.pk] = Saved(w)
    BY <1>1, <1>3
  <2>3. tx' = tx /\ held' = held
    BY DEF SaveProgress
  <2>4. Firm'
    <3>1. \A p \in Pk : \/ db'[p] = db[p] /\ View'[p] = View[p]
                        \/ View'[p] = db'[p]
      BY <1>3, <2>1, <2>3 DEF View
    <3>. QED BY <3>1, FirmElsewhere
  <2>5. ~w.bad => Saved(w).status = "C"
    BY <1>1 DEF Saved, Answer, Row
  <2>6. \A p \in Pk : Reopened(p)
    BY <2>1, <2>2, <2>5 DEF Reopened
  <2>. QED BY <2>4, <2>6
<1>. QED BY <1>2, <1>3 DEF SaveProgress

\* Requests write rows that have not started, or none; what they delete and
\* what they create is not held.
LEMMA RequestsFirm ==
  ASSUME TypeOK, KeysGiven, Firm,
         (\E c \in Conn : Join(c)) \/ \E r \in requests : Server(r)
  PROVE  Firm' /\ \A p \in Pk : Reopened(p)
<1>1. tx' = tx /\ held' = held
  BY DEF Join, Server, Quit, schedule_at
<1>2. \A p \in Pk : db'[p] = db[p] \/ db'[p].status = "gone"
                    \/ (db'[p].status = "new" /\ db'[p].step = -1 /\ db[p].status = "gone")
  <2>1. ASSUME NEW c \in Conn, db[<<c, runs[c] + 1>>].status # "gone", <<c, runs[c] + 1>> \in Pk
        PROVE  FALSE
    <3>. DEFINE p == <<c, runs[c] + 1>>
    <3>1. p[1] = c /\ p[2] = runs[c] + 1 /\ runs[c] \in Int
      BY ConstantsAssumption DEF TypeOK, TableOK, ConstantsAssumption
    <3>2. p[2] <= runs[p[1]]
      <4>. HIDE DEF p
      <4>. QED BY <2>1 DEF KeysGiven, p
    <3>. QED BY <3>1, <3>2
  <2>2. \A age : Fresh(age).status = "new" /\ Fresh(age).step = -1
    BY DEF Fresh
  <2>3. NoRow.status = "gone"
    BY DEF NoRow
  <2>4. ASSUME NEW c \in Conn, Join(c)
        PROVE  \A p \in Pk : db'[p] = db[p] \/ (p = <<c, runs[c] + 1>> /\ db'[p] = Fresh(0))
    BY <2>4 DEF Join, Create, TypeOK, TableOK
  <2>5. ASSUME NEW r \in requests, NEW age, schedule_at(r, age)
        PROVE  \A p \in Pk : db'[p] = db[p] \/ db'[p] = NoRow
                             \/ (p = <<r.conn, runs[r.conn] + 1>> /\ db'[p] = Fresh(age))
    BY <2>5 DEF schedule_at
  <2>6. ASSUME NEW r \in requests, Quit(r)
        PROVE  \A p \in Pk : db'[p] = db[p] \/ db'[p] = NoRow
    BY <2>6 DEF Quit
  <2>7. \A r \in requests : r.conn \in Conn
    BY DEF TypeOK, WorkersOK, Request
  <2>. QED BY <2>1, <2>2, <2>3, <2>4, <2>5, <2>6, <2>7 DEF Server
<1>3. \A p \in Pk : db'[p] = db[p] => View'[p] = View[p]
  BY <1>1 DEF View
<1>4. Firm'
  BY <1>2, <1>3, FirmElsewhere
<1>5. \A p \in Pk : Reopened(p)
  BY <1>2 DEF Reopened
<1>. QED BY <1>4, <1>5

\* Every step.
LEMMA NextFirm ==
  TypeOK /\ KeysGiven /\ Firm /\ [Next]_vars => Firm' /\ \A p \in Pk : Reopened(p)
<1>. SUFFICES ASSUME TypeOK, KeysGiven, Firm, [Next]_vars
              PROVE  Firm' /\ \A p \in Pk : Reopened(p)
  OBVIOUS
<1>1. TableOK
  BY DEF TypeOK
<1>2. ASSUME UNCHANGED <<db, tx, held>> PROVE Firm' /\ \A p \in Pk : Reopened(p)
  <2>1. View' = View
    BY <1>2 DEF View
  <2>. QED BY <1>2, <2>1, FirmElsewhere DEF Reopened
<1>3. CASE Cron
  <2>1. CASE BeginPass
    BY <1>2, <2>1 DEF BeginPass, table
  <2>2. CASE Pass
    BY <1>1, <2>2, PassFirm, FirmIsNotReopened
  <2>3. CASE FailPass
    <3>1. db' = db /\ held' = {}
      BY <2>3 DEF FailPass
    <3>2. \A p \in Pk : View'[p] = db'[p]
      BY <3>1 DEF View
    <3>. QED BY <3>1, <3>2, FirmElsewhere DEF Reopened
  <2>. QED BY <1>3, <2>1, <2>2, <2>3 DEF Cron
<1>4. ASSUME NEW w \in inflight, Handler(w) PROVE Firm' /\ \A p \in Pk : Reopened(p)
  <2>1. CASE LogResponse(w) \/ LoseAnswer(w)
    BY <1>2, <2>1 DEF LogResponse, LoseAnswer, cron, table
  <2>. QED BY <1>4, <2>1, SaveFirm DEF Handler
<1>5. CASE Tick
  <2>1. held = {} /\ held' = {}
    BY <1>5 DEF Tick, TypeOK, CronOK
  <2>2. \A p \in Pk : View'[p] = db'[p]
    BY <1>5, <2>1 DEF View, Tick
  <2>3. \A p \in Pk : db'[p].status = db[p].status
    <3>1. \A p \in Pk : db'[p] = Older(db[p]) /\ db[p] \in Row
      BY <1>5 DEF Tick, TypeOK, TableOK
    <3>2. \A row \in Row : Older(row).status = row.status
      BY DEF Older, Row
    <3>. QED BY <3>1, <3>2
  <2>4. Firm'
    BY <2>2, FirmElsewhere
  <2>. QED BY <2>3, <2>4 DEF Reopened
<1>6. ASSUME NEW p \in Pk, RepeatError(p) \/ \E bad \in BOOLEAN : ReadProgress(p, bad)
      PROVE  UNCHANGED <<db, tx, held>>
  BY <1>6 DEF RepeatError, ReadProgress, Read, cron, table
<1>7. ASSUME NEW c \in Conn, ReadQuit(c) \/ ReadSchedule(c)
      PROVE  UNCHANGED <<db, tx, held>>
  BY <1>7 DEF ReadQuit, ReadSchedule, cron, table
<1>8. CASE UNCHANGED vars
  BY <1>2, <1>8 DEF vars, cron, table
<1>. QED BY <1>2, <1>3, <1>4, <1>5, <1>6, <1>7, <1>8, RequestsFirm DEF Next

\* Whatever the pass has read or written before an answer is saved, commits
\* after it or rolls back, nothing reopens the question but a wrong answer,
\* saved from a copy of the row that was read earlier.
THEOREM AnswersStay == Spec => AnsweredStaysAnswered
<1>1. Init => TypeOK /\ KeysGiven /\ Ahead /\ Firm
  <2>1. ASSUME Init PROVE Firm
    <3>1. \A p \in Pk : View[p] = db[p]
      BY <2>1 DEF Init, View
    <3>. QED BY <3>1 DEF Firm, Firmly
  <2>. QED BY <2>1, InitTypeOK, InitAhead
<1>2. TypeOK /\ KeysGiven /\ Ahead /\ Firm /\ [Next]_vars => (TypeOK /\ KeysGiven /\ Ahead /\ Firm)'
  BY NextTypeOK, NextAhead, NextFirm
<1>3. TypeOK /\ KeysGiven /\ Firm /\ [Next]_vars => \A p \in Pk : Reopened(p)
  BY NextFirm
<1>4. (\A p \in Pk : Reopened(p)) =>
        [\A p \in Pk :
           db[p].status = "C" /\ db'[p].step = db[p].step /\ db'[p].status \notin {"C", "gone"}
           => \E w \in inflight : w.pk = p /\ w.bad]_vars
  BY DEF Reopened
<1>. QED BY <1>1, <1>2, <1>3, <1>4, PTL DEF Spec, AnsweredStaysAnswered
=============================================================================
