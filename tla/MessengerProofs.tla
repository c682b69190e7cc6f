-------------------------- MODULE MessengerProofs --------------------------
(***************************************************************************)
(* The safety of the outgoing queue, for any messages, batches, chunk size *)
(* and number of failures.                                                 *)
(***************************************************************************)
EXTENDS Messenger, FiniteSetTheorems, TLAPS

-----------------------------------------------------------------------------
(***************************************************************************)
(* The inductive invariant.                                                *)
(***************************************************************************)

\* What the messenger knows to be accepted.
Out == {m \in Msg : status[m] = "S"} \cup sending

\* A message has been accepted once for each failure, and once more if the
\* messenger knows of it.
AcceptedOK ==
  \A m \in Msg : /\ accepted[m] <= fails + 1
                 /\ m \notin Out => accepted[m] <= fails
                 /\ m \in Out => accepted[m] > 0

\* A text's batch has all its messages, and when the messenger is about to
\* close it they are out.
CountedOK ==
  /\ \A b \in Batch \ Replies : \A m \in Texts(b) : batch[b] # "none" => status[m] # "none"
  /\ pc \in {"count", "close"} => batch[current] \in {"Q", "S"}
  /\ pc = "close" /\ current \notin Replies =>
       \A m \in Texts(current) : status[m] \in {"S", "C"}

\* What is still to send is not in the request under way, and fits a chunk.
Apart == todo \cap sending = {} /\ IsFiniteSet(todo) /\ Cardinality(todo) <= Chunk

IInv == TypeOK /\ Apart /\ AcceptedOK /\ OnlyQueuedIsSent /\ CountedOK /\ ClosedTextIsOut

LEMMA InitIInv == Init => IInv
BY QueueAssumption, FS_EmptySet
   DEF Init, IInv, TypeOK, Apart, AcceptedOK, Out, OnlyQueuedIsSent, CountedOK, ClosedTextIsOut,
       QueueAssumption, Texts

-----------------------------------------------------------------------------
(***************************************************************************)
(* What gets messages into the queue leaves those that are out alone.      *)
(***************************************************************************)

\* Statuses only go forward, to P and from there to Q or C.
LEMMA Forward ==
  ASSUME IInv, UNCHANGED sender,
         status' \in [Msg -> {"none", "P", "Q", "S", "C"}],
         batch' \in [Batch -> {"none", "inserted", "updated", "Q", "S"}],
         blacklist' \subseteq Conn, quits' \in 0 .. MaxQuits,
         \A m \in Msg : \/ status'[m] = status[m]
                        \/ status[m] = "none" /\ status'[m] \in {"P", "Q"}
                        \/ status[m] = "P" /\ status'[m] \in {"Q", "C"},
         \A b \in Batch : \/ batch'[b] = batch[b]
                          \/ batch'[b] # "S" /\ batch[b] \notin {"Q", "S"}
                             /\ (batch[b] = "none" => \A m \in Texts(b) : status'[m] # "none")
                          \/ batch'[b] = "Q" /\ b \in Replies
  PROVE  IInv'
<1>1. TypeOK' /\ Apart'
  BY DEF IInv, TypeOK, Apart, sender
<1>2. Out' = Out
  BY DEF Out, sender
<1>3. AcceptedOK'
  BY <1>2 DEF IInv, AcceptedOK, sender
<1>4. OnlyQueuedIsSent'
  BY DEF IInv, TypeOK, OnlyQueuedIsSent, sender, AcceptedOK
<1>5. CountedOK'
  BY DEF IInv, TypeOK, CountedOK, sender, Texts
<1>6. ClosedTextIsOut'
  BY DEF IInv, TypeOK, ClosedTextIsOut, Texts
<1>. QED BY <1>1, <1>3, <1>4, <1>5, <1>6 DEF IInv

LEMMA QueueStep ==
  ASSUME IInv,
         \/ \E b \in Batch : (\E s \in {"P", "Q"} : mass_text(b, s)) \/ MassText(b)
         \/ \E m \in Msg : add_outgoing(m) \/ respond_to_message(m)
         \/ \E c \in Conn : Quit(c) \/ Join(c)
  PROVE  IInv'
<1>0. TypeOK
  BY DEF IInv
<1>1. ASSUME NEW b \in Batch, NEW s \in {"P", "Q"}, mass_text(b, s) PROVE IInv'
  BY <1>0, <1>1, Forward DEF mass_text, TypeOK, Texts
<1>2. ASSUME NEW b \in Batch, bulk_queue(b) PROVE IInv'
  BY <1>0, <1>2, Forward DEF bulk_queue, TypeOK, Texts
<1>3. ASSUME NEW b \in Batch, bulk_cancel(b) PROVE IInv'
  BY <1>0, <1>3, Forward DEF bulk_cancel, TypeOK, Texts
<1>4. ASSUME NEW m \in Msg, add_outgoing(m) PROVE IInv'
  BY <1>0, <1>4, Forward DEF add_outgoing, TypeOK
<1>5. ASSUME NEW m \in Msg, respond_to_message(m) PROVE IInv'
  BY <1>0, <1>5, Forward DEF respond_to_message, TypeOK
<1>6. ASSUME NEW c \in Conn, Quit(c) \/ Join(c) PROVE IInv'
  <2>1. quits' \in 0 .. MaxQuits
    BY <1>0, <1>6, QueueAssumption DEF Quit, Join, TypeOK, QueueAssumption
  <2>. QED BY <1>0, <1>6, <2>1, Forward DEF Quit, Join, TypeOK
<1>. QED BY <1>1, <1>2, <1>3, <1>4, <1>5, <1>6 DEF MassText

-----------------------------------------------------------------------------
(***************************************************************************)
(* The messenger.                                                          *)
(***************************************************************************)

\* The messenger takes up or drops messages, and changes no status.
LEMMA RoundStep ==
  ASSUME IInv,
         (\E b \in Batch : PickBatch(b)) \/ Count \/ NoBatchQueued \/ send_individual
  PROVE  IInv'
<1>1. /\ UNCHANGED <<status, batch, blacklist, quits, sending, accepted, refused, fails>>
      /\ current' \in Batch
  BY DEF PickBatch, Count, NoBatchQueued, send_individual, texting, IInv, TypeOK
<1>2. sending = {}
  BY DEF PickBatch, Count, NoBatchQueued, send_individual, IInv, TypeOK
<1>3. todo' \subseteq Msg /\ \A m \in todo' : status[m] = "Q"
  BY DEF PickBatch, Count, NoBatchQueued, send_individual, Chunks, Queued, Texts, IInv, TypeOK
<1>4. /\ pc' \in {"idle", "count", "close", "individual", "send"}
      /\ pc' # "send" => todo' = {}
  BY DEF PickBatch, Count, NoBatchQueued, send_individual, IInv, TypeOK
<1>5. TypeOK'
  BY <1>1, <1>2, <1>3, <1>4 DEF IInv, TypeOK
<1>8. Apart'
  <2>1. todo' = {} \/ todo' = todo \/ (\E b \in Batch : todo' \in Chunks(b)) \/ \E m \in Msg : todo' = {m}
    BY DEF PickBatch, Count, NoBatchQueued, send_individual, Queued, Texts
  <2>2. ASSUME NEW b \in Batch, NEW T \in Chunks(b) PROVE IsFiniteSet(T) /\ Cardinality(T) <= Chunk
    <3>1. T \subseteq Msg /\ (Cardinality(T) = Chunk \/ Cardinality(T) < Chunk)
      BY DEF Chunks, Queued, Texts
    <3>2. IsFiniteSet(T)
      BY <3>1, FS_Subset, QueueAssumption DEF QueueAssumption
    <3>3. Cardinality(T) \in Nat
      BY <3>2, FS_CardinalityType
    <3>. QED BY <3>1, <3>2, <3>3, QueueAssumption DEF QueueAssumption
  <2>3. IsFiniteSet(todo') /\ Cardinality(todo') <= Chunk
    <3>1. Chunk \in Nat /\ Chunk >= 1 /\ IsFiniteSet(todo) /\ Cardinality(todo) <= Chunk
      BY QueueAssumption DEF IInv, Apart, QueueAssumption
    <3>2. CASE todo' = {}
      <4>1. IsFiniteSet(todo') /\ Cardinality(todo') = 0
        BY <3>2, FS_EmptySet
      <4>. QED BY <3>1, <4>1
    <3>3. CASE todo' = todo
      BY <3>1, <3>3
    <3>4. CASE \E b \in Batch : todo' \in Chunks(b)
      BY <2>2, <3>4
    <3>5. ASSUME NEW m \in Msg, todo' = {m} PROVE IsFiniteSet(todo') /\ Cardinality(todo') <= Chunk
      <4>1. IsFiniteSet(todo') /\ Cardinality(todo') = 1
        BY <3>5, FS_Singleton
      <4>. QED BY <3>1, <4>1
    <3>. QED BY <2>1, <3>2, <3>3, <3>4, <3>5
  <2>. QED BY <1>1, <1>2, <2>3 DEF Apart
<1>6. AcceptedOK' /\ OnlyQueuedIsSent' /\ ClosedTextIsOut'
  BY <1>1 DEF IInv, AcceptedOK, Out, OnlyQueuedIsSent, ClosedTextIsOut, Texts
<1>7. CountedOK'
  <2>1. pc' \in {"count", "close"} => batch[current'] \in {"Q", "S"}
    BY DEF PickBatch, Count, NoBatchQueued, send_individual, IInv, CountedOK
  <2>2. ASSUME pc' = "close", current' \notin Replies, NEW m \in Texts(current')
        PROVE  status[m] \in {"S", "C"}
    <3>1. /\ pc = "count" /\ current' = current /\ current \in Batch
          /\ status[m] \in {"none", "S", "C"}
      BY <2>2 DEF PickBatch, Count, NoBatchQueued, send_individual, IInv, TypeOK
    <3>2. status[m] # "none"
      BY <2>2, <3>1 DEF IInv, CountedOK
    <3>. QED BY <3>1, <3>2
  <2>. QED BY <1>1, <2>1, <2>2 DEF IInv, CountedOK, Texts
<1>. QED BY <1>5, <1>6, <1>7, <1>8 DEF IInv

\* The messages of a part are counted as accepted unless they are refused.
LEMMA FetchStep ==
  ASSUME IInv, NEW via \in Backends, Fetch(via)
  PROVE  IInv'
<1>. DEFINE part == {m \in todo : Via[m] = via}
            msgs == {m \in part : To[m] \notin Letters}
            taken == [m \in Msg |-> IF m \in msgs THEN accepted[m] + 1 ELSE accepted[m]]
<1>1. /\ TypeOK /\ AcceptedOK /\ fails \in Nat /\ \A m \in Msg : accepted[m] \in Nat
      /\ sending = {} /\ pc = "send"
      /\ UNCHANGED <<status, batch, blacklist, quits, current>>
      /\ todo' = todo \ part
  BY QueueAssumption DEF IInv, TypeOK, Fetch, texting, QueueAssumption
<1>2. taken \in [Msg -> Nat] /\ msgs \subseteq todo /\ msgs \subseteq Msg
  BY <1>1 DEF TypeOK
<1>3. fails' \in 0 .. MaxFails /\ refused' \in 0 .. MaxRefused
  BY <1>1, QueueAssumption DEF Fetch, TypeOK, QueueAssumption
<1>4. \/ /\ accepted' = accepted /\ fails' = fails /\ sending' = {} /\ pc' = "send"
      \/ /\ accepted' = taken /\ fails' = fails /\ sending' = msgs /\ pc' = "update"
      \/ /\ accepted' = taken /\ fails' = fails + 1 /\ sending' = {} /\ pc' = "send"
  BY <1>1 DEF Fetch
<1>5. TypeOK'
  <2>1. accepted' \in [Msg -> Nat] /\ sending' \subseteq todo
    BY <1>1, <1>2, <1>4 DEF TypeOK
  <2>2. pc' \in {"send", "update"} /\ (pc' = "send" => sending' = {})
    BY <1>4
  <2>. HIDE DEF part, msgs, taken
  <2>. QED BY <1>1, <1>3, <2>1, <2>2 DEF TypeOK
<1>6. Apart'
  <2>1. /\ todo' \subseteq todo /\ IsFiniteSet(todo)
        /\ Cardinality(todo) <= Chunk /\ todo' \cap sending' = {}
    BY <1>1, <1>2, <1>4 DEF IInv, Apart
  <2>2. IsFiniteSet(todo') /\ Cardinality(todo') <= Cardinality(todo)
    BY <2>1, FS_Subset
  <2>3. Cardinality(todo) \in Nat /\ Cardinality(todo') \in Nat
    BY <2>1, <2>2, FS_CardinalityType
  <2>. QED BY <2>1, <2>2, <2>3, QueueAssumption DEF Apart, QueueAssumption
<1>7. \A m \in msgs : m \notin Out /\ accepted[m] <= fails
  <2>1. ASSUME NEW m \in msgs PROVE m \notin Out
    BY <1>1, <1>2 DEF IInv, TypeOK, Apart, Out
  <2>. QED BY <1>1, <1>2, <2>1 DEF AcceptedOK
<1>8. Out' = Out \cup sending'
  BY <1>1 DEF Out
<1>9. AcceptedOK'
  <2>1. ASSUME NEW m \in Msg
        PROVE  /\ accepted'[m] <= fails' + 1
               /\ m \notin Out' => accepted'[m] <= fails'
               /\ m \in Out' => accepted'[m] > 0
    <3>1. /\ accepted[m] \in Nat /\ accepted[m] <= fails + 1
          /\ m \notin Out => accepted[m] <= fails
          /\ m \in Out => accepted[m] > 0
          /\ taken[m] = IF m \in msgs THEN accepted[m] + 1 ELSE accepted[m]
      BY <1>1 DEF AcceptedOK
    <3>. HIDE DEF msgs, taken
    <3>. QED BY <1>1, <1>4, <1>7, <1>8, <3>1
  <2>. QED BY <2>1 DEF AcceptedOK
<1>10. OnlyQueuedIsSent'
  <2>1. ASSUME NEW m \in Msg, accepted'[m] > 0 PROVE status[m] \in {"Q", "S"}
    <3>1. CASE m \in msgs
      BY <1>1, <1>2, <3>1 DEF TypeOK
    <3>2. CASE m \notin msgs
      BY <1>1, <1>4, <2>1, <3>2 DEF IInv, OnlyQueuedIsSent
    <3>. QED BY <3>1, <3>2
  <2>. QED BY <1>1, <2>1 DEF OnlyQueuedIsSent
<1>11. CountedOK' /\ ClosedTextIsOut'
  BY <1>1, <1>4 DEF IInv, CountedOK, ClosedTextIsOut, Texts
<1>. QED BY <1>5, <1>6, <1>9, <1>10, <1>11 DEF IInv

LEMMA UpdateStep == IInv /\ Update => IInv'
<1>. SUFFICES ASSUME IInv, Update PROVE IInv'
  OBVIOUS
<1>1. TypeOK' /\ Apart'
  BY DEF IInv, TypeOK, Apart, Update
<1>2. \A m \in Msg : status'[m] = IF m \in sending THEN "S" ELSE status[m]
  BY DEF Update
<1>3. sending \subseteq Msg /\ sending' = {} /\ \A m \in sending : status[m] = "Q"
  BY DEF IInv, TypeOK, Update
<1>4. Out' = Out
  BY <1>2, <1>3 DEF Update, Out
<1>5. AcceptedOK' /\ OnlyQueuedIsSent'
  BY <1>2, <1>4 DEF IInv, AcceptedOK, OnlyQueuedIsSent, Update
<1>6. CountedOK' /\ ClosedTextIsOut'
  BY <1>2 DEF IInv, CountedOK, ClosedTextIsOut, Update, Texts
<1>. QED BY <1>1, <1>5, <1>6 DEF IInv

LEMMA EndRoundStep == IInv /\ EndRound => IInv'
<1>. SUFFICES ASSUME IInv, EndRound PROVE IInv'
  OBVIOUS
<1>1. TypeOK' /\ Apart'
  BY DEF IInv, TypeOK, Apart, EndRound, texting
<1>2. AcceptedOK' /\ OnlyQueuedIsSent'
  BY DEF IInv, AcceptedOK, Out, OnlyQueuedIsSent, EndRound, texting
<1>3. CountedOK' /\ ClosedTextIsOut'
  BY DEF IInv, CountedOK, ClosedTextIsOut, EndRound, texting, Texts
<1>. QED BY <1>1, <1>2, <1>3 DEF IInv

LEMMA CloseBatchStep == IInv /\ CloseBatch => IInv'
<1>. SUFFICES ASSUME IInv, CloseBatch PROVE IInv'
  OBVIOUS
<1>1. TypeOK' /\ Apart'
  BY DEF IInv, TypeOK, Apart, CloseBatch
<1>2. AcceptedOK' /\ OnlyQueuedIsSent'
  BY DEF IInv, AcceptedOK, Out, OnlyQueuedIsSent, CloseBatch
<1>3. batch[current] \in {"Q", "S"} /\ batch \in [Batch -> {"none", "inserted", "updated", "Q", "S"}]
  BY DEF IInv, TypeOK, CountedOK, CloseBatch
<1>4. \A b \in Batch : batch'[b] = IF b = current THEN "S" ELSE batch[b]
  BY <1>3 DEF CloseBatch
<1>5. CountedOK' /\ ClosedTextIsOut'
  BY <1>3, <1>4 DEF IInv, TypeOK, CountedOK, ClosedTextIsOut, CloseBatch, Texts
<1>. QED BY <1>1, <1>2, <1>5 DEF IInv

\* A round cut short may leave the accepted messages of one request queued:
\* one failure for each of them.
LEMMA AbortStep == IInv /\ Abort => IInv'
<1>. SUFFICES ASSUME IInv, Abort PROVE IInv'
  OBVIOUS
<1>1. TypeOK' /\ Apart'
  BY QueueAssumption, FS_EmptySet DEF IInv, TypeOK, Apart, Abort, texting, QueueAssumption
<1>2. fails \in Nat /\ fails' = fails + 1 /\ \A m \in Msg : accepted[m] \in Nat
  BY QueueAssumption DEF IInv, TypeOK, Abort, QueueAssumption
<1>3. Out' \subseteq Out
  BY DEF Abort, Out, texting
<1>4. AcceptedOK'
  BY <1>2, <1>3 DEF IInv, AcceptedOK, Abort
<1>5. OnlyQueuedIsSent' /\ CountedOK' /\ ClosedTextIsOut'
  BY DEF IInv, OnlyQueuedIsSent, CountedOK, ClosedTextIsOut, Abort, texting, Texts
<1>. QED BY <1>1, <1>4, <1>5 DEF IInv

-----------------------------------------------------------------------------
LEMMA NextIInv == IInv /\ [Next]_vars => IInv'
<1>. SUFFICES ASSUME IInv, [Next]_vars PROVE IInv'
  OBVIOUS
<1>1. CASE \/ \E b \in Batch : (\E s \in {"P", "Q"} : mass_text(b, s)) \/ MassText(b)
           \/ \E m \in Msg : add_outgoing(m) \/ respond_to_message(m)
           \/ \E c \in Conn : Quit(c) \/ Join(c)
  BY <1>1, QueueStep
<1>2. CASE Send
  BY <1>2, RoundStep, FetchStep, UpdateStep, EndRoundStep, CloseBatchStep DEF Send
<1>3. CASE Abort
  BY <1>3, AbortStep
<1>4. CASE UNCHANGED vars
  BY <1>4 DEF vars, texting, sender, IInv, TypeOK, Apart, AcceptedOK, Out, OnlyQueuedIsSent,
              CountedOK, ClosedTextIsOut, Texts
<1>. QED BY <1>1, <1>2, <1>3, <1>4 DEF Next

LEMMA Inductive == Spec => []IInv
BY InitIInv, NextIInv, PTL DEF Spec

\* Type correctness: what the messenger works on is queued, seen from outside.
THEOREM QueueTypeCorrect == Spec => []TypeOK
<1>1. IInv => TypeOK
  BY DEF IInv
<1>. QED BY <1>1, Inductive, PTL

\* A message is marked sent only after the gateway took it, and is handed over
\* at most once more than there were failures (send_backend_chunk, which marks
\* the messages of each request before the next one).
THEOREM SentOnce == Spec => []SentOncePerFailure
<1>1. IInv => SentOncePerFailure
  <2>. SUFFICES ASSUME IInv, NEW m \in Msg
                PROVE  /\ status[m] = "S" => accepted[m] > 0
                       /\ accepted[m] <= 1 + fails
    BY DEF SentOncePerFailure
  <2>1. fails \in Nat
    BY QueueAssumption DEF IInv, TypeOK, QueueAssumption
  <2>. QED BY <2>1 DEF IInv, AcceptedOK, Out
<1>. QED BY <1>1, Inductive, PTL

\* What unregister's bulk_process cancelled is never sent.
THEOREM CancelledIsNotSent == Spec => []OnlyQueuedIsSent
<1>1. IInv => OnlyQueuedIsSent
  BY DEF IInv
<1>. QED BY <1>1, Inductive, PTL

\* The messenger closes a text's batch only with nothing left in it, although
\* it counts the messages in one statement and closes the batch in another.
THEOREM ClosedIsOut == Spec => []ClosedTextIsOut
<1>1. IInv => ClosedTextIsOut
  BY DEF IInv
<1>. QED BY <1>1, Inductive, PTL
-----------------------------------------------------------------------------
(***************************************************************************)
(* The queue implements the outbox.                                        *)
(***************************************************************************)

\* The outbox as the queue sees it.
Waiting == {m \in Msg : status[m] \in {"P", "Q"}} \ sending
Taken   == sending
Sent    == {m \in Msg : status[m] = "S"}
Ended   == {m \in Msg : status[m] = "C"}

LEMMA InitOutbox == Init => Queue!Init
BY DEF Init, Queue!Init

\* A step that leaves the outbox as it is.
LEMMA Stutter ==
  ASSUME UNCHANGED <<Waiting, Taken, Sent, Ended, accepted, fails>>
  PROVE  UNCHANGED Queue!vars
BY DEF Queue!vars, Waiting, Taken, Sent, Ended

\* Insertions submit, bulk_cancel cancels what was never handed over.
LEMMA QueueOutbox ==
  ASSUME IInv,
         \/ \E b \in Batch : (\E s \in {"P", "Q"} : mass_text(b, s)) \/ MassText(b)
         \/ \E m \in Msg : add_outgoing(m) \/ respond_to_message(m)
         \/ \E c \in Conn : Quit(c) \/ Join(c)
  PROVE  [Queue!Next]_(Queue!vars)
<1>0. /\ TypeOK /\ OnlyQueuedIsSent
      /\ sending \subseteq Msg
      /\ \A m \in Taken : status[m] = "Q"
      /\ \A m \in Msg : accepted[m] \in Nat
  BY DEF IInv, TypeOK, Taken
<1>1. ASSUME NEW S \in SUBSET Msg, NEW t \in {"P", "Q"}, UNCHANGED sender,
             \A m \in S : status[m] = "none",
             status' = [m \in Msg |-> IF m \in S THEN t ELSE status[m]]
      PROVE  Queue!Next
  <2>1. Queue!Submit(S)
    BY <1>0, <1>1 DEF Queue!Submit, sender, Taken
  <2>. QED BY <2>1 DEF Queue!Next
<1>2. ASSUME NEW b \in Batch, NEW s \in {"P", "Q"}, mass_text(b, s) PROVE Queue!Next
  BY <1>1, <1>2 DEF mass_text, Texts
<1>3. ASSUME NEW b \in Batch, bulk_queue(b) PROVE UNCHANGED Queue!vars
  <2>1. \A m \in Msg : status'[m] = status[m] \/ (status[m] = "P" /\ status'[m] = "Q")
    BY <1>3 DEF bulk_queue
  <2>2. UNCHANGED <<Waiting, Taken, Sent, Ended, accepted, fails>>
    BY <1>3, <2>1 DEF bulk_queue, sender, Waiting, Taken, Sent, Ended
  <2>. QED BY <2>2, Stutter
<1>4. ASSUME NEW b \in Batch, bulk_cancel(b) PROVE Queue!Next
  <2>0. PICK S \in SUBSET Msg : S = {m \in Texts(b) : status[m] = "P" /\ To[m] \in blacklist}
    BY DEF Texts
  <2>1. \A m \in S : m \in Msg /\ status[m] = "P" /\ m \notin Taken /\ accepted[m] = 0
    BY <1>0, <2>0 DEF Texts, OnlyQueuedIsSent
  <2>2. \A m \in Msg : status'[m] = IF m \in S THEN "C" ELSE status[m]
    BY <1>4, <2>0 DEF bulk_cancel, Texts
  <2>3. UNCHANGED <<sending, accepted, fails>>
    BY <1>4 DEF bulk_cancel, sender
  <2>4. Queue!Cancel(S)
    BY <2>1, <2>2, <2>3 DEF Queue!Cancel, Taken
  <2>. QED BY <2>4 DEF Queue!Next
<1>5. ASSUME NEW m \in Msg, add_outgoing(m) \/ respond_to_message(m) PROVE Queue!Next
  <2>0. PICK S \in SUBSET Msg : S = {m}
    OBVIOUS
  <2>1. /\ UNCHANGED sender /\ \A n \in S : status[n] = "none"
        /\ status' = [n \in Msg |-> IF n \in S THEN "Q" ELSE status[n]]
    BY <1>0, <1>5, <2>0 DEF add_outgoing, respond_to_message, TypeOK
  <2>. QED BY <1>1, <2>1
<1>6. ASSUME NEW c \in Conn, Quit(c) \/ Join(c) PROVE UNCHANGED Queue!vars
  BY <1>6, Stutter DEF Quit, Join, sender, Waiting, Taken, Sent, Ended
<1>. QED BY <1>2, <1>3, <1>4, <1>5, <1>6 DEF MassText

\* A request to the gateway delivers, is refused, or loses its answer.
LEMMA FetchOutbox ==
  ASSUME IInv, NEW via \in Backends, Fetch(via)
  PROVE  [Queue!Next]_(Queue!vars)
<1>. DEFINE msgs == {m \in {n \in todo : Via[n] = via} : To[m] \notin Letters}
            copied == [m \in Msg |-> IF m \in msgs THEN accepted[m] + 1 ELSE accepted[m]]
<1>1. /\ UNCHANGED status /\ sending = {} /\ msgs \subseteq todo
      /\ \A m \in msgs : status[m] = "Q"
  BY DEF IInv, TypeOK, Apart, Fetch, texting
<1>0. PICK S \in SUBSET Msg : S = msgs
  BY DEF IInv, TypeOK
<1>2. \/ accepted' = accepted /\ fails' = fails /\ sending' = {}
      \/ accepted' = copied /\ fails' = fails /\ sending' = S
      \/ accepted' = copied /\ fails' = fails + 1 /\ sending' = {}
  BY <1>0, <1>1 DEF Fetch
<1>3. \A m \in S : status[m] = "Q"
  BY <1>0, <1>1
<1>8. S \in Requests
  <2>1. S \subseteq todo /\ IsFiniteSet(todo) /\ Cardinality(todo) <= Chunk
    BY <1>0, <1>1 DEF IInv, Apart
  <2>2. IsFiniteSet(S) /\ Cardinality(S) <= Cardinality(todo)
    BY <2>1, FS_Subset
  <2>3. Cardinality(S) \in Nat /\ Cardinality(todo) \in Nat
    BY <2>1, <2>2, FS_CardinalityType
  <2>4. Cardinality(S) <= Chunk
    BY <2>1, <2>2, <2>3, QueueAssumption DEF QueueAssumption
  <2>5. \A m, n \in S : Via[m] = Via[n]
    BY <1>0
  <2>. QED BY <2>4, <2>5 DEF Requests
<1>4. copied = [m \in Msg |-> IF m \in S THEN accepted[m] + 1 ELSE accepted[m]]
  BY <1>0
<1>9. Queue!Request(S)
  BY <1>1, <1>3, <1>8 DEF Queue!Request
<1>. HIDE DEF msgs, copied
<1>5. CASE accepted' = accepted /\ fails' = fails /\ sending' = {}
  BY <1>1, <1>5, Stutter DEF Waiting, Taken, Sent, Ended
<1>6. CASE accepted' = copied /\ fails' = fails /\ sending' = S
  <2>1. Queue!Deliver(S)
    BY <1>1, <1>3, <1>4, <1>6, <1>9 DEF Queue!Deliver, Queue!HandOver
  <2>. QED BY <2>1 DEF Queue!Next
<1>7. CASE accepted' = copied /\ fails' = fails + 1 /\ sending' = {}
  <2>1. Queue!LoseAnswer(S)
    BY <1>1, <1>3, <1>4, <1>7, <1>9 DEF Queue!LoseAnswer, Queue!HandOver
  <2>. QED BY <2>1 DEF Queue!Next
<1>. QED BY <1>2, <1>5, <1>6, <1>7

\* The rest of a round: the update confirms a request, an exception forgets it.
LEMMA RoundOutbox ==
  ASSUME IInv,
         \/ \E b \in Batch : PickBatch(b)
         \/ Count \/ CloseBatch \/ NoBatchQueued \/ send_individual \/ Update
         \/ EndRound \/ Abort
  PROVE  [Queue!Next]_(Queue!vars)
<1>1. CASE \/ \E b \in Batch : PickBatch(b)
           \/ Count \/ CloseBatch \/ NoBatchQueued \/ send_individual \/ EndRound
  BY <1>1, Stutter DEF PickBatch, Count, CloseBatch, NoBatchQueued, send_individual, EndRound,
                       texting, Waiting, Taken, Sent, Ended
<1>2. sending \subseteq Msg /\ \A m \in Taken : status[m] = "Q"
  BY DEF IInv, TypeOK, Taken
<1>3. CASE Update
  <2>1. /\ sending' = {}
        /\ \A m \in Msg : status'[m] = IF m \in sending THEN "S" ELSE status[m]
    BY <1>3 DEF Update
  <2>2. Queue!Confirm
    BY <1>2, <1>3, <2>1 DEF Update, Queue!Confirm, Taken
  <2>. QED BY <2>2 DEF Queue!Next
<1>4. CASE Abort
  <2>1. Queue!Forget
    BY <1>2, <1>4 DEF Abort, texting, Queue!Forget, Taken
  <2>. QED BY <2>1 DEF Queue!Next
<1>. QED BY <1>1, <1>3, <1>4

LEMMA NextOutbox == IInv /\ [Next]_vars => [Queue!Next]_(Queue!vars)
<1>. SUFFICES ASSUME IInv, [Next]_vars PROVE [Queue!Next]_(Queue!vars)
  OBVIOUS
<1>1. CASE UNCHANGED vars
  BY <1>1, Stutter DEF vars, texting, sender, Waiting, Taken, Sent, Ended
<1>2. CASE Next
  BY <1>2, QueueOutbox, FetchOutbox, RoundOutbox DEF Next, Send
<1>. QED BY <1>1, <1>2

\* The queue and the messenger implement the outbox, at any interleaving with
\* quits and joins: a message is handed over at least once before it is marked,
\* again only after a failure, and a failure leaves the messages of at most one
\* request, no more than a chunk, handed over and not marked.
THEOREM QueueImplementsOutbox == Spec => QueueIsOutbox
BY InitOutbox, NextOutbox, Inductive, PTL DEF Spec, QueueIsOutbox, Queue!Spec
=============================================================================
