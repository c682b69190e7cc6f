----------------------------- MODULE Messenger -----------------------------
(***************************************************************************)
(* The outgoing queue of rapidsms_httprouter: how messages get into the    *)
(* table rapidsms_httprouter_message (mass_text with the unregister app's  *)
(* receiver, replies, poll responses), and the command send_messages that  *)
(* takes them from there to the SMS gateway, one chunk of one batch at a   *)
(* time.                                                                   *)
(*                                                                         *)
(* mass_text runs in one transaction, so its batch and its messages are    *)
(* seen together, once they are committed; but each of its statements      *)
(* reads the blacklist as committed by then.  The messenger's transactions *)
(* are not managed: each update and save of its commits by itself, so all  *)
(* that is in doubt at any time are the messages of one request, between   *)
(* the gateway's answer and the update that marks them.                    *)
(***************************************************************************)
EXTENDS Integers, FiniteSets

CONSTANTS
  Conn,      \* connections
  Letters,   \* connections whose identity has a letter
  Batch,     \* batches
  Replies,   \* the batches that hold the responses of a poll
  Msg,       \* messages
  NoBatch,
  BatchOf,   \* a message's batch, connection, and the backend of the connection
  To,
  Via,
  Chunk,     \* MESSAGE_CHUNK_SIZE
  Rejoining, \* connections that may join again in this instance
  MaxQuits,  \* bound: quits and joins
  MaxRefused,\* bound: chunks the gateway refuses
  MaxFails   \* bound: answers lost, and rounds ended by an exception

Texts(b) == {m \in Msg : BatchOf[m] = b}
Backends == {Via[m] : m \in Msg}

ASSUME QueueAssumption ==
  /\ Letters \subseteq Conn /\ Rejoining \subseteq Conn
  /\ Replies \subseteq Batch /\ NoBatch \notin Batch
  /\ BatchOf \in [Msg -> Batch \cup {NoBatch}] /\ To \in [Msg -> Conn]
  /\ Chunk \in Nat \ {0} /\ IsFiniteSet(Msg)
  /\ MaxQuits \in Nat /\ MaxRefused \in Nat /\ MaxFails \in Nat

VARIABLES
  status,    \* of a message: P processing, Q queued, S sent, C cancelled
  batch,     \* of a batch: none before its first message, where mass_text is
             \* with it, then Q or S
  blacklist,
  accepted,  \* how often the gateway has accepted a message
  pc,        \* where the messenger is
  current,   \* the batch it has read
  todo,      \* messages of its chunk that are still to send
  sending,   \* messages the gateway has just answered for
  quits, refused, fails

texting == <<status, batch, blacklist, quits>>
sender  == <<pc, current, todo, sending, accepted, refused, fails>>
vars    == <<texting, sender>>

-----------------------------------------------------------------------------
(***************************************************************************)
(* Into the queue.                                                         *)
(***************************************************************************)

\* mass_text creates the batch and inserts its messages, in processing for a
\* script's text and queued for a poll's question, which bulk_process skips.
mass_text(b, s) ==
  /\ b \notin Replies /\ batch[b] = "none"
  /\ Texts(b) # {} /\ \A m \in Texts(b) : status[m] = "none"
  /\ status' = [m \in Msg |-> IF m \in Texts(b) THEN s ELSE status[m]]
  /\ batch' = [batch EXCEPT ![b] = IF s = "P" THEN "inserted" ELSE "Q"]
  /\ UNCHANGED <<blacklist, quits, sender>>

\* bulk_process, first statement: those that are not blacklisted are queued.
bulk_queue(b) ==
  /\ batch[b] = "inserted"
  /\ status' = [m \in Msg |-> IF m \in Texts(b) /\ status[m] = "P" /\ To[m] \notin blacklist
                              THEN "Q" ELSE status[m]]
  /\ batch' = [batch EXCEPT ![b] = "updated"]
  /\ UNCHANGED <<blacklist, quits, sender>>

\* Bug: the second statement is left out.
BugBulkCancel(b) ==
  /\ batch[b] = "updated"
  /\ batch' = [batch EXCEPT ![b] = "Q"]
  /\ UNCHANGED <<status, blacklist, quits, sender>>

\* Second statement, those that are; and mass_text commits.
bulk_cancel(b) ==
  /\ batch[b] = "updated"
  /\ status' = [m \in Msg |-> IF m \in Texts(b) /\ status[m] = "P" /\ To[m] \in blacklist
                              THEN "C" ELSE status[m]]
  /\ batch' = [batch EXCEPT ![b] = "Q"]
  /\ UNCHANGED <<blacklist, quits, sender>>

\* A reply to an incoming message; no app cancels it.
add_outgoing(m) ==
  /\ BatchOf[m] = NoBatch /\ status[m] = "none"
  /\ status' = [status EXCEPT ![m] = "Q"]
  /\ UNCHANGED <<batch, blacklist, quits, sender>>

\* A poll's response joins the poll's batch, which is queued again.
respond_to_message(m) ==
  /\ BatchOf[m] \in Replies /\ status[m] = "none"
  /\ status' = [status EXCEPT ![m] = "Q"]
  /\ batch' = [batch EXCEPT ![BatchOf[m]] = "Q"]
  /\ UNCHANGED <<blacklist, quits, sender>>

Quit(c) ==
  /\ c \notin blacklist /\ quits < MaxQuits
  /\ blacklist' = blacklist \cup {c}
  /\ quits' = quits + 1
  /\ UNCHANGED <<status, batch, sender>>

Join(c) ==
  /\ c \in blacklist \cap Rejoining /\ quits < MaxQuits
  /\ blacklist' = blacklist \ {c}
  /\ quits' = quits + 1
  /\ UNCHANGED <<status, batch, sender>>

-----------------------------------------------------------------------------
(***************************************************************************)
(* The messenger: one round of process_messages_for_db.                    *)
(***************************************************************************)

Queued(b) == {m \in Texts(b) : status[m] = "Q"}

\* Bug: a message in processing is sent as well.
BugChunks(b) ==
  LET S == {m \in Texts(b) : status[m] \in {"P", "Q"}} IN
  {T \in SUBSET S : Cardinality(T) = Chunk \/ (T = S /\ Cardinality(S) < Chunk)}

\* The chunks of a batch: Chunk of its queued messages, or all there are.
Chunks(b) ==
  LET S == Queued(b) IN
  {T \in SUBSET S : Cardinality(T) = Chunk \/ (T = S /\ Cardinality(S) < Chunk)}

\* Any queued batch may come first: they are not ordered.
PickBatch(b) ==
  /\ pc = "idle" /\ batch[b] = "Q"
  /\ current' = b
  /\ IF Queued(b) = {} THEN pc' = "count" /\ todo' = {}
                       ELSE pc' = "send" /\ todo' \in Chunks(b)
  /\ UNCHANGED <<texting, sending, accepted, refused, fails>>

\* Bug: what is not queued is taken for sent.
BugCount ==
  /\ pc = "count"
  /\ pc' = IF \A m \in Texts(current) : status[m] # "Q" THEN "close" ELSE "individual"
  /\ UNCHANGED <<texting, current, todo, sending, accepted, refused, fails>>

\* Is every message of the batch sent or cancelled?
Count ==
  /\ pc = "count"
  /\ pc' = IF \A m \in Texts(current) : status[m] \in {"none", "S", "C"}
           THEN "close" ELSE "individual"
  /\ UNCHANGED <<texting, current, todo, sending, accepted, refused, fails>>

CloseBatch ==
  /\ pc = "close"
  /\ batch' = [batch EXCEPT ![current] = "S"]
  /\ pc' = "idle"
  /\ UNCHANGED <<status, blacklist, quits, current, todo, sending, accepted,
                 refused, fails>>

NoBatchQueued ==
  /\ pc = "idle" /\ \A b \in Batch : batch[b] # "Q"
  /\ pc' = "individual"
  /\ UNCHANGED <<texting, current, todo, sending, accepted, refused, fails>>

\* One of the queued messages without a batch.
send_individual ==
  /\ pc = "individual"
  /\ IF Queued(NoBatch) = {} THEN pc' = "idle" /\ todo' = {}
                             ELSE pc' = "send" /\ \E m \in Queued(NoBatch) : todo' = {m}
  /\ UNCHANGED <<texting, current, sending, accepted, refused, fails>>

\* The messages of a chunk to one backend are fetched in one request, those to
\* an identity with a letter left out; without any the chunk is left as it is.
Fetch(via) ==
  LET part == {m \in todo : Via[m] = via}
      msgs == {m \in part : To[m] \notin Letters}
      taken == [m \in Msg |-> IF m \in msgs THEN accepted[m] + 1 ELSE accepted[m]]
  IN /\ pc = "send" /\ part # {}
     /\ todo' = todo \ part
     /\ \/ /\ msgs = {}
           /\ UNCHANGED <<pc, sending, accepted, refused, fails>>
        \/ /\ msgs # {}
           /\ accepted' = taken
           /\ sending' = msgs /\ pc' = "update"
           /\ UNCHANGED <<refused, fails>>
        \/ /\ msgs # {} /\ refused < MaxRefused
           /\ refused' = refused + 1
           /\ UNCHANGED <<pc, sending, accepted, fails>>
        \/ /\ msgs # {} /\ fails < MaxFails       \* the answer is lost
           /\ accepted' = taken /\ fails' = fails + 1
           /\ UNCHANGED <<pc, sending, refused>>
     /\ UNCHANGED <<texting, current>>

\* Bug: the rest of the chunk is marked with them.
BugUpdate ==
  /\ pc = "update"
  /\ status' = [m \in Msg |-> IF m \in sending \cup todo THEN "S" ELSE status[m]]
  /\ sending' = {} /\ pc' = "send"
  /\ UNCHANGED <<batch, blacklist, quits, current, todo, accepted, refused, fails>>

\* Bug: they are put back as after a refusal.
BugRequeue ==
  /\ pc = "update"
  /\ sending' = {} /\ pc' = "send"
  /\ UNCHANGED <<texting, current, todo, accepted, refused, fails>>

\* Accepted messages are marked sent, for all to see, before the next request.
Update ==
  /\ pc = "update"
  /\ status' = [m \in Msg |-> IF m \in sending THEN "S" ELSE status[m]]
  /\ sending' = {} /\ pc' = "send"
  /\ UNCHANGED <<batch, blacklist, quits, current, todo, accepted, refused, fails>>

\* The chunk is through: the commit has nothing left to commit.
EndRound ==
  /\ pc = "send" /\ todo = {}
  /\ pc' = "idle"
  /\ UNCHANGED <<texting, current, todo, sending, accepted, refused, fails>>

\* An exception, or a restart: the rest of the chunk is dropped, and accepted
\* messages that are not marked yet stay queued.
Abort ==
  /\ pc # "idle" /\ fails < MaxFails
  /\ fails' = fails + 1
  /\ todo' = {} /\ sending' = {} /\ pc' = "idle"
  /\ UNCHANGED <<texting, current, accepted, refused>>

-----------------------------------------------------------------------------
Init ==
  /\ status = [m \in Msg |-> "none"] /\ batch = [b \in Batch |-> "none"]
  /\ blacklist = {}
  /\ accepted = [m \in Msg |-> 0]
  /\ pc = "idle" /\ current \in Batch
  /\ todo = {} /\ sending = {}
  /\ quits = 0 /\ refused = 0 /\ fails = 0

MassText(b) == bulk_queue(b) \/ bulk_cancel(b)

Send ==
  \/ \E b \in Batch : PickBatch(b)
  \/ Count \/ CloseBatch \/ NoBatchQueued \/ send_individual
  \/ \E via \in Backends : Fetch(via)
  \/ Update \/ EndRound

Next ==
  \/ \E b \in Batch : (\E s \in {"P", "Q"} : mass_text(b, s)) \/ MassText(b)
  \/ \E m \in Msg : add_outgoing(m) \/ respond_to_message(m)
  \/ \E c \in Conn : Quit(c) \/ Join(c)
  \/ Send \/ Abort

Spec == Init /\ [][Next]_vars

\* The messenger loops for ever, and a mass_text begun comes to its commit.
FairSpec ==
  /\ Spec
  /\ WF_vars(Send)
  /\ \A b \in Batch : WF_vars(MassText(b))

-----------------------------------------------------------------------------
(***************************************************************************)
(* Properties.                                                             *)
(***************************************************************************)

\* Every variable stays in its domain; the messenger keeps nothing between
\* rounds, and what it works on is queued as far as anybody else can see.
TypeOK ==
  /\ status \in [Msg -> {"none", "P", "Q", "S", "C"}]
  /\ batch \in [Batch -> {"none", "inserted", "updated", "Q", "S"}]
  /\ blacklist \subseteq Conn
  /\ accepted \in [Msg -> Nat]
  /\ pc \in {"idle", "count", "close", "individual", "send", "update"}
  /\ current \in Batch
  /\ todo \subseteq Msg /\ sending \subseteq Msg
  /\ quits \in 0 .. MaxQuits /\ refused \in 0 .. MaxRefused /\ fails \in 0 .. MaxFails
  /\ pc \notin {"send", "update"} => todo \cup sending = {}
  /\ pc = "send" => sending = {}
  /\ \A m \in todo \cup sending : status[m] = "Q"

\* A message is marked sent only if the gateway has accepted it, and handed to
\* the gateway again only after a failure: an answer lost, or a round ended
\* after the gateway had a request's messages and before they were marked.
SentOncePerFailure ==
  \A m \in Msg : /\ status[m] = "S" => accepted[m] > 0
                 /\ accepted[m] <= 1 + fails

\* The gateway gets no message that was cancelled because its connection was
\* on the blacklist, or that mass_text left in processing.
OnlyQueuedIsSent ==
  \A m \in Msg : accepted[m] > 0 => status[m] \in {"Q", "S"}

\* A text's batch is closed only when all its messages are sent or cancelled,
\* although the messenger counts them before it closes the batch.
ClosedTextIsOut ==
  \A b \in Batch \ Replies : batch[b] = "S" => \A m \in Texts(b) : status[m] \in {"S", "C"}

\* What send_all may put into one request.
Requests == {S \in SUBSET Msg : /\ Cardinality(S) <= Chunk
                                /\ \A m, n \in S : Via[m] = Via[n]}

\* The queue implements the outbox.  A message waits from its insertion on, in
\* processing or queued; it is taken while the request that has it is on.
Queue == INSTANCE Outbox WITH
  Requests  <- Requests,
  waiting   <- {m \in Msg : status[m] \in {"P", "Q"}} \ sending,
  taken     <- sending,
  sent      <- {m \in Msg : status[m] = "S"},
  cancelled <- {m \in Msg : status[m] = "C"},
  copies    <- accepted,
  failures  <- fails

\* Every step of mass_text, of replies and of the messenger is a step of the
\* outbox or leaves it as it is: no message is lost, marked without having been
\* taken, or taken back; what a failure puts in doubt is one request's.
QueueIsOutbox == Queue!Spec

\* Every message gets out of the queue, sent or cancelled, through refusals,
\* lost answers and rounds cut short, whatever batches there are before it.
EveryMessageLeaves ==
  \A m \in Msg : status[m] \in {"P", "Q"} ~> status[m] \in {"S", "C"}

\* "No more messages in MessageBatch, status set to 'S'": a closed batch has no
\* queued message.
ClosedBatchIsEmpty ==
  \A b \in Batch : batch[b] = "S" => Queued(b) = {}
=============================================================================
