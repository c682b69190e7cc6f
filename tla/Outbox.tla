------------------------------- MODULE Outbox -------------------------------
(***************************************************************************)
(* What the outgoing queue promises of its messages, whatever batches and  *)
(* backends there are: a message is marked sent only once the gateway has  *)
(* taken it, is handed over again only after a failure, never when it was  *)
(* cancelled, and what is marked stays so.  Requests come one at a time:   *)
(* a failure puts the messages of one of them in doubt.                    *)
(***************************************************************************)
EXTENDS Integers

CONSTANTS
  Msg,
  Requests   \* the sets of messages that one request may hand over

VARIABLES
  waiting,   \* in the queue
  taken,     \* taken by the gateway, not marked yet
  sent,
  cancelled,
  copies,    \* how often the gateway has taken a message
  failures

vars == <<waiting, taken, sent, cancelled, copies, failures>>

Init ==
  /\ waiting = {} /\ taken = {} /\ sent = {} /\ cancelled = {}
  /\ copies = [m \in Msg |-> 0]
  /\ failures = 0

HandOver(S) == copies' = [m \in Msg |-> IF m \in S THEN copies[m] + 1 ELSE copies[m]]

Submit(S) ==
  /\ S \cap (waiting \cup taken \cup sent \cup cancelled) = {}
  /\ waiting' = waiting \cup S
  /\ UNCHANGED <<taken, sent, cancelled, copies, failures>>

Cancel(S) ==
  /\ S \subseteq waiting /\ \A m \in S : copies[m] = 0
  /\ waiting' = waiting \ S /\ cancelled' = cancelled \cup S
  /\ UNCHANGED <<taken, sent, copies, failures>>

Request(S) == S \in Requests /\ S \subseteq waiting /\ taken = {}

Deliver(S) ==
  /\ Request(S)
  /\ waiting' = waiting \ S /\ taken' = S
  /\ HandOver(S)
  /\ UNCHANGED <<sent, cancelled, failures>>

\* The gateway takes the messages, and the queue does not learn of it.
LoseAnswer(S) ==
  /\ Request(S)
  /\ HandOver(S) /\ failures' = failures + 1
  /\ UNCHANGED <<waiting, taken, sent, cancelled>>

\* What was taken is marked.
Confirm ==
  /\ sent' = sent \cup taken /\ taken' = {}
  /\ UNCHANGED <<waiting, cancelled, copies, failures>>

\* What was taken is forgotten, and will be handed over again.
Forget ==
  /\ waiting' = waiting \cup taken /\ taken' = {}
  /\ failures' = failures + 1
  /\ UNCHANGED <<sent, cancelled, copies>>

Next ==
  \/ \E S \in SUBSET Msg : Submit(S) \/ Cancel(S) \/ Deliver(S) \/ LoseAnswer(S)
  \/ Confirm \/ Forget

Spec == Init /\ [][Next]_vars
=============================================================================
