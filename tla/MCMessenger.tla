---------------------------- MODULE MCMessenger ----------------------------
(***************************************************************************)
(* A text to three connections on two backends, another batch, and a reply *)
(* in no batch, or one more in the second.                                 *)
(***************************************************************************)
EXTENDS Messenger

CONSTANTS c1, c2, c3, b1, b2, m1, m2, m3, m4, m5

Batches     == [m \in Msg |-> IF m \in {m1, m2, m3} THEN b1 ELSE IF m = m4 THEN b2 ELSE NoBatch]
TwoReplies  == [Batches EXCEPT ![m5] = b2]
Connections == [m \in Msg |-> IF m \in {m1, m4} THEN c1 ELSE IF m \in {m2, m5} THEN c2 ELSE c3]
Vias        == [m \in Msg |-> IF Connections[m] = c3 THEN "y" ELSE "x"]
=============================================================================
