------------------------------- MODULE MCPubSub -------------------------------
(* Instances of PubSub for TLC. *)
EXTENDS PubSub, TLC

CONSTANTS t1, t2, s1, s2

OneOwner == [s \in Subscriber |-> t1]
TwoOwners == [s \in Subscriber |-> IF s = s1 THEN t1 ELSE t2]
==============================================================================
