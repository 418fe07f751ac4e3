------------------------------ MODULE MCMetrics ------------------------------
(* An instance of Metrics for TLC. *)
EXTENDS Metrics, TLC

\* Thread t may create two collectors, and u a third.
TwoAndOne == [tid \in Tid |-> IF tid = "t" THEN 2 ELSE 3]
==============================================================================
