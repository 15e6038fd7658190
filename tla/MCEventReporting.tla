-------------------------- MODULE MCEventReporting --------------------------
(* EventReporting on a small instance: the sentinels report one failover.  *)
EXTENDS EventReporting

CONSTANT Sentinels

MCEvents ==
    {[type |-> "failover", group |-> "g", master |-> "m", from |-> "a",
      to |-> "b", sentinel |-> s] : s \in Sentinels}

MCPolicies == {[act |-> TRUE, quorumMode |-> TRUE, threshold |-> 2]}
=============================================================================
