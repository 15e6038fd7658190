-------------------------- MODULE MCEventProcessor --------------------------
(* EventProcessor on a small instance: three reports of one failover, with *)
(* every disturbance.  Keys share no state of the store.                   *)
EXTENDS EventProcessor, TLC

MCEvents ==
    {[type |-> "failover", group |-> "g", master |-> "m", from |-> "a",
      to |-> "b", sentinel |-> "s1"]}

MCPolicies ==
    {[act |-> TRUE, quorumMode |-> TRUE, threshold |-> 2],
     [act |-> TRUE, quorumMode |-> FALSE, threshold |-> 2]}

HandlerSymmetry == Permutations(Handlers)
=============================================================================
