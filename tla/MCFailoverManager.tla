-------------------------- MODULE MCFailoverManager --------------------------
(* FailoverManager on a small instance.                                    *)
EXTENDS FailoverManager, TLC

MCGroupOf == [c \in Clusters |-> "group"]

\* With and without several replicas; no replica record; no provider.
MCConfigs ==
    {[provider |-> "route53", replicaDNS |-> TRUE, multiReplica |-> m] : m \in BOOLEAN}
    \union {[provider |-> "route53", replicaDNS |-> FALSE, multiReplica |-> FALSE],
            [provider |-> "missing", replicaDNS |-> TRUE, multiReplica |-> FALSE]}

EveryFault == {AllFaults}
NoFault == {{}}
SomeFaults == {{}, {"crash", "lock"}}

MCSymmetry == Permutations(Handlers) \union Permutations(Nodes)
=============================================================================
