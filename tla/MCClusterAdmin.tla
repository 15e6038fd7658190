--------------------------- MODULE MCClusterAdmin ---------------------------
(* ClusterAdmin on a small instance: every kind of request, with the       *)
(* fields of the forms that lead to different calls.                       *)
EXTENDS ClusterAdmin, TLC

Plain(kind) ==
    [kind |-> kind, provider |-> "", replica |-> FALSE, disable |-> FALSE, password |-> FALSE]

MCForms ==
    {Plain(k) : k \in {"load", "delete", "pause", "resume", "test", "sync", "api delete"}}
    \union {[Plain(k) EXCEPT !.provider = "dns", !.replica = TRUE] : k \in {"create", "api create", "edit"}}
    \union {[Plain("edit") EXCEPT !.replica = TRUE],
            [Plain("edit") EXCEPT !.disable = TRUE, !.password = TRUE]}

OneOfAll == {{}, {"store", "sentinel", "dns"}}

\* The Sentinels are interchangeable, and so are the nodes that are not the first master.
MCSymmetry == Permutations(SentinelAddrs) \union Permutations(Nodes \ {FirstMaster})
=============================================================================
