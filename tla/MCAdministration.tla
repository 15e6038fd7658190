-------------------------- MODULE MCAdministration --------------------------
(* Administration on a small instance.                                     *)
EXTENDS Administration

Ops(s) == [kind |-> "ops", ops |-> s]
Do(what, name) == [do |-> what, name |-> name]

\* Registration of two nodes, a deletion, an edit form that swaps two names, the
\* deletion of the group.
MCPages ==
    {Ops(<<Do("add", "a"), Do("add", "b")>>), Ops(<<Do("del", "a")>>),
     Ops(<<Do("del", "a"), Do("put", "b"), Do("del", "b"), Do("put", "a")>>),
     [kind |-> "delete group"]}
=============================================================================
