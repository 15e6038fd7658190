---------------------------- MODULE MCDnsProvider ----------------------------
(* DnsProvider on a small instance.                                        *)
EXTENDS DnsProvider, TLC

EveryFault == {{}, AllFaults}

MCSymmetry == Permutations(Callers) \union Permutations(Values)
=============================================================================
