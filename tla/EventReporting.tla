--------------------------- MODULE EventReporting ---------------------------
(***************************************************************************)
(* The reporting path: agents that retry over a lossy network, composed    *)
(* with the managers' event handlers.  Each request that reaches a manager *)
(* starts a handler of its own, whether or not the agent still waits.      *)
(***************************************************************************)
EXTENDS EventProcessor

CONSTANTS RetryCount, MaxRuns
VARIABLES agent, attempt, runs, requests, answers

Agent == INSTANCE SentinelAgent

agentVars == <<agent, attempt, runs, requests, answers>>
reportingVars == <<vars, agentVars>>

ReportingInit == Init /\ Agent!Init

\* Mutant: 202 without a goroutine.
DeliverNowhere(q) == Agent!Accept(q) /\ UNCHANGED vars

\* CreateEventHandler answers 202 while the goroutine only starts.  Goroutines
\* are interchangeable, so it does not matter which unused one it is.
Deliver(q) ==
    LET idle == {h \in Handlers : pc[h] = "idle"}
    IN  /\ idle # {}
        /\ Agent!Accept(q)
        /\ CreateEventHandler(CHOOSE h \in idle : TRUE, q[1])

AgentStep(e) ==
    /\ \/ Agent!RunScript(e)
       \/ Agent!SendEvent(e)
       \/ Agent!Answered(e)
       \/ Agent!SendFailed(e)
    /\ UNCHANGED vars

LoseRequest(q) == Agent!Lost(q) /\ UNCHANGED vars

ManagerStep ==
    /\ \/ \E h \in Handlers : HandlerStep(h) \/ Crash(h)
       \/ \E k \in Keys : ExpireWindow(k)
       \/ \E m \in Masters, p \in Policies \union {Unregistered} : EditCluster(m, p)
    /\ UNCHANGED agentVars

ReportingNext ==
    \/ \E q \in requests : Deliver(q)
    \/ \E e \in Events : AgentStep(e)
    \/ \E q \in requests : LoseRequest(q)
    \/ ManagerStep

ReportingSpec == ReportingInit /\ [][ReportingNext]_reportingVars

\* The agents run to their exit code, handlers to their end, expiries fire; the
\* network owes nothing.
ReportingFairness ==
    /\ \A e \in Events : WF_reportingVars(AgentStep(e))
    /\ \A h \in Handlers : WF_reportingVars(HandlerStep(h) /\ UNCHANGED agentVars)
    /\ \A k \in Keys : WF_reportingVars(ExpireWindow(k) /\ UNCHANGED agentVars)

ReportingFairSpec == ReportingSpec /\ ReportingFairness

-----------------------------------------------------------------------------
(* Properties.                                                             *)

\* An agent that exits 0 left its report in the hands of a handler: the code
\* answers 202 only after it has built the event and started the goroutine.
ExitZeroIsHandled ==
    \A e \in Events : agent[e] = "exit0" => \E h \in Handlers : ev[h] = e

\* models/cluster.go calls quorum_threshold the least number of sentinels that
\* must agree: a handler that acts in quorum mode has reports of as many
\* different sentinels behind it.
QuorumOfSentinels ==
    \A h \in Handlers : pc[h] = "act" /\ policy[h].quorumMode =>
        Cardinality({ev[g].sentinel : g \in Reports(Key(h), win[h])}) >= policy[h].threshold

\* The answer 202 comes before the report is stored.  All the same a report whose
\* agent exits 0 is counted in the end, if no manager crashes and INCR succeeds.
ExitZeroIsCounted ==
    Disturbances \intersect {"crash", "incr"} = {} =>
        \A e \in Events : agent[e] = "exit0" ~> \E h \in Handlers : ev[h] = e /\ n[h] > 0
=============================================================================
