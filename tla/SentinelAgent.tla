---------------------------- MODULE SentinelAgent ----------------------------
(***************************************************************************)
(* The sentinel-agent: the script a Sentinel runs on a failover (reconfig) *)
(* or on a +sdown/-sdown of a slave (notify), which reports the event to   *)
(* the manager over HTTP and retries.                                      *)
(*   agent/client.go    SendEvent                                          *)
(*   agent/reconfig.go, agent/notify.go   exit codes                       *)
(* One run of the script serves one event; the event carries the name of   *)
(* the sentinel.  The network loses and delays requests and answers.       *)
(***************************************************************************)
EXTENDS Naturals

CONSTANTS Events,       \* what the sentinels have to report
          RetryCount,   \* attempts of one SendEvent (retry_count, default 2)
          MaxRuns       \* bound: how often a Sentinel runs the script for one event

VARIABLES agent,        \* "idle", "sending", "waiting", "exit0", "exit1"
          attempt,      \* attempts the current run has made
          runs,         \* runs of the script so far
          requests,     \* <<e, r, i>>: request i of run r, in flight
          answers       \* <<e, r, i>>: its 2xx answer, in flight

vars == <<agent, attempt, runs, requests, answers>>

Init ==
    /\ agent = [e \in Events |-> "idle"]
    /\ attempt = [e \in Events |-> 0]
    /\ runs = [e \in Events |-> 0]
    /\ requests = {}
    /\ answers = {}

Request(e) == <<e, runs[e], attempt[e]>>

\* The Sentinel runs the script: the first time, and again after exit code 1,
\* which reconfig.go documents as "may be retried".
RunScript(e) ==
    /\ agent[e] \in {"idle", "exit1"}
    /\ runs[e] < MaxRuns
    /\ agent' = [agent EXCEPT ![e] = "sending"]
    /\ attempt' = [attempt EXCEPT ![e] = 0]
    /\ runs' = [runs EXCEPT ![e] = @ + 1]
    /\ UNCHANGED <<requests, answers>>

\* The loop head of SendEvent: one more attempt, or false and exit code 1.
SendEvent(e) ==
    /\ agent[e] = "sending"
    /\ IF attempt[e] < RetryCount
       THEN /\ attempt' = [attempt EXCEPT ![e] = @ + 1]
            /\ requests' = requests \union {<<e, runs[e], attempt[e] + 1>>}
            /\ agent' = [agent EXCEPT ![e] = "waiting"]
       ELSE /\ agent' = [agent EXCEPT ![e] = "exit1"]
            /\ UNCHANGED <<attempt, requests>>
    /\ UNCHANGED <<runs, answers>>

\* A 2xx answer to the attempt the agent waits for: exit code 0.
Answered(e) ==
    /\ agent[e] = "waiting"
    /\ Request(e) \in answers
    /\ agent' = [agent EXCEPT ![e] = "exit0"]
    /\ answers' = answers \ {Request(e)}
    /\ UNCHANGED <<attempt, runs, requests>>

\* client.Do fails: the connection is refused or breaks, or the timeout passes
\* while the request or its answer is still on the way.  The connection is
\* closed, so a late answer finds nobody.
SendFailed(e) ==
    /\ agent[e] = "waiting"
    /\ agent' = [agent EXCEPT ![e] = "sending"]
    /\ answers' = answers \ {Request(e)}
    /\ UNCHANGED <<attempt, runs, requests>>

\* The manager takes a request off the network and answers 202, heard or not.
Accept(q) ==
    /\ q \in requests
    /\ requests' = requests \ {q}
    /\ answers' = IF agent[q[1]] = "waiting" /\ q = Request(q[1])
                  THEN answers \union {q} ELSE answers
    /\ UNCHANGED <<agent, attempt, runs>>

\* A request that never arrives, or is refused with a status that is not 2xx.
Lost(q) ==
    /\ q \in requests
    /\ requests' = requests \ {q}
    /\ UNCHANGED <<agent, attempt, runs, answers>>

Next ==
    \/ \E e \in Events : RunScript(e) \/ SendEvent(e) \/ Answered(e) \/ SendFailed(e)
    \/ \E q \in requests : Accept(q) \/ Lost(q)

Spec == Init /\ [][Next]_vars

\* Every variable keeps its type, and an agent makes at most RetryCount attempts.
TypeOK ==
    /\ agent \in [Events -> {"idle", "sending", "waiting", "exit0", "exit1"}]
    /\ attempt \in [Events -> 0..RetryCount]
    /\ runs \in [Events -> 0..MaxRuns]
    /\ requests \subseteq Events \X (1..MaxRuns) \X (1..RetryCount)
    /\ answers \subseteq Events \X (1..MaxRuns) \X (1..RetryCount)
=============================================================================
