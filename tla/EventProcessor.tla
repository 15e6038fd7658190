--------------------------- MODULE EventProcessor ---------------------------
(***************************************************************************)
(* From an accepted event report to the decision to update DNS:            *)
(*   api/events.go        CreateEventHandler (one goroutine per report)    *)
(*   core/failover_manager.go  HandleEvent, up to the dispatch             *)
(*   core/event_processor.go   Process                                     *)
(*   models/event.go      DedupKey                                         *)
(*   store/valkey.go      RecordEvent, one action per Valkey command       *)
(*   store/memory.go      RecordEvent, one critical section                *)
(*                                                                         *)
(* A handler is one such goroutine of any manager instance; it serves one  *)
(* report and its last state remains as the record of what it did.         *)
(* Process first writes the reporting sentinel's last_seen and ignores the *)
(* outcome; no variable of this module depends on it.  What the write does *)
(* to the registry of Sentinels is in SentinelRegistry, see ReportStep.    *)
(***************************************************************************)
EXTENDS Naturals, Sequences, FiniteSets

CONSTANTS Handlers,      \* event goroutines
          Masters,       \* master names
          Events,        \* reports that may arrive: [type, group, master, from, to, sentinel]
          Policies,      \* quorum settings clusters may be registered with
          HistoryMax,    \* length of the event history (500 in the code)
          Backends,      \* the stores to consider: "valkey", "memory"
          Disturbances,  \* what may go wrong, see AllDisturbances
          NoEvent        \* the report of a handler that has not started

AllDisturbances == {"crash", "lookup", "incr", "expire", "history", "edit"}

\* The arguments HandleEvent passes to Process when GetCluster fails: quorum
\* mode, threshold 2, and the result is not acted on.
Unregistered == [act |-> FALSE, quorumMode |-> TRUE, threshold |-> 2]

ASSUME EventAssumption ==
    /\ \A e \in Events : e.master \in Masters
    /\ NoEvent \notin Events
ASSUME PolicyAssumption ==
    Policies \subseteq [act : {TRUE}, quorumMode : BOOLEAN, threshold : Nat]
ASSUME HandlersFinite == IsFiniteSet(Handlers)
ASSUME HistoryAssumption == HistoryMax \in Nat \ {0}
ASSUME StoreAssumption ==
    /\ Backends \subseteq {"valkey", "memory"}
    /\ Disturbances \subseteq AllDisturbances

\* The identity under which reports are counted together.  An address stands
\* for ip:port.  Everything that is not a known type falls to the last case.
DedupKey(e) ==
    CASE e.type \in {"replica_down", "replica_up"} -> <<e.group, e.master, e.type, e.from>>
      [] e.type \in {"sentinel_down", "sentinel_up"} -> <<e.group, e.type, e.sentinel>>
      [] OTHER -> <<e.group, e.master, e.to>>

Keys == {DedupKey(e) : e \in Events}

VARIABLES backend,    \* the store the instances were configured with
          clusters,   \* clusters[m]: stored quorum settings, Unregistered if none
          count,      \* smgr:event:dedup:{key}; 0 when the key does not exist
          ttl,        \* whether that key carries an expiry
          window,     \* number of windows of the key that have expired
          history,    \* smgr:event:history, newest first
          pc, ev,     \* where a handler is, and the report it serves
          policy,     \* the quorum settings it read
          n,          \* the number INCR gave its report, 0 before
          win         \* the window it was counted in

handlerVars == <<pc, ev, policy, n, win>>
storeVars == <<count, ttl, window, history>>
vars == <<backend, clusters, storeVars, handlerVars>>

\* The memory store lives in the one process that uses it: its operations do
\* not fail, and a crash takes the counters away with the handlers.
Disturbed(d) == backend = "valkey" /\ d \in Disturbances

Key(h) == DedupKey(ev[h])

Live == {"lookup", "incr", "expire", "push", "trim", "decide"}
Ended == {"act", "done", "failed", "dead"}

Init ==
    /\ backend \in Backends
    /\ clusters \in [Masters -> Policies \union {Unregistered}]
    /\ count = [k \in Keys |-> 0]
    /\ ttl = [k \in Keys |-> FALSE]
    /\ window = [k \in Keys |-> 0]
    /\ history = <<>>
    /\ pc = [h \in Handlers |-> "idle"]
    /\ ev = [h \in Handlers |-> NoEvent]
    /\ policy = [h \in Handlers |-> Unregistered]
    /\ n = [h \in Handlers |-> 0]
    /\ win = [h \in Handlers |-> 0]

Goto(h, label) == pc' = [pc EXCEPT ![h] = label]

-----------------------------------------------------------------------------
(* The handler, one action per call it makes.                              *)

\* POST /api/v1/events: the goroutine starts and 202 is answered at once.
CreateEventHandler(h, e) ==
    /\ pc[h] = "idle"
    /\ ev' = [ev EXCEPT ![h] = e]
    /\ Goto(h, "lookup")
    /\ UNCHANGED <<backend, clusters, storeVars, policy, n, win>>

\* Mutant: the nil cluster of a failed GetCluster is used.
LookupClusterNil(h) ==
    /\ pc[h] = "lookup"
    /\ \/ policy' = [policy EXCEPT ![h] = clusters[ev[h].master]]
       \/ Disturbed("lookup") /\ policy' = [policy EXCEPT ![h] = NoEvent]
    /\ Goto(h, "incr")
    /\ UNCHANGED <<backend, clusters, storeVars, ev, n, win>>

\* Mutant: a report whose cluster cannot be read is dropped, not counted.
LookupClusterGivesUp(h) ==
    /\ pc[h] = "lookup"
    /\ \/ policy' = [policy EXCEPT ![h] = clusters[ev[h].master]] /\ Goto(h, "incr")
       \/ Disturbed("lookup") /\ Goto(h, "failed") /\ UNCHANGED policy
    /\ UNCHANGED <<backend, clusters, storeVars, ev, n, win>>

\* GetCluster.  HandleEvent takes any error for an unregistered cluster.
LookupCluster(h) ==
    /\ pc[h] = "lookup"
    /\ \/ policy' = [policy EXCEPT ![h] = clusters[ev[h].master]]
       \/ Disturbed("lookup") /\ policy' = [policy EXCEPT ![h] = Unregistered]
    /\ Goto(h, "incr")
    /\ UNCHANGED <<backend, clusters, storeVars, ev, n, win>>

\* Mutant: INCR is sent again after its reply was lost.
CountedTwice(h) ==
    /\ count' = [count EXCEPT ![Key(h)] = @ + 2]
    /\ n' = [n EXCEPT ![h] = count[Key(h)] + 2]
    /\ win' = [win EXCEPT ![h] = window[Key(h)]]

\* The report becomes number count + 1 of the current window of its key.
Counted(h) ==
    /\ count' = [count EXCEPT ![Key(h)] = @ + 1]
    /\ n' = [n EXCEPT ![h] = count[Key(h)] + 1]
    /\ win' = [win EXCEPT ![h] = window[Key(h)]]

\* INCR.  Only the report that gets number 1 goes on to set the expiry and
\* write the history.
Incr(h) ==
    /\ backend = "valkey"
    /\ pc[h] = "incr"
    /\ Counted(h)
    /\ Goto(h, IF count[Key(h)] = 0 THEN "expire" ELSE "decide")
    /\ UNCHANGED <<backend, clusters, ttl, window, history, ev, policy>>

\* INCR answers with an error, executed by the server or not; Process returns.
IncrError(h) ==
    /\ Disturbed("incr")
    /\ pc[h] = "incr"
    /\ Counted(h) \/ UNCHANGED <<count, n, win>>
    /\ Goto(h, "failed")
    /\ UNCHANGED <<backend, clusters, ttl, window, history, ev, policy>>

\* Mutant: no EXPIRE.
ExpireForgotten(h) ==
    /\ pc[h] = "expire"
    /\ Goto(h, "push")
    /\ UNCHANGED <<backend, clusters, storeVars, ev, policy, n, win>>

\* EXPIRE; its result is discarded.
Expire(h) ==
    /\ pc[h] = "expire"
    /\ \/ ttl' = [ttl EXCEPT ![Key(h)] = TRUE]
       \/ Disturbed("expire") /\ UNCHANGED ttl
    /\ Goto(h, "push")
    /\ UNCHANGED <<backend, clusters, count, window, history, ev, policy, n, win>>

\* Mutant: the inclusive end index of LTRIM is one too high.
NewestAndOne(s) == SubSeq(s, 1, IF Len(s) > HistoryMax THEN HistoryMax + 1 ELSE Len(s))

Newest(s) == SubSeq(s, 1, IF Len(s) > HistoryMax THEN HistoryMax ELSE Len(s))

\* LPUSH; its result is discarded.
Lpush(h) ==
    /\ pc[h] = "push"
    /\ \/ history' = <<ev[h]>> \o history
       \/ Disturbed("history") /\ UNCHANGED history
    /\ Goto(h, "trim")
    /\ UNCHANGED <<backend, clusters, count, ttl, window, ev, policy, n, win>>

\* LTRIM; its result is discarded.
Ltrim(h) ==
    /\ pc[h] = "trim"
    /\ \/ history' = Newest(history)
       \/ Disturbed("history") /\ UNCHANGED history
    /\ Goto(h, "decide")
    /\ UNCHANGED <<backend, clusters, count, ttl, window, ev, policy, n, win>>

\* The memory store does all of it under its mutex.
RecordInMemory(h) ==
    /\ backend = "memory"
    /\ pc[h] = "incr"
    /\ Counted(h)
    /\ IF count[Key(h)] = 0
       THEN /\ ttl' = [ttl EXCEPT ![Key(h)] = TRUE]
            /\ history' = Newest(<<ev[h]>> \o history)
       ELSE UNCHANGED <<ttl, history>>
    /\ Goto(h, "decide")
    /\ UNCHANGED <<backend, clusters, window, ev, policy>>

TargetCount(p) == IF p.quorumMode THEN p.threshold ELSE 1

\* Mutants: "reached" instead of "reached just now", the count before INCR, and
\* "exceeded".
ShouldUpdateDNSOften(h) == n[h] >= TargetCount(policy[h])
ShouldUpdateDNSEarly(h) == n[h] + 1 = TargetCount(policy[h])
ShouldUpdateDNSLate(h) == n[h] > TargetCount(policy[h])

\* Process: exactly the report that brings the count to the target.
ShouldUpdateDNS(h) == n[h] = TargetCount(policy[h])

\* Process returns; HandleEvent goes on to the DNS update ("act") or ends.
Decide(h) ==
    /\ pc[h] = "decide"
    /\ Goto(h, IF policy[h].act /\ ShouldUpdateDNS(h) THEN "act" ELSE "done")
    /\ UNCHANGED <<backend, clusters, storeVars, ev, policy, n, win>>

\* The manager instance that runs the goroutine stops; shutdown does not wait
\* for event goroutines either.
Crash(h) ==
    /\ Disturbed("crash")
    /\ pc[h] \in Live
    /\ Goto(h, "dead")
    /\ UNCHANGED <<backend, clusters, storeVars, ev, policy, n, win>>

-----------------------------------------------------------------------------
(* The store and the administrator.                                        *)

\* Mutant: the expiry is dropped, the counter stays.
ExpireWindowKeepsCount(k) ==
    /\ ttl[k]
    /\ ttl' = [ttl EXCEPT ![k] = FALSE]
    /\ window' = [window EXCEPT ![k] = @ + 1]
    /\ UNCHANGED <<backend, clusters, count, history, handlerVars>>

\* The dedup window of a key that carries an expiry ends: the key is gone.
ExpireWindow(k) ==
    /\ ttl[k]
    /\ count' = [count EXCEPT ![k] = 0]
    /\ ttl' = [ttl EXCEPT ![k] = FALSE]
    /\ window' = [window EXCEPT ![k] = @ + 1]
    /\ UNCHANGED <<backend, clusters, history, handlerVars>>

\* SaveCluster with other settings, or DeleteCluster, while handlers run.
EditCluster(m, p) ==
    /\ "edit" \in Disturbances
    /\ clusters[m] # p
    /\ clusters' = [clusters EXCEPT ![m] = p]
    /\ UNCHANGED <<backend, storeVars, handlerVars>>

HandlerStep(h) ==
    \/ LookupCluster(h) \/ Incr(h) \/ IncrError(h) \/ Expire(h)
    \/ Lpush(h) \/ Ltrim(h) \/ RecordInMemory(h) \/ Decide(h)

Next ==
    \/ \E h \in Handlers, e \in Events : CreateEventHandler(h, e)
    \/ \E h \in Handlers : HandlerStep(h) \/ Crash(h)
    \/ \E k \in Keys : ExpireWindow(k)
    \/ \E m \in Masters, p \in Policies \union {Unregistered} : EditCluster(m, p)

Spec == Init /\ [][Next]_vars

\* A goroutine that runs is scheduled and each of its calls returns (they all
\* carry a 60 s context); an expiry that was set fires.
Fairness == /\ \A h \in Handlers : WF_vars(HandlerStep(h))
            /\ \A k \in Keys : WF_vars(ExpireWindow(k))

FairSpec == Spec /\ Fairness

-----------------------------------------------------------------------------
(* Properties.                                                             *)

\* Every variable keeps its type.
TypeOK ==
    /\ backend \in Backends
    /\ clusters \in [Masters -> Policies \union {Unregistered}]
    /\ count \in [Keys -> Nat]
    /\ ttl \in [Keys -> BOOLEAN]
    /\ window \in [Keys -> Nat]
    /\ history \in Seq(Events)
    /\ pc \in [Handlers -> {"idle"} \union Live \union Ended]
    /\ ev \in [Handlers -> Events \union {NoEvent}]
    /\ policy \in [Handlers -> Policies \union {Unregistered}]
    /\ n \in [Handlers -> Nat]
    /\ win \in [Handlers -> Nat]
    /\ \A h \in Handlers : pc[h] # "idle" => ev[h] \in Events

\* The handlers whose report was counted in window w of key k.
Reports(k, w) == {h \in Handlers : n[h] > 0 /\ Key(h) = k /\ win[h] = w}

\* INCR hands every report of a window a number of its own, and the numbers of
\* the current window are exactly 1..count: no report is counted twice, none
\* vanishes, and no number is left over from an earlier window.
NumberedOnce ==
    \A k \in Keys :
        /\ \A w \in 0..window[k] : \A g, h \in Reports(k, w) : n[g] = n[h] => g = h
        /\ {n[h] : h \in Reports(k, window[k])} = 1..count[k]

\* Within one dedup window, two handlers act only if they were given different
\* targets, that is, if the cluster's quorum settings changed between their
\* lookups.  With stable settings a failover is acted on at most once per window.
ActsOncePerWindow ==
    \A g, h \in Handlers :
        /\ pc[g] = "act" /\ pc[h] = "act"
        /\ Key(g) = Key(h) /\ win[g] = win[h]
        /\ TargetCount(policy[g]) = TargetCount(policy[h])
        => g = h

\* Behind a handler that acts in quorum mode stand as many counted reports of
\* the same key and window as its threshold asks for.
ActsWithQuorum ==
    \A h \in Handlers : pc[h] = "act" =>
        Cardinality(Reports(Key(h), win[h])) >= TargetCount(policy[h])

\* A window whose count reached the target of some handler is not passed over
\* in silence: the report with that number acted or is still on its way, or
\* its handler died, lost the reply of INCR, or was told another policy.
TargetNotSkipped ==
    \A k \in Keys : \A t \in 1..count[k] :
        \E h \in Reports(k, window[k]) :
            /\ n[h] = t
            /\ pc[h] = "done" => ~(policy[h].act /\ TargetCount(policy[h]) = t)

\* The event history exceeds its maximum only by the pushes whose trim is
\* still to come, as long as no history command fails and nobody crashes.
HistoryBounded ==
    Disturbances \intersect {"crash", "history"} = {} =>
        Len(history) <= HistoryMax + Cardinality({h \in Handlers : pc[h] = "trim"})

\* Deduplication as specified by EventWindow: the interleaved store commands
\* look like reports that are numbered atomically and fire at most once each.
Window == INSTANCE EventWindow WITH
    tally <- count,
    ballots <- {<<Key(h), win[h], n[h]>> : h \in {g \in Handlers : n[g] > 0}},
    fired <- {<<Key(h), win[h], n[h]>> : h \in {g \in Handlers : pc[g] = "act"}}
ImplementsEventWindow == Window!Spec

\* A dedup counter does not outlive its window for ever: what was counted is
\* forgotten again, so that a later failover to the same node is a new one.
WindowCloses == \A k \in Keys : count[k] > 0 ~> count[k] = 0

\* When as many reports of a cluster's failover were counted in one window as its
\* target asks for, the window's DNS update is set off, unless GetCluster failed
\* for the very report that reached the target: HandleEvent then takes the cluster
\* for unregistered.
TargetLeadsToAct ==
    Disturbances \subseteq {"lookup", "expire", "history"} =>
        \A k \in Keys, m \in Masters, w \in 0..Cardinality(Handlers) :
            /\ clusters[m].act
            /\ \E e \in Events : DedupKey(e) = k /\ e.master = m
            /\ TargetCount(clusters[m]) > 0
            /\ Cardinality(Reports(k, w)) >= TargetCount(clusters[m])
            ~> \E h \in Reports(k, w) :
                  \/ pc[h] = "act"
                  \/ n[h] = TargetCount(clusters[m]) /\ policy[h] = Unregistered
=============================================================================
