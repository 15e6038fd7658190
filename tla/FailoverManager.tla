--------------------------- MODULE FailoverManager ---------------------------
(***************************************************************************)
(* What HandleEvent does once an event has been found to need a DNS        *)
(* update: handleFailover, handleReplicaDown, handleReplicaUp and          *)
(* sendNotification of core/failover_manager.go, the lock commands of      *)
(* store/valkey.go, GetMasterDetail of core/sentinel_ops.go and the        *)
(* CLIENT KILL task of core/client_killer.go, in any number of goroutines  *)
(* and manager instances at once.                                          *)
(*                                                                         *)
(* One action per call that leaves the process.  The Sentinels are         *)
(* external: they change the topology, hand out events and answer queries, *)
(* possibly with what was true before the last change.  The DNS provider   *)
(* is Route53: writes are atomic upserts, adding or removing one value is  *)
(* a read followed by an upsert.                                           *)
(***************************************************************************)
EXTENDS Naturals, FiniteSets

CONSTANTS Handlers,      \* goroutines that run HandleEvent past Process
          Clusters,      \* registered clusters, by master name
          GroupOf,       \* GroupOf[c]: group name of the cluster
          Nodes,         \* addresses of Valkey nodes
          Hostnames,     \* those of them that are no IP addresses
          Configs,       \* settings clusters may have, see ConfigType
          MaxChanges,    \* bound: topology changes
          MaxFailovers,  \* bound: how many of them are failovers
          SlowHandlers,  \* whether a handler may still work when its lock's TTL ends
          FaultSets,     \* what may go wrong: sets of AllFaults
          NoHandler, NoEvent, NoDetail

AllFaults == {"crash", "lock", "dns", "query", "stale", "settings"}

ConfigType == [provider : {"", "missing", "route53"},   \* DNSProvider, and whether it is loaded
               replicaDNS : BOOLEAN,                    \* ReplicaDNS # nil
               multiReplica : BOOLEAN]

ASSUME ConfigAssumption ==
    /\ Configs \subseteq ConfigType
    /\ Hostnames \subseteq Nodes
    /\ FaultSets \subseteq SUBSET AllFaults
    /\ SlowHandlers \in BOOLEAN
    /\ MaxChanges \in Nat /\ MaxFailovers \in Nat
ASSUME NoneAssumption ==
    /\ NoHandler \notin Handlers
    /\ \A c \in Clusters : GroupOf[c] \notin Clusters

VARIABLES faults,      \* the faults this behaviour may show
          config,      \* config[c]: the settings of the cluster
          killEnabled, \* runtime setting client_kill_enabled
          topology,    \* topology[c]: what is true of the cluster's nodes
          past,        \* past[c]: what was true before the last change
          changes, failovers,   \* counters for the bounds
          events,      \* events that will set off a handler
          locks,       \* locks[k]: the handler whose SET NX created the key
          primary,     \* primary[c]: values of the primary DNS record
          replica,     \* replica[c]: values of the replica DNS record
          pc, ev,      \* where a handler is, and its event
          detail,      \* the MasterDetail it got
          values,      \* the record values it read
          kill         \* its CLIENT KILL task: "none", "running" or "ended"

worldVars == <<topology, past, changes, failovers>>
dnsVars == <<primary, replica>>
vars == <<faults, config, killEnabled, worldVars, events, locks, dnsVars, pc, ev, detail, values, kill>>

Topology == [master : Nodes, slaves : SUBSET Nodes, down : SUBSET Nodes]
Event == [cluster : Clusters, type : {"failover", "replica_down", "replica_up"},
          from : Nodes, to : Nodes]

\* "group:master:failover" stands for the cluster, "group:replica_dns" for the
\* group, which all clusters of the group share.
LockKeys == Clusters \union {GroupOf[c] : c \in Clusters}

Init ==
    /\ faults \in FaultSets
    /\ config \in [Clusters -> Configs]
    /\ killEnabled \in BOOLEAN
    /\ \E m \in Nodes :
        topology = [c \in Clusters |-> [master |-> m, slaves |-> Nodes \ {m}, down |-> {}]]
    /\ past = topology
    /\ changes = 0 /\ failovers = 0
    /\ events = {}
    /\ locks = [k \in LockKeys |-> NoHandler]
    /\ primary = [c \in Clusters |-> {topology[c].master}]
    /\ replica = [c \in Clusters |-> topology[c].slaves]
    /\ pc = [h \in Handlers |-> "idle"]
    /\ ev = [h \in Handlers |-> NoEvent]
    /\ detail = [h \in Handlers |-> NoDetail]
    /\ values = [h \in Handlers |-> {}]
    /\ kill = [h \in Handlers |-> "none"]

Goto(h, label) == pc' = [pc EXCEPT ![h] = label]
Cluster(h) == ev[h].cluster
Config(h) == config[Cluster(h)]
validateIP(node) == node \notin Hostnames

-----------------------------------------------------------------------------
(* The Sentinels: topology changes and the events they end in.             *)

Change(c, t, e) ==
    /\ changes < MaxChanges
    /\ changes' = changes + 1
    /\ topology' = [topology EXCEPT ![c] = t]
    /\ past' = [past EXCEPT ![c] = topology[c]]
    /\ events' = events \union {e}
    /\ UNCHANGED <<faults, config, killEnabled, locks, dnsVars, pc, ev, detail, values, kill>>

\* A healthy replica is promoted; the old master becomes a replica.
Promote(c, b) ==
    LET t == topology[c]
    IN  /\ b \in t.slaves \ t.down
        /\ failovers < MaxFailovers
        /\ failovers' = failovers + 1
        /\ Change(c, [t EXCEPT !.master = b, !.slaves = (@ \ {b}) \union {t.master}],
                  [cluster |-> c, type |-> "failover", from |-> t.master, to |-> b])

ReplicaFails(c, x) ==
    LET t == topology[c]
    IN  /\ x \in t.slaves \ t.down
        /\ Change(c, [t EXCEPT !.down = @ \union {x}],
                  [cluster |-> c, type |-> "replica_down", from |-> x, to |-> x])
        /\ UNCHANGED failovers

ReplicaRecovers(c, x) ==
    LET t == topology[c]
    IN  /\ x \in t.slaves \intersect t.down
        /\ Change(c, [t EXCEPT !.down = @ \ {x}],
                  [cluster |-> c, type |-> "replica_up", from |-> x, to |-> x])
        /\ UNCHANGED failovers

\* What GetMasterDetail may return.  SENTINEL MASTER and SENTINEL SLAVES are
\* two commands, to a Sentinel that may be behind or that has just begun to
\* monitor the master and knows no slaves; nil if no Sentinel answers.
Answers(c) ==
    LET seen == {topology[c]} \union IF "stale" \in faults THEN {past[c]} ELSE {}
    IN  {[u EXCEPT !.master = m] : u \in seen, m \in {t.master : t \in seen}}
        \union (IF "stale" \in faults
                THEN {[master |-> t.master, slaves |-> {}, down |-> {}] : t \in seen} ELSE {})
        \union (IF "query" \in faults THEN {NoDetail} ELSE {})

-----------------------------------------------------------------------------
(* The distributed lock.                                                   *)

LockKey(h) == IF ev[h].type = "failover" THEN Cluster(h) ELSE GroupOf[Cluster(h)]

InSection(h) == pc[h] \in {"primary", "query", "replica", "write", "kill", "release"}

\* Mutant: SET without NX.
AcquireLockAlways(h) ==
    /\ pc[h] = "lock"
    /\ locks' = [locks EXCEPT ![LockKey(h)] = h]
    /\ Goto(h, IF ev[h].type = "failover" THEN "primary" ELSE "query")
    /\ UNCHANGED <<faults, config, killEnabled, worldVars, events, dnsVars, ev, detail, values, kill>>

\* SET NX EX.  A lock that is taken drops the event: the handler goes on to the
\* notification.
AcquireLock(h) ==
    /\ pc[h] = "lock"
    /\ IF locks[LockKey(h)] = NoHandler
       THEN /\ locks' = [locks EXCEPT ![LockKey(h)] = h]
            /\ Goto(h, IF ev[h].type = "failover" THEN "primary" ELSE "query")
       ELSE Goto(h, "notify") /\ UNCHANGED locks
    /\ UNCHANGED <<faults, config, killEnabled, worldVars, events, dnsVars, ev, detail, values, kill>>

\* SET NX EX ends in an error, which the handlers treat like a taken lock; the
\* server may have created the key.
AcquireLockError(h) ==
    /\ "lock" \in faults
    /\ pc[h] = "lock"
    /\ \/ /\ locks[LockKey(h)] = NoHandler
          /\ locks' = [locks EXCEPT ![LockKey(h)] = h]
       \/ UNCHANGED locks
    /\ Goto(h, "notify")
    /\ UNCHANGED <<faults, config, killEnabled, worldVars, events, dnsVars, ev, detail, values, kill>>

\* The deferred DEL, whoever created the key; an error is ignored.
ReleaseLock(h) ==
    /\ pc[h] = "release"
    /\ \/ locks' = [locks EXCEPT ![LockKey(h)] = NoHandler]
       \/ "lock" \in faults /\ UNCHANGED locks
    /\ Goto(h, "notify")
    /\ UNCHANGED <<faults, config, killEnabled, worldVars, events, dnsVars, ev, detail, values, kill>>

\* Mutant: SET NX without EX.
ExpireLockNever(k) == FALSE /\ UNCHANGED vars

\* lockTTL (30 s) passes.  The handler's own limit is the 60 s of its context,
\* so only the assumption ~SlowHandlers keeps it out of its section by then.
ExpireLock(k) ==
    /\ locks[k] # NoHandler
    /\ SlowHandlers \/ ~(InSection(locks[k]) /\ LockKey(locks[k]) = k)
    /\ locks' = [locks EXCEPT ![k] = NoHandler]
    /\ UNCHANGED <<faults, config, killEnabled, worldVars, events, dnsVars, pc, ev, detail, values, kill>>

-----------------------------------------------------------------------------
(* The handlers.                                                           *)

\* Mutant: handleFailover checks the address of the old master.
MayUpdateFrom(e) ==
    LET cf == config[e.cluster]
    IN  /\ cf.provider = "route53"
        /\ validateIP(e.from)
        /\ e.type # "failover" => cf.replicaDNS
        /\ e.type = "replica_down" => cf.multiReplica

\* The checks before the lock.
MayUpdate(e) ==
    LET cf == config[e.cluster]
    IN  /\ cf.provider = "route53"
        /\ e.type = "failover" => validateIP(e.to)
        /\ e.type # "failover" => validateIP(e.from) /\ cf.replicaDNS
        /\ e.type = "replica_down" => cf.multiReplica

\* Mutant: the handler starts without its event.
DispatchNil(h, e) ==
    /\ pc[h] = "idle"
    /\ e \in events
    /\ events' = events \ {e}
    /\ Goto(h, IF MayUpdate(e) THEN "lock" ELSE "notify")
    /\ UNCHANGED <<faults, config, killEnabled, worldVars, locks, dnsVars, ev, detail, values, kill>>

\* HandleEvent dispatches an event that reached its target count.
Dispatch(h, e) ==
    /\ pc[h] = "idle"
    /\ e \in events
    /\ events' = events \ {e}
    /\ ev' = [ev EXCEPT ![h] = e]
    /\ Goto(h, IF MayUpdate(e) THEN "lock" ELSE "notify")
    /\ UNCHANGED <<faults, config, killEnabled, worldVars, locks, dnsVars, detail, values, kill>>

\* UpdateRecord of the primary record; VerifyRecord after it only logs.
UpdatePrimary(h) ==
    /\ pc[h] = "primary"
    /\ primary' = [primary EXCEPT ![Cluster(h)] = {ev[h].to}]
    /\ Goto(h, IF Config(h).replicaDNS THEN "query" ELSE "kill")
    /\ UNCHANGED <<faults, config, killEnabled, worldVars, events, locks, replica, ev, detail, values, kill>>

\* Mutant: the error of UpdateRecord is only logged.
UpdatePrimaryIgnoresError(h) ==
    /\ "dns" \in faults
    /\ pc[h] = "primary"
    /\ Goto(h, IF Config(h).replicaDNS THEN "query" ELSE "kill")
    /\ UNCHANGED <<faults, config, killEnabled, worldVars, events, locks, dnsVars, ev, detail, values, kill>>

\* UpdateRecord fails, applied or not: the handler gives up the failover.
UpdatePrimaryError(h) ==
    /\ "dns" \in faults
    /\ pc[h] = "primary"
    /\ \/ primary' = [primary EXCEPT ![Cluster(h)] = {ev[h].to}]
       \/ UNCHANGED primary
    /\ Goto(h, "release")
    /\ UNCHANGED <<faults, config, killEnabled, worldVars, events, locks, replica, ev, detail, values, kill>>

GetMasterDetail(h) ==
    /\ pc[h] = "query"
    /\ \E d \in Answers(Cluster(h)) : detail' = [detail EXCEPT ![h] = d]
    /\ Goto(h, "replica")
    /\ UNCHANGED <<faults, config, killEnabled, worldVars, events, locks, dnsVars, ev, values, kill>>

\* Mutant: an empty list of values is written too.
SetAnything(v) == [op |-> "set", vals |-> v]

\* What to do with the replica record: "set" it to values, or one value to
\* "add" or "remove", or "keep" it.
Set(v) == [op |-> IF v = {} THEN "keep" ELSE "set", vals |-> v]
Keep == Set({})
First(v, w) == IF v = {} THEN w ELSE v

HasSlaves(d) == d # NoDetail /\ d.slaves # {}

\* Mutant: only the master that Sentinel names is left out.
FailoverPlanBySentinel(e, d, multi) ==
    LET others == d.slaves \ {d.master}
        demoted == IF validateIP(e.from) /\ e.from # e.to THEN {e.from} ELSE {}
    IN  IF HasSlaves(d) THEN Set(First(First(others \ d.down, others), demoted))
        ELSE IF ~multi /\ validateIP(e.from) THEN Set({e.from}) ELSE Keep

\* handleFailover: the slaves but the masters Sentinel and the event name, the
\* healthy ones if there are any; the demoted master if that leaves nobody.
FailoverPlan(e, d, multi) ==
    LET others == d.slaves \ {d.master, e.to}
        demoted == IF validateIP(e.from) /\ e.from # e.to THEN {e.from} ELSE {}
    IN  IF HasSlaves(d) THEN Set(First(First(others \ d.down, others), demoted))
        ELSE IF ~multi /\ validateIP(e.from) THEN Set({e.from}) ELSE Keep

\* Mutant: Sentinel's flags alone decide.
ReplicaDownPlanByFlags(e, d) ==
    IF HasSlaves(d) THEN Set(d.slaves \ ({d.master} \union d.down))
    ELSE [op |-> "remove", vals |-> {e.from}]

\* handleReplicaDown: the healthy slaves but the one that went down.
ReplicaDownPlan(e, d) ==
    IF HasSlaves(d) THEN Set(d.slaves \ ({d.master, e.from} \union d.down))
    ELSE [op |-> "remove", vals |-> {e.from}]

\* handleReplicaUp: healthySlaveIPs, else allSlaveIPs; without several replicas,
\* or without an answer, just the one that came back.
ReplicaUpPlan(e, d, multi) ==
    IF HasSlaves(d) /\ multi
    THEN Set(First(d.slaves \ ({d.master} \union d.down), d.slaves \ {d.master}))
    ELSE IF d # NoDetail /\ e.from = d.master THEN Keep
    ELSE IF multi THEN [op |-> "add", vals |-> {e.from}] ELSE Set({e.from})

Plan(h) ==
    CASE ev[h].type = "failover" -> FailoverPlan(ev[h], detail[h], Config(h).multiReplica)
      [] ev[h].type = "replica_down" -> ReplicaDownPlan(ev[h], detail[h])
      [] ev[h].type = "replica_up" -> ReplicaUpPlan(ev[h], detail[h], Config(h).multiReplica)

AfterReplica(h) == IF ev[h].type = "failover" THEN "kill" ELSE "release"

WriteReplica(h, v) == replica' = [replica EXCEPT ![Cluster(h)] = v]

\* UpdateRecord or UpdateRecordValues of the replica record; errors are logged.
UpdateReplica(h) ==
    /\ pc[h] = "replica"
    /\ Plan(h).op \in {"set", "keep"}
    /\ \/ Plan(h).op = "set" /\ WriteReplica(h, Plan(h).vals)
       \/ (Plan(h).op = "keep" \/ "dns" \in faults) /\ UNCHANGED replica
    /\ Goto(h, AfterReplica(h))
    /\ UNCHANGED <<faults, config, killEnabled, worldVars, events, locks, primary, ev, detail, values, kill>>

\* AddRecordValue and RemoveRecordValue first read the record.  They end there
\* if the read fails, the value is as it should be, or it is the last one.
ReadReplica(h) ==
    LET current == replica[Cluster(h)]
        target == IF Plan(h).op = "add" THEN current \union Plan(h).vals
                                         ELSE current \ Plan(h).vals
    IN  /\ pc[h] = "replica"
        /\ Plan(h).op \in {"add", "remove"}
        /\ \/ /\ target \notin {current, {}}
              /\ values' = [values EXCEPT ![h] = target]
              /\ Goto(h, "write")
           \/ /\ target \in {current, {}} \/ "dns" \in faults
              /\ Goto(h, AfterReplica(h))
              /\ UNCHANGED values
        /\ UNCHANGED <<faults, config, killEnabled, worldVars, events, locks, dnsVars, ev, detail, kill>>

\* ... and then upsert what they computed from what they read.
UpsertReplica(h) ==
    /\ pc[h] = "write"
    /\ WriteReplica(h, values[h]) \/ ("dns" \in faults /\ UNCHANGED replica)
    /\ Goto(h, AfterReplica(h))
    /\ UNCHANGED <<faults, config, killEnabled, worldVars, events, locks, primary, ev, detail, values, kill>>

\* The CLIENT KILL task starts unless the setting reads "false"; a setting that
\* cannot be read does not.
SpawnKill(h) ==
    /\ pc[h] = "kill"
    /\ \/ /\ validateIP(ev[h].from)
          /\ killEnabled \/ "settings" \in faults
          /\ kill' = [kill EXCEPT ![h] = "running"]
       \/ /\ ~(validateIP(ev[h].from) /\ killEnabled)
          /\ UNCHANGED kill
    /\ Goto(h, "release")
    /\ UNCHANGED <<faults, config, killEnabled, worldVars, events, locks, dnsVars, ev, detail, values>>

\* sendNotification ends every handler.
SendNotification(h) ==
    /\ pc[h] = "notify"
    /\ Goto(h, "done")
    /\ UNCHANGED <<faults, config, killEnabled, worldVars, events, locks, dnsVars, ev, detail, values, kill>>

\* The instance stops; its CLIENT KILL task goes with it.
Crash(h) ==
    /\ "crash" \in faults
    /\ pc[h] \notin {"idle", "done", "dead"}
    /\ Goto(h, "dead")
    /\ kill' = [kill EXCEPT ![h] = "none"]
    /\ UNCHANGED <<faults, config, killEnabled, worldVars, events, locks, dnsVars, ev, detail, values>>

\* The task ends with the first attempt that succeeds or the last that fails;
\* how long it goes on trying is left open.
KillOldPrimaryClients(h) ==
    /\ kill[h] = "running"
    /\ kill' = [kill EXCEPT ![h] = "ended"]
    /\ UNCHANGED <<faults, config, killEnabled, worldVars, events, locks, dnsVars, pc, ev, detail, values>>

HandlerStep(h) ==
    \/ AcquireLock(h) \/ AcquireLockError(h) \/ ReleaseLock(h)
    \/ UpdatePrimary(h) \/ UpdatePrimaryError(h) \/ GetMasterDetail(h)
    \/ UpdateReplica(h) \/ ReadReplica(h) \/ UpsertReplica(h)
    \/ SpawnKill(h) \/ SendNotification(h)

World ==
    \E c \in Clusters, x \in Nodes : Promote(c, x) \/ ReplicaFails(c, x) \/ ReplicaRecovers(c, x)

Next ==
    \/ World
    \/ \E h \in Handlers : \E e \in events : Dispatch(h, e)
    \/ \E h \in Handlers : HandlerStep(h) \/ KillOldPrimaryClients(h) \/ Crash(h)
    \/ \E k \in LockKeys : ExpireLock(k)

Spec == Init /\ [][Next]_vars

\* Goroutines are scheduled and their calls return, an event finds a goroutine,
\* a lock's TTL passes.
Fairness ==
    /\ \A h \in Handlers : WF_vars(HandlerStep(h))
    /\ WF_vars(\E h \in Handlers : \E e \in events : Dispatch(h, e))
    /\ \A k \in LockKeys : WF_vars(ExpireLock(k))

FairSpec == Spec /\ Fairness

-----------------------------------------------------------------------------
(* Properties.                                                             *)

Labels == {"idle", "lock", "primary", "query", "replica", "write", "kill",
           "release", "notify", "done", "dead"}

\* Every variable keeps its type.
TypeOK ==
    /\ faults \in FaultSets
    /\ config \in [Clusters -> Configs]
    /\ killEnabled \in BOOLEAN
    /\ topology \in [Clusters -> Topology]
    /\ past \in [Clusters -> Topology]
    /\ changes \in Nat /\ failovers \in Nat
    /\ events \subseteq Event
    /\ locks \in [LockKeys -> Handlers \union {NoHandler}]
    /\ primary \in [Clusters -> SUBSET Nodes]
    /\ replica \in [Clusters -> SUBSET Nodes]
    /\ pc \in [Handlers -> Labels]
    /\ ev \in [Handlers -> Event \union {NoEvent}]
    /\ detail \in [Handlers -> Topology \union {NoDetail}]
    /\ values \in [Handlers -> SUBSET Nodes]
    /\ kill \in [Handlers -> {"none", "running", "ended"}]
    /\ \A h \in Handlers : pc[h] # "idle" => ev[h] \in Event

\* No two handlers work under the same lock key at once.  It rests on
\* ~SlowHandlers: ReleaseLock deletes the key without looking at its owner, and
\* nothing renews it.
MutualExclusion ==
    \A g, h \in Handlers :
        InSection(g) /\ InSection(h) /\ LockKey(g) = LockKey(h) => g = h

\* While a failover handler that has updated the primary record goes on to the
\* replica record and to CLIENT KILL, the primary record still names the node
\* it promoted: clients that reconnect find the new primary.
PrimaryHeldThroughKill ==
    \A h \in Handlers :
        pc[h] \in {"query", "replica", "kill"} /\ ev[h].type = "failover"
            => primary[Cluster(h)] = {ev[h].to}

\* Whatever the Sentinels answer, no handler empties the replica record.
ReplicaRecordKept ==
    \A c \in Clusters : topology[c].slaves # {} => replica[c] # {}

\* A failover handler never writes the node it promoted into the replica
\* record, not even from an answer that still calls it a slave.
ExcludesPrimary ==
    \A h \in Handlers :
        pc[h] = "replica" /\ pc'[h] # "replica" /\ ev[h].type = "failover"
        /\ replica' # replica => ev[h].to \notin replica'[Cluster(h)]
FailoverStepExcludesPrimary == [][ExcludesPrimary]_vars

\* A replica_down handler takes the node that failed out of the replica record,
\* unless it would write nothing at all.
ExcludesFailedNode ==
    \A h \in Handlers :
        pc[h] \in {"replica", "write"} /\ pc'[h] # pc[h] /\ ev[h].type = "replica_down"
        /\ replica' # replica => ev[h].from \notin replica'[Cluster(h)]
ReplicaDownStepExcludesNode == [][ExcludesFailedNode]_vars

\* Every lock key is free again some time, also after crashes and lost replies.
LocksFreed == \A k \in LockKeys : locks[k] # NoHandler ~> locks[k] = NoHandler

\* README: "No manual DNS updates; records change automatically on failover".
\* When nothing fails, the primary record comes to name the node that was
\* promoted last, provided its address is an IP.
PrimaryFollowsMaster ==
    \A c \in Clusters :
        faults = {} /\ config[c].provider = "route53" =>
            <>[](validateIP(topology[c].master) => primary[c] = {topology[c].master})
=============================================================================
