------------------------ MODULE FailoverManagerProofs ------------------------
(***************************************************************************)
(* Proofs about FailoverManager, for any number of handlers, clusters and  *)
(* nodes and with every fault.                                             *)
(***************************************************************************)
EXTENDS FailoverManager, TLAPS

\* The lock key of a handler that has started is one of the keys.
LEMMA LockKeyType ==
    ASSUME TypeOK, NEW h \in Handlers, pc[h] # "idle"
    PROVE  /\ ev[h] \in Event
           /\ Cluster(h) \in Clusters
           /\ LockKey(h) \in LockKeys
BY DEF TypeOK, LockKey, LockKeys, Cluster, Event

\* Whatever Sentinel answers has the type of a topology.
LEMMA AnswersType ==
    ASSUME TypeOK, NEW c \in Clusters
    PROVE  Answers(c) \subseteq Topology \union {NoDetail}
<1> DEFINE seen == {topology[c]} \union IF "stale" \in faults THEN {past[c]} ELSE {}
<1>1. \A t \in seen : t \in Topology
  BY DEF TypeOK
<1>2. \A t \in seen : t.master \in Nodes /\ [master |-> t.master, slaves |-> {}, down |-> {}] \in Topology
  BY <1>1 DEF Topology
<1> HIDE DEF seen
<1>3. \A u \in seen, m \in {t.master : t \in seen} : [u EXCEPT !.master = m] \in Topology
  BY <1>1, <1>2 DEF Topology
<1>4. {[u EXCEPT !.master = m] : u \in seen, m \in {t.master : t \in seen}} \subseteq Topology
  BY <1>3
<1>5. {[master |-> t.master, slaves |-> {}, down |-> {}] : t \in seen} \subseteq Topology
  BY <1>2
<1> QED BY <1>4, <1>5 DEF Answers, seen

\* The values a plan names are nodes.
LEMMA PlanType ==
    ASSUME TypeOK, NEW h \in Handlers, pc[h] # "idle"
    PROVE  Plan(h).vals \in SUBSET Nodes
<1>1. ev[h] \in Event /\ detail[h] \in Topology \union {NoDetail}
  BY LockKeyType DEF TypeOK
<1>2. \A m : FailoverPlan(ev[h], detail[h], m).vals \in SUBSET Nodes
  BY <1>1 DEF FailoverPlan, HasSlaves, Set, Keep, First, Event, Topology
<1>3. ReplicaDownPlan(ev[h], detail[h]).vals \in SUBSET Nodes
  BY <1>1 DEF ReplicaDownPlan, HasSlaves, Set, Event, Topology
<1>4. \A m : ReplicaUpPlan(ev[h], detail[h], m).vals \in SUBSET Nodes
  BY <1>1 DEF ReplicaUpPlan, HasSlaves, Set, Keep, First, Event, Topology
<1> QED BY <1>1, <1>2, <1>3, <1>4 DEF Plan, Event

LEMMA ChangeType ==
    ASSUME TypeOK, NEW c \in Clusters, NEW t \in Topology, NEW e \in Event, Change(c, t, e),
           failovers' \in Nat
    PROVE  TypeOK'
BY DEF TypeOK, Change, dnsVars

\* Every step keeps the types.
LEMMA TypeStep == TypeOK /\ [Next]_vars => TypeOK'
<1> SUFFICES ASSUME TypeOK, [Next]_vars PROVE TypeOK'
  OBVIOUS
<1> USE DEF Goto, Labels, worldVars, dnsVars
<1>1. ASSUME NEW c \in Clusters, NEW x \in Nodes,
             Promote(c, x) \/ ReplicaFails(c, x) \/ ReplicaRecovers(c, x)
      PROVE TypeOK'
  <2>1. topology[c] \in Topology
    BY DEF TypeOK
  <2>2. CASE Promote(c, x)
    <3>1. [topology[c] EXCEPT !.master = x,
             !.slaves = (topology[c].slaves \ {x}) \union {topology[c].master}] \in Topology
      BY <2>1 DEF Topology
    <3>2. [cluster |-> c, type |-> "failover", from |-> topology[c].master, to |-> x] \in Event
      BY <2>1 DEF Topology, Event
    <3>3. failovers' \in Nat
      BY <2>2 DEF Promote, TypeOK
    <3> QED BY <2>2, <3>1, <3>2, <3>3, ChangeType DEF Promote
  <2>3. CASE ReplicaFails(c, x)
    <3>1. [topology[c] EXCEPT !.down = topology[c].down \union {x}] \in Topology
      BY <2>1 DEF Topology
    <3>2. [cluster |-> c, type |-> "replica_down", from |-> x, to |-> x] \in Event
      BY DEF Event
    <3>3. failovers' \in Nat
      BY <2>3 DEF ReplicaFails, TypeOK
    <3> QED BY <2>3, <3>1, <3>2, <3>3, ChangeType DEF ReplicaFails
  <2>4. CASE ReplicaRecovers(c, x)
    <3>1. [topology[c] EXCEPT !.down = topology[c].down \ {x}] \in Topology
      BY <2>1 DEF Topology
    <3>2. [cluster |-> c, type |-> "replica_up", from |-> x, to |-> x] \in Event
      BY DEF Event
    <3>3. failovers' \in Nat
      BY <2>4 DEF ReplicaRecovers, TypeOK
    <3> QED BY <2>4, <3>1, <3>2, <3>3, ChangeType DEF ReplicaRecovers
  <2> QED BY <1>1, <2>2, <2>3, <2>4
<1>2. ASSUME NEW h \in Handlers, NEW e \in events, Dispatch(h, e) PROVE TypeOK'
  BY <1>2 DEF TypeOK, Dispatch
<1>3. ASSUME NEW h \in Handlers, AcquireLock(h) \/ AcquireLockError(h) \/ ReleaseLock(h)
      PROVE TypeOK'
  BY <1>3, LockKeyType DEF TypeOK, AcquireLock, AcquireLockError, ReleaseLock
<1>4. ASSUME NEW h \in Handlers, UpdatePrimary(h) \/ UpdatePrimaryError(h) PROVE TypeOK'
  <2>1. {ev[h].to} \in SUBSET Nodes
    BY <1>4, LockKeyType DEF UpdatePrimary, UpdatePrimaryError, Event
  <2> QED BY <1>4, <2>1, LockKeyType DEF TypeOK, UpdatePrimary, UpdatePrimaryError
<1>5. ASSUME NEW h \in Handlers, GetMasterDetail(h) PROVE TypeOK'
  <2>1. \A d \in Answers(Cluster(h)) : d \in Topology \union {NoDetail}
    BY <1>5, LockKeyType, AnswersType DEF GetMasterDetail
  <2> QED BY <1>5, <2>1 DEF TypeOK, GetMasterDetail
<1>6. ASSUME NEW h \in Handlers, UpdateReplica(h) PROVE TypeOK'
  <2>1. Plan(h).vals \in SUBSET Nodes
    BY <1>6, PlanType DEF UpdateReplica
  <2>2. replica' \in [Clusters -> SUBSET Nodes]
    BY <1>6, <2>1, LockKeyType DEF TypeOK, UpdateReplica, WriteReplica
  <2>3. pc' \in [Handlers -> Labels]
    BY <1>6 DEF TypeOK, UpdateReplica, AfterReplica
  <2> QED BY <1>6, <2>2, <2>3 DEF TypeOK, UpdateReplica
<1>7. ASSUME NEW h \in Handlers, ReadReplica(h) PROVE TypeOK'
  <2>1. Plan(h).vals \in SUBSET Nodes /\ replica[Cluster(h)] \in SUBSET Nodes
    BY <1>7, PlanType, LockKeyType DEF ReadReplica, TypeOK
  <2>2. values' \in [Handlers -> SUBSET Nodes] /\ pc' \in [Handlers -> Labels]
    BY <1>7, <2>1 DEF TypeOK, ReadReplica, AfterReplica
  <2> QED BY <1>7, <2>2 DEF TypeOK, ReadReplica
<1>8. ASSUME NEW h \in Handlers, UpsertReplica(h) PROVE TypeOK'
  <2>1. replica' \in [Clusters -> SUBSET Nodes] /\ pc' \in [Handlers -> Labels]
    BY <1>8, LockKeyType DEF TypeOK, UpsertReplica, WriteReplica, AfterReplica
  <2> QED BY <1>8, <2>1 DEF TypeOK, UpsertReplica
<1>9. ASSUME NEW h \in Handlers, SpawnKill(h) PROVE TypeOK'
  BY <1>9 DEF TypeOK, SpawnKill
<1>10. ASSUME NEW h \in Handlers,
              SendNotification(h) \/ Crash(h) \/ KillOldPrimaryClients(h)
       PROVE TypeOK'
  BY <1>10 DEF TypeOK, SendNotification, Crash, KillOldPrimaryClients
<1>11. ASSUME NEW k \in LockKeys, ExpireLock(k) PROVE TypeOK'
  BY <1>11 DEF TypeOK, ExpireLock
<1>12. CASE UNCHANGED vars
  BY <1>12 DEF TypeOK, vars
<1> QED
  BY <1>1, <1>2, <1>3, <1>4, <1>5, <1>6, <1>7, <1>8, <1>9, <1>10, <1>11, <1>12
  DEF Next, World, HandlerStep

LEMMA TypeInit == Init => TypeOK
BY DEF Init, TypeOK, Topology, Labels

\* TypeOK is an invariant.
THEOREM TypeCorrect == Spec => []TypeOK
BY TypeInit, TypeStep, PTL DEF Spec

-----------------------------------------------------------------------------
(* The lock and the primary record.                                        *)

\* A handler in its section is the one that created the key of its lock.
LockOwned == \A h \in Handlers : InSection(h) => locks[LockKey(h)] = h

\* Only failover handlers update the primary record, and from then on to the
\* end of their section the record names the node they promoted.
PrimaryHeld ==
    \A h \in Handlers :
        /\ pc[h] = "primary" => ev[h].type = "failover"
        /\ pc[h] \in {"query", "replica", "write", "kill"} /\ ev[h].type = "failover"
              => primary[Cluster(h)] = {ev[h].to}

LockInv == TypeOK /\ LockOwned /\ PrimaryHeld

\* Two handlers in sections under one key are the same handler.
LEMMA OneOwner ==
    ASSUME LockOwned, NEW g \in Handlers, NEW h \in Handlers,
           InSection(g), InSection(h), LockKey(g) = LockKey(h)
    PROVE  g = h
BY DEF LockOwned

\* A step that leaves the locks alone keeps handlers where they are or moves
\* one of them inside or out of its section keeps LockOwned.
LEMMA OwnedKept ==
    ASSUME TypeOK, LockOwned, NEW h \in Handlers, UNCHANGED <<locks, ev>>, NEW l,
           pc' = [pc EXCEPT ![h] = l],
           InSection(h) \/ l \in {"idle", "lock", "notify", "done", "dead"}
    PROVE  LockOwned'
BY DEF TypeOK, LockOwned, InSection, LockKey, Cluster

\* A handler that moves without writing the primary record, and not into the
\* part of a failover after its update, keeps PrimaryHeld.
LEMMA HeldKept ==
    ASSUME TypeOK, PrimaryHeld, NEW h \in Handlers, UNCHANGED <<primary, ev>>, NEW l,
           pc' = [pc EXCEPT ![h] = l],
           l # "primary",
           \/ l \notin {"query", "replica", "write", "kill"}
           \/ pc[h] \in {"query", "replica", "write"}
           \/ ev[h].type # "failover"
    PROVE  PrimaryHeld'
BY DEF TypeOK, PrimaryHeld, Cluster

\* Every step keeps the lock invariant, provided that no handler outlives the
\* TTL of its lock.
LEMMA LockStep == ~SlowHandlers /\ LockInv /\ [Next]_vars => LockInv'
<1> SUFFICES ASSUME ~SlowHandlers, TypeOK, LockOwned, PrimaryHeld, [Next]_vars
             PROVE  LockOwned' /\ PrimaryHeld'
  BY TypeStep DEF LockInv
<1> USE DEF Goto
<1>1. ASSUME NEW c \in Clusters, NEW x \in Nodes,
             Promote(c, x) \/ ReplicaFails(c, x) \/ ReplicaRecovers(c, x)
      PROVE LockOwned' /\ PrimaryHeld'
  <2>1. UNCHANGED <<locks, primary, pc, ev>>
    BY <1>1 DEF Promote, ReplicaFails, ReplicaRecovers, Change, dnsVars
  <2> QED BY <2>1 DEF LockOwned, PrimaryHeld, InSection, LockKey, Cluster
<1>2. ASSUME NEW h \in Handlers, NEW e \in events, Dispatch(h, e)
      PROVE LockOwned' /\ PrimaryHeld'
  <2>1. pc[h] = "idle" /\ ev' = [ev EXCEPT ![h] = e] /\ UNCHANGED <<locks, primary>>
    BY <1>2 DEF Dispatch, dnsVars
  <2>2. pc' = [pc EXCEPT ![h] = "lock"] \/ pc' = [pc EXCEPT ![h] = "notify"]
    BY <1>2 DEF Dispatch
  <2>3. LockOwned'
    BY <2>1, <2>2 DEF TypeOK, LockOwned, InSection, LockKey, Cluster
  <2>4. PrimaryHeld'
    BY <2>1, <2>2 DEF TypeOK, PrimaryHeld, Cluster
  <2> QED BY <2>3, <2>4
<1>3. ASSUME NEW h \in Handlers, AcquireLock(h), locks[LockKey(h)] = NoHandler
      PROVE LockOwned' /\ PrimaryHeld'
  <2>1. /\ locks' = [locks EXCEPT ![LockKey(h)] = h]
        /\ pc' = [pc EXCEPT ![h] = IF ev[h].type = "failover" THEN "primary" ELSE "query"]
        /\ UNCHANGED <<primary, ev>>
    BY <1>3 DEF AcquireLock, dnsVars
  <2>2. LockKey(h) \in LockKeys /\ locks \in [LockKeys -> Handlers \union {NoHandler}]
    BY <1>3, LockKeyType DEF AcquireLock, TypeOK
  <2>3. LockOwned'
    <3>1. \A g \in Handlers : LockKey(g)' = LockKey(g)
      BY <2>1 DEF LockKey, Cluster
    <3>2. \A g \in Handlers \ {h} : InSection(g)' = InSection(g)
      BY <2>1 DEF InSection, TypeOK
    <3>3. \A g \in Handlers : InSection(g) => LockKey(g) # LockKey(h)
      BY <1>3, NoneAssumption DEF LockOwned
    <3>4. \A g \in Handlers \ {h} : InSection(g) => locks'[LockKey(g)] = g
      BY <2>1, <2>2, <3>3, LockKeyType DEF LockOwned, InSection
    <3>5. locks'[LockKey(h)] = h
      BY <2>1, <2>2
    <3> QED BY <3>1, <3>2, <3>4, <3>5 DEF LockOwned
  <2>4. PrimaryHeld'
    BY <1>3, <2>1 DEF AcquireLock, TypeOK, PrimaryHeld, Cluster
  <2> QED BY <2>3, <2>4
<1>4. ASSUME NEW h \in Handlers, AcquireLock(h), locks[LockKey(h)] # NoHandler
      PROVE LockOwned' /\ PrimaryHeld'
  <2>1. UNCHANGED <<locks, primary, ev>> /\ pc' = [pc EXCEPT ![h] = "notify"]
    BY <1>4 DEF AcquireLock, dnsVars
  <2> QED BY <2>1, OwnedKept, HeldKept
<1>5. ASSUME NEW h \in Handlers, AcquireLockError(h) PROVE LockOwned' /\ PrimaryHeld'
  <2>1. UNCHANGED <<primary, ev>> /\ pc' = [pc EXCEPT ![h] = "notify"]
    BY <1>5 DEF AcquireLockError, dnsVars
  <2>2. PrimaryHeld'
    BY <2>1, HeldKept
  <2>3. CASE UNCHANGED locks
    BY <2>1, <2>2, <2>3, OwnedKept
  <2>4. CASE locks[LockKey(h)] = NoHandler /\ locks' = [locks EXCEPT ![LockKey(h)] = h]
    <3>1. \A g \in Handlers : LockKey(g)' = LockKey(g) /\ (InSection(g)' => InSection(g))
      BY <2>1 DEF LockKey, Cluster, InSection, TypeOK
    <3>2. \A g \in Handlers : InSection(g) => LockKey(g) # LockKey(h)
      BY <2>4, NoneAssumption DEF LockOwned
    <3>3. \A g \in Handlers : InSection(g) => locks'[LockKey(g)] = g
      BY <2>4, <3>2, LockKeyType DEF LockOwned, InSection, TypeOK
    <3> QED BY <2>2, <3>1, <3>3 DEF LockOwned
  <2> QED BY <1>5, <2>3, <2>4 DEF AcquireLockError
<1>6. ASSUME NEW h \in Handlers, ReleaseLock(h) PROVE LockOwned' /\ PrimaryHeld'
  <2>1. UNCHANGED <<primary, ev>> /\ pc' = [pc EXCEPT ![h] = "notify"] /\ InSection(h)
    BY <1>6 DEF ReleaseLock, dnsVars, InSection
  <2>2. PrimaryHeld'
    BY <2>1, HeldKept
  <2>3. CASE UNCHANGED locks
    BY <2>1, <2>2, <2>3, OwnedKept
  <2>4. CASE locks' = [locks EXCEPT ![LockKey(h)] = NoHandler]
    <3>1. \A g \in Handlers :
            LockKey(g)' = LockKey(g) /\ (InSection(g)' => InSection(g) /\ g # h)
      BY <2>1 DEF LockKey, Cluster, InSection, TypeOK
    <3>2. \A g \in Handlers \ {h} : InSection(g) => LockKey(g) # LockKey(h)
      BY <2>1, OneOwner
    <3>3. \A g \in Handlers \ {h} : InSection(g) => locks'[LockKey(g)] = g
      BY <2>4, <3>2, LockKeyType DEF LockOwned, InSection, TypeOK
    <3> QED BY <2>2, <3>1, <3>3 DEF LockOwned
  <2> QED BY <1>6, <2>3, <2>4 DEF ReleaseLock
<1>7. ASSUME NEW h \in Handlers, UpdatePrimary(h) \/ UpdatePrimaryError(h)
      PROVE LockOwned' /\ PrimaryHeld'
  <2>1. PICK l \in {"query", "kill", "release"} :
          pc[h] = "primary" /\ pc' = [pc EXCEPT ![h] = l] /\ UNCHANGED <<locks, ev>>
    BY <1>7 DEF UpdatePrimary, UpdatePrimaryError
  <2>2. InSection(h) /\ Cluster(h) \in Clusters
    BY <2>1, LockKeyType DEF InSection
  <2>3. LockOwned'
    BY <2>1, <2>2, OwnedKept
  <2>4. \/ primary' = [primary EXCEPT ![Cluster(h)] = {ev[h].to}]
        \/ l = "release" /\ UNCHANGED primary
    BY <1>7, <2>1 DEF UpdatePrimary, UpdatePrimaryError, TypeOK
  <2>5. ev[h].type = "failover"
    BY <2>1 DEF PrimaryHeld
  <2>6. \A g \in Handlers \ {h} : pc[g] \in {"query", "replica", "write", "kill"}
          /\ ev[g].type = "failover" => Cluster(g) # Cluster(h)
    BY <2>2, <2>5, OneOwner DEF InSection, LockKey
  <2>7. PrimaryHeld'
    <3>1. ASSUME NEW g \in Handlers \ {h}, pc'[g] \in {"query", "replica", "write", "kill"},
                 ev'[g].type = "failover"
          PROVE  primary'[Cluster(g)'] = {ev'[g].to}
      <4>1. pc[g] = pc'[g] /\ ev'[g] = ev[g] /\ Cluster(g)' = Cluster(g)
        BY <2>1 DEF TypeOK, Cluster
      <4>2. primary[Cluster(g)] = {ev[g].to}
        BY <3>1, <4>1 DEF PrimaryHeld
      <4>3. primary'[Cluster(g)] = primary[Cluster(g)]
        BY <2>2, <2>4, <2>6, <3>1, <4>1, LockKeyType DEF TypeOK
      <4> QED BY <4>1, <4>2, <4>3
    <3>2. pc'[h] = "release" \/ primary'[Cluster(h)'] = {ev'[h].to}
      BY <2>1, <2>2, <2>4 DEF TypeOK, Cluster
    <3>3. \A g \in Handlers : pc'[g] = "primary" => ev'[g].type = "failover"
      BY <2>1, <2>5 DEF PrimaryHeld, TypeOK
    <3> QED BY <3>1, <3>2, <3>3 DEF PrimaryHeld
  <2> QED BY <2>3, <2>7
<1>8. ASSUME NEW h \in Handlers, GetMasterDetail(h) PROVE LockOwned' /\ PrimaryHeld'
  <2>1. /\ pc[h] = "query" /\ pc' = [pc EXCEPT ![h] = "replica"]
        /\ UNCHANGED <<locks, primary, ev>>
    BY <1>8 DEF GetMasterDetail, dnsVars
  <2> QED BY <2>1, OwnedKept, HeldKept DEF InSection
<1>9. ASSUME NEW h \in Handlers, UpdateReplica(h) \/ ReadReplica(h) \/ UpsertReplica(h)
      PROVE LockOwned' /\ PrimaryHeld'
  <2>1. PICK l \in {"write", "kill", "release"} : pc' = [pc EXCEPT ![h] = l]
    BY <1>9 DEF UpdateReplica, ReadReplica, UpsertReplica, AfterReplica
  <2>2. pc[h] \in {"replica", "write"} /\ UNCHANGED <<locks, primary, ev>>
    BY <1>9 DEF UpdateReplica, ReadReplica, UpsertReplica, dnsVars
  <2> QED BY <2>1, <2>2, OwnedKept, HeldKept DEF InSection
<1>10. ASSUME NEW h \in Handlers, SpawnKill(h) PROVE LockOwned' /\ PrimaryHeld'
  <2>1. /\ pc[h] = "kill" /\ pc' = [pc EXCEPT ![h] = "release"]
        /\ UNCHANGED <<locks, primary, ev>>
    BY <1>10 DEF SpawnKill, dnsVars
  <2> QED BY <2>1, OwnedKept, HeldKept DEF InSection
<1>11. ASSUME NEW h \in Handlers, SendNotification(h) \/ Crash(h)
       PROVE LockOwned' /\ PrimaryHeld'
  <2>1. PICK l \in {"done", "dead"} :
          pc' = [pc EXCEPT ![h] = l] /\ UNCHANGED <<locks, primary, ev>>
    BY <1>11 DEF SendNotification, Crash, dnsVars
  <2> QED BY <2>1, OwnedKept, HeldKept
<1>12. ASSUME NEW h \in Handlers, KillOldPrimaryClients(h) PROVE LockOwned' /\ PrimaryHeld'
  BY <1>12 DEF KillOldPrimaryClients, dnsVars, LockOwned, PrimaryHeld, InSection, LockKey, Cluster
<1>13. ASSUME NEW k \in LockKeys, ExpireLock(k) PROVE LockOwned' /\ PrimaryHeld'
  <2>1. UNCHANGED <<pc, ev, primary>> /\ locks' = [locks EXCEPT ![k] = NoHandler]
    BY <1>13 DEF ExpireLock, dnsVars
  <2>2. \A g \in Handlers : InSection(g) => LockKey(g) # k
    BY <1>13 DEF ExpireLock, LockOwned
  <2>3. \A g \in Handlers : InSection(g) => locks'[LockKey(g)] = g
    BY <2>1, <2>2, LockKeyType DEF LockOwned, InSection, TypeOK
  <2>4. \A g \in Handlers : LockKey(g)' = LockKey(g) /\ InSection(g)' = InSection(g)
    BY <2>1 DEF LockKey, Cluster, InSection
  <2> QED BY <2>1, <2>3, <2>4 DEF LockOwned, PrimaryHeld, Cluster
<1>14. CASE UNCHANGED vars
  BY <1>14 DEF vars, dnsVars, LockOwned, PrimaryHeld, InSection, LockKey, Cluster
<1> QED
  BY <1>1, <1>2, <1>3, <1>4, <1>5, <1>6, <1>7, <1>8, <1>9, <1>10, <1>11, <1>12, <1>13, <1>14
  DEF Next, World, HandlerStep

LEMMA LockInit == Init => LockInv
<1> SUFFICES ASSUME Init PROVE LockInv
  OBVIOUS
<1>1. \A h \in Handlers : pc[h] = "idle"
  BY DEF Init
<1> QED BY <1>1, TypeInit DEF LockInv, LockOwned, PrimaryHeld, InSection

\* As long as handlers finish within the TTL of their lock, no two of them
\* work under the same key, whatever crashes, errors and answers they meet.
THEOREM LockExcludes == ~SlowHandlers => (Spec => []MutualExclusion)
<1> SUFFICES ASSUME ~SlowHandlers PROVE Spec => []MutualExclusion
  OBVIOUS
<1>1. LockInv /\ [Next]_vars => LockInv'
  BY LockStep
<1>2. LockInv => MutualExclusion
  BY OneOwner DEF LockInv, MutualExclusion
<1> QED BY LockInit, <1>1, <1>2, PTL DEF Spec

\* Under the same condition the primary record names the promoted node from the
\* update of the record to the CLIENT KILL that sends the clients there.
THEOREM PrimaryHeldToKill == ~SlowHandlers => (Spec => []PrimaryHeldThroughKill)
<1> SUFFICES ASSUME ~SlowHandlers PROVE Spec => []PrimaryHeldThroughKill
  OBVIOUS
<1>1. LockInv /\ [Next]_vars => LockInv'
  BY LockStep
<1>2. LockInv => PrimaryHeldThroughKill
  BY DEF LockInv, PrimaryHeld, PrimaryHeldThroughKill
<1> QED BY LockInit, <1>1, <1>2, PTL DEF Spec

-----------------------------------------------------------------------------
(* The replica record.                                                     *)

\* What a handler read and is about to write is not empty, and lacks the node
\* whose failure it reports.
ReadOK ==
    \A h \in Handlers : pc[h] = "write" =>
        /\ values[h] # {}
        /\ ev[h].type = "replica_down" => ev[h].from \notin values[h]

\* The master is no slave, so a failover goes from one node to another.
FromTo(e) == e.type = "failover" => e.from # e.to
RolesDiffer ==
    /\ \A c \in Clusters : topology[c].master \notin topology[c].slaves
    /\ \A e \in events : FromTo(e)
    /\ \A h \in Handlers : pc[h] # "idle" => FromTo(ev[h])

ReplicaInv == TypeOK /\ ReplicaRecordKept /\ ReadOK /\ RolesDiffer

\* The case a plan belongs to.
LEMMA PlanCases ==
    ASSUME NEW h
    PROVE  /\ ev[h].type = "failover"
                => Plan(h) = FailoverPlan(ev[h], detail[h], Config(h).multiReplica)
           /\ ev[h].type = "replica_down" => Plan(h) = ReplicaDownPlan(ev[h], detail[h])
           /\ ev[h].type = "replica_up"
                => Plan(h) = ReplicaUpPlan(ev[h], detail[h], Config(h).multiReplica)
BY DEF Plan

\* A plan never sets the record to nothing.
LEMMA PlanNonEmpty ==
    ASSUME TypeOK, NEW h \in Handlers, pc[h] # "idle", Plan(h).op = "set"
    PROVE  Plan(h).vals # {}
<1>1. \A v : Set(v).op = "set" => Set(v).vals # {}
  BY DEF Set
<1>2. \A e, d, m : FailoverPlan(e, d, m).op = "set" => FailoverPlan(e, d, m).vals # {}
  BY <1>1 DEF FailoverPlan, Keep
<1>3. \A e, d : ReplicaDownPlan(e, d).op = "set" => ReplicaDownPlan(e, d).vals # {}
  BY <1>1 DEF ReplicaDownPlan
<1>4. \A e, d, m : ReplicaUpPlan(e, d, m).op = "set" => ReplicaUpPlan(e, d, m).vals # {}
  BY <1>1 DEF ReplicaUpPlan, Keep
<1>5. ev[h].type \in {"failover", "replica_down", "replica_up"}
  BY LockKeyType DEF Event
<1> QED BY <1>2, <1>3, <1>4, <1>5, PlanCases

\* The plan of a failover leaves out the node that was promoted.
LEMMA FailoverPlanExcludes ==
    ASSUME NEW e, NEW d, NEW m, e.from # e.to
    PROVE  /\ e.to \notin FailoverPlan(e, d, m).vals
           /\ FailoverPlan(e, d, m).op \in {"set", "keep"}
BY DEF FailoverPlan, Set, Keep, First

\* The plan of a replica_down leaves out the node that failed, or removes it.
LEMMA ReplicaDownPlanExcludes ==
    ASSUME NEW e, NEW d
    PROVE  \/ /\ ReplicaDownPlan(e, d).op \in {"set", "keep"}
              /\ e.from \notin ReplicaDownPlan(e, d).vals
           \/ ReplicaDownPlan(e, d) = [op |-> "remove", vals |-> {e.from}]
BY DEF ReplicaDownPlan, Set

\* A step that moves one handler, but not to "write", and changes nothing else
\* that ReadOK and RolesDiffer speak about keeps both.
LEMMA RolesKept ==
    ASSUME TypeOK, ReadOK, RolesDiffer, NEW h \in Handlers, NEW l,
           pc[h] # "idle", l # "write", pc' = [pc EXCEPT ![h] = l],
           UNCHANGED <<topology, events, ev, values>>
    PROVE  ReadOK' /\ RolesDiffer'
<1>1. ReadOK'
  BY DEF TypeOK, ReadOK
<1>2. RolesDiffer'
  BY DEF TypeOK, RolesDiffer, FromTo
<1> QED BY <1>1, <1>2

\* Every step keeps the replica invariant.
LEMMA ReplicaStep == ReplicaInv /\ [Next]_vars => ReplicaInv'
<1> SUFFICES ASSUME TypeOK, ReplicaRecordKept, ReadOK, RolesDiffer, [Next]_vars
             PROVE  ReplicaRecordKept' /\ ReadOK' /\ RolesDiffer'
  BY TypeStep DEF ReplicaInv
<1> USE DEF Goto
<1>1. ASSUME NEW c \in Clusters, NEW x \in Nodes,
             Promote(c, x) \/ ReplicaFails(c, x) \/ ReplicaRecovers(c, x)
      PROVE ReplicaRecordKept' /\ ReadOK' /\ RolesDiffer'
  <2>1. UNCHANGED <<replica, pc, ev, values>>
    BY <1>1 DEF Promote, ReplicaFails, ReplicaRecovers, Change, dnsVars
  <2>2. topology[c] \in Topology /\ topology[c].master \notin topology[c].slaves
    BY DEF TypeOK, RolesDiffer
  <2>3. PICK t, e : Change(c, t, e) /\ x \in topology[c].slaves
                    /\ t.master \notin t.slaves /\ FromTo(e)
    <3>1. CASE Promote(c, x)
      <4> DEFINE t == [topology[c] EXCEPT !.master = x,
                         !.slaves = (topology[c].slaves \ {x}) \union {topology[c].master}]
                 e == [cluster |-> c, type |-> "failover", from |-> topology[c].master, to |-> x]
      <4>1. Change(c, t, e) /\ x \in topology[c].slaves
        BY <3>1 DEF Promote
      <4>2. t.master \notin t.slaves /\ FromTo(e)
        BY <2>2, <4>1 DEF Topology, FromTo
      <4> QED BY <4>1, <4>2
    <3>2. CASE ReplicaFails(c, x)
      <4> DEFINE t == [topology[c] EXCEPT !.down = topology[c].down \union {x}]
                 e == [cluster |-> c, type |-> "replica_down", from |-> x, to |-> x]
      <4>1. Change(c, t, e) /\ x \in topology[c].slaves
        BY <3>2 DEF ReplicaFails
      <4>2. t.master \notin t.slaves /\ FromTo(e)
        BY <2>2 DEF Topology, FromTo
      <4> QED BY <4>1, <4>2
    <3>3. CASE ReplicaRecovers(c, x)
      <4> DEFINE t == [topology[c] EXCEPT !.down = topology[c].down \ {x}]
                 e == [cluster |-> c, type |-> "replica_up", from |-> x, to |-> x]
      <4>1. Change(c, t, e) /\ x \in topology[c].slaves
        BY <3>3 DEF ReplicaRecovers
      <4>2. t.master \notin t.slaves /\ FromTo(e)
        BY <2>2 DEF Topology, FromTo
      <4> QED BY <4>1, <4>2
    <3> QED BY <1>1, <3>1, <3>2, <3>3
  <2>4. topology' = [topology EXCEPT ![c] = t] /\ events' = events \union {e}
    BY <2>3 DEF Change
  <2>5. ReplicaRecordKept'
    BY <2>1, <2>3, <2>4 DEF TypeOK, ReplicaRecordKept
  <2>6. RolesDiffer'
    BY <2>1, <2>3, <2>4 DEF TypeOK, RolesDiffer, FromTo
  <2> QED BY <2>1, <2>5, <2>6 DEF ReadOK
<1>2. ASSUME NEW h \in Handlers, NEW e \in events, Dispatch(h, e)
      PROVE ReplicaRecordKept' /\ ReadOK' /\ RolesDiffer'
  <2>1. /\ pc[h] = "idle" /\ ev' = [ev EXCEPT ![h] = e] /\ events' = events \ {e}
        /\ UNCHANGED <<topology, replica, values>>
    BY <1>2 DEF Dispatch, dnsVars, worldVars
  <2>2. PICK l \in {"lock", "notify"} : pc' = [pc EXCEPT ![h] = l]
    BY <1>2 DEF Dispatch
  <2>3. ReadOK'
    BY <2>1, <2>2 DEF TypeOK, ReadOK
  <2>4. RolesDiffer'
    BY <2>1, <2>2 DEF TypeOK, RolesDiffer, FromTo
  <2> QED BY <2>1, <2>3, <2>4 DEF ReplicaRecordKept
<1>3. ASSUME NEW h \in Handlers,
             \/ AcquireLock(h) \/ AcquireLockError(h) \/ ReleaseLock(h)
             \/ UpdatePrimary(h) \/ UpdatePrimaryError(h) \/ GetMasterDetail(h)
             \/ SpawnKill(h) \/ SendNotification(h) \/ Crash(h)
      PROVE ReplicaRecordKept' /\ ReadOK' /\ RolesDiffer'
  <2>1. PICK l \in Labels \ {"idle", "write"} : pc' = [pc EXCEPT ![h] = l]
    BY <1>3 DEF Labels, AcquireLock, AcquireLockError, ReleaseLock, UpdatePrimary,
         UpdatePrimaryError, GetMasterDetail, SpawnKill, SendNotification, Crash
  <2>2. pc[h] # "idle" /\ UNCHANGED <<topology, events, replica, ev, values>>
    BY <1>3 DEF worldVars, dnsVars, AcquireLock, AcquireLockError, ReleaseLock, UpdatePrimary,
         UpdatePrimaryError, GetMasterDetail, SpawnKill, SendNotification, Crash
  <2> QED BY <2>1, <2>2, RolesKept DEF ReplicaRecordKept
<1>4. ASSUME NEW h \in Handlers, UpdateReplica(h) \/ UpsertReplica(h)
      PROVE ReplicaRecordKept' /\ ReadOK' /\ RolesDiffer'
  <2>1. /\ pc[h] \in {"replica", "write"} /\ pc' = [pc EXCEPT ![h] = AfterReplica(h)]
        /\ UNCHANGED <<topology, events, ev, values>>
    BY <1>4 DEF UpdateReplica, UpsertReplica, worldVars
  <2>2. AfterReplica(h) # "write"
    BY DEF AfterReplica
  <2>3. ReadOK' /\ RolesDiffer'
    BY <2>1, <2>2, RolesKept
  <2>4. UNCHANGED replica \/ \E v : v # {} /\ replica' = [replica EXCEPT ![Cluster(h)] = v]
    BY <1>4, PlanNonEmpty DEF UpdateReplica, UpsertReplica, WriteReplica, ReadOK
  <2>5. ReplicaRecordKept'
    BY <2>1, <2>4 DEF ReplicaRecordKept, TypeOK
  <2> QED BY <2>3, <2>5
<1>5. ASSUME NEW h \in Handlers, ReadReplica(h)
      PROVE ReplicaRecordKept' /\ ReadOK' /\ RolesDiffer'
  <2>1. pc[h] = "replica" /\ UNCHANGED <<topology, events, replica, ev>>
    BY <1>5 DEF ReadReplica, worldVars, dnsVars
  <2>2. CASE UNCHANGED values /\ pc' = [pc EXCEPT ![h] = AfterReplica(h)]
    BY <2>1, <2>2, RolesKept DEF AfterReplica, ReplicaRecordKept
  <2>3. CASE \E v : /\ v # {} /\ (ev[h].type = "replica_down" => ev[h].from \notin v)
                    /\ values' = [values EXCEPT ![h] = v] /\ pc' = [pc EXCEPT ![h] = "write"]
    <3>1. ReadOK'
      BY <2>1, <2>3 DEF ReadOK, TypeOK
    <3>2. RolesDiffer'
      BY <2>1, <2>3 DEF RolesDiffer, FromTo, TypeOK
    <3> QED BY <2>1, <3>1, <3>2 DEF ReplicaRecordKept
  <2>4. ev[h].type = "replica_down" /\ Plan(h).op = "remove" => Plan(h).vals = {ev[h].from}
    BY PlanCases, ReplicaDownPlanExcludes
  <2>5. ev[h].type = "replica_down" => Plan(h).op # "add"
    BY PlanCases, ReplicaDownPlanExcludes
  <2> QED BY <1>5, <2>2, <2>3, <2>4, <2>5 DEF ReadReplica
<1>6. ASSUME NEW h \in Handlers, KillOldPrimaryClients(h)
      PROVE ReplicaRecordKept' /\ ReadOK' /\ RolesDiffer'
  BY <1>6 DEF KillOldPrimaryClients, worldVars, dnsVars, ReplicaRecordKept, ReadOK, RolesDiffer, FromTo
<1>7. ASSUME NEW k \in LockKeys, ExpireLock(k)
      PROVE ReplicaRecordKept' /\ ReadOK' /\ RolesDiffer'
  BY <1>7 DEF ExpireLock, worldVars, dnsVars, ReplicaRecordKept, ReadOK, RolesDiffer, FromTo
<1>8. CASE UNCHANGED vars
  BY <1>8 DEF vars, worldVars, dnsVars, ReplicaRecordKept, ReadOK, RolesDiffer, FromTo
<1> QED BY <1>1, <1>2, <1>3, <1>4, <1>5, <1>6, <1>7, <1>8 DEF Next, World, HandlerStep

LEMMA ReplicaInit == Init => ReplicaInv
<1> SUFFICES ASSUME Init PROVE ReplicaInv
  OBVIOUS
<1>1. PICK m \in Nodes :
        topology = [c \in Clusters |-> [master |-> m, slaves |-> Nodes \ {m}, down |-> {}]]
  BY DEF Init
<1>2. ReplicaRecordKept
  BY DEF Init, ReplicaRecordKept
<1>3. ReadOK /\ RolesDiffer
  BY <1>1 DEF Init, ReadOK, RolesDiffer
<1> QED BY <1>2, <1>3, TypeInit DEF ReplicaInv

\* No handler empties the replica record: with every fault, with handlers that
\* outlive their lock, and for any topology.
THEOREM ReplicaRecordKeeps == Spec => []ReplicaRecordKept
<1>1. ReplicaInv => ReplicaRecordKept
  BY DEF ReplicaInv
<1> QED BY ReplicaInit, ReplicaStep, <1>1, PTL DEF Spec

\* A handler whose label changes while the replica record changes wrote it.
LEMMA Writer ==
    ASSUME TypeOK, [Next]_vars, replica' # replica, NEW h \in Handlers, pc'[h] # pc[h]
    PROVE  UpdateReplica(h) \/ UpsertReplica(h)
<1>1. \A c \in Clusters, x \in Nodes :
        Promote(c, x) \/ ReplicaFails(c, x) \/ ReplicaRecovers(c, x) => FALSE
  BY DEF Promote, ReplicaFails, ReplicaRecovers, Change, dnsVars
<1>2. \A g \in Handlers : \A e \in events : ~Dispatch(g, e)
  BY DEF Dispatch, dnsVars
<1>3. \A k \in LockKeys : ~ExpireLock(k)
  BY DEF ExpireLock, dnsVars
<1>4. \A g \in Handlers : UpdateReplica(g) \/ UpsertReplica(g) => g = h
  BY DEF UpdateReplica, UpsertReplica, Goto, TypeOK
<1>5. \A g \in Handlers :
        ~(\/ AcquireLock(g) \/ AcquireLockError(g) \/ ReleaseLock(g)
          \/ UpdatePrimary(g) \/ UpdatePrimaryError(g) \/ GetMasterDetail(g)
          \/ ReadReplica(g) \/ SpawnKill(g) \/ SendNotification(g)
          \/ Crash(g) \/ KillOldPrimaryClients(g))
  BY DEF AcquireLock, AcquireLockError, ReleaseLock, UpdatePrimary, UpdatePrimaryError,
       GetMasterDetail, ReadReplica, SpawnKill, SendNotification, Crash,
       KillOldPrimaryClients, dnsVars
<1>6. ~UNCHANGED vars
  BY DEF vars, dnsVars
<1> QED BY <1>1, <1>2, <1>3, <1>4, <1>5, <1>6 DEF Next, World, HandlerStep

\* What a failover handler writes into the replica record leaves out the node
\* that was promoted, for every answer of the Sentinels.
THEOREM FailoverExcludesPrimary == Spec => FailoverStepExcludesPrimary
<1>1. ReplicaInv /\ [Next]_vars => [ExcludesPrimary]_vars
  <2> SUFFICES ASSUME TypeOK, RolesDiffer, [Next]_vars, NEW h \in Handlers,
                      pc[h] = "replica", pc'[h] # "replica", ev[h].type = "failover",
                      replica' # replica
               PROVE  ev[h].to \notin replica'[Cluster(h)]
    BY DEF ReplicaInv, ExcludesPrimary
  <2>1. UpdateReplica(h)
    BY Writer DEF UpsertReplica
  <2>2. ev[h].from # ev[h].to
    BY DEF RolesDiffer, FromTo
  <2>3. ev[h].to \notin Plan(h).vals
    BY <2>2, PlanCases, FailoverPlanExcludes
  <2>4. replica' = [replica EXCEPT ![Cluster(h)] = Plan(h).vals]
    BY <2>1 DEF UpdateReplica, WriteReplica
  <2> QED BY <2>3, <2>4, LockKeyType DEF TypeOK
<1> QED BY ReplicaInit, ReplicaStep, <1>1, PTL DEF Spec, FailoverStepExcludesPrimary

\* What a replica_down handler writes into the replica record leaves out the
\* node that failed.
THEOREM ReplicaDownExcludesNode == Spec => ReplicaDownStepExcludesNode
<1>1. ReplicaInv /\ [Next]_vars => [ExcludesFailedNode]_vars
  <2> SUFFICES ASSUME TypeOK, ReadOK, [Next]_vars, NEW h \in Handlers,
                      pc[h] \in {"replica", "write"}, pc'[h] # pc[h],
                      ev[h].type = "replica_down", replica' # replica
               PROVE  ev[h].from \notin replica'[Cluster(h)]
    BY DEF ReplicaInv, ExcludesFailedNode
  <2>1. CASE UpdateReplica(h)
    <3>1. replica' = [replica EXCEPT ![Cluster(h)] = Plan(h).vals] /\ Plan(h).op \in {"set", "keep"}
      BY <2>1 DEF UpdateReplica, WriteReplica
    <3>2. ev[h].from \notin Plan(h).vals
      BY <3>1, PlanCases, ReplicaDownPlanExcludes
    <3> QED BY <3>1, <3>2, LockKeyType DEF TypeOK
  <2>2. CASE UpsertReplica(h)
    <3>1. replica' = [replica EXCEPT ![Cluster(h)] = values[h]] /\ pc[h] = "write"
      BY <2>2 DEF UpsertReplica, WriteReplica
    <3> QED BY <3>1, LockKeyType DEF TypeOK, ReadOK
  <2> QED BY <2>1, <2>2, Writer
<1> QED BY ReplicaInit, ReplicaStep, <1>1, PTL DEF Spec, ReplicaDownStepExcludesNode
=============================================================================
