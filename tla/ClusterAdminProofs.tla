------------------------- MODULE ClusterAdminProofs -------------------------
(***************************************************************************)
(* Proofs about ClusterAdmin, for any number of requests, Sentinels, nodes *)
(* and forms: every request keeps to the calls of its handler, the list of *)
(* clusters and their records agree, no DNS record is orphaned, a pause    *)
(* reaches the Sentinels, the delete page cleans up and the sync page      *)
(* repairs.                                                                *)
(***************************************************************************)
EXTENDS ClusterAdmin, TLAPS

-----------------------------------------------------------------------------
(* The inductive invariant.                                                *)

Label(a) == request[a].at

\* The calls of each handler, and what a request has found out when it makes them: the
\* copy of the cluster, and a master to write where it writes a record.
Fits(kind, label, held, got) ==
    /\ kind = "create" => label \in {"save", "index", "monitor", "detail", "primary", "replica"}
    /\ kind = "api create" => label \in {"save", "index"}
    /\ kind = "load" => label \in {"save", "index", "apply"}
    /\ kind = "edit" => label \in {"delete primary", "delete replica", "detail", "primary",
                                      "replica detail", "replica", "save", "index", "set", "apply"}
    /\ kind = "delete" => label \in {"remove", "delete primary", "delete replica",
                                        "get", "del", "srem"}
    /\ kind = "api delete" => label \in {"get", "del", "srem"}
    /\ kind = "pause" => label \in {"detail", "save", "index", "set"}
    /\ kind = "resume" => label \in {"set", "save", "index"}
    /\ kind = "test" => label = "command"
    /\ kind = "sync" => label \in {"detail", "primary", "replica"}
    /\ kind = "event" => label = "primary"
    /\ held = NoCluster => label \in {"get", "del", "srem"}
    /\ got = NoDetail => label \notin {"primary", "replica"}
    /\ kind = "create" /\ held.replica => got # NoDetail

InProgram(a) == Fits(Kind(a), Label(a), Held(a), Got(a))

ClusterTypes == ClusterTypeOK /\ \A a \in Active : InProgram(a)

\* What has not happened yet in a behaviour a property speaks of.
Without(happened) == upsets \intersect happened = {}

\* Requests that overlap are noted; so are deletions that overlap anything.
AloneInv ==
    /\ Without({"race", "delete race"}) => \A a, b \in Active : a = b
    /\ Without({"delete race"}) =>
        \A a, b \in Active : Kind(a) \in {"delete", "api delete"} => a = b

\* The list differs from the records only while a request is between the two.
ListedInv ==
    Without({"delete race", "store"}) =>
        /\ \A a \in Active : /\ Label(a) = "index" => cluster # NoCluster
                             /\ Label(a) = "srem" => cluster = NoCluster
        /\ \/ listed <=> cluster # NoCluster
           \/ \E a \in Active : Label(a) \in {"index", "srem"}

NonePaused == \A s \in SentinelAddrs : monitor[s] # NoMonitor => monitor[s].down # PausedDown
NoneMonitoring == \A s \in SentinelAddrs : monitor[s] = NoMonitor

\* The Sentinels wait for as long as the stored cluster says.
Settled ==
    IF cluster = NoCluster THEN NonePaused
    ELSE \A s \in SentinelAddrs :
            monitor[s] # NoMonitor => (cluster.paused <=> monitor[s].down = PausedDown)

\* How far a request has taken the Sentinels and the stored cluster towards or away
\* from the pause.
PauseAt(kind, label, held) ==
    /\ kind # "api delete"
    /\ kind \in {"test", "sync", "event"} => Settled
    /\ kind \in {"create", "api create", "load", "edit"} =>
        /\ NonePaused /\ ~held.paused
        /\ cluster # NoCluster => ~cluster.paused
    /\ kind = "pause" =>
        /\ NonePaused
        /\ label = "detail" \/ held.paused
        /\ label \in {"index", "set"} => cluster = held
    /\ kind = "resume" /\ label # "set" =>
        /\ NonePaused /\ ~held.paused
        /\ label = "index" => cluster = held
    /\ kind = "delete" =>
        IF held = NoCluster THEN cluster = NoCluster /\ NonePaused
        ELSE label = "remove" \/ NoneMonitoring

PauseStage(a) == PauseAt(Kind(a), Label(a), Held(a))

PauseUpsets == {"race", "delete race", "store", "sentinel", "dns", "api delete",
                "changed while paused"}
PauseInv ==
    Without(PauseUpsets) =>
        /\ cluster # NoCluster => cluster.saved # PausedDown
        /\ \A a \in Active : Held(a) # NoCluster => Held(a).saved # PausedDown
        /\ Active = {} => Settled
        /\ \A a \in Active : PauseStage(a)

\* Cluster record c names the DNS records that exist.
Names(c) ==
    /\ primaryRec # {} => c # NoCluster /\ Loaded(c)
    /\ replicaRec # {} => c # NoCluster /\ Loaded(c) /\ c.replica

\* How far a request has taken the DNS records, and which cluster record, the stored
\* one or its own copy, names them.
RecordsAt(kind, label, held) ==
    /\ kind # "api delete"
    /\ kind \in {"create", "api create", "load", "pause", "resume", "test", "sync", "event"} =>
        Names(cluster)
    /\ kind \in {"create", "api create", "load", "edit", "pause", "resume"} => Names(held)
    /\ kind = "create" =>
        /\ held.replica => Loaded(held)
        /\ label # "save" => cluster = held
    /\ label \in {"primary", "replica"} => Loaded(held)
    /\ label \in {"replica detail", "replica"} => held.replica
    /\ kind = "edit" =>
        /\ label \in {"index", "set", "apply"} => cluster = held
        /\ label = "delete replica" => primaryRec = {}
    /\ kind \in {"sync", "event"} =>
        cluster # NoCluster /\ cluster.provider = held.provider /\ cluster.replica = held.replica
    /\ kind = "delete" =>
        IF held = NoCluster THEN cluster = NoCluster /\ label = "get" /\ Names(cluster)
        ELSE /\ label = "srem" \/ cluster = held
             /\ label = "srem" => cluster = NoCluster
             /\ label \in {"remove", "delete primary"} => Names(cluster)
             /\ label \notin {"remove", "delete primary"} => primaryRec = {}
             /\ label \in {"get", "del", "srem"} => replicaRec = {}
             /\ label = "remove" \/ NoneMonitoring

RecordStage(a) == RecordsAt(Kind(a), Label(a), Held(a))

RecordsUpsets == {"race", "delete race", "store", "sentinel", "dns", "api delete",
                  "provider deleted"}
RecordsInv ==
    Without(RecordsUpsets) =>
        /\ Active = {} => Names(cluster)
        /\ \A a \in Active : RecordStage(a)

\* The sync page writes the master of the answer and, if that is the current one, all
\* the other nodes.
SyncAt(label, got) ==
    /\ label = "detail" => got = NoDetail
    /\ label \in {"primary", "replica"} /\ got.master = master =>
        got.slaves \in {{}, Nodes \ {master}}
    /\ label = "replica" => primaryRec = {got.master}

SyncStage(a) == SyncAt(Label(a), Got(a))

SyncUpsets == {"race", "delete race", "store", "sentinel", "dns"}
SyncInv ==
    Without(SyncUpsets) =>
        \A a \in Active : Kind(a) = "sync" => SyncStage(a)

ClusterInv == AloneInv /\ ListedInv /\ PauseInv /\ RecordsInv /\ SyncInv

-----------------------------------------------------------------------------
(* Types.                                                                  *)

\* What the type invariant says, variable by variable.
LEMMA ClusterParts ==
    ASSUME ClusterTypes
    PROVE  /\ failing \subseteq {"store", "sentinel", "dns"}
           /\ loaded \in BOOLEAN
           /\ cluster \in Cluster \union {NoCluster}
           /\ listed \in BOOLEAN
           /\ monitor \in [SentinelAddrs -> Monitor \union {NoMonitor}]
           /\ master \in Nodes /\ pending \subseteq Nodes
           /\ primaryRec \subseteq Nodes /\ replicaRec \subseteq Nodes
           /\ request \in [Requests -> Request \union {NoRequest}]
           /\ served \in Nat /\ promotions \in Nat
           /\ upsets \subseteq {"race", "delete race", "store", "sentinel", "dns", "api delete",
                                "changed while paused", "provider deleted"}
           /\ \A a \in Active : InProgram(a)
BY Zenon DEF ClusterTypes, ClusterTypeOK

\* What a cluster record, a monitor, an answer, a form and a request consist of.
LEMMA ClusterFields ==
    ASSUME NEW c \in Cluster
    PROVE  /\ c.provider \in {"", "dns", "missing"} /\ c.replica \in BOOLEAN
           /\ c.paused \in BOOLEAN /\ c.saved \in Downs \union {0}
BY DEF Cluster

LEMMA FormFields ==
    ASSUME NEW f \in Form
    PROVE  /\ f.kind \in Kinds /\ f.provider \in {"", "dns", "missing"}
           /\ f.replica \in BOOLEAN /\ f.disable \in BOOLEAN /\ f.password \in BOOLEAN
BY DEF Form

LEMMA FormsAreForms ==
    /\ \A f \in Forms : f \in Form /\ f.kind # "event"
    /\ Report \in Form /\ Report.kind = "event" /\ ~Report.replica
<1>1. \A f \in Forms : f \in [kind : Kinds \ {"event"}, provider : {"", "dns", "missing"},
                             replica : BOOLEAN, disable : BOOLEAN, password : BOOLEAN]
  BY Zenon, ClusterAdminAssumption DEF ClusterAdminAssumption
<1>2. \A f \in Forms : f \in Form /\ f.kind # "event"
  BY <1>1 DEF Form
<1>3. Report \in Form /\ Report.kind = "event" /\ ~Report.replica
  BY DEF Report, Form, Kinds
<1> QED BY <1>2, <1>3

LEMMA MonitorFields ==
    ASSUME NEW m \in Monitor
    PROVE  m.master \in Nodes /\ m.down \in Downs /\ m.known \in BOOLEAN
BY DEF Monitor

LEMMA DetailFields ==
    ASSUME NEW d \in Detail
    PROVE  d.master \in Nodes /\ d.slaves \subseteq Nodes /\ d.down \in Downs
BY DEF Detail

LEMMA RequestFields ==
    ASSUME NEW r \in Request
    PROVE  /\ r.form \in Form /\ r.at \in Calls
           /\ r.held \in Cluster \union {NoCluster} /\ r.got \in Detail \union {NoDetail}
BY DEF Request

\* A request under way: its form, its call, its copy of the cluster and its answer.
LEMMA ActiveFields ==
    ASSUME ClusterTypes, NEW a \in Requests, request[a] # NoRequest
    PROVE  /\ a \in Active /\ request[a] \in Request /\ InProgram(a)
           /\ Asked(a) \in Form /\ Kind(a) \in Kinds /\ Label(a) \in Calls
           /\ Held(a) \in Cluster \union {NoCluster}
           /\ Got(a) \in Detail \union {NoDetail}
<1>1. a \in Active
  BY DEF Active
<1>2. request[a] \in Request
  BY ClusterParts
<1>3. InProgram(a)
  BY <1>1, ClusterParts
<1> QED BY <1>1, <1>2, <1>3, RequestFields, FormFields DEF Asked, Kind, Label, Held, Got

\* A request is replaced by one further on, or by none.
LEMMA Replaced ==
    ASSUME ClusterTypes, NEW a \in Requests, NEW r \in Request \union {NoRequest},
           request' = [request EXCEPT ![a] = r]
    PROVE  /\ request' \in [Requests -> Request \union {NoRequest}]
           /\ request'[a] = r
           /\ \A b \in Requests \ {a} : request'[b] = request[b]
BY ClusterParts

\* Request a goes on to the call label with the copy c and the answer d, or ends.
Goes(a, label, c, d) ==
    /\ request' \in [Requests -> Request \union {NoRequest}]
    /\ \A b \in Requests \ {a} : request'[b] = request[b]
    /\ IF label = "idle" THEN request'[a] = NoRequest
       ELSE /\ request'[a] \in Request /\ request'[a] # NoRequest
            /\ request'[a].form = request[a].form
            /\ request'[a].at = label /\ request'[a].held = c /\ request'[a].got = d

\* A request goes on to its next call.
LEMMA GoesOn ==
    ASSUME ClusterTypes, NEW a \in Requests, request[a] # NoRequest,
           NEW label \in Calls, NEW c \in Cluster \union {NoCluster}, NEW d \in Detail \union {NoDetail},
           request' = [request EXCEPT ![a] = [request[a] EXCEPT !.at = label, !.held = c, !.got = d]]
    PROVE  Goes(a, label, c, d)
<1>1. request[a] \in Request
  BY ActiveFields
<1>2. PICK r : r = [request[a] EXCEPT !.at = label, !.held = c, !.got = d]
  OBVIOUS
<1>3. /\ r \in Request
      /\ r.form = request[a].form /\ r.at = label /\ r.held = c /\ r.got = d
  BY <1>1, <1>2 DEF Request
<1>4. request' = [request EXCEPT ![a] = r]
  BY <1>2
<1>6. label # "idle"
  BY DEF Calls
<1>5. r # NoRequest
  BY <1>3, ClusterNoneAssumption DEF ClusterNoneAssumption
<1> QED BY ZenonT(60), <1>3, <1>4, <1>5, <1>6, Replaced DEF Goes

LEMMA StepGoes ==
    ASSUME ClusterTypes, NEW a \in Requests, request[a] # NoRequest,
           NEW label \in Calls \union {"idle"}, NEW c \in Cluster \union {NoCluster},
           StepWith(a, label, c)
    PROVE  Goes(a, label, c, Got(a))
<1>1. CASE label = "idle"
  <2>1. request' = [request EXCEPT ![a] = NoRequest]
    BY <1>1 DEF StepWith
  <2> QED BY <2>1, <1>1, Replaced DEF Goes
<1>2. CASE label # "idle"
  <2>1. /\ request[a] \in Request
        /\ request' = [request EXCEPT ![a] = [request[a] EXCEPT !.at = label, !.held = c]]
    BY <1>2, ActiveFields DEF StepWith
  <2>2. PICK r : r = [request[a] EXCEPT !.at = label, !.held = c]
    OBVIOUS
  <2>3. /\ r \in Request
        /\ r.form = request[a].form /\ r.at = label /\ r.held = c /\ r.got = request[a].got
    BY <1>2, <2>1, <2>2 DEF Request
  <2>4. request' = [request EXCEPT ![a] = r]
    BY <2>1, <2>2
  <2>5. r # NoRequest
    BY <2>3, ClusterNoneAssumption DEF ClusterNoneAssumption
  <2> QED BY <1>2, <2>3, <2>4, <2>5, Replaced DEF Goes, Got
<1> QED BY <1>1, <1>2

\* A step of a request that keeps its copy.
LEMMA PlainStepGoes ==
    ASSUME ClusterTypes, NEW a \in Requests, request[a] # NoRequest,
           NEW label \in Calls \union {"idle"}, Step(a, label)
    PROVE  Goes(a, label, Held(a), Got(a))
BY StepGoes, ActiveFields DEF Step

-----------------------------------------------------------------------------
(* What the calls of a request do to it.                                   *)

\* A request that ends or goes on keeps its handler; what is left to show is that the
\* other variables keep their types and the call is one of the handler's.
ValuesOK ==
    /\ failing \subseteq {"store", "sentinel", "dns"}
    /\ loaded \in BOOLEAN
    /\ cluster \in Cluster \union {NoCluster}
    /\ listed \in BOOLEAN
    /\ monitor \in [SentinelAddrs -> Monitor \union {NoMonitor}]
    /\ master \in Nodes /\ pending \subseteq Nodes
    /\ primaryRec \subseteq Nodes /\ replicaRec \subseteq Nodes
    /\ served \in Nat /\ promotions \in Nat
    /\ upsets \subseteq {"race", "delete race", "store", "sentinel", "dns", "api delete",
                         "changed while paused", "provider deleted"}

LEMMA TypesValues == ClusterTypes => ValuesOK
BY Zenon DEF ClusterTypes, ClusterTypeOK, ValuesOK

LEMMA TypesStep ==
    ASSUME ClusterTypes, ValuesOK', NEW a \in Requests, NEW label, NEW c, NEW d,
           Goes(a, label, c, d),
           label # "idle" => Fits(Kind(a), label, c, d)
    PROVE  ClusterTypes'
<1>1. \A b \in Requests : request'[b] # NoRequest => InProgram(b)'
  <2> SUFFICES ASSUME NEW b \in Requests, request'[b] # NoRequest PROVE InProgram(b)'
    OBVIOUS
  <2>1. CASE b = a
    <3>1. /\ Kind(a)' = Kind(a) /\ Label(a)' = label /\ Held(a)' = c /\ Got(a)' = d
          /\ label # "idle"
      BY <2>1 DEF Goes, Kind, Label, Held, Got
    <3> QED BY <2>1, <3>1 DEF InProgram
  <2>2. CASE b # a
    <3>1. request'[b] = request[b] /\ InProgram(b)
      BY <2>2, ClusterParts DEF Goes, Active
    <3> QED BY <3>1 DEF InProgram, Kind, Label, Held, Got
  <2> QED BY <2>1, <2>2
<1>2. (\A b \in Active : InProgram(b))'
  BY <1>1 DEF Active
<1>3. (request \in [Requests -> Request \union {NoRequest}])'
  BY DEF Goes
<1>4. (\A b \in Active :
         /\ Held(b) = NoCluster => request[b].at \in {"get", "del", "srem"}
         /\ Got(b) = NoDetail => request[b].at \notin {"primary", "replica"})'
  BY <1>2 DEF InProgram, Fits, Label
<1> QED BY Zenon, <1>2, <1>3, <1>4 DEF ClusterTypes, ClusterTypeOK, ValuesOK

\* A call fails, or does not.
LEMMA FailsEffect ==
    ASSUME ClusterTypes, NEW f, Fails(f)
    PROVE  /\ f \in {"store", "sentinel", "dns"} /\ upsets' = upsets \union {f}
           /\ upsets' \subseteq {"race", "delete race", "store", "sentinel", "dns", "api delete",
                                 "changed while paused", "provider deleted"}
BY ClusterParts DEF Fails, MayFail

\* The calls after SaveCluster.
LEMMA AfterSaveCalls ==
    ASSUME ClusterTypes, NEW a \in Requests, request[a] # NoRequest,
           Label(a) \in {"save", "index"}, NEW ok \in BOOLEAN
    PROVE  /\ AfterSave(a, ok) \in {"replica", "monitor", "apply", "set", "idle"}
           /\ Kind(a) \in {"create", "api create", "load", "edit", "pause", "resume"}
           /\ Kind(a) = "create" => AfterSave(a, ok) = IF Held(a).replica THEN "replica" ELSE "monitor"
           /\ Kind(a) = "load" => AfterSave(a, ok) = IF ok THEN "apply" ELSE "idle"
           /\ Kind(a) \in {"edit", "pause"} => AfterSave(a, ok) = "set"
           /\ Kind(a) \in {"api create", "resume"} => AfterSave(a, ok) = "idle"
<1>1. Kind(a) \in {"create", "api create", "load", "edit", "pause", "resume"}
  BY ActiveFields DEF InProgram, Fits, Kinds
<1> QED BY <1>1 DEF AfterSave

LEMMA SaveEffect ==
    ASSUME ClusterTypes, NEW a \in Requests, Save(a)
    PROVE  /\ request[a] # NoRequest /\ Label(a) = "save" /\ Held(a) \in Cluster
           /\ UNCHANGED <<loaded, listed, monitor, master, primaryRec, replicaRec>>
           /\ \/ cluster' = Held(a) /\ Goes(a, "index", Held(a), Got(a)) /\ UNCHANGED upsets
              \/ /\ UNCHANGED cluster /\ Goes(a, AfterSave(a, FALSE), Held(a), Got(a))
                 /\ upsets' = upsets \union {"store"}
           /\ ClusterTypes'
<1>1. request[a] # NoRequest /\ Label(a) = "save" /\ Held(a) \in Cluster
  BY ActiveFields DEF Save, At, InProgram, Fits, Label
<1>2. UNCHANGED <<failing, loaded, listed, monitor, master, pending, promotions, primaryRec, replicaRec, served>>
  BY DEF Save, nodeVars, recordVars
<1>3. CASE cluster' = Held(a) /\ Step(a, "index") /\ Succeeds
  <2>1. Goes(a, "index", Held(a), Got(a)) /\ UNCHANGED upsets
    BY <1>1, <1>3, PlainStepGoes DEF Calls, Succeeds
  <2>2. ValuesOK'
    BY <1>1, <1>2, <1>3, <2>1, TypesValues DEF ValuesOK
  <2>3. Fits(Kind(a), "index", Held(a), Got(a))
    BY <1>1, ActiveFields DEF InProgram, Fits, Kinds
  <2> QED BY <1>1, <1>2, <1>3, <2>1, <2>2, <2>3, TypesStep
<1>4. CASE UNCHANGED cluster /\ Step(a, AfterSave(a, FALSE)) /\ Fails("store")
  <2>1. Goes(a, AfterSave(a, FALSE), Held(a), Got(a)) /\ upsets' = upsets \union {"store"}
    BY <1>1, <1>4, AfterSaveCalls, PlainStepGoes, FailsEffect DEF Calls
  <2>2. ValuesOK'
    BY <1>2, <1>4, TypesValues, FailsEffect DEF ValuesOK
  <2>3. AfterSave(a, FALSE) # "idle" => Fits(Kind(a), AfterSave(a, FALSE), Held(a), Got(a))
    BY <1>1, ActiveFields, AfterSaveCalls DEF InProgram, Fits
  <2> QED BY <1>1, <1>2, <1>4, <2>1, <2>2, <2>3, TypesStep
<1> QED BY <1>3, <1>4 DEF Save

LEMMA IndexEffect ==
    ASSUME ClusterTypes, NEW a \in Requests, Index(a)
    PROVE  /\ request[a] # NoRequest /\ Label(a) = "index" /\ Held(a) \in Cluster
           /\ UNCHANGED <<loaded, cluster, monitor, master, primaryRec, replicaRec>>
           /\ \/ listed' = TRUE /\ Goes(a, AfterSave(a, TRUE), Held(a), Got(a)) /\ UNCHANGED upsets
              \/ /\ UNCHANGED listed /\ Goes(a, AfterSave(a, FALSE), Held(a), Got(a))
                 /\ upsets' = upsets \union {"store"}
           /\ ClusterTypes'
<1>1. request[a] # NoRequest /\ Label(a) = "index" /\ Held(a) \in Cluster
  BY ActiveFields DEF Index, At, InProgram, Fits, Label
<1>2. UNCHANGED <<failing, loaded, cluster, monitor, master, pending, promotions, primaryRec, replicaRec, served>>
  BY DEF Index, nodeVars, recordVars
<1>3. ASSUME NEW ok \in BOOLEAN, Step(a, AfterSave(a, ok)), listed' \in BOOLEAN,
             upsets' \subseteq {"race", "delete race", "store", "sentinel", "dns", "api delete",
                                "changed while paused", "provider deleted"}
      PROVE  Goes(a, AfterSave(a, ok), Held(a), Got(a)) /\ ClusterTypes'
  <2>1. Goes(a, AfterSave(a, ok), Held(a), Got(a))
    BY <1>1, <1>3, AfterSaveCalls, PlainStepGoes DEF Calls
  <2>2. ValuesOK'
    BY <1>2, <1>3, TypesValues DEF ValuesOK
  <2>3. AfterSave(a, ok) # "idle" => Fits(Kind(a), AfterSave(a, ok), Held(a), Got(a))
    BY <1>1, ActiveFields, AfterSaveCalls DEF InProgram, Fits
  <2> QED BY <2>1, <2>2, <2>3, TypesStep
<1>4. CASE Sadd /\ Step(a, AfterSave(a, TRUE)) /\ Succeeds
  BY <1>1, <1>2, <1>3, <1>4, ClusterParts DEF Sadd, Succeeds
<1>5. CASE UNCHANGED listed /\ Step(a, AfterSave(a, FALSE)) /\ Fails("store")
  BY <1>1, <1>2, <1>3, <1>5, ClusterParts, FailsEffect
<1> QED BY <1>4, <1>5 DEF Index

LEMMA GetForDeleteEffect ==
    ASSUME ClusterTypes, NEW a \in Requests, GetForDelete(a)
    PROVE  /\ request[a] # NoRequest /\ Label(a) = "get"
           /\ UNCHANGED <<loaded, cluster, listed, monitor, master, primaryRec, replicaRec>>
           /\ \/ /\ Goes(a, IF cluster = NoCluster THEN "idle" ELSE "del", Held(a), Got(a))
                 /\ UNCHANGED upsets
              \/ Goes(a, "idle", Held(a), Got(a)) /\ upsets' = upsets \union {"store"}
           /\ ClusterTypes'
<1>1. request[a] # NoRequest /\ Label(a) = "get"
  BY DEF GetForDelete, At, Label
<1>2. UNCHANGED <<failing, loaded, cluster, listed, monitor, master, pending, promotions, primaryRec,
                  replicaRec, served>>
  BY DEF GetForDelete, storedVars, nodeVars, recordVars
<1>3. ASSUME NEW label \in {"del", "idle"}, Step(a, label),
             upsets' \subseteq {"race", "delete race", "store", "sentinel", "dns", "api delete",
                                "changed while paused", "provider deleted"}
      PROVE  Goes(a, label, Held(a), Got(a)) /\ ClusterTypes'
  <2>1. Goes(a, label, Held(a), Got(a))
    BY <1>1, <1>3, PlainStepGoes DEF Calls
  <2>2. ValuesOK'
    BY <1>2, <1>3, TypesValues DEF ValuesOK
  <2>3. label # "idle" => Fits(Kind(a), label, Held(a), Got(a))
    BY <1>1, ActiveFields DEF InProgram, Fits
  <2> QED BY <2>1, <2>2, <2>3, TypesStep
<1>4. CASE Step(a, IF cluster = NoCluster THEN "idle" ELSE "del") /\ Succeeds
  BY <1>1, <1>2, <1>3, <1>4, ClusterParts DEF Succeeds
<1>5. CASE Step(a, "idle") /\ Fails("store")
  BY <1>1, <1>2, <1>3, <1>5, FailsEffect
<1> QED BY <1>4, <1>5 DEF GetForDelete

LEMMA DelEffect ==
    ASSUME ClusterTypes, NEW a \in Requests, Del(a)
    PROVE  /\ request[a] # NoRequest /\ Label(a) = "del"
           /\ UNCHANGED <<loaded, listed, monitor, master, primaryRec, replicaRec>>
           /\ Goes(a, "srem", Held(a), Got(a))
           /\ \/ cluster' = NoCluster /\ UNCHANGED upsets
              \/ UNCHANGED cluster /\ upsets' = upsets \union {"store"}
           /\ ClusterTypes'
<1>1. request[a] # NoRequest /\ Label(a) = "del"
  BY DEF Del, At, Label
<1>2. UNCHANGED <<failing, loaded, listed, monitor, master, pending, promotions, primaryRec, replicaRec, served>>
  BY DEF Del, nodeVars, recordVars
<1>3. Goes(a, "srem", Held(a), Got(a))
  BY <1>1, PlainStepGoes DEF Del, Calls
<1>4. \/ cluster' = NoCluster /\ UNCHANGED upsets
      \/ UNCHANGED cluster /\ upsets' = upsets \union {"store"}
  BY FailsEffect DEF Del, Succeeds
<1>5. ValuesOK'
  BY <1>2, <1>4, TypesValues DEF ValuesOK
<1>6. Fits(Kind(a), "srem", Held(a), Got(a))
  BY <1>1, ActiveFields DEF InProgram, Fits
<1> QED BY <1>1, <1>2, <1>3, <1>4, <1>5, <1>6, TypesStep

LEMMA SremEffect ==
    ASSUME ClusterTypes, NEW a \in Requests, Srem(a)
    PROVE  /\ request[a] # NoRequest /\ Label(a) = "srem"
           /\ UNCHANGED <<loaded, cluster, monitor, master, primaryRec, replicaRec>>
           /\ Goes(a, "idle", Held(a), Got(a))
           /\ \/ listed' = FALSE /\ UNCHANGED upsets
              \/ UNCHANGED listed /\ upsets' = upsets \union {"store"}
           /\ ClusterTypes'
<1>1. request[a] # NoRequest /\ Label(a) = "srem"
  BY DEF Srem, At, Label
<1>2. UNCHANGED <<failing, loaded, cluster, monitor, master, pending, promotions, primaryRec, replicaRec, served>>
  BY DEF Srem, nodeVars, recordVars
<1>3. Goes(a, "idle", Held(a), Got(a))
  BY <1>1, PlainStepGoes DEF Srem
<1>4. \/ listed' = FALSE /\ UNCHANGED upsets
      \/ UNCHANGED listed /\ upsets' = upsets \union {"store"}
  BY FailsEffect DEF Srem, Succeeds
<1>5. ValuesOK'
  BY <1>2, <1>4, TypesValues DEF ValuesOK
<1> QED BY <1>1, <1>2, <1>3, <1>4, <1>5, TypesStep

\* A command to the Sentinels: those it reaches are some of them, all if nothing fails.
LEMMA ReachedSome ==
    ASSUME NEW R \in Reached
    PROVE  R \subseteq SentinelAddrs
BY DEF Reached

LEMMA CommandEffect ==
    ASSUME ClusterTypes, NEW R \in Reached, Command(R)
    PROVE  /\ UNCHANGED <<failing, loaded, cluster, listed, master, pending, promotions, primaryRec,
                          replicaRec, served>>
           /\ upsets \subseteq upsets'
           /\ "sentinel" \notin upsets' => R = SentinelAddrs
           /\ upsets' \subseteq {"race", "delete race", "store", "sentinel", "dns", "api delete",
                                 "changed while paused", "provider deleted"}
<1>1. UNCHANGED <<failing, loaded, cluster, listed, master, pending, promotions, primaryRec, replicaRec, served>>
  BY DEF Command, storedVars, nodeVars, recordVars
<1>2. CASE R = SentinelAddrs
  BY <1>1, <1>2, ClusterParts DEF Command
<1>3. CASE R # SentinelAddrs
  BY <1>1, <1>3, ClusterParts DEF Command
<1> QED BY <1>2, <1>3

\* What a command does to one Sentinel.
LEMMA SentinelMonitorEffect ==
    ASSUME ClusterTypes, NEW R \in SUBSET SentinelAddrs, SentinelMonitor(R)
    PROVE  /\ monitor' \in [SentinelAddrs -> Monitor \union {NoMonitor}]
           /\ \A s \in SentinelAddrs : \/ monitor'[s] = monitor[s]
                                       \/ monitor'[s] # NoMonitor /\ monitor'[s].down = DefaultDown
<1>1. [master |-> master, down |-> DefaultDown, known |-> FALSE] \in Monitor
  BY ClusterParts DEF Monitor, Downs
<1> QED BY <1>1, ClusterParts, ClusterNoneAssumption DEF SentinelMonitor, ClusterNoneAssumption

LEMMA SetConfigEffects ==
    ASSUME ClusterTypes, NEW R \in SUBSET SentinelAddrs, NEW down \in Downs, SentinelSetConfig(R, down)
    PROVE  /\ monitor' \in [SentinelAddrs -> Monitor \union {NoMonitor}]
           /\ \A s \in SentinelAddrs : monitor[s] = NoMonitor => monitor'[s] = NoMonitor
           /\ \A s \in SentinelAddrs : monitor[s] # NoMonitor =>
                /\ monitor'[s] # NoMonitor
                /\ monitor'[s].down = IF s \in R THEN down ELSE monitor[s].down
<1> SUFFICES ASSUME NEW s \in SentinelAddrs
             PROVE  /\ monitor'[s] \in Monitor \union {NoMonitor}
                    /\ monitor[s] = NoMonitor => monitor'[s] = NoMonitor
                    /\ monitor[s] # NoMonitor =>
                        /\ monitor'[s] # NoMonitor
                        /\ monitor'[s].down = IF s \in R THEN down ELSE monitor[s].down
  BY DEF SentinelSetConfig
<1>1. CASE s \in R /\ monitor[s] # NoMonitor
  <2>1. monitor[s] \in Monitor /\ monitor'[s] = [monitor[s] EXCEPT !.down = down]
    BY <1>1, ClusterParts DEF SentinelSetConfig
  <2>2. PICK m : m = [monitor[s] EXCEPT !.down = down]
    OBVIOUS
  <2>3. m \in Monitor /\ m.down = down
    BY <2>1, <2>2 DEF Monitor
  <2> QED BY <1>1, <2>1, <2>2, <2>3, ClusterNoneAssumption DEF ClusterNoneAssumption
<1>2. CASE ~(s \in R /\ monitor[s] # NoMonitor)
  BY <1>2, ClusterParts DEF SentinelSetConfig
<1> QED BY <1>1, <1>2

LEMMA SentinelRemoveEffect ==
    ASSUME ClusterTypes, NEW R \in SUBSET SentinelAddrs, SentinelRemove(R)
    PROVE  /\ monitor' \in [SentinelAddrs -> Monitor \union {NoMonitor}]
           /\ \A s \in SentinelAddrs : monitor'[s] = IF s \in R THEN NoMonitor ELSE monitor[s]
BY ClusterParts DEF SentinelRemove

LEMMA MonitorAllEffect ==
    ASSUME ClusterTypes, NEW a \in Requests, MonitorAll(a)
    PROVE  /\ request[a] # NoRequest /\ Label(a) = "monitor"
           /\ UNCHANGED <<loaded, cluster, listed, master, primaryRec, replicaRec>>
           /\ \A s \in SentinelAddrs : \/ monitor'[s] = monitor[s]
                                       \/ monitor'[s] # NoMonitor /\ monitor'[s].down = DefaultDown
           /\ Goes(a, "detail", Held(a), Got(a))
           /\ upsets \subseteq upsets'
           /\ ClusterTypes'
<1>1. request[a] # NoRequest /\ Label(a) = "monitor"
  BY DEF MonitorAll, At, Label
<1>2. PICK R \in Reached : SentinelMonitor(R) /\ Command(R)
  BY DEF MonitorAll
<1>3. Goes(a, "detail", Held(a), Got(a))
  BY <1>1, PlainStepGoes DEF MonitorAll, Calls
<1>4. ValuesOK'
  BY <1>2, ReachedSome, CommandEffect, SentinelMonitorEffect, TypesValues DEF ValuesOK
<1>5. Fits(Kind(a), "detail", Held(a), Got(a))
  BY <1>1, ActiveFields DEF InProgram, Fits
<1> QED BY <1>1, <1>2, <1>3, <1>4, <1>5, TypesStep, ReachedSome, CommandEffect, SentinelMonitorEffect

\* The interval a request sets.
LEMMA DownOfKind ==
    ASSUME ClusterTypes, NEW a \in Requests, request[a] # NoRequest, Label(a) \in {"set", "apply"}
    PROVE  /\ Held(a) \in Cluster /\ Kind(a) \in {"edit", "load", "pause", "resume"}
           /\ Kind(a) = "load" => Label(a) = "apply"
           /\ Kind(a) \in {"pause", "resume"} => Label(a) = "set"
           /\ DownOf(a) \in Downs
           /\ Kind(a) = "pause" => DownOf(a) = PausedDown
           /\ Kind(a) \in {"edit", "load"} => DownOf(a) \in {FormDown, DefaultDown}
           /\ Kind(a) = "resume" =>
                DownOf(a) = IF Held(a).saved = 0 THEN DefaultDown ELSE Held(a).saved
<1>1. /\ Kind(a) \in {"edit", "load", "pause", "resume"} /\ Held(a) \in Cluster
      /\ Kind(a) = "load" => Label(a) = "apply"
      /\ Kind(a) \in {"pause", "resume"} => Label(a) = "set"
  BY ActiveFields DEF InProgram, Fits, Kinds
<1>2. Held(a).saved \in Downs \union {0}
  BY <1>1, ClusterFields
<1> QED BY <1>1, <1>2 DEF DownOf, Downs

LEMMA SetConfigEffect ==
    ASSUME ClusterTypes, NEW a \in Requests, SetConfig(a)
    PROVE  /\ request[a] # NoRequest /\ Label(a) = "set"
           /\ UNCHANGED <<loaded, cluster, listed, master, primaryRec, replicaRec>>
           /\ \E R \in SUBSET SentinelAddrs :
                SentinelSetConfig(R, DownOf(a)) /\ ("sentinel" \notin upsets' => R = SentinelAddrs)
           /\ IF Kind(a) = "resume"
              THEN \E c \in Cluster :
                    /\ c.provider = Held(a).provider /\ c.replica = Held(a).replica
                    /\ ~c.paused /\ c.saved = 0
                    /\ Goes(a, "save", c, Got(a))
              ELSE \E label \in {"apply", "idle"} :
                    /\ label = "apply" => Kind(a) = "edit"
                    /\ Goes(a, label, Held(a), Got(a))
           /\ upsets \subseteq upsets'
           /\ ClusterTypes'
<1>1. request[a] # NoRequest /\ Label(a) = "set"
  BY DEF SetConfig, At, Label
<1>2. PICK R \in Reached : SentinelSetConfig(R, DownOf(a)) /\ Command(R)
  BY DEF SetConfig
<1>3. R \in SUBSET SentinelAddrs /\ Held(a) \in Cluster /\ DownOf(a) \in Downs
  BY <1>1, <1>2, ReachedSome, DownOfKind
<1>4. ValuesOK'
  BY <1>2, <1>3, CommandEffect, SetConfigEffects, TypesValues DEF ValuesOK
<1>5. /\ UNCHANGED <<loaded, cluster, listed, master, primaryRec, replicaRec>>
      /\ upsets \subseteq upsets'
      /\ "sentinel" \notin upsets' => R = SentinelAddrs
  BY <1>2, CommandEffect
<1>6. CASE Kind(a) = "resume"
  <2>1. PICK c : c = [Held(a) EXCEPT !.paused = FALSE, !.saved = 0]
    OBVIOUS
  <2>2. /\ c \in Cluster /\ c.provider = Held(a).provider /\ c.replica = Held(a).replica
        /\ ~c.paused /\ c.saved = 0
    BY <1>3, <2>1 DEF Cluster
  <2>3. Goes(a, "save", c, Got(a))
    BY <1>1, <1>6, <2>1, <2>2, StepGoes DEF SetConfig, Calls
  <2>4. Fits(Kind(a), "save", c, Got(a))
    BY <1>1, <1>6, <2>2, ActiveFields, ClusterNoneAssumption DEF InProgram, Fits, ClusterNoneAssumption
  <2>5. ClusterTypes'
    BY <1>4, <2>3, <2>4, TypesStep
  <2> QED BY <1>1, <1>2, <1>3, <1>5, <1>6, <2>2, <2>3, <2>5
<1>7. CASE Kind(a) # "resume"
  <2>1. PICK label \in {"apply", "idle"} :
            label = (IF Kind(a) = "edit" /\ Asked(a).password THEN "apply" ELSE "idle")
    OBVIOUS
  <2>2. (label = "apply" => Kind(a) = "edit") /\ Goes(a, label, Held(a), Got(a))
    BY <1>1, <1>7, <2>1, PlainStepGoes DEF SetConfig, Calls
  <2>3. label # "idle" => Fits(Kind(a), label, Held(a), Got(a))
    BY <1>1, <2>2, ActiveFields DEF InProgram, Fits
  <2>4. ClusterTypes'
    BY <1>4, <2>2, <2>3, TypesStep
  <2> QED BY <1>1, <1>2, <1>3, <1>5, <1>7, <2>2, <2>4
<1> QED BY <1>6, <1>7

LEMMA ApplyConfigEffect ==
    ASSUME ClusterTypes, NEW a \in Requests, ApplyConfig(a)
    PROVE  /\ request[a] # NoRequest /\ Label(a) = "apply"
           /\ UNCHANGED <<loaded, cluster, listed, master, primaryRec, replicaRec>>
           /\ \E R \in SUBSET SentinelAddrs :
                SentinelSetConfig(R, DownOf(a)) /\ ("sentinel" \notin upsets' => R = SentinelAddrs)
           /\ Goes(a, "idle", Held(a), Got(a))
           /\ upsets \subseteq upsets'
           /\ ClusterTypes'
<1>1. request[a] # NoRequest /\ Label(a) = "apply"
  BY DEF ApplyConfig, At, Label
<1>2. PICK R \in Reached : SentinelSetConfig(R, DownOf(a)) /\ Command(R)
  BY DEF ApplyConfig, SentinelApplyConfig
<1>3. R \in SUBSET SentinelAddrs /\ DownOf(a) \in Downs
  BY <1>1, <1>2, ReachedSome, DownOfKind
<1>4. ValuesOK'
  BY <1>2, <1>3, CommandEffect, SetConfigEffects, TypesValues DEF ValuesOK
<1>5. /\ UNCHANGED <<loaded, cluster, listed, master, primaryRec, replicaRec>>
      /\ upsets \subseteq upsets'
      /\ "sentinel" \notin upsets' => R = SentinelAddrs
  BY <1>2, CommandEffect
<1>6. Goes(a, "idle", Held(a), Got(a))
  BY <1>1, PlainStepGoes DEF ApplyConfig
<1>7. ClusterTypes'
  BY <1>4, <1>6, TypesStep
<1> QED BY <1>1, <1>2, <1>3, <1>5, <1>6, <1>7

LEMMA RemoveAllEffect ==
    ASSUME ClusterTypes, NEW a \in Requests, RemoveAll(a)
    PROVE  /\ request[a] # NoRequest /\ Label(a) = "remove"
           /\ UNCHANGED <<loaded, cluster, listed, master, primaryRec, replicaRec>>
           /\ \E R \in SUBSET SentinelAddrs :
                /\ \A s \in SentinelAddrs : monitor'[s] = IF s \in R THEN NoMonitor ELSE monitor[s]
                /\ "sentinel" \notin upsets' => R = SentinelAddrs
           /\ Goes(a, IF Loaded(Held(a)) THEN "delete primary" ELSE "get", Held(a), Got(a))
           /\ upsets \subseteq upsets'
           /\ ClusterTypes'
<1>1. request[a] # NoRequest /\ Label(a) = "remove"
  BY DEF RemoveAll, At, Label
<1>2. PICK R \in Reached : SentinelRemove(R) /\ Command(R)
  BY DEF RemoveAll
<1>3. R \in SUBSET SentinelAddrs
  BY <1>2, ReachedSome
<1>4. ValuesOK'
  BY <1>2, <1>3, CommandEffect, SentinelRemoveEffect, TypesValues DEF ValuesOK
<1>5. /\ UNCHANGED <<loaded, cluster, listed, master, primaryRec, replicaRec>>
      /\ upsets \subseteq upsets'
      /\ "sentinel" \notin upsets' => R = SentinelAddrs
  BY <1>2, CommandEffect
<1>6. Goes(a, IF Loaded(Held(a)) THEN "delete primary" ELSE "get", Held(a), Got(a))
  BY <1>1, PlainStepGoes DEF RemoveAll, Calls
<1>7. Fits(Kind(a), IF Loaded(Held(a)) THEN "delete primary" ELSE "get", Held(a), Got(a))
  BY <1>1, ActiveFields DEF InProgram, Fits
<1>8. ClusterTypes'
  BY <1>4, <1>6, <1>7, TypesStep
<1> QED BY <1>1, <1>2, <1>3, <1>5, <1>6, <1>8, SentinelRemoveEffect

\* What a Sentinel answers: if it names the current master, all the other nodes or no
\* replicas.
LEMMA AnswerFields ==
    ASSUME ClusterTypes, NEW d \in Answers
    PROVE  /\ d \in Detail \union {NoDetail}
           /\ d # NoDetail =>
                /\ d.master = master => d.slaves \in {{}, Nodes \ {master}}
                /\ \E s \in Monitoring : d.down = monitor[s].down
<1>1. CASE d = NoDetail
  BY <1>1
<1>2. CASE d # NoDetail
  <2>1. PICK s \in Monitoring : \E n \in {monitor[s].master, master} :
            d = [master |-> monitor[s].master,
                 slaves |-> IF monitor[s].known THEN Nodes \ {n} ELSE {}, down |-> monitor[s].down]
    BY <1>2 DEF Answers
  <2>2. PICK n \in {monitor[s].master, master} :
            d = [master |-> monitor[s].master,
                 slaves |-> IF monitor[s].known THEN Nodes \ {n} ELSE {}, down |-> monitor[s].down]
    BY <2>1
  <2>3. s \in SentinelAddrs /\ monitor[s] \in Monitor
    BY <2>1, ClusterParts DEF Monitoring
  <2>4. monitor[s].down \in Downs /\ monitor[s].master \in Nodes
    BY <2>3, MonitorFields
  <2>5. /\ d.master = monitor[s].master /\ d.down = monitor[s].down
        /\ d.slaves = IF monitor[s].known THEN Nodes \ {n} ELSE {}
    BY <2>2
  <2>6. d \in Detail
    BY <2>2, <2>4 DEF Detail
  <2> QED BY <2>2, <2>5, <2>6
<1> QED BY <1>1, <1>2

\* What a query leads to: only a pause changes the copy of the cluster.
QueryLeads(a, d, label, c) ==
    /\ Kind(a) = "pause" =>
        /\ label = "save" /\ c.paused /\ c.saved = Noted(d)
        /\ c.provider = Held(a).provider /\ c.replica = Held(a).replica
    /\ Kind(a) # "pause" => c = Held(a)
    /\ Kind(a) \in {"create", "sync"} => label = IF Usable(a, d) THEN "primary" ELSE "idle"
    /\ Kind(a) = "edit" /\ Label(a) = "detail" => label = IF Usable(a, d) THEN "primary" ELSE "save"
    /\ Kind(a) = "edit" /\ Label(a) # "detail" =>
        label = IF Usable(a, d) /\ d.slaves # {} THEN "replica" ELSE "save"

LEMMA QueryDetailEffect ==
    ASSUME ClusterTypes, NEW a \in Requests, QueryDetail(a)
    PROVE  /\ request[a] # NoRequest /\ Label(a) \in {"detail", "replica detail"}
           /\ Kind(a) \in {"create", "edit", "pause", "sync"} /\ Held(a) \in Cluster
           /\ UNCHANGED <<loaded, cluster, listed, monitor, master, primaryRec, replicaRec>>
           /\ \E d \in Answers, c \in Cluster, label \in Calls \union {"idle"} :
                /\ QueryLeads(a, d, label, c)
                /\ Goes(a, label, c, d)
           /\ upsets \subseteq upsets'
           /\ ClusterTypes'
<1>1. /\ request[a] # NoRequest /\ Label(a) \in {"detail", "replica detail"}
  BY DEF QueryDetail, At, Label
<1>2. /\ Kind(a) \in {"create", "edit", "pause", "sync"} /\ Held(a) \in Cluster
      /\ Label(a) = "replica detail" => Kind(a) = "edit"
  BY <1>1, ActiveFields DEF InProgram, Fits, Kinds
<1>3. UNCHANGED <<failing, loaded, cluster, listed, monitor, master, pending, promotions, primaryRec,
                  replicaRec, served>>
  BY DEF QueryDetail, storedVars, nodeVars, recordVars
<1> DEFINE next(d) ==
        CASE Kind(a) = "pause" -> "save"
          [] Kind(a) \in {"create", "sync"} -> IF Usable(a, d) THEN "primary" ELSE "idle"
          [] Kind(a) = "edit" /\ At(a, "detail") -> IF Usable(a, d) THEN "primary" ELSE "save"
          [] OTHER -> IF Usable(a, d) /\ d.slaves # {} THEN "replica" ELSE "save"
<1> DEFINE copy(d) ==
        IF Kind(a) = "pause" THEN [Held(a) EXCEPT !.paused = TRUE, !.saved = Noted(d)] ELSE Held(a)
<1>4. PICK d \in Answers :
        /\ request' = [request EXCEPT ![a] = IF next(d) = "idle" THEN NoRequest
                           ELSE [@ EXCEPT !.at = next(d), !.held = copy(d), !.got = d]]
        /\ upsets' = upsets \union (IF d = NoDetail /\ Monitoring # {} THEN {"sentinel"} ELSE {})
  BY Zenon DEF QueryDetail
<1>5. d \in Detail \union {NoDetail}
  BY AnswerFields
<1>6. PICK label \in Calls \union {"idle"} :
        /\ label = next(d)
        /\ Kind(a) = "pause" => label = "save"
        /\ Kind(a) \in {"create", "sync"} => label = IF Usable(a, d) THEN "primary" ELSE "idle"
        /\ Kind(a) = "edit" /\ Label(a) = "detail" => label = IF Usable(a, d) THEN "primary" ELSE "save"
        /\ Kind(a) = "edit" /\ Label(a) # "detail" =>
            label = IF Usable(a, d) /\ d.slaves # {} THEN "replica" ELSE "save"
  BY <1>1, <1>2 DEF Calls, At, Label
<1>7. PICK c \in Cluster :
        /\ c = copy(d)
        /\ Kind(a) = "pause" => /\ c.paused /\ c.saved = Noted(d)
                                /\ c.provider = Held(a).provider /\ c.replica = Held(a).replica
        /\ Kind(a) # "pause" => c = Held(a)
  <2>1. CASE Kind(a) = "pause"
    <3>1. Noted(d) \in Downs
      BY <1>5, DetailFields DEF Noted, Downs
    <3>2. PICK c : c = [Held(a) EXCEPT !.paused = TRUE, !.saved = Noted(d)]
      OBVIOUS
    <3>3. /\ c \in Cluster /\ c.paused /\ c.saved = Noted(d)
          /\ c.provider = Held(a).provider /\ c.replica = Held(a).replica
      BY <1>2, <3>1, <3>2 DEF Cluster
    <3> QED BY <2>1, <3>2, <3>3
  <2>2. CASE Kind(a) # "pause"
    BY <1>2, <2>2
  <2> QED BY <2>1, <2>2
<1> HIDE DEF next, copy
<1>8. request' = [request EXCEPT ![a] = IF label = "idle" THEN NoRequest
                      ELSE [@ EXCEPT !.at = label, !.held = c, !.got = d]]
  BY <1>4, <1>6, <1>7
<1>9. Goes(a, label, c, d)
  <2>1. CASE label = "idle"
    <3>1. request' = [request EXCEPT ![a] = NoRequest]
      BY <1>8, <2>1
    <3> QED BY <2>1, <3>1, Replaced DEF Goes
  <2>2. CASE label # "idle"
    <3>1. request' = [request EXCEPT ![a] = [request[a] EXCEPT !.at = label, !.held = c, !.got = d]]
      BY <1>8, <2>2
    <3>2. label \in Calls /\ c \in Cluster \union {NoCluster}
      BY <2>2
    <3> QED BY <1>1, <1>5, <3>1, <3>2, GoesOn
  <2> QED BY <2>1, <2>2
<1>10. upsets \subseteq upsets' /\ ValuesOK'
  BY <1>3, <1>4, TypesValues DEF ValuesOK
<1>11. label # "idle" => Fits(Kind(a), label, c, d)
  BY <1>1, <1>2, <1>6, <1>7, ActiveFields, ClusterNoneAssumption DEF InProgram, Fits, Usable, ClusterNoneAssumption
<1>12. QueryLeads(a, d, label, c)
  BY <1>6, <1>7 DEF QueryLeads
<1>13. ClusterTypes'
  BY <1>9, <1>10, <1>11, TypesStep
<1> QED BY <1>1, <1>2, <1>3, <1>9, <1>10, <1>12, <1>13

\* A request that writes a record has a cluster and an answer.
LEMMA WritesFields ==
    ASSUME ClusterTypes, NEW a \in Requests, request[a] # NoRequest, Label(a) \in {"primary", "replica"}
    PROVE  /\ Held(a) \in Cluster /\ Got(a) \in Detail
           /\ Got(a).master \in Nodes /\ Got(a).slaves \subseteq Nodes
           /\ Kind(a) \in {"create", "edit", "sync", "event"}
           /\ Label(a) = "replica" => Kind(a) # "event"
<1>1. /\ Held(a) \in Cluster /\ Got(a) \in Detail
      /\ Kind(a) \in {"create", "edit", "sync", "event"}
      /\ Label(a) = "replica" => Kind(a) # "event"
  BY ActiveFields DEF InProgram, Fits, Kinds
<1> QED BY <1>1, DetailFields

\* The values of the replica record are replicas of the answer: for sync, those that the
\* answer does not name as the master too.
LEMMA ReplicaValuesFields ==
    ASSUME ClusterTypes, NEW a \in Requests, request[a] # NoRequest, Label(a) \in {"primary", "replica"}
    PROVE  /\ ReplicaValues(a) \subseteq Nodes
           /\ Kind(a) = "sync" => ReplicaValues(a) = Got(a).slaves \ {Got(a).master}
BY WritesFields DEF ReplicaValues

\* Writing the primary record may turn the replica record on, and only then goes on to it.
PrimaryLeads(a, label, c) ==
    /\ c.provider = Held(a).provider /\ c.saved = Held(a).saved /\ c.paused = Held(a).paused
    /\ Held(a).replica => c.replica
    /\ Kind(a) = "create" => (label = "save" /\ c.replica) \/ label = "idle"
    /\ Kind(a) = "edit" => (label = "replica" /\ c.replica) \/ label = "save"
    /\ Kind(a) = "sync" =>
        /\ c.replica = Held(a).replica
        /\ label = IF Held(a).replica /\ Got(a).slaves \ {Got(a).master} # {} THEN "replica" ELSE "idle"
    /\ Kind(a) = "event" => label = "idle"

LEMMA UpdatePrimaryEffect ==
    ASSUME ClusterTypes, NEW a \in Requests, UpdatePrimary(a)
    PROVE  /\ request[a] # NoRequest /\ Label(a) = "primary"
           /\ UNCHANGED <<loaded, cluster, listed, monitor, master, replicaRec>>
           /\ \/ primaryRec' = {Got(a).master} /\ UNCHANGED upsets
              \/ UNCHANGED primaryRec /\ upsets' = upsets \union {"dns"}
           /\ \E c \in Cluster, label \in {"save", "replica", "idle"} :
                PrimaryLeads(a, label, c) /\ Goes(a, label, c, Got(a))
           /\ ClusterTypes'
<1>1. request[a] # NoRequest /\ Label(a) = "primary"
  BY Zenon DEF UpdatePrimary, At, Label
<1>2. /\ UNCHANGED <<failing, loaded, cluster, listed, monitor, master, pending, promotions, replicaRec, served>>
      /\ \/ primaryRec' = {Got(a).master} /\ UNCHANGED upsets
         \/ UNCHANGED primaryRec /\ Fails("dns")
  BY DEF UpdatePrimary, dnsFrame, storedVars, nodeVars, Succeeds
<1> DEFINE more == ReplicaValues(a) # {}
                   /\ IF Kind(a) = "sync" THEN Held(a).replica ELSE Asked(a).replica
<1> DEFINE next == CASE Kind(a) = "create" -> IF more THEN "save" ELSE "idle"
                     [] Kind(a) = "edit" -> IF more THEN "replica" ELSE "save"
                     [] Kind(a) = "sync" -> IF more THEN "replica" ELSE "idle"
                     [] Kind(a) = "event" -> "idle"
<1>3. StepWith(a, next, [Held(a) EXCEPT !.replica = @ \/ more])
  BY Zenon DEF UpdatePrimary
<1>4. /\ Held(a) \in Cluster /\ Got(a) \in Detail
      /\ Kind(a) \in {"create", "edit", "sync", "event"}
  BY <1>1, WritesFields
<1>5. PICK label \in {"save", "replica", "idle"} :
        /\ label = next
        /\ Kind(a) = "create" => label = IF more THEN "save" ELSE "idle"
        /\ Kind(a) = "edit" => label = IF more THEN "replica" ELSE "save"
        /\ Kind(a) = "sync" => label = IF more THEN "replica" ELSE "idle"
        /\ Kind(a) = "event" => label = "idle"
  BY <1>4
<1>6. PICK c \in Cluster :
        /\ c = [Held(a) EXCEPT !.replica = @ \/ more]
        /\ c.provider = Held(a).provider /\ c.saved = Held(a).saved /\ c.paused = Held(a).paused
        /\ c.replica = (Held(a).replica \/ more)
  <2>1. PICK c : c = [Held(a) EXCEPT !.replica = @ \/ more]
    OBVIOUS
  <2>2. Held(a).replica \in BOOLEAN /\ more \in BOOLEAN
    BY <1>4, ClusterFields
  <2>3. (Held(a).replica \/ more) \in BOOLEAN
    BY <2>2
  <2> HIDE DEF more
  <2>4. c \in Cluster /\ c.replica = (Held(a).replica \/ more)
    BY <1>4, <2>1, <2>3 DEF Cluster
  <2>5. c.provider = Held(a).provider /\ c.saved = Held(a).saved /\ c.paused = Held(a).paused
    BY <1>4, <2>1 DEF Cluster
  <2> QED BY <2>1, <2>4, <2>5
<1>7. StepWith(a, label, c)
  BY Zenon, <1>3, <1>5, <1>6
<1>8. Goes(a, label, c, Got(a))
  BY <1>1, <1>7, StepGoes DEF Calls
<1>9. Held(a).replica \in BOOLEAN /\ c.replica \in BOOLEAN
  BY <1>4, ClusterFields
<1>10. PrimaryLeads(a, label, c)
  BY <1>1, <1>5, <1>6, <1>9, ReplicaValuesFields DEF PrimaryLeads
<1>11. ValuesOK'
  BY ZenonT(60), <1>1, <1>2, TypesValues, FailsEffect, WritesFields DEF ValuesOK
<1>12. label # "idle" => Fits(Kind(a), label, c, Got(a))
  BY <1>1, <1>4, <1>5, <1>6, ActiveFields, ClusterNoneAssumption DEF InProgram, Fits, ClusterNoneAssumption
<1>13. ClusterTypes'
  BY <1>8, <1>11, <1>12, TypesStep
<1> QED BY <1>1, <1>2, <1>8, <1>10, <1>13, FailsEffect

LEMMA UpdateReplicaEffect ==
    ASSUME ClusterTypes, NEW a \in Requests, UpdateReplica(a)
    PROVE  /\ request[a] # NoRequest /\ Label(a) = "replica"
           /\ Kind(a) \in {"create", "edit", "sync"}
           /\ UNCHANGED <<loaded, cluster, listed, monitor, master, primaryRec>>
           /\ \/ replicaRec' = ReplicaValues(a) /\ UNCHANGED upsets
              \/ UNCHANGED replicaRec /\ upsets' = upsets \union {"dns"}
           /\ Goes(a, IF Kind(a) = "edit" THEN "save" ELSE "idle", Held(a), Got(a))
           /\ ClusterTypes'
<1>1. request[a] # NoRequest /\ Label(a) = "replica"
  BY DEF UpdateReplica, At, Label
<1>2. /\ UNCHANGED <<failing, loaded, cluster, listed, monitor, master, pending, promotions, primaryRec, served>>
      /\ \/ replicaRec' = ReplicaValues(a) /\ UNCHANGED upsets
         \/ UNCHANGED replicaRec /\ Fails("dns")
  BY DEF UpdateReplica, dnsFrame, storedVars, nodeVars, Succeeds
<1>3. Goes(a, IF Kind(a) = "edit" THEN "save" ELSE "idle", Held(a), Got(a))
  BY <1>1, PlainStepGoes DEF UpdateReplica, Calls
<1>4. ValuesOK'
  BY <1>1, <1>2, TypesValues, FailsEffect, ReplicaValuesFields DEF ValuesOK
<1>5. Kind(a) = "edit" => Fits(Kind(a), "save", Held(a), Got(a))
  BY <1>1, ActiveFields DEF InProgram, Fits
<1>6. ClusterTypes'
  BY <1>3, <1>4, <1>5, TypesStep
<1> QED BY <1>1, <1>2, <1>3, <1>6, FailsEffect, WritesFields

\* What a page does once the records are deleted.
DeletionLeads(a, label, c) ==
    /\ Kind(a) = "delete" => label = "get" /\ c = Held(a)
    /\ Kind(a) = "edit" => /\ label = "save" /\ c.provider = "" /\ ~c.replica
                           /\ c.paused = Held(a).paused /\ c.saved = Held(a).saved

LEMMA RecordsDeletedEffect ==
    ASSUME ClusterTypes, NEW a \in Requests, request[a] # NoRequest,
           Label(a) \in {"delete primary", "delete replica"}, RecordsDeleted(a)
    PROVE  \E c \in Cluster, label \in {"get", "save"} :
            DeletionLeads(a, label, c) /\ Goes(a, label, c, Got(a)) /\ Fits(Kind(a), label, c, Got(a))
<1>1. Kind(a) \in {"delete", "edit"} /\ Held(a) \in Cluster
  BY ActiveFields DEF InProgram, Fits, Kinds
<1>2. CASE Kind(a) = "delete"
  <2>1. Goes(a, "get", Held(a), Got(a))
    BY <1>2, PlainStepGoes DEF RecordsDeleted, Calls
  <2>2. Fits(Kind(a), "get", Held(a), Got(a))
    BY <1>2, ActiveFields DEF InProgram, Fits
  <2> QED BY <1>1, <1>2, <2>1, <2>2 DEF DeletionLeads
<1>3. CASE Kind(a) = "edit"
  <2>1. PICK c : c = [Held(a) EXCEPT !.provider = "", !.replica = FALSE]
    OBVIOUS
  <2>2. /\ c \in Cluster /\ c.provider = "" /\ ~c.replica
        /\ c.paused = Held(a).paused /\ c.saved = Held(a).saved
    BY <1>1, <2>1 DEF Cluster
  <2>3. Goes(a, "save", c, Got(a))
    BY <1>3, <2>1, <2>2, StepGoes DEF RecordsDeleted, Calls
  <2>4. Fits(Kind(a), "save", c, Got(a))
    BY <1>3, <2>2, ActiveFields, ClusterNoneAssumption DEF InProgram, Fits, ClusterNoneAssumption
  <2> QED BY <1>3, <2>2, <2>3, <2>4 DEF DeletionLeads
<1> QED BY <1>1, <1>2, <1>3

LEMMA DeletePrimaryEffect ==
    ASSUME ClusterTypes, NEW a \in Requests, DeletePrimary(a)
    PROVE  /\ request[a] # NoRequest /\ Label(a) = "delete primary"
           /\ Kind(a) \in {"delete", "edit"} /\ Held(a) \in Cluster
           /\ UNCHANGED <<loaded, cluster, listed, monitor, master, replicaRec>>
           /\ \/ primaryRec' = {} /\ UNCHANGED upsets
              \/ UNCHANGED primaryRec /\ upsets' = upsets \union {"dns"}
           /\ IF Held(a).replica THEN Goes(a, "delete replica", Held(a), Got(a))
              ELSE \E c \in Cluster, label \in {"get", "save"} :
                    DeletionLeads(a, label, c) /\ Goes(a, label, c, Got(a))
           /\ ClusterTypes'
<1>1. request[a] # NoRequest /\ Label(a) = "delete primary"
  BY DEF DeletePrimary, At, Label
<1>2. Kind(a) \in {"delete", "edit"} /\ Held(a) \in Cluster
  BY <1>1, ActiveFields DEF InProgram, Fits, Kinds
<1>3. /\ UNCHANGED <<failing, loaded, cluster, listed, monitor, master, pending, promotions, replicaRec, served>>
      /\ \/ primaryRec' = {} /\ UNCHANGED upsets
         \/ UNCHANGED primaryRec /\ Fails("dns")
  BY DEF DeletePrimary, dnsFrame, storedVars, nodeVars, Succeeds
<1>4. ValuesOK'
  BY <1>3, TypesValues, FailsEffect DEF ValuesOK
<1>7. Fails("dns") => upsets' = upsets \union {"dns"}
  BY FailsEffect
<1>5. CASE Held(a).replica
  <2>1. Goes(a, "delete replica", Held(a), Got(a))
    BY <1>1, <1>5, PlainStepGoes DEF DeletePrimary, Calls
  <2>2. Fits(Kind(a), "delete replica", Held(a), Got(a))
    BY <1>1, ActiveFields DEF InProgram, Fits
  <2>3. ClusterTypes'
    BY <1>4, <2>1, <2>2, TypesStep
  <2> QED BY <1>1, <1>2, <1>3, <1>7, <1>5, <2>1, <2>3
<1>6. CASE ~Held(a).replica
  <2>1. PICK c \in Cluster, label \in {"get", "save"} :
          DeletionLeads(a, label, c) /\ Goes(a, label, c, Got(a)) /\ Fits(Kind(a), label, c, Got(a))
    BY <1>1, <1>6, RecordsDeletedEffect DEF DeletePrimary
  <2>2. ClusterTypes'
    BY <1>4, <2>1, TypesStep
  <2>3. \E d \in Cluster, next \in {"get", "save"} :
          DeletionLeads(a, next, d) /\ Goes(a, next, d, Got(a))
    BY <2>1
  <2> QED BY <1>1, <1>2, <1>3, <1>7, <1>6, <2>2, <2>3
<1> QED BY <1>5, <1>6

LEMMA DeleteReplicaEffect ==
    ASSUME ClusterTypes, NEW a \in Requests, DeleteReplica(a)
    PROVE  /\ request[a] # NoRequest /\ Label(a) = "delete replica"
           /\ Kind(a) \in {"delete", "edit"} /\ Held(a) \in Cluster
           /\ UNCHANGED <<loaded, cluster, listed, monitor, master, primaryRec>>
           /\ \/ replicaRec' = {} /\ UNCHANGED upsets
              \/ UNCHANGED replicaRec /\ upsets' = upsets \union {"dns"}
           /\ \E c \in Cluster, label \in {"get", "save"} :
                DeletionLeads(a, label, c) /\ Goes(a, label, c, Got(a))
           /\ ClusterTypes'
<1>1. request[a] # NoRequest /\ Label(a) = "delete replica"
  BY DEF DeleteReplica, At, Label
<1>2. Kind(a) \in {"delete", "edit"} /\ Held(a) \in Cluster
  BY <1>1, ActiveFields DEF InProgram, Fits, Kinds
<1>3. /\ UNCHANGED <<failing, loaded, cluster, listed, monitor, master, pending, promotions, primaryRec, served>>
      /\ \/ replicaRec' = {} /\ UNCHANGED upsets
         \/ UNCHANGED replicaRec /\ Fails("dns")
  BY DEF DeleteReplica, dnsFrame, storedVars, nodeVars, Succeeds
<1>4. ValuesOK'
  BY <1>3, TypesValues, FailsEffect DEF ValuesOK
<1>7. Fails("dns") => upsets' = upsets \union {"dns"}
  BY FailsEffect
<1>5. PICK c \in Cluster, label \in {"get", "save"} :
        DeletionLeads(a, label, c) /\ Goes(a, label, c, Got(a)) /\ Fits(Kind(a), label, c, Got(a))
  BY <1>1, RecordsDeletedEffect DEF DeleteReplica
<1>6. ClusterTypes'
  BY <1>4, <1>5, TypesStep
<1>8. \E d \in Cluster, next \in {"get", "save"} :
        DeletionLeads(a, next, d) /\ Goes(a, next, d, Got(a))
  BY <1>5
<1> QED BY <1>1, <1>2, <1>3, <1>7, <1>6, <1>8

\* A promotion, by a request or beside them.
LEMMA PromoteEffect ==
    ASSUME ClusterTypes, NEW n \in Nodes, NEW racing \in BOOLEAN, Promote(n, racing)
    PROVE  /\ master' \in Nodes /\ pending' \subseteq Nodes /\ promotions' \in Nat
           /\ upsets' = upsets \union (IF racing THEN {"race"} ELSE {})
           /\ upsets' \subseteq {"race", "delete race", "store", "sentinel", "dns", "api delete",
                                 "changed while paused", "provider deleted"}
<1>1. master' = n /\ pending' = pending \union {n} /\ promotions' = promotions + 1
  BY DEF Promote
<1>2. upsets' = upsets \union (IF racing THEN {"race"} ELSE {})
  BY Zenon DEF Promote
<1>5. master' \in Nodes /\ pending' \subseteq Nodes /\ promotions' \in Nat
  <2>1. pending \subseteq Nodes /\ promotions \in Nat
    BY ClusterParts
  <2>2. promotions' \in Nat
    BY <1>1, <2>1
  <2> QED BY <1>1, <2>1, <2>2
<1>6. upsets \union {"race"} \subseteq {"race", "delete race", "store", "sentinel", "dns", "api delete",
                                      "changed while paused", "provider deleted"}
  BY ClusterParts
<1>3. CASE racing
  <2>1. upsets' = upsets \union {"race"}
    BY Zenon, <1>2, <1>3
  <2> QED BY Zenon, <1>1, <1>2, <2>1, <1>5, <1>6
<1>4. CASE ~racing
  <2>1. upsets' = upsets
    BY <1>2, <1>4
  <2> QED BY Zenon, <1>1, <1>2, <2>1, <1>5, ClusterParts
<1> QED BY <1>3, <1>4

LEMMA TriggerTestFailoverEffect ==
    ASSUME ClusterTypes, NEW a \in Requests, TriggerTestFailover(a)
    PROVE  /\ request[a] # NoRequest /\ Label(a) = "command"
           /\ UNCHANGED <<loaded, cluster, listed, monitor, primaryRec, replicaRec>>
           /\ Goes(a, "idle", Held(a), Got(a))
           /\ master' = master \/ Active = {a} \/ "race" \in upsets'
           /\ upsets \subseteq upsets'
           /\ ClusterTypes'
<1>1. request[a] # NoRequest /\ Label(a) = "command"
  BY DEF TriggerTestFailover, At, Label
<1>2. UNCHANGED <<failing, loaded, cluster, listed, monitor, primaryRec, replicaRec, served>>
  BY DEF TriggerTestFailover, storedVars, recordVars
<1>3. Goes(a, "idle", Held(a), Got(a))
  BY <1>1, PlainStepGoes DEF TriggerTestFailover
<1>4. CASE \E n \in Nodes : Promote(n, Active # {a})
  <2>1. upsets \subseteq upsets' /\ (Active # {a} => "race" \in upsets')
    BY <1>4, PromoteEffect
  <2>2. ValuesOK'
    BY <1>2, <1>4, PromoteEffect, TypesValues DEF ValuesOK
  <2>3. ClusterTypes'
    BY <1>3, <2>2, TypesStep
  <2> QED BY <1>1, <1>2, <1>3, <2>1, <2>3
<1>5. CASE UNCHANGED <<nodeVars, upsets>>
  <2>1. ValuesOK'
    BY <1>2, <1>5, TypesValues DEF ValuesOK, nodeVars
  <2>3. master' = master /\ upsets' = upsets
    BY <1>5 DEF nodeVars
  <2>2. ClusterTypes'
    BY <1>3, <2>1, TypesStep
  <2> QED BY <1>1, <1>2, <1>3, <2>2, <2>3
<1> QED BY <1>4, <1>5 DEF TriggerTestFailover

-----------------------------------------------------------------------------
(* How a request begins.                                                   *)

\* The copy a handler starts with.
LEMMA FirstCopyFields ==
    ASSUME NEW f \in Form, NEW c \in Cluster \union {NoCluster}
    PROVE  /\ FirstCopy(f, c) \in Cluster \union {NoCluster}
           /\ c = NoCluster =>
                IF f.kind \in {"create", "api create", "load"}
                THEN /\ FirstCopy(f, c) \in Cluster /\ FirstCopy(f, c).provider = f.provider
                     /\ f.kind = "create" => ~FirstCopy(f, c).replica
                     /\ ~FirstCopy(f, c).paused /\ FirstCopy(f, c).saved = 0
                ELSE FirstCopy(f, c) = NoCluster
           /\ c # NoCluster /\ f.kind # "edit" => FirstCopy(f, c) = c
           /\ c # NoCluster /\ f.kind = "edit" =>
                /\ FirstCopy(f, c) \in Cluster
                /\ FirstCopy(f, c).paused = c.paused /\ FirstCopy(f, c).saved = c.saved
                /\ FirstCopy(f, c).provider = IF AddsDNS(f, c) THEN f.provider
                                              ELSE IF Disables(f, c) /\ ~Loaded(c) THEN "" ELSE c.provider
                /\ FirstCopy(f, c).replica = IF AddsReplica(f, c) THEN TRUE
                                             ELSE IF Disables(f, c) /\ ~Loaded(c) THEN FALSE ELSE c.replica
<1>1. CASE c = NoCluster /\ f.kind \in {"create", "api create", "load"}
  <2>1. PICK r : r = (f.kind = "api create" /\ f.replica)
    OBVIOUS
  <2>2. r \in BOOLEAN /\ (f.kind = "create" => ~r)
    BY <2>1
  <2>3. FirstCopy(f, c) = [provider |-> f.provider, replica |-> r, paused |-> FALSE, saved |-> 0]
    BY Zenon, <1>1, <2>1 DEF FirstCopy
  <2>4. f.provider \in {"", "dns", "missing"} /\ FALSE \in BOOLEAN /\ 0 \in Downs \union {0}
    BY FormFields
  <2>5. PICK e : e = [provider |-> f.provider, replica |-> r, paused |-> FALSE, saved |-> 0]
    OBVIOUS
  <2>6. e \in Cluster
    BY <2>2, <2>4, <2>5 DEF Cluster
  <2>7. e.provider = f.provider /\ e.replica = r /\ e.paused = FALSE /\ e.saved = 0
    BY <2>5
  <2>8. FirstCopy(f, c) = e
    BY <2>3, <2>5
  <2> QED BY <1>1, <2>2, <2>6, <2>7, <2>8, ClusterNoneAssumption DEF ClusterNoneAssumption
<1>2. CASE c = NoCluster /\ f.kind \notin {"create", "api create", "load"}
  BY <1>2 DEF FirstCopy
<1>3. CASE c # NoCluster /\ f.kind # "edit"
  BY <1>3 DEF FirstCopy
<1>4. CASE c # NoCluster /\ f.kind = "edit"
  <2>1. PICK p : p = IF AddsDNS(f, c) THEN f.provider
                     ELSE IF Disables(f, c) /\ ~Loaded(c) THEN "" ELSE c.provider
    OBVIOUS
  <2>2. PICK r : r = IF AddsReplica(f, c) THEN TRUE
                     ELSE IF Disables(f, c) /\ ~Loaded(c) THEN FALSE ELSE c.replica
    OBVIOUS
  <2>3. p \in {"", "dns", "missing"} /\ r \in BOOLEAN
    BY <1>4, <2>1, <2>2, FormFields, ClusterFields
  <2>4. FirstCopy(f, c) = [c EXCEPT !.provider = p, !.replica = r]
    BY Zenon, <1>4, <2>1, <2>2 DEF FirstCopy
  <2>5. PICK e : e = [c EXCEPT !.provider = p, !.replica = r]
    OBVIOUS
  <2>6. /\ e \in Cluster /\ e.provider = p /\ e.replica = r
        /\ e.paused = c.paused /\ e.saved = c.saved
    BY <1>4, <2>3, <2>5 DEF Cluster
  <2>7. FirstCopy(f, c) = e
    BY <2>4, <2>5
  <2> QED BY <1>4, <2>1, <2>2, <2>6, <2>7
<1> QED BY <1>1, <1>2, <1>3, <1>4

\* The first call of each handler, and what it starts from.
Starts(f, c, label) ==
    /\ c = NoCluster =>
        /\ f.kind \in {"create", "api create"} => label = "save"
        /\ f.kind = "load" => label \in {"save", "idle"}
        /\ f.kind \in {"delete", "api delete"} => label = "get"
        /\ f.kind \notin {"create", "api create", "load", "delete", "api delete"} => label = "idle"
    /\ c # NoCluster =>
        /\ f.kind \in {"create", "api create", "load"} => label = "idle"
        /\ f.kind = "edit" /\ Disables(f, c) => label = IF Loaded(c) THEN "delete primary" ELSE "save"
        /\ f.kind = "edit" /\ ~Disables(f, c) =>
            label = IF AddsDNS(f, c) THEN "detail" ELSE IF AddsReplica(f, c) THEN "replica detail" ELSE "save"
        /\ f.kind = "delete" => label = "remove"
        /\ f.kind = "api delete" => label = "get"
        /\ f.kind \in {"pause", "sync"} => label = "detail"
        /\ f.kind = "resume" => label = "set"
        /\ f.kind = "test" => label = "command"
        /\ f.kind = "event" => label = IF Loaded(c) THEN "primary" ELSE "idle"

LEMMA FirstCallStarts ==
    ASSUME NEW f \in Form, NEW c
    PROVE  Starts(f, c, FirstCall(f, c)) /\ FirstCall(f, c) \in Calls \union {"idle"}
<1>1. f.kind \in Kinds
  BY FormFields
<1>2. CASE c = NoCluster
  BY <1>1, <1>2 DEF FirstCall, Starts, Calls, Kinds
<1>3. CASE c # NoCluster
  <2>1. CASE f.kind = "edit" /\ Disables(f, c)
    <3>1. f.kind \notin {"create", "api create", "load", "delete", "api delete", "pause", "sync",
                        "resume", "test", "event"}
      BY <2>1
    <3>2. FirstCall(f, c) = IF Loaded(c) THEN "delete primary" ELSE "save"
      BY Zenon, <1>3, <2>1, <3>1 DEF FirstCall
    <3> QED BY <1>3, <2>1, <3>2 DEF Starts, Calls
  <2>2. CASE f.kind = "edit" /\ ~Disables(f, c)
    <3>1. FirstCall(f, c) = IF AddsDNS(f, c) THEN "detail"
                            ELSE IF AddsReplica(f, c) THEN "replica detail" ELSE "save"
      BY <1>3, <2>2 DEF FirstCall
    <3> QED BY <1>3, <2>2, <3>1 DEF Starts, Calls
  <2>3. CASE f.kind # "edit"
    BY <1>1, <1>3, <2>3 DEF FirstCall, Starts, Calls, Kinds
  <2> QED BY <2>1, <2>2, <2>3
<1> QED BY <1>2, <1>3

LEMMA StartsFit ==
    ASSUME NEW f \in Form, NEW c \in Cluster \union {NoCluster}, NEW d,
           f.kind = "event" => d # NoDetail, FirstCall(f, c) # "idle"
    PROVE  Fits(f.kind, FirstCall(f, c), FirstCopy(f, c), d)
<1>1. f.kind \in Kinds
  BY FormFields
<1>2. CASE c = NoCluster
  <2>1. /\ f.kind \in {"create", "api create", "load"} => FirstCopy(f, c) # NoCluster
        /\ f.kind = "create" => ~FirstCopy(f, c).replica
    BY <1>2, FirstCopyFields, ClusterNoneAssumption DEF ClusterNoneAssumption
  <2>2. Starts(f, c, FirstCall(f, c))
    BY FirstCallStarts
  <2> QED BY <1>1, <1>2, <2>1, <2>2 DEF Starts, Fits, Kinds
<1>3. CASE c # NoCluster
  <2>1. FirstCopy(f, c) # NoCluster
    BY <1>3, FirstCopyFields, ClusterNoneAssumption DEF ClusterNoneAssumption
  <2>2. Starts(f, c, FirstCall(f, c))
    BY FirstCallStarts
  <2>3. f.kind # "create"
    BY <1>3, <2>2 DEF Starts
  <2> QED BY <1>1, <1>3, <2>1, <2>2, <2>3 DEF Starts, Fits, Kinds
<1> QED BY <1>2, <1>3

\* Request a begins with form f at the call label, with the copy c and the answer d, or
\* ends at once.
Begun(a, f, label, c, d) ==
    /\ request[a] = NoRequest
    /\ request' \in [Requests -> Request \union {NoRequest}]
    /\ \A b \in Requests \ {a} : request'[b] = request[b]
    /\ IF label = "idle" THEN request'[a] = NoRequest
       ELSE /\ request'[a] \in Request /\ request'[a] # NoRequest
            /\ request'[a].form = f
            /\ request'[a].at = label /\ request'[a].held = c /\ request'[a].got = d

LEMMA GetClusterEffect ==
    ASSUME ClusterTypes, NEW a \in Requests, NEW f \in Form,
           NEW read \in Cluster \union {NoCluster}, NEW d \in Detail \union {NoDetail},
           f.kind = "event" => d # NoDetail, GetCluster(a, f, read, d), ValuesOK'
    PROVE  /\ Begun(a, f, FirstCall(f, read), FirstCopy(f, read), d)
           /\ UNCHANGED <<loaded, cluster, listed, monitor, master, primaryRec, replicaRec>>
           /\ ClusterTypes'
<1>1. UNCHANGED <<loaded, cluster, listed, monitor, master, primaryRec, replicaRec>>
  BY DEF GetCluster, storedVars, recordVars
<1>2. PICK label \in Calls \union {"idle"} : label = FirstCall(f, read)
  BY FirstCallStarts
<1>3. PICK c \in Cluster \union {NoCluster} : c = FirstCopy(f, read)
  BY FirstCopyFields
<1>4. /\ request[a] = NoRequest
      /\ request' = [request EXCEPT ![a] = IF label = "idle" THEN NoRequest
                         ELSE [form |-> f, at |-> label, held |-> c, got |-> d]]
  BY <1>2, <1>3 DEF GetCluster
<1>5. Begun(a, f, label, c, d)
  <2>1. CASE label = "idle"
    <3>1. request' = [request EXCEPT ![a] = NoRequest]
      BY <1>4, <2>1
    <3> QED BY <1>4, <2>1, <3>1, Replaced DEF Begun
  <2>2. CASE label # "idle"
    <3>1. PICK r : r = [form |-> f, at |-> label, held |-> c, got |-> d]
      OBVIOUS
    <3>2. /\ r \in Request
          /\ r.form = f /\ r.at = label /\ r.held = c /\ r.got = d
      BY <2>2, <3>1 DEF Request
    <3>3. r # NoRequest /\ request' = [request EXCEPT ![a] = r]
      BY <1>4, <2>2, <3>1, <3>2, ClusterNoneAssumption DEF ClusterNoneAssumption
    <3> QED BY <1>4, <2>2, <3>2, <3>3, Replaced DEF Begun
  <2> QED BY <2>1, <2>2
<1>6. label # "idle" => Fits(f.kind, label, c, d)
  BY <1>2, <1>3, StartsFit
<1>7. \A b \in Requests : request'[b] # NoRequest => InProgram(b)'
  <2> SUFFICES ASSUME NEW b \in Requests, request'[b] # NoRequest PROVE InProgram(b)'
    OBVIOUS
  <2>1. CASE b = a
    <3>1. /\ Kind(a)' = f.kind /\ Label(a)' = label /\ Held(a)' = c /\ Got(a)' = d
          /\ label # "idle"
      BY <1>5, <2>1 DEF Begun, Kind, Label, Held, Got
    <3> QED BY <1>6, <2>1, <3>1 DEF InProgram
  <2>2. CASE b # a
    <3>1. request'[b] = request[b] /\ InProgram(b)
      BY <1>5, <2>2, ClusterParts DEF Begun, Active
    <3> QED BY <3>1 DEF InProgram, Kind, Label, Held, Got
  <2> QED BY <2>1, <2>2
<1>8. (\A b \in Active : InProgram(b))'
  BY <1>7 DEF Active
<1>9. (request \in [Requests -> Request \union {NoRequest}])'
  BY <1>5 DEF Begun
<1>10. (\A b \in Active :
         /\ Held(b) = NoCluster => request[b].at \in {"get", "del", "srem"}
         /\ Got(b) = NoDetail => request[b].at \notin {"primary", "replica"})'
  BY <1>8 DEF InProgram, Fits, Label
<1>11. ClusterTypes'
  BY Zenon, <1>8, <1>9, <1>10 DEF ClusterTypes, ClusterTypeOK, ValuesOK
<1> QED BY <1>1, <1>2, <1>3, <1>5, <1>11

\* What is noted when a request begins.
LEMMA UpsetsEffect ==
    ASSUME NEW f
    PROVE  /\ Upsets(f) \subseteq {"race", "delete race", "api delete", "changed while paused"}
           /\ Active # {} => "race" \in Upsets(f) \/ "delete race" \in Upsets(f)
           /\ \A b \in Active : f.kind \in {"delete", "api delete"} \/ Kind(b) \in {"delete", "api delete"}
                => "delete race" \in Upsets(f)
           /\ f.kind = "api delete" => "api delete" \in Upsets(f)
           /\ f.kind \in {"pause", "edit"} /\ cluster # NoCluster /\ cluster.paused
                => "changed while paused" \in Upsets(f)
<1> DEFINE others == {Kind(b) : b \in Active}
<1> DEFINE overlap == IF others = {} THEN {}
                      ELSE IF ({f.kind} \union others) \intersect {"delete", "api delete"} # {}
                           THEN {"delete race"} ELSE {"race"}
<1>1. Upsets(f) = overlap
        \union (IF f.kind = "api delete" THEN {"api delete"} ELSE {})
        \union (IF f.kind \in {"pause", "edit"} /\ cluster # NoCluster /\ cluster.paused
                THEN {"changed while paused"} ELSE {})
  BY Zenon DEF Upsets
<1>2. /\ overlap \subseteq {"race", "delete race"}
      /\ Active # {} => overlap # {}
      /\ \A b \in Active : f.kind \in {"delete", "api delete"} \/ Kind(b) \in {"delete", "api delete"}
            => "delete race" \in overlap
  OBVIOUS
<1> HIDE DEF overlap
<1> QED BY <1>1, <1>2

\* A request begins.
Begins(a) ==
    \E f \in Form, read \in Cluster \union {NoCluster}, d \in Detail \union {NoDetail} :
        /\ Begun(a, f, FirstCall(f, read), FirstCopy(f, read), d)
        /\ read = cluster \/ "store" \in upsets'
        /\ f.kind # "event" => d = NoDetail
        /\ upsets \subseteq upsets' /\ Upsets(f) \subseteq upsets'

LEMMA BeginEffect ==
    ASSUME ClusterTypes, NEW a \in Requests, NEW f \in Forms, Begin(a, f)
    PROVE  /\ Begins(a)
           /\ UNCHANGED <<loaded, cluster, listed, monitor, master, primaryRec, replicaRec>>
           /\ ClusterTypes'
<1>1. f \in Form /\ f.kind # "event" /\ cluster \in Cluster \union {NoCluster}
  BY FormsAreForms, ClusterParts
<1>2. PICK read \in Cluster \union {NoCluster} :
        /\ GetCluster(a, f, read, NoDetail)
        /\ read = cluster \/ "store" \in upsets'
        /\ upsets' = upsets \union Upsets(f) \/ upsets' = upsets \union Upsets(f) \union {"store"}
  BY <1>1 DEF Begin
<1>3. UNCHANGED <<failing, loaded, cluster, listed, monitor, master, promotions, primaryRec, replicaRec>>
  BY <1>2 DEF GetCluster, storedVars, recordVars
<1>4. upsets \subseteq upsets' /\ Upsets(f) \subseteq upsets'
  BY <1>2
<1>5. upsets' \subseteq {"race", "delete race", "store", "sentinel", "dns", "api delete",
                         "changed while paused", "provider deleted"}
  BY <1>2, UpsetsEffect, ClusterParts
<1>6. served' \in Nat /\ pending' = pending
  <2>1. served' = served + 1 /\ pending' = pending
    BY Zenon DEF Begin
  <2>2. served \in Nat
    BY ClusterParts
  <2> QED BY <2>1, <2>2
<1>7. ValuesOK'
  BY <1>3, <1>5, <1>6, TypesValues DEF ValuesOK
<1>8. /\ Begun(a, f, FirstCall(f, read), FirstCopy(f, read), NoDetail)
      /\ ClusterTypes'
  BY <1>1, <1>2, <1>7, GetClusterEffect
<1> QED BY <1>1, <1>2, <1>3, <1>4, <1>8 DEF Begins

LEMMA HandleFailoverEffect ==
    ASSUME ClusterTypes, NEW a \in Requests, NEW n \in Nodes, HandleFailover(a, n)
    PROVE  /\ Begins(a)
           /\ UNCHANGED <<loaded, cluster, listed, monitor, master, primaryRec, replicaRec>>
           /\ ClusterTypes'
<1>1. cluster \in Cluster \union {NoCluster} /\ Report \in Form /\ Report.kind = "event"
  BY FormsAreForms, ClusterParts
<1>2. PICK d : d = [master |-> n, slaves |-> {}, down |-> DefaultDown]
  OBVIOUS
<1>3. d \in Detail /\ d # NoDetail
  BY <1>2, ClusterNoneAssumption DEF Detail, Downs, ClusterNoneAssumption
<1>4. /\ GetCluster(a, Report, cluster, d)
      /\ upsets' = upsets \union Upsets(Report)
  BY <1>2 DEF HandleFailover
<1>5. UNCHANGED <<failing, loaded, cluster, listed, monitor, master, promotions, primaryRec, replicaRec>>
  BY <1>4 DEF GetCluster, storedVars, recordVars
<1>6. upsets' \subseteq {"race", "delete race", "store", "sentinel", "dns", "api delete",
                         "changed while paused", "provider deleted"}
  BY <1>4, UpsetsEffect, ClusterParts
<1>7. pending' \subseteq Nodes /\ served' = served
  BY ClusterParts DEF HandleFailover
<1>8. ValuesOK'
  BY <1>5, <1>6, <1>7, TypesValues DEF ValuesOK
<1>9. Begun(a, Report, FirstCall(Report, cluster), FirstCopy(Report, cluster), d) /\ ClusterTypes'
  BY <1>1, <1>3, <1>4, <1>8, GetClusterEffect
<1> QED BY <1>1, <1>3, <1>4, <1>5, <1>9 DEF Begins

\* What happens beside the requests.
LEMMA AutomaticFailoverEffect ==
    ASSUME ClusterTypes, NEW n \in Nodes, AutomaticFailover(n)
    PROVE  /\ UNCHANGED <<loaded, cluster, listed, monitor, primaryRec, replicaRec, request>>
           /\ upsets \subseteq upsets' /\ (Active # {} => "race" \in upsets')
           /\ ClusterTypes'
<1>1. UNCHANGED <<failing, loaded, cluster, listed, monitor, primaryRec, replicaRec, request, served>>
  BY DEF AutomaticFailover, storedVars, recordVars
<1>2. Promote(n, Active # {})
  BY DEF AutomaticFailover
<1>3. upsets \subseteq upsets' /\ (Active # {} => "race" \in upsets')
  BY <1>2, PromoteEffect
<1>4. ValuesOK'
  BY <1>1, <1>2, PromoteEffect, TypesValues DEF ValuesOK
<1>5. ClusterTypes'
  BY Zenon, <1>1, <1>4 DEF ClusterTypes, ClusterTypeOK, ValuesOK, Active, InProgram, Kind, Label, Held, Got
<1> QED BY <1>1, <1>3, <1>5

LEMMA LoseReportEffect ==
    ASSUME ClusterTypes, NEW n \in Nodes, LoseReport(n)
    PROVE  /\ UNCHANGED <<loaded, cluster, listed, monitor, master, primaryRec, replicaRec, request, upsets>>
           /\ ClusterTypes'
<1>1. UNCHANGED <<failing, loaded, cluster, listed, monitor, master, promotions, primaryRec, replicaRec,
                  request, served, upsets>>
  BY DEF LoseReport, storedVars, recordVars
<1>2. ValuesOK'
  BY <1>1, TypesValues DEF LoseReport, ValuesOK
<1>3. ClusterTypes'
  BY Zenon, <1>1, <1>2 DEF ClusterTypes, ClusterTypeOK, ValuesOK, Active, InProgram, Kind, Label, Held, Got
<1> QED BY <1>1, <1>3

LEMMA DiscoverEffect ==
    ASSUME ClusterTypes, NEW s \in SentinelAddrs, Discover(s)
    PROVE  /\ UNCHANGED <<loaded, cluster, listed, master, primaryRec, replicaRec, request, upsets>>
           /\ \A t \in SentinelAddrs : /\ monitor'[t] = NoMonitor <=> monitor[t] = NoMonitor
                                       /\ monitor[t] # NoMonitor => monitor'[t].down = monitor[t].down
           /\ ClusterTypes'
<1>1. UNCHANGED <<failing, loaded, cluster, listed, master, pending, promotions, primaryRec, replicaRec,
                  request, served, upsets>>
  BY DEF Discover, storedVars, nodeVars, recordVars
<1>2. monitor[s] \in Monitor
  BY ClusterParts DEF Discover
<1>3. PICK m : m = [monitor[s] EXCEPT !.known = TRUE]
  OBVIOUS
<1>4. m \in Monitor /\ m.down = monitor[s].down
  BY <1>2, <1>3 DEF Monitor
<1>5. monitor' = [monitor EXCEPT ![s] = m]
  BY <1>3 DEF Discover
<1>6. /\ monitor' \in [SentinelAddrs -> Monitor \union {NoMonitor}]
      /\ \A t \in SentinelAddrs : monitor'[t] = IF t = s THEN m ELSE monitor[t]
  BY <1>4, <1>5, ClusterParts
<1>7. ValuesOK'
  BY <1>1, <1>6, TypesValues DEF ValuesOK
<1>8. ClusterTypes'
  BY Zenon, <1>1, <1>7 DEF ClusterTypes, ClusterTypeOK, ValuesOK, Active, InProgram, Kind, Label, Held, Got
<1>9. m # NoMonitor /\ monitor[s] # NoMonitor
  BY <1>4, ClusterNoneAssumption DEF Discover, ClusterNoneAssumption
<1> QED BY <1>1, <1>4, <1>6, <1>8, <1>9

LEMMA LearnEffect ==
    ASSUME ClusterTypes, NEW s \in SentinelAddrs, Learn(s)
    PROVE  /\ UNCHANGED <<loaded, cluster, listed, master, primaryRec, replicaRec, request, upsets>>
           /\ \A t \in SentinelAddrs : /\ monitor'[t] = NoMonitor <=> monitor[t] = NoMonitor
                                       /\ monitor[t] # NoMonitor => monitor'[t].down = monitor[t].down
           /\ ClusterTypes'
<1>1. UNCHANGED <<failing, loaded, cluster, listed, master, pending, promotions, primaryRec, replicaRec,
                  request, served, upsets>>
  BY DEF Learn, storedVars, nodeVars, recordVars
<1>2. monitor[s] \in Monitor
  BY ClusterParts DEF Learn
<1>3. PICK m : m = [monitor[s] EXCEPT !.master = master]
  OBVIOUS
<1>4. m \in Monitor /\ m.down = monitor[s].down
  BY <1>2, <1>3, ClusterParts DEF Monitor
<1>5. monitor' = [monitor EXCEPT ![s] = m]
  BY <1>3 DEF Learn
<1>6. /\ monitor' \in [SentinelAddrs -> Monitor \union {NoMonitor}]
      /\ \A t \in SentinelAddrs : monitor'[t] = IF t = s THEN m ELSE monitor[t]
  BY <1>4, <1>5, ClusterParts
<1>7. ValuesOK'
  BY <1>1, <1>6, TypesValues DEF ValuesOK
<1>8. ClusterTypes'
  BY Zenon, <1>1, <1>7 DEF ClusterTypes, ClusterTypeOK, ValuesOK, Active, InProgram, Kind, Label, Held, Got
<1>9. m # NoMonitor /\ monitor[s] # NoMonitor
  BY <1>4, ClusterNoneAssumption DEF Learn, ClusterNoneAssumption
<1> QED BY <1>1, <1>4, <1>6, <1>8, <1>9

LEMMA ProviderEffect ==
    ASSUME ClusterTypes, DNSProviderDelete \/ DNSProviderCreate
    PROVE  /\ UNCHANGED <<cluster, listed, monitor, master, primaryRec, replicaRec, request>>
           /\ upsets \subseteq upsets'
           /\ \/ loaded' = TRUE
              \/ "provider deleted" \in upsets'
              \/ \A c \in {cluster} \union {Held(a) : a \in Active} : c # NoCluster => ~Loaded(c)
           /\ ClusterTypes'
<1>1. UNCHANGED <<failing, cluster, listed, monitor, master, pending, promotions, primaryRec,
                  replicaRec, request, served>>
  BY DEF DNSProviderDelete, DNSProviderCreate, providerFrame, storedVars, nodeVars, recordVars
<1>2. loaded' \in BOOLEAN
  BY DEF DNSProviderDelete, DNSProviderCreate
<1>3. CASE DNSProviderCreate
  <2>1. loaded' = TRUE /\ upsets' = upsets
    BY <1>3 DEF DNSProviderCreate
  <2>2. ValuesOK'
    BY <1>1, <1>2, <2>1, TypesValues DEF ValuesOK
  <2>3. ClusterTypes'
    BY Zenon, <1>1, <2>2 DEF ClusterTypes, ClusterTypeOK, ValuesOK, Active, InProgram, Kind, Label, Held, Got
  <2> QED BY <1>1, <2>1, <2>3
<1>4. CASE DNSProviderDelete
  <2> DEFINE used == \E c \in {cluster} \union {Held(a) : a \in Active} : c # NoCluster /\ Loaded(c)
  <2>1. upsets' = upsets \union IF used THEN {"provider deleted"} ELSE {}
    BY Zenon, <1>4 DEF DNSProviderDelete
  <2>2. used \/ \A c \in {cluster} \union {Held(a) : a \in Active} : c # NoCluster => ~Loaded(c)
    BY Zenon
  <2> HIDE DEF used
  <2>3. /\ upsets \subseteq upsets' /\ (used => "provider deleted" \in upsets')
        /\ upsets' \subseteq upsets \union {"provider deleted"}
    BY <2>1
  <2>4. ValuesOK'
    BY <1>1, <1>2, <2>3, TypesValues DEF ValuesOK
  <2>5. ClusterTypes'
    BY Zenon, <1>1, <2>4 DEF ClusterTypes, ClusterTypeOK, ValuesOK, Active, InProgram, Kind, Label, Held, Got
  <2> QED BY <1>1, <2>2, <2>3, <2>5
<1> QED BY <1>3, <1>4

-----------------------------------------------------------------------------
(* Types are kept.                                                         *)

LEMMA ClusterInitParts ==
    ASSUME ClusterInit
    PROVE  /\ cluster = NoCluster /\ listed = FALSE /\ primaryRec = {} /\ replicaRec = {}
           /\ upsets = {} /\ Active = {}
           /\ monitor \in [SentinelAddrs -> Monitor \union {NoMonitor}]
           /\ \A s \in SentinelAddrs : monitor[s] # NoMonitor => monitor[s].down = DefaultDown
           /\ ClusterTypes
<1>1. /\ cluster = NoCluster /\ listed = FALSE /\ primaryRec = {} /\ replicaRec = {}
      /\ upsets = {} /\ Active = {}
  BY DEF ClusterInit, Active
<1>2. PICK m \in {NoMonitor, [master |-> FirstMaster, down |-> DefaultDown, known |-> TRUE]} :
          monitor = [s \in SentinelAddrs |-> m]
  BY DEF ClusterInit
<1>3. m \in Monitor \union {NoMonitor} /\ (m # NoMonitor => m.down = DefaultDown)
  <2>1. PICK r : r = [master |-> FirstMaster, down |-> DefaultDown, known |-> TRUE]
    OBVIOUS
  <2>2. FirstMaster \in Nodes
    BY Zenon, ClusterAdminAssumption DEF ClusterAdminAssumption
  <2>3. r \in Monitor /\ r.down = DefaultDown
    BY <2>1, <2>2 DEF Monitor, Downs
  <2> QED BY <1>2, <2>1, <2>3
<1>4. /\ monitor \in [SentinelAddrs -> Monitor \union {NoMonitor}]
      /\ \A s \in SentinelAddrs : monitor[s] # NoMonitor => monitor[s].down = DefaultDown
  BY <1>2, <1>3
<1>5. failing \subseteq {"store", "sentinel", "dns"} /\ master \in Nodes
  BY Zenon, ClusterAdminAssumption DEF ClusterInit, ClusterAdminAssumption
<1>6. served = 0 /\ promotions = 0 /\ pending = {} /\ loaded \in BOOLEAN
  BY DEF ClusterInit
<1>7. ValuesOK
  BY <1>1, <1>4, <1>5, <1>6 DEF ValuesOK
<1>8. request \in [Requests -> Request \union {NoRequest}]
  BY DEF ClusterInit
<1>9. ClusterTypes
  BY Zenon, <1>1, <1>7, <1>8 DEF ClusterTypes, ClusterTypeOK, ValuesOK
<1> QED BY <1>1, <1>4, <1>9

\* What a step may be: a call of a request, the beginning of one, or what happens
\* beside them.
LEMMA ClusterSteps ==
    ASSUME ClusterTypes, ClusterNext
    PROVE  \/ \E a \in Requests : RequestStep(a)
           \/ \E a \in Requests : Begins(a) /\ ClusterTypes' /\
                UNCHANGED <<loaded, cluster, listed, monitor, master, primaryRec, replicaRec>>
           \/ \E n \in Nodes : AutomaticFailover(n)
           \/ \E n \in Nodes : LoseReport(n)
           \/ \E s \in SentinelAddrs : Discover(s) \/ Learn(s)
           \/ DNSProviderDelete \/ DNSProviderCreate
<1>1. Free \subseteq Requests
  BY DEF Free, Active
<1>2. CASE \E a \in Free, f \in Forms : Begin(a, f)
  BY <1>1, <1>2, BeginEffect
<1>3. CASE \E a \in Free, n \in Nodes : HandleFailover(a, n)
  BY <1>1, <1>3, HandleFailoverEffect
<1> QED BY <1>2, <1>3 DEF ClusterNext

LEMMA RequestTypes ==
    ASSUME ClusterTypes, NEW a \in Requests, RequestStep(a)
    PROVE  ClusterTypes'
BY SaveEffect, IndexEffect, GetForDeleteEffect, DelEffect, SremEffect, MonitorAllEffect,
   SetConfigEffect, ApplyConfigEffect, RemoveAllEffect, QueryDetailEffect, UpdatePrimaryEffect,
   UpdateReplicaEffect, DeletePrimaryEffect, DeleteReplicaEffect, TriggerTestFailoverEffect
   DEF RequestStep

LEMMA ClusterTypesStep ==
    ASSUME ClusterTypes, [ClusterNext]_clusterVars
    PROVE  ClusterTypes'
<1>1. CASE UNCHANGED clusterVars
  <2>1. UNCHANGED <<failing, loaded, cluster, listed, monitor, master, pending, promotions, primaryRec,
                    replicaRec, request, served, upsets>>
    BY <1>1 DEF clusterVars, storedVars, nodeVars, recordVars
  <2> QED BY Zenon, <2>1 DEF ClusterTypes, ClusterTypeOK, Active, InProgram, Kind, Label, Held, Got
<1>2. CASE ClusterNext
  BY <1>2, ClusterSteps, RequestTypes, AutomaticFailoverEffect, LoseReportEffect, DiscoverEffect,
     LearnEffect, ProviderEffect
<1> QED BY <1>1, <1>2

\* Every variable keeps its type, and every request keeps to the calls of its handler.
THEOREM ClusterTypesKept == ClusterSpec => []ClusterTypeOK
<1>1. ClusterInit => ClusterTypes
  BY ClusterInitParts
<1>2. ClusterTypes /\ [ClusterNext]_clusterVars => ClusterTypes'
  BY ClusterTypesStep
<1>3. ClusterTypes => ClusterTypeOK
  BY DEF ClusterTypes
<1> QED BY <1>1, <1>2, <1>3, PTL DEF ClusterSpec

-----------------------------------------------------------------------------
(* Overlapping requests are noted.                                         *)

\* A call of a request moves that request and no other.
Moves(a) ==
    /\ request[a] # NoRequest
    /\ \E label, c, d : Goes(a, label, c, d)
    /\ upsets \subseteq upsets'

LEMMA RequestMoves ==
    ASSUME ClusterTypes, NEW a \in Requests, RequestStep(a)
    PROVE  Moves(a)
<1>1. CASE Save(a)
  BY <1>1, SaveEffect DEF Moves
<1>2. CASE Index(a)
  BY <1>2, IndexEffect DEF Moves
<1>3. CASE GetForDelete(a)
  BY <1>3, GetForDeleteEffect DEF Moves
<1>4. CASE Del(a)
  BY <1>4, DelEffect DEF Moves
<1>5. CASE Srem(a)
  BY <1>5, SremEffect DEF Moves
<1>6. CASE MonitorAll(a)
  BY <1>6, MonitorAllEffect DEF Moves
<1>7. CASE SetConfig(a)
  BY <1>7, SetConfigEffect DEF Moves
<1>8. CASE ApplyConfig(a)
  BY <1>8, ApplyConfigEffect DEF Moves
<1>9. CASE RemoveAll(a)
  BY <1>9, RemoveAllEffect DEF Moves
<1>10. CASE QueryDetail(a)
  BY <1>10, QueryDetailEffect DEF Moves
<1>11. CASE UpdatePrimary(a)
  BY <1>11, UpdatePrimaryEffect DEF Moves
<1>12. CASE UpdateReplica(a)
  BY <1>12, UpdateReplicaEffect DEF Moves
<1>13. CASE DeletePrimary(a)
  BY <1>13, DeletePrimaryEffect DEF Moves
<1>14. CASE DeleteReplica(a)
  BY <1>14, DeleteReplicaEffect DEF Moves
<1>15. CASE TriggerTestFailover(a)
  BY <1>15, TriggerTestFailoverEffect DEF Moves
<1> QED BY <1>1, <1>2, <1>3, <1>4, <1>5, <1>6, <1>7, <1>8, <1>9, <1>10, <1>11, <1>12, <1>13, <1>14,
           <1>15 DEF RequestStep

LEMMA AloneMoves ==
    ASSUME AloneInv, NEW a \in Requests, Moves(a)
    PROVE  AloneInv'
<1>1. PICK label, c, d : Goes(a, label, c, d)
  BY DEF Moves
<1>2. \A b \in Requests : request'[b] # NoRequest =>
        request[b] # NoRequest /\ Kind(b)' = Kind(b)
  BY <1>1 DEF Goes, Moves, Kind
<1>3. Active' \subseteq Active /\ \A b \in Active' : Kind(b)' = Kind(b)
  BY <1>2 DEF Active
<1>4. Without({"race", "delete race"})' => Without({"race", "delete race"})
  BY DEF Moves, Without
<1>5. Without({"delete race"})' => Without({"delete race"})
  BY DEF Moves, Without
<1> QED BY <1>3, <1>4, <1>5 DEF AloneInv

\* A request that begins beside another is noted, and so is a deletion.
LEMMA AloneBegins ==
    ASSUME AloneInv, NEW a \in Requests, Begins(a)
    PROVE  AloneInv'
<1>1. PICK f \in Form, read \in Cluster \union {NoCluster}, d \in Detail \union {NoDetail} :
        /\ Begun(a, f, FirstCall(f, read), FirstCopy(f, read), d)
        /\ upsets \subseteq upsets' /\ Upsets(f) \subseteq upsets'
  BY DEF Begins
<1>2. /\ Active' \subseteq Active \union {a}
      /\ a \notin Active
      /\ \A b \in Active : Kind(b)' = Kind(b)
      /\ request'[a] # NoRequest => Kind(a)' = f.kind
  BY <1>1 DEF Begun, Active, Kind
<1>3. Without({"race", "delete race"})' => Active = {}
  BY <1>1, UpsetsEffect DEF Without
<1>4. Without({"delete race"})' =>
        /\ Without({"delete race"})
        /\ \A b \in Active : f.kind \notin {"delete", "api delete"} /\ Kind(b) \notin {"delete", "api delete"}
  BY <1>1, UpsetsEffect DEF Without
<1>5. Without({"race", "delete race"})' => (\A b, e \in Active : b = e)'
  BY <1>2, <1>3
<1>6. Without({"delete race"})' =>
        (\A b, e \in Active : Kind(b) \in {"delete", "api delete"} => e = b)'
  <2> SUFFICES ASSUME Without({"delete race"})', NEW b \in Active', NEW e \in Active',
                      Kind(b)' \in {"delete", "api delete"}
               PROVE  e = b
    OBVIOUS
  <2>1. CASE b \in Active
    BY <1>2, <1>4, <2>1
  <2>2. CASE b = a
    <3>1. Kind(a)' = f.kind
      BY <1>2, <2>2 DEF Active
    <3>2. Active = {}
      BY <1>4, <2>2, <3>1
    <3> QED BY <1>2, <2>2, <3>2
  <2> QED BY <1>2, <2>1, <2>2
<1> QED BY <1>5, <1>6 DEF AloneInv

\* A request that is alone stays so until it ends.
LEMMA AloneAfter ==
    ASSUME AloneInv, NEW a \in Requests, Moves(a), Without({"race", "delete race"})
    PROVE  Active = {a} /\ Active' \subseteq {a}
<1>1. PICK label, c, d : Goes(a, label, c, d)
  BY DEF Moves
<1>2. a \in Active /\ Active' \subseteq Active
  BY <1>1 DEF Moves, Goes, Active
<1> QED BY <1>2 DEF AloneInv

-----------------------------------------------------------------------------
(* The list of clusters.                                                   *)

\* The step of a request, as far as the list is concerned.
LEMMA ListedCalls ==
    ASSUME ClusterTypes, NEW a \in Requests, RequestStep(a), Without({"delete race", "store"})'
    PROVE  \E label, c, d :
            /\ Goes(a, label, c, d)
            /\ \/ /\ cluster' = Held(a) /\ Held(a) # NoCluster /\ listed' = listed
                  /\ Label(a) = "save" /\ label = "index"
               \/ /\ cluster' = cluster /\ listed' = TRUE
                  /\ Label(a) = "index" /\ label \notin {"index", "srem"}
               \/ /\ cluster' = NoCluster /\ listed' = listed
                  /\ Label(a) = "del" /\ label = "srem"
               \/ /\ cluster' = cluster /\ listed' = FALSE
                  /\ Label(a) = "srem" /\ label = "idle"
               \/ /\ UNCHANGED <<cluster, listed>>
                  /\ Label(a) \notin {"index", "srem"} /\ label \notin {"index", "srem"}
<1> DEFINE Goal(label, c, d) ==
            /\ Goes(a, label, c, d)
            /\ \/ /\ cluster' = Held(a) /\ Held(a) # NoCluster /\ listed' = listed
                  /\ Label(a) = "save" /\ label = "index"
               \/ /\ cluster' = cluster /\ listed' = TRUE
                  /\ Label(a) = "index" /\ label \notin {"index", "srem"}
               \/ /\ cluster' = NoCluster /\ listed' = listed
                  /\ Label(a) = "del" /\ label = "srem"
               \/ /\ cluster' = cluster /\ listed' = FALSE
                  /\ Label(a) = "srem" /\ label = "idle"
               \/ /\ UNCHANGED <<cluster, listed>>
                  /\ Label(a) \notin {"index", "srem"} /\ label \notin {"index", "srem"}
<1>0. "store" \notin upsets'
  BY DEF Without
<1>1. CASE Save(a)
  <2>1. /\ cluster' = Held(a) /\ Held(a) \in Cluster /\ listed' = listed /\ Label(a) = "save"
        /\ Goes(a, "index", Held(a), Got(a))
    BY <1>0, <1>1, SaveEffect
  <2>2. Goal("index", Held(a), Got(a))
    BY <2>1, ClusterNoneAssumption DEF ClusterNoneAssumption
  <2> QED BY <2>2
<1>2. CASE Index(a)
  <2>1. /\ Label(a) = "index" /\ cluster' = cluster /\ listed' = TRUE
        /\ Goes(a, AfterSave(a, TRUE), Held(a), Got(a))
        /\ request[a] # NoRequest
    BY <1>0, <1>2, IndexEffect
  <2>2. AfterSave(a, TRUE) \notin {"index", "srem"}
    BY <2>1, AfterSaveCalls
  <2>3. Goal(AfterSave(a, TRUE), Held(a), Got(a))
    BY <2>1, <2>2
  <2> QED BY <2>3
<1>3. CASE GetForDelete(a)
  <2>1. PICK label \in {"idle", "del"} : Goes(a, label, Held(a), Got(a))
    BY <1>3, GetForDeleteEffect
  <2>2. Goal(label, Held(a), Got(a))
    BY <1>3, <2>1, GetForDeleteEffect
  <2> QED BY <2>2
<1>4. CASE Del(a)
  <2>1. Goal("srem", Held(a), Got(a))
    BY <1>0, <1>4, DelEffect
  <2> QED BY <2>1
<1>5. CASE Srem(a)
  <2>1. Goal("idle", Held(a), Got(a))
    BY <1>0, <1>5, SremEffect
  <2> QED BY <2>1
<1>6. CASE MonitorAll(a)
  <2>1. Goal("detail", Held(a), Got(a))
    BY <1>6, MonitorAllEffect
  <2> QED BY <2>1
<1>7. CASE SetConfig(a)
  <2>1. UNCHANGED <<cluster, listed>> /\ Label(a) = "set"
    BY <1>7, SetConfigEffect
  <2>2. \E label, c : label \notin {"index", "srem"} /\ Goes(a, label, c, Got(a))
    BY <1>7, SetConfigEffect
  <2> QED BY <2>1, <2>2
<1>8. CASE ApplyConfig(a)
  <2>1. Goal("idle", Held(a), Got(a))
    BY <1>8, ApplyConfigEffect
  <2> QED BY <2>1
<1>9. CASE RemoveAll(a)
  <2>1. PICK label \in {"delete primary", "get"} : Goes(a, label, Held(a), Got(a))
    BY <1>9, RemoveAllEffect
  <2>2. Goal(label, Held(a), Got(a))
    BY <1>9, <2>1, RemoveAllEffect
  <2> QED BY <2>2
<1>10. CASE QueryDetail(a)
  <2>1. PICK d \in Answers, c \in Cluster, label \in Calls \union {"idle"} :
            QueryLeads(a, d, label, c) /\ Goes(a, label, c, d)
    BY <1>10, QueryDetailEffect
  <2>2. /\ UNCHANGED <<cluster, listed>>
        /\ Label(a) \in {"detail", "replica detail"} /\ Kind(a) \in {"create", "edit", "pause", "sync"}
    BY <1>10, QueryDetailEffect
  <2>3. label \notin {"index", "srem"}
    BY <2>1, <2>2 DEF QueryLeads
  <2>4. Goal(label, c, d)
    BY <2>1, <2>2, <2>3
  <2> QED BY <2>4
<1>11. CASE UpdatePrimary(a)
  <2>1. PICK c \in Cluster, label \in {"save", "replica", "idle"} : Goes(a, label, c, Got(a))
    BY <1>11, UpdatePrimaryEffect
  <2>2. Goal(label, c, Got(a))
    BY <1>11, <2>1, UpdatePrimaryEffect
  <2> QED BY <2>2
<1>12. CASE UpdateReplica(a)
  <2>1. PICK label \in {"save", "idle"} : Goes(a, label, Held(a), Got(a))
    BY <1>12, UpdateReplicaEffect
  <2>2. Goal(label, Held(a), Got(a))
    BY <1>12, <2>1, UpdateReplicaEffect
  <2> QED BY <2>2
<1>13. CASE DeletePrimary(a)
  <2>1. PICK c \in Cluster, label \in {"delete replica", "get", "save"} : Goes(a, label, c, Got(a))
    BY <1>13, DeletePrimaryEffect
  <2>2. Goal(label, c, Got(a))
    BY <1>13, <2>1, DeletePrimaryEffect
  <2> QED BY <2>2
<1>14. CASE DeleteReplica(a)
  <2>1. PICK c \in Cluster, label \in {"get", "save"} : Goes(a, label, c, Got(a))
    BY <1>14, DeleteReplicaEffect
  <2>2. Goal(label, c, Got(a))
    BY <1>14, <2>1, DeleteReplicaEffect
  <2> QED BY <2>2
<1>15. CASE TriggerTestFailover(a)
  <2>1. Goal("idle", Held(a), Got(a))
    BY <1>15, TriggerTestFailoverEffect
  <2> QED BY <2>1
<1> QED BY <1>1, <1>2, <1>3, <1>4, <1>5, <1>6, <1>7, <1>8, <1>9, <1>10, <1>11, <1>12, <1>13, <1>14,
           <1>15 DEF RequestStep

LEMMA ListedMoves ==
    ASSUME ClusterTypes, AloneInv, ListedInv, NEW a \in Requests, RequestStep(a)
    PROVE  ListedInv'
<1> SUFFICES ASSUME Without({"delete race", "store"})'
             PROVE  /\ \A b \in Active' : /\ Label(b)' = "index" => cluster' # NoCluster
                                          /\ Label(b)' = "srem" => cluster' = NoCluster
                    /\ \/ listed' <=> cluster' # NoCluster
                       \/ \E b \in Active' : Label(b)' \in {"index", "srem"}
  BY DEF ListedInv
<1>1. request[a] # NoRequest /\ upsets \subseteq upsets' /\ a \in Active
  BY RequestMoves DEF Moves, Active
<1>2. Without({"delete race", "store"}) /\ Without({"delete race"})
  BY <1>1 DEF Without
<1>3. PICK label, c, d :
        /\ Goes(a, label, c, d)
        /\ \/ /\ cluster' = Held(a) /\ Held(a) # NoCluster /\ listed' = listed
              /\ Label(a) = "save" /\ label = "index"
           \/ /\ cluster' = cluster /\ listed' = TRUE
              /\ Label(a) = "index" /\ label \notin {"index", "srem"}
           \/ /\ cluster' = NoCluster /\ listed' = listed
              /\ Label(a) = "del" /\ label = "srem"
           \/ /\ cluster' = cluster /\ listed' = FALSE
              /\ Label(a) = "srem" /\ label = "idle"
           \/ /\ UNCHANGED <<cluster, listed>>
              /\ Label(a) \notin {"index", "srem"} /\ label \notin {"index", "srem"}
  BY ListedCalls
<1>4. /\ \A b \in Active : /\ Label(b) = "index" => cluster # NoCluster
                           /\ Label(b) = "srem" => cluster = NoCluster
      /\ \/ listed <=> cluster # NoCluster
         \/ \E b \in Active : Label(b) \in {"index", "srem"}
  BY <1>2 DEF ListedInv
<1>5. \A b \in Active : Label(b) \in {"del", "srem"} => \A e \in Active : e = b
  <2>1. \A b \in Active : Label(b) \in {"del", "srem"} => Kind(b) \in {"delete", "api delete"}
    <3> SUFFICES ASSUME NEW b \in Active, Label(b) \in {"del", "srem"}
                 PROVE  Kind(b) \in {"delete", "api delete"}
      OBVIOUS
    <3>1. Fits(Kind(b), Label(b), Held(b), Got(b)) /\ Kind(b) \in Kinds
      BY ActiveFields DEF Active, InProgram
    <3> QED BY <3>1 DEF Fits, Kinds
  <2> QED BY <1>2, <2>1 DEF AloneInv
<1>6. /\ \A b \in Active \ {a} : b \in Active' /\ Label(b)' = Label(b)
      /\ Active' \subseteq Active
      /\ a \in Active' <=> label # "idle"
      /\ a \in Active' => Label(a)' = label
  BY <1>1, <1>3 DEF Goes, Active, Label
<1>7. CASE /\ cluster' = Held(a) /\ Held(a) # NoCluster /\ listed' = listed
           /\ Label(a) = "save" /\ label = "index"
  BY <1>1, <1>4, <1>5, <1>6, <1>7
<1>8. CASE /\ cluster' = cluster /\ listed' = TRUE
           /\ Label(a) = "index" /\ label \notin {"index", "srem"}
  BY <1>1, <1>4, <1>6, <1>8
<1>9. CASE /\ cluster' = NoCluster /\ listed' = listed
           /\ Label(a) = "del" /\ label = "srem"
  BY <1>1, <1>4, <1>5, <1>6, <1>9
<1>10. CASE /\ cluster' = cluster /\ listed' = FALSE
            /\ Label(a) = "srem" /\ label = "idle"
  BY <1>1, <1>4, <1>5, <1>6, <1>10
<1>11. CASE /\ UNCHANGED <<cluster, listed>>
            /\ Label(a) \notin {"index", "srem"} /\ label \notin {"index", "srem"}
  BY <1>1, <1>4, <1>6, <1>11
<1> QED BY <1>3, <1>7, <1>8, <1>9, <1>10, <1>11

LEMMA ListedBegins ==
    ASSUME ClusterTypes, ListedInv, NEW a \in Requests, Begins(a), UNCHANGED <<cluster, listed>>
    PROVE  ListedInv'
<1>1. PICK f \in Form, read \in Cluster \union {NoCluster}, d \in Detail \union {NoDetail} :
        /\ Begun(a, f, FirstCall(f, read), FirstCopy(f, read), d)
        /\ upsets \subseteq upsets' /\ Upsets(f) \subseteq upsets'
  BY DEF Begins
<1>2. FirstCall(f, read) \notin {"index", "srem"}
  BY FirstCallStarts, FormFields DEF Starts, Kinds
<1>3. /\ \A b \in Active : b \in Active' /\ Label(b)' = Label(b)
      /\ \A b \in Active' : b = a \/ b \in Active
      /\ a \in Active' => Label(a)' \notin {"index", "srem"}
      /\ a \notin Active
  BY <1>1, <1>2 DEF Begun, Active, Label
<1>4. Without({"delete race", "store"})' => Without({"delete race", "store"})
  BY <1>1 DEF Without
<1> QED BY <1>3, <1>4 DEF ListedInv

\* What leaves the requests and the store alone leaves both invariants alone.
LEMMA FrameInv ==
    ASSUME AloneInv, ListedInv, UNCHANGED <<cluster, listed, request>>, upsets \subseteq upsets'
    PROVE  AloneInv' /\ ListedInv'
<1>1. \A X : Without(X)' => Without(X)
  BY DEF Without
<1>2. Active' = Active /\ \A a \in Active : Kind(a)' = Kind(a) /\ Label(a)' = Label(a)
  BY DEF Active, Kind, Label
<1>3. AloneInv'
  BY <1>1, <1>2 DEF AloneInv
<1>4. ListedInv'
  BY <1>1, <1>2 DEF ListedInv
<1> QED BY <1>3, <1>4

LEMMA ListedStep ==
    ASSUME ClusterTypes, AloneInv, ListedInv, [ClusterNext]_clusterVars
    PROVE  AloneInv' /\ ListedInv'
<1>1. CASE UNCHANGED clusterVars
  BY <1>1, FrameInv DEF clusterVars, storedVars
<1>2. CASE \E a \in Requests : RequestStep(a)
  BY <1>2, AloneMoves, RequestMoves, ListedMoves
<1>3. CASE \E a \in Requests : Begins(a) /\ UNCHANGED <<cluster, listed>>
  BY <1>3, AloneBegins, ListedBegins
<1>4. CASE \E n \in Nodes : AutomaticFailover(n)
  BY <1>4, AutomaticFailoverEffect, FrameInv
<1>5. CASE \E n \in Nodes : LoseReport(n)
  BY <1>5, LoseReportEffect, FrameInv
<1>6. CASE \E s \in SentinelAddrs : Discover(s) \/ Learn(s)
  BY <1>6, DiscoverEffect, LearnEffect, FrameInv
<1>7. CASE DNSProviderDelete \/ DNSProviderCreate
  BY <1>7, ProviderEffect, FrameInv
<1> QED BY <1>1, <1>2, <1>3, <1>4, <1>5, <1>6, <1>7, ClusterSteps

-----------------------------------------------------------------------------
(* The pause.                                                              *)

\* The intervals are different.
LEMMA DownsDiffer == DefaultDown # PausedDown /\ FormDown # PausedDown /\ 0 # PausedDown
BY SMT DEF DefaultDown, FormDown, PausedDown

\* When the request that moves is the only one, it is enough to look at it.
LEMMA PauseMoves ==
    ASSUME ClusterTypes, AloneInv, NEW a \in Requests, Moves(a), Without(PauseUpsets),
           NEW kind, kind = Kind(a), NEW label, NEW c, NEW d, Goes(a, label, c, d),
           cluster' # NoCluster => cluster'.saved # PausedDown,
           label = "idle" => Settled',
           label # "idle" => (c # NoCluster => c.saved # PausedDown) /\ PauseAt(kind, label, c)'
    PROVE  PauseInv'
<1>1. Active = {a} /\ Active' \subseteq {a}
  BY AloneAfter DEF Without, PauseUpsets
<1>2. Active' = {} => label = "idle"
  BY <1>1 DEF Goes, Active
<1>3. \A b \in Active' : /\ b = a /\ label # "idle"
                         /\ Kind(b)' = kind /\ Label(b)' = label /\ Held(b)' = c
  BY <1>1 DEF Goes, Active, Kind, Label, Held
<1>4. \A b \in Active' : Held(b)' # NoCluster => Held(b)'.saved # PausedDown
  BY <1>3
<1>5. \A b \in Active' : PauseStage(b)'
  <2> SUFFICES ASSUME NEW b \in Active' PROVE PauseStage(b)'
    OBVIOUS
  <2>1. (PauseStage(b) <=> PauseAt(kind, label, c))'
    BY <1>3 DEF PauseStage
  <2> QED BY <1>3, <2>1
<1>6. Active' = {} => Settled'
  BY <1>2
<1> QED BY <1>4, <1>5, <1>6 DEF PauseInv

\* What the invariant says of a request that moves.
LEMMA PauseNow ==
    ASSUME ClusterTypes, PauseInv, NEW a \in Requests, RequestStep(a), Without(PauseUpsets)'
    PROVE  /\ Without(PauseUpsets) /\ Moves(a)
           /\ "store" \notin upsets' /\ "sentinel" \notin upsets' /\ "dns" \notin upsets'
           /\ cluster # NoCluster => cluster.saved # PausedDown
           /\ Held(a) # NoCluster => Held(a).saved # PausedDown
           /\ PauseAt(Kind(a), Label(a), Held(a))
<1>1. Moves(a) /\ a \in Active
  BY RequestMoves DEF Moves, Active
<1>2. Without(PauseUpsets)
  BY <1>1 DEF Without, Moves
<1> QED BY <1>1, <1>2 DEF PauseInv, PauseStage, Without, PauseUpsets

\* NonePaused is all that an unpaused cluster, or none, needs.
LEMMA SettledBy ==
    /\ NonePaused /\ (cluster # NoCluster => ~cluster.paused) => Settled
    /\ NoneMonitoring => NonePaused /\ Settled
<1>1. NonePaused /\ (cluster # NoCluster => ~cluster.paused) => Settled
  BY DEF NonePaused, Settled
<1>2. NoneMonitoring => NonePaused /\ Settled
  BY DEF NonePaused, Settled, NoneMonitoring
<1> QED BY <1>1, <1>2

LEMMA PauseSave ==
    ASSUME ClusterTypes, AloneInv, PauseInv, NEW a \in Requests, Save(a), Without(PauseUpsets)'
    PROVE  PauseInv'
<1>1. RequestStep(a)
  BY DEF RequestStep
<1>2. PICK kind, held, got : kind = Kind(a) /\ held = Held(a) /\ got = Got(a)
  OBVIOUS
<1>3. /\ Without(PauseUpsets) /\ Moves(a)
      /\ held.saved # PausedDown /\ PauseAt(kind, "save", held)
      /\ held # NoCluster /\ cluster' = held /\ Goes(a, "index", held, got) /\ UNCHANGED monitor
  BY <1>1, <1>2, PauseNow, SaveEffect, ClusterNoneAssumption DEF ClusterNoneAssumption
<1>4. kind \in {"create", "api create", "load", "edit", "pause", "resume"}
  BY <1>2, AfterSaveCalls, SaveEffect
<1>5. NonePaused' <=> NonePaused
  BY <1>3 DEF NonePaused
<1>6. PauseAt(kind, "index", held)'
  BY <1>3, <1>4, <1>5 DEF PauseAt
<1> QED BY <1>2, <1>3, <1>6, PauseMoves

LEMMA PauseIndex ==
    ASSUME ClusterTypes, AloneInv, PauseInv, NEW a \in Requests, Index(a), Without(PauseUpsets)'
    PROVE  PauseInv'
<1>1. RequestStep(a)
  BY DEF RequestStep
<1>2. PICK kind, held, got, label :
        kind = Kind(a) /\ held = Held(a) /\ got = Got(a) /\ label = AfterSave(a, TRUE)
  OBVIOUS
<1>3. /\ Without(PauseUpsets) /\ Moves(a)
      /\ held.saved # PausedDown /\ PauseAt(kind, "index", held)
      /\ cluster # NoCluster => cluster.saved # PausedDown
      /\ held # NoCluster /\ UNCHANGED <<cluster, monitor>> /\ Goes(a, label, held, got)
  BY <1>1, <1>2, PauseNow, IndexEffect, ClusterNoneAssumption DEF ClusterNoneAssumption
<1>4. /\ kind \in {"create", "api create", "load", "edit", "pause", "resume"}
      /\ kind = "create" => label \in {"replica", "monitor"}
      /\ kind = "load" => label = "apply"
      /\ kind \in {"edit", "pause"} => label = "set"
      /\ kind \in {"api create", "resume"} => label = "idle"
  BY <1>2, AfterSaveCalls, IndexEffect
<1>5. (NonePaused' <=> NonePaused) /\ (Settled' <=> Settled)
  BY <1>3 DEF NonePaused, Settled
<1>6. label # "idle" => PauseAt(kind, label, held)'
  BY <1>3, <1>4, <1>5 DEF PauseAt
<1>7. label = "idle" => Settled'
  BY <1>3, <1>4, <1>5, SettledBy DEF PauseAt
<1> QED BY <1>2, <1>3, <1>6, <1>7, PauseMoves

LEMMA PauseDeleteCluster ==
    ASSUME ClusterTypes, AloneInv, PauseInv, NEW a \in Requests,
           GetForDelete(a) \/ Del(a) \/ Srem(a), Without(PauseUpsets)'
    PROVE  PauseInv'
<1>1. RequestStep(a)
  BY DEF RequestStep
<1>2. PICK kind, held, got : kind = Kind(a) /\ held = Held(a) /\ got = Got(a)
  OBVIOUS
<1>3. /\ Without(PauseUpsets) /\ Moves(a) /\ "store" \notin upsets'
      /\ held # NoCluster => held.saved # PausedDown
      /\ PauseAt(kind, Label(a), held)
      /\ cluster # NoCluster => cluster.saved # PausedDown
      /\ UNCHANGED monitor
      /\ Label(a) \in {"get", "del", "srem"}
  BY <1>1, <1>2, PauseNow, GetForDeleteEffect, DelEffect, SremEffect
<1>4. kind = "delete"
  <2>1. kind \in Kinds /\ Fits(kind, Label(a), held, got)
    BY <1>2, <1>3, ActiveFields DEF Moves, InProgram
  <2> QED BY <1>3, <2>1 DEF Fits, Kinds, PauseAt
<1>5. IF held = NoCluster THEN cluster = NoCluster /\ NonePaused ELSE NoneMonitoring
  BY <1>3, <1>4 DEF PauseAt
<1>6. /\ cluster' = NoCluster \/ cluster' = cluster
      /\ \E label : Goes(a, label, held, got) /\ label # "remove"
  <2>1. CASE GetForDelete(a)
    <3>1. /\ cluster' = cluster
          /\ Goes(a, "idle", held, got) \/ Goes(a, "del", held, got)
      BY <1>2, <2>1, GetForDeleteEffect
    <3> QED BY <3>1
  <2>2. CASE Del(a)
    BY <1>2, <2>2, DelEffect
  <2>3. CASE Srem(a)
    <3>1. cluster' = cluster /\ Goes(a, "idle", held, got)
      BY <1>2, <2>3, SremEffect
    <3> QED BY <3>1
  <2> QED BY <2>1, <2>2, <2>3
<1>7. PICK label : Goes(a, label, held, got) /\ label # "remove"
  BY <1>6
<1>8. IF held = NoCluster THEN cluster' = NoCluster /\ NonePaused' ELSE NoneMonitoring'
  BY <1>3, <1>5, <1>6 DEF NonePaused, NoneMonitoring
<1>9. Settled'
  BY <1>8 DEF Settled, NonePaused, NoneMonitoring
<1>10. PauseAt(kind, label, held)'
  BY <1>4, <1>7, <1>8 DEF PauseAt
<1> QED BY <1>2, <1>3, <1>6, <1>7, <1>9, <1>10, PauseMoves

\* The commands to the Sentinels.
LEMMA PauseMonitorAll ==
    ASSUME ClusterTypes, AloneInv, PauseInv, NEW a \in Requests, MonitorAll(a), Without(PauseUpsets)'
    PROVE  PauseInv'
<1>1. RequestStep(a)
  BY DEF RequestStep
<1>2. PICK kind, held, got : kind = Kind(a) /\ held = Held(a) /\ got = Got(a)
  OBVIOUS
<1>3. /\ Without(PauseUpsets) /\ Moves(a)
      /\ held # NoCluster => held.saved # PausedDown
      /\ PauseAt(kind, "monitor", held)
      /\ cluster # NoCluster => cluster.saved # PausedDown
      /\ UNCHANGED cluster
      /\ Goes(a, "detail", held, got)
  BY <1>1, <1>2, PauseNow, MonitorAllEffect
<1>4. kind = "create"
  <2>1. kind \in Kinds /\ Fits(kind, "monitor", held, got)
    BY <1>2, <1>3, ActiveFields, MonitorAllEffect DEF Moves, InProgram
  <2> QED BY <2>1 DEF Fits, Kinds
<1>5. NonePaused'
  BY <1>3, <1>4, MonitorAllEffect DEF PauseAt, NonePaused, DefaultDown, PausedDown
<1>6. PauseAt(kind, "detail", held)'
  BY <1>3, <1>4, <1>5 DEF PauseAt
<1> QED BY <1>2, <1>3, <1>6, PauseMoves

\* Setting the interval on all Sentinels pauses them all, or none.
LEMMA AllSet ==
    ASSUME ClusterTypes, NEW down \in Downs, SentinelSetConfig(SentinelAddrs, down)
    PROVE  /\ \A s \in SentinelAddrs : monitor'[s] # NoMonitor => monitor'[s].down = down
           /\ down # PausedDown => NonePaused'
<1>1. \A s \in SentinelAddrs : monitor'[s] # NoMonitor => monitor'[s].down = down
  BY SetConfigEffects
<1> QED BY <1>1 DEF NonePaused

LEMMA PauseSetConfig ==
    ASSUME ClusterTypes, AloneInv, PauseInv, NEW a \in Requests, SetConfig(a), Without(PauseUpsets)'
    PROVE  PauseInv'
<1>1. RequestStep(a)
  BY DEF RequestStep
<1>2. PICK kind, held, got, down : kind = Kind(a) /\ held = Held(a) /\ got = Got(a) /\ down = DownOf(a)
  OBVIOUS
<1>3. /\ Without(PauseUpsets) /\ Moves(a) /\ "sentinel" \notin upsets'
      /\ held # NoCluster => held.saved # PausedDown
      /\ PauseAt(kind, "set", held)
      /\ cluster # NoCluster => cluster.saved # PausedDown
      /\ UNCHANGED cluster
      /\ SentinelSetConfig(SentinelAddrs, down)
      /\ request[a] # NoRequest /\ Label(a) = "set"
  BY <1>1, <1>2, PauseNow, SetConfigEffect
<1>4. /\ held \in Cluster /\ kind \in {"edit", "pause", "resume"}
      /\ down \in Downs
      /\ kind = "pause" => down = PausedDown
      /\ kind = "edit" => down \in {FormDown, DefaultDown}
      /\ kind = "resume" => down = IF held.saved = 0 THEN DefaultDown ELSE held.saved
  BY <1>2, <1>3, DownOfKind
<1>5. held # NoCluster /\ held.saved # PausedDown
  BY <1>3, <1>4, ClusterNoneAssumption DEF ClusterNoneAssumption
<1>6. kind # "pause" => NonePaused'
  BY <1>3, <1>4, <1>5, AllSet DEF DefaultDown, FormDown, PausedDown
<1>7. CASE kind = "resume"
  <2>1. PICK c \in Cluster : ~c.paused /\ c.saved = 0 /\ Goes(a, "save", c, got)
    BY <1>2, <1>7, SetConfigEffect
  <2>2. PauseAt(kind, "save", c)'
    BY <1>6, <1>7, <2>1 DEF PauseAt
  <2>3. c.saved # PausedDown
    BY <2>1 DEF PausedDown
  <2> QED BY <1>2, <1>3, <2>1, <2>2, <2>3, PauseMoves
<1>8. CASE kind = "edit"
  <2>1. PICK label \in {"apply", "idle"} : Goes(a, label, held, got)
    BY <1>2, <1>8, SetConfigEffect
  <2>2. NonePaused' /\ ~held.paused /\ (cluster' # NoCluster => ~cluster'.paused)
    BY <1>3, <1>6, <1>8 DEF PauseAt
  <2>3. PauseAt(kind, label, held)'
    BY <1>8, <2>2 DEF PauseAt
  <2>4. Settled'
    BY <2>2 DEF Settled, NonePaused
  <2> QED BY <1>2, <1>3, <1>5, <2>1, <2>3, <2>4, PauseMoves
<1>9. CASE kind = "pause"
  <2>1. Goes(a, "idle", held, got)
    BY <1>2, <1>9, SetConfigEffect
  <2>2. cluster' = held /\ held.paused
    BY <1>3, <1>9 DEF PauseAt
  <2>3. \A s \in SentinelAddrs : monitor'[s] # NoMonitor => monitor'[s].down = PausedDown
    BY <1>3, <1>4, <1>9, AllSet
  <2>4. Settled'
    BY <1>5, <2>2, <2>3 DEF Settled
  <2> QED BY <1>2, <1>3, <2>1, <2>4, PauseMoves
<1> QED BY <1>4, <1>7, <1>8, <1>9

LEMMA PauseApplyConfig ==
    ASSUME ClusterTypes, AloneInv, PauseInv, NEW a \in Requests, ApplyConfig(a), Without(PauseUpsets)'
    PROVE  PauseInv'
<1>1. RequestStep(a)
  BY DEF RequestStep
<1>2. PICK kind, held, got, down : kind = Kind(a) /\ held = Held(a) /\ got = Got(a) /\ down = DownOf(a)
  OBVIOUS
<1>3. /\ Without(PauseUpsets) /\ Moves(a) /\ "sentinel" \notin upsets'
      /\ PauseAt(kind, "apply", held)
      /\ cluster # NoCluster => cluster.saved # PausedDown
      /\ UNCHANGED cluster
      /\ SentinelSetConfig(SentinelAddrs, down)
      /\ Goes(a, "idle", held, got)
      /\ request[a] # NoRequest /\ Label(a) = "apply"
  BY <1>1, <1>2, PauseNow, ApplyConfigEffect
<1>4. kind \in {"edit", "load"} /\ down \in {FormDown, DefaultDown} /\ down \in Downs
  BY <1>2, <1>3, DownOfKind
<1>5. NonePaused'
  BY <1>3, <1>4, AllSet DEF DefaultDown, FormDown, PausedDown
<1>6. Settled'
  BY <1>3, <1>4, <1>5 DEF PauseAt, Settled, NonePaused
<1> QED BY <1>2, <1>3, <1>6, PauseMoves

LEMMA PauseRemoveAll ==
    ASSUME ClusterTypes, AloneInv, PauseInv, NEW a \in Requests, RemoveAll(a), Without(PauseUpsets)'
    PROVE  PauseInv'
<1>1. RequestStep(a)
  BY DEF RequestStep
<1>2. PICK kind, held, got : kind = Kind(a) /\ held = Held(a) /\ got = Got(a)
  OBVIOUS
<1>3. /\ Without(PauseUpsets) /\ Moves(a) /\ "sentinel" \notin upsets'
      /\ held # NoCluster => held.saved # PausedDown
      /\ cluster # NoCluster => cluster.saved # PausedDown
      /\ UNCHANGED cluster
      /\ NoneMonitoring'
  BY <1>1, <1>2, PauseNow, RemoveAllEffect DEF NoneMonitoring
<1>4. kind = "delete" /\ held # NoCluster
  <2>1. kind \in Kinds /\ Fits(kind, "remove", held, got)
    BY <1>2, <1>3, ActiveFields, RemoveAllEffect DEF Moves, InProgram
  <2> QED BY <2>1 DEF Fits, Kinds
<1>5. PICK label \in {"delete primary", "get"} : Goes(a, label, held, got)
  BY <1>2, RemoveAllEffect
<1>6. PauseAt(kind, label, held)'
  BY <1>3, <1>4 DEF PauseAt
<1> QED BY <1>2, <1>3, <1>5, <1>6, PauseMoves

\* A pause notes an interval that is not its own.
LEMMA PauseQueryDetail ==
    ASSUME ClusterTypes, AloneInv, PauseInv, NEW a \in Requests, QueryDetail(a), Without(PauseUpsets)'
    PROVE  PauseInv'
<1>1. RequestStep(a)
  BY DEF RequestStep
<1>2. PICK kind, held : kind = Kind(a) /\ held = Held(a)
  OBVIOUS
<1>3. /\ Without(PauseUpsets) /\ Moves(a)
      /\ held # NoCluster => held.saved # PausedDown
      /\ PauseAt(kind, Label(a), held)
      /\ cluster # NoCluster => cluster.saved # PausedDown
      /\ UNCHANGED <<cluster, monitor>>
      /\ Label(a) \in {"detail", "replica detail"}
      /\ kind \in {"create", "edit", "pause", "sync"} /\ held \in Cluster
  BY <1>1, <1>2, PauseNow, QueryDetailEffect
<1>4. PICK d \in Answers, c \in Cluster, label \in Calls \union {"idle"} :
        QueryLeads(a, d, label, c) /\ Goes(a, label, c, d)
  BY QueryDetailEffect
<1>5. held.saved # PausedDown
  BY <1>3, ClusterNoneAssumption DEF ClusterNoneAssumption
<1>6. (NonePaused' <=> NonePaused) /\ (Settled' <=> Settled)
  BY <1>3 DEF NonePaused, Settled
<1>7. CASE kind = "pause"
  <2>1. NonePaused
    BY <1>3, <1>7 DEF PauseAt
  <2>2. d # NoDetail => d.down # PausedDown
    BY <2>1, AnswerFields DEF NonePaused, Monitoring
  <2>3. Noted(d) # PausedDown
    BY <2>2 DEF Noted, DefaultDown, PausedDown
  <2>4. label = "save" /\ c.paused /\ c.saved # PausedDown
    BY <1>2, <1>4, <1>7, <2>3 DEF QueryLeads
  <2>5. PauseAt(kind, label, c)'
    BY <1>6, <1>7, <2>1, <2>4 DEF PauseAt
  <2> QED BY <1>2, <1>3, <1>4, <2>4, <2>5, PauseMoves
<1>8. CASE kind # "pause"
  <2>1. c = held
    BY <1>2, <1>4, <1>8 DEF QueryLeads
  <2>2. PauseAt(kind, label, held)'
    BY <1>3, <1>6, <1>8 DEF PauseAt
  <2>3. Settled'
    BY <1>3, <1>6, <1>8, SettledBy DEF PauseAt
  <2> QED BY <1>2, <1>3, <1>4, <1>5, <2>1, <2>2, <2>3, PauseMoves
<1> QED BY <1>7, <1>8

\* The calls that leave the Sentinels and the stored cluster alone.
LEMMA PauseElsewhere ==
    ASSUME ClusterTypes, AloneInv, PauseInv, NEW a \in Requests, RequestStep(a), Without(PauseUpsets)',
           UNCHANGED <<cluster, monitor>>, Label(a) # "remove",
           Kind(a) \in {"create", "edit", "sync", "event", "delete", "test"},
           Held(a) # NoCluster, NEW c \in Cluster, NEW label, NEW d, Goes(a, label, c, d),
           c.paused = Held(a).paused, c.saved = Held(a).saved
    PROVE  PauseInv'
<1>1. PICK kind, held, now : kind = Kind(a) /\ held = Held(a) /\ now = Label(a)
  OBVIOUS
<1>2. /\ Without(PauseUpsets) /\ Moves(a)
      /\ held.saved # PausedDown /\ PauseAt(kind, now, held)
      /\ cluster # NoCluster => cluster.saved # PausedDown
  BY <1>1, PauseNow
<1>3. /\ NonePaused' <=> NonePaused
      /\ NoneMonitoring' <=> NoneMonitoring
      /\ Settled' <=> Settled
  BY DEF NonePaused, NoneMonitoring, Settled
<1>4. Settled
  BY <1>1, <1>2, SettledBy DEF PauseAt
<1>5. c # NoCluster
  BY ClusterNoneAssumption DEF ClusterNoneAssumption
<1>6. PauseAt(kind, label, c)'
  BY <1>1, <1>2, <1>3, <1>4, <1>5 DEF PauseAt
<1> QED BY <1>1, <1>2, <1>3, <1>4, <1>6, PauseMoves

LEMMA PauseRecords ==
    ASSUME ClusterTypes, AloneInv, PauseInv, NEW a \in Requests, Without(PauseUpsets)',
           \/ UpdatePrimary(a) \/ UpdateReplica(a) \/ DeletePrimary(a) \/ DeleteReplica(a)
           \/ TriggerTestFailover(a)
    PROVE  PauseInv'
<1>0. RequestStep(a)
  BY DEF RequestStep
<1>1. CASE UpdatePrimary(a)
  <2>1. /\ UNCHANGED <<cluster, monitor>> /\ Label(a) = "primary" /\ request[a] # NoRequest
    BY <1>1, UpdatePrimaryEffect
  <2>2. PICK c \in Cluster, label \in {"save", "replica", "idle"} : PrimaryLeads(a, label, c) /\ Goes(a, label, c, Got(a))
    BY <1>1, UpdatePrimaryEffect
  <2>3. c.paused = Held(a).paused /\ c.saved = Held(a).saved
    BY <2>2 DEF PrimaryLeads
  <2>4. Held(a) # NoCluster /\ Kind(a) \in {"create", "edit", "sync", "event"}
    BY <2>1, WritesFields, ClusterNoneAssumption DEF ClusterNoneAssumption
  <2> QED BY <1>0, <2>1, <2>2, <2>3, <2>4, PauseElsewhere
<1>2. CASE UpdateReplica(a)
  <2>1. /\ UNCHANGED <<cluster, monitor>> /\ Label(a) = "replica" /\ request[a] # NoRequest
        /\ \E label : Goes(a, label, Held(a), Got(a))
    BY <1>2, UpdateReplicaEffect
  <2>2. Held(a) \in Cluster /\ Held(a) # NoCluster /\ Kind(a) \in {"create", "edit", "sync", "event"}
    BY <2>1, WritesFields, ClusterNoneAssumption DEF ClusterNoneAssumption
  <2> QED BY <1>0, <2>1, <2>2, PauseElsewhere
<1>3. CASE DeletePrimary(a) \/ DeleteReplica(a)
  <2>1. /\ UNCHANGED <<cluster, monitor>> /\ Label(a) \in {"delete primary", "delete replica"}
        /\ Kind(a) \in {"delete", "edit"} /\ Held(a) \in Cluster
    BY <1>3, DeletePrimaryEffect, DeleteReplicaEffect
  <2>2. \/ Goes(a, "delete replica", Held(a), Got(a))
        \/ \E c \in Cluster, label \in {"get", "save"} :
                DeletionLeads(a, label, c) /\ Goes(a, label, c, Got(a))
    <3>1. CASE DeletePrimary(a)
      BY <3>1, DeletePrimaryEffect
    <3>2. CASE DeleteReplica(a)
      BY <3>2, DeleteReplicaEffect
    <3> QED BY <1>3, <3>1, <3>2
  <2>3. PICK c \in Cluster, label \in {"delete replica", "get", "save"} :
            Goes(a, label, c, Got(a)) /\ c.paused = Held(a).paused /\ c.saved = Held(a).saved
    BY <2>1, <2>2 DEF DeletionLeads
  <2>4. Held(a) # NoCluster
    BY <2>1, ClusterNoneAssumption DEF ClusterNoneAssumption
  <2> QED BY <1>0, <2>1, <2>3, <2>4, PauseElsewhere
<1>4. CASE TriggerTestFailover(a)
  <2>1. /\ UNCHANGED <<cluster, monitor>> /\ Label(a) = "command" /\ request[a] # NoRequest
        /\ Goes(a, "idle", Held(a), Got(a))
    BY <1>4, TriggerTestFailoverEffect
  <2>2. Fits(Kind(a), "command", Held(a), Got(a)) /\ Kind(a) \in Kinds
        /\ Held(a) \in Cluster \union {NoCluster}
    BY <2>1, ActiveFields DEF InProgram
  <2>3. Kind(a) = "test" /\ Held(a) # NoCluster
    BY <2>2 DEF Fits, Kinds
  <2> QED BY <1>0, <2>1, <2>2, <2>3, PauseElsewhere
<1> QED BY <1>1, <1>2, <1>3, <1>4

\* Each handler starts where its stage says.
LEMMA PauseBegins ==
    ASSUME ClusterTypes, AloneInv, PauseInv, NEW a \in Requests, Begins(a),
           UNCHANGED <<cluster, monitor>>
    PROVE  PauseInv'
<1> SUFFICES ASSUME Without(PauseUpsets)' PROVE PauseInv'
  BY DEF PauseInv
<1>1. PICK f \in Form, read \in Cluster \union {NoCluster}, d \in Detail \union {NoDetail} :
        /\ Begun(a, f, FirstCall(f, read), FirstCopy(f, read), d)
        /\ read = cluster \/ "store" \in upsets'
        /\ upsets \subseteq upsets' /\ Upsets(f) \subseteq upsets'
  BY DEF Begins
<1>2. PICK label, c, kind : label = FirstCall(f, cluster) /\ c = FirstCopy(f, cluster) /\ kind = f.kind
  OBVIOUS
<1>3. /\ read = cluster /\ Without(PauseUpsets) /\ Active = {}
      /\ kind # "api delete"
      /\ kind \in {"pause", "edit"} /\ cluster # NoCluster => ~cluster.paused
  BY <1>1, <1>2, UpsetsEffect DEF Without, PauseUpsets
<1>4. (cluster # NoCluster => cluster.saved # PausedDown) /\ Settled
  BY <1>3 DEF PauseInv
<1>5. Starts(f, cluster, label) /\ kind \in Kinds
  BY <1>1, <1>2, FirstCallStarts, FormFields
<1>6. /\ cluster = NoCluster /\ kind \in {"create", "api create", "load"} => ~c.paused /\ c.saved = 0
      /\ cluster = NoCluster /\ kind \notin {"create", "api create", "load"} => c = NoCluster
      /\ cluster # NoCluster => /\ c \in Cluster
                                /\ c.paused = cluster.paused /\ c.saved = cluster.saved
  <2>1. cluster \in Cluster \union {NoCluster}
    BY ClusterParts
  <2> QED BY <1>1, <1>2, <1>3, <2>1, FirstCopyFields
<1>7. c # NoCluster => c.saved # PausedDown
  <2>1. cluster = NoCluster /\ c # NoCluster => c.saved = 0
    BY <1>6
  <2>2. cluster # NoCluster => c.saved # PausedDown
    BY <1>4, <1>6
  <2> QED BY <2>1, <2>2, DownsDiffer
<1>8. /\ NonePaused' <=> NonePaused
      /\ Settled' <=> Settled
  BY DEF NonePaused, Settled
<1>9. /\ cluster = NoCluster => NonePaused
      /\ cluster # NoCluster /\ ~cluster.paused => NonePaused
  BY <1>4 DEF Settled, NonePaused
<1>10. cluster # NoCluster => c # NoCluster
  BY <1>6, ClusterNoneAssumption DEF ClusterNoneAssumption
<1>11. label # "idle" => PauseAt(kind, label, c)'
  <2>1. CASE cluster = NoCluster
    BY <1>2, <1>3, <1>4, <1>5, <1>6, <1>8, <1>9, <2>1 DEF PauseAt, Starts, Kinds
  <2>2. CASE cluster # NoCluster
    BY <1>2, <1>3, <1>4, <1>5, <1>6, <1>8, <1>9, <1>10, <2>2 DEF PauseAt, Starts, Kinds
  <2> QED BY <2>1, <2>2
<1>12. \A b \in Active' : /\ b = a /\ label # "idle"
                          /\ Kind(b)' = kind /\ Label(b)' = label /\ Held(b)' = c
  BY <1>1, <1>2, <1>3 DEF Begun, Active, Kind, Label, Held
<1>13. \A b \in Active' : Held(b)' # NoCluster => Held(b)'.saved # PausedDown
  BY <1>7, <1>12
<1>14. \A b \in Active' : PauseStage(b)'
  <2> SUFFICES ASSUME NEW b \in Active' PROVE PauseStage(b)'
    OBVIOUS
  <2>1. (PauseStage(b) <=> PauseAt(kind, label, c))'
    BY <1>12 DEF PauseStage
  <2> QED BY <1>11, <1>12, <2>1
<1> QED BY <1>4, <1>8, <1>13, <1>14 DEF PauseInv

\* What happens beside the requests changes no interval.
LEMMA PauseBeside ==
    ASSUME PauseInv, UNCHANGED <<cluster, request>>, upsets \subseteq upsets',
           \A s \in SentinelAddrs : /\ monitor'[s] = NoMonitor <=> monitor[s] = NoMonitor
                                    /\ monitor[s] # NoMonitor => monitor'[s].down = monitor[s].down
    PROVE  PauseInv'
<1> SUFFICES ASSUME Without(PauseUpsets)' PROVE PauseInv'
  BY DEF PauseInv
<1>1. Without(PauseUpsets)
  BY DEF Without
<1>2. /\ NonePaused' <=> NonePaused
      /\ NoneMonitoring' <=> NoneMonitoring
      /\ Settled' <=> Settled
  BY DEF NonePaused, NoneMonitoring, Settled
<1>3. Active' = Active /\ \A a \in Active : Held(a)' = Held(a)
  BY DEF Active, Held
<1>4. \A a \in Active : PauseStage(a)' <=> PauseStage(a)
  BY ZenonT(60), <1>2 DEF PauseStage, PauseAt, Kind, Label, Held
<1> QED BY <1>1, <1>2, <1>3, <1>4 DEF PauseInv

LEMMA PauseStep ==
    ASSUME ClusterTypes, AloneInv, PauseInv, [ClusterNext]_clusterVars
    PROVE  PauseInv'
<1>1. CASE UNCHANGED clusterVars
  BY <1>1, PauseBeside DEF clusterVars, storedVars
<1>2. ASSUME NEW a \in Requests, RequestStep(a) PROVE PauseInv'
  <2> SUFFICES ASSUME Without(PauseUpsets)' PROVE PauseInv'
    BY DEF PauseInv
  <2> QED BY <1>2, PauseSave, PauseIndex, PauseDeleteCluster, PauseMonitorAll, PauseSetConfig,
             PauseApplyConfig, PauseRemoveAll, PauseQueryDetail, PauseRecords DEF RequestStep
<1>3. CASE \E a \in Requests : Begins(a) /\ UNCHANGED <<cluster, monitor>>
  BY <1>3, PauseBegins
<1>4. CASE \E n \in Nodes : AutomaticFailover(n)
  BY <1>4, AutomaticFailoverEffect, PauseBeside
<1>5. CASE \E n \in Nodes : LoseReport(n)
  BY <1>5, LoseReportEffect, PauseBeside
<1>6. CASE \E s \in SentinelAddrs : Discover(s) \/ Learn(s)
  BY <1>6, DiscoverEffect, LearnEffect, PauseBeside
<1>7. CASE DNSProviderDelete \/ DNSProviderCreate
  BY <1>7, ProviderEffect, PauseBeside
<1> QED BY <1>1, <1>2, <1>3, <1>4, <1>5, <1>6, <1>7, ClusterSteps

-----------------------------------------------------------------------------
(* The DNS records.                                                        *)

\* When the request that moves is the only one, it is enough to look at it.
LEMMA RecordsMoves ==
    ASSUME ClusterTypes, AloneInv, NEW a \in Requests, Moves(a), Without(RecordsUpsets),
           NEW kind, kind = Kind(a), NEW label, NEW c, NEW d, Goes(a, label, c, d),
           label = "idle" => Names(cluster)',
           label # "idle" => RecordsAt(kind, label, c)'
    PROVE  RecordsInv'
<1>1. Active = {a} /\ Active' \subseteq {a}
  BY AloneAfter DEF Without, RecordsUpsets
<1>2. Active' = {} => label = "idle"
  BY <1>1 DEF Goes, Active
<1>3. \A b \in Active' : /\ b = a /\ label # "idle"
                         /\ Kind(b)' = kind /\ Label(b)' = label /\ Held(b)' = c
  BY <1>1 DEF Goes, Active, Kind, Label, Held
<1>4. \A b \in Active' : RecordStage(b)'
  <2> SUFFICES ASSUME NEW b \in Active' PROVE RecordStage(b)'
    OBVIOUS
  <2>1. (RecordStage(b) <=> RecordsAt(kind, label, c))'
    BY <1>3 DEF RecordStage
  <2> QED BY <1>3, <2>1
<1>5. Active' = {} => Names(cluster)'
  BY <1>2
<1> QED BY <1>4, <1>5 DEF RecordsInv

\* What the invariant says of a request that moves, and of the call it makes.
LEMMA RecordsNow ==
    ASSUME ClusterTypes, RecordsInv, NEW a \in Requests, RequestStep(a), Without(RecordsUpsets)'
    PROVE  /\ Without(RecordsUpsets) /\ Moves(a)
           /\ "store" \notin upsets' /\ "sentinel" \notin upsets' /\ "dns" \notin upsets'
           /\ RecordsAt(Kind(a), Label(a), Held(a))
           /\ request[a] # NoRequest /\ Kind(a) \in Kinds
           /\ Fits(Kind(a), Label(a), Held(a), Got(a))
<1>1. Moves(a) /\ a \in Active /\ request[a] # NoRequest
  BY RequestMoves DEF Moves, Active
<1>2. Without(RecordsUpsets)
  BY <1>1 DEF Without, Moves
<1>3. Kind(a) \in Kinds /\ Fits(Kind(a), Label(a), Held(a), Got(a))
  BY <1>1, ActiveFields DEF InProgram
<1> QED BY <1>1, <1>2, <1>3 DEF RecordsInv, RecordStage, Without, RecordsUpsets

\* No call of a request changes the loaded providers.
LEMMA LoadedSame ==
    ASSUME UNCHANGED loaded
    PROVE  \A c : Loaded(c)' <=> Loaded(c)
BY DEF Loaded

\* Names depends on the records and on where the cluster has its DNS.
LEMMA NamesSame ==
    ASSUME UNCHANGED <<loaded, primaryRec, replicaRec>>, NEW b, NEW c, b # NoCluster => c # NoCluster,
           b # NoCluster => c.provider = b.provider /\ c.replica = b.replica, Names(b)
    PROVE  Names(c)'
BY DEF Names, Loaded

LEMMA RecordsSave ==
    ASSUME ClusterTypes, AloneInv, RecordsInv, NEW a \in Requests, Save(a), Without(RecordsUpsets)'
    PROVE  RecordsInv'
<1>1. RequestStep(a)
  BY DEF RequestStep
<1>2. PICK kind, held, got : kind = Kind(a) /\ held = Held(a) /\ got = Got(a)
  OBVIOUS
<1>3. /\ Without(RecordsUpsets) /\ Moves(a) /\ RecordsAt(kind, "save", held)
      /\ cluster' = held /\ Goes(a, "index", held, got)
      /\ UNCHANGED <<loaded, monitor, primaryRec, replicaRec>>
  BY <1>1, <1>2, RecordsNow, SaveEffect
<1>4. kind \in {"create", "api create", "load", "edit", "pause", "resume"}
  BY <1>2, AfterSaveCalls, SaveEffect
<1>5. Names(held)' /\ Names(cluster)'
  BY <1>3, <1>4, LoadedSame DEF Names, RecordsAt
<1>6. RecordsAt(kind, "index", held)'
  BY <1>3, <1>4, <1>5, LoadedSame DEF RecordsAt
<1> QED BY <1>2, <1>3, <1>6, RecordsMoves

LEMMA RecordsIndex ==
    ASSUME ClusterTypes, AloneInv, RecordsInv, NEW a \in Requests, Index(a), Without(RecordsUpsets)'
    PROVE  RecordsInv'
<1>1. RequestStep(a)
  BY DEF RequestStep
<1>2. PICK kind, held, got, label :
        kind = Kind(a) /\ held = Held(a) /\ got = Got(a) /\ label = AfterSave(a, TRUE)
  OBVIOUS
<1>3. /\ Without(RecordsUpsets) /\ Moves(a) /\ RecordsAt(kind, "index", held)
      /\ Goes(a, label, held, got)
      /\ UNCHANGED <<loaded, cluster, monitor, primaryRec, replicaRec>>
  BY <1>1, <1>2, RecordsNow, IndexEffect
<1>4. /\ kind \in {"create", "api create", "load", "edit", "pause", "resume"}
      /\ kind = "create" => label = IF held.replica THEN "replica" ELSE "monitor"
      /\ kind = "load" => label = "apply"
      /\ kind \in {"edit", "pause"} => label = "set"
      /\ kind \in {"api create", "resume"} => label = "idle"
  BY <1>2, AfterSaveCalls, IndexEffect
<1>5. (Names(held) => Names(held)') /\ (Names(cluster) => Names(cluster)')
  BY <1>3, LoadedSame DEF Names
<1>6. label # "idle" => RecordsAt(kind, label, held)'
  BY <1>3, <1>4, <1>5, LoadedSame DEF RecordsAt
<1>7. label = "idle" => Names(cluster)'
  BY <1>3, <1>4, <1>5, LoadedSame DEF RecordsAt
<1> QED BY <1>2, <1>3, <1>6, <1>7, RecordsMoves

\* DeleteCluster finds the cluster the page has seen.
LEMMA RecordsDeleteCluster ==
    ASSUME ClusterTypes, AloneInv, RecordsInv, NEW a \in Requests,
           GetForDelete(a) \/ Del(a) \/ Srem(a), Without(RecordsUpsets)'
    PROVE  RecordsInv'
<1>1. RequestStep(a)
  BY DEF RequestStep
<1>2. PICK kind, held, got : kind = Kind(a) /\ held = Held(a) /\ got = Got(a)
  OBVIOUS
<1>3. /\ Without(RecordsUpsets) /\ Moves(a) /\ "store" \notin upsets'
      /\ RecordsAt(kind, Label(a), held) /\ kind \in Kinds /\ Fits(kind, Label(a), held, got)
      /\ UNCHANGED <<loaded, monitor, primaryRec, replicaRec>>
      /\ Label(a) \in {"get", "del", "srem"}
  BY <1>1, <1>2, RecordsNow, GetForDeleteEffect, DelEffect, SremEffect
<1>4. kind = "delete"
  BY <1>3, LoadedSame DEF RecordsAt, Fits, Kinds
<1>5. (NoneMonitoring => NoneMonitoring') /\ (Names(cluster) /\ cluster' = cluster => Names(cluster)')
  BY <1>3, LoadedSame DEF NoneMonitoring, Names
<1>6. CASE GetForDelete(a)
  <2>1. /\ Label(a) = "get" /\ UNCHANGED cluster
        /\ Goes(a, IF cluster = NoCluster THEN "idle" ELSE "del", held, got)
    BY <1>2, <1>3, <1>6, GetForDeleteEffect
  <2>2. CASE held = NoCluster
    <3>1. cluster = NoCluster /\ Names(cluster)'
      BY <1>3, <1>4, <1>5, <2>1, <2>2, LoadedSame DEF RecordsAt
    <3>2. Goes(a, "idle", held, got)
      BY <2>1, <3>1
    <3> QED BY <1>2, <1>3, <3>1, <3>2, RecordsMoves
  <2>3. CASE held # NoCluster
    <3>1. /\ cluster = held /\ primaryRec = {} /\ replicaRec = {} /\ NoneMonitoring
      BY <1>3, <1>4, <2>1, <2>3, LoadedSame DEF RecordsAt
    <3>2. Goes(a, "del", held, got)
      BY <2>1, <2>3, <3>1
    <3>3. RecordsAt(kind, "del", held)'
      BY <1>3, <1>4, <1>5, <2>1, <2>3, <3>1, LoadedSame DEF RecordsAt
    <3> QED BY <1>2, <1>3, <3>2, <3>3, RecordsMoves
  <2> QED BY <2>2, <2>3
<1>7. CASE Del(a)
  <2>1. Label(a) = "del" /\ cluster' = NoCluster /\ Goes(a, "srem", held, got)
    BY <1>2, <1>3, <1>7, DelEffect
  <2>2. RecordsAt(kind, "srem", held)'
    BY <1>3, <1>4, <1>5, <2>1, LoadedSame DEF RecordsAt
  <2> QED BY <1>2, <1>3, <2>1, <2>2, RecordsMoves
<1>8. CASE Srem(a)
  <2>1. Label(a) = "srem" /\ Goes(a, "idle", held, got)
    BY <1>2, <1>8, SremEffect
  <2>2. primaryRec = {} /\ replicaRec = {}
    BY <1>3, <1>4, <2>1, LoadedSame DEF RecordsAt
  <2>3. Names(cluster)'
    BY <1>3, <2>2, LoadedSame DEF Names
  <2> QED BY <1>2, <1>3, <2>1, <2>3, RecordsMoves
<1> QED BY <1>6, <1>7, <1>8

\* The commands to the Sentinels leave the records alone.
LEMMA RecordsCommands ==
    ASSUME ClusterTypes, AloneInv, RecordsInv, NEW a \in Requests,
           MonitorAll(a) \/ ApplyConfig(a) \/ TriggerTestFailover(a), Without(RecordsUpsets)'
    PROVE  RecordsInv'
<1>1. RequestStep(a)
  BY DEF RequestStep
<1>2. PICK kind, held, got : kind = Kind(a) /\ held = Held(a) /\ got = Got(a)
  OBVIOUS
<1>3. /\ Without(RecordsUpsets) /\ Moves(a)
      /\ RecordsAt(kind, Label(a), held) /\ kind \in Kinds /\ Fits(kind, Label(a), held, got)
      /\ UNCHANGED <<loaded, cluster, primaryRec, replicaRec>>
      /\ Label(a) \in {"monitor", "apply", "command"}
  BY <1>1, <1>2, RecordsNow, MonitorAllEffect, ApplyConfigEffect, TriggerTestFailoverEffect
<1>4. (Names(held) => Names(held)') /\ (Names(cluster) => Names(cluster)')
  BY <1>3, LoadedSame DEF Names
<1>5. Names(cluster)'
  BY <1>3, <1>4, LoadedSame DEF RecordsAt, Fits, Kinds
<1>6. CASE MonitorAll(a)
  <2>1. Label(a) = "monitor" /\ Goes(a, "detail", held, got)
    BY <1>2, <1>6, MonitorAllEffect
  <2>2. RecordsAt(kind, "detail", held)'
    BY <1>3, <1>4, <1>5, <2>1, LoadedSame DEF RecordsAt, Fits, Kinds
  <2> QED BY <1>2, <1>3, <2>1, <2>2, RecordsMoves
<1>7. CASE ApplyConfig(a) \/ TriggerTestFailover(a)
  <2>1. Goes(a, "idle", held, got)
    BY <1>2, <1>7, ApplyConfigEffect, TriggerTestFailoverEffect
  <2> QED BY <1>2, <1>3, <1>5, <2>1, RecordsMoves
<1> QED BY <1>6, <1>7

LEMMA RecordsSetConfig ==
    ASSUME ClusterTypes, AloneInv, RecordsInv, NEW a \in Requests, SetConfig(a), Without(RecordsUpsets)'
    PROVE  RecordsInv'
<1>1. RequestStep(a)
  BY DEF RequestStep
<1>2. PICK kind, held, got : kind = Kind(a) /\ held = Held(a) /\ got = Got(a)
  OBVIOUS
<1>3. /\ Without(RecordsUpsets) /\ Moves(a) /\ RecordsAt(kind, "set", held)
      /\ UNCHANGED <<loaded, cluster, primaryRec, replicaRec>>
      /\ request[a] # NoRequest /\ Label(a) = "set"
  BY <1>1, <1>2, RecordsNow, SetConfigEffect
<1>4. held \in Cluster /\ kind \in {"edit", "pause", "resume"}
  BY <1>2, <1>3, DownOfKind
<1>5. (Names(held) => Names(held)') /\ (Names(cluster) => Names(cluster)')
  BY <1>3, LoadedSame DEF Names
<1>6. Names(cluster)' /\ Names(held)
  BY <1>3, <1>4, <1>5, LoadedSame DEF RecordsAt
<1>7. CASE kind = "resume"
  <2>1. PICK c \in Cluster : /\ c.provider = held.provider /\ c.replica = held.replica
                             /\ Goes(a, "save", c, got)
    BY <1>2, <1>7, SetConfigEffect
  <2>2. Names(c)'
    BY <1>3, <1>4, <1>6, <2>1, ClusterNoneAssumption DEF Names, Loaded, ClusterNoneAssumption
  <2>3. RecordsAt(kind, "save", c)'
    BY <1>6, <1>7, <2>2 DEF RecordsAt
  <2> QED BY <1>2, <1>3, <2>1, <2>3, RecordsMoves
<1>8. CASE kind # "resume"
  <2>1. PICK label \in {"apply", "idle"} : (label = "apply" => kind = "edit") /\ Goes(a, label, held, got)
    BY <1>2, <1>8, SetConfigEffect
  <2>2. label = "apply" => RecordsAt(kind, label, held)'
    BY <1>3, <1>5, <1>6, <2>1, LoadedSame DEF RecordsAt
  <2> QED BY <1>2, <1>3, <1>6, <2>1, <2>2, RecordsMoves
<1> QED BY <1>7, <1>8

LEMMA RecordsRemoveAll ==
    ASSUME ClusterTypes, AloneInv, RecordsInv, NEW a \in Requests, RemoveAll(a), Without(RecordsUpsets)'
    PROVE  RecordsInv'
<1>1. RequestStep(a)
  BY DEF RequestStep
<1>2. PICK kind, held, got : kind = Kind(a) /\ held = Held(a) /\ got = Got(a)
  OBVIOUS
<1>3. /\ Without(RecordsUpsets) /\ Moves(a) /\ "sentinel" \notin upsets'
      /\ RecordsAt(kind, "remove", held) /\ kind \in Kinds /\ Fits(kind, "remove", held, got)
      /\ UNCHANGED <<loaded, cluster, primaryRec, replicaRec>>
      /\ Goes(a, IF Loaded(held) THEN "delete primary" ELSE "get", held, got)
  BY <1>1, <1>2, RecordsNow, RemoveAllEffect
<1>4. NoneMonitoring'
  BY <1>3, RemoveAllEffect DEF NoneMonitoring
<1>5. kind = "delete" /\ held # NoCluster
  BY <1>3 DEF Fits, Kinds
<1>6. cluster = held /\ Names(cluster) /\ Names(cluster)'
  BY <1>3, <1>5, LoadedSame DEF RecordsAt, Names
<1>7. CASE Loaded(held)
  <2>1. RecordsAt(kind, "delete primary", held)'
    BY <1>3, <1>4, <1>5, <1>6, LoadedSame DEF RecordsAt
  <2> QED BY <1>2, <1>3, <1>7, <2>1, RecordsMoves
<1>8. CASE ~Loaded(held)
  <2>1. primaryRec = {} /\ replicaRec = {}
    BY <1>6, <1>8 DEF Names
  <2>2. RecordsAt(kind, "get", held)'
    BY <1>3, <1>4, <1>5, <1>6, <2>1, LoadedSame DEF RecordsAt
  <2> QED BY <1>2, <1>3, <1>8, <2>2, RecordsMoves
<1> QED BY <1>7, <1>8

LEMMA RecordsQueryDetail ==
    ASSUME ClusterTypes, AloneInv, RecordsInv, NEW a \in Requests, QueryDetail(a), Without(RecordsUpsets)'
    PROVE  RecordsInv'
<1>1. RequestStep(a)
  BY DEF RequestStep
<1>2. PICK kind, held, now : kind = Kind(a) /\ held = Held(a) /\ now = Label(a)
  OBVIOUS
<1>3. /\ Without(RecordsUpsets) /\ Moves(a) /\ RecordsAt(kind, now, held)
      /\ UNCHANGED <<loaded, cluster, monitor, primaryRec, replicaRec>>
      /\ now \in {"detail", "replica detail"}
      /\ now = "replica detail" => kind = "edit"
      /\ kind \in {"create", "edit", "pause", "sync"} /\ held \in Cluster
  <2>1. Fits(kind, now, held, Got(a))
    BY <1>1, <1>2, RecordsNow
  <2> QED BY <1>1, <1>2, <2>1, RecordsNow, QueryDetailEffect DEF Fits
<1>4. PICK d \in Answers, c \in Cluster, label \in Calls \union {"idle"} :
        QueryLeads(a, d, label, c) /\ Goes(a, label, c, d)
  BY QueryDetailEffect
<1>5. (Names(held) => Names(held)') /\ (Names(cluster) => Names(cluster)')
  BY <1>3, LoadedSame DEF Names
<1>6. Usable(a, d) => Loaded(held)
  BY <1>2 DEF Usable
<1>7. CASE kind = "pause"
  <2>1. label = "save" /\ c.provider = held.provider /\ c.replica = held.replica
    BY <1>2, <1>4, <1>7 DEF QueryLeads
  <2>2. Names(held) /\ Names(cluster)'
    BY <1>3, <1>5, <1>7, LoadedSame DEF RecordsAt
  <2>3. Names(c)'
    BY <1>3, <2>1, <2>2, ClusterNoneAssumption DEF Names, Loaded, ClusterNoneAssumption
  <2>4. RecordsAt(kind, label, c)'
    BY <1>7, <2>1, <2>2, <2>3 DEF RecordsAt
  <2> QED BY <1>2, <1>3, <1>4, <2>1, <2>4, RecordsMoves
<1>8. CASE kind = "edit"
  <2>1. /\ c = held /\ label \in {"primary", "replica", "save"}
        /\ label \in {"primary", "replica"} => Usable(a, d)
        /\ label = "replica" => now = "replica detail"
    BY <1>2, <1>3, <1>4, <1>8 DEF QueryLeads
  <2>2. RecordsAt(kind, label, held)'
    BY <1>3, <1>5, <1>6, <1>8, <2>1, LoadedSame DEF RecordsAt
  <2> QED BY <1>2, <1>3, <1>4, <2>1, <2>2, RecordsMoves
<1>9. CASE kind \in {"create", "sync"}
  <2>1. /\ c = held /\ label \in {"primary", "idle"}
        /\ label = "primary" => Usable(a, d)
    BY <1>2, <1>4, <1>9 DEF QueryLeads
  <2>2. now = "detail" /\ Names(cluster)'
    BY <1>3, <1>5, <1>9, LoadedSame DEF RecordsAt
  <2>3. label = "primary" => RecordsAt(kind, label, held)'
    BY <1>3, <1>5, <1>6, <1>9, <2>1, <2>2, LoadedSame DEF RecordsAt
  <2> QED BY <1>2, <1>3, <1>4, <2>1, <2>2, <2>3, RecordsMoves
<1> QED BY <1>3, <1>7, <1>8, <1>9

\* A record is written under a cluster record that names it, or that the page saves.
LEMMA RecordsUpdatePrimary ==
    ASSUME ClusterTypes, AloneInv, RecordsInv, NEW a \in Requests, UpdatePrimary(a), Without(RecordsUpsets)'
    PROVE  RecordsInv'
<1>1. RequestStep(a)
  BY DEF RequestStep
<1>2. PICK kind, held, got : kind = Kind(a) /\ held = Held(a) /\ got = Got(a)
  OBVIOUS
<1>3. /\ Without(RecordsUpsets) /\ Moves(a) /\ RecordsAt(kind, "primary", held)
      /\ UNCHANGED <<loaded, cluster, monitor, replicaRec>>
      /\ request[a] # NoRequest /\ Label(a) = "primary"
  BY <1>1, <1>2, RecordsNow, UpdatePrimaryEffect
<1>4. held \in Cluster /\ kind \in {"create", "edit", "sync", "event"}
  BY <1>2, <1>3, WritesFields
<1>5. PICK c \in Cluster, label \in {"save", "replica", "idle"} :
        PrimaryLeads(a, label, c) /\ Goes(a, label, c, got)
  BY <1>2, UpdatePrimaryEffect
<1>6. /\ c.provider = held.provider
      /\ held.replica => c.replica
      /\ kind = "create" => (label = "save" /\ c.replica) \/ label = "idle"
      /\ kind = "edit" => (label = "replica" /\ c.replica) \/ label = "save"
      /\ kind = "sync" => c.replica = held.replica /\ label \in {"replica", "idle"}
      /\ kind = "sync" /\ label = "replica" => held.replica
      /\ kind = "event" => label = "idle"
  BY <1>2, <1>5 DEF PrimaryLeads
<1>7. Loaded(held) /\ Loaded(c) /\ held # NoCluster /\ c # NoCluster
  BY <1>3, <1>4, <1>6, ClusterNoneAssumption DEF RecordsAt, Loaded, ClusterNoneAssumption
<1>8. /\ kind \in {"create", "edit"} => Names(c)'
      /\ kind \in {"create", "sync", "event"} => Names(cluster)'
  BY <1>3, <1>4, <1>6, <1>7 DEF RecordsAt, Names, Loaded
<1>9. label # "idle" => RecordsAt(kind, label, c)'
  BY <1>3, <1>4, <1>6, <1>7, <1>8, LoadedSame DEF RecordsAt
<1>10. label = "idle" => Names(cluster)'
  BY <1>4, <1>6, <1>8
<1> QED BY <1>2, <1>3, <1>5, <1>9, <1>10, RecordsMoves

LEMMA RecordsUpdateReplica ==
    ASSUME ClusterTypes, AloneInv, RecordsInv, NEW a \in Requests, UpdateReplica(a), Without(RecordsUpsets)'
    PROVE  RecordsInv'
<1>1. RequestStep(a)
  BY DEF RequestStep
<1>2. PICK kind, held, got : kind = Kind(a) /\ held = Held(a) /\ got = Got(a)
  OBVIOUS
<1>3. /\ Without(RecordsUpsets) /\ Moves(a) /\ RecordsAt(kind, "replica", held)
      /\ UNCHANGED <<loaded, cluster, monitor, primaryRec>>
      /\ request[a] # NoRequest /\ Label(a) = "replica" /\ kind \in {"create", "edit", "sync"}
      /\ Goes(a, IF kind = "edit" THEN "save" ELSE "idle", held, got)
  BY <1>1, <1>2, RecordsNow, UpdateReplicaEffect
<1>4. held \in Cluster
  BY <1>2, <1>3, WritesFields
<1>5. Loaded(held) /\ held # NoCluster /\ held.replica
  BY <1>3, <1>4, ClusterNoneAssumption, LoadedSame DEF RecordsAt, ClusterNoneAssumption
<1>6. /\ kind \in {"create", "edit"} => Names(held)'
      /\ kind \in {"create", "sync"} => Names(cluster)'
  BY <1>3, <1>4, <1>5 DEF RecordsAt, Names, Loaded
<1>7. CASE kind = "edit"
  <2>1. RecordsAt(kind, "save", held)'
    BY <1>6, <1>7 DEF RecordsAt
  <2> QED BY <1>2, <1>3, <1>7, <2>1, RecordsMoves
<1>8. CASE kind # "edit"
  BY <1>2, <1>3, <1>6, <1>8, RecordsMoves
<1> QED BY <1>7, <1>8

\* Once both records are deleted, where there were both, the cluster may go.
LEMMA RecordsGone ==
    ASSUME ClusterTypes, AloneInv, RecordsInv, NEW a \in Requests, Without(RecordsUpsets)',
           DeletePrimary(a) \/ DeleteReplica(a), primaryRec' = {}, replicaRec' = {},
           UNCHANGED <<loaded, cluster, monitor>>,
           NEW c \in Cluster, NEW label \in {"get", "save"}, DeletionLeads(a, label, c), Goes(a, label, c, Got(a))
    PROVE  RecordsInv'
<1>1. RequestStep(a)
  BY DEF RequestStep
<1>2. PICK kind, held, got : kind = Kind(a) /\ held = Held(a) /\ got = Got(a)
  OBVIOUS
<1>3. /\ Without(RecordsUpsets) /\ Moves(a) /\ RecordsAt(kind, Label(a), held)
      /\ Label(a) \in {"delete primary", "delete replica"}
      /\ kind \in {"delete", "edit"} /\ held \in Cluster
  BY <1>1, <1>2, RecordsNow, DeletePrimaryEffect, DeleteReplicaEffect
<1>4. /\ kind = "delete" => label = "get" /\ c = held
      /\ kind = "edit" => label = "save"
  BY <1>2 DEF DeletionLeads
<1>5. \A x : Names(x)'
  BY DEF Names
<1>6. held # NoCluster /\ (NoneMonitoring => NoneMonitoring')
  BY <1>3, ClusterNoneAssumption DEF NoneMonitoring, ClusterNoneAssumption
<1>7. RecordsAt(kind, label, c)'
  BY <1>3, <1>4, <1>5, <1>6, LoadedSame DEF RecordsAt
<1> QED BY <1>2, <1>3, <1>7, RecordsMoves

LEMMA RecordsDeletePrimary ==
    ASSUME ClusterTypes, AloneInv, RecordsInv, NEW a \in Requests, DeletePrimary(a), Without(RecordsUpsets)'
    PROVE  RecordsInv'
<1>1. RequestStep(a)
  BY DEF RequestStep
<1>2. PICK kind, held, got : kind = Kind(a) /\ held = Held(a) /\ got = Got(a)
  OBVIOUS
<1>3. /\ Without(RecordsUpsets) /\ Moves(a) /\ RecordsAt(kind, "delete primary", held)
      /\ kind \in {"delete", "edit"} /\ held \in Cluster
      /\ UNCHANGED <<loaded, cluster, monitor, replicaRec>> /\ primaryRec' = {}
  BY <1>1, <1>2, RecordsNow, DeletePrimaryEffect
<1>4. /\ held # NoCluster /\ (NoneMonitoring => NoneMonitoring')
      /\ Names(held) => Names(held)'
  BY <1>3, ClusterNoneAssumption, LoadedSame DEF NoneMonitoring, Names, ClusterNoneAssumption
<1>5. Names(held)
  BY <1>3, <1>4, LoadedSame DEF RecordsAt
<1>6. CASE held.replica
  <2>1. Goes(a, "delete replica", held, got)
    BY <1>2, <1>6, DeletePrimaryEffect
  <2>2. RecordsAt(kind, "delete replica", held)'
    BY <1>3, <1>4, <1>5, <1>6, LoadedSame DEF RecordsAt
  <2> QED BY <1>2, <1>3, <2>1, <2>2, RecordsMoves
<1>7. CASE ~held.replica
  <2>1. replicaRec' = {}
    BY <1>3, <1>5, <1>7, LoadedSame DEF Names
  <2>2. PICK c \in Cluster, label \in {"get", "save"} :
            DeletionLeads(a, label, c) /\ Goes(a, label, c, Got(a))
    BY <1>2, <1>7, DeletePrimaryEffect
  <2> QED BY <1>3, <2>1, <2>2, RecordsGone
<1> QED BY <1>6, <1>7

LEMMA RecordsDeleteReplica ==
    ASSUME ClusterTypes, AloneInv, RecordsInv, NEW a \in Requests, DeleteReplica(a), Without(RecordsUpsets)'
    PROVE  RecordsInv'
<1>1. RequestStep(a)
  BY DEF RequestStep
<1>2. /\ RecordsAt(Kind(a), "delete replica", Held(a))
      /\ Kind(a) \in {"delete", "edit"} /\ Held(a) \in Cluster
      /\ UNCHANGED <<loaded, cluster, monitor, primaryRec>> /\ replicaRec' = {}
  BY <1>1, RecordsNow, DeleteReplicaEffect
<1>3. primaryRec' = {}
  BY <1>2, ClusterNoneAssumption DEF RecordsAt, ClusterNoneAssumption
<1>4. PICK c \in Cluster, label \in {"get", "save"} :
        DeletionLeads(a, label, c) /\ Goes(a, label, c, Got(a))
  BY DeleteReplicaEffect
<1> QED BY <1>2, <1>3, <1>4, RecordsGone

LEMMA RecordsBegins ==
    ASSUME ClusterTypes, AloneInv, RecordsInv, NEW a \in Requests, Begins(a),
           UNCHANGED <<loaded, cluster, monitor, primaryRec, replicaRec>>
    PROVE  RecordsInv'
<1> SUFFICES ASSUME Without(RecordsUpsets)' PROVE RecordsInv'
  BY DEF RecordsInv
<1>1. PICK f \in Form, read \in Cluster \union {NoCluster}, d \in Detail \union {NoDetail} :
        /\ Begun(a, f, FirstCall(f, read), FirstCopy(f, read), d)
        /\ read = cluster \/ "store" \in upsets'
        /\ upsets \subseteq upsets' /\ Upsets(f) \subseteq upsets'
  BY DEF Begins
<1>2. PICK label, c, kind : label = FirstCall(f, cluster) /\ c = FirstCopy(f, cluster) /\ kind = f.kind
  OBVIOUS
<1>3. /\ read = cluster /\ Without(RecordsUpsets) /\ Active = {}
      /\ kind # "api delete"
  BY <1>1, <1>2, UpsetsEffect DEF Without, RecordsUpsets
<1>4. Names(cluster)
  BY <1>3 DEF RecordsInv
<1>5. Starts(f, cluster, label) /\ kind \in Kinds
  BY <1>1, <1>2, FirstCallStarts, FormFields
<1>6. Names(cluster)' /\ (Names(c) => Names(c)')
  BY <1>4, LoadedSame DEF Names
<1>7. label # "idle" => RecordsAt(kind, label, c)'
  <2>1. CASE cluster = NoCluster
    <3>1. \A x : Names(x)'
      BY <1>4, <2>1 DEF Names
    <3>2. /\ kind \notin {"create", "api create", "load"} => c = NoCluster
          /\ kind = "create" => ~c.replica
      BY <1>1, <1>2, <1>3, <2>1, FirstCopyFields
    <3> QED BY <1>2, <1>3, <1>5, <2>1, <3>1, <3>2 DEF RecordsAt, Starts, Kinds
  <2>2. CASE cluster # NoCluster /\ kind = "edit"
    <3>1. /\ c \in Cluster
          /\ c.provider = IF AddsDNS(f, cluster) THEN f.provider
                          ELSE IF Disables(f, cluster) /\ ~Loaded(cluster) THEN "" ELSE cluster.provider
          /\ c.replica = IF AddsReplica(f, cluster) THEN TRUE
                         ELSE IF Disables(f, cluster) /\ ~Loaded(cluster) THEN FALSE ELSE cluster.replica
      BY <1>1, <1>2, <1>3, <2>2, FirstCopyFields
    <3>2. AddsDNS(f, cluster) => ~Loaded(cluster)
      BY DEF AddsDNS, Loaded
    <3>3. c # NoCluster
      BY <3>1, ClusterNoneAssumption DEF ClusterNoneAssumption
    <3>4. Names(c)
      <4>1. CASE Loaded(cluster)
        <5>1. c.provider = cluster.provider /\ (cluster.replica => c.replica)
          BY <3>1, <3>2, <4>1
        <5> QED BY <1>4, <3>3, <5>1 DEF Names, Loaded
      <4>2. CASE ~Loaded(cluster)
        BY <1>4, <4>2 DEF Names
      <4> QED BY <4>1, <4>2
    <3>5. /\ label \in {"delete primary", "save", "detail", "replica detail"}
          /\ label = "replica detail" => AddsReplica(f, cluster)
      BY <1>2, <1>5, <2>2 DEF Starts
    <3>6. label = "replica detail" => c.replica
      BY <3>1, <3>5
    <3>7. Names(c)'
      BY <1>6, <3>4
    <3> QED BY <2>2, <3>5, <3>6, <3>7 DEF RecordsAt
  <2>3. CASE cluster # NoCluster /\ kind # "edit"
    <3>1. c = cluster
      BY <1>1, <1>2, <1>3, <2>3, FirstCopyFields
    <3>2. Names(c)' /\ cluster' = c /\ c # NoCluster
      BY <1>6, <2>3, <3>1
    <3>3. Names(cluster)'
      BY <1>6
    <3>4. label = "primary" => Loaded(c)'
      <4>1. label = "primary" => Loaded(c)
        BY <1>2, <1>5, <2>3, <3>1 DEF Starts, Kinds
      <4> QED BY <4>1, LoadedSame
    <3>5. /\ kind \in {"create", "api create", "load"} => label = "idle"
          /\ kind = "delete" => label = "remove"
          /\ label \notin {"replica", "replica detail"}
      BY <1>2, <1>5, <2>3 DEF Starts, Kinds
    <3> QED BY <1>3, <2>3, <3>2, <3>3, <3>4, <3>5 DEF RecordsAt
  <2> QED BY <2>1, <2>2, <2>3
<1>8. \A b \in Active' : /\ b = a /\ label # "idle"
                         /\ Kind(b)' = kind /\ Label(b)' = label /\ Held(b)' = c
  BY <1>1, <1>2, <1>3 DEF Begun, Active, Kind, Label, Held
<1>9. \A b \in Active' : RecordStage(b)'
  <2> SUFFICES ASSUME NEW b \in Active' PROVE RecordStage(b)'
    OBVIOUS
  <2>1. (RecordStage(b) <=> RecordsAt(kind, label, c))'
    BY <1>8 DEF RecordStage
  <2> QED BY <1>7, <1>8, <2>1
<1> QED BY <1>6, <1>9 DEF RecordsInv

\* What happens beside the requests leaves the records alone, and takes away no provider
\* that the stored cluster or a request's copy uses.
LEMMA RecordsBeside ==
    ASSUME ClusterTypes, RecordsInv, UNCHANGED <<cluster, request, primaryRec, replicaRec>>,
           upsets \subseteq upsets',
           \A s \in SentinelAddrs : monitor'[s] = NoMonitor <=> monitor[s] = NoMonitor,
           Without(RecordsUpsets)' =>
               \A c \in {cluster} \union {Held(a) : a \in Active} :
                   c # NoCluster /\ Loaded(c) => Loaded(c)'
    PROVE  RecordsInv'
<1> SUFFICES ASSUME Without(RecordsUpsets)' PROVE RecordsInv'
  BY DEF RecordsInv
<1>1. Without(RecordsUpsets)
  BY DEF Without
<1>2. NoneMonitoring' <=> NoneMonitoring
  BY DEF NoneMonitoring
<1>3. Active' = Active /\ (Names(cluster) => Names(cluster)')
  BY DEF Active, Names
<1>4. ASSUME NEW a \in Active, RecordStage(a)
      PROVE  RecordStage(a)'
  <2>1. PICK kind, label, held : kind = Kind(a) /\ label = Label(a) /\ held = Held(a)
    OBVIOUS
  <2>2. kind = Kind(a)' /\ label = Label(a)' /\ held = Held(a)'
    BY <2>1 DEF Kind, Label, Held
  <2>3. RecordsAt(kind, label, held)
    BY <1>4, <2>1 DEF RecordStage
  <2>4. held # NoCluster /\ Loaded(held) => Loaded(held)'
    BY <2>1
  <2>5. Names(held) => Names(held)'
    BY <2>4 DEF Names
  <2>6. kind = "create" \/ label \in {"primary", "replica"} => held # NoCluster
    BY <2>1, ClusterParts DEF InProgram, Fits
  <2>7. RecordsAt(kind, label, held)'
    BY <1>2, <1>3, <2>3, <2>4, <2>5, <2>6 DEF RecordsAt
  <2>8. (RecordStage(a) <=> RecordsAt(kind, label, held))'
    BY <2>2 DEF RecordStage
  <2> QED BY <2>7, <2>8
<1> QED BY <1>1, <1>3, <1>4 DEF RecordsInv

LEMMA RecordsStep ==
    ASSUME ClusterTypes, AloneInv, RecordsInv, [ClusterNext]_clusterVars
    PROVE  RecordsInv'
<1>1. CASE UNCHANGED clusterVars
  BY <1>1, RecordsBeside, LoadedSame DEF clusterVars, storedVars, recordVars
<1>2. ASSUME NEW a \in Requests, RequestStep(a) PROVE RecordsInv'
  <2> SUFFICES ASSUME Without(RecordsUpsets)' PROVE RecordsInv'
    BY DEF RecordsInv
  <2> QED BY <1>2, RecordsSave, RecordsIndex, RecordsDeleteCluster, RecordsCommands, RecordsSetConfig,
             RecordsRemoveAll, RecordsQueryDetail, RecordsUpdatePrimary, RecordsUpdateReplica,
             RecordsDeletePrimary, RecordsDeleteReplica DEF RequestStep
<1>3. CASE \E a \in Requests : Begins(a) /\ UNCHANGED <<loaded, cluster, monitor, primaryRec, replicaRec>>
  BY <1>3, RecordsBegins
<1>4. CASE \E n \in Nodes : AutomaticFailover(n)
  BY <1>4, AutomaticFailoverEffect, RecordsBeside, LoadedSame
<1>5. CASE \E n \in Nodes : LoseReport(n)
  BY <1>5, LoseReportEffect, RecordsBeside, LoadedSame
<1>6. CASE \E s \in SentinelAddrs : Discover(s) \/ Learn(s)
  BY <1>6, DiscoverEffect, LearnEffect, RecordsBeside, LoadedSame
<1>7. CASE DNSProviderDelete \/ DNSProviderCreate
  <2>1. /\ UNCHANGED <<cluster, monitor, primaryRec, replicaRec, request>>
        /\ upsets \subseteq upsets'
    BY <1>7, ProviderEffect
  <2>2. loaded' = TRUE => \A c : Loaded(c) => Loaded(c)'
    BY DEF Loaded
  <2>3. Without(RecordsUpsets)' =>
            \A c \in {cluster} \union {Held(a) : a \in Active} : c # NoCluster /\ Loaded(c) => Loaded(c)'
    BY <1>7, <2>2, ProviderEffect DEF Without, RecordsUpsets
  <2> QED BY <2>1, <2>3, RecordsBeside
<1> QED BY <1>1, <1>2, <1>3, <1>4, <1>5, <1>6, <1>7, ClusterSteps

LEMMA RecordsStart == ClusterInit => RecordsInv
BY ClusterInitParts DEF RecordsInv, Names

-----------------------------------------------------------------------------
(* The delete page.                                                        *)

\* Only a step of the request itself ends it.
LEMMA EndsByItself ==
    ASSUME ClusterTypes, [ClusterNext]_clusterVars, NEW a \in Requests, Ends(a)
    PROVE  RequestStep(a)
<1>1. request[a] # NoRequest /\ request'[a] = NoRequest
  BY DEF Ends
<1>2. CASE UNCHANGED clusterVars
  BY <1>1, <1>2 DEF clusterVars
<1>3. CASE \E b \in Requests : RequestStep(b)
  <2>1. PICK b \in Requests : RequestStep(b)
    BY <1>3
  <2>2. \A e \in Requests \ {b} : request'[e] = request[e]
    BY <2>1, RequestMoves DEF Moves, Goes
  <2> QED BY <1>1, <2>1, <2>2
<1>4. CASE \E b \in Requests : Begins(b)
  BY <1>1, <1>4 DEF Begins, Begun
<1>5. CASE \E n \in Nodes : AutomaticFailover(n)
  BY <1>1, <1>5, AutomaticFailoverEffect
<1>6. CASE \E n \in Nodes : LoseReport(n)
  BY <1>1, <1>6, LoseReportEffect
<1>7. CASE \E s \in SentinelAddrs : Discover(s) \/ Learn(s)
  BY <1>1, <1>7, DiscoverEffect, LearnEffect
<1>8. CASE DNSProviderDelete \/ DNSProviderCreate
  BY <1>1, <1>8, ProviderEffect
<1> QED BY <1>2, <1>3, <1>4, <1>5, <1>6, <1>7, <1>8, ClusterSteps

\* The last call of a deletion that found the cluster, if no call failed.
LEMMA DeletionEnds ==
    ASSUME ClusterTypes, RecordsInv, NEW a \in Requests, RequestStep(a), Ends(a),
           Kind(a) = "delete", Held(a) # NoCluster, Without(RecordsUpsets)'
    PROVE  /\ Label(a) = "srem" /\ listed' = FALSE
           /\ UNCHANGED <<loaded, cluster, monitor, primaryRec, replicaRec>>
<1>1. Label(a) \in {"remove", "delete primary", "delete replica", "get", "del", "srem"}
  BY ActiveFields DEF InProgram, Fits, Ends
<1>2. RecordsAt(Kind(a), Label(a), Held(a)) /\ "store" \notin upsets'
  BY RecordsNow
<1>3. request[a] # NoRequest /\ request'[a] = NoRequest
  BY DEF Ends
<1>4. \A label, c, d : Goes(a, label, c, d) => label = "idle"
  BY <1>3 DEF Goes
<1>5. Save(a) \/ Index(a) \/ MonitorAll(a) \/ SetConfig(a) \/ ApplyConfig(a) \/ QueryDetail(a)
      \/ UpdatePrimary(a) \/ UpdateReplica(a) \/ TriggerTestFailover(a) => FALSE
  BY <1>1, SaveEffect, IndexEffect, MonitorAllEffect, SetConfigEffect, ApplyConfigEffect,
     QueryDetailEffect, UpdatePrimaryEffect, UpdateReplicaEffect, TriggerTestFailoverEffect
<1>6. ~GetForDelete(a)
  <2> SUFFICES ASSUME GetForDelete(a) PROVE FALSE
    OBVIOUS
  <2>1. Label(a) = "get" /\ cluster = Held(a)
    BY <1>2, GetForDeleteEffect DEF RecordsAt
  <2>2. Goes(a, "del", Held(a), Got(a))
    BY <1>2, <2>1, GetForDeleteEffect
  <2> QED BY <1>4, <2>2
<1>7. ~Del(a)
  BY <1>4, DelEffect
<1>8. ~RemoveAll(a)
  BY <1>4, RemoveAllEffect
<1>9. ~DeletePrimary(a)
  <2> SUFFICES ASSUME DeletePrimary(a) PROVE FALSE
    OBVIOUS
  <2>1. \E label \in {"delete replica", "get", "save"}, c \in Cluster : Goes(a, label, c, Got(a))
    BY DeletePrimaryEffect
  <2> QED BY <1>4, <2>1
<1>10. ~DeleteReplica(a)
  BY <1>4, DeleteReplicaEffect
<1>11. Srem(a)
  BY <1>5, <1>6, <1>7, <1>8, <1>9, <1>10 DEF RequestStep
<1> QED BY <1>2, <1>11, SremEffect

-----------------------------------------------------------------------------
(* The sync page.                                                          *)

\* When the request that moves is the only one, it is enough to look at it.
LEMMA SyncMoves ==
    ASSUME ClusterTypes, AloneInv, SyncInv, NEW a \in Requests, RequestStep(a), Without(SyncUpsets)'
    PROVE  /\ Active' \subseteq {a} /\ Without(SyncUpsets)
           /\ "dns" \notin upsets'
           /\ Kind(a) = "sync" => SyncAt(Label(a), Got(a)) /\ Label(a) \in {"detail", "primary", "replica"}
           /\ a \in Active' => Kind(a)' = Kind(a)
<1>1. Moves(a)
  BY RequestMoves
<1>2. Without(SyncUpsets)
  BY <1>1 DEF Moves, Without
<1>3. Active' \subseteq {a}
  BY <1>1, <1>2, AloneAfter DEF Without, SyncUpsets
<1>4. a \in Active /\ InProgram(a)
  BY <1>1, ActiveFields DEF Moves
<1>5. Kind(a) = "sync" => SyncAt(Label(a), Got(a)) /\ Label(a) \in {"detail", "primary", "replica"}
  BY <1>2, <1>4 DEF SyncInv, SyncStage, InProgram, Fits
<1>6. a \in Active' => Kind(a)' = Kind(a)
  BY <1>1 DEF Moves, Goes, Active, Kind
<1>7. "dns" \notin upsets'
  BY DEF Without, SyncUpsets
<1> QED BY <1>2, <1>3, <1>5, <1>6, <1>7

\* The sync page asks, writes the primary record and then the replica record.
LEMMA SyncRequests ==
    ASSUME ClusterTypes, AloneInv, SyncInv, NEW a \in Requests, RequestStep(a), Without(SyncUpsets)'
    PROVE  SyncInv'
<1>1. /\ Active' \subseteq {a} /\ "dns" \notin upsets'
      /\ Kind(a) = "sync" => SyncAt(Label(a), Got(a)) /\ Label(a) \in {"detail", "primary", "replica"}
      /\ a \in Active' => Kind(a)' = Kind(a)
  BY SyncMoves
<1>2. CASE Kind(a) # "sync"
  BY <1>1, <1>2 DEF SyncInv
<1>3. CASE Kind(a) = "sync"
  <2>1. QueryDetail(a) \/ UpdatePrimary(a) \/ UpdateReplica(a)
    BY <1>1, <1>3, SaveEffect, IndexEffect, GetForDeleteEffect, DelEffect, SremEffect, MonitorAllEffect,
       SetConfigEffect, ApplyConfigEffect, RemoveAllEffect, DeletePrimaryEffect, DeleteReplicaEffect,
       TriggerTestFailoverEffect DEF RequestStep
  <2>2. ASSUME NEW label, NEW c, NEW d, Goes(a, label, c, d), label # "idle" => SyncAt(label, d)'
        PROVE  SyncInv'
    <3>1. \A b \in Active' : b = a /\ label # "idle" /\ Label(b)' = label /\ Got(b)' = d
      BY <1>1, <2>2 DEF Goes, Active, Label, Got
    <3>2. \A b \in Active' : SyncStage(b)'
      <4> SUFFICES ASSUME NEW b \in Active' PROVE SyncStage(b)'
        OBVIOUS
      <4>1. (SyncStage(b) <=> SyncAt(label, d))'
        BY <3>1 DEF SyncStage
      <4> QED BY <2>2, <3>1, <4>1
    <3> QED BY <3>2 DEF SyncInv
  <2>3. CASE QueryDetail(a)
    <3>1. PICK d \in Answers, c \in Cluster, label \in Calls \union {"idle"} :
            QueryLeads(a, d, label, c) /\ Goes(a, label, c, d)
      BY <2>3, QueryDetailEffect
    <3>2. label = (IF Usable(a, d) THEN "primary" ELSE "idle")
      BY <1>3, <3>1 DEF QueryLeads
    <3>3. label # "idle" => label = "primary" /\ d # NoDetail
      BY <3>2 DEF Usable
    <3>4. d # NoDetail /\ d.master = master => d.slaves \in {{}, Nodes \ {master}}
      BY AnswerFields
    <3>5. master' = master
      BY <2>3, QueryDetailEffect
    <3>6. label # "idle" => SyncAt(label, d)'
      BY <3>3, <3>4, <3>5 DEF SyncAt
    <3> QED BY <2>2, <3>1, <3>6
  <2>4. CASE UpdatePrimary(a)
    <3>1. PICK got : got = Got(a)
      OBVIOUS
    <3>2. PICK c \in Cluster, label \in {"save", "replica", "idle"} :
            PrimaryLeads(a, label, c) /\ Goes(a, label, c, got)
      BY <2>4, <3>1, UpdatePrimaryEffect
    <3>3. label # "idle" => label = "replica"
      BY <1>3, <3>2 DEF PrimaryLeads
    <3>4. /\ Label(a) = "primary" /\ master' = master
          /\ primaryRec' = {got.master} \/ "dns" \in upsets'
      BY <2>4, <3>1, UpdatePrimaryEffect
    <3>5. got.master = master => got.slaves \in {{}, Nodes \ {master}}
      BY <1>1, <1>3, <3>1, <3>4 DEF SyncAt
    <3>6. label # "idle" => SyncAt(label, got)'
      BY <1>1, <3>3, <3>4, <3>5 DEF SyncAt
    <3> QED BY <2>2, <3>2, <3>6
  <2>5. CASE UpdateReplica(a)
    <3>1. Goes(a, "idle", Held(a), Got(a))
      BY <1>3, <2>5, UpdateReplicaEffect
    <3>2. Active' = {}
      BY <1>1, <3>1 DEF Goes, Active
    <3> QED BY <3>2 DEF SyncInv
  <2> QED BY <2>1, <2>3, <2>4, <2>5
<1> QED BY <1>2, <1>3

LEMMA SyncBegins ==
    ASSUME ClusterTypes, SyncInv, NEW a \in Requests, Begins(a)
    PROVE  SyncInv'
<1> SUFFICES ASSUME Without(SyncUpsets)' PROVE SyncInv'
  BY DEF SyncInv
<1>1. PICK f \in Form, read \in Cluster \union {NoCluster}, d \in Detail \union {NoDetail} :
        /\ Begun(a, f, FirstCall(f, read), FirstCopy(f, read), d)
        /\ f.kind # "event" => d = NoDetail
        /\ Upsets(f) \subseteq upsets'
  BY DEF Begins
<1>2. PICK label : label = FirstCall(f, read)
  OBVIOUS
<1>3. Active = {}
  BY <1>1, UpsetsEffect DEF Without, SyncUpsets
<1>4. f.kind = "sync" => label \in {"detail", "idle"}
  BY <1>2, FirstCallStarts DEF Starts
<1>5. \A b \in Active' : /\ label # "idle" /\ Kind(b)' = f.kind
                         /\ Label(b)' = label /\ Got(b)' = d
  BY <1>1, <1>2, <1>3 DEF Begun, Active, Kind, Label, Got
<1>6. ASSUME NEW b \in Active', Kind(b)' = "sync"
      PROVE  SyncStage(b)'
  <2>1. label = "detail" /\ d = NoDetail
    BY <1>1, <1>4, <1>5, <1>6
  <2>2. (SyncStage(b) <=> SyncAt(label, d))'
    BY <1>5, <1>6 DEF SyncStage
  <2>3. SyncAt(label, d)'
    BY <2>1 DEF SyncAt
  <2> QED BY <2>2, <2>3
<1> QED BY <1>6 DEF SyncInv

\* What leaves the requests, the master and the primary record alone.
LEMMA SyncBeside ==
    ASSUME SyncInv, UNCHANGED <<request, master, primaryRec>>, upsets \subseteq upsets'
    PROVE  SyncInv'
<1> SUFFICES ASSUME Without(SyncUpsets)', NEW a \in Active', Kind(a)' = "sync" PROVE SyncStage(a)'
  BY DEF SyncInv
<1>1. Without(SyncUpsets) /\ a \in Active /\ Kind(a) = "sync"
  BY DEF Without, Active, Kind
<1>2. PICK label, got : label = Label(a) /\ got = Got(a)
  OBVIOUS
<1>3. SyncAt(label, got)
  BY <1>1, <1>2 DEF SyncInv, SyncStage
<1>4. SyncAt(label, got)'
  BY <1>3 DEF SyncAt
<1>5. label = Label(a)' /\ got = Got(a)'
  BY <1>2 DEF Label, Got
<1>6. (SyncStage(a) <=> SyncAt(label, got))'
  BY <1>5 DEF SyncStage
<1> QED BY <1>4, <1>6

LEMMA SyncStep ==
    ASSUME ClusterTypes, AloneInv, SyncInv, [ClusterNext]_clusterVars
    PROVE  SyncInv'
<1>1. CASE UNCHANGED clusterVars
  BY <1>1, SyncBeside DEF clusterVars, nodeVars, recordVars
<1>2. ASSUME NEW a \in Requests, RequestStep(a) PROVE SyncInv'
  <2> SUFFICES ASSUME Without(SyncUpsets)' PROVE SyncInv'
    BY DEF SyncInv
  <2> QED BY <1>2, SyncRequests
<1>3. CASE \E a \in Requests : Begins(a)
  BY <1>3, SyncBegins
<1>4. CASE \E n \in Nodes : AutomaticFailover(n)
  <2>1. request' = request /\ (Active # {} => "race" \in upsets')
    BY <1>4, AutomaticFailoverEffect
  <2>2. Without(SyncUpsets)' => Active = {} /\ Active' = {}
    BY <2>1 DEF Without, SyncUpsets, Active
  <2> QED BY <2>2 DEF SyncInv
<1>5. CASE \E n \in Nodes : LoseReport(n)
  BY <1>5, LoseReportEffect, SyncBeside
<1>6. CASE \E s \in SentinelAddrs : Discover(s) \/ Learn(s)
  BY <1>6, DiscoverEffect, LearnEffect, SyncBeside
<1>7. CASE DNSProviderDelete \/ DNSProviderCreate
  BY <1>7, ProviderEffect, SyncBeside
<1> QED BY <1>1, <1>2, <1>3, <1>4, <1>5, <1>6, <1>7, ClusterSteps

-----------------------------------------------------------------------------
(* The theorems.                                                           *)

LEMMA ClusterInvStart == ClusterInit => ClusterTypes /\ ClusterInv
<1> SUFFICES ASSUME ClusterInit PROVE ClusterTypes /\ ClusterInv
  OBVIOUS
<1>1. ClusterTypes /\ upsets = {} /\ Active = {} /\ cluster = NoCluster /\ listed = FALSE
  BY ClusterInitParts
<1>2. AloneInv /\ ListedInv /\ SyncInv
  BY <1>1 DEF AloneInv, ListedInv, SyncInv
<1>3. PauseInv
  BY <1>1, ClusterInitParts, DownsDiffer DEF PauseInv, Settled, NonePaused
<1>4. RecordsInv
  BY RecordsStart
<1> QED BY <1>1, <1>2, <1>3, <1>4 DEF ClusterInv

\* The inductive invariant: overlap is noted, and what the list, the pause, the records
\* and the sync page have been brought to at each call of a request.
THEOREM ClusterInvariant == ClusterSpec => [](ClusterTypes /\ ClusterInv)
<1>1. ClusterTypes /\ ClusterInv /\ [ClusterNext]_clusterVars => ClusterTypes' /\ ClusterInv'
  BY ClusterTypesStep, ListedStep, PauseStep, RecordsStep, SyncStep DEF ClusterInv
<1> QED BY <1>1, ClusterInvStart, PTL DEF ClusterSpec

\* Once the requests have ended, the list and the records agree, unless a deletion
\* overlapped another request or the store failed.
THEOREM ListAgrees == ClusterSpec => []ClusterListed
<1>1. ClusterInv => ClusterListed
  BY DEF ClusterInv, ListedInv, ClusterListed, Without
<1> QED BY <1>1, ClusterInvariant, PTL

\* Without the mishaps the property names, a cluster is shown as paused exactly if its
\* Sentinels wait two hours.
THEOREM PauseHolds == ClusterSpec => []PauseReachesSentinels
<1>1. ClusterInv => PauseReachesSentinels
  BY DEF ClusterInv, PauseInv, PauseReachesSentinels, PauseUpsets, Settled, Monitoring, Without
<1> QED BY <1>1, ClusterInvariant, PTL

\* With requests one after the other and every call successful, each DNS record that
\* exists is named by the stored cluster.
THEOREM NoRecordOrphaned == ClusterSpec => []NoOrphanRecord
<1>1. ClusterInv => NoOrphanRecord
  BY DEF ClusterInv, RecordsInv, NoOrphanRecord, Names, Loaded, Without, RecordsUpsets
<1> QED BY <1>1, ClusterInvariant, PTL

\* When the delete page has found the cluster and nothing interfered, no Sentinel
\* monitors it, it has no DNS record, and the store neither holds nor lists it.
THEOREM DeletionCleansUp == ClusterSpec => DeleteCleansUp
<1>1. ASSUME ClusterTypes, RecordsInv, [ClusterNext]_clusterVars, NEW a \in Requests,
             Ends(a), Kind(a) = "delete", Held(a) # NoCluster, upsets' \subseteq {"changed while paused"}
      PROVE  /\ \A s \in SentinelAddrs : monitor'[s] = NoMonitor
             /\ primaryRec' = {} /\ replicaRec' = {} /\ cluster' = NoCluster /\ ~listed'
  <2>1. RequestStep(a)
    BY <1>1, EndsByItself
  <2>2. Without(RecordsUpsets)'
    BY <1>1 DEF Without, RecordsUpsets
  <2>3. Label(a) = "srem" /\ listed' = FALSE /\ UNCHANGED <<cluster, monitor, primaryRec, replicaRec>>
    BY <1>1, <2>1, <2>2, DeletionEnds
  <2>4. RecordsAt(Kind(a), Label(a), Held(a))
    BY <1>1, <2>1, <2>2, RecordsNow
  <2>5. cluster = NoCluster /\ primaryRec = {} /\ replicaRec = {} /\ NoneMonitoring
    BY <1>1, <2>3, <2>4 DEF RecordsAt
  <2> QED BY <2>3, <2>5 DEF NoneMonitoring
<1>2. ClusterTypes /\ ClusterInv /\ [ClusterNext]_clusterVars =>
        [\A a \in Requests :
            /\ Ends(a) /\ Kind(a) = "delete" /\ Held(a) # NoCluster
            /\ upsets' \subseteq {"changed while paused"}
            => /\ \A s \in SentinelAddrs : monitor'[s] = NoMonitor
               /\ primaryRec' = {} /\ replicaRec' = {}
               /\ cluster' = NoCluster /\ ~listed']_clusterVars
  BY <1>1 DEF ClusterInv
<1> QED BY <1>2, ClusterInvariant, PTL DEF ClusterSpec, DeleteCleansUp

\* When the sync page got an answer, nothing overlapped it and no call failed: if the
\* answer names the current master, the primary record has it and, if replicas were
\* named, the replica record has all other nodes, whatever failover reports were lost
\* before; and if it names an old one, the two records share no address, provided that
\* there was a value to write.
THEOREM SyncRepairsRecords == ClusterSpec => SyncRepairs
<1>1. ASSUME ClusterTypes, AloneInv, SyncInv, [ClusterNext]_clusterVars, NEW a \in Requests,
             Ends(a), Kind(a) = "sync", Got(a) # NoDetail,
             upsets' \subseteq {"changed while paused", "api delete", "provider deleted"}
      PROVE  /\ Got(a).master = master =>
                /\ primaryRec' = {master}
                /\ Held(a).replica /\ Got(a).slaves # {} => replicaRec' = Nodes \ {master}
             /\ Held(a).replica /\ Got(a).slaves \ primaryRec' # {} =>
                primaryRec' \intersect replicaRec' = {}
  <2>1. RequestStep(a)
    BY <1>1, EndsByItself
  <2>2. Without(SyncUpsets)'
    BY <1>1 DEF Without, SyncUpsets
  <2>3. /\ "dns" \notin upsets'
        /\ SyncAt(Label(a), Got(a)) /\ Label(a) \in {"detail", "primary", "replica"}
    BY <1>1, <2>1, <2>2, SyncMoves
  <2>4. Label(a) # "detail"
    BY <1>1, <2>3 DEF SyncAt
  <2>5. UpdatePrimary(a) \/ UpdateReplica(a)
    BY <1>1, <2>1, <2>3, <2>4, SaveEffect, IndexEffect, GetForDeleteEffect, DelEffect, SremEffect,
       MonitorAllEffect, SetConfigEffect, ApplyConfigEffect, RemoveAllEffect, QueryDetailEffect,
       DeletePrimaryEffect, DeleteReplicaEffect, TriggerTestFailoverEffect DEF RequestStep
  <2>6. Got(a).master = master => Got(a).slaves \in {{}, Nodes \ {master}}
    BY <2>3, <2>4 DEF SyncAt
  <2>7. CASE UpdatePrimary(a)
    <3>1. PICK c \in Cluster, label \in {"save", "replica", "idle"} :
            PrimaryLeads(a, label, c) /\ Goes(a, label, c, Got(a))
      BY <1>1, <2>7, UpdatePrimaryEffect
    <3>2. label = "idle"
      BY <1>1, <3>1 DEF Goes, Ends
    <3>3. ~(Held(a).replica /\ Got(a).slaves \ {Got(a).master} # {})
      BY <1>1, <3>1, <3>2 DEF PrimaryLeads
    <3>4. Label(a) = "primary" /\ primaryRec' = {Got(a).master}
      BY <1>1, <2>3, <2>7, UpdatePrimaryEffect
    <3> QED BY <2>6, <3>3, <3>4
  <2>8. CASE UpdateReplica(a)
    <3>1. /\ Label(a) = "replica" /\ request[a] # NoRequest /\ primaryRec' = primaryRec
          /\ replicaRec' = ReplicaValues(a)
      BY <1>1, <2>3, <2>8, UpdateReplicaEffect
    <3>2. replicaRec' = Got(a).slaves \ {Got(a).master}
      BY <1>1, <3>1, ReplicaValuesFields
    <3>3. primaryRec = {Got(a).master}
      BY <2>3, <3>1 DEF SyncAt
    <3> QED BY <2>6, <3>1, <3>2, <3>3
  <2> QED BY <2>5, <2>7, <2>8
<1>2. ClusterTypes /\ ClusterInv /\ [ClusterNext]_clusterVars =>
        [\A a \in Requests :
            /\ Ends(a) /\ Kind(a) = "sync" /\ Got(a) # NoDetail
            /\ upsets' \subseteq {"changed while paused", "api delete", "provider deleted"}
            => /\ Got(a).master = master =>
                  /\ primaryRec' = {master}
                  /\ Held(a).replica /\ Got(a).slaves # {} => replicaRec' = Nodes \ {master}
               /\ Held(a).replica /\ Got(a).slaves \ primaryRec' # {} =>
                  primaryRec' \intersect replicaRec' = {}]_clusterVars
  BY <1>1 DEF ClusterInv
<1> QED BY <1>2, ClusterInvariant, PTL DEF ClusterSpec, SyncRepairs
=============================================================================
