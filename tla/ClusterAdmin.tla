---------------------------- MODULE ClusterAdmin ----------------------------
(***************************************************************************)
(* The pages and API calls that change a registered cluster: ClusterCreate,*)
(* LoadSentinelsSave, ClusterEditSave, ClusterDelete, ClusterPause,        *)
(* ClusterResume, ClusterTestFailover and ClusterSyncDNS of web/admin.go,  *)
(* CreateClusterHandler and DeleteClusterHandler of api/clusters.go, with  *)
(* the Sentinel commands of core/sentinel_ops.go and the cluster records   *)
(* of store/valkey.go.                                                     *)
(*                                                                         *)
(* One cluster, any number of requests at once, none of which takes a      *)
(* lock.  A request is a sequence of calls, one action each; a command     *)
(* sent to all Sentinels in a loop is one action that some of them may     *)
(* miss.  The Sentinels and the failover handler that answers their report *)
(* are external here (FailoverManager models the latter in detail).        *)
(***************************************************************************)
EXTENDS Naturals, FiniteSets

CONSTANTS Requests,       \* requests under way at once
          SentinelAddrs,  \* the Sentinels of the cluster's group
          Nodes,          \* addresses of the Valkey nodes of the cluster
          Forms,          \* the requests an administrator may send
          MaxServed,      \* bound: requests served if no call fails,
          MaxServedFaulty,           \* and if one may
          MaxPromotions,  \* bound: failovers
          AdminFaults,    \* what may fail: sets of {"store", "sentinel", "dns"}
          FirstMaster,    \* the master at the start
          NoCluster, NoMonitor, NoDetail, NoRequest

\* down-after-milliseconds: the default, what the edit form asks for, two hours.
DefaultDown == 5000
FormDown == 3000
PausedDown == 7200000
Downs == {DefaultDown, FormDown, PausedDown}

Kinds == {"create", "load", "edit", "delete", "pause", "resume", "test", "sync",
          "api create", "api delete", "event"}
Form == [kind : Kinds, provider : {"", "dns", "missing"}, replica : BOOLEAN,
         disable : BOOLEAN, password : BOOLEAN]

ASSUME ClusterAdminAssumption ==
    /\ Forms \subseteq [kind : Kinds \ {"event"}, provider : {"", "dns", "missing"},
                        replica : BOOLEAN, disable : BOOLEAN, password : BOOLEAN]
    /\ FirstMaster \in Nodes
    /\ MaxServed \in Nat /\ MaxServedFaulty \in Nat /\ MaxPromotions \in Nat
    /\ AdminFaults \subseteq SUBSET {"store", "sentinel", "dns"}

VARIABLES failing,     \* the faults this behaviour may show
          loaded,      \* whether h.dnsProviders holds the provider "dns"
          cluster,     \* smgr:group:<master>, NoCluster if there is none
          listed,      \* whether smgr:group:index holds the name
          monitor,     \* monitor[s]: what Sentinel s keeps of the master
          master,      \* the node that is the master
          pending,     \* masters whose promotion was reported and not yet handled
          primaryRec, replicaRec,    \* values of the two DNS records
          request,     \* request[a]: its form, the call it makes next, its copy of the
                       \* cluster and its MasterDetail; NoRequest once it has ended
          served, promotions,        \* counters for the bounds
          upsets       \* history: what has happened that the code does not guard against

storedVars == <<cluster, listed>>
recordVars == <<primaryRec, replicaRec>>
nodeVars == <<master, pending, promotions>>
clusterVars == <<failing, loaded, storedVars, monitor, nodeVars, recordVars, request, served, upsets>>

Cluster == [provider : {"", "dns", "missing"}, replica : BOOLEAN, paused : BOOLEAN,
            saved : Downs \union {0}]
Monitor == [master : Nodes, down : Downs, known : BOOLEAN]
Detail == [master : Nodes, slaves : SUBSET Nodes, down : Downs]

\* Whether h.dnsProviders has the provider a cluster names: never "missing", and "dns"
\* unless its page deleted it.
Loaded(c) == loaded /\ c.provider = "dns"

Report == [kind |-> "event", provider |-> "", replica |-> FALSE, disable |-> FALSE, password |-> FALSE]

\* A Sentinel deployment that exists, as LoadSentinelsQuery finds it, or none.
ClusterInit ==
    /\ failing \in AdminFaults
    /\ loaded \in BOOLEAN
    /\ cluster = NoCluster /\ listed = FALSE
    /\ \E m \in {NoMonitor, [master |-> FirstMaster, down |-> DefaultDown, known |-> TRUE]} :
        monitor = [s \in SentinelAddrs |-> m]
    /\ master = FirstMaster
    /\ pending = {}
    /\ primaryRec = {} /\ replicaRec = {}
    /\ request = [a \in Requests |-> NoRequest]
    /\ served = 0 /\ promotions = 0
    /\ upsets = {}

Active == {a \in Requests : request[a] # NoRequest}
At(a, label) == request[a] # NoRequest /\ request[a].at = label
Asked(a) == request[a].form
Kind(a) == request[a].form.kind
Held(a) == request[a].held
Got(a) == request[a].got

\* The request goes on to its next call, with its copy of the cluster changed or not.
StepWith(a, label, c) ==
    request' = [request EXCEPT ![a] = IF label = "idle" THEN NoRequest
                                      ELSE [@ EXCEPT !.at = label, !.held = c]]
Step(a, label) == StepWith(a, label, Held(a))

Monitoring == {s \in SentinelAddrs : monitor[s] # NoMonitor}

\* A call fails; bound: one call of a behaviour does.
MayFail(f) == f \in failing /\ upsets \intersect {"store", "sentinel", "dns"} = {}
Fails(f) == MayFail(f) /\ upsets' = upsets \union {f}
Succeeds == UNCHANGED upsets

-----------------------------------------------------------------------------
(* The store.                                                              *)

\* Whether an edit form asks for a DNS record that the cluster does not have.
AddsDNS(f, c) == f.kind = "edit" /\ f.provider # "" /\ c.provider = ""
AddsReplica(f, c) == f.kind = "edit" /\ f.replica /\ ~f.disable /\ c.provider # "" /\ ~c.replica
Disables(f, c) == f.kind = "edit" /\ f.disable /\ c.provider # ""

\* The first call after GetCluster; "idle" where the handler returns.
FirstCall(f, c) ==
    IF c = NoCluster
    THEN CASE f.kind \in {"create", "api create"} -> "save"
           [] f.kind = "load" -> IF Monitoring = {} THEN "idle" ELSE "save"
           [] f.kind \in {"delete", "api delete"} -> "get"
           [] OTHER -> "idle"
    ELSE CASE f.kind \in {"create", "api create", "load"} -> "idle"
           [] f.kind = "edit" /\ Disables(f, c) -> IF Loaded(c) THEN "delete primary" ELSE "save"
           [] f.kind = "edit" /\ ~Disables(f, c) ->
                IF AddsDNS(f, c) THEN "detail"
                ELSE IF AddsReplica(f, c) THEN "replica detail" ELSE "save"
           [] f.kind = "delete" -> "remove"
           [] f.kind = "api delete" -> "get"
           [] f.kind \in {"pause", "sync"} -> "detail"
           [] f.kind = "resume" -> "set"
           [] f.kind = "test" -> "command"
           [] f.kind = "event" -> IF Loaded(c) THEN "primary" ELSE "idle"

\* The handler's copy: a new record, or the stored one with what the form changes
\* before any other call is made.
FirstCopy(f, c) ==
    IF c = NoCluster
    THEN IF f.kind \in {"create", "api create", "load"}
         THEN [provider |-> f.provider, replica |-> f.kind = "api create" /\ f.replica,
               paused |-> FALSE, saved |-> 0]
         ELSE NoCluster
    ELSE IF f.kind # "edit" THEN c
         ELSE [c EXCEPT !.provider = IF AddsDNS(f, c) THEN f.provider
                                     ELSE IF Disables(f, c) /\ ~Loaded(c) THEN "" ELSE @,
                        !.replica = IF AddsReplica(f, c) THEN TRUE
                                    ELSE IF Disables(f, c) /\ ~Loaded(c) THEN FALSE ELSE @]

\* What a request that begins now upsets: it overlaps another one, or it does what
\* leaves the Sentinels behind.
Upsets(f) ==
    LET others == {Kind(b) : b \in Active}
        Deletes == {"delete", "api delete"}
    IN  (IF others = {} THEN {}
         ELSE IF ({f.kind} \union others) \intersect Deletes # {} THEN {"delete race"} ELSE {"race"})
        \union (IF f.kind = "api delete" THEN {"api delete"} ELSE {})
        \union (IF f.kind \in {"pause", "edit"} /\ cluster # NoCluster /\ cluster.paused
                THEN {"changed while paused"} ELSE {})

\* GetCluster at the start of every handler; any error counts as "not found".
GetCluster(a, f, read, detail) ==
    /\ request[a] = NoRequest
    /\ request' = [request EXCEPT ![a] =
           IF FirstCall(f, read) = "idle" THEN NoRequest
           ELSE [form |-> f, at |-> FirstCall(f, read), held |-> FirstCopy(f, read), got |-> detail]]
    /\ UNCHANGED <<failing, loaded, storedVars, monitor, master, promotions, recordVars>>

\* Bound: no request begins after a mishap past which the model claims nothing.
Begin(a, f) ==
    /\ served < IF failing = {} THEN MaxServed ELSE MaxServedFaulty
    /\ upsets \intersect {"race", "delete race", "store", "sentinel", "dns"} = {}
    /\ served' = served + 1
    /\ \/ GetCluster(a, f, cluster, NoDetail) /\ upsets' = upsets \union Upsets(f)
       \/ /\ MayFail("store")
          /\ GetCluster(a, f, NoCluster, NoDetail)
          /\ upsets' = upsets \union Upsets(f) \union {"store"}
    /\ UNCHANGED pending

\* The call after SaveCluster, or after its error: LoadSentinelsSave and the API stop
\* at one, the other handlers do not look.
AfterSave(a, ok) ==
    CASE Kind(a) = "create" -> IF Held(a).replica THEN "replica" ELSE "monitor"
      [] Kind(a) = "load" -> IF ok THEN "apply" ELSE "idle"
      [] Kind(a) \in {"edit", "pause"} -> "set"
      [] OTHER -> "idle"

\* SaveCluster, SET.
Save(a) ==
    /\ At(a, "save")
    /\ \/ cluster' = Held(a) /\ Step(a, "index") /\ Succeeds
       \/ UNCHANGED cluster /\ Step(a, AfterSave(a, FALSE)) /\ Fails("store")
    /\ UNCHANGED <<failing, loaded, listed, monitor, nodeVars, recordVars, served>>

\* Mutant: SaveCluster does not touch the index.
SaddForgotten == UNCHANGED listed

\* SADD smgr:group:index.
Sadd == listed' = TRUE

\* SaveCluster, SADD.
Index(a) ==
    /\ At(a, "index")
    /\ \/ Sadd /\ Step(a, AfterSave(a, TRUE)) /\ Succeeds
       \/ UNCHANGED listed /\ Step(a, AfterSave(a, FALSE)) /\ Fails("store")
    /\ UNCHANGED <<failing, loaded, cluster, monitor, nodeVars, recordVars, served>>

\* DeleteCluster, GET: an error and a missing record both end it.
GetForDelete(a) ==
    /\ At(a, "get")
    /\ \/ Step(a, IF cluster = NoCluster THEN "idle" ELSE "del") /\ Succeeds
       \/ Step(a, "idle") /\ Fails("store")
    /\ UNCHANGED <<failing, loaded, storedVars, monitor, nodeVars, recordVars, served>>

\* DeleteCluster, DEL; its result is discarded.
Del(a) ==
    /\ At(a, "del")
    /\ \/ cluster' = NoCluster /\ Succeeds
       \/ UNCHANGED cluster /\ Fails("store")
    /\ Step(a, "srem")
    /\ UNCHANGED <<failing, loaded, listed, monitor, nodeVars, recordVars, served>>

\* DeleteCluster, SREM; its result is discarded.
Srem(a) ==
    /\ At(a, "srem")
    /\ \/ listed' = FALSE /\ Succeeds
       \/ UNCHANGED listed /\ Fails("store")
    /\ Step(a, "idle")
    /\ UNCHANGED <<failing, loaded, cluster, monitor, nodeVars, recordVars, served>>

-----------------------------------------------------------------------------
(* The Sentinels.                                                          *)

\* The Sentinels a command gets through to.
Reached == IF MayFail("sentinel") THEN SUBSET SentinelAddrs ELSE {SentinelAddrs}
Command(R) ==
    /\ upsets' = upsets \union (IF R = SentinelAddrs THEN {} ELSE {"sentinel"})
    /\ UNCHANGED <<failing, loaded, storedVars, nodeVars, recordVars, served>>

\* SENTINEL MONITOR fails where the name is known, and then sets nothing.  The address
\* the form gives is taken for the master's; a Sentinel that has just begun knows no
\* replicas.
SentinelMonitor(R) ==
    monitor' = [s \in SentinelAddrs |->
        IF s \in R /\ monitor[s] = NoMonitor
        THEN [master |-> master, down |-> DefaultDown, known |-> FALSE] ELSE monitor[s]]

\* SENTINEL SET down-after-milliseconds.
SentinelSetConfig(R, down) ==
    monitor' = [s \in SentinelAddrs |->
        IF s \in R /\ monitor[s] # NoMonitor THEN [monitor[s] EXCEPT !.down = down] ELSE monitor[s]]

\* The same, and the scripts and a user name; it is not given the password.
SentinelApplyConfig(R, down) == SentinelSetConfig(R, down)

\* Mutant: the loop leaves one Sentinel out.
SentinelRemoveMost(R) ==
    \E t \in R : monitor' = [s \in SentinelAddrs |-> IF s \in R \ {t} THEN NoMonitor ELSE monitor[s]]

SentinelRemove(R) ==
    monitor' = [s \in SentinelAddrs |-> IF s \in R THEN NoMonitor ELSE monitor[s]]

\* ClusterCreate has saved the record.
MonitorAll(a) ==
    /\ At(a, "monitor")
    /\ \E R \in Reached : SentinelMonitor(R) /\ Command(R)
    /\ Step(a, "detail")

\* The interval a request sets: what the form says, two hours for a pause, and for
\* a resume what the pause noted, or the default if that is 0.
DownOf(a) ==
    CASE Kind(a) = "edit" -> FormDown
      [] Kind(a) = "load" -> DefaultDown
      [] Kind(a) = "pause" -> PausedDown
      [] Kind(a) = "resume" -> IF Held(a).saved = 0 THEN DefaultDown ELSE Held(a).saved

\* SentinelSetConfig of edit, pause and resume.  Resume saves its record afterwards.
SetConfig(a) ==
    /\ At(a, "set")
    /\ \E R \in Reached : SentinelSetConfig(R, DownOf(a)) /\ Command(R)
    /\ IF Kind(a) = "resume"
       THEN StepWith(a, "save", [Held(a) EXCEPT !.paused = FALSE, !.saved = 0])
       ELSE Step(a, IF Kind(a) = "edit" /\ Asked(a).password THEN "apply" ELSE "idle")

\* SentinelApplyConfig of load, and of an edit that changed the password.
ApplyConfig(a) ==
    /\ At(a, "apply")
    /\ \E R \in Reached : SentinelApplyConfig(R, DownOf(a)) /\ Command(R)
    /\ Step(a, "idle")

RemoveAll(a) ==
    /\ At(a, "remove")
    /\ \E R \in Reached : SentinelRemove(R) /\ Command(R)
    /\ Step(a, IF Loaded(Held(a)) THEN "delete primary" ELSE "get")

\* GetMasterDetail: the answer of the first Sentinel that gives one, nil if none does.
\* It may not have learnt of the last failover, or learn of it between SENTINEL MASTER
\* and SENTINEL SLAVES: then the master it has named is among the replicas.
Answers ==
    (IF Monitoring = {} \/ MayFail("sentinel") THEN {NoDetail} ELSE {})
    \union UNION {{[master |-> monitor[s].master,
                    slaves |-> IF monitor[s].known THEN Nodes \ {n} ELSE {},
                    down |-> monitor[s].down] : n \in {monitor[s].master, master}}
                  : s \in Monitoring}

\* Mutant: pause notes the interval it is about to set.
NotedPaused(d) == PausedDown

\* What ClusterPause notes for the resume.
Noted(d) == IF d = NoDetail THEN DefaultDown ELSE d.down

\* Mutant: ClusterCreate does not look whether there was an answer.
UsableUnchecked(a, d) == Loaded(Held(a)) /\ (d # NoDetail \/ Kind(a) = "create")

\* Whether the records can be written: an answer and a provider.
Usable(a, d) == d # NoDetail /\ Loaded(Held(a))

\* The query, and what create, edit, pause and sync do with the answer.
QueryDetail(a) ==
    /\ At(a, "detail") \/ At(a, "replica detail")
    /\ \E d \in Answers :
        LET usable == Usable(a, d)
            next == CASE Kind(a) = "pause" -> "save"
                      [] Kind(a) \in {"create", "sync"} -> IF usable THEN "primary" ELSE "idle"
                      [] Kind(a) = "edit" /\ At(a, "detail") -> IF usable THEN "primary" ELSE "save"
                      [] OTHER -> IF usable /\ d.slaves # {} THEN "replica" ELSE "save"
            copy == IF Kind(a) = "pause" THEN [Held(a) EXCEPT !.paused = TRUE, !.saved = Noted(d)]
                    ELSE Held(a)
        IN  /\ request' = [request EXCEPT ![a] = IF next = "idle" THEN NoRequest
                               ELSE [@ EXCEPT !.at = next, !.held = copy, !.got = d]]
            /\ upsets' = upsets \union (IF d = NoDetail /\ Monitoring # {} THEN {"sentinel"} ELSE {})
    /\ UNCHANGED <<failing, loaded, storedVars, monitor, nodeVars, recordVars, served>>

-----------------------------------------------------------------------------
(* The DNS records.                                                        *)

dnsFrame == <<failing, loaded, storedVars, monitor, nodeVars, served>>

\* Mutant: sync takes all replicas of the answer too.
ReplicaValuesAll(a) == Got(a).slaves

\* The values of the replica record: all replicas of the answer; only sync leaves out
\* the master of the answer.
ReplicaValues(a) == Got(a).slaves \ IF Kind(a) = "sync" THEN {Got(a).master} ELSE {}

\* UpdateRecord of the primary record, by create, edit, sync and the handler of a
\* reported failover.  Create and edit go on to the replica record if the form asks
\* for one, sync if the cluster has one, and only with a value to write; create saves
\* the cluster again before.
UpdatePrimary(a) ==
    LET more == /\ ReplicaValues(a) # {}
                /\ IF Kind(a) = "sync" THEN Held(a).replica ELSE Asked(a).replica
        next == CASE Kind(a) = "create" -> IF more THEN "save" ELSE "idle"
                  [] Kind(a) = "edit" -> IF more THEN "replica" ELSE "save"
                  [] Kind(a) = "sync" -> IF more THEN "replica" ELSE "idle"
                  [] Kind(a) = "event" -> "idle"
    IN  /\ At(a, "primary")
        /\ \/ primaryRec' = {Got(a).master} /\ Succeeds
           \/ UNCHANGED primaryRec /\ Fails("dns")
        /\ StepWith(a, next, [Held(a) EXCEPT !.replica = @ \/ more])
        /\ UNCHANGED <<replicaRec, dnsFrame>>

\* UpdateRecord with the only replica, UpdateRecordValues with several.
UpdateReplica(a) ==
    /\ At(a, "replica")
    /\ \/ replicaRec' = ReplicaValues(a) /\ Succeeds
       \/ UNCHANGED replicaRec /\ Fails("dns")
    /\ Step(a, IF Kind(a) = "edit" THEN "save" ELSE "idle")
    /\ UNCHANGED <<primaryRec, dnsFrame>>

\* A page that deletes the records goes on: delete to DeleteCluster, edit to
\* SaveCluster with the DNS settings taken out.
RecordsDeleted(a) ==
    IF Kind(a) = "delete" THEN Step(a, "get")
    ELSE StepWith(a, "save", [Held(a) EXCEPT !.provider = "", !.replica = FALSE])

\* DeleteRecord of the primary record.
DeletePrimary(a) ==
    /\ At(a, "delete primary")
    /\ \/ primaryRec' = {} /\ Succeeds
       \/ UNCHANGED primaryRec /\ Fails("dns")
    /\ IF Held(a).replica THEN Step(a, "delete replica") ELSE RecordsDeleted(a)
    /\ UNCHANGED <<replicaRec, dnsFrame>>

\* Mutant: the replica record is forgotten.
DeleteReplicaForgotten(a) ==
    /\ At(a, "delete replica")
    /\ RecordsDeleted(a)
    /\ UNCHANGED <<recordVars, upsets, dnsFrame>>

\* DeleteRecord of the replica record.
DeleteReplica(a) ==
    /\ At(a, "delete replica")
    /\ \/ replicaRec' = {} /\ Succeeds
       \/ UNCHANGED replicaRec /\ Fails("dns")
    /\ RecordsDeleted(a)
    /\ UNCHANGED <<primaryRec, dnsFrame>>

-----------------------------------------------------------------------------
(* Failovers.                                                              *)

\* External: the Sentinels make n the master, and their agents report it.
Promote(n, racing) ==
    /\ promotions < MaxPromotions
    /\ n # master
    /\ master' = n
    /\ pending' = pending \union {n}
    /\ promotions' = promotions + 1
    /\ upsets' = upsets \union (IF racing THEN {"race"} ELSE {})

\* External: so they do by themselves once the master has been down for the interval;
\* two hours are taken for never.
AutomaticFailover(n) ==
    /\ \E s \in Monitoring : monitor[s].down # PausedDown
    /\ Promote(n, Active # {})
    /\ UNCHANGED <<failing, loaded, storedVars, monitor, recordVars, request, served>>

\* ClusterTestFailover: SENTINEL FAILOVER to the first Sentinel that takes it.
TriggerTestFailover(a) ==
    /\ At(a, "command")
    /\ Step(a, "idle")
    /\ \/ Monitoring # {} /\ \E n \in Nodes : Promote(n, Active # {a})
       \/ UNCHANGED <<nodeVars, upsets>>
    /\ UNCHANGED <<failing, loaded, storedVars, monitor, recordVars, served>>

\* External: a Sentinel learns the replicas from the master's INFO.
Discover(s) ==
    /\ monitor[s] # NoMonitor /\ ~monitor[s].known
    /\ monitor' = [monitor EXCEPT ![s].known = TRUE]
    /\ UNCHANGED <<failing, loaded, storedVars, nodeVars, recordVars, request, served, upsets>>

\* External: and the new master from another Sentinel, or from its own failover.
Learn(s) ==
    /\ monitor[s] # NoMonitor /\ monitor[s].master # master
    /\ monitor' = [monitor EXCEPT ![s].master = master]
    /\ UNCHANGED <<failing, loaded, storedVars, nodeVars, recordVars, request, served, upsets>>

\* A handler takes up a reported failover (handleFailover writes the reported
\* address), or the report is lost on the way.
HandleFailover(a, n) ==
    /\ n \in pending
    /\ pending' = pending \ {n}
    /\ GetCluster(a, Report, cluster, [master |-> n, slaves |-> {}, down |-> DefaultDown])
    /\ upsets' = upsets \union Upsets(Report)
    /\ UNCHANGED served

LoseReport(n) ==
    /\ n \in pending
    /\ pending' = pending \ {n}
    /\ UNCHANGED <<failing, loaded, storedVars, monitor, master, promotions, recordVars, request, served,
                   upsets>>

-----------------------------------------------------------------------------
(* The page of the DNS providers.                                          *)

providerFrame == <<failing, storedVars, monitor, nodeVars, recordVars, request, served>>

\* DNSProviderDelete: the page does not look at the clusters.  History: a cluster that
\* names the provider, stored or in the hands of a request, stays without it.  An edit
\* that points the provider to another zone, which leaves the records of its clusters
\* behind too, is taken for a deletion and a creation.
DNSProviderDelete ==
    /\ loaded
    /\ loaded' = FALSE
    /\ upsets' = upsets \union
           IF \E c \in {cluster} \union {Held(a) : a \in Active} : c # NoCluster /\ Loaded(c)
           THEN {"provider deleted"} ELSE {}
    /\ UNCHANGED providerFrame

\* DNSProviderCreate, and DNSProviderEditSave of a provider that could not be built.
DNSProviderCreate ==
    /\ ~loaded
    /\ loaded' = TRUE
    /\ UNCHANGED <<providerFrame, upsets>>

-----------------------------------------------------------------------------
RequestStep(a) ==
    \/ Save(a) \/ Index(a) \/ GetForDelete(a) \/ Del(a) \/ Srem(a)
    \/ MonitorAll(a) \/ SetConfig(a) \/ ApplyConfig(a) \/ RemoveAll(a) \/ QueryDetail(a)
    \/ UpdatePrimary(a) \/ UpdateReplica(a) \/ DeletePrimary(a) \/ DeleteReplica(a)
    \/ TriggerTestFailover(a)

\* Goroutines are interchangeable: it does not matter which one takes a request.
Free == IF Active = Requests THEN {} ELSE {CHOOSE a \in Requests : a \notin Active}

ClusterNext ==
    \/ \E a \in Requests : RequestStep(a)
    \/ \E a \in Free, f \in Forms : Begin(a, f)
    \/ \E a \in Free, n \in Nodes : HandleFailover(a, n)
    \/ \E n \in Nodes : AutomaticFailover(n) \/ LoseReport(n)
    \/ \E s \in SentinelAddrs : Discover(s) \/ Learn(s)
    \/ DNSProviderDelete \/ DNSProviderCreate

ClusterSpec == ClusterInit /\ [][ClusterNext]_clusterVars

-----------------------------------------------------------------------------
(* Properties.                                                             *)

Calls == {"save", "index", "get", "del", "srem", "monitor", "set", "apply", "remove",
          "detail", "replica detail", "primary", "replica", "delete primary", "delete replica",
          "command"}
Request == [form : Form, at : Calls, held : Cluster \union {NoCluster},
            got : Detail \union {NoDetail}]

ASSUME ClusterNoneAssumption ==
    NoCluster \notin Cluster /\ NoMonitor \notin Monitor /\ NoDetail \notin Detail
    /\ NoRequest \notin Request

\* Every variable keeps its type; a request has the cluster and the answer its next
\* call needs.
ClusterTypeOK ==
    /\ failing \subseteq {"store", "sentinel", "dns"}
    /\ loaded \in BOOLEAN
    /\ cluster \in Cluster \union {NoCluster}
    /\ listed \in BOOLEAN
    /\ monitor \in [SentinelAddrs -> Monitor \union {NoMonitor}]
    /\ master \in Nodes /\ pending \subseteq Nodes
    /\ primaryRec \subseteq Nodes /\ replicaRec \subseteq Nodes
    /\ request \in [Requests -> Request \union {NoRequest}]
    /\ served \in Nat /\ promotions \in Nat
    /\ upsets \subseteq {"race", "delete race", "store", "sentinel", "dns", "api delete",
                         "changed while paused", "provider deleted"}
    /\ \A a \in Active :
        /\ Held(a) = NoCluster => request[a].at \in {"get", "del", "srem"}
        /\ Got(a) = NoDetail => request[a].at \notin {"primary", "replica"}

\* The cluster list (the index) and the cluster records agree once every request has
\* ended, also after requests that overlapped, as long as no deletion was among them
\* and no store command failed: the stored record may be any of the writers', but it
\* is listed, and nothing else is.
ClusterListed ==
    Active = {} /\ upsets \intersect {"delete race", "store"} = {} =>
        (listed <=> cluster # NoCluster)

\* With requests one after the other and every call successful, a DNS record exists
\* only while the stored cluster names it, so that the delete page and the edit page
\* will find it.  Two things leave records behind, and are excepted: a deletion through
\* the API, and a deletion of the DNS provider, or its removal to another zone, while a
\* cluster uses it.
NoOrphanRecord ==
    Active = {} /\ upsets \subseteq {"changed while paused"} =>
        /\ primaryRec # {} => cluster # NoCluster /\ cluster.provider # ""
        /\ replicaRec # {} => cluster # NoCluster /\ cluster.replica

\* A cluster is shown as paused exactly if its Sentinels wait two hours.  This needs
\* requests one after the other, successful calls, no pause or edit of a cluster that
\* is paused already, and no deletion through the API.
PauseReachesSentinels ==
    Active = {} /\ upsets \subseteq {"provider deleted"} /\ cluster # NoCluster =>
        \A s \in Monitoring : cluster.paused <=> monitor[s].down = PausedDown

Ends(a) == request[a] # NoRequest /\ request'[a] = NoRequest

\* The delete page, when it finds the cluster and nothing interferes, leaves no
\* Sentinel that monitors it, no DNS record and no trace in the store, unless the page
\* of the DNS providers has deleted the provider of a cluster before.
DeleteCleansUp ==
    [][\A a \in Requests :
        /\ Ends(a) /\ Kind(a) = "delete" /\ Held(a) # NoCluster
        /\ upsets' \subseteq {"changed while paused"}
        => /\ \A s \in SentinelAddrs : monitor'[s] = NoMonitor
           /\ primaryRec' = {} /\ replicaRec' = {}
           /\ cluster' = NoCluster /\ ~listed']_clusterVars

\* The sync page, if no request overlaps it and no call fails, brings both records up
\* to date, whatever failover reports were lost before, provided that the Sentinel that
\* answered knows the current master; the replica record only if it knew replicas.  If
\* it lags, the old master is written, but in no case is a replica record written that
\* holds the address of the primary record.
SyncRepairs ==
    [][\A a \in Requests :
        /\ Ends(a) /\ Kind(a) = "sync" /\ Got(a) # NoDetail
        /\ upsets' \subseteq {"changed while paused", "api delete", "provider deleted"}
        => /\ Got(a).master = master =>
              /\ primaryRec' = {master}
              /\ Held(a).replica /\ Got(a).slaves # {} => replicaRec' = Nodes \ {master}
           /\ Held(a).replica /\ Got(a).slaves \ primaryRec' # {} =>
              primaryRec' \intersect replicaRec' = {}]_clusterVars
=============================================================================
