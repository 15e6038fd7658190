-------------------------- MODULE SentinelRegistry --------------------------
(***************************************************************************)
(* The registered Sentinel nodes and the health checker that pings them.   *)
(*                                                                         *)
(* Registry: the Sentinel pages of web/admin.go and the Sentinel calls of  *)
(* api/sentinels.go, each a sequence of registrations and deletions, over  *)
(* the hashes and the index of store/valkey.go or over the map of          *)
(* store/memory.go.  Checker: tick of core/health_checker.go, which lists  *)
(* the nodes, pings them, writes last_seen for those that answer and       *)
(* compares with the tick before.  Reports: Process of                     *)
(* core/event_processor.go, which writes last_seen of the Sentinel that    *)
(* reports.  Nothing synchronises the three.                               *)
(***************************************************************************)
EXTENDS Naturals, Sequences, SequencesExt, FiniteSets

CONSTANTS NodeNames,     \* names a node may have
          Clerks,        \* registry requests under way at once
          Reporters,     \* reports whose handler is writing last_seen at once
          Pages,         \* the requests that may come, see PageType
          MaxPages,      \* bound: requests served
          MaxReports,    \* bound: reports that find their Sentinel
          MaxUpheavals,  \* bound: Sentinels that stop or come back, restarts of the manager
          Stores,        \* a subset of {"valkey", "memory"}
          Overlapping,   \* bound: the stores over which requests overlap
          NoPage

\* What a handler does with one name: "add" if GetSentinel finds nothing, "put"
\* without looking, "del".
Op == [do : {"add", "put", "del"}, name : NodeNames]
PageType == [kind : {"ops"}, ops : Seq(Op)] \union [kind : {"delete group"}]

ASSUME RegistryAssumption ==
    /\ Pages \subseteq PageType
    /\ MaxPages \in Nat /\ MaxReports \in Nat /\ MaxUpheavals \in Nat
    /\ Stores \subseteq {"valkey", "memory"} /\ Overlapping \subseteq Stores
    /\ IsFiniteSet(NodeNames)

VARIABLES storeKind,
          hash,          \* hash[n]: fields of smgr:sentinel_node:<n>
          index,         \* smgr:sentinel_node:index
          clerk,         \* clerk[a]: the operations a request has left, and its next call
          reporting,     \* reporting[r]: the node whose last_seen a report is about to write
          pages, reports,    \* counters for the bounds
          up,            \* the Sentinel nodes that answer a PING
          upheavals,     \* counter for the bound
          status,        \* status[n]: prevState and statuses of the checker
          tick,          \* where the checker is in its tick
          announced,     \* history: the transitions announced by the last tick
          tangles        \* history: what interfered with a registration or a deletion

registryVars == <<hash, index, clerk, pages>>
reportVars == <<reporting, reports>>
checkerVars == <<status, tick, announced>>
sentinelVars == <<storeKind, registryVars, reportVars, up, upheavals, checkerVars, tangles>>

Fields == {"none", "full", "last_seen only"}
Clerk == [ops : Seq(Op), at : {"next", "hset", "sadd", "srem"}]

\* NoPage stands for "no request" and "no node" and is neither.
ASSUME NoPageAssumption == NoPage \notin Clerk /\ NoPage \notin NodeNames

Tick == [at : {"wait", "ping", "hset"}, list : SUBSET NodeNames,
         results : [NodeNames -> {"unknown", "up", "down"}], seen : NodeNames \union {NoPage}]
Unknown == [n \in NodeNames |-> "unknown"]
Waiting == [at |-> "wait", list |-> {}, results |-> Unknown, seen |-> NoPage]

RegistryInit ==
    /\ storeKind \in Stores
    /\ hash = [n \in NodeNames |-> "none"] /\ index = {}
    /\ clerk = [a \in Clerks |-> NoPage] /\ pages = 0
    /\ reporting = [r \in Reporters |-> NoPage] /\ reports = 0
    /\ up \in SUBSET NodeNames
    /\ upheavals = 0
    /\ status = Unknown /\ tick = Waiting
    /\ announced = {}
    /\ tangles = {}

Busy == {a \in Clerks : clerk[a] # NoPage}

\* GetSentinel succeeds for any hash that has a field.
Found(n) == hash[n] # "none"

\* ListSentinels: what the index names and a hash exists for.  Over Valkey a failing
\* HGETALL leaves its node out, and a failing SMEMBERS, for both callers, all of them.
Listed == {n \in index : Found(n)}
ListSentinels == IF storeKind = "valkey" THEN SUBSET Listed ELSE {Listed}
\* A hash that holds last_seen alone comes out as a node without name, group and address.
Named(list) == {n \in list : hash[n] = "full"}

-----------------------------------------------------------------------------
(* The registry.                                                           *)

\* SentinelClusterCreate is a sequence of "add", SentinelAddNode and
\* CreateSentinelHandler one; SentinelDeleteNode and DeleteSentinelHandler are one
\* "del"; SentinelClusterEditSave is "del old, put new" for every row of its form, so
\* that a later row may delete what an earlier one has put.
\* SentinelClusterDelete lists the group and deletes in the order of the list.
OpsOf(p, list) ==
    IF p.kind = "ops" THEN p.ops
    ELSE LET names == SetToSeq(Named(list))
         IN  [i \in 1..Len(names) |-> [do |-> "del", name |-> names[i]]]

\* Bounds: over Valkey no request begins after a tangle, past which nothing is claimed;
\* requests overlap only where Overlapping says so.
BeginPage(a, p) ==
    /\ clerk[a] = NoPage /\ pages < MaxPages
    /\ storeKind = "valkey" => tangles = {}
    /\ Busy # {} => storeKind \in Overlapping
    /\ pages' = pages + 1
    /\ \E list \in ListSentinels :
        clerk' = [clerk EXCEPT ![a] = [ops |-> OpsOf(p, list), at |-> "next"]]
    /\ tangles' = tangles \union (IF Busy = {} THEN {} ELSE {"requests"})
    /\ UNCHANGED <<storeKind, hash, index, reportVars, up, upheavals, checkerVars>>

Current(a) == Head(clerk[a].ops)
Doing(a, label) == clerk[a] # NoPage /\ clerk[a].at = label /\ clerk[a].ops # <<>>
NextOp(a) == clerk' = [clerk EXCEPT ![a].ops = Tail(@), ![a].at = "next"]
Then(a, label) == clerk' = [clerk EXCEPT ![a].at = label]
clerkFrame == <<storeKind, pages, reportVars, up, upheavals, checkerVars>>

\* A command of SaveSentinel or DeleteSentinel fails: the method returns, and its
\* caller goes on as if it had not.  Bound: none does after a tangle.
Fails(a) ==
    /\ storeKind = "valkey" /\ tangles = {}
    /\ tangles' = tangles \union {"store"}
    /\ NextOp(a)

\* GetSentinel; then SaveSentinel if there is none.  A read that fails counts as "none".
Look(a) ==
    /\ Doing(a, "next") /\ Current(a).do = "add"
    /\ \/ Found(Current(a).name) /\ NextOp(a)
       \/ (Found(Current(a).name) => storeKind = "valkey") /\ Then(a, "hset")
    /\ UNCHANGED <<hash, index, tangles, clerkFrame>>

\* SaveSentinel, HSET of all fields; the memory store is done with it.  After an
\* error, executed or not, SaveSentinel does not go on to the index.
Hset(a) ==
    LET n == Current(a).name
        written == [hash EXCEPT ![n] = "full"]
    IN  /\ \/ Doing(a, "hset")
           \/ Doing(a, "next") /\ Current(a).do = "put"
        /\ \/ /\ hash' = written
              /\ IF storeKind = "memory" THEN index' = index \union {n} /\ NextOp(a)
                 ELSE Then(a, "sadd") /\ UNCHANGED index
              /\ UNCHANGED tangles
           \/ hash' \in {hash, written} /\ UNCHANGED index /\ Fails(a)
        /\ UNCHANGED clerkFrame

\* SaveSentinel, SADD.
SaddIndex(a) ==
    /\ Doing(a, "sadd")
    /\ \/ index' = index \union {Current(a).name} /\ NextOp(a) /\ UNCHANGED tangles
       \/ UNCHANGED index /\ Fails(a)
    /\ UNCHANGED <<hash, clerkFrame>>

\* Whether the checker or a report has looked for the hash and is about to write it.
LastSeenPending(n) ==
    \/ tick.at = "hset" /\ tick.seen = n
    \/ \E r \in Reporters : reporting[r] = n

\* DeleteSentinel, DEL.  It is a tangle if last_seen is about to be written.  After an
\* error, executed or not, DeleteSentinel does not go on to the index.
DelHash(a) ==
    LET n == Current(a).name
        deleted == [hash EXCEPT ![n] = "none"]
    IN  /\ Doing(a, "next") /\ Current(a).do = "del"
        /\ \/ /\ hash' = deleted
              /\ IF storeKind = "memory" THEN index' = index \ {n} /\ NextOp(a)
                 ELSE Then(a, "srem") /\ UNCHANGED index
              /\ tangles' = tangles \union (IF LastSeenPending(n) THEN {"last_seen"} ELSE {})
           \/ hash' \in {hash, deleted} /\ UNCHANGED index /\ Fails(a)
        /\ UNCHANGED clerkFrame

\* Mutant: the index keeps the name.
SremForgotten(a) ==
    /\ Doing(a, "srem")
    /\ NextOp(a)
    /\ UNCHANGED <<hash, index, tangles, clerkFrame>>

\* DeleteSentinel, SREM; its result is discarded.
SremIndex(a) ==
    /\ Doing(a, "srem")
    /\ \/ index' = index \ {Current(a).name} /\ NextOp(a) /\ UNCHANGED tangles
       \/ UNCHANGED index /\ Fails(a)
    /\ UNCHANGED <<hash, clerkFrame>>

EndPage(a) ==
    /\ clerk[a] # NoPage /\ clerk[a].ops = <<>>
    /\ clerk' = [clerk EXCEPT ![a] = NoPage]
    /\ UNCHANGED <<hash, index, tangles, clerkFrame>>

ClerkStep(a) ==
    \/ Look(a) \/ Hset(a) \/ SaddIndex(a) \/ DelHash(a) \/ SremIndex(a) \/ EndPage(a)

-----------------------------------------------------------------------------
(* The health checker.                                                     *)

checkerFrame == <<storeKind, index, clerk, pages, reportVars, up, upheavals>>

\* tick: an empty list ends it, and everything stays as it was.
List ==
    /\ tick.at = "wait"
    /\ \E list \in ListSentinels \ {{}} :
        tick' = [Waiting EXCEPT !.at = "ping", !.list = Named(list)]
    /\ announced' = {}
    /\ UNCHANGED <<hash, status, tangles, checkerFrame>>

\* A ping comes back and its result is collected: UpdateSentinelLastSeen, EXISTS, for
\* a node that answers; if that fails nothing is written.  Under the mutex of the
\* memory store that is all.
Ping(n) ==
    /\ tick.at = "ping"
    /\ n \in tick.list /\ tick.results[n] = "unknown"
    /\ \/ n \notin up /\ tick' = [tick EXCEPT !.results[n] = "down"]
       \/ n \in up /\ tick' = [tick EXCEPT !.results[n] = "up"]
       \/ /\ n \in up /\ storeKind = "valkey" /\ Found(n)
          /\ tick' = [tick EXCEPT !.results[n] = "up", !.at = "hset", !.seen = n]
    /\ UNCHANGED <<hash, status, announced, tangles, checkerFrame>>

\* UpdateSentinelLastSeen, HSET of one field, which creates the hash if it is gone, or
\* its error, which nobody looks at.
SetLastSeen(n) ==
    hash' \in {hash, [hash EXCEPT ![n] = IF @ = "none" THEN "last_seen only" ELSE @]}

HsetLastSeen ==
    /\ tick.at = "hset"
    /\ SetLastSeen(tick.seen)
    /\ tick' = [tick EXCEPT !.at = "ping", !.seen = NoPage]
    /\ UNCHANGED <<status, announced, tangles, checkerFrame>>

\* Mutant: the first result of a node is taken for its state, later ones are not compared.
TransitionNew(n) == status[n] = "unknown" /\ tick.results[n] = "down"

\* A node announces what it has become if the tick before had the opposite result.
Transition(n) == <<status[n], tick.results[n]>> \in {<<"up", "down">>, <<"down", "up">>}

\* The results replace those of the tick before; every transition starts a goroutine
\* that records the event and one that sends the alert.
Compare ==
    /\ tick.at = "ping"
    /\ \A n \in tick.list : tick.results[n] # "unknown"
    /\ announced' = {<<n, tick.results[n]>> : n \in {m \in NodeNames : Transition(m)}}
    /\ status' = tick.results
    /\ tick' = Waiting
    /\ UNCHANGED <<hash, tangles, checkerFrame>>

CheckerStep == List \/ (\E n \in NodeNames : Ping(n)) \/ HsetLastSeen \/ Compare

-----------------------------------------------------------------------------
(* Reports.                                                                *)

reportFrame == <<storeKind, index, clerk, pages, up, upheavals, checkerVars, tangles>>

\* Process of the handler of a report of node n: UpdateSentinelLastSeen, EXISTS.  A
\* report that does not find the hash, or fails to look, writes nothing and leaves no
\* trace here; nor does one over the memory store, which is done under its mutex.
\* Bound: none comes after a tangle.
ReportExists(r, n) ==
    /\ storeKind = "valkey" /\ tangles = {}
    /\ reporting[r] = NoPage /\ reports < MaxReports
    /\ Found(n)
    /\ reporting' = [reporting EXCEPT ![r] = n]
    /\ reports' = reports + 1
    /\ UNCHANGED <<hash, reportFrame>>

ReportHset(r) ==
    /\ reporting[r] # NoPage
    /\ SetLastSeen(reporting[r])
    /\ reporting' = [reporting EXCEPT ![r] = NoPage]
    /\ UNCHANGED <<reports, reportFrame>>

ReportStep(r) == (\E n \in NodeNames : ReportExists(r, n)) \/ ReportHset(r)

-----------------------------------------------------------------------------
\* A Sentinel stops or comes back.
Flip(n) ==
    /\ upheavals < MaxUpheavals
    /\ upheavals' = upheavals + 1
    /\ up' = IF n \in up THEN up \ {n} ELSE up \union {n}
    /\ UNCHANGED <<storeKind, registryVars, reportVars, checkerVars, tangles>>

\* The manager restarts: requests, handlers and the checker's maps are gone, and so is
\* the memory store.
Restart ==
    /\ upheavals < MaxUpheavals
    /\ upheavals' = upheavals + 1
    /\ clerk' = [a \in Clerks |-> NoPage]
    /\ reporting' = [r \in Reporters |-> NoPage]
    /\ status' = Unknown /\ tick' = Waiting
    /\ announced' = {}
    /\ IF storeKind = "memory" THEN hash' = [n \in NodeNames |-> "none"] /\ index' = {}
       ELSE UNCHANGED <<hash, index>>
    /\ tangles' = tangles \union (IF Busy = {} THEN {} ELSE {"crash"})
    /\ UNCHANGED <<storeKind, pages, reports, up>>

\* Goroutines are interchangeable.
FreeClerk == IF Busy = Clerks THEN {} ELSE {CHOOSE a \in Clerks : a \notin Busy}

RegistryNext ==
    \/ \E a \in FreeClerk, p \in Pages : BeginPage(a, p)
    \/ \E a \in Clerks : ClerkStep(a)
    \/ CheckerStep
    \/ \E r \in Reporters : ReportStep(r)
    \/ \E n \in NodeNames : Flip(n)
    \/ Restart

\* The ticker fires for ever and each call of a tick returns.  A tick that finds no
\* list changes nothing; it is taken that the store does not fail for ever.
RegistryFairness == WF_sentinelVars(CheckerStep)

RegistrySpec == RegistryInit /\ [][RegistryNext]_sentinelVars /\ RegistryFairness

-----------------------------------------------------------------------------
(* Properties.                                                             *)

\* Every variable keeps its type.
RegistryTypeOK ==
    /\ storeKind \in {"valkey", "memory"}
    /\ hash \in [NodeNames -> Fields] /\ index \subseteq NodeNames
    /\ clerk \in [Clerks -> Clerk \union {NoPage}] /\ pages \in Nat
    /\ reporting \in [Reporters -> NodeNames \union {NoPage}] /\ reports \in Nat
    /\ up \subseteq NodeNames /\ upheavals \in Nat
    /\ status \in [NodeNames -> {"unknown", "up", "down"}]
    /\ tick \in Tick
    /\ announced \subseteq NodeNames \X {"up", "down"}
    /\ tangles \subseteq {"requests", "last_seen", "store", "crash"}

\* A node is listed exactly if its name is taken, and then with all its fields:
\* what is shown can be deleted, and what is not shown can be registered.  The
\* memory store guarantees it always.  Over Valkey it holds with last_seen written by
\* the checker and by reports meanwhile, and whichever reads and writes of last_seen
\* fail; but it takes requests that neither overlap nor are cut off, no failing HSET,
\* SADD, DEL or SREM of SaveSentinel and DeleteSentinel, and no DEL between the EXISTS
\* and the HSET of a last_seen.
NamesAgree ==
    Busy = {} /\ (storeKind = "memory" \/ tangles = {}) =>
        \A n \in NodeNames : hash[n] = IF n \in index THEN "full" ELSE "none"

\* What the checker last saw of a node and is true no more for good is announced,
\* unless the node is taken off the list or the manager is restarted first: then the
\* change passes unnoticed.
ChangeIsAnnounced ==
    \A n \in NodeNames, was \in {"up", "down"} :
        status[n] = was /\ (n \in up <=> was = "down") ~>
            \/ \E now \in {"up", "down"} : now # was /\ <<n, now>> \in announced
            \/ (n \in up <=> was = "up")
            \/ status[n] = "unknown" \/ Listed = {}
=============================================================================
