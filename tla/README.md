# Valkey Sentinel Manager: specifications and proofs

TLA+ models of the event and failover path and of the administration of Valkey
Sentinel Manager, the TLC configurations that check them and the TLAPS proofs about
them. Source paths are
relative to the repository; Go paths without a prefix are under `internal/`.

## 1. The system

Sentinels run a script, **sentinel-agent**, on a failover or when a replica goes
down or comes back. The agent posts the event to a **sentinel-manager**, of which
several instances may share one **storage Valkey**. The manager counts the
reports of an event; the report that brings the count to the quorum changes DNS
records, has the old primary drop its clients and notifies webhooks. A web
interface and a REST API administer clusters, sentinels, DNS providers, webhooks
and settings.

| Component | State | Operations | Talks to |
|---|---|---|---|
| agent (`agent/`, `cmd/sentinel-agent`) | attempt number, exit code | `SendEvent`, `CmdReconfig`, `CmdNotify` | manager over HTTP |
| event intake (`api/events.go`) | one goroutine per report, 60 s context | `CreateEventHandler` | failover manager |
| event processor (`core/event_processor.go`, `models/event.go`) | none of its own | `Process`, `DedupKey` | store |
| failover manager (`core/failover_manager.go`) | local variables of the handler | `HandleEvent`, `handleFailover`, `handleReplicaDown`, `handleReplicaUp`, `sendNotification` | store, DNS, Sentinels, webhooks |
| CLIENT KILL task (`core/client_killer.go`) | attempt number | `KillOldPrimaryClients` | old primary |
| stores (`store/valkey.go`, `store/memory.go`) | dedup counters, history, locks, sentinels, clusters, tokens, webhooks, settings, DNS configurations | one method per record and verb; in Valkey several commands each | all |
| DNS providers (`dns/`) | none; the records live at the provider | update, add, remove, delete, verify | provider API |
| Sentinel operations (`core/sentinel_ops.go`) | none | monitor, set, remove, failover, queries | Sentinels |
| health checker (`core/health_checker.go`) | last status per node | `tick` | Sentinels, store, notifier |
| notifier (`core/notifier.go`) | none | `SendNotifications` | webhooks |
| administration (`web/admin.go`, `api/`) | the store's records, the provider map | create, edit, pause, resume, delete, sync, settings | store, Sentinels, DNS |
| sessions (`web/auth.go`, `web/csrf.go`) | sessions, login failures, CSRF tokens | login, validate, lock out | - |

What is hard in it: reports of one event race each other through several store
commands; handlers of one master, in one or several instances, are kept apart by
a lock with a TTL and without an owner; Sentinel's answers lag behind its events;
a process may stop between any two commands; retries duplicate reports; nothing is
repeated that was dropped. `PROJECT.json` lists these hazards line by line with
the properties that address them.

## 2. Modules

| Module | Models |
|---|---|
| `EventWindow` | abstract: numbered reports in windows, each fires at most once |
| `EventProcessor` | intake, `HandleEvent` to the dispatch, `Process`, `RecordEvent` of both stores |
| `EventProcessorProofs` | theorems about it and about `EventReporting`, and that it implements `EventWindow` |
| `SentinelAgent` | `SendEvent`, exit codes, and the network |
| `EventReporting` | agents composed with the event handlers |
| `FailoverManager` | dispatch, lock, DNS updates, CLIENT KILL, notification |
| `FailoverManagerProofs` | theorems about it |
| `DnsProvider` | the methods of the four DNS providers, one action per API call |
| `DnsProviderProofs` | theorems about the four providers |
| `ClusterAdmin` | the pages and API calls that change a cluster, against the store, the Sentinels and DNS |
| `ClusterAdminProofs` | theorems about it |
| `RuntimeSettings` | the settings map, API tokens and alert switches |
| `RuntimeSettingsProofs` | theorems about it |
| `SentinelRegistry` | the registered Sentinel nodes and the health checker |
| `Sessions` | login, lockout, sessions, CSRF tokens, the admin password |
| `SessionsProofs` | theorems about it |
| `ProviderRegistry` | DNS configurations and the provider map of each instance |
| `ProviderRegistryProofs` | theorems about it |
| `Webhooks` | webhook entries, notifications, the Slack migration |
| `Administration` | `RuntimeSettings`, `SentinelRegistry`, `Sessions`, `ProviderRegistry` and `Webhooks` side by side |
| `AdministrationProofs` | theorems about `Webhooks`, `SentinelRegistry` and all of them together |
| `MC...` | the small instances |

**EventProcessor.** A handler is one goroutine. `count`, `ttl`, `history` are the
Valkey keys; each command on them is an action (`Incr`, `Expire`, `Lpush`,
`Ltrim`), the memory store's method is one (`RecordInMemory`). `window`, `n` and
`win` record how often the key has expired and which number and window a report
got; `n` is the result of `INCR`, the other two are history variables. A handler
ends in `act` (it goes on to the DNS update), `done`, `failed` or `dead`, and stays
there as a record. `Disturbances` selects what may go wrong: a crash of the
instance, errors of the lookup, of `INCR` (executed or not), of `EXPIRE`, of the
history commands, and edits of the cluster while handlers run. Time is abstract:
`ExpireWindow` may happen whenever the key carries an expiry. `DedupKey` returns
the tuple that the code hashes; SHA-256 is taken to be injective. The memory store
is not crashed: its counters go with the process. An update of the sentinel's
`last_seen` comes first in `Process` and is ignored when it fails; the handlers do not
depend on it, and it is a part of `SentinelRegistry`, whose records it changes.

**SentinelAgent, EventReporting.** A request in flight is delivered late, once or
never; an answer counts only for the attempt that waits for it. `Deliver` is the
intake: the handler starts and 202 is answered in one step. Requests that are
refused look like lost ones to the manager.

**FailoverManager.** One action per call that leaves the process: the lock
commands, the DNS writes, `GetMasterDetail` (two commands, whose answers may be of
different age: `Answers`), the read and the upsert of `AddRecordValue` and
`RemoveRecordValue`, the start of the CLIENT KILL task, the notification.
`FailoverPlan`, `ReplicaDownPlan` and `ReplicaUpPlan` are the choice of values of
the three handlers. The Sentinels are external: `Promote`, `ReplicaFails` and
`ReplicaRecovers` change the topology and emit the event that, after its quorum,
sets off a handler. A lock records which handler created it, which the code does
not; `ReleaseLock` does not look at it. Faults are chosen per behaviour
(`faults`): crash, lock command fails (executed or not), DNS call fails (applied or
not), query fails, answers are stale, settings cannot be read. Ports are left out:
an event always has a positive port, as the agent sends it. The provider is
Route53; `DnsProvider` has the others.

**DnsProvider.** `records` is what the API holds for one name. Route53, Azure and a
REST endpoint keep a record set and replace it (`ReadSet`, `Compute`, `WriteSet`,
`callEndpoint`); Cloudflare keeps one record per value, which `ListRecords`,
`ChangeRecord`, `DeleteRecord`, `NewRecord` read and change one by one. A method that
is called (`Call`) does its API calls with those of other methods in between;
`sets`, `changes` and `deletes` are what it still has to do. A call that fails may
have been executed. `before` and `alone` are history variables. External, and chosen
by how the code uses them: Route53 deletes a record set only if its values are the
ones sent; an update endpoint sets the record; a delete endpoint removes either the
address or the name; Cloudflare accepts a value twice. `VerifyRecord` and
`HealthCheck` only read and are left out, like TTLs.

**ClusterAdmin.** One cluster; a request is a goroutine that makes one call after the
other, and `request[a]` holds its form, its next call (`at`), its copy of the cluster
and its `MasterDetail`. `FirstCall` and `FirstCopy` are what a handler does right after
`GetCluster`. The calls are shared by the handlers as they are in the code: `Save`,
`Index`, `GetForDelete`, `Del`, `Srem` are the commands of the store, `MonitorAll`,
`SetConfig`, `ApplyConfig`, `RemoveAll`, `QueryDetail`, `TriggerTestFailover` those to
the Sentinels, `UpdatePrimary` ... `DeleteReplica` those to DNS. A command that goes
to all Sentinels in a loop is one step which some of them may miss. External: the
Sentinels fail over by themselves unless all wait two hours, learn of the new master
one by one (`Learn`) and of the replicas some time after `MONITOR` (`Discover`), and
their report reaches a handler (`HandleFailover`, one write here, in detail in
`FailoverManager`) or is lost. `GetMasterDetail` takes the answer of the first Sentinel
that gives one, so `Answers` has those of Sentinels that still name the old master, and
those that name it and list it among the replicas, because the Sentinel learnt of the
failover between the two queries. Only the sync page takes the master out of the
replicas (`ReplicaValues`). `loaded` is the entry of the cluster's provider in
`h.dnsProviders`: `DNSProviderDelete` removes it at any time without a look at the
clusters, `DNSProviderCreate` (or an edit that can be built) puts it there; a handler
takes the provider out of the map once and then works with it. Several instances, each
with a map of its own, are `ProviderRegistry`'s. Only fields that decide which calls
are made are kept: provider, replica record, paused, the noted interval. The form's
password only decides whether `SentinelApplyConfig` is called; the function is not
given the password (`sentinel_ops.go:140`), so a changed one does not reach the
Sentinels.

**RuntimeSettings.** The map `smgr:runtime:settings` is a record of its three kinds of
entries. Every page reads it (an error reads as empty), changes its copy and writes it
whole; the server page writes without reading. Tokens are numbered as they are
generated. The single token is any of the named ones, since Go ranges over maps in no
order. `revoked` and `mishaps` are history variables.

**SentinelRegistry.** A page is a sequence of additions, overwriting registrations and
deletions, each of one or two store commands. Over Valkey each of them may fail, the
write executed or not: `SaveSentinel` and `DeleteSentinel` stop there and their callers
go on (`Fails`), a `GetSentinel` that fails counts as "not found", so that the node is
overwritten (`Look`), and a `ListSentinels` that fails has any part of the list. A tick
of the checker is `List`, `Ping` for every node in any order, `HsetLastSeen` after the
`EXISTS` of the same call, and `Compare`. The second writer of `last_seen` is the event
path: every report runs `EXISTS` (`ReportExists`) and `HSET` (`ReportHset`) in a
goroutine of its own, beside checker and pages. `HSET` creates a hash that is gone, with
`last_seen` as its only field. `Restart` empties the checker's maps, ends requests and
handlers, and empties the memory store.

**Sessions.** Each access to the three maps under the mutex is one step, and a request
makes several. Passwords are two values, session ids and CSRF tokens numbers as they
are generated. Sessions expire and lockout periods end at any time. `forms` records
the pages sent.

**ProviderRegistry, Webhooks.** Several instances share the store; pages change the
hash first, then the map of the instance that serves them. A configuration can be
built or is refused by its factory or has no factory in this build. The migration is
three steps, and an instance may start again after any of them.

**Administration.** The five areas share no record with each other: every step reads and
writes the keys and maps of its area only. (The `last_seen` that the event path writes
is in `SentinelRegistry`, with the rest of the registry. The alert switch that `SentinelClusterEditSave` also
writes is an action of `RuntimeSettings`; the checker's read of its interval decides
only when it ticks.) An invariant of one area therefore holds of all of them together
if it holds of the area alone, and a behaviour exercises one, `area`, at a time, which
keeps the state space a sum instead of a product.

## 3. Runs

| Run | Shows | Result |
|---|---|---|
| `event_processor` | numbering, at most one act per window and target, quorum behind every act, no skipped target, refinement of `EventWindow`; 3 handlers, all disturbances, both stores | holds |
| `event_reporting` | exit code 0 means the report is in a handler's hands and is counted; a reached target acts, windows close, the history stays bounded | holds |
| `duplicate_reports` | the quorum consists of different sentinels (`models/cluster.go:44`) | violated: one sentinel's retry counts twice |
| `dedup_leak` | a counter does not outlive its window (`store/valkey.go:18`) when an instance may crash | violated: crash between `INCR` and `EXPIRE` |
| `failover_manager` | mutual exclusion, primary record held through CLIENT KILL, replica record never emptied and never given the wrong node; 2 handlers, 3 changes, all faults | holds |
| `failover_liveness` | a failover reaches the primary record; locks come free after crashes and lost replies | holds |
| `back_to_back_failovers` | the same for two failovers (README line 77) | violated: the second finds the lock taken and is dropped |
| `dns_providers` | alone and without failures, Route53, Azure and Cloudflare agree with the `Provider` interface; success means the value is there; only `DeleteRecord` empties a record set; 2 calls, 3 values, every method, failing reads and writes | holds |
| `azure_add` | `AddRecordValue` keeps the other values (`dns/azure.go:135`) | violated: a failed read counts as an empty record set |
| `cluster_admin` | index and records agree after overlapping requests; requests one after the other: a cluster is paused exactly if its Sentinels wait; unless its provider was deleted, no DNS record without a cluster that names it, and delete leaves nothing behind; sync repairs the records if the answer names the current master | holds |
| `administration` | deleted tokens and webhooks stay deleted, agents are not locked out, hash and index of the registry agree beside the writers of `last_seen`, forms of a live session stay valid, the lockout's limit is exceeded by at most the parallel requests, provider maps follow their configurations, the Slack URL survives the migration, every webhook is tried, a Sentinel's change of state is announced | holds |
| `slow_handlers` | mutual exclusion without the assumption that handlers finish within the lock's TTL (README line 100) | violated |

Bounds. The event path has no interaction between keys, so one key is enough; three
handlers are one more than the target of 2, so that reports before, at and after
the target occur, and windows end between them. The agents' run has one sentinel
with two script runs of two attempts, so that every kind of late answer occurs; the
quorum run has two sentinels. The failover path uses one cluster of three nodes
(two replicas, so that a filtered answer can be empty, partial or full), two
handlers (the most one lock can be contested by) and at most three topology changes,
two of them failovers (`MaxChanges`, `MaxFailovers`). Two calls of the
providers are enough for one to change the record between the other's read and write,
and three values for a record set that keeps some when it loses one. The cluster
run has two requests at a time (three in all, two when a call may fail), two Sentinels,
so that a command can miss one and one can lag behind the other, three nodes and one
failover; one call of a behaviour fails; the provider comes and goes without a bound,
and may be missing from the start. Sentinels, and the nodes that are not the first
master, are interchangeable there (4.4 million states with that symmetry). After an overlap or a failure no further request begins, since the properties
claim nothing past it: what the claims are conditioned on is recorded in the history
variables `upsets`, `mishaps`, `tangles`, `excused`, `hookMishaps`, each kind of which
is a weakness of the code that the property's comment names. In the administration run
two requests of an area overlap; over Valkey those of the registry do so only with the
checker and with a report (`Overlapping`, `Reporters`, `MaxReports`), one of each being
enough for every order of their commands with those of a deletion. Handlers and nodes are
symmetric in the safety runs; runs with liveness properties use no symmetry. All
runs switch deadlock checking off: reports, changes and handlers are finite in
number and the system rests when they are used up.

Fairness. Goroutines are scheduled and their calls return, since every call carries
the 60 s context (weak fairness of a handler's steps); an expiry or a lock TTL that
was set ends; an agent's HTTP call ends with its timeout. Neither the network, nor
Sentinel, nor crashes are owed anything. `PrimaryFollowsMaster` also needs that an
event finds a goroutine. The health checker's ticker fires for ever and each of
its calls returns (timeouts), so its steps are weakly fair; nothing else in the
administration is, as nobody has to submit a form.

Every property has a mutant (definitions marked "Mutant", each just before the
definition it replaces): a plausible slip in the code that makes TLC find the
property violated.

## 4. Proofs

Every invariant and every action property that a run checks and that holds is also a
theorem, for any sets of handlers, requests, clusters, nodes, events, tokens, names
and policies. The constants' assumptions are named in the modules that declare them:
the domains of the parameters; that the values which stand for "none" are not among
the things they stand for; that handlers, and the names of Sentinel nodes, are finitely
many, since the code counts or walks through them; and that addresses are, since
`RemoveRecordValue` of Cloudflare counts records. Each inductive invariant was checked by
TLC on the instance of its run before it was proved.

**EventProcessorProofs.** The inductive invariant `IInv` adds
to `TypeOK`: which labels a handler with and without a number may have, that no
handler belongs to a window that has not begun, and that each number 1..count of the
current window is held by exactly one report. `NumberedOnce` alone is not inductive:
nothing in it ties the window of a waiting handler to the key's current one. From
`IInv` follow `ActsOncePerWindow`, `TargetNotSkipped`, `ActsWithQuorum` (a window
with number t has at least t reports, by cardinality of 1..t) and the step
simulation behind `Refinement`: `INCR` is `Cast`, `Decide` to `act` is `Fire`, the
expiry is `Close`, everything else stutters. `HistoryBounded` is inductive with the
types: `LPUSH` adds a handler to those about to trim, `LTRIM` takes one away and leaves
at most `HistoryMax`.

The same module composes: `ReportingImplements` shows that every step of
`EventReporting`, agents and network included, is a step of the handlers or leaves them
alone, so what is proved of `EventProcessor` holds behind retrying agents
(`ReportingSafe`). `ExitZeroIsHandled` needs `ReportingInv`: an answer on its way has a
handler with its report, and a handler that has not started has none, so that no
start takes a report away.

**FailoverManagerProofs.** Two inductive invariants. `LockInv`: a handler in its
section is the creator of its key's lock (`LockOwned`), and a failover handler past
its update finds its node in the primary record (`PrimaryHeld`). It needs
`~SlowHandlers`; with it, an expiry or a foreign `DEL` can never hit a lock in use,
and `MutualExclusion` and `PrimaryHeldThroughKill` follow. `ReplicaInv`: the replica
record is not empty, values read and not yet written are not empty and lack the
failed node, and no failover goes from a node to itself. It needs no assumption on
timing; `ReplicaRecordKept` and the two action properties follow from it and from
lemmas on the plans.

**DnsProviderProofs.** Three invariants. `WriteInv`, for `EmptiedOnlyByDelete`: a call of
Route53 or Azure that is about to write, other than a deletion, has something to write.
The check for the last value is on the values *read*, so this has to be carried from
the read to the write. `TypeInv`, for `TypeOK`: that the ids of Cloudflare's records are
unique is inductive only with `IdsFresh` (a call has not used the ids of the records it
is still to create) and with `ArgumentsFit` (only `UpdateRecord`, which has one value,
changes a record in place; two values would give two records one id). `AloneInv`, for
`AgreesWithInterface` and `SuccessIsDone`: for a call without another beside it, `Stage`
relates the records at every API call to those found and to the work left. For Cloudflare
that is: each value is there to stay or still to be created; without faults every other
record is still to be changed or deleted (`Replacing`); `AddRecordValue` is between the
old values and the old with the new (`Adding`); `RemoveRecordValue` deletes the one
record of its value (`Removing`). That its test `len(records) == 1` is "the last value"
needs that no value is held twice, and finiteness (`OneListed`).

**ClusterAdminProofs.** `ClusterTypes` adds to the types that a request makes only the
calls of its handler, with the copy of the cluster and the `MasterDetail` they need
(`Fits`). Proving it showed that two arms of the CASE in `FirstCall` overlapped for an
edit, which TLC, taking the first, does not notice; the arms are now disjoint.
`ClusterInv` has a part for each property, each conditioned on the upsets its property
excludes: `AloneInv` (when requests overlap it is noted), `ListedInv` (hash and index
differ only between a request's two commands), `PauseInv` (how far a request has taken
Sentinels and stored cluster towards the pause, and that `saved`, the interval to go back
to, is never the two hours of the pause), `RecordsInv` (while DNS records exist, the
provider is loaded and a record of the cluster, the stored one or the request's copy,
names them) and `SyncInv` (what the sync page has written is what it was told and, if it
was told the current master, the replicas of that). The stages (`PauseAt`, `RecordsAt`, `SyncAt`) are stated per handler and
call. `ClusterListed`, `PauseReachesSentinels`, `NoOrphanRecord`, `DeleteCleansUp` and
`SyncRepairs` follow.

**RuntimeSettingsProofs.** `SettingsInv` says what holds between two requests (`Calm`:
no revoked token among the named ones, the single token is one of them or at least not
revoked) and after each call of a request (`Stage`), as long as nothing went wrong.
`RevokedStaysRevoked` alone is not inductive: a page in the middle could write anything.

**ProviderRegistryProofs.** `ProvidersInv`: overlapping pages of a name excuse it; a page
between store and map has the stored configuration; where no page is about to change
the map, the map follows the store.

**SessionsProofs.** For any number of concurrent requests, addresses and sessions and
any limit. `LockoutBounded` is not inductive: a request that passed the check may
still count a failure. `LockoutInv` bounds the failures counted plus the requests past
the check (`PastCheck`); counting moves one from the second to the first, and passing
the check happens only below the limit. `FormsStayValid` follows from `FormsInv`: a
live session has a token, so `getOrCreateCSRFToken` never makes it another; ids of
pages were issued, so the next session is not one of theirs; and a page that is about
to be sent carries its session's token.

**AdministrationProofs.** `HooksInv`: no page is about to write a deleted id, the
migration writes only while the old key is there and deletes it only when the webhook
is, and a notification has tried what is no longer left of its list; from it
`DeletedStaysDeleted`, `SlackNotLost`, `EveryHookTried`. `RegistryInv`: over the memory
store nothing is half done; over Valkey one request is, and the checker and the reports
that are about to write `last_seen` find the hash; from it `NamesAgree`, for any number
of reports at once. `AdministrationSafe` then
carries the properties of the five areas to the manager that has them all: a step of
`Administration` is a step of one area and stutters in the others.

Model-checked only: the liveness properties (`TargetLeadsToAct`, `WindowCloses`,
`ExitZeroIsCounted`, `PrimaryFollowsMaster`, `LocksFreed`, `ChangeIsAnnounced`), which
need fairness and ENABLED, out of the prover's reach; and the five runs that end in a
violation, which are about what does not hold.

## 5. Plan

In order; each with a run, and a proof where noted.

1. Done: event deduplication and quorum, reporting, failover handling.
2. Done: the DNS providers, cluster administration, settings and tokens, the registry
   and health checker, sessions, DNS configurations, webhooks and notifications.
3. Done: proofs of every safety property of the runs: reporting, the four providers,
   cluster administration, settings, registry, DNS configurations and webhooks.
4. `FailoverSystem`: EventProcessor's `act` as FailoverManager's `Dispatch`, for
   flapping within a dedup window and CLIENT KILL on a node that is primary again; a run
   with two clusters of one group, which share a replica lock.

Not modelled: message texts, templates and translations (no state); HTTP routing and
configuration parsing; encryption at rest (library code, and no property tells a sealed
value from its content); pages that only read (lists, `LoadSentinelsQuery`,
`WebhookTest`); the loss of sessions at a restart, after which every page asks for a
login; that the memory store hands out pointers to its own entries (`GetCluster`,
`GetSentinel`, `GetWebhook` and the lists), so that what a page changes in its copy shows
before it is saved; edits that point a DNS provider to another zone, which are taken for
a deletion and a creation; forms that are refused before any call is made.
