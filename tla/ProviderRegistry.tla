-------------------------- MODULE ProviderRegistry --------------------------
(***************************************************************************)
(* DNS provider configurations: the hash smgr:dns:providers in the shared  *)
(* store, and in every manager instance a map from names to the provider   *)
(* built from a configuration.  DNSProviderCreate, DNSProviderEditSave and *)
(* DNSProviderDelete of web/admin.go change first the hash and then the    *)
(* map of the instance that serves the page; main.go fills the map at      *)
(* start.  The failover manager and the API read the same map.             *)
(***************************************************************************)
EXTENDS Naturals

CONSTANTS Managers,      \* instances that share the store
          Operators,     \* pages under way at once
          ProviderNames,
          MaxSaves,      \* bound: pages served
          MaxStarts,     \* bound: restarts of an instance
          ProviderFaults,            \* what may fail: sets of {"save", "list"}
          NoSave

ASSUME ProviderRegistryAssumption ==
    /\ MaxSaves \in Nat /\ MaxStarts \in Nat
    /\ ProviderFaults \subseteq SUBSET {"save", "list"}

\* Two configurations a provider can be built from; one that its factory refuses (a
\* required field, credentials), and one of a type that is not in this build.
NoConfig == "none"
Buildable == {"v1", "v2"}
ProviderConfigs == Buildable \union {"refused", "unavailable"}

VARIABLES providerFaults,    \* the faults this behaviour may show
          dnsConfigs,    \* dnsConfigs[n]: the stored configuration
          dnsProviders,  \* dnsProviders[m][n]: what the provider of n was built from
          saving,        \* saving[a]: the page, its instance, its next step
          saves, starts, \* counters for the bounds
          excused        \* history: <<m, n>> where m may differ from the store

providerVars == <<providerFaults, dnsConfigs, dnsProviders, saving, saves, starts, excused>>

\* A page of kind "delete" has no configuration.
SavePage == [kind : {"create", "edit", "delete"}, name : ProviderNames,
             config : ProviderConfigs \union {NoConfig}, on : Managers, at : {"store", "map"}]

\* NoSave stands for "no page" and is none.
ASSUME NoSaveAssumption == NoSave \notin SavePage

ProvidersInit ==
    /\ providerFaults \in ProviderFaults
    /\ dnsConfigs = [n \in ProviderNames |-> NoConfig]
    /\ dnsProviders = [m \in Managers |-> [n \in ProviderNames |-> NoConfig]]
    /\ saving = [a \in Operators |-> NoSave]
    /\ saves = 0 /\ starts = 0
    /\ excused = {}

Saving == {a \in Operators : saving[a] # NoSave}
SavingAt(a, label) == saving[a] # NoSave /\ saving[a].at = label

\* Mutant: the factory is not asked.
NewProviderUnchecked(config) == config

\* NewProvider: the factory of the type, if there is one and it agrees.
NewProvider(config) == IF config \in Buildable THEN config ELSE NoConfig

\* DNSProviderCreate refuses a type that is not available; of what a factory needs it
\* checks a part.  It does not look whether the name exists.  DNSProviderEditSave
\* takes what it gets.
Accepts(page) ==
    CASE page.kind = "create" -> page.config \in Buildable \union {"refused"}
      [] page.kind = "edit" -> page.config # NoConfig
      [] page.kind = "delete" -> page.config = NoConfig

BeginSave(a, page) ==
    /\ saving[a] = NoSave /\ saves < MaxSaves
    /\ page.at = "store" /\ Accepts(page)
    /\ saves' = saves + 1
    /\ saving' = [saving EXCEPT ![a] = page]
    /\ excused' = excused \union
           IF \E b \in Saving : saving[b].name = page.name THEN Managers \X {page.name} ELSE {}
    /\ UNCHANGED <<providerFaults, dnsConfigs, dnsProviders, starts>>

\* SaveDNSProviderConfig or DeleteDNSProviderConfig; an error is not looked at.
StoreConfig(a) ==
    LET n == saving[a].name
        m == saving[a].on
    IN  /\ SavingAt(a, "store")
        /\ saving' = [saving EXCEPT ![a].at = "map"]
        /\ \/ /\ dnsConfigs' = [dnsConfigs EXCEPT ![n] = saving[a].config]
              /\ excused' = excused \union ((Managers \ {m}) \X {n})
           \/ /\ "save" \in providerFaults
              /\ UNCHANGED dnsConfigs
              /\ excused' = excused \union {<<m, n>>}
        /\ UNCHANGED <<providerFaults, dnsProviders, saves, starts>>

\* Mutant: only the stored configuration is deleted.
MapEntryKept(page) ==
    IF NewProvider(page.config) # NoConfig THEN page.config ELSE dnsProviders[page.on][page.name]

\* The entry of the map after a page: none after delete, the new provider if it could
\* be built, and otherwise the old one.
MapEntry(page) ==
    IF page.kind = "delete" \/ NewProvider(page.config) # NoConfig THEN page.config
    ELSE dnsProviders[page.on][page.name]

\* The map of the instance that serves the page.  Two pages that write it at once may
\* also stop the process, which Restart covers.
ChangeMap(a) ==
    LET page == saving[a]
    IN  /\ SavingAt(a, "map")
        /\ dnsProviders' = [dnsProviders EXCEPT ![page.on][page.name] = MapEntry(page)]
        /\ excused' = excused \union
               (IF NewProvider(page.config) = page.config THEN {} ELSE {<<page.on, page.name>>})
        /\ saving' = [saving EXCEPT ![a] = NoSave]
        /\ UNCHANGED <<providerFaults, dnsConfigs, saves, starts>>

\* An instance stops, at any time, and starts: main.go builds what it can of the stored
\* configurations and takes an error of ListDNSProviderConfigs for "there are none".
RestartManager(m) ==
    LET cut == {a \in Saving : saving[a].on = m}
        Load(configs) == dnsProviders' =
            [dnsProviders EXCEPT ![m] = [n \in ProviderNames |-> NewProvider(configs[n])]]
        still == {e \in excused : e[1] # m \/ \E a \in Saving \ cut : saving[a].name = e[2]}
    IN  /\ starts < MaxStarts
        /\ starts' = starts + 1
        /\ saving' = [a \in Operators |-> IF a \in cut THEN NoSave ELSE saving[a]]
        /\ \/ Load(dnsConfigs) /\ excused' = still
           \/ /\ "list" \in providerFaults
              /\ Load([n \in ProviderNames |-> NoConfig])
              /\ excused' = still \union ({m} \X ProviderNames)
        /\ UNCHANGED <<providerFaults, dnsConfigs, saves>>

\* Goroutines are interchangeable.
FreeOperator == IF Saving = Operators THEN {} ELSE {CHOOSE a \in Operators : a \notin Saving}

ProvidersNext ==
    \/ \E a \in FreeOperator, page \in SavePage : BeginSave(a, page)
    \/ \E a \in Operators : StoreConfig(a) \/ ChangeMap(a)
    \/ \E m \in Managers : RestartManager(m)

ProvidersSpec == ProvidersInit /\ [][ProvidersNext]_providerVars

-----------------------------------------------------------------------------
(* Properties.                                                             *)

\* Every variable keeps its type.
ProvidersTypeOK ==
    /\ providerFaults \subseteq {"save", "list"}
    /\ dnsConfigs \in [ProviderNames -> ProviderConfigs \union {NoConfig}]
    /\ dnsProviders \in [Managers -> [ProviderNames -> Buildable \union {NoConfig}]]
    /\ saving \in [Operators -> SavePage \union {NoSave}]
    /\ saves \in Nat /\ starts \in Nat
    /\ excused \subseteq Managers \X ProviderNames

\* The provider an instance updates DNS with is the one its stored configuration
\* describes.  It may differ only for a reason since the instance's last start:
\* another instance served a page of that name, two pages of it overlapped, the store
\* failed, or a configuration was stored that no provider can be built from and the
\* old provider stayed.  A start ends all of these, whatever a crash left half done.
ProvidersFollowConfigs ==
    \A m \in Managers, n \in ProviderNames :
        /\ <<m, n>> \notin excused
        /\ \A a \in Saving : saving[a].on = m => saving[a].name # n
        => dnsProviders[m][n] = NewProvider(dnsConfigs[n])
=============================================================================
