----------------------- MODULE ProviderRegistryProofs -----------------------
(***************************************************************************)
(* Proofs about ProviderRegistry, for any number of instances, pages and   *)
(* names: an instance's provider is the one its stored configuration       *)
(* describes, except for the reasons the code leaves open.                 *)
(***************************************************************************)
EXTENDS ProviderRegistry, TLAPS

USE ProviderRegistryAssumption, NoSaveAssumption
    DEF ProviderRegistryAssumption, NoSaveAssumption

-----------------------------------------------------------------------------
(* The invariant.                                                          *)

\* A page of n on instance m has stored its configuration and not yet changed the map.
MapPending(m, n) ==
    \E a \in Saving : saving[a].on = m /\ saving[a].name = n /\ saving[a].at = "map"

\* Every page was accepted: only a deletion has no configuration.
AcceptedPages == \A a \in Saving : Accepts(saving[a])

\* Pages of one name that overlap excuse every instance.
OverlapsExcused ==
    \A a, b \in Saving : a # b /\ saving[a].name = saving[b].name =>
        Managers \X {saving[a].name} \subseteq excused

\* Where nothing is excused, the store holds what a page will put into the map, and
\* the map agrees with the store where no page is about to change it.
StoreIsPage ==
    \A a \in Saving :
        saving[a].at = "map" /\ <<saving[a].on, saving[a].name>> \notin excused =>
            dnsConfigs[saving[a].name] = saving[a].config
MapFollows ==
    \A m \in Managers, n \in ProviderNames : <<m, n>> \notin excused /\ ~MapPending(m, n) =>
        dnsProviders[m][n] = NewProvider(dnsConfigs[n])

ProvidersInv == AcceptedPages /\ OverlapsExcused /\ StoreIsPage /\ MapFollows

-----------------------------------------------------------------------------
(* Types.                                                                  *)

\* A provider is built from a configuration that one can be built from, or there is
\* none.
LEMMA NewProviderType == \A config : NewProvider(config) \in Buildable \union {NoConfig}
BY DEF NewProvider

\* The map of an instance gets such an entry.
LEMMA MapEntryType ==
    ASSUME NEW page \in SavePage, Accepts(page), ProvidersTypeOK
    PROVE  MapEntry(page) \in Buildable \union {NoConfig}
<1>1. /\ page.kind = "delete" => page.config = NoConfig
      /\ page.on \in Managers /\ page.name \in ProviderNames
  BY DEF Accepts, SavePage
<1>2. dnsProviders[page.on][page.name] \in Buildable \union {NoConfig}
  BY <1>1 DEF ProvidersTypeOK
<1>3. NewProvider(page.config) # NoConfig => page.config \in Buildable
  BY DEF NewProvider
<1> QED BY <1>1, <1>2, <1>3 DEF MapEntry

\* What a page is made of.
LEMMA PageFields ==
    ASSUME ProvidersTypeOK, NEW a \in Operators, saving[a] # NoSave
    PROVE  /\ saving[a] \in SavePage
           /\ saving[a].name \in ProviderNames /\ saving[a].on \in Managers
           /\ saving[a].config \in ProviderConfigs \union {NoConfig}
BY DEF ProvidersTypeOK, SavePage

\* The operator that takes a page is one, and is free.
LEMMA FreeOperatorIsFree ==
    ASSUME NEW a \in FreeOperator
    PROVE  a \in Operators /\ a \notin Saving
<1>1. Saving # Operators /\ Saving \subseteq Operators /\ a = CHOOSE b \in Operators : b \notin Saving
  BY Zenon DEF FreeOperator, Saving
<1> QED BY <1>1

\* The page that has stored its configuration goes on to the map, and is the same page.
LEMMA PageGoesOn ==
    ASSUME ProvidersTypeOK, NEW a \in Operators, StoreConfig(a)
    PROVE  /\ saving[a] # NoSave /\ saving[a].at = "store"
           /\ saving' \in [Operators -> SavePage \union {NoSave}]
           /\ \A b \in Operators : b # a => saving'[b] = saving[b]
           /\ saving'[a] \in SavePage /\ saving'[a].at = "map"
           /\ saving'[a].kind = saving[a].kind /\ saving'[a].name = saving[a].name
           /\ saving'[a].config = saving[a].config /\ saving'[a].on = saving[a].on
<1>1. saving[a] # NoSave /\ saving[a].at = "store"
  BY DEF StoreConfig, SavingAt
<1>2. saving[a] \in SavePage
  BY <1>1, PageFields
<1>3. PICK p : p = [saving[a] EXCEPT !.at = "map"]
  OBVIOUS
<1>4. /\ p \in SavePage /\ p.at = "map" /\ p.kind = saving[a].kind /\ p.name = saving[a].name
      /\ p.config = saving[a].config /\ p.on = saving[a].on
  BY <1>2, <1>3 DEF SavePage
<1>5. saving' = [saving EXCEPT ![a] = p]
  BY <1>3 DEF StoreConfig
<1> QED BY <1>1, <1>4, <1>5 DEF ProvidersTypeOK

\* The configurations, the maps and the pages keep their types.
LEMMA ProvidersTypes ==
    ASSUME ProvidersTypeOK, AcceptedPages, ProvidersNext
    PROVE  ProvidersTypeOK' /\ AcceptedPages'
<1>1. ASSUME NEW a \in FreeOperator, NEW page \in SavePage, BeginSave(a, page)
      PROVE  ProvidersTypeOK' /\ AcceptedPages'
  <2>1. a \in Operators
    BY FreeOperatorIsFree
  <2>2. saving' \in [Operators -> SavePage \union {NoSave}]
    BY <1>1 DEF BeginSave, ProvidersTypeOK
  <2>3. excused' \subseteq Managers \X ProviderNames
    <3>1. Managers \X {page.name} \subseteq Managers \X ProviderNames
      BY DEF SavePage
    <3>2. excused' = excused \/ excused' = excused \union (Managers \X {page.name})
      BY <1>1 DEF BeginSave
    <3> QED BY <3>1, <3>2 DEF ProvidersTypeOK
  <2>4. AcceptedPages'
    BY <1>1, <2>1 DEF BeginSave, AcceptedPages, Saving, ProvidersTypeOK, Accepts
  <2> QED BY <1>1, <2>2, <2>3, <2>4 DEF BeginSave, ProvidersTypeOK
<1>2. ASSUME NEW a \in Operators, StoreConfig(a)
      PROVE  ProvidersTypeOK' /\ AcceptedPages'
  <2>1. /\ saving[a].name \in ProviderNames /\ saving[a].on \in Managers
        /\ saving[a].config \in ProviderConfigs \union {NoConfig}
    BY <1>2, PageGoesOn, PageFields
  <2>2. dnsConfigs' \in [ProviderNames -> ProviderConfigs \union {NoConfig}]
    BY <1>2, <2>1 DEF StoreConfig, ProvidersTypeOK
  <2>3. excused' \subseteq Managers \X ProviderNames
    <3>1. /\ (Managers \ {saving[a].on}) \X {saving[a].name} \subseteq Managers \X ProviderNames
          /\ <<saving[a].on, saving[a].name>> \in Managers \X ProviderNames
      BY <2>1
    <3>2. \/ excused' = excused \union ((Managers \ {saving[a].on}) \X {saving[a].name})
          \/ excused' = excused \union {<<saving[a].on, saving[a].name>>}
      BY <1>2 DEF StoreConfig
    <3> QED BY <3>1, <3>2 DEF ProvidersTypeOK
  <2>4. AcceptedPages'
    <3>1. \A b \in Operators : saving'[b] # NoSave =>
            saving[b] # NoSave /\ saving'[b].kind = saving[b].kind /\ saving'[b].config = saving[b].config
      BY <1>2, PageGoesOn
    <3> SUFFICES ASSUME NEW b \in Operators, saving'[b] # NoSave PROVE Accepts(saving[b])'
      BY DEF AcceptedPages, Saving
    <3> QED BY <3>1 DEF AcceptedPages, Saving, Accepts
  <2> QED BY <1>2, <2>2, <2>3, <2>4, PageGoesOn DEF StoreConfig, ProvidersTypeOK
<1>3. ASSUME NEW a \in Operators, ChangeMap(a)
      PROVE  ProvidersTypeOK' /\ AcceptedPages'
  <2>1. /\ saving[a] # NoSave /\ saving[a] \in SavePage /\ Accepts(saving[a])
        /\ saving[a].name \in ProviderNames /\ saving[a].on \in Managers
    BY <1>3, PageFields DEF ChangeMap, SavingAt, AcceptedPages, Saving
  <2>2. MapEntry(saving[a]) \in Buildable \union {NoConfig}
    BY <2>1, MapEntryType
  <2>3. dnsProviders' \in [Managers -> [ProviderNames -> Buildable \union {NoConfig}]]
    BY <1>3, <2>1, <2>2 DEF ChangeMap, ProvidersTypeOK
  <2>4. excused' \subseteq Managers \X ProviderNames
    BY <1>3, <2>1 DEF ChangeMap, ProvidersTypeOK
  <2>5. saving' \in [Operators -> SavePage \union {NoSave}] /\ AcceptedPages'
    BY <1>3 DEF ChangeMap, ProvidersTypeOK, AcceptedPages, Saving
  <2> QED BY <1>3, <2>3, <2>4, <2>5 DEF ChangeMap, ProvidersTypeOK
<1>4. ASSUME NEW m \in Managers, RestartManager(m)
      PROVE  ProvidersTypeOK' /\ AcceptedPages'
  <2>1. \/ dnsProviders' = [dnsProviders EXCEPT ![m] = [n \in ProviderNames |-> NewProvider(dnsConfigs[n])]]
        \/ dnsProviders' = [dnsProviders EXCEPT ![m] =
               [n \in ProviderNames |-> NewProvider([k \in ProviderNames |-> NoConfig][n])]]
    BY <1>4 DEF RestartManager
  <2>2. dnsProviders' \in [Managers -> [ProviderNames -> Buildable \union {NoConfig}]]
    BY <2>1, NewProviderType DEF ProvidersTypeOK
  <2>3. excused' \subseteq Managers \X ProviderNames
    <3>1. excused' \subseteq excused \union ({m} \X ProviderNames)
      BY <1>4 DEF RestartManager
    <3> QED BY <3>1 DEF ProvidersTypeOK
  <2>4. saving' \in [Operators -> SavePage \union {NoSave}] /\ AcceptedPages'
    BY <1>4 DEF RestartManager, ProvidersTypeOK, AcceptedPages, Saving
  <2>5. starts' \in Nat
    BY <1>4 DEF RestartManager, ProvidersTypeOK
  <2> QED BY <1>4, <2>2, <2>3, <2>4, <2>5 DEF RestartManager, ProvidersTypeOK
<1> QED BY <1>1, <1>2, <1>3, <1>4 DEF ProvidersNext

-----------------------------------------------------------------------------
(* The steps.                                                              *)

\* A page that begins has not stored anything; if another one of the name is under
\* way, every instance is excused.
LEMMA BeginSaveInv ==
    ASSUME ProvidersTypeOK, ProvidersInv, NEW a \in Operators, a \notin Saving,
           NEW page \in SavePage, BeginSave(a, page)
    PROVE  OverlapsExcused' /\ StoreIsPage' /\ MapFollows'
<1>1. /\ saving' = [saving EXCEPT ![a] = page] /\ page.at = "store"
      /\ UNCHANGED <<dnsConfigs, dnsProviders>> /\ excused \subseteq excused'
      /\ \A b \in Saving : saving[b].name = page.name => Managers \X {page.name} \subseteq excused'
  BY DEF BeginSave
<1>2. saving[a] = NoSave
  BY DEF Saving
<1>3. saving'[a] = page /\ \A b \in Operators : b # a => saving'[b] = saving[b]
  BY <1>1 DEF ProvidersTypeOK
<1>4. \A b \in Operators : b # a /\ saving'[b] # NoSave => b \in Saving /\ saving'[b] = saving[b]
  BY <1>3 DEF Saving
<1>5. OverlapsExcused'
  <2> SUFFICES ASSUME NEW b \in Operators, NEW c \in Operators, saving'[b] # NoSave, saving'[c] # NoSave,
                      b # c, saving'[b].name = saving'[c].name
               PROVE  Managers \X {saving'[b].name} \subseteq excused'
    BY DEF OverlapsExcused, Saving
  <2> QED BY <1>1, <1>3, <1>4 DEF ProvidersInv, OverlapsExcused
<1>6. StoreIsPage'
  <2> SUFFICES ASSUME NEW b \in Operators, saving'[b] # NoSave, saving'[b].at = "map",
                      <<saving'[b].on, saving'[b].name>> \notin excused'
               PROVE  dnsConfigs'[saving'[b].name] = saving'[b].config
    BY DEF StoreIsPage, Saving
  <2>1. b # a
    BY <1>1, <1>3
  <2> QED BY <2>1, <1>1, <1>4 DEF ProvidersInv, StoreIsPage
<1>7. MapFollows'
  <2> SUFFICES ASSUME NEW m \in Managers, NEW n \in ProviderNames, <<m, n>> \notin excused', ~MapPending(m, n)'
               PROVE  dnsProviders'[m][n] = NewProvider(dnsConfigs'[n])
    BY DEF MapFollows, NewProvider
  <2>1. ~MapPending(m, n)
    BY <1>2, <1>3 DEF MapPending, Saving
  <2> QED BY <2>1, <1>1 DEF ProvidersInv, MapFollows
<1> QED BY <1>5, <1>6, <1>7

\* A page stores its configuration: the other instances are excused, its own is about
\* to follow.  A write that fails excuses its own.
LEMMA StoreConfigInv ==
    ASSUME ProvidersTypeOK, ProvidersInv, NEW a \in Operators, StoreConfig(a)
    PROVE  OverlapsExcused' /\ StoreIsPage' /\ MapFollows'
<1> DEFINE n == saving[a].name
           m == saving[a].on
<1>1. /\ a \in Saving /\ saving[a].at = "store" /\ n \in ProviderNames /\ m \in Managers
      /\ excused \subseteq excused' /\ dnsProviders' = dnsProviders
  BY PageFields, PageGoesOn DEF StoreConfig, Saving
<1>2. /\ \A b \in Operators : saving'[b] # NoSave => b \in Saving
      /\ \A b \in Operators : b # a => saving'[b] = saving[b]
      /\ saving'[a] # NoSave /\ saving'[a].at = "map" /\ saving'[a].name = n
      /\ saving'[a].on = m /\ saving'[a].config = saving[a].config
  BY <1>1, PageGoesOn DEF Saving
<1>3. \/ /\ dnsConfigs' = [dnsConfigs EXCEPT ![n] = saving[a].config]
         /\ excused' = excused \union ((Managers \ {m}) \X {n})
      \/ dnsConfigs' = dnsConfigs /\ <<m, n>> \in excused'
  BY DEF StoreConfig
<1> HIDE DEF n, m
<1>4. OverlapsExcused'
  <2> SUFFICES ASSUME NEW b \in Operators, NEW c \in Operators, saving'[b] # NoSave, saving'[c] # NoSave,
                      b # c, saving'[b].name = saving'[c].name
               PROVE  Managers \X {saving'[b].name} \subseteq excused'
    BY DEF OverlapsExcused, Saving
  <2>1. b \in Saving /\ c \in Saving /\ saving[b].name = saving'[b].name /\ saving[c].name = saving'[c].name
    BY <1>1, <1>2 DEF n
  <2> QED BY <2>1, <1>1 DEF ProvidersInv, OverlapsExcused
<1>5. StoreIsPage'
  <2> SUFFICES ASSUME NEW b \in Operators, saving'[b] # NoSave, saving'[b].at = "map",
                      <<saving'[b].on, saving'[b].name>> \notin excused'
               PROVE  dnsConfigs'[saving'[b].name] = saving'[b].config
    BY DEF StoreIsPage, Saving
  <2>1. CASE b = a
    BY <2>1, <1>1, <1>2, <1>3 DEF ProvidersTypeOK
  <2>2. CASE b # a
    <3>1. /\ b \in Saving /\ saving'[b] = saving[b] /\ saving[b].on \in Managers
          /\ saving[b].name \in ProviderNames
      BY <2>2, <1>2, PageFields DEF Saving
    <3>2. saving[b].name # n
      <4>1. saving[b].name = n => Managers \X {saving[b].name} \subseteq excused
        BY <1>1, <2>2, <3>1 DEF ProvidersInv, OverlapsExcused, n
      <4> QED BY <4>1, <3>1, <1>1
    <3>3. dnsConfigs[saving[b].name] = saving[b].config
      BY <3>1, <1>1 DEF ProvidersInv, StoreIsPage
    <3> QED BY <3>1, <3>2, <3>3, <1>1, <1>3 DEF ProvidersTypeOK
  <2> QED BY <2>1, <2>2
<1>6. MapFollows'
  <2> SUFFICES ASSUME NEW k \in Managers, NEW l \in ProviderNames, <<k, l>> \notin excused', ~MapPending(k, l)'
               PROVE  dnsProviders'[k][l] = NewProvider(dnsConfigs'[l])
    BY DEF MapFollows, NewProvider
  <2>1. ~(k = m /\ l = n)
    BY <1>2 DEF MapPending, Saving
  <2>2. ~MapPending(k, l)
    BY <1>1, <1>2 DEF MapPending, Saving
  <2>3. dnsProviders[k][l] = NewProvider(dnsConfigs[l])
    BY <2>2, <1>1 DEF ProvidersInv, MapFollows
  <2>4. dnsConfigs'[l] = dnsConfigs[l]
    BY <2>1, <1>1, <1>3 DEF ProvidersTypeOK
  <2> QED BY <2>3, <2>4, <1>1
<1> QED BY <1>4, <1>5, <1>6

\* A page changes the map: to what the store holds, or it is excused because the old
\* provider stays.
LEMMA ChangeMapInv ==
    ASSUME ProvidersTypeOK, ProvidersInv, NEW a \in Operators, ChangeMap(a)
    PROVE  OverlapsExcused' /\ StoreIsPage' /\ MapFollows'
<1> DEFINE n == saving[a].name
           m == saving[a].on
           config == saving[a].config
<1>1. /\ a \in Saving /\ saving[a].at = "map" /\ n \in ProviderNames /\ m \in Managers
      /\ excused \subseteq excused' /\ dnsConfigs' = dnsConfigs
      /\ Accepts(saving[a])
  BY PageFields DEF ChangeMap, SavingAt, Saving, ProvidersInv, AcceptedPages
<1>2. \A b \in Operators : saving'[b] # NoSave => b # a /\ b \in Saving /\ saving'[b] = saving[b]
  BY DEF ChangeMap, ProvidersTypeOK, Saving
<1>3. NewProvider(config) # config => <<m, n>> \in excused'
  BY DEF ChangeMap
<1>4. NewProvider(config) = config => MapEntry(saving[a]) = config
  <2>1. config = NoConfig => saving[a].kind = "delete"
    BY <1>1, PageFields DEF Accepts, Saving, SavePage, NoConfig, Buildable
  <2> QED BY <2>1 DEF MapEntry
<1>5. dnsProviders' = [dnsProviders EXCEPT ![m][n] = MapEntry(saving[a])]
  BY DEF ChangeMap
<1>6. OverlapsExcused'
  <2> SUFFICES ASSUME NEW b \in Operators, NEW c \in Operators, saving'[b] # NoSave, saving'[c] # NoSave,
                      b # c, saving'[b].name = saving'[c].name
               PROVE  Managers \X {saving'[b].name} \subseteq excused'
    BY DEF OverlapsExcused, Saving
  <2> HIDE DEF n, m, config
  <2> QED BY <1>1, <1>2 DEF ProvidersInv, OverlapsExcused
<1>7. StoreIsPage'
  <2> SUFFICES ASSUME NEW b \in Operators, saving'[b] # NoSave, saving'[b].at = "map",
                      <<saving'[b].on, saving'[b].name>> \notin excused'
               PROVE  dnsConfigs'[saving'[b].name] = saving'[b].config
    BY DEF StoreIsPage, Saving
  <2> HIDE DEF n, m, config
  <2> QED BY <1>1, <1>2 DEF ProvidersInv, StoreIsPage
<1>8. MapFollows'
  <2> SUFFICES ASSUME NEW k \in Managers, NEW l \in ProviderNames, <<k, l>> \notin excused', ~MapPending(k, l)'
               PROVE  dnsProviders'[k][l] = NewProvider(dnsConfigs'[l])
    BY DEF MapFollows, NewProvider
  <2>1. CASE k = m /\ l = n
    <3>1. dnsConfigs[n] = config
      BY <1>1, <2>1 DEF ProvidersInv, StoreIsPage
    <3>2. dnsProviders'[m][n] = config
      <4> HIDE DEF n, m, config
      <4> QED BY <1>1, <1>3, <1>4, <1>5, <2>1 DEF ProvidersTypeOK
    <3> QED BY <1>1, <1>3, <2>1, <3>1, <3>2
  <2>2. CASE ~(k = m /\ l = n)
    <3>1. ~MapPending(k, l)
      <4> SUFFICES ASSUME NEW b \in Saving, saving[b].on = k, saving[b].name = l, saving[b].at = "map"
                   PROVE  FALSE
        BY DEF MapPending
      <4>1. b # a /\ b \in Operators
        BY <2>2 DEF Saving
      <4>2. saving'[b] = saving[b] /\ saving'[b] # NoSave
        BY <4>1 DEF ChangeMap, ProvidersTypeOK, Saving
      <4> QED BY <4>1, <4>2 DEF MapPending, Saving
    <3>2. dnsProviders[k][l] = NewProvider(dnsConfigs[l])
      BY <3>1, <1>1 DEF ProvidersInv, MapFollows
    <3>3. dnsProviders'[k][l] = dnsProviders[k][l]
      <4> HIDE DEF n, m, config
      <4> QED BY <1>1, <1>5, <2>2 DEF ProvidersTypeOK
    <3> QED BY <3>2, <3>3, <1>1
  <2> QED BY <2>1, <2>2
<1> QED BY <1>6, <1>7, <1>8

\* An instance starts: what was left half done on it is cut off, its map is built from
\* the store, and it is excused only of what other instances' pages will still change.
LEMMA RestartInv ==
    ASSUME ProvidersTypeOK, ProvidersInv, NEW m \in Managers, RestartManager(m)
    PROVE  OverlapsExcused' /\ StoreIsPage' /\ MapFollows'
<1>1. /\ \A b \in Operators : saving'[b] # NoSave =>
            b \in Saving /\ saving'[b] = saving[b] /\ saving[b].on # m
      /\ \A b \in Saving : saving[b].on # m => saving'[b] = saving[b]
      /\ dnsConfigs' = dnsConfigs
  BY DEF RestartManager, Saving
<1>2. \A e \in excused : e[1] # m \/ (\E b \in Saving : saving[b].on # m /\ saving[b].name = e[2])
        => e \in excused'
  BY DEF RestartManager
<1>3. \A n \in ProviderNames : <<m, n>> \notin excused' =>
        dnsProviders'[m][n] = NewProvider(dnsConfigs[n])
  <2> SUFFICES ASSUME NEW n \in ProviderNames, <<m, n>> \notin excused'
               PROVE  dnsProviders'[m][n] = NewProvider(dnsConfigs[n])
    OBVIOUS
  <2>1. <<m, n>> \in {m} \X ProviderNames
    OBVIOUS
  <2>2. dnsProviders' = [dnsProviders EXCEPT ![m] = [k \in ProviderNames |-> NewProvider(dnsConfigs[k])]]
    BY <2>1 DEF RestartManager
  <2> QED BY <2>2 DEF ProvidersTypeOK
<1>4. \A k \in Managers : k # m => dnsProviders'[k] = dnsProviders[k]
  BY DEF RestartManager, ProvidersTypeOK
<1>5. \A k \in Managers, n \in ProviderNames : k # m /\ <<k, n>> \in excused => <<k, n>> \in excused'
  BY <1>2
<1>6. OverlapsExcused'
  <2> SUFFICES ASSUME NEW b \in Operators, NEW c \in Operators, saving'[b] # NoSave, saving'[c] # NoSave,
                      b # c, saving'[b].name = saving'[c].name,
                      NEW k \in Managers
               PROVE  <<k, saving'[b].name>> \in excused'
    BY DEF OverlapsExcused, Saving
  <2>1. b \in Saving /\ c \in Saving /\ saving[b].name = saving[c].name /\ saving[b].on # m
        /\ saving'[b].name = saving[b].name
    BY <1>1
  <2>2. <<k, saving[b].name>> \in excused
    BY <2>1 DEF ProvidersInv, OverlapsExcused
  <2> QED BY <2>1, <2>2, <1>2
<1>7. StoreIsPage'
  <2> SUFFICES ASSUME NEW b \in Operators, saving'[b] # NoSave, saving'[b].at = "map",
                      <<saving'[b].on, saving'[b].name>> \notin excused'
               PROVE  dnsConfigs'[saving'[b].name] = saving'[b].config
    BY DEF StoreIsPage, Saving
  <2>1. b \in Saving /\ saving'[b] = saving[b] /\ saving[b].on # m
        /\ saving[b].on \in Managers /\ saving[b].name \in ProviderNames
    BY <1>1, PageFields DEF Saving
  <2>2. <<saving[b].on, saving[b].name>> \notin excused
    BY <2>1, <1>5
  <2> QED BY <2>1, <2>2, <1>1 DEF ProvidersInv, StoreIsPage
<1>8. MapFollows'
  <2> SUFFICES ASSUME NEW k \in Managers, NEW l \in ProviderNames, <<k, l>> \notin excused', ~MapPending(k, l)'
               PROVE  dnsProviders'[k][l] = NewProvider(dnsConfigs'[l])
    BY DEF MapFollows, NewProvider
  <2>1. CASE k = m
    BY <2>1, <1>1, <1>3
  <2>2. CASE k # m
    <3>1. ~MapPending(k, l)
      BY <2>2, <1>1 DEF MapPending, Saving
    <3> QED BY <2>2, <3>1, <1>1, <1>4, <1>5 DEF ProvidersInv, MapFollows
  <2> QED BY <2>1, <2>2
<1> QED BY <1>6, <1>7, <1>8

-----------------------------------------------------------------------------
(* The theorems.                                                           *)

\* The types and the invariant hold in every state.
THEOREM ProvidersInvariant == ProvidersSpec => [](ProvidersTypeOK /\ ProvidersInv)
<1>1. ProvidersInit => ProvidersTypeOK /\ ProvidersInv
  <2> SUFFICES ASSUME ProvidersInit PROVE ProvidersTypeOK /\ ProvidersInv
    OBVIOUS
  <2>1. ProvidersTypeOK
    BY DEF ProvidersInit, ProvidersTypeOK
  <2>2. Saving = {}
    BY DEF ProvidersInit, Saving
  <2>3. MapFollows
    BY DEF ProvidersInit, MapFollows, NewProvider, NoConfig, Buildable
  <2> QED BY <2>1, <2>2, <2>3 DEF ProvidersInv, AcceptedPages, OverlapsExcused, StoreIsPage
<1>2. ProvidersTypeOK /\ ProvidersInv /\ [ProvidersNext]_providerVars => ProvidersTypeOK' /\ ProvidersInv'
  <2> SUFFICES ASSUME ProvidersTypeOK, ProvidersInv, [ProvidersNext]_providerVars
               PROVE  ProvidersTypeOK' /\ ProvidersInv'
    OBVIOUS
  <2>1. CASE ProvidersNext
    <3>1. ProvidersTypeOK' /\ AcceptedPages'
      BY <2>1, ProvidersTypes DEF ProvidersInv
    <3>2. ASSUME NEW a \in FreeOperator, NEW page \in SavePage, BeginSave(a, page)
          PROVE  OverlapsExcused' /\ StoreIsPage' /\ MapFollows'
      BY <3>2, FreeOperatorIsFree, BeginSaveInv
    <3>3. OverlapsExcused' /\ StoreIsPage' /\ MapFollows'
      BY <2>1, <3>2, StoreConfigInv, ChangeMapInv, RestartInv DEF ProvidersNext
    <3> QED BY <3>1, <3>3 DEF ProvidersInv
  <2>2. CASE UNCHANGED providerVars
    <3>1. UNCHANGED <<providerFaults, dnsConfigs, dnsProviders, saving, saves, starts, excused>>
      BY <2>2 DEF providerVars
    <3>2. ProvidersTypeOK'
      BY <3>1 DEF ProvidersTypeOK
    <3>3. AcceptedPages' /\ OverlapsExcused' /\ StoreIsPage' /\ MapFollows'
      BY <3>1 DEF ProvidersInv, AcceptedPages, OverlapsExcused, StoreIsPage, MapFollows, MapPending,
                  Saving, Accepts, NewProvider
    <3> QED BY <3>2, <3>3 DEF ProvidersInv
  <2> QED BY <2>1, <2>2
<1> QED BY <1>1, <1>2, PTL DEF ProvidersSpec

\* An instance's provider of a name is the one the stored configuration describes,
\* except for the reasons named in excused.
THEOREM ProvidersAgree == ProvidersSpec => []ProvidersFollowConfigs
<1>1. ProvidersInv => ProvidersFollowConfigs
  BY DEF ProvidersInv, MapFollows, MapPending, ProvidersFollowConfigs
<1> QED BY <1>1, ProvidersInvariant, PTL
=============================================================================
