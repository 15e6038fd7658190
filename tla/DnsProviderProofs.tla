-------------------------- MODULE DnsProviderProofs --------------------------
(***************************************************************************)
(* Proofs about DnsProvider, for any number of calls and values and with   *)
(* every fault.                                                            *)
(***************************************************************************)
EXTENDS DnsProvider, FiniteSetTheorems, TLAPS

Records == [id : Ids, value : Values]

\* The part of TypeOK that the record set needs.
Types ==
    /\ records \subseteq Records
    /\ pc \in [Callers -> {"idle", "read", "write", "ok", "error"}]
    /\ op \in [Callers -> AllOperations]
    /\ arg \in [Callers -> SUBSET Values]
    /\ sets \in [Callers -> SUBSET Values]

\* Only three methods read a record set, and what a method other than
\* DeleteRecord is going to write is not empty.
WritesSomething ==
    \A c \in Callers :
        /\ pc[c] = "read" => op[c] \in {"add", "remove", "delete"}
        /\ pc[c] = "write" /\ op[c] # "delete" => sets[c] # {}

\* The inductive invariant behind EmptiedOnlyByDelete.
WriteInv == provider \in RecordSets => Types /\ WritesSomething

\* Record sets hold the values they are given.
LEMMA AsRecordsType ==
    ASSUME NEW by \in Callers \union {NoCaller}, NEW vals \in SUBSET Values
    PROVE  /\ AsRecords(by, vals) \subseteq Records
           /\ ValuesOf(AsRecords(by, vals)) = vals
<1>1. \A v \in vals : [id |-> <<by, v>>, value |-> v] \in Records
  BY DEF Records, Ids
<1>2. \A v : [id |-> <<by, v>>, value |-> v].value = v
  OBVIOUS
<1> QED BY <1>1, <1>2 DEF AsRecords, ValuesOf

\* What is computed from a record set to be written is not empty, unless the
\* record set is to be deleted.
LEMMA ComputeStep ==
    ASSUME Types, NEW c \in Callers, NEW seen \in SUBSET Values, Compute(c, seen),
           op[c] \in {"add", "remove", "delete"}
    PROVE  \/ UNCHANGED sets /\ \E l \in {"ok", "error"} : pc' = [pc EXCEPT ![c] = l]
           \/ /\ pc' = [pc EXCEPT ![c] = "write"]
              /\ \E s \in SUBSET Values : /\ sets' = [sets EXCEPT ![c] = s]
                                          /\ op[c] # "delete" => s # {}
<1>1. arg[c] \in SUBSET Values
  BY DEF Types
<1>2. \A l : End(c, l) => UNCHANGED sets /\ pc' = [pc EXCEPT ![c] = l]
  BY DEF End, Goto, workVars
<1>3. \A s : Prepare(c, s, {}, {}) =>
               pc' = [pc EXCEPT ![c] = "write"] /\ sets' = [sets EXCEPT ![c] = s]
  BY DEF Prepare, Goto
<1>4. CASE op[c] = "add"
  <2>1. IF arg[c] \subseteq seen THEN End(c, "ok") ELSE Prepare(c, seen \union arg[c], {}, {})
    BY <1>4 DEF Compute
  <2>2. seen \union arg[c] \in SUBSET Values /\ (~(arg[c] \subseteq seen) => seen \union arg[c] # {})
    BY <1>1
  <2> QED BY <1>2, <1>3, <2>1, <2>2
<1>5. CASE op[c] = "remove"
  <2>1. IF ~(arg[c] \subseteq seen) THEN End(c, "ok")
        ELSE IF seen = arg[c] THEN End(c, "error") ELSE Prepare(c, seen \ arg[c], {}, {})
    BY <1>5 DEF Compute
  <2>2. seen \ arg[c] \in SUBSET Values
        /\ (arg[c] \subseteq seen /\ seen # arg[c] => seen \ arg[c] # {})
    <3>1. arg[c] \subseteq seen /\ seen # arg[c] => \E v \in seen : v \notin arg[c]
      OBVIOUS
    <3> QED BY <3>1
  <2> QED BY <1>2, <1>3, <2>1, <2>2
<1>6. CASE op[c] = "delete"
  <2>1. IF seen = {} THEN End(c, "ok") ELSE Prepare(c, seen, {}, {})
    BY <1>6 DEF Compute
  <2> QED BY <1>2, <1>3, <1>6, <2>1
<1> QED BY <1>4, <1>5, <1>6

\* A call starts with a read for the methods that need one, and with values to
\* write for UpdateRecord and UpdateRecordValues.
LEMMA CallStep ==
    ASSUME WriteInv, provider \in RecordSets, NEW c \in Callers, NEW o \in Operations,
           NEW vals \in Arguments(o), Call(c, o, vals)
    PROVE  (Types /\ WritesSomething)'
<1>1. Types /\ WritesSomething
  BY DEF WriteInv
<1>2. o \in AllOperations /\ vals \in SUBSET Values
  BY DnsAssumption DEF Arguments
<1>3. o \in {"update", "add", "remove"} => vals # {}
  BY DEF Arguments
<1>4. /\ op' = [op EXCEPT ![c] = o]
      /\ arg' = [arg EXCEPT ![c] = vals]
      /\ records' = records
  BY DEF Call
<1>5. \/ /\ sets' = sets
         /\ \/ pc' = [pc EXCEPT ![c] = "ok"]
            \/ pc' = [pc EXCEPT ![c] = "read"] /\ o \in {"add", "remove", "delete"}
      \/ /\ sets' = [sets EXCEPT ![c] = vals]
         /\ pc' = [pc EXCEPT ![c] = "write"]
         /\ o # "delete" => vals # {}
  <2>1. CASE o = "values" /\ vals = {}
    BY <2>1 DEF Call, End, Goto, workVars
  <2>2. CASE ~(o = "values" /\ vals = {}) /\ NeedsRead(o)
    BY <2>2 DEF Call, End, Goto, workVars, NeedsRead, RecordSets
  <2>3. CASE ~(o = "values" /\ vals = {}) /\ ~NeedsRead(o)
    <3>1. Prepare(c, vals, {}, {})
      BY <2>3 DEF Call
    <3> QED BY <2>3, <3>1, <1>2, <1>3 DEF Prepare, Goto, AllOperations
  <2> QED BY <2>1, <2>2, <2>3
<1>6. Types'
  BY <1>1, <1>2, <1>4, <1>5 DEF Types
<1>7. WritesSomething'
  BY <1>1, <1>4, <1>5 DEF Types, WritesSomething
<1> QED BY <1>6, <1>7

LEMMA ReadStep ==
    ASSUME WriteInv, provider \in RecordSets, NEW c \in Callers, ReadSet(c)
    PROVE  (Types /\ WritesSomething)'
<1>1. Types /\ WritesSomething
  BY DEF WriteInv
<1>2. pc[c] = "read" /\ op' = op /\ arg' = arg /\ records' = records
  BY DEF ReadSet, callVars
<1>3. op[c] \in {"add", "remove", "delete"}
  BY <1>1, <1>2 DEF WritesSomething
<1>4. Contents \in SUBSET Values /\ {} \in SUBSET Values
  BY <1>1 DEF Types, Contents, ValuesOf, Records
<1>5. \/ UNCHANGED sets /\ \E l \in {"ok", "error"} : pc' = [pc EXCEPT ![c] = l]
      \/ /\ pc' = [pc EXCEPT ![c] = "write"]
         /\ \E s \in SUBSET Values : /\ sets' = [sets EXCEPT ![c] = s]
                                     /\ op[c] # "delete" => s # {}
  <2>1. CASE Compute(c, Contents)
    BY <1>1, <1>3, <1>4, <2>1, ComputeStep
  <2>2. CASE Compute(c, {})
    BY <1>1, <1>3, <1>4, <2>2, ComputeStep
  <2>3. CASE End(c, "error")
    BY <2>3 DEF End, Goto, workVars
  <2> QED BY <2>1, <2>2, <2>3 DEF ReadSet
<1>6. Types'
  BY <1>1, <1>2, <1>5 DEF Types
<1>7. WritesSomething'
  BY <1>1, <1>2, <1>5 DEF Types, WritesSomething
<1> QED BY <1>6, <1>7

\* A write ends the call and leaves the record set as it was, or with the values
\* of the call, or deleted.
LEMMA WriteSetStep ==
    ASSUME WriteInv, provider \in RecordSets, NEW c \in Callers, WriteSet(c)
    PROVE  /\ (Types /\ WritesSomething)'
           /\ pc[c] = "write" /\ pc'[c] # "write"
           /\ \/ records' = records
              \/ op[c] = "delete"
              \/ Contents' # {}
<1>1. Types /\ WritesSomething
  BY DEF WriteInv
<1>2. /\ pc[c] = "write" /\ op' = op /\ arg' = arg /\ sets' = sets
      /\ \E l \in {"ok", "error"} : pc' = [pc EXCEPT ![c] = l]
  BY DEF WriteSet, End, Goto, workVars, callVars
<1>3. \/ records' = records
      \/ records' = IF op[c] = "delete" THEN {} ELSE AsRecords(NoCaller, sets[c])
  BY DEF WriteSet
<1>4. sets[c] \in SUBSET Values
  BY <1>1 DEF Types
<1>5. /\ AsRecords(NoCaller, sets[c]) \subseteq Records
      /\ ValuesOf(AsRecords(NoCaller, sets[c])) = sets[c]
  BY <1>4, AsRecordsType
<1>6. Types'
  BY <1>1, <1>2, <1>3, <1>5 DEF Types
<1>7. WritesSomething'
  BY <1>1, <1>2 DEF Types, WritesSomething
<1>8. op[c] # "delete" => sets[c] # {}
  BY <1>1, <1>2 DEF WritesSomething
<1>9. records' = records \/ op[c] = "delete" \/ Contents' # {}
  BY <1>3, <1>5, <1>8 DEF Contents
<1>10. pc'[c] # "write"
  BY <1>1, <1>2 DEF Types
<1> QED BY <1>2, <1>6, <1>7, <1>9, <1>10

\* The steps that a record set sees.
LEMMA RecordSetSteps ==
    ASSUME provider \in RecordSets, Next
    PROVE  \/ \E c \in Callers : \E o \in Operations : \E vals \in Arguments(o) : Call(c, o, vals)
           \/ \E c \in Callers : ReadSet(c) \/ WriteSet(c)
<1>1. provider # "cloudflare" /\ provider # "restapi"
  BY DEF RecordSets
<1>2. \A c \in Callers :
        ~(ListRecords(c) \/ ChangeRecord(c) \/ DeleteRecord(c) \/ NewRecord(c) \/ Return(c))
  BY <1>1 DEF ListRecords, ChangeRecord, DeleteRecord, NewRecord, Return
<1>3. \A c \in Callers : ~callEndpoint(c)
  BY <1>1 DEF callEndpoint
<1> QED BY <1>2, <1>3 DEF Next

LEMMA WriteInit == Init => WriteInv
<1> SUFFICES ASSUME Init, provider \in RecordSets
             PROVE  Types /\ WritesSomething
  BY DEF WriteInv
<1>1. PICK vals \in SUBSET Values : records = AsRecords(NoCaller, vals)
  BY DEF Init
<1>2. records \subseteq Records
  BY <1>1, AsRecordsType
<1>3. Types
  BY <1>2 DEF Init, Types, AllOperations
<1>4. WritesSomething
  BY DEF Init, WritesSomething
<1> QED BY <1>3, <1>4

LEMMA WriteInvStep == WriteInv /\ [Next]_vars => WriteInv'
<1> SUFFICES ASSUME WriteInv, [Next]_vars
             PROVE  WriteInv'
  OBVIOUS
<1>1. CASE UNCHANGED vars
  BY <1>1 DEF WriteInv, Types, WritesSomething, vars, callVars, workVars
<1>2. CASE Next
  <2>1. provider' = provider
    BY <1>2 DEF Next, Call, ReadSet, WriteSet, ListRecords, ChangeRecord, DeleteRecord, NewRecord,
                Return, callEndpoint
  <2>2. ASSUME provider \in RecordSets
        PROVE  (Types /\ WritesSomething)'
    BY <1>2, <2>2, RecordSetSteps, CallStep, ReadStep, WriteSetStep
  <2> QED BY <2>1, <2>2 DEF WriteInv
<1> QED BY <1>1, <1>2

\* A name that resolves goes on resolving until DeleteRecord is called: with
\* Route53 and Azure no other method empties a record set, whatever calls
\* interleave and whichever of their API calls fail.
THEOREM RecordSetKept == Spec => EmptiedOnlyByDelete
<1>1. WriteInv /\ [Next]_vars => [NotEmptied]_vars
  <2> SUFFICES ASSUME WriteInv, Next, provider \in RecordSets, Contents # {}, Contents' = {}
               PROVE  \E c \in Callers : op[c] = "delete" /\ pc[c] = "write" /\ pc'[c] # "write"
    BY DEF NotEmptied
  <2>1. records' # records
    BY DEF Contents, ValuesOf
  <2>2. PICK c \in Callers : WriteSet(c)
    BY <2>1, RecordSetSteps DEF Call, ReadSet
  <2> QED BY <2>1, <2>2, WriteSetStep
<1> QED BY <1>1, WriteInit, WriteInvStep, PTL DEF Spec, EmptiedOnlyByDelete

-----------------------------------------------------------------------------
(***************************************************************************)
(* Types of all four providers.  That Cloudflare's ids stay unique needs   *)
(* what IdsFresh says: a call has not yet used the ids of the records it   *)
(* is still to create.                                                     *)
(***************************************************************************)

Unique(recs) == \A q, r \in recs : q.id = r.id => q = r

IdsFresh ==
    \A c \in Callers : \A r \in records :
        /\ pc[c] \in {"idle", "read"} => \A v \in Values : r.id # <<c, v>>
        /\ pc[c] = "write" => \A v \in sets[c] : r.id # <<c, v>>

\* The values a method is called with, and which method changes a record in place.
ArgumentsFit ==
    \A c \in Callers :
        /\ pc[c] # "idle" => arg[c] \in Arguments(op[c])
        /\ changes[c] # {} => pc[c] # "idle" /\ op[c] = "update"

CallTypes ==
    /\ pc \in [Callers -> {"idle", "read", "write", "ok", "error"}]
    /\ op \in [Callers -> AllOperations]
    /\ arg \in [Callers -> SUBSET Values]
    /\ sets \in [Callers -> SUBSET Values]
    /\ changes \in [Callers -> SUBSET Ids]
    /\ deletes \in [Callers -> SUBSET Ids]
    /\ before \in [Callers -> SUBSET Records]
    /\ alone \in [Callers -> BOOLEAN]

Parameters ==
    provider \in Providers /\ endpoints \subseteq {"update", "multi", "delete"} /\ faults \in FaultSets

TypeInv == /\ Parameters /\ records \subseteq Records /\ Unique(records)
           /\ CallTypes /\ IdsFresh /\ ArgumentsFit

LEMMA TypeInvIsType == TypeInv => TypeOK
BY DEF TypeInv, Parameters, Unique, CallTypes, Records, TypeOK

LEMMA RecordFields ==
    ASSUME NEW q \in Records, NEW r \in Records
    PROVE  /\ q.id \in Ids /\ q.value \in Values
           /\ q.id = r.id /\ q.value = r.value => q = r
BY DEF Records

\* A record set has one record per value, none with an id of a caller's.
LEMMA AsRecordsUnique ==
    ASSUME NEW by \in Callers \union {NoCaller}, NEW vals \in SUBSET Values
    PROVE  /\ Unique(AsRecords(by, vals))
           /\ \A r \in AsRecords(by, vals) : \E v \in vals : r.id = <<by, v>> /\ r.value = v
<1>1. \A r \in AsRecords(by, vals) : \E v \in vals : r.id = <<by, v>> /\ r.value = v
  BY DEF AsRecords
<1>2. ASSUME NEW q \in AsRecords(by, vals), NEW r \in AsRecords(by, vals), q.id = r.id
      PROVE  q = r
  <2>1. q \in Records /\ r \in Records
    BY AsRecordsType
  <2>2. q.value = r.value
    BY <1>1, <1>2
  <2> QED BY <1>2, <2>1, <2>2, RecordFields
<1> QED BY <1>1, <1>2 DEF Unique

\* Every call changes its own work only.
Works(c, label, s, ch, d) ==
    /\ pc' = [pc EXCEPT ![c] = label]
    /\ sets' = [sets EXCEPT ![c] = s]
    /\ changes' = [changes EXCEPT ![c] = ch]
    /\ deletes' = [deletes EXCEPT ![c] = d]

LEMMA WorkSteps ==
    ASSUME CallTypes, NEW c \in Callers
    PROVE  /\ \A label : End(c, label) => Works(c, label, sets[c], changes[c], deletes[c])
           /\ \A s, ch, d : Prepare(c, s, ch, d) => Works(c, "write", s, ch, d)
           /\ pc[c] = "write" =>
                /\ \A i : changes' = Drop(changes, c, i) /\ UNCHANGED <<pc, sets, deletes>>
                            => Works(c, "write", sets[c], changes[c] \ {i}, deletes[c])
                /\ \A i : deletes' = Drop(deletes, c, i) /\ UNCHANGED <<pc, sets, changes>>
                            => Works(c, "write", sets[c], changes[c], deletes[c] \ {i})
                /\ \A v : sets' = Drop(sets, c, v) /\ UNCHANGED <<pc, changes, deletes>>
                            => Works(c, "write", sets[c] \ {v}, changes[c], deletes[c])
BY DEF CallTypes, End, Goto, workVars, Prepare, Drop, Works

\* What is left to show of a step of a call under way: the types of its own work, and
\* that the records keep unique ids, which are old ones, nobody's, or its own.
LEMMA TypesWork ==
    ASSUME TypeInv, NEW c \in Callers, pc[c] \in {"read", "write"},
           UNCHANGED <<provider, endpoints, faults, callVars>>,
           NEW label \in {"write", "ok", "error"},
           NEW s \in SUBSET Values, NEW ch \in SUBSET Ids, NEW d \in SUBSET Ids,
           Works(c, label, s, ch, d),
           ch # {} => op[c] = "update",
           records' \subseteq Records, Unique(records'),
           \A r \in records' : \/ \E q \in records : q.id = r.id
                               \/ \E v \in Values : r.id = <<NoCaller, v>>
                               \/ \E v \in Values : r.id = <<c, v>>,
           label = "write" => \A r \in records' : \A v \in s : r.id # <<c, v>>
    PROVE  TypeInv'
<1>1. CallTypes /\ Parameters /\ IdsFresh /\ ArgumentsFit
  BY DEF TypeInv
<1>2. CallTypes' /\ Parameters'
  BY <1>1 DEF CallTypes, Parameters, callVars, Works
<1>3. ArgumentsFit'
  <2>1. \A e \in Callers : /\ arg'[e] = arg[e] /\ op'[e] = op[e]
                           /\ pc'[e] # "idle" => pc[e] # "idle"
                           /\ e # c => changes'[e] = changes[e] /\ pc'[e] = pc[e]
                           /\ e = c => changes'[e] = ch /\ pc'[e] = label
    BY <1>1 DEF CallTypes, callVars, Works
  <2>2. \A o : Arguments(o)' = Arguments(o)
    BY DEF Arguments
  <2> QED BY <1>1, <2>1, <2>2 DEF ArgumentsFit
<1>4. IdsFresh'
  <2> SUFFICES ASSUME NEW e \in Callers, NEW r \in records'
               PROVE  /\ pc'[e] \in {"idle", "read"} => \A v \in Values : r.id # <<e, v>>
                      /\ pc'[e] = "write" => \A v \in sets'[e] : r.id # <<e, v>>
    BY DEF IdsFresh
  <2>1. CASE e = c
    BY <1>1, <2>1 DEF CallTypes, Works
  <2>2. CASE e # c
    <3>1. pc'[e] = pc[e] /\ sets'[e] = sets[e] /\ e # NoCaller
      BY <1>1, <2>2, DnsAssumption DEF CallTypes, Works
    <3>2. CASE \E q \in records : q.id = r.id
      BY <1>1, <3>1, <3>2 DEF IdsFresh
    <3>3. CASE \E v \in Values : r.id = <<NoCaller, v>> \/ r.id = <<c, v>>
      BY <2>2, <3>1, <3>3
    <3> QED BY <3>2, <3>3
  <2> QED BY <2>1, <2>2
<1> QED BY <1>2, <1>3, <1>4 DEF TypeInv

\* A call begins with fresh ids and no record to change in place.
LEMMA TypesCall ==
    ASSUME TypeInv, NEW c \in Callers, NEW o \in Operations,
           NEW vals \in Arguments(o), Call(c, o, vals)
    PROVE  TypeInv'
<1>1. CallTypes /\ Parameters /\ IdsFresh /\ ArgumentsFit /\ records \subseteq Records /\ Unique(records)
  BY DEF TypeInv
<1>2. o \in AllOperations /\ vals \in SUBSET Values
  BY DnsAssumption DEF Arguments
<1>3. /\ pc[c] = "idle"
      /\ op' = [op EXCEPT ![c] = o]
      /\ arg' = [arg EXCEPT ![c] = vals]
      /\ before' = [before EXCEPT ![c] = records]
      /\ alone' = [d \in Callers |-> d = c /\ Active = {}]
      /\ UNCHANGED <<provider, endpoints, faults, records>>
  BY DEF Call
<1>4. changes[c] = {}
  BY <1>1, <1>3 DEF ArgumentsFit
<1>5. \E label \in {"read", "write", "ok"} : \E s \in SUBSET Values : \E d \in SUBSET Ids :
        Works(c, label, s, {}, d)
  <2>1. sets[c] \in SUBSET Values /\ deletes[c] \in SUBSET Ids
    BY <1>1 DEF CallTypes
  <2>2. CASE End(c, "ok")
    <3>1. Works(c, "ok", sets[c], {}, deletes[c])
      BY <1>1, <1>4, <2>2, WorkSteps
    <3> QED BY <2>1, <3>1
  <2>3. CASE End(c, "read")
    <3>1. Works(c, "read", sets[c], {}, deletes[c])
      BY <1>1, <1>4, <2>3, WorkSteps
    <3> QED BY <2>1, <3>1
  <2>4. CASE Prepare(c, vals, {}, {})
    <3>1. Works(c, "write", vals, {}, {})
      BY <1>1, <2>4, WorkSteps
    <3> QED BY <1>2, <3>1
  <2> QED BY <2>2, <2>3, <2>4 DEF Call
<1>6. PICK label \in {"read", "write", "ok"}, s \in SUBSET Values, d \in SUBSET Ids :
        Works(c, label, s, {}, d)
  BY <1>5
<1>7. CallTypes'
  BY <1>1, <1>2, <1>3, <1>6 DEF CallTypes, Works
<1>8. Parameters'
  BY <1>1, <1>3 DEF Parameters
<1>9. ArgumentsFit'
  <2>1. \A x : Arguments(x)' = Arguments(x)
    BY DEF Arguments
  <2>2. \A e \in Callers :
           /\ e # c => arg'[e] = arg[e] /\ op'[e] = op[e] /\ pc'[e] = pc[e] /\ changes'[e] = changes[e]
           /\ e = c => arg'[e] = vals /\ op'[e] = o /\ changes'[e] = {}
    BY <1>1, <1>3, <1>6 DEF CallTypes, Works
  <2> QED BY <1>1, <2>1, <2>2 DEF ArgumentsFit
<1>10. IdsFresh'
  <2>1. \A e \in Callers :
           /\ e # c => pc'[e] = pc[e] /\ sets'[e] = sets[e]
           /\ e = c => sets'[e] \subseteq Values
    BY <1>1, <1>6 DEF CallTypes, Works
  <2> QED BY <1>1, <1>3, <2>1 DEF IdsFresh
<1> QED BY <1>1, <1>3, <1>7, <1>8, <1>9, <1>10 DEF TypeInv, Unique

\* Steps that leave the records alone and make no new work but from values of the
\* call and ids of records.
LEMMA TypesNoWrite ==
    ASSUME TypeInv, NEW c \in Callers, pc[c] \in {"read", "write"},
           UNCHANGED <<provider, endpoints, faults, records, callVars>>,
           NEW label \in {"write", "ok", "error"},
           NEW s \in SUBSET Values, NEW ch \in SUBSET Ids, NEW d \in SUBSET Ids,
           Works(c, label, s, ch, d),
           ch # {} => op[c] = "update",
           pc[c] = "write" => s \subseteq sets[c]
    PROVE  TypeInv'
<1>1. CallTypes /\ IdsFresh /\ records \subseteq Records /\ Unique(records)
  BY DEF TypeInv
<1>2. records' \subseteq Records /\ Unique(records') /\ records' = records
  BY <1>1
<1>3. \A r \in records' : \E q \in records : q.id = r.id
  BY <1>2
<1>4. \A r \in records' : \A v \in s : r.id # <<c, v>>
  BY <1>1, <1>2 DEF IdsFresh
<1> QED BY <1>2, <1>3, <1>4, TypesWork

\* Steps that end a call without touching the records.
LEMMA TypesEnd ==
    ASSUME TypeInv, NEW c \in Callers, pc[c] \in {"read", "write"}, NEW label \in {"ok", "error"},
           End(c, label), UNCHANGED <<provider, endpoints, faults, records, callVars>>
    PROVE  TypeInv'
<1>1. CallTypes /\ ArgumentsFit
  BY DEF TypeInv
<1>2. /\ Works(c, label, sets[c], changes[c], deletes[c])
      /\ sets[c] \in SUBSET Values /\ changes[c] \in SUBSET Ids /\ deletes[c] \in SUBSET Ids
      /\ changes[c] # {} => op[c] = "update"
  BY <1>1, WorkSteps DEF CallTypes, ArgumentsFit
<1> QED BY <1>2, TypesNoWrite

\* Steps that prepare the writes of a call after its read.
LEMMA TypesPrepare ==
    ASSUME TypeInv, NEW c \in Callers, pc[c] = "read",
           NEW s \in SUBSET Values, NEW ch \in SUBSET Ids, NEW d \in SUBSET Ids,
           Prepare(c, s, ch, d), ch # {} => op[c] = "update",
           UNCHANGED <<provider, endpoints, faults, records, callVars>>
    PROVE  TypeInv'
<1>1. Works(c, "write", s, ch, d)
  BY WorkSteps DEF TypeInv
<1> QED BY <1>1, TypesNoWrite

LEMMA TypesReadSet ==
    ASSUME TypeInv, WriteInv, NEW c \in Callers, ReadSet(c)
    PROVE  TypeInv'
<1>1. /\ provider \in RecordSets /\ pc[c] = "read"
      /\ UNCHANGED <<provider, endpoints, faults, records, callVars>>
  BY DEF ReadSet
<1>2. op[c] \in {"add", "remove", "delete"}
  BY <1>1 DEF WriteInv, WritesSomething
<1>3. Contents \in SUBSET Values /\ {} \in SUBSET Values /\ arg[c] \in SUBSET Values
  BY DEF TypeInv, Contents, ValuesOf, Records, CallTypes
<1>4. ASSUME NEW seen \in SUBSET Values, Compute(c, seen)
      PROVE  End(c, "ok") \/ End(c, "error") \/ \E s \in SUBSET Values : Prepare(c, s, {}, {})
  <2>1. CASE op[c] = "add"
    <3>1. IF arg[c] \subseteq seen THEN End(c, "ok") ELSE Prepare(c, seen \union arg[c], {}, {})
      BY <1>4, <2>1 DEF Compute
    <3>2. seen \union arg[c] \in SUBSET Values
      BY <1>3
    <3> QED BY <3>1, <3>2
  <2>2. CASE op[c] = "remove"
    <3>1. IF ~(arg[c] \subseteq seen) THEN End(c, "ok")
          ELSE IF seen = arg[c] THEN End(c, "error") ELSE Prepare(c, seen \ arg[c], {}, {})
      BY <1>4, <2>2 DEF Compute
    <3>2. seen \ arg[c] \in SUBSET Values
      OBVIOUS
    <3> QED BY <3>1, <3>2
  <2>3. CASE op[c] = "delete"
    BY <1>4, <2>3 DEF Compute
  <2> QED BY <1>2, <2>1, <2>2, <2>3
<1>5. End(c, "ok") \/ End(c, "error") \/ \E s \in SUBSET Values : Prepare(c, s, {}, {})
  BY <1>3, <1>4 DEF ReadSet
<1>6. CASE End(c, "ok") \/ End(c, "error")
  BY <1>1, <1>6, TypesEnd
<1>7. CASE \E s \in SUBSET Values : Prepare(c, s, {}, {})
  <2>1. PICK s \in SUBSET Values : Prepare(c, s, {}, {})
    BY <1>7
  <2>2. {} \in SUBSET Ids
    OBVIOUS
  <2> QED BY <1>1, <2>1, <2>2, TypesPrepare
<1> QED BY <1>5, <1>6, <1>7

\* A record set that is replaced or emptied.
LEMMA TypesReplace ==
    ASSUME TypeInv, NEW c \in Callers, pc[c] = "write", NEW vals \in SUBSET Values,
           records' = AsRecords(NoCaller, vals),
           NEW label \in {"ok", "error"}, End(c, label),
           UNCHANGED <<provider, endpoints, faults, callVars>>
    PROVE  TypeInv'
<1>1. CallTypes /\ ArgumentsFit
  BY DEF TypeInv
<1>2. /\ Works(c, label, sets[c], changes[c], deletes[c])
      /\ sets[c] \in SUBSET Values /\ changes[c] \in SUBSET Ids /\ deletes[c] \in SUBSET Ids
      /\ changes[c] # {} => op[c] = "update"
  BY <1>1, WorkSteps DEF CallTypes, ArgumentsFit
<1>3. records' \subseteq Records /\ Unique(records')
  BY AsRecordsType, AsRecordsUnique
<1>4. \A r \in records' : \E v \in Values : r.id = <<NoCaller, v>>
  BY AsRecordsUnique
<1> QED BY <1>2, <1>3, <1>4, TypesWork

LEMMA TypesWriteSet ==
    ASSUME TypeInv, NEW c \in Callers, WriteSet(c)
    PROVE  TypeInv'
<1>1. pc[c] = "write" /\ UNCHANGED <<provider, endpoints, faults, callVars>>
  BY DEF WriteSet
<1>2. sets[c] \in SUBSET Values /\ {} \in SUBSET Values
  BY DEF TypeInv, CallTypes
<1>3. \E label \in {"ok", "error"} : End(c, label)
  BY DEF WriteSet
<1>4. \/ records' = records
      \/ \E vals \in SUBSET Values : records' = AsRecords(NoCaller, vals)
  <2>1. AsRecords(NoCaller, {}) = {}
    BY DEF AsRecords
  <2> QED BY <1>2, <2>1 DEF WriteSet
<1>5. CASE records' = records
  BY <1>1, <1>3, <1>5, TypesEnd
<1>6. CASE \E vals \in SUBSET Values : records' = AsRecords(NoCaller, vals)
  BY <1>1, <1>3, <1>6, TypesReplace
<1> QED BY <1>4, <1>5, <1>6

LEMMA TypesEndpoint ==
    ASSUME TypeInv, NEW c \in Callers, callEndpoint(c)
    PROVE  TypeInv'
<1>1. pc[c] = "write" /\ UNCHANGED <<provider, endpoints, faults, callVars>>
  BY DEF callEndpoint
<1>2. sets[c] \in SUBSET Values /\ Contents \in SUBSET Values
  BY DEF TypeInv, CallTypes, Contents, ValuesOf, Records
<1>3. \E label \in {"ok", "error"} : End(c, label)
  BY DEF callEndpoint
<1>4. CASE records' = records
  BY <1>1, <1>3, <1>4, TypesEnd
<1>5. CASE Endpoint(op[c]) \notin {"none", "skip"}
           /\ \E vals \in EndpointResult(c) : records' = AsRecords(NoCaller, vals)
  <2>1. PICK vals \in EndpointResult(c) : records' = AsRecords(NoCaller, vals)
    BY <1>5
  <2>2. Endpoint(op[c]) \in {"multi", "update", "delete"}
    BY <1>5 DEF Endpoint
  <2>3. vals \in SUBSET Values
    <3>1. CASE Endpoint(op[c]) = "multi"
      BY <1>2, <3>1, <2>1 DEF EndpointResult
    <3>2. CASE Endpoint(op[c]) = "update"
      BY <1>2, <3>2, <2>1 DEF EndpointResult
    <3>3. CASE Endpoint(op[c]) = "delete"
      BY <1>2, <3>3, <2>1 DEF EndpointResult
    <3> QED BY <2>2, <3>1, <3>2, <3>3
  <2> QED BY <1>1, <1>3, <2>1, <2>3, TypesReplace
<1> QED BY <1>4, <1>5 DEF callEndpoint

LEMMA TypesListRecords ==
    ASSUME TypeInv, NEW c \in Callers, ListRecords(c)
    PROVE  TypeInv'
<1> DEFINE listed == {r.id : r \in records}
           holding == {r.id : r \in {q \in records : q.value \in arg[c]}}
<1>1. pc[c] = "read" /\ UNCHANGED <<provider, endpoints, faults, records, callVars>>
  BY DEF ListRecords
<1>2. listed \subseteq Ids /\ holding \subseteq listed
  BY RecordFields DEF TypeInv
<1>3. arg[c] \in SUBSET Values /\ {} \in SUBSET Values /\ {} \in SUBSET Ids
  BY DEF TypeInv, CallTypes
<1>4. \/ \E label \in {"ok", "error"} : End(c, label)
      \/ \E s \in SUBSET Values : \E ch \in SUBSET Ids : \E d \in SUBSET Ids :
            Prepare(c, s, ch, d) /\ (ch # {} => op[c] = "update")
  <2>1. CASE op[c] = "update" /\ listed = {} /\ Prepare(c, arg[c], {}, {})
    BY <1>3, <2>1
  <2>2. CASE op[c] = "update" /\ \E first \in listed : Prepare(c, {}, {first}, listed \ {first})
    <3>1. PICK first \in listed : Prepare(c, {}, {first}, listed \ {first})
      BY <2>2
    <3>2. {first} \in SUBSET Ids /\ listed \ {first} \in SUBSET Ids
      BY <1>2
    <3> QED BY <1>3, <2>2, <3>1, <3>2
  <2>3. CASE op[c] = "values" /\ Prepare(c, arg[c], {}, listed)
    BY <1>2, <1>3, <2>3
  <2>4. CASE op[c] = "add" /\ IF holding # {} THEN End(c, "ok") ELSE Prepare(c, arg[c], {}, {})
    BY <1>3, <2>4
  <2>5. CASE op[c] = "remove"
             /\ IF holding = {} THEN End(c, "ok")
                ELSE IF Cardinality(listed) = 1 THEN End(c, "error")
                ELSE \E target \in holding : Prepare(c, {}, {}, {target})
    <3>1. CASE \E target \in holding : Prepare(c, {}, {}, {target})
      <4>1. PICK target \in holding : Prepare(c, {}, {}, {target})
        BY <3>1
      <4>2. {target} \in SUBSET Ids
        BY <1>2
      <4> QED BY <1>3, <4>1, <4>2
    <3> QED BY <2>5, <3>1
  <2>6. CASE op[c] = "delete" /\ Prepare(c, {}, {}, listed)
    BY <1>2, <1>3, <2>6
  <2>7. CASE End(c, "error")
    BY <2>7
  <2> QED BY <2>1, <2>2, <2>3, <2>4, <2>5, <2>6, <2>7 DEF ListRecords
<1>5. CASE \E label \in {"ok", "error"} : End(c, label)
  BY <1>1, <1>5, TypesEnd
<1>6. CASE \E s \in SUBSET Values : \E ch \in SUBSET Ids : \E d \in SUBSET Ids :
            Prepare(c, s, ch, d) /\ (ch # {} => op[c] = "update")
  BY <1>1, <1>6, TypesPrepare
<1> QED BY <1>4, <1>5, <1>6

\* The record that is changed in place keeps its id; UpdateRecord has one value.
LEMMA TypesChangeRecord ==
    ASSUME TypeInv, NEW c \in Callers, ChangeRecord(c)
    PROVE  TypeInv'
<1>1. /\ pc[c] = "write" /\ UNCHANGED <<provider, endpoints, faults, callVars>>
      /\ sets[c] \in SUBSET Values /\ changes[c] \in SUBSET Ids /\ deletes[c] \in SUBSET Ids
      /\ CallTypes /\ ArgumentsFit /\ IdsFresh /\ records \subseteq Records /\ Unique(records)
  BY DEF ChangeRecord, TypeInv, CallTypes
<1>2. PICK i \in changes[c] :
        \/ /\ \E r \in records :
                /\ r.id = i
                /\ records' = (records \ {r}) \union {[r EXCEPT !.value = v] : v \in arg[c]}
           /\ \/ changes' = Drop(changes, c, i) /\ UNCHANGED <<pc, sets, deletes>>
              \/ "write" \in faults /\ End(c, "error")
        \/ /\ "write" \in faults \/ \A r \in records : r.id # i
           /\ End(c, "error") /\ UNCHANGED records
  BY DEF ChangeRecord
<1>3. op[c] = "update"
  BY <1>1, <1>2 DEF ArgumentsFit
<1>4. PICK w \in Values : arg[c] = {w}
  BY <1>1, <1>3 DEF ArgumentsFit, Arguments
<1>5. PICK label \in {"write", "error"}, ch \in SUBSET Ids :
        Works(c, label, sets[c], ch, deletes[c])
  <2>1. CASE changes' = Drop(changes, c, i) /\ UNCHANGED <<pc, sets, deletes>>
    <3>1. Works(c, "write", sets[c], changes[c] \ {i}, deletes[c])
      BY <1>1, <2>1, WorkSteps
    <3>2. changes[c] \ {i} \in SUBSET Ids
      BY <1>1
    <3> QED BY <3>1, <3>2
  <2>2. CASE End(c, "error")
    <3>1. Works(c, "error", sets[c], changes[c], deletes[c])
      BY <1>1, <2>2, WorkSteps
    <3> QED BY <1>1, <3>1
  <2> QED BY <1>2, <2>1, <2>2
<1>6. CASE records' = records
  BY <1>1, <1>3, <1>5, <1>6, TypesNoWrite
<1>7. CASE \E r \in records :
                records' = (records \ {r}) \union {[r EXCEPT !.value = v] : v \in arg[c]}
  <2>1. PICK r \in records :
                records' = (records \ {r}) \union {[r EXCEPT !.value = v] : v \in arg[c]}
    BY <1>7
  <2>2. PICK n : n = [r EXCEPT !.value = w]
    OBVIOUS
  <2>3. r \in Records
    BY <1>1
  <2>4. n \in Records /\ n.id = r.id /\ n.value = w
    BY <2>2, <2>3 DEF Records
  <2>5. records' = (records \ {r}) \union {n}
    BY <1>4, <2>1, <2>2
  <2>6. records' \subseteq Records
    BY <1>1, <2>4, <2>5
  <2>7. Unique(records')
    BY <1>1, <2>4, <2>5 DEF Unique
  <2>8. \A q \in records' : \E p \in records : p.id = q.id
    BY <2>4, <2>5
  <2>9. \A q \in records' : \A v \in sets[c] : q.id # <<c, v>>
    BY <1>1, <2>8 DEF IdsFresh
  <2> QED BY ZenonT(60), <1>1, <1>3, <1>5, <2>6, <2>7, <2>8, <2>9, TypesWork
<1> QED BY <1>2, <1>6, <1>7

LEMMA TypesDeleteRecord ==
    ASSUME TypeInv, NEW c \in Callers, DeleteRecord(c)
    PROVE  TypeInv'
<1>1. /\ pc[c] = "write" /\ UNCHANGED <<provider, endpoints, faults, callVars>>
      /\ sets[c] \in SUBSET Values /\ changes[c] \in SUBSET Ids /\ deletes[c] \in SUBSET Ids
      /\ CallTypes /\ ArgumentsFit /\ IdsFresh /\ records \subseteq Records /\ Unique(records)
      /\ changes[c] = {}
  BY DEF DeleteRecord, TypeInv, CallTypes
<1>2. PICK i \in deletes[c] :
        \/ deletes' = Drop(deletes, c, i) /\ UNCHANGED <<pc, sets, changes>>
        \/ End(c, "error")
  BY DEF DeleteRecord
<1>3. PICK label \in {"write", "error"}, d \in SUBSET Ids :
        Works(c, label, sets[c], changes[c], d)
  <2>1. CASE deletes' = Drop(deletes, c, i) /\ UNCHANGED <<pc, sets, changes>>
    <3>1. Works(c, "write", sets[c], changes[c], deletes[c] \ {i})
      BY <1>1, <2>1, WorkSteps
    <3>2. deletes[c] \ {i} \in SUBSET Ids
      BY <1>1
    <3> QED BY <3>1, <3>2
  <2>2. CASE End(c, "error")
    <3>1. Works(c, "error", sets[c], changes[c], deletes[c])
      BY <1>1, <2>2, WorkSteps
    <3> QED BY <1>1, <3>1
  <2> QED BY <1>2, <2>1, <2>2
<1>4. records' \subseteq records
  BY DEF DeleteRecord
<1>5. records' \subseteq Records /\ Unique(records') /\ \A r \in records' : \E q \in records : q.id = r.id
  BY <1>1, <1>4 DEF Unique
<1>6. \A q \in records' : \A v \in sets[c] : q.id # <<c, v>>
  BY <1>1, <1>4 DEF IdsFresh
<1> QED BY ZenonT(60), <1>1, <1>3, <1>5, <1>6, TypesWork

\* The id of a new record is fresh, and not used again.
LEMMA TypesNewRecord ==
    ASSUME TypeInv, NEW c \in Callers, NewRecord(c)
    PROVE  TypeInv'
<1>1. /\ pc[c] = "write" /\ UNCHANGED <<provider, endpoints, faults, callVars>>
      /\ sets[c] \in SUBSET Values /\ changes[c] \in SUBSET Ids /\ deletes[c] \in SUBSET Ids
      /\ CallTypes /\ ArgumentsFit /\ IdsFresh /\ records \subseteq Records /\ Unique(records)
      /\ changes[c] = {}
  BY DEF NewRecord, TypeInv, CallTypes
<1>2. PICK v \in sets[c] :
        \/ /\ records' = records \union AsRecords(c, {v})
           /\ \/ sets' = Drop(sets, c, v) /\ UNCHANGED <<pc, changes, deletes>>
              \/ "write" \in faults /\ End(c, "error")
        \/ "write" \in faults /\ End(c, "error") /\ UNCHANGED records
  BY DEF NewRecord
<1>3. CASE End(c, "error") /\ records' = records
  BY <1>1, <1>3, TypesEnd
<1>4. CASE /\ records' = records \union AsRecords(c, {v})
           /\ \/ sets' = Drop(sets, c, v) /\ UNCHANGED <<pc, changes, deletes>>
              \/ End(c, "error")
  <2>1. /\ AsRecords(c, {v}) \subseteq Records
        /\ Unique(AsRecords(c, {v}))
        /\ \A r \in AsRecords(c, {v}) : r.id = <<c, v>>
    BY <1>1, AsRecordsType, AsRecordsUnique
  <2>2. \A q \in records : q.id # <<c, v>>
    BY <1>1 DEF IdsFresh
  <2>3. records' \subseteq Records /\ Unique(records')
    BY <1>1, <1>4, <2>1, <2>2 DEF Unique
  <2>4. \A r \in records' : (\E q \in records : q.id = r.id) \/ \E w \in Values : r.id = <<c, w>>
    BY <1>1, <1>4, <2>1
  <2>5. CASE sets' = Drop(sets, c, v) /\ UNCHANGED <<pc, changes, deletes>>
    <3>1. Works(c, "write", sets[c] \ {v}, changes[c], deletes[c])
      BY <1>1, <2>5, WorkSteps
    <3>2. sets[c] \ {v} \in SUBSET Values
      BY <1>1
    <3>3. \A q \in records' : \A w \in sets[c] \ {v} : q.id # <<c, w>>
      <4>1. \A q \in records : \A w \in sets[c] : q.id # <<c, w>>
        BY <1>1 DEF IdsFresh
      <4>2. \A q \in AsRecords(c, {v}) : \A w \in sets[c] \ {v} : q.id # <<c, w>>
        BY <2>1, \A w : <<c, w>> = <<c, v>> => w = v
      <4> QED BY <1>4, <4>1, <4>2
    <3> QED BY <1>1, <2>3, <2>4, <3>1, <3>2, <3>3, TypesWork
  <2>6. CASE End(c, "error")
    <3>1. Works(c, "error", sets[c], changes[c], deletes[c])
      BY <1>1, <2>6, WorkSteps
    <3> QED BY <1>1, <2>3, <2>4, <3>1, TypesWork
  <2> QED BY <1>4, <2>5, <2>6
<1> QED BY <1>2, <1>3, <1>4

LEMMA TypesReturn ==
    ASSUME TypeInv, NEW c \in Callers, Return(c)
    PROVE  TypeInv'
BY TypesEnd DEF Return

LEMMA TypesInit == Init => TypeInv
<1> SUFFICES ASSUME Init
             PROVE  TypeInv
  OBVIOUS
<1>1. PICK vals \in SUBSET Values : records = AsRecords(NoCaller, vals)
  BY DEF Init
<1>2. records \subseteq Records /\ Unique(records)
  BY <1>1, AsRecordsType, AsRecordsUnique
<1>3. \A r \in records : \E v \in Values : r.id = <<NoCaller, v>>
  BY <1>1, AsRecordsUnique
<1>4. Parameters
  BY DEF Init, Parameters
<1>5. CallTypes
  BY DEF Init, CallTypes, AllOperations
<1>6. IdsFresh
  <2>1. \A c \in Callers : pc[c] = "idle"
    BY DEF Init
  <2>2. \A c \in Callers : \A r \in records : \A v \in Values : r.id # <<c, v>>
    BY <1>3, DnsAssumption
  <2> QED BY <2>1, <2>2 DEF IdsFresh
<1>7. ArgumentsFit
  BY DEF Init, ArgumentsFit
<1> QED BY <1>2, <1>4, <1>5, <1>6, <1>7 DEF TypeInv

\* A step is a call, or an action of one call.
LEMMA TypesStep == TypeInv /\ WriteInv /\ [Next]_vars => TypeInv'
<1> SUFFICES ASSUME TypeInv, WriteInv, [Next]_vars
             PROVE  TypeInv'
  OBVIOUS
<1>1. CASE UNCHANGED vars
  BY <1>1 DEF TypeInv, Parameters, Unique, CallTypes, IdsFresh, ArgumentsFit, Arguments,
              vars, callVars, workVars
<1>2. CASE Next
  BY <1>2, TypesCall, TypesReadSet, TypesWriteSet, TypesListRecords, TypesChangeRecord,
     TypesDeleteRecord, TypesNewRecord, TypesReturn, TypesEndpoint DEF Next
<1> QED BY <1>1, <1>2

\* Records keep unique ids, whatever calls interleave: Cloudflare's change in place
\* and deletion by id hit one record, though two of them may hold the same value.
THEOREM DnsTypesKept == Spec => []TypeOK
<1>1. TypeInv => TypeOK
  BY TypeInvIsType
<1> QED BY <1>1, WriteInit, WriteInvStep, TypesInit, TypesStep, PTL DEF Spec

-----------------------------------------------------------------------------
(***************************************************************************)
(* A call that is alone with the name.  AloneInv says at every stage of it *)
(* how the records relate to those it found and to the work left, so that  *)
(* its end is what AgreesWithInterface and SuccessIsDone ask for.          *)
(***************************************************************************)

\* A record set is still as it was found, and what is to be written is right.
SetReady(c, recs, s) ==
    /\ recs = before[c]
    /\ op[c] \in {"update", "values"} => s = arg[c]
    /\ op[c] = "add" =>
        arg[c] \subseteq s /\ (faults = {} => s = ValuesOf(recs) \union arg[c])
    /\ op[c] = "remove" =>
        s = ValuesOf(recs) \ arg[c] /\ arg[c] \subseteq ValuesOf(recs) /\ ValuesOf(recs) # arg[c]
    /\ op[c] = "delete" /\ provider = "route53" => s = ValuesOf(recs)

\* UpdateRecord, UpdateRecordValues and DeleteRecord of Cloudflare: the values are
\* there to stay or still to be created, and every other record is still to go.
Replacing(c, recs, s, ch, d) ==
    op[c] \in {"update", "values", "delete"} =>
        /\ ch = {} => \A v \in arg[c] : v \in s \/ \E r \in recs : r.value = v /\ r.id \notin d
        /\ faults = {} => \A r \in recs : r.value \in arg[c] \/ r.id \in d \union ch

Adding(c, recs, s, d) ==
    op[c] = "add" =>
        /\ d = {}
        /\ \A v \in arg[c] : v \in s \/ v \in ValuesOf(recs)
        /\ ValuesOf(before[c]) \subseteq ValuesOf(recs)
        /\ ValuesOf(recs) \subseteq ValuesOf(before[c]) \union arg[c]

\* Without values held twice the record to go is the only one with its value.
Removing(c, recs, s, d) ==
    op[c] = "remove" =>
        /\ s = {}
        /\ Distinct(before[c]) =>
            /\ \A r \in recs : r.value \in arg[c] <=> r.id \in d
            /\ ValuesOf(before[c]) \ arg[c] \subseteq ValuesOf(recs)
            /\ ValuesOf(recs) \subseteq ValuesOf(before[c])
            /\ ValuesOf(before[c]) # arg[c]

RecordsReady(c, recs, s, ch, d) ==
    /\ s \subseteq arg[c]
    /\ \A i \in ch \union d : \E r \in recs : r.id = i
    /\ ch \intersect d = {} /\ (\A i, j \in ch : i = j)
    /\ Replacing(c, recs, s, ch, d) /\ Adding(c, recs, s, d) /\ Removing(c, recs, s, d)

\* What the two properties ask for at the end of a call.
Succeeds(c, recs) ==
    /\ op[c] \in {"update", "add"} => arg[c] \subseteq ValuesOf(recs)
    /\ op[c] = "values" /\ provider # "restapi" => arg[c] \subseteq ValuesOf(recs)
    /\ op[c] = "remove" /\ provider \in {"route53", "cloudflare"} /\ Distinct(before[c])
         => arg[c] \intersect ValuesOf(recs) = {}

Agrees(c, recs, label) ==
    faults = {} /\ provider # "restapi" /\ Distinct(before[c]) =>
        /\ ValuesOf(recs) = Specified(op[c], arg[c], ValuesOf(before[c]))
        /\ label = "error" <=> op[c] = "remove" /\ ValuesOf(before[c]) = arg[c]

Stage(c, recs, label, s, ch, d) ==
    /\ label \in {"read", "write"} /\ op[c] = "values" => arg[c] # {}
    /\ label = "read" => recs = before[c]
    /\ label = "write" =>
        /\ provider \in RecordSets => SetReady(c, recs, s)
        /\ provider = "restapi" => s = arg[c]
        /\ provider = "cloudflare" => RecordsReady(c, recs, s, ch, d)
    /\ label = "ok" => Succeeds(c, recs)
    /\ label \in {"ok", "error"} => Agrees(c, recs, label)

AloneInv ==
    \A c \in Callers : alone[c] =>
        /\ Active \subseteq {c} /\ pc[c] # "idle"
        /\ Stage(c, records, pc[c], sets[c], changes[c], deletes[c])

LEMMA SpecifiedIs ==
    ASSUME NEW vals, NEW old
    PROVE  /\ Specified("update", vals, old) = vals
           /\ vals # {} => Specified("values", vals, old) = vals
           /\ vals = {} => Specified("values", vals, old) = old
           /\ Specified("add", vals, old) = old \union vals
           /\ old = vals => Specified("remove", vals, old) = old
           /\ old # vals => Specified("remove", vals, old) = old \ vals
           /\ Specified("delete", vals, old) = {}
BY DEF Specified

\* UpdateRecord, AddRecordValue and RemoveRecordValue have one value, DeleteRecord none.
LEMMA ArgumentForms ==
    ASSUME TypeInv, NEW c \in Callers, pc[c] # "idle"
    PROVE  /\ op[c] \in AllOperations /\ arg[c] \subseteq Values
           /\ op[c] \in {"update", "add", "remove"} => \E v \in Values : arg[c] = {v}
           /\ op[c] = "delete" => arg[c] = {}
<1>1. op[c] \in AllOperations /\ arg[c] \subseteq Values
  BY DEF TypeInv, CallTypes
<1>2. arg[c] \in Arguments(op[c])
  BY DEF TypeInv, ArgumentsFit
<1> QED BY <1>1, <1>2 DEF Arguments

\* While another call is under way no call is alone.
LEMMA NotAlone ==
    ASSUME AloneInv, NEW c \in Callers, pc[c] \in {"read", "write"}, ~alone[c], UNCHANGED alone
    PROVE  AloneInv'
<1>1. c \in Active
  BY DEF Active
<1>2. \A e \in Callers : ~alone[e]
  BY <1>1 DEF AloneInv
<1> QED BY <1>2 DEF AloneInv

\* What is left to show of a step of a call that is alone: the stage it comes to.
LEMMA AloneWork ==
    ASSUME AloneInv, CallTypes, NEW c \in Callers, pc[c] \in {"read", "write"}, alone[c],
           UNCHANGED <<provider, faults, callVars>>,
           NEW label \in {"write", "ok", "error"}, NEW s, NEW ch, NEW d,
           Works(c, label, s, ch, d), Stage(c, records', label, s, ch, d)
    PROVE  AloneInv'
<1>1. /\ pc'[c] = label /\ sets'[c] = s /\ changes'[c] = ch /\ deletes'[c] = d
      /\ \A e \in Callers : e # c => pc'[e] = pc[e]
  BY DEF CallTypes, Works
<1>2. c \in Active /\ alone' = alone
  BY DEF Active, callVars
<1>3. \A e \in Callers : alone[e] => e = c
  BY <1>2 DEF AloneInv
<1>4. Active' \subseteq {c} /\ pc'[c] # "idle"
  BY <1>1 DEF AloneInv, Active
<1>5. Stage(c, records', pc'[c], sets'[c], changes'[c], deletes'[c])
  BY <1>1
<1>6. Stage(c, records, pc[c], sets[c], changes[c], deletes[c])'
  BY <1>5 DEF Stage, SetReady, RecordsReady, Replacing, Adding, Removing, Succeeds, Agrees, callVars
<1> QED BY <1>2, <1>3, <1>4, <1>6 DEF AloneInv

LEMMA AloneEnd ==
    ASSUME AloneInv, CallTypes, NEW c \in Callers, pc[c] \in {"read", "write"}, alone[c],
           UNCHANGED <<provider, faults, callVars>>,
           NEW label \in {"ok", "error"}, End(c, label),
           label = "ok" => Succeeds(c, records'), Agrees(c, records', label)
    PROVE  AloneInv'
<1>1. Works(c, label, sets[c], changes[c], deletes[c])
  BY WorkSteps
<1>2. Stage(c, records', label, sets[c], changes[c], deletes[c])
  BY DEF Stage
<1> QED BY <1>1, <1>2, AloneWork

\* A step that goes on writing, or begins to.
LEMMA AloneWrite ==
    ASSUME AloneInv, CallTypes, NEW c \in Callers, pc[c] \in {"read", "write"}, alone[c],
           UNCHANGED <<provider, faults, callVars>>,
           NEW s, NEW ch, NEW d, Works(c, "write", s, ch, d),
           \/ provider \in RecordSets /\ SetReady(c, records', s)
           \/ provider = "cloudflare" /\ RecordsReady(c, records', s, ch, d)
    PROVE  AloneInv'
<1>1. Stage(c, records, pc[c], sets[c], changes[c], deletes[c])
  BY DEF AloneInv
<1>2. op[c] = "values" => arg[c] # {}
  BY <1>1 DEF Stage
<1>3. Stage(c, records', "write", s, ch, d)
  BY <1>2 DEF Stage, RecordSets
<1> QED BY <1>3, AloneWork

\* A call of which an API call may have failed may end as it likes.
LEMMA FaultyAgrees ==
    ASSUME faults # {}, NEW c, NEW recs, NEW label
    PROVE  Agrees(c, recs, label)
BY DEF Agrees

LEMMA AloneFault ==
    ASSUME AloneInv, CallTypes, NEW c \in Callers, pc[c] \in {"read", "write"}, alone[c],
           UNCHANGED <<provider, faults, callVars>>, faults # {}, End(c, "error")
    PROVE  AloneInv'
BY FaultyAgrees, AloneEnd

-----------------------------------------------------------------------------
(* Calls to a record set or a REST endpoint, alone.                        *)

LEMMA AloneCompute ==
    ASSUME AloneInv, TypeInv, NEW c \in Callers, pc[c] = "read", alone[c], provider \in RecordSets,
           op[c] \in {"add", "remove", "delete"},
           UNCHANGED <<provider, faults, records, callVars>>,
           NEW seen \in SUBSET Values, Compute(c, seen),
           seen = Contents \/ (seen = {} /\ provider = "azure" /\ faults # {})
    PROVE  AloneInv'
<1>1. CallTypes
  BY DEF TypeInv
<1>2. records = before[c] /\ Contents = ValuesOf(records) /\ records' = records
  BY DEF AloneInv, Stage, Contents
<1>3. provider # "restapi" /\ provider # "cloudflare"
  BY DEF RecordSets
<1>4. ASSUME NEW s, Prepare(c, s, {}, {}), SetReady(c, records, s)
      PROVE  AloneInv'
  <2>1. Works(c, "write", s, {}, {})
    BY <1>1, <1>4, WorkSteps
  <2>2. SetReady(c, records', s)
    BY <1>2, <1>4
  <2> QED BY <1>1, <2>1, <2>2, AloneWrite
<1>5. ASSUME NEW label \in {"ok", "error"}, End(c, label), label = "ok" => Succeeds(c, records),
             Agrees(c, records, label)
      PROVE  AloneInv'
  BY <1>1, <1>2, <1>5, AloneEnd
<1>6. CASE op[c] = "add"
  <2>1. IF arg[c] \subseteq seen THEN End(c, "ok") ELSE Prepare(c, seen \union arg[c], {}, {})
    BY <1>6 DEF Compute
  <2>2. PICK v \in Values : arg[c] = {v}
    BY <1>6, ArgumentForms
  <2>3. CASE arg[c] \subseteq seen
    <3>1. seen = Contents
      BY <2>2, <2>3
    <3>2. Succeeds(c, records)
      BY <1>2, <1>6, <2>3, <3>1 DEF Succeeds
    <3>3. ValuesOf(records) = ValuesOf(before[c]) \union arg[c]
      BY <1>2, <2>3, <3>1
    <3>4. Agrees(c, records, "ok")
      BY <1>6, <3>3, SpecifiedIs DEF Agrees
    <3> QED BY <1>5, <2>1, <2>3, <3>2, <3>4
  <2>4. CASE ~(arg[c] \subseteq seen)
    <3>1. SetReady(c, records, seen \union arg[c])
      BY <1>2, <1>6 DEF SetReady
    <3> QED BY <1>4, <2>1, <2>4, <3>1
  <2> QED BY <2>3, <2>4
<1>7. CASE op[c] = "remove"
  <2>1. IF ~(arg[c] \subseteq seen) THEN End(c, "ok")
        ELSE IF seen = arg[c] THEN End(c, "error") ELSE Prepare(c, seen \ arg[c], {}, {})
    BY <1>7 DEF Compute
  <2>2. PICK v \in Values : arg[c] = {v}
    BY <1>7, ArgumentForms
  <2>3. CASE ~(arg[c] \subseteq seen)
    <3>1. Succeeds(c, records)
      BY <1>2, <1>7, <2>2, <2>3 DEF Succeeds
    <3>2. Agrees(c, records, "ok")
      <4>1. CASE seen = Contents
        <5>1. ValuesOf(before[c]) # arg[c] /\ ValuesOf(records) = ValuesOf(before[c]) \ arg[c]
          BY <1>2, <2>2, <2>3, <4>1
        <5> QED BY <1>7, <5>1, SpecifiedIs DEF Agrees
      <4>2. CASE faults # {}
        BY <4>2, FaultyAgrees
      <4> QED BY <4>1, <4>2
    <3> QED BY <1>5, <2>1, <2>3, <3>1, <3>2
  <2>4. CASE arg[c] \subseteq seen /\ seen = arg[c]
    <3>1. seen = Contents
      BY <2>2, <2>4
    <3>2. ValuesOf(before[c]) = arg[c]
      BY <1>2, <2>4, <3>1
    <3>3. Agrees(c, records, "error")
      BY <1>2, <1>7, <3>2, SpecifiedIs DEF Agrees
    <3> QED BY <1>5, <2>1, <2>4, <3>3
  <2>5. CASE arg[c] \subseteq seen /\ seen # arg[c]
    <3>1. seen = Contents
      BY <2>2, <2>5
    <3>2. SetReady(c, records, seen \ arg[c])
      BY <1>2, <1>7, <2>5, <3>1 DEF SetReady
    <3> QED BY <1>4, <2>1, <2>5, <3>2
  <2> QED BY <2>3, <2>4, <2>5
<1>8. CASE op[c] = "delete"
  <2>1. IF seen = {} THEN End(c, "ok") ELSE Prepare(c, seen, {}, {})
    BY <1>8 DEF Compute
  <2>2. CASE seen = {}
    <3>1. Succeeds(c, records)
      BY <1>8 DEF Succeeds
    <3>2. Agrees(c, records, "ok")
      <4>1. seen = Contents => ValuesOf(records) = {}
        BY <1>2, <2>2
      <4>2. Specified(op[c], arg[c], ValuesOf(before[c])) = {}
        BY <1>8, SpecifiedIs
      <4>3. CASE seen = Contents
        BY <1>8, <4>1, <4>2, <4>3 DEF Agrees
      <4>4. CASE faults # {}
        BY <4>4, FaultyAgrees
      <4> QED BY <4>3, <4>4
    <3> QED BY <1>5, <2>1, <2>2, <3>1, <3>2
  <2>3. CASE seen # {}
    <3>1. SetReady(c, records, seen)
      BY <1>2, <1>8, <2>3 DEF SetReady
    <3> QED BY <1>4, <2>1, <2>3, <3>1
  <2> QED BY <2>2, <2>3
<1> QED BY <1>6, <1>7, <1>8

LEMMA AloneReadSet ==
    ASSUME AloneInv, TypeInv, WriteInv, NEW c \in Callers, ReadSet(c)
    PROVE  AloneInv'
<1>1. /\ provider \in RecordSets /\ pc[c] = "read"
      /\ UNCHANGED <<provider, faults, records, callVars>> /\ UNCHANGED alone
  BY DEF ReadSet, callVars
<1>2. CASE ~alone[c]
  BY <1>1, <1>2, NotAlone
<1>3. CASE alone[c]
  <2>1. op[c] \in {"add", "remove", "delete"}
    BY <1>1 DEF WriteInv, WritesSomething
  <2>2. Contents \in SUBSET Values /\ {} \in SUBSET Values /\ CallTypes
    BY DEF TypeInv, Contents, ValuesOf, Records, CallTypes
  <2>3. CASE Compute(c, Contents)
    BY <1>1, <1>3, <2>1, <2>2, <2>3, AloneCompute
  <2>4. CASE "read" \in faults /\ provider = "azure" /\ Compute(c, {})
    <3>1. faults # {}
      BY <2>4
    <3> QED BY <1>1, <1>3, <2>1, <2>2, <2>4, <3>1, AloneCompute
  <2>5. CASE "read" \in faults /\ End(c, "error")
    <3>1. faults # {}
      BY <2>5
    <3> QED BY <1>1, <1>3, <2>2, <2>5, <3>1, AloneFault
  <2> QED BY <2>3, <2>4, <2>5 DEF ReadSet
<1> QED BY <1>2, <1>3

LEMMA AloneWriteSet ==
    ASSUME AloneInv, TypeInv, NEW c \in Callers, WriteSet(c)
    PROVE  AloneInv'
<1>1. /\ provider \in RecordSets /\ pc[c] = "write"
      /\ UNCHANGED <<provider, faults, callVars>> /\ UNCHANGED alone
  BY DEF WriteSet, callVars
<1>2. CASE ~alone[c]
  BY <1>1, <1>2, NotAlone
<1>3. CASE alone[c]
  <2>1. SetReady(c, records, sets[c]) /\ (op[c] = "values" => arg[c] # {})
    BY <1>1, <1>3 DEF AloneInv, Stage
  <2>2. CallTypes /\ sets[c] \in SUBSET Values /\ op[c] \in AllOperations
    BY DEF TypeInv, CallTypes
  <2>3. \/ "write" \in faults /\ End(c, "error")
        \/ End(c, "ok") /\ records' = IF op[c] = "delete" THEN {} ELSE AsRecords(NoCaller, sets[c])
    <3>1. ~(provider = "route53" /\ op[c] = "delete" /\ sets[c] # Contents)
      BY <2>1 DEF SetReady, Contents
    <3> QED BY <3>1 DEF WriteSet
  <2>4. CASE "write" \in faults /\ End(c, "error")
    <3>1. faults # {}
      BY <2>4
    <3> QED BY <1>1, <1>3, <2>2, <2>4, <3>1, AloneFault
  <2>5. CASE End(c, "ok") /\ records' = IF op[c] = "delete" THEN {} ELSE AsRecords(NoCaller, sets[c])
    <3>1. /\ op[c] = "delete" => ValuesOf(records') = {}
          /\ op[c] # "delete" => ValuesOf(records') = sets[c]
      <4>1. ValuesOf({}) = {}
        BY DEF ValuesOf
      <4> QED BY <2>2, <2>5, <4>1, AsRecordsType
    <3>2. Succeeds(c, records')
      BY <2>1, <3>1 DEF SetReady, Succeeds
    <3>3. Agrees(c, records', "ok")
      <4> SUFFICES ASSUME faults = {}
                   PROVE  /\ ValuesOf(records') = Specified(op[c], arg[c], ValuesOf(before[c]))
                          /\ ~(op[c] = "remove" /\ ValuesOf(before[c]) = arg[c])
        BY DEF Agrees
      <4>1. CASE op[c] = "update"
        BY <2>1, <3>1, <4>1, SpecifiedIs DEF SetReady
      <4>2. CASE op[c] = "values"
        BY <2>1, <3>1, <4>2, SpecifiedIs DEF SetReady
      <4>3. CASE op[c] = "add"
        BY <2>1, <3>1, <4>3, SpecifiedIs DEF SetReady
      <4>4. CASE op[c] = "remove"
        <5>1. /\ ValuesOf(records') = ValuesOf(before[c]) \ arg[c]
              /\ ValuesOf(before[c]) # arg[c]
          BY <2>1, <3>1, <4>4 DEF SetReady
        <5> QED BY <4>4, <5>1, SpecifiedIs
      <4>5. CASE op[c] = "delete"
        BY <3>1, <4>5, SpecifiedIs
      <4> QED BY <2>2, <4>1, <4>2, <4>3, <4>4, <4>5 DEF AllOperations
    <3> QED BY <1>1, <1>3, <2>2, <2>5, <3>2, <3>3, AloneEnd
  <2> QED BY <2>3, <2>4, <2>5
<1> QED BY <1>2, <1>3

LEMMA AloneEndpoint ==
    ASSUME AloneInv, TypeInv, NEW c \in Callers, callEndpoint(c)
    PROVE  AloneInv'
<1>1. /\ provider = "restapi" /\ pc[c] = "write"
      /\ UNCHANGED <<provider, faults, callVars>> /\ UNCHANGED alone
  BY DEF callEndpoint, callVars
<1>2. CASE ~alone[c]
  BY <1>1, <1>2, NotAlone
<1>3. CASE alone[c]
  <2>1. sets[c] = arg[c]
    BY <1>1, <1>3 DEF AloneInv, Stage
  <2>2. CallTypes /\ sets[c] \in SUBSET Values /\ op[c] \in AllOperations
    BY DEF TypeInv, CallTypes
  <2>3. \A recs, label : Agrees(c, recs, label)
    BY <1>1 DEF Agrees
  <2>4. CASE End(c, "error")
    BY <1>1, <1>3, <2>2, <2>3, <2>4, AloneEnd
  <2>5. CASE End(c, "ok")
    <3>1. Succeeds(c, records')
      <4> SUFFICES ASSUME op[c] \in {"update", "add"}
                   PROVE  arg[c] \subseteq ValuesOf(records')
        BY <1>1 DEF Succeeds
      <4>1. End(c, "ok") => ~End(c, "error")
        BY <2>2 DEF CallTypes, End, Goto
      <4>2. Endpoint(op[c]) \in {"update", "none"}
        BY DEF Endpoint
      <4>3. Endpoint(op[c]) = "update" /\ \E vals \in EndpointResult(c) : records' = AsRecords(NoCaller, vals)
        BY <2>5, <4>1, <4>2 DEF callEndpoint
      <4>4. PICK vals \in EndpointResult(c) : records' = AsRecords(NoCaller, vals)
        BY <4>3
      <4>5. PICK v \in sets[c] : vals = {v}
        BY <4>3, <4>4 DEF EndpointResult
      <4>6. ValuesOf(records') = {v}
        BY <2>2, <4>4, <4>5, AsRecordsType
      <4>7. \E w \in Values : arg[c] = {w}
        BY <1>1, ArgumentForms
      <4> QED BY <2>1, <4>5, <4>6, <4>7
    <3> QED BY <1>1, <1>3, <2>2, <2>3, <2>5, <3>1, AloneEnd
  <2> QED BY <2>4, <2>5 DEF callEndpoint
<1> QED BY <1>2, <1>3

-----------------------------------------------------------------------------
(* Calls to Cloudflare, alone.                                             *)

LEMMA ValuesHeld ==
    ASSUME NEW recs
    PROVE  \A v : v \in ValuesOf(recs) <=> \E r \in recs : r.value = v
BY DEF ValuesOf

\* Ids that stand for different values are finitely many.
LEMMA FinitelyListed ==
    ASSUME NEW recs \in SUBSET Records, Unique(recs), Distinct(recs)
    PROVE  IsFiniteSet({r.id : r \in recs})
<1> DEFINE listed == {r.id : r \in recs}
           holder(i) == CHOOSE r \in recs : r.id = i
           held == [i \in listed |-> holder(i).value]
<1>1. \A i \in listed : holder(i) \in recs /\ holder(i).id = i
  OBVIOUS
<1>2. \A i \in listed : holder(i).value \in Values
  BY <1>1, RecordFields
<1>3. \A i, j \in listed : holder(i).value = holder(j).value => i = j
  BY <1>1 DEF Distinct
<1> HIDE DEF holder, listed
<1>4. held \in [listed -> Values]
  BY <1>2
<1>5. \A i, j \in listed : held[i] = held[j] => i = j
  BY <1>3
<1> HIDE DEF held
<1>6. held \in Injection(listed, Values)
  BY <1>4, <1>5 DEF Injection, IsInjective
<1>7. IsFiniteSet(listed)
  BY <1>6, FS_Injection, ValuesAssumption
<1> QED BY <1>7 DEF listed

\* RemoveRecordValue finds one record exactly if the value to remove is the only one.
LEMMA OneListed ==
    ASSUME NEW recs \in SUBSET Records, Unique(recs), Distinct(recs),
           NEW r \in recs
    PROVE  Cardinality({q.id : q \in recs}) = 1 <=> ValuesOf(recs) = {r.value}
<1> DEFINE listed == {q.id : q \in recs}
<1>1. IsFiniteSet(listed)
  BY FinitelyListed
<1>2. Cardinality(listed) = 1 <=> \E x : listed = {x}
  BY <1>1, FS_Singleton
<1>3. ASSUME NEW x, listed = {x}
      PROVE  ValuesOf(recs) = {r.value}
  <2>1. \A q \in recs : q.id = x
    BY <1>3
  <2>2. \A q \in recs : q = r
    BY <2>1 DEF Unique
  <2> QED BY <2>2 DEF ValuesOf
<1>4. ASSUME ValuesOf(recs) = {r.value}
      PROVE  listed = {r.id}
  <2>1. \A q \in recs : q.value = r.value
    BY <1>4, ValuesHeld
  <2>2. \A q \in recs : q = r
    BY <2>1 DEF Distinct
  <2> QED BY <2>2
<1> QED BY <1>2, <1>3, <1>4

LEMMA AloneListRecords ==
    ASSUME AloneInv, TypeInv, NEW c \in Callers, ListRecords(c)
    PROVE  AloneInv'
<1> DEFINE listed == {r.id : r \in records}
           holding == {r.id : r \in {q \in records : q.value \in arg[c]}}
<1>1. /\ provider = "cloudflare" /\ pc[c] = "read"
      /\ UNCHANGED <<provider, faults, records, callVars>> /\ UNCHANGED alone
  BY DEF ListRecords, callVars
<1>2. CASE ~alone[c]
  BY <1>1, <1>2, NotAlone
<1>3. CASE alone[c]
  <2>1. records = before[c] /\ (op[c] = "values" => arg[c] # {})
    BY <1>1, <1>3 DEF AloneInv, Stage
  <2>2. CallTypes /\ records \in SUBSET Records /\ Unique(records)
    BY DEF TypeInv
  <2>3. /\ \A i : i \in listed <=> \E r \in records : r.id = i
        /\ \A i : i \in holding <=> \E r \in records : r.id = i /\ r.value \in arg[c]
    OBVIOUS
  <2>4. ASSUME NEW s, NEW ch, NEW d, Prepare(c, s, ch, d), RecordsReady(c, records, s, ch, d)
        PROVE  AloneInv'
    <3>1. Works(c, "write", s, ch, d)
      BY <2>2, <2>4, WorkSteps
    <3>2. RecordsReady(c, records', s, ch, d)
      BY <1>1, <2>4
    <3> QED BY <1>1, <1>3, <2>2, <3>1, <3>2, AloneWrite
  <2>5. ASSUME NEW label \in {"ok", "error"}, End(c, label), label = "ok" => Succeeds(c, records),
               Agrees(c, records, label)
        PROVE  AloneInv'
    <3>1. (label = "ok" => Succeeds(c, records')) /\ Agrees(c, records', label)
      BY <1>1, <2>5
    <3> QED BY <1>1, <1>3, <2>2, <2>5, <3>1, AloneEnd
  <2>6. CASE op[c] = "update" /\ listed = {} /\ Prepare(c, arg[c], {}, {})
    <3>1. records = {}
      BY <2>3, <2>6
    <3>2. RecordsReady(c, records, arg[c], {}, {})
      BY <2>6, <3>1 DEF RecordsReady, Replacing, Adding, Removing
    <3> QED BY <2>4, <2>6, <3>2
  <2>7. CASE op[c] = "update" /\ \E first \in listed : Prepare(c, {}, {first}, listed \ {first})
    <3>1. PICK first \in listed : Prepare(c, {}, {first}, listed \ {first})
      BY <2>7
    <3>2. Replacing(c, records, {}, {first}, listed \ {first})
      BY <2>3 DEF Replacing
    <3>3. RecordsReady(c, records, {}, {first}, listed \ {first})
      BY <2>3, <2>7, <3>2 DEF RecordsReady, Adding, Removing
    <3> QED BY <2>4, <3>1, <3>3
  <2>8. CASE op[c] = "values" /\ Prepare(c, arg[c], {}, listed)
    <3>1. Replacing(c, records, arg[c], {}, listed)
      BY <2>3 DEF Replacing
    <3>2. RecordsReady(c, records, arg[c], {}, listed)
      BY <2>3, <2>8, <3>1 DEF RecordsReady, Adding, Removing
    <3> QED BY <2>4, <2>8, <3>2
  <2>9. CASE op[c] = "add" /\ IF holding # {} THEN End(c, "ok") ELSE Prepare(c, arg[c], {}, {})
    <3>1. PICK v \in Values : arg[c] = {v}
      BY <1>1, <2>9, ArgumentForms
    <3>2. CASE holding # {}
      <4>1. v \in ValuesOf(records)
        BY <2>3, <3>1, <3>2, ValuesHeld
      <4>2. Succeeds(c, records)
        BY <2>9, <3>1, <4>1 DEF Succeeds
      <4>3. ValuesOf(records) = ValuesOf(before[c]) \union arg[c]
        BY <2>1, <3>1, <4>1
      <4>4. Agrees(c, records, "ok")
        BY <2>9, <4>3, SpecifiedIs DEF Agrees
      <4> QED BY <2>5, <2>9, <3>2, <4>2, <4>4
    <3>3. CASE holding = {}
      <4>1. Adding(c, records, arg[c], {})
        BY <2>1 DEF Adding
      <4>2. RecordsReady(c, records, arg[c], {}, {})
        BY <2>9, <4>1 DEF RecordsReady, Replacing, Removing
      <4> QED BY <2>4, <2>9, <3>3, <4>2
    <3> QED BY <3>2, <3>3
  <2>10. CASE op[c] = "remove"
             /\ IF holding = {} THEN End(c, "ok")
                ELSE IF Cardinality(listed) = 1 THEN End(c, "error")
                ELSE \E target \in holding : Prepare(c, {}, {}, {target})
    <3>1. PICK v \in Values : arg[c] = {v}
      BY <1>1, <2>10, ArgumentForms
    <3>2. holding = {} <=> v \notin ValuesOf(records)
      BY SMTT(30), <2>3, <3>1, ValuesHeld
    <3>3. CASE holding = {}
      <4>1. Succeeds(c, records)
        BY <2>10, <3>1, <3>2, <3>3 DEF Succeeds
      <4>2. ValuesOf(records) = ValuesOf(before[c]) \ arg[c] /\ ValuesOf(before[c]) # arg[c]
        BY <2>1, <3>1, <3>2, <3>3
      <4>3. Agrees(c, records, "ok")
        BY <2>10, <4>2, SpecifiedIs DEF Agrees
      <4> QED BY <2>5, <2>10, <3>3, <4>1, <4>3
    <3>4. CASE holding # {}
      <4>1. ASSUME Distinct(before[c])
            PROVE  Cardinality(listed) = 1 <=> ValuesOf(before[c]) = arg[c]
        <5>1. PICK r \in records : r.value = v
          BY <3>2, <3>4, ValuesHeld
        <5> QED BY <2>1, <2>2, <3>1, <4>1, <5>1, OneListed
      <4>2. CASE Cardinality(listed) = 1
        <5>1. Agrees(c, records, "error")
          <6> SUFFICES ASSUME Distinct(before[c])
                       PROVE  ValuesOf(records) = Specified(op[c], arg[c], ValuesOf(before[c]))
                              /\ ValuesOf(before[c]) = arg[c]
            BY <2>10 DEF Agrees
          <6>1. ValuesOf(before[c]) = arg[c]
            BY <4>1, <4>2
          <6> QED BY <2>1, <2>10, <6>1, SpecifiedIs
        <5> QED BY <2>5, <2>10, <3>4, <4>2, <5>1
      <4>3. CASE Cardinality(listed) # 1
        <5>1. PICK target \in holding : Prepare(c, {}, {}, {target})
          BY <2>10, <3>4, <4>3
        <5>2. PICK t \in records : t.id = target /\ t.value = v
          BY <2>3, <3>1
        <5>3. ASSUME Distinct(before[c])
              PROVE  /\ \A r \in records : r.value \in arg[c] <=> r.id \in {target}
                     /\ ValuesOf(before[c]) # arg[c]
          <6>1. ValuesOf(before[c]) # arg[c]
            BY <4>1, <4>3, <5>3
          <6>2. \A r \in records : r.value = v <=> r = t
            BY <2>1, <5>2, <5>3 DEF Distinct
          <6>3. \A r \in records : r.id = target <=> r = t
            BY <2>2, <5>2 DEF Unique
          <6> QED BY <3>1, <6>1, <6>2, <6>3
        <5>4. Removing(c, records, {}, {target})
          BY <2>1, <5>3 DEF Removing
        <5>5. RecordsReady(c, records, {}, {}, {target})
          BY <2>10, <5>2, <5>4 DEF RecordsReady, Replacing, Adding
        <5> QED BY <2>4, <5>1, <5>5
      <4> QED BY <4>2, <4>3
    <3> QED BY <3>3, <3>4
  <2>11. CASE op[c] = "delete" /\ Prepare(c, {}, {}, listed)
    <3>1. arg[c] = {}
      BY <1>1, <2>11, ArgumentForms
    <3>2. Replacing(c, records, {}, {}, listed)
      BY <2>3, <3>1 DEF Replacing
    <3>3. RecordsReady(c, records, {}, {}, listed)
      BY <2>3, <2>11, <3>2 DEF RecordsReady, Adding, Removing
    <3> QED BY <2>4, <2>11, <3>3
  <2>12. CASE "read" \in faults /\ End(c, "error")
    <3>1. faults # {}
      BY <2>12
    <3> QED BY <1>1, <1>3, <2>2, <2>12, <3>1, AloneFault
  <2> QED BY <2>6, <2>7, <2>8, <2>9, <2>10, <2>11, <2>12 DEF ListRecords
<1> QED BY <1>2, <1>3

\* The change in place brings the value that is to stay.
LEMMA AloneChangeRecord ==
    ASSUME AloneInv, TypeInv, NEW c \in Callers, ChangeRecord(c)
    PROVE  AloneInv'
<1>1. /\ provider = "cloudflare" /\ pc[c] = "write"
      /\ UNCHANGED <<provider, faults, callVars>> /\ UNCHANGED alone
  BY DEF ChangeRecord, callVars
<1>2. CASE ~alone[c]
  BY <1>1, <1>2, NotAlone
<1>3. CASE alone[c]
  <2>1. RecordsReady(c, records, sets[c], changes[c], deletes[c])
    BY <1>1, <1>3 DEF AloneInv, Stage
  <2>2. CallTypes /\ records \subseteq Records /\ Unique(records) /\ ArgumentsFit
    BY DEF TypeInv
  <2>3. PICK i \in changes[c] :
          \/ /\ \E r \in records :
                  /\ r.id = i
                  /\ records' = (records \ {r}) \union {[r EXCEPT !.value = v] : v \in arg[c]}
             /\ \/ changes' = Drop(changes, c, i) /\ UNCHANGED <<pc, sets, deletes>>
                \/ "write" \in faults /\ End(c, "error")
          \/ /\ "write" \in faults \/ \A r \in records : r.id # i
             /\ End(c, "error") /\ UNCHANGED records
    BY DEF ChangeRecord
  <2>4. op[c] = "update" /\ \E v \in Values : arg[c] = {v}
    BY <1>1, <2>2, <2>3, ArgumentForms DEF ArgumentsFit
  <2>5. CASE "write" \in faults /\ End(c, "error")
    <3>1. faults # {}
      BY <2>5
    <3> QED BY <1>1, <1>3, <2>2, <2>5, <3>1, AloneFault
  <2>6. CASE \A r \in records : r.id # i
    BY <2>1, <2>3, <2>6 DEF RecordsReady
  <2>7. CASE /\ \E r \in records :
                  /\ r.id = i
                  /\ records' = (records \ {r}) \union {[r EXCEPT !.value = v] : v \in arg[c]}
             /\ changes' = Drop(changes, c, i) /\ UNCHANGED <<pc, sets, deletes>>
    <3>1. PICK r \in records :
             r.id = i /\ records' = (records \ {r}) \union {[r EXCEPT !.value = v] : v \in arg[c]}
      BY <2>7
    <3>2. PICK w \in Values : arg[c] = {w}
      BY <2>4
    <3>3. PICK n : n = [r EXCEPT !.value = w]
      OBVIOUS
    <3>4. n.id = i /\ n.value = w
      <4>1. r \in Records
        BY <2>2
      <4> QED BY <3>1, <3>3, <4>1 DEF Records
    <3>5. records' = (records \ {r}) \union {n}
      BY <3>1, <3>2, <3>3
    <3>6. changes[c] = {i}
      BY <2>1, <2>3 DEF RecordsReady
    <3>7. Works(c, "write", sets[c], {}, deletes[c])
      <4>1. Works(c, "write", sets[c], changes[c] \ {i}, deletes[c])
        BY <1>1, <2>2, <2>7, WorkSteps
      <4> QED BY <3>6, <4>1
    <3>8. i \notin deletes[c]
      BY <2>1, <2>3 DEF RecordsReady
    <3>9. Replacing(c, records', sets[c], {}, deletes[c])
      <4>1. \A v \in arg[c] : n.value = v /\ n.id \notin deletes[c]
        BY <3>2, <3>4, <3>8
      <4>2. ASSUME faults = {}
            PROVE  \A q \in records' : q.value \in arg[c] \/ q.id \in deletes[c] \union {}
        <5>1. \A q \in records : q.value \in arg[c] \/ q.id \in deletes[c] \union changes[c]
          BY <2>1, <2>4, <4>2 DEF RecordsReady, Replacing
        <5>2. \A q \in records \ {r} : q.id # i
          BY <2>2, <3>1 DEF Unique
        <5>3. n.value \in arg[c]
          BY <3>2, <3>4
        <5> QED BY <3>5, <3>6, <5>1, <5>2, <5>3
      <4> QED BY <3>5, <4>1, <4>2 DEF Replacing
    <3>10. RecordsReady(c, records', sets[c], {}, deletes[c])
      <4>1. \A j \in deletes[c] : \E q \in records' : q.id = j
        BY <2>1, <3>1, <3>5, <3>8 DEF RecordsReady
      <4>2. sets[c] \subseteq arg[c]
        BY <2>1 DEF RecordsReady
      <4>3. Adding(c, records', sets[c], deletes[c]) /\ Removing(c, records', sets[c], deletes[c])
        BY <2>4 DEF Adding, Removing
      <4> QED BY <3>9, <4>1, <4>2, <4>3 DEF RecordsReady
    <3> QED BY <1>1, <1>3, <2>2, <3>7, <3>10, AloneWrite
  <2> QED BY <2>3, <2>5, <2>6, <2>7
<1> QED BY <1>2, <1>3

\* A deletion takes a record that is to go, and only that one.
LEMMA AloneDeleteRecord ==
    ASSUME AloneInv, TypeInv, NEW c \in Callers, DeleteRecord(c)
    PROVE  AloneInv'
<1>1. /\ provider = "cloudflare" /\ pc[c] = "write" /\ changes[c] = {}
      /\ UNCHANGED <<provider, faults, callVars>> /\ UNCHANGED alone
  BY DEF DeleteRecord, callVars
<1>2. CASE ~alone[c]
  BY <1>1, <1>2, NotAlone
<1>3. CASE alone[c]
  <2>1. /\ RecordsReady(c, records, sets[c], {}, deletes[c])
        /\ op[c] \in {"update", "values", "add", "remove", "delete"}
    BY <1>1, <1>3 DEF AloneInv, Stage, TypeInv, CallTypes, AllOperations
  <2>2. CallTypes /\ records \subseteq Records /\ Unique(records) /\ ArgumentsFit
    BY DEF TypeInv
  <2>3. PICK i \in deletes[c] :
          \/ /\ \E r \in records : r.id = i /\ records' = records \ {r}
             /\ \/ deletes' = Drop(deletes, c, i) /\ UNCHANGED <<pc, sets, changes>>
                \/ "write" \in faults /\ op[c] \in {"remove", "delete"} /\ End(c, "error")
          \/ /\ "write" \in faults \/ \A r \in records : r.id # i
             /\ IF op[c] \in {"update", "values"}
                THEN deletes' = Drop(deletes, c, i) /\ UNCHANGED <<pc, sets, changes>>
                ELSE End(c, "error")
             /\ UNCHANGED records
    BY DEF DeleteRecord
  <2>4. PICK x \in records : x.id = i
    BY <2>1, <2>3 DEF RecordsReady
  <2>5. \A r \in records : r.id = i => r = x
    BY <2>2, <2>4 DEF Unique
  <2>6. op[c] # "add"
    BY <2>1, <2>3 DEF RecordsReady, Adding
  <2>7. CASE "write" \in faults /\ End(c, "error")
    <3>1. faults # {}
      BY <2>7
    <3> QED BY <1>1, <1>3, <2>2, <2>7, <3>1, AloneFault
  <2>8. CASE deletes' = Drop(deletes, c, i) /\ UNCHANGED <<pc, sets, changes>>
    <3>1. Works(c, "write", sets[c], {}, deletes[c] \ {i})
      <4>1. Works(c, "write", sets[c], changes[c], deletes[c] \ {i})
        BY <1>1, <2>2, <2>8, WorkSteps
      <4> QED BY <1>1, <4>1
    <3>2. ~End(c, "error")
      <4>1. pc'[c] = "write"
        BY <1>1, <2>8
      <4> QED BY <2>2, <4>1 DEF CallTypes, End, Goto
    <3>3. \/ records' = records \ {x}
          \/ records' = records /\ faults # {} /\ op[c] \in {"update", "values"}
      BY <2>3, <2>4, <2>5, <3>2
    <3>4. Replacing(c, records', sets[c], {}, deletes[c] \ {i})
      BY <2>1, <2>4, <2>5, <3>3 DEF RecordsReady, Replacing
    <3>5. \A j \in deletes[c] \ {i} : \E r \in records' : r.id = j
      BY <2>1, <2>4, <3>3 DEF RecordsReady
    <3>6. Removing(c, records', sets[c], deletes[c] \ {i})
      <4> SUFFICES ASSUME op[c] = "remove"
                   PROVE  /\ sets[c] = {}
                          /\ Distinct(before[c]) =>
                              /\ \A r \in records' : r.value \in arg[c] <=> r.id \in deletes[c] \ {i}
                              /\ ValuesOf(before[c]) \ arg[c] \subseteq ValuesOf(records')
                              /\ ValuesOf(records') \subseteq ValuesOf(before[c])
                              /\ ValuesOf(before[c]) # arg[c]
        BY DEF Removing
      <4>1. sets[c] = {} /\ records' = records \ {x}
        BY <2>1, <3>3 DEF RecordsReady, Removing
      <4>2. ASSUME Distinct(before[c])
            PROVE  /\ \A r \in records' : r.value \in arg[c] <=> r.id \in deletes[c] \ {i}
                   /\ ValuesOf(before[c]) \ arg[c] \subseteq ValuesOf(records')
                   /\ ValuesOf(records') \subseteq ValuesOf(before[c])
                   /\ ValuesOf(before[c]) # arg[c]
        <5>1. /\ \A r \in records : r.value \in arg[c] <=> r.id \in deletes[c]
              /\ ValuesOf(before[c]) \ arg[c] \subseteq ValuesOf(records)
              /\ ValuesOf(records) \subseteq ValuesOf(before[c])
              /\ ValuesOf(before[c]) # arg[c]
          BY <2>1, <4>2 DEF RecordsReady, Removing
        <5>2. \A r \in records' : r.value \in arg[c] <=> r.id \in deletes[c] \ {i}
          BY <2>5, <4>1, <5>1
        <5>3. x.value \in arg[c]
          BY <2>3, <2>4, <5>1
        <5>4. ValuesOf(before[c]) \ arg[c] \subseteq ValuesOf(records')
          BY <4>1, <5>1, <5>3, ValuesHeld
        <5>5. ValuesOf(records') \subseteq ValuesOf(before[c])
          BY <4>1, <5>1, ValuesHeld
        <5> QED BY <5>1, <5>2, <5>4, <5>5
      <4> QED BY <4>1, <4>2
    <3>7. RecordsReady(c, records', sets[c], {}, deletes[c] \ {i})
      <4>1. sets[c] \subseteq arg[c]
        BY <2>1 DEF RecordsReady
      <4>2. Adding(c, records', sets[c], deletes[c] \ {i})
        BY <2>6 DEF Adding
      <4> QED BY <3>4, <3>5, <3>6, <4>1, <4>2 DEF RecordsReady
    <3> QED BY <1>1, <1>3, <2>2, <3>1, <3>7, AloneWrite
  <2> QED BY <2>3, <2>4, <2>7, <2>8
<1> QED BY <1>2, <1>3

LEMMA AloneNewRecord ==
    ASSUME AloneInv, TypeInv, NEW c \in Callers, NewRecord(c)
    PROVE  AloneInv'
<1>1. /\ provider = "cloudflare" /\ pc[c] = "write" /\ changes[c] = {} /\ deletes[c] = {}
      /\ UNCHANGED <<provider, faults, callVars>> /\ UNCHANGED alone
  BY DEF NewRecord, callVars
<1>2. CASE ~alone[c]
  BY <1>1, <1>2, NotAlone
<1>3. CASE alone[c]
  <2>1. RecordsReady(c, records, sets[c], {}, {})
    BY <1>1, <1>3 DEF AloneInv, Stage
  <2>2. CallTypes /\ sets[c] \in SUBSET Values
    BY DEF TypeInv, CallTypes
  <2>3. PICK v \in sets[c] :
          \/ /\ records' = records \union AsRecords(c, {v})
             /\ sets' = Drop(sets, c, v) /\ UNCHANGED <<pc, changes, deletes>>
          \/ "write" \in faults /\ End(c, "error")
    BY DEF NewRecord
  <2>4. CASE "write" \in faults /\ End(c, "error")
    <3>1. faults # {}
      BY <2>4
    <3> QED BY <1>1, <1>3, <2>2, <2>4, <3>1, AloneFault
  <2>5. CASE /\ records' = records \union AsRecords(c, {v})
             /\ sets' = Drop(sets, c, v) /\ UNCHANGED <<pc, changes, deletes>>
    <3>1. Works(c, "write", sets[c] \ {v}, {}, {})
      <4>1. Works(c, "write", sets[c] \ {v}, changes[c], deletes[c])
        BY <1>1, <2>2, <2>5, WorkSteps
      <4> QED BY <1>1, <4>1
    <3>2. PICK n \in records' : n.value = v
      <4>1. [id |-> <<c, v>>, value |-> v] \in AsRecords(c, {v})
        BY DEF AsRecords
      <4> QED BY <2>5, <4>1
    <3>3. \A r \in records' : r \in records \/ r.value = v
      BY <2>5 DEF AsRecords
    <3>4. v \in arg[c] /\ sets[c] \subseteq arg[c] /\ records \subseteq records'
      BY <2>1, <2>3, <2>5 DEF RecordsReady
    <3>5. Replacing(c, records', sets[c] \ {v}, {}, {})
      BY <2>1, <3>2, <3>3, <3>4 DEF RecordsReady, Replacing
    <3>6. Adding(c, records', sets[c] \ {v}, {})
      <4>1. ValuesOf(records') = ValuesOf(records) \union {v}
        BY <3>2, <3>3, <3>4, ValuesHeld
      <4> QED BY <2>1, <3>4, <4>1 DEF RecordsReady, Adding
    <3>7. Removing(c, records', sets[c] \ {v}, {})
      BY <2>1, <2>3 DEF RecordsReady, Removing
    <3>8. RecordsReady(c, records', sets[c] \ {v}, {}, {})
      BY <3>4, <3>5, <3>6, <3>7 DEF RecordsReady
    <3> QED BY <1>1, <1>3, <2>2, <3>1, <3>8, AloneWrite
  <2> QED BY <2>3, <2>4, <2>5
<1> QED BY <1>2, <1>3

\* With no work left, the records are what the method promises.
LEMMA AloneReturn ==
    ASSUME AloneInv, TypeInv, NEW c \in Callers, Return(c)
    PROVE  AloneInv'
<1>1. /\ provider = "cloudflare" /\ pc[c] = "write" /\ sets[c] = {} /\ changes[c] = {} /\ deletes[c] = {}
      /\ UNCHANGED <<provider, faults, records, callVars>> /\ UNCHANGED alone /\ End(c, "ok")
  BY DEF Return, callVars
<1>2. CASE ~alone[c]
  BY <1>1, <1>2, NotAlone
<1>3. CASE alone[c]
  <2>1. /\ RecordsReady(c, records, {}, {}, {}) /\ CallTypes
        /\ op[c] \in {"update", "values", "add", "remove", "delete"}
        /\ op[c] = "values" => arg[c] # {}
    BY <1>1, <1>3 DEF AloneInv, Stage, TypeInv, CallTypes, AllOperations
  <2>2. CASE op[c] \in {"update", "values", "delete"}
    <3>1. arg[c] \subseteq ValuesOf(records)
      BY <2>1, <2>2, ValuesHeld DEF RecordsReady, Replacing
    <3>2. faults = {} => ValuesOf(records) \subseteq arg[c]
      BY <2>1, <2>2, ValuesHeld DEF RecordsReady, Replacing
    <3>3. op[c] = "delete" => arg[c] = {}
      BY <1>1, ArgumentForms
    <3>4. Succeeds(c, records)
      BY <2>2, <3>1 DEF Succeeds
    <3>5. faults = {} => ValuesOf(records) = Specified(op[c], arg[c], ValuesOf(before[c]))
      <4>1. faults = {} => ValuesOf(records) = arg[c]
        BY <3>1, <3>2
      <4>2. CASE op[c] = "update"
        BY <4>1, <4>2, SpecifiedIs
      <4>3. CASE op[c] = "values"
        BY <2>1, <4>1, <4>3, SpecifiedIs
      <4>4. CASE op[c] = "delete"
        BY <3>3, <4>1, <4>4, SpecifiedIs
      <4> QED BY <2>2, <4>2, <4>3, <4>4
    <3>6. Agrees(c, records, "ok")
      BY <2>2, <3>5 DEF Agrees
    <3> QED BY <1>1, <1>3, <2>1, <3>4, <3>6, AloneEnd
  <2>3. CASE op[c] = "add"
    <3>1. arg[c] \subseteq ValuesOf(records) /\ ValuesOf(records) = ValuesOf(before[c]) \union arg[c]
      BY <2>1, <2>3 DEF RecordsReady, Adding
    <3>2. Succeeds(c, records)
      BY <2>3, <3>1 DEF Succeeds
    <3>3. Agrees(c, records, "ok")
      BY <2>3, <3>1, SpecifiedIs DEF Agrees
    <3> QED BY <1>1, <1>3, <2>1, <3>2, <3>3, AloneEnd
  <2>4. CASE op[c] = "remove"
    <3>1. ASSUME Distinct(before[c])
          PROVE  /\ arg[c] \intersect ValuesOf(records) = {}
                 /\ ValuesOf(records) = ValuesOf(before[c]) \ arg[c]
                 /\ ValuesOf(before[c]) # arg[c]
      <4>1. /\ \A r \in records : r.value \notin arg[c]
            /\ ValuesOf(before[c]) \ arg[c] \subseteq ValuesOf(records)
            /\ ValuesOf(records) \subseteq ValuesOf(before[c])
            /\ ValuesOf(before[c]) # arg[c]
        BY <2>1, <2>4, <3>1 DEF RecordsReady, Removing
      <4>2. arg[c] \intersect ValuesOf(records) = {}
        BY <4>1, ValuesHeld
      <4> QED BY <4>1, <4>2
    <3>2. Succeeds(c, records)
      BY <2>4, <3>1 DEF Succeeds
    <3>3. Agrees(c, records, "ok")
      BY <2>4, <3>1, SpecifiedIs DEF Agrees
    <3> QED BY <1>1, <1>3, <2>1, <3>2, <3>3, AloneEnd
  <2> QED BY <2>1, <2>2, <2>3, <2>4
<1> QED BY <1>2, <1>3

-----------------------------------------------------------------------------
(* The beginning of a call, and the theorems.                              *)

\* The call that begins is the only one that can be alone, and it finds the name as
\* the records before it are.
LEMMA AloneCall ==
    ASSUME AloneInv, TypeInv, NEW c \in Callers, NEW o \in Operations,
           NEW vals \in Arguments(o), Call(c, o, vals)
    PROVE  AloneInv'
<1>1. CallTypes /\ o \in AllOperations
  BY DnsAssumption DEF TypeInv
<1>2. /\ pc[c] = "idle"
      /\ op'[c] = o /\ arg'[c] = vals /\ before'[c] = records
      /\ alone' = [d \in Callers |-> d = c /\ Active = {}]
      /\ provider' = provider /\ faults' = faults /\ records' = records
  BY <1>1 DEF Call, CallTypes
<1>3. \/ o = "values" /\ vals = {} /\ Works(c, "ok", sets[c], changes[c], deletes[c])
      \/ ~(o = "values" /\ vals = {}) /\ NeedsRead(o)
           /\ Works(c, "read", sets[c], changes[c], deletes[c])
      \/ ~(o = "values" /\ vals = {}) /\ ~NeedsRead(o) /\ Works(c, "write", vals, {}, {})
  BY <1>1, WorkSteps DEF Call
<1>4. /\ \A e \in Callers : e # c => pc'[e] = pc[e]
      /\ pc'[c] \in {"read", "write", "ok"}
  BY <1>1, <1>3 DEF Works, CallTypes
<1> SUFFICES ASSUME Active = {}
             PROVE  /\ Active' \subseteq {c} /\ pc'[c] # "idle"
                    /\ Stage(c, records, pc[c], sets[c], changes[c], deletes[c])'
  BY <1>2 DEF AloneInv
<1>5. Active' \subseteq {c}
  BY <1>4 DEF Active
<1>6. CASE o = "values" /\ vals = {} /\ Works(c, "ok", sets[c], changes[c], deletes[c])
  <2>1. pc'[c] = "ok"
    BY <1>1, <1>6 DEF Works, CallTypes
  <2>2. Succeeds(c, records)'
    BY <1>2, <1>6 DEF Succeeds
  <2>3. Agrees(c, records, "ok")'
    BY <1>2, <1>6, SpecifiedIs DEF Agrees
  <2> QED BY <1>4, <1>5, <2>1, <2>2, <2>3 DEF Stage
<1>7. CASE /\ ~(o = "values" /\ vals = {}) /\ NeedsRead(o)
           /\ Works(c, "read", sets[c], changes[c], deletes[c])
  <2>1. pc'[c] = "read"
    BY <1>1, <1>7 DEF Works, CallTypes
  <2> QED BY <1>2, <1>4, <1>5, <1>7, <2>1 DEF Stage
<1>8. CASE ~(o = "values" /\ vals = {}) /\ ~NeedsRead(o) /\ Works(c, "write", vals, {}, {})
  <2>1. pc'[c] = "write" /\ sets'[c] = vals
    BY <1>1, <1>8 DEF Works, CallTypes
  <2>2. provider \in RecordSets => SetReady(c, records, sets[c])'
    <3>1. provider \in RecordSets => o \notin {"add", "remove"} /\ ~(provider = "route53" /\ o = "delete")
      BY <1>8 DEF NeedsRead, RecordSets
    <3> QED BY <1>2, <2>1, <3>1 DEF SetReady
  <2>3. provider # "cloudflare"
    BY <1>8 DEF NeedsRead
  <2>4. pc'[c] # "read" /\ pc'[c] # "ok" /\ pc'[c] # "error"
    BY <2>1
  <2> QED BY <1>2, <1>4, <1>5, <1>8, <2>1, <2>2, <2>3, <2>4 DEF Stage
<1> QED BY <1>3, <1>6, <1>7, <1>8

LEMMA AloneStep == AloneInv /\ TypeInv /\ WriteInv /\ [Next]_vars => AloneInv'
<1> SUFFICES ASSUME AloneInv, TypeInv, WriteInv, [Next]_vars
             PROVE  AloneInv'
  OBVIOUS
<1>1. CASE UNCHANGED vars
  BY <1>1 DEF AloneInv, Active, Stage, SetReady, RecordsReady, Replacing, Adding, Removing,
              Succeeds, Agrees, vars, callVars, workVars
<1>2. CASE Next
  BY <1>2, AloneCall, AloneReadSet, AloneWriteSet, AloneListRecords, AloneChangeRecord,
     AloneDeleteRecord, AloneNewRecord, AloneReturn, AloneEndpoint DEF Next
<1> QED BY <1>1, <1>2

LEMMA AloneInvHolds == Spec => []AloneInv
<1>1. Init => AloneInv
  BY DEF Init, AloneInv
<1> QED BY <1>1, WriteInit, WriteInvStep, TypesInit, TypesStep, AloneStep, PTL DEF Spec

\* A call that has ended without another beside it is as its last stage says.
LEMMA LatestStage ==
    ASSUME AloneInv, NEW c \in Callers, Latest(c)
    PROVE  /\ pc[c] \in {"ok", "error"}
           /\ pc[c] = "ok" => Succeeds(c, records)
           /\ Agrees(c, records, pc[c])
BY DEF AloneInv, Latest, Stage

\* What Route53, Azure and Cloudflare leave a name with is what the interface
\* specifies, when no call fails and no other method is at work on the name.
THEOREM ProvidersAgreeWithInterface == Spec => []AgreesWithInterface
<1>1. AloneInv => AgreesWithInterface
  <2> SUFFICES ASSUME AloneInv, NEW c \in Callers, Latest(c), faults = {},
                      provider # "restapi", Distinct(before[c])
               PROVE  /\ Contents = Specified(op[c], arg[c], ValuesOf(before[c]))
                      /\ pc[c] = "error" <=> op[c] = "remove" /\ ValuesOf(before[c]) = arg[c]
    BY DEF AgreesWithInterface
  <2>1. Agrees(c, records, pc[c])
    BY LatestStage
  <2> QED BY <2>1 DEF Agrees, Contents
<1> QED BY <1>1, AloneInvHolds, PTL

\* A method that reports success has done its part, whichever of its API calls
\* failed on the way.
THEOREM SuccessMeansDone == Spec => []SuccessIsDone
<1>1. AloneInv => SuccessIsDone
  <2> SUFFICES ASSUME AloneInv, NEW c \in Callers, Latest(c), pc[c] = "ok"
               PROVE  /\ op[c] \in {"update", "add"} => arg[c] \subseteq Contents
                      /\ op[c] = "values" /\ provider # "restapi" => arg[c] \subseteq Contents
                      /\ op[c] = "remove" /\ provider \in {"route53", "cloudflare"} /\ Distinct(before[c])
                           => arg[c] \intersect Contents = {}
    BY DEF SuccessIsDone
  <2>1. Succeeds(c, records)
    BY LatestStage
  <2> QED BY <2>1 DEF Succeeds, Contents
<1> QED BY <1>1, AloneInvHolds, PTL
=============================================================================
