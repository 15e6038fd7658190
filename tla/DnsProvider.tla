---------------------------- MODULE DnsProvider ----------------------------
(***************************************************************************)
(* The four DNS providers: what UpdateRecord, UpdateRecordValues,          *)
(* AddRecordValue, RemoveRecordValue and DeleteRecord of dns/route53.go,   *)
(* azure.go, cloudflare.go and restapi.go do to one name, one action per   *)
(* API call, with calls of several handlers at once.                       *)
(*                                                                         *)
(* Route53, Azure and the REST endpoints keep one record set per name and  *)
(* replace it as a whole; Cloudflare keeps one record with an id of its    *)
(* own per value.  The APIs themselves are external.                       *)
(***************************************************************************)
EXTENDS FiniteSets

CONSTANTS Callers,     \* calls of provider methods; each is made once
          Values,      \* addresses
          Providers,   \* providers to consider
          Operations,  \* methods that are called
          FaultSets,   \* what may go wrong: sets of AllFaults
          NoCaller

AllFaults == {"read", "write"}
AllOperations == {"update", "values", "add", "remove", "delete"}
RecordSets == {"route53", "azure"}

ASSUME DnsAssumption ==
    /\ Providers \subseteq {"route53", "azure", "cloudflare", "restapi"}
    /\ Operations \subseteq AllOperations
    /\ FaultSets \subseteq SUBSET AllFaults
    /\ NoCaller \notin Callers

\* There are finitely many addresses: RemoveRecordValue counts the records.
ASSUME ValuesAssumption == IsFiniteSet(Values)

VARIABLES provider,    \* the provider of the cluster
          endpoints,   \* the endpoints the REST provider was configured with
          faults,      \* the faults this behaviour may show
          records,     \* what the API holds for the name: [id, value]
          pc, op, arg, \* where a call is, its method and its values
          sets,        \* values it is going to write
          changes,     \* id of the record it is going to change in place
          deletes,     \* ids of the records it is going to delete
          before,      \* the records when the call began
          alone        \* whether no other call has been under way since

callVars == <<op, arg, before, alone>>
workVars == <<sets, changes, deletes>>
vars == <<provider, endpoints, faults, records, pc, callVars, workVars>>

ValuesOf(recs) == {r.value : r \in recs}
Contents == ValuesOf(records)
Ids == (Callers \union {NoCaller}) \X Values

\* Records of one record set have no ids of their own.
AsRecords(by, vals) == {[id |-> <<by, v>>, value |-> v] : v \in vals}

Init ==
    /\ provider \in Providers
    /\ endpoints \in IF provider = "restapi" THEN SUBSET {"update", "multi", "delete"} ELSE {{}}
    /\ faults \in FaultSets
    /\ \E vals \in SUBSET Values : records = AsRecords(NoCaller, vals)
    /\ pc = [c \in Callers |-> "idle"]
    /\ op = [c \in Callers |-> "update"]
    /\ arg = [c \in Callers |-> {}]
    /\ sets = [c \in Callers |-> {}]
    /\ changes = [c \in Callers |-> {}]
    /\ deletes = [c \in Callers |-> {}]
    /\ before = [c \in Callers |-> {}]
    /\ alone = [c \in Callers |-> FALSE]

Active == {c \in Callers : pc[c] \in {"read", "write"}}

Goto(c, label) == pc' = [pc EXCEPT ![c] = label]
Prepare(c, s, ch, d) ==
    /\ sets' = [sets EXCEPT ![c] = s]
    /\ changes' = [changes EXCEPT ![c] = ch]
    /\ deletes' = [deletes EXCEPT ![c] = d]
    /\ Goto(c, "write")
End(c, label) == Goto(c, label) /\ UNCHANGED workVars

Arguments(o) ==
    CASE o = "values" -> SUBSET Values
      [] o = "delete" -> {{}}
      [] OTHER -> {{v} : v \in Values}

NeedsRead(o) ==
    \/ provider = "route53" /\ o \in {"add", "remove", "delete"}
    \/ provider = "azure" /\ o \in {"add", "remove"}
    \/ provider = "cloudflare"

\* A method is called.  UpdateRecordValues without values returns at once.
Call(c, o, vals) ==
    /\ pc[c] = "idle"
    /\ op' = [op EXCEPT ![c] = o]
    /\ arg' = [arg EXCEPT ![c] = vals]
    /\ before' = [before EXCEPT ![c] = records]
    /\ alone' = [d \in Callers |-> d = c /\ Active = {}]
    /\ IF o = "values" /\ vals = {} THEN End(c, "ok")
       ELSE IF NeedsRead(o) THEN End(c, "read")
       ELSE Prepare(c, vals, {}, {})
    /\ UNCHANGED <<provider, endpoints, faults, records>>

-----------------------------------------------------------------------------
(* Route53 and Azure: one record set.                                      *)

\* Mutant: RemoveRecordValue without the check for the last value.
ComputeToLast(c, seen) ==
    CASE op[c] = "add" ->
            IF arg[c] \subseteq seen THEN End(c, "ok") ELSE Prepare(c, seen \union arg[c], {}, {})
      [] op[c] = "remove" ->
            IF arg[c] \subseteq seen THEN Prepare(c, seen \ arg[c], {}, {}) ELSE End(c, "ok")
      [] op[c] = "delete" ->
            IF seen = {} THEN End(c, "ok") ELSE Prepare(c, seen, {}, {})

\* Mutant: AddRecordValue replaces the record set.
ComputeAddReplaces(c, seen) ==
    CASE op[c] = "add" ->
            IF arg[c] \subseteq seen THEN End(c, "ok") ELSE Prepare(c, arg[c], {}, {})
      [] op[c] = "remove" ->
            IF ~(arg[c] \subseteq seen) THEN End(c, "ok")
            ELSE IF seen = arg[c] THEN End(c, "error")
            ELSE Prepare(c, seen \ arg[c], {}, {})
      [] op[c] = "delete" ->
            IF seen = {} THEN End(c, "ok") ELSE Prepare(c, seen, {}, {})

\* From the values read to the ones to write.
Compute(c, seen) ==
    CASE op[c] = "add" ->
            IF arg[c] \subseteq seen THEN End(c, "ok") ELSE Prepare(c, seen \union arg[c], {}, {})
      [] op[c] = "remove" ->
            IF ~(arg[c] \subseteq seen) THEN End(c, "ok")
            ELSE IF seen = arg[c] THEN End(c, "error")
            ELSE Prepare(c, seen \ arg[c], {}, {})
      [] op[c] = "delete" ->
            IF seen = {} THEN End(c, "ok") ELSE Prepare(c, seen, {}, {})

\* getRecords of Route53 reports a failed read, getExistingARecords of Azure
\* returns no records.
ReadSet(c) ==
    /\ provider \in RecordSets
    /\ pc[c] = "read"
    /\ \/ Compute(c, Contents)
       \/ "read" \in faults /\ provider = "azure" /\ Compute(c, {})
       \/ "read" \in faults /\ provider = "route53" /\ End(c, "error")
    /\ UNCHANGED <<provider, endpoints, faults, records, callVars>>

\* UPSERT and CreateOrUpdate replace the record set.  Azure deletes it by name,
\* Route53 only if its values are still the ones read.
WriteSet(c) ==
    /\ provider \in RecordSets
    /\ pc[c] = "write"
    /\ IF provider = "route53" /\ op[c] = "delete" /\ sets[c] # Contents
       THEN End(c, "error") /\ UNCHANGED records
       ELSE \/ /\ records' = IF op[c] = "delete" THEN {} ELSE AsRecords(NoCaller, sets[c])
               /\ End(c, "ok") \/ ("write" \in faults /\ End(c, "error"))
            \/ "write" \in faults /\ End(c, "error") /\ UNCHANGED records
    /\ UNCHANGED <<provider, endpoints, faults, callVars>>

-----------------------------------------------------------------------------
(* Cloudflare: one record per value.  After the list come the change in    *)
(* place, then the deletions, then the creations that the method needs.    *)

ListRecords(c) ==
    LET listed == {r.id : r \in records}
        holding == {r.id : r \in {q \in records : q.value \in arg[c]}}
    IN  /\ provider = "cloudflare"
        /\ pc[c] = "read"
        /\ \/ /\ op[c] = "update" /\ listed = {}
              /\ Prepare(c, arg[c], {}, {})
           \/ /\ op[c] = "update"
              /\ \E first \in listed : Prepare(c, {}, {first}, listed \ {first})
           \/ op[c] = "values" /\ Prepare(c, arg[c], {}, listed)
           \/ /\ op[c] = "add"
              /\ IF holding # {} THEN End(c, "ok") ELSE Prepare(c, arg[c], {}, {})
           \/ /\ op[c] = "remove"
              /\ IF holding = {} THEN End(c, "ok")
                 ELSE IF Cardinality(listed) = 1 THEN End(c, "error")
                 ELSE \E target \in holding : Prepare(c, {}, {}, {target})
           \/ op[c] = "delete" /\ Prepare(c, {}, {}, listed)
           \/ "read" \in faults /\ End(c, "error")
        /\ UNCHANGED <<provider, endpoints, faults, records, callVars>>

Drop(f, c, x) == [f EXCEPT ![c] = @ \ {x}]

\* Mutant: the change also keeps the old record, under the same id.
ChangeRecordTwice(c) ==
    /\ provider = "cloudflare"
    /\ pc[c] = "write"
    /\ \E i \in changes[c] :
        /\ \E r \in records :
            r.id = i /\ records' = records \union {[r EXCEPT !.value = v] : v \in arg[c]}
        /\ changes' = Drop(changes, c, i)
        /\ UNCHANGED <<pc, sets, deletes>>
    /\ UNCHANGED <<provider, endpoints, faults, callVars>>

\* Records.Update of the first record; it fails if the record is gone.
ChangeRecord(c) ==
    /\ provider = "cloudflare"
    /\ pc[c] = "write"
    /\ \E i \in changes[c] :
        \/ /\ \E r \in records :
                /\ r.id = i
                /\ records' = (records \ {r}) \union {[r EXCEPT !.value = v] : v \in arg[c]}
           /\ \/ changes' = Drop(changes, c, i) /\ UNCHANGED <<pc, sets, deletes>>
              \/ "write" \in faults /\ End(c, "error")
        \/ /\ "write" \in faults \/ \A r \in records : r.id # i
           /\ End(c, "error") /\ UNCHANGED records
    /\ UNCHANGED <<provider, endpoints, faults, callVars>>

\* Mutant: RemoveRecordValue ignores the error as well.
DeleteRecordIgnoresErrors(c) ==
    /\ provider = "cloudflare"
    /\ pc[c] = "write" /\ changes[c] = {}
    /\ \E i \in deletes[c] :
        /\ \/ \E r \in records : r.id = i /\ records' = records \ {r}
           \/ "write" \in faults /\ UNCHANGED records
        /\ deletes' = Drop(deletes, c, i)
        /\ UNCHANGED <<pc, sets, changes>>
    /\ UNCHANGED <<provider, endpoints, faults, callVars>>

\* Records.Delete.  UpdateRecord and UpdateRecordValues ignore its error,
\* RemoveRecordValue and DeleteRecord return it.
DeleteRecord(c) ==
    /\ provider = "cloudflare"
    /\ pc[c] = "write" /\ changes[c] = {}
    /\ \E i \in deletes[c] :
        \/ /\ \E r \in records : r.id = i /\ records' = records \ {r}
           /\ \/ deletes' = Drop(deletes, c, i) /\ UNCHANGED <<pc, sets, changes>>
              \/ "write" \in faults /\ op[c] \in {"remove", "delete"} /\ End(c, "error")
        \/ /\ "write" \in faults \/ \A r \in records : r.id # i
           /\ IF op[c] \in {"update", "values"}
              THEN deletes' = Drop(deletes, c, i) /\ UNCHANGED <<pc, sets, changes>>
              ELSE End(c, "error")
           /\ UNCHANGED records
    /\ UNCHANGED <<provider, endpoints, faults, callVars>>

\* Records.New for each value.
NewRecord(c) ==
    /\ provider = "cloudflare"
    /\ pc[c] = "write" /\ changes[c] = {} /\ deletes[c] = {}
    /\ \E v \in sets[c] :
        \/ /\ records' = records \union AsRecords(c, {v})
           /\ \/ sets' = Drop(sets, c, v) /\ UNCHANGED <<pc, changes, deletes>>
              \/ "write" \in faults /\ End(c, "error")
        \/ "write" \in faults /\ End(c, "error") /\ UNCHANGED records
    /\ UNCHANGED <<provider, endpoints, faults, callVars>>

Return(c) ==
    /\ provider = "cloudflare"
    /\ pc[c] = "write" /\ changes[c] = {} /\ deletes[c] = {} /\ sets[c] = {}
    /\ End(c, "ok")
    /\ UNCHANGED <<provider, endpoints, faults, records, callVars>>

-----------------------------------------------------------------------------
(* The REST provider: one request to a configured endpoint.                *)

\* The endpoint a method uses, if it is configured; "none" and "skip" stand for
\* an error and for a return without a request.
Endpoint(o) ==
    IF o = "values" /\ "multi" \in endpoints THEN "multi"
    ELSE IF o \in {"remove", "delete"}
    THEN IF "delete" \in endpoints THEN "delete" ELSE "skip"
    ELSE IF "update" \in endpoints THEN "update" ELSE "none"

\* AddRecordValue sends what UpdateRecord sends; UpdateRecordValues without an
\* endpoint of its own sends only its last value.  RemoveRecordValue and
\* DeleteRecord share an endpoint, which may or may not look at the address.
EndpointResult(c) ==
    CASE Endpoint(op[c]) = "multi" -> {sets[c]}
      [] Endpoint(op[c]) = "update" -> {{v} : v \in sets[c]}
      [] Endpoint(op[c]) = "delete" -> {{}, Contents \ sets[c]}

callEndpoint(c) ==
    /\ provider = "restapi"
    /\ pc[c] = "write"
    /\ \/ Endpoint(op[c]) = "none" /\ End(c, "error") /\ UNCHANGED records
       \/ Endpoint(op[c]) = "skip" /\ End(c, "ok") /\ UNCHANGED records
       \/ /\ Endpoint(op[c]) \notin {"none", "skip"}
          /\ \E vals \in EndpointResult(c) : records' = AsRecords(NoCaller, vals)
          /\ End(c, "ok") \/ ("write" \in faults /\ End(c, "error"))
       \/ /\ Endpoint(op[c]) \notin {"none", "skip"}
          /\ "write" \in faults /\ End(c, "error") /\ UNCHANGED records
    /\ UNCHANGED <<provider, endpoints, faults, callVars>>

Next ==
    \/ \E c \in Callers : \E o \in Operations : \E vals \in Arguments(o) : Call(c, o, vals)
    \/ \E c \in Callers :
        \/ ReadSet(c) \/ WriteSet(c)
        \/ ListRecords(c) \/ ChangeRecord(c) \/ DeleteRecord(c) \/ NewRecord(c) \/ Return(c)
        \/ callEndpoint(c)

Spec == Init /\ [][Next]_vars

-----------------------------------------------------------------------------
(* Properties.                                                             *)

\* Every variable keeps its type, and record ids stay unique.
TypeOK ==
    /\ provider \in Providers
    /\ endpoints \subseteq {"update", "multi", "delete"}
    /\ faults \in FaultSets
    /\ records \subseteq [id : Ids, value : Values]
    /\ \A q, r \in records : q.id = r.id => q = r
    /\ pc \in [Callers -> {"idle", "read", "write", "ok", "error"}]
    /\ op \in [Callers -> AllOperations]
    /\ arg \in [Callers -> SUBSET Values]
    /\ sets \in [Callers -> SUBSET Values]
    /\ changes \in [Callers -> SUBSET Ids]
    /\ deletes \in [Callers -> SUBSET Ids]
    /\ before \in [Callers -> SUBSET [id : Ids, value : Values]]
    /\ alone \in [Callers -> BOOLEAN]

\* What the Provider interface says of the methods.
Specified(o, vals, old) ==
    CASE o = "update" -> vals
      [] o = "values" -> IF vals = {} THEN old ELSE vals
      [] o = "add" -> old \union vals
      [] o = "remove" -> IF old = vals THEN old ELSE old \ vals
      [] o = "delete" -> {}

\* The call of c has ended, and no other has been under way since it began.
Latest(c) == pc[c] \in {"ok", "error"} /\ alone[c]

\* No value is held twice.  Cloudflare's records can come to that, when two calls
\* add a value at the same time or one of them loses a reply.
Distinct(recs) == \A q, r \in recs : q.value = r.value => q = r

\* Route53, Azure and Cloudflare, for all the difference in their calls, leave a
\* name with what the Provider interface specifies, when no call fails and no
\* other method is at work on it.
AgreesWithInterface ==
    \A c \in Callers :
        Latest(c) /\ faults = {} /\ provider # "restapi" /\ Distinct(before[c]) =>
            /\ Contents = Specified(op[c], arg[c], ValuesOf(before[c]))
            /\ pc[c] = "error" <=> op[c] = "remove" /\ ValuesOf(before[c]) = arg[c]

\* A method that reports success has done its part, also when other API calls
\* of it failed unnoticed: the value to set or add is there, and, but for Azure
\* and the REST endpoints, the value to remove is not.
SuccessIsDone ==
    \A c \in Callers :
        Latest(c) /\ pc[c] = "ok" =>
            /\ op[c] \in {"update", "add"} => arg[c] \subseteq Contents
            /\ op[c] = "values" /\ provider # "restapi" => arg[c] \subseteq Contents
            /\ op[c] = "remove" /\ provider \in {"route53", "cloudflare"} /\ Distinct(before[c])
                 => arg[c] \intersect Contents = {}

\* Record sets are never emptied but by DeleteRecord, whatever calls interleave
\* and fail: a name that resolves goes on resolving.
NotEmptied ==
    provider \in RecordSets /\ Contents # {} /\ Contents' = {} =>
        \E c \in Callers : op[c] = "delete" /\ pc[c] = "write" /\ pc'[c] # "write"
EmptiedOnlyByDelete == [][NotEmptied]_vars

\* AddRecordValue "adds a value": the values that were there remain.
AddKeepsOthers ==
    \A c \in Callers : Latest(c) /\ op[c] = "add" => ValuesOf(before[c]) \subseteq Contents
=============================================================================
