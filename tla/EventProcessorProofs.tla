------------------------ MODULE EventProcessorProofs ------------------------
(***************************************************************************)
(* Proofs about EventProcessor, for any number of handlers, clusters and   *)
(* reports and with every disturbance, and about EventReporting, which     *)
(* puts agents and a network in front of it.                               *)
(***************************************************************************)
EXTENDS EventReporting, FiniteSetTheorems, TLAPS

\* A handler that has started counts its report under one of the keys.
LEMMA KeyInKeys ==
    ASSUME TypeOK, NEW h \in Handlers, pc[h] # "idle"
    PROVE  Key(h) \in Keys /\ ev[h] \in Events
BY DEF TypeOK, Key, Keys

\* What an action that counts a report does to the numbers: they stay naturals.
LEMMA CountedType ==
    ASSUME TypeOK, NEW h \in Handlers, pc[h] # "idle", Counted(h)
    PROVE  /\ count' \in [Keys -> Nat]
           /\ n' \in [Handlers -> Nat]
           /\ win' \in [Handlers -> Nat]
BY KeyInKeys DEF Counted, TypeOK

\* LTRIM leaves a history of events.
LEMMA NewestType ==
    ASSUME NEW s \in Seq(Events)
    PROVE  Newest(s) \in Seq(Events)
<1>1. HistoryMax \in Nat
  BY HistoryAssumption
<1>2. CASE Len(s) > HistoryMax
  BY <1>1, <1>2 DEF Newest
<1>3. CASE ~(Len(s) > HistoryMax)
  BY <1>1, <1>3 DEF Newest
<1> QED BY <1>2, <1>3

\* Every step keeps the types.
LEMMA TypeStep == TypeOK /\ [Next]_vars => TypeOK'
<1> SUFFICES ASSUME TypeOK, [Next]_vars PROVE TypeOK'
  OBVIOUS
<1> USE DEF Goto, Live, Ended
<1>1. ASSUME NEW h \in Handlers, NEW e \in Events, CreateEventHandler(h, e) PROVE TypeOK'
  BY <1>1 DEF TypeOK, CreateEventHandler, storeVars
<1>2. ASSUME NEW h \in Handlers, LookupCluster(h) PROVE TypeOK'
  BY <1>2, EventAssumption DEF TypeOK, LookupCluster, storeVars
<1>3. ASSUME NEW h \in Handlers, Incr(h) PROVE TypeOK'
  BY <1>3, CountedType DEF TypeOK, Incr
<1>4. ASSUME NEW h \in Handlers, IncrError(h) PROVE TypeOK'
  BY <1>4, CountedType DEF TypeOK, IncrError
<1>5. ASSUME NEW h \in Handlers, Expire(h) PROVE TypeOK'
  BY <1>5, KeyInKeys DEF TypeOK, Expire
<1>6. ASSUME NEW h \in Handlers, Lpush(h) PROVE TypeOK'
  <2>1. ev[h] \in Events
    BY <1>6, KeyInKeys DEF Lpush
  <2>2. <<ev[h]>> \o history \in Seq(Events)
    BY <2>1 DEF TypeOK
  <2>3. history' \in Seq(Events)
    BY <1>6, <2>2 DEF TypeOK, Lpush
  <2> QED
    BY <1>6, <2>3 DEF TypeOK, Lpush
<1>7. ASSUME NEW h \in Handlers, Ltrim(h) PROVE TypeOK'
  BY <1>7, NewestType DEF TypeOK, Ltrim
<1>8. ASSUME NEW h \in Handlers, RecordInMemory(h) PROVE TypeOK'
  <2>1. pc[h] # "idle" /\ ev[h] \in Events /\ Key(h) \in Keys
    BY <1>8, KeyInKeys DEF RecordInMemory
  <2>a. <<ev[h]>> \o history \in Seq(Events)
    BY <2>1 DEF TypeOK
  <2>2. Newest(<<ev[h]>> \o history) \in Seq(Events)
    BY <2>a, NewestType
  <2>3. history' \in Seq(Events) /\ ttl' \in [Keys -> BOOLEAN]
    BY <1>8, <2>1, <2>2 DEF TypeOK, RecordInMemory
  <2> QED
    BY <1>8, <2>1, <2>3, CountedType DEF TypeOK, RecordInMemory
<1>9. ASSUME NEW h \in Handlers, Decide(h) PROVE TypeOK'
  BY <1>9 DEF TypeOK, Decide, storeVars
<1>10. ASSUME NEW h \in Handlers, Crash(h) PROVE TypeOK'
  BY <1>10 DEF TypeOK, Crash, storeVars
<1>11. ASSUME NEW k \in Keys, ExpireWindow(k) PROVE TypeOK'
  BY <1>11 DEF TypeOK, ExpireWindow, handlerVars
<1>12. ASSUME NEW m \in Masters, NEW p \in Policies \union {Unregistered}, EditCluster(m, p)
       PROVE TypeOK'
  BY <1>12 DEF TypeOK, EditCluster, storeVars, handlerVars
<1>13. CASE UNCHANGED vars
  BY <1>13 DEF TypeOK, vars, storeVars, handlerVars
<1> QED
  BY <1>1, <1>2, <1>3, <1>4, <1>5, <1>6, <1>7, <1>8, <1>9, <1>10, <1>11, <1>12, <1>13
  DEF Next, HandlerStep

LEMMA TypeInit == Init => TypeOK
BY DEF Init, TypeOK

\* TypeOK is an invariant.
THEOREM TypeCorrect == Spec => []TypeOK
BY TypeInit, TypeStep, PTL DEF Spec

-----------------------------------------------------------------------------
(***************************************************************************)
(* The inductive invariant.  What makes NumberedOnce inductive is that the *)
(* numbers of the current window are bounded by its count (BelowCount) and *)
(* that a window index is never used again (PastWindows): so INCR's reply  *)
(* is fresh, and closing a window frees all numbers at once.               *)
(***************************************************************************)

\* A handler has a number exactly from its INCR on.
CountedFromIncr ==
    \A h \in Handlers :
        /\ pc[h] \in {"idle", "lookup", "incr"} => n[h] = 0
        /\ pc[h] \in {"expire", "push", "trim", "decide", "act", "done"} => n[h] > 0

PastWindows == \A h \in Handlers : n[h] > 0 => win[h] <= window[Key(h)]

BelowCount ==
    \A h \in Handlers : n[h] > 0 /\ win[h] = window[Key(h)] => n[h] <= count[Key(h)]

\* No two handlers have the same number of the same window.
Distinct ==
    \A g, h \in Handlers :
        n[g] > 0 /\ n[h] > 0 /\ Key(g) = Key(h) /\ win[g] = win[h] /\ n[g] = n[h] => g = h

\* Every number up to the count of the current window is some handler's.
Complete ==
    \A k \in Keys : \A i \in 1..count[k] : \E h \in Reports(k, window[k]) : n[h] = i

\* The same below the number of a handler, also in windows that are closed.
Backed ==
    \A h \in Handlers : n[h] > 0 =>
        \A i \in 1..n[h] : \E g \in Reports(Key(h), win[h]) : n[g] = i

\* Decide's verdict stands in the handler's last state.
Verdict ==
    \A h \in Handlers :
        /\ pc[h] = "act" => policy[h].act /\ n[h] = TargetCount(policy[h])
        /\ pc[h] = "done" => ~(policy[h].act /\ n[h] = TargetCount(policy[h]))

IInv == /\ TypeOK /\ CountedFromIncr /\ PastWindows /\ BelowCount
        /\ Distinct /\ Complete /\ Backed /\ Verdict

Numbers == PastWindows /\ BelowCount /\ Distinct /\ Complete /\ Backed

\* A step that neither counts a report nor closes a window keeps the numbers.
LEMMA QuietStep ==
    ASSUME IInv, UNCHANGED <<count, window, n, win>>,
           \A g \in Handlers : n[g] > 0 => ev'[g] = ev[g]
    PROVE  Numbers'
<1>1. \A g \in Handlers : n[g] > 0 => Key(g)' = Key(g)
  BY DEF Key
<1>2. \A k, w : Reports(k, w)' = Reports(k, w)
  BY <1>1 DEF Reports
<1>3. PastWindows' /\ BelowCount' /\ Distinct'
  BY <1>1 DEF IInv, PastWindows, BelowCount, Distinct
<1>4. Complete'
  BY <1>2 DEF IInv, Complete
<1>5. Backed'
  BY <1>1, <1>2 DEF IInv, Backed
<1> QED BY <1>3, <1>4, <1>5 DEF Numbers

\* Counting a report gives it the one number that is next.
LEMMA CountStep ==
    ASSUME IInv, NEW h \in Handlers, pc[h] = "incr", Counted(h), UNCHANGED <<window, ev>>
    PROVE  Numbers' /\ n'[h] > 0
<1>0. PICK k \in Keys : k = Key(h)
  BY KeyInKeys DEF IInv
<1> DEFINE c == count[k]
<1>1. n[h] = 0 /\ c \in Nat /\ window[k] \in Nat
  BY DEF IInv, CountedFromIncr, TypeOK
<1>2. \A g : Key(g)' = Key(g)
  BY DEF Key
<1>3. /\ n'[h] = c + 1 /\ win'[h] = window[k] /\ count'[k] = c + 1
      /\ \A g \in Handlers : g # h => n'[g] = n[g] /\ win'[g] = win[g]
      /\ \A j \in Keys : j # k => count'[j] = count[j]
  BY <1>0, <1>1 DEF IInv, TypeOK, Counted
<1>4. \A g \in Handlers : n[g] > 0 => Key(g) \in Keys /\ g # h /\ n[g] \in Nat
  <2> SUFFICES ASSUME NEW g \in Handlers, n[g] > 0
               PROVE Key(g) \in Keys /\ g # h /\ n[g] \in Nat
    OBVIOUS
  <2>1. pc[g] # "idle" /\ n[g] \in Nat
    BY DEF IInv, CountedFromIncr, TypeOK
  <2> QED BY <1>1, <2>1, KeyInKeys DEF IInv
<1> HIDE DEF c
<1>5. PastWindows'
  <2> SUFFICES ASSUME NEW g \in Handlers, n'[g] > 0
               PROVE win'[g] <= window'[Key(g)']
    BY DEF PastWindows
  <2>1. CASE g = h
    BY <2>1, <1>1, <1>0, <1>2, <1>3
  <2>2. CASE g # h
    BY <2>2, <1>2, <1>3 DEF IInv, PastWindows
  <2> QED BY <2>1, <2>2
<1>6. BelowCount'
  <2> SUFFICES ASSUME NEW g \in Handlers, n'[g] > 0, win'[g] = window'[Key(g)']
               PROVE n'[g] <= count'[Key(g)']
    BY DEF BelowCount
  <2>1. CASE g = h
    BY <2>1, <1>1, <1>0, <1>2, <1>3
  <2>2. CASE g # h
    <3>1. n'[g] = n[g] /\ win[g] = window[Key(g)] /\ n[g] > 0
      BY <2>2, <1>2, <1>3
    <3>2. n[g] <= count[Key(g)] /\ n[g] \in Nat /\ Key(g) \in Keys /\ count[Key(g)] \in Nat
      BY <3>1, <1>4 DEF IInv, BelowCount, TypeOK
    <3>3. count[Key(g)] <= count'[Key(g)]
      BY <3>2, <1>1, <1>3 DEF c
    <3> QED BY <3>1, <3>2, <3>3, <1>2, <1>1, <1>3 DEF c
  <2> QED BY <2>1, <2>2
<1>7. Distinct'
  <2>1. ASSUME NEW g \in Handlers, g # h, n[g] > 0, Key(g) = k, win[g] = window[k]
        PROVE n[g] # c + 1
    <3>1. n[g] <= c
      BY <2>1 DEF IInv, BelowCount, c
    <3> QED BY <3>1, <2>1, <1>1, <1>4
  <2> SUFFICES ASSUME NEW f \in Handlers, NEW g \in Handlers, n'[f] > 0, n'[g] > 0,
                      Key(f)' = Key(g)', win'[f] = win'[g], n'[f] = n'[g]
               PROVE f = g
    BY DEF Distinct
  <2>2. CASE f = h /\ g # h
    BY <2>2, <2>1, <1>0, <1>2, <1>3
  <2>3. CASE g = h /\ f # h
    BY <2>3, <2>1, <1>0, <1>2, <1>3
  <2>4. CASE f # h /\ g # h
    BY <2>4, <1>2, <1>3 DEF IInv, Distinct
  <2> QED BY <2>2, <2>3, <2>4
<1>8. \A j, w : \A g \in Reports(j, w) : g \in Reports(j, w)' /\ n'[g] = n[g]
  BY <1>2, <1>3, <1>4 DEF Reports
<1>9. h \in Reports(k, window[k])'
  BY <1>0, <1>1, <1>2, <1>3 DEF Reports
<1>10. Complete'
  <2> SUFFICES ASSUME NEW j \in Keys, NEW i \in 1..count'[j]
               PROVE \E g \in Reports(j, window[j])' : n'[g] = i
    BY DEF Complete
  <2>1. CASE i \in 1..count[j]
    <3>1. PICK g \in Reports(j, window[j]) : n[g] = i
      BY <2>1 DEF IInv, Complete
    <3> QED BY <3>1, <1>8
  <2>2. CASE i \notin 1..count[j]
    <3>1. j = k /\ i = c + 1
      BY <2>2, <1>1, <1>3 DEF c
    <3> QED BY <3>1, <1>3, <1>9
  <2> QED BY <2>1, <2>2
<1>11. Backed'
  <2> SUFFICES ASSUME NEW f \in Handlers, n'[f] > 0, NEW i \in 1..n'[f]
               PROVE \E g \in Reports(Key(f), win[f])' : n'[g] = i
    BY DEF Backed
  <2>1. CASE f # h
    <3>1. PICK g \in Reports(Key(f), win[f]) : n[g] = i
      BY <2>1, <1>3 DEF IInv, Backed
    <3> QED BY <3>1, <1>8, <1>2, <1>3, <2>1
  <2>2. CASE f = h
    <3>1. i \in 1..count'[k]
      BY <2>2, <1>3
    <3>2. PICK g \in Reports(k, window[k])' : n'[g] = i
      BY <3>1, <1>10, <1>1 DEF Complete
    <3> QED BY <3>2, <2>2, <1>0, <1>2, <1>3
  <2> QED BY <2>1, <2>2
<1> QED BY <1>1, <1>3, <1>5, <1>6, <1>7, <1>10, <1>11 DEF Numbers

\* Closing a window frees its numbers: nobody is in the next window yet.
LEMMA CloseStep ==
    ASSUME IInv, NEW k \in Keys, ExpireWindow(k)
    PROVE  Numbers'
<1>1. /\ count'[k] = 0 /\ window'[k] = window[k] + 1 /\ window[k] \in Nat
      /\ \A j \in Keys : j # k => count'[j] = count[j] /\ window'[j] = window[j]
      /\ UNCHANGED <<n, win, ev>>
  BY DEF ExpireWindow, handlerVars, IInv, TypeOK
<1>2. \A g : Key(g)' = Key(g)
  BY <1>1 DEF Key
<1>3. \A j, w : Reports(j, w)' = Reports(j, w)
  BY <1>1, <1>2 DEF Reports
<1>4. \A g \in Handlers : n[g] > 0 =>
        Key(g) \in Keys /\ win[g] \in Nat /\ win[g] <= window[Key(g)] /\ window[Key(g)] \in Nat
  <2> SUFFICES ASSUME NEW g \in Handlers, n[g] > 0
               PROVE /\ Key(g) \in Keys /\ win[g] \in Nat
                     /\ win[g] <= window[Key(g)] /\ window[Key(g)] \in Nat
    OBVIOUS
  <2>1. pc[g] # "idle"
    BY DEF IInv, CountedFromIncr
  <2>2. Key(g) \in Keys
    BY <2>1, KeyInKeys DEF IInv
  <2> QED BY <2>2 DEF IInv, TypeOK, PastWindows
<1>5. PastWindows'
  <2> SUFFICES ASSUME NEW g \in Handlers, n[g] > 0
               PROVE win[g] <= window'[Key(g)]
    BY <1>1, <1>2 DEF PastWindows
  <2> QED BY <1>1, <1>4
<1>6. BelowCount'
  <2> SUFFICES ASSUME NEW g \in Handlers, n[g] > 0, win[g] = window'[Key(g)]
               PROVE n[g] <= count'[Key(g)]
    BY <1>1, <1>2 DEF BelowCount
  <2>1. Key(g) # k
    BY <1>1, <1>4
  <2> QED BY <2>1, <1>1, <1>4 DEF IInv, BelowCount
<1>7. Distinct'
  BY <1>1, <1>2 DEF IInv, Distinct
<1>8. Complete'
  <2> SUFFICES ASSUME NEW j \in Keys, NEW i \in 1..count'[j]
               PROVE \E h \in Reports(j, window[j])' : n'[h] = i
    BY DEF Complete
  <2>1. j # k
    BY <1>1
  <2>2. PICK h \in Reports(j, window[j]) : n[h] = i
    BY <2>1, <1>1 DEF IInv, Complete
  <2> QED BY <2>1, <2>2, <1>1, <1>3
<1>9. Backed'
  BY <1>1, <1>2, <1>3 DEF IInv, Backed
<1> QED BY <1>5, <1>6, <1>7, <1>8, <1>9 DEF Numbers

LEMMA IInvInit == Init => IInv
<1> SUFFICES ASSUME Init PROVE IInv
  OBVIOUS
<1>1. TypeOK
  BY TypeInit
<1>2. \A h \in Handlers : n[h] = 0 /\ pc[h] = "idle"
  BY DEF Init
<1>3. \A k \in Keys : count[k] = 0
  BY DEF Init
<1> QED
  BY <1>1, <1>2, <1>3 DEF IInv, CountedFromIncr, PastWindows, BelowCount, Distinct,
     Complete, Backed, Verdict

\* Every step keeps the inductive invariant.
LEMMA IInvStep == IInv /\ [Next]_vars => IInv'
<1> SUFFICES ASSUME IInv, [Next]_vars PROVE IInv'
  OBVIOUS
<1>t. TypeOK /\ TypeOK'
  BY TypeStep DEF IInv
<1> USE DEF Goto
<1> SUFFICES Numbers' /\ CountedFromIncr' /\ Verdict'
  BY <1>t DEF IInv, Numbers
<1>1. ASSUME NEW h \in Handlers, NEW e \in Events, CreateEventHandler(h, e)
      PROVE Numbers' /\ CountedFromIncr' /\ Verdict'
  <2>1. n[h] = 0
    BY <1>1 DEF IInv, CountedFromIncr, CreateEventHandler
  <2>2. Numbers'
    BY <1>1, <1>t, <2>1, QuietStep DEF CreateEventHandler, storeVars, TypeOK
  <2> QED
    BY <1>1, <1>t, <2>2 DEF IInv, CountedFromIncr, Verdict, CreateEventHandler, storeVars, TypeOK
<1>2. ASSUME NEW h \in Handlers, LookupCluster(h)
      PROVE Numbers' /\ CountedFromIncr' /\ Verdict'
  <2>1. Numbers'
    BY <1>2, QuietStep DEF LookupCluster, storeVars
  <2> QED
    BY <1>2, <1>t, <2>1 DEF IInv, CountedFromIncr, Verdict, LookupCluster, storeVars, TypeOK
<1>3. ASSUME NEW h \in Handlers, Incr(h)
      PROVE Numbers' /\ CountedFromIncr' /\ Verdict'
  <2>1. Numbers' /\ n'[h] > 0
    BY <1>3, CountStep DEF Incr
  <2>2. \A g \in Handlers : g # h => n'[g] = n[g] /\ pc'[g] = pc[g] /\ policy'[g] = policy[g]
    BY <1>3, <1>t DEF Incr, Counted, TypeOK
  <2>3. pc'[h] \in {"expire", "decide"}
    BY <1>3, <1>t DEF Incr, TypeOK
  <2> QED
    BY <2>1, <2>2, <2>3 DEF IInv, CountedFromIncr, Verdict, TargetCount
<1>4. ASSUME NEW h \in Handlers, IncrError(h)
      PROVE Numbers' /\ CountedFromIncr' /\ Verdict'
  <2>1. Numbers'
    <3>1. CASE Counted(h)
      BY <1>4, <3>1, CountStep DEF IncrError
    <3>2. CASE UNCHANGED <<count, n, win>>
      BY <1>4, <3>2, QuietStep DEF IncrError
    <3> QED BY <1>4, <3>1, <3>2 DEF IncrError
  <2>2. \A g \in Handlers : g # h => n'[g] = n[g] /\ pc'[g] = pc[g] /\ policy'[g] = policy[g]
    BY <1>4, <1>t DEF IncrError, Counted, TypeOK
  <2>3. pc'[h] = "failed"
    BY <1>4, <1>t DEF IncrError, TypeOK
  <2> QED
    BY <2>1, <2>2, <2>3 DEF IInv, CountedFromIncr, Verdict, TargetCount
<1>5. ASSUME NEW h \in Handlers, Expire(h) \/ Lpush(h) \/ Ltrim(h)
      PROVE Numbers' /\ CountedFromIncr' /\ Verdict'
  <2>1. Numbers'
    BY <1>5, QuietStep DEF Expire, Lpush, Ltrim
  <2> QED
    BY <1>5, <1>t, <2>1 DEF IInv, CountedFromIncr, Verdict, Expire, Lpush, Ltrim, TypeOK
<1>6. ASSUME NEW h \in Handlers, RecordInMemory(h)
      PROVE Numbers' /\ CountedFromIncr' /\ Verdict'
  <2>1. Numbers' /\ n'[h] > 0
    BY <1>6, CountStep DEF RecordInMemory
  <2>2. \A g \in Handlers : g # h => n'[g] = n[g] /\ pc'[g] = pc[g] /\ policy'[g] = policy[g]
    BY <1>6, <1>t DEF RecordInMemory, Counted, TypeOK
  <2>3. pc'[h] = "decide"
    BY <1>6, <1>t DEF RecordInMemory, TypeOK
  <2> QED
    BY <2>1, <2>2, <2>3 DEF IInv, CountedFromIncr, Verdict, TargetCount
<1>7. ASSUME NEW h \in Handlers, Decide(h)
      PROVE Numbers' /\ CountedFromIncr' /\ Verdict'
  <2>1. Numbers'
    BY <1>7, QuietStep DEF Decide, storeVars
  <2>2. UNCHANGED <<n, policy>> /\ \A g \in Handlers : g # h => pc'[g] = pc[g]
    BY <1>7, <1>t DEF Decide, TypeOK
  <2>3. /\ n[h] > 0
        /\ pc'[h] = IF policy[h].act /\ n[h] = TargetCount(policy[h]) THEN "act" ELSE "done"
    BY <1>7, <1>t DEF Decide, ShouldUpdateDNS, TypeOK, IInv, CountedFromIncr
  <2> QED
    BY <2>1, <2>2, <2>3 DEF IInv, CountedFromIncr, Verdict, TargetCount
<1>8. ASSUME NEW h \in Handlers, Crash(h)
      PROVE Numbers' /\ CountedFromIncr' /\ Verdict'
  <2>1. Numbers'
    BY <1>8, QuietStep DEF Crash, storeVars
  <2> QED
    BY <1>8, <1>t, <2>1 DEF IInv, CountedFromIncr, Verdict, Crash, storeVars, TypeOK
<1>9. ASSUME NEW k \in Keys, ExpireWindow(k)
      PROVE Numbers' /\ CountedFromIncr' /\ Verdict'
  <2>1. Numbers'
    BY <1>9, CloseStep
  <2> QED
    BY <1>9, <2>1 DEF IInv, CountedFromIncr, Verdict, TargetCount, ExpireWindow, handlerVars
<1>10. ASSUME UNCHANGED <<storeVars, handlerVars>>
       PROVE Numbers' /\ CountedFromIncr' /\ Verdict'
  <2>1. Numbers'
    BY <1>10, QuietStep DEF storeVars, handlerVars
  <2> QED
    BY <1>10, <2>1 DEF IInv, CountedFromIncr, Verdict, TargetCount, handlerVars
<1>11. CASE \E m \in Masters, p \in Policies \union {Unregistered} : EditCluster(m, p)
  BY <1>10, <1>11 DEF EditCluster
<1>12. CASE UNCHANGED vars
  BY <1>10, <1>12 DEF vars
<1> QED
  BY <1>1, <1>2, <1>3, <1>4, <1>5, <1>6, <1>7, <1>8, <1>9, <1>11, <1>12 DEF Next, HandlerStep

LEMMA Inductive == Spec => []IInv
BY IInvInit, IInvStep, PTL DEF Spec

-----------------------------------------------------------------------------
(* The theorems.                                                           *)

\* Every report of a window has a number of its own, and the numbers of the
\* current window are 1..count.
THEOREM NumberedOnceHolds == Spec => []NumberedOnce
<1>1. IInv => NumberedOnce
  <2> SUFFICES ASSUME IInv, NEW k \in Keys
               PROVE /\ \A w \in 0..window[k] : \A g, h \in Reports(k, w) : n[g] = n[h] => g = h
                     /\ {n[h] : h \in Reports(k, window[k])} = 1..count[k]
    BY DEF NumberedOnce
  <2>1. \A w : \A g, h \in Reports(k, w) : n[g] = n[h] => g = h
    BY DEF IInv, Distinct, Reports
  <2>2. \A h \in Reports(k, window[k]) : n[h] \in 1..count[k]
    BY DEF IInv, BelowCount, Reports, TypeOK
  <2>3. \A i \in 1..count[k] : \E h \in Reports(k, window[k]) : n[h] = i
    BY DEF IInv, Complete
  <2> QED BY <2>1, <2>2, <2>3
<1> QED BY <1>1, Inductive, PTL

\* With one target per window, at most one handler acts on the window.
THEOREM ActsOnce == Spec => []ActsOncePerWindow
<1>1. IInv => ActsOncePerWindow
  BY DEF IInv, ActsOncePerWindow, Distinct, Verdict, CountedFromIncr
<1> QED BY <1>1, Inductive, PTL

\* The report that brings a window to its target is not passed over.
THEOREM TargetServed == Spec => []TargetNotSkipped
<1>1. IInv => TargetNotSkipped
  <2> SUFFICES ASSUME IInv, NEW k \in Keys, NEW t \in 1..count[k]
               PROVE \E h \in Reports(k, window[k]) :
                       /\ n[h] = t
                       /\ pc[h] = "done" => ~(policy[h].act /\ TargetCount(policy[h]) = t)
    BY DEF TargetNotSkipped
  <2>1. PICK h \in Reports(k, window[k]) : n[h] = t
    BY DEF IInv, Complete
  <2> QED BY <2>1 DEF IInv, Verdict, Reports
<1> QED BY <1>1, Inductive, PTL

\* A handler that acts has its target's number of reports behind it.
THEOREM QuorumBehindAct == Spec => []ActsWithQuorum
<1>1. IInv => ActsWithQuorum
  <2> SUFFICES ASSUME IInv, NEW h \in Handlers, pc[h] = "act"
               PROVE Cardinality(Reports(Key(h), win[h])) >= TargetCount(policy[h])
    BY DEF ActsWithQuorum
  <2> DEFINE R == Reports(Key(h), win[h])
             t == n[h]
             f == [i \in 1..t |-> CHOOSE g \in R : n[g] = i]
  <2>1. t \in Nat /\ t > 0 /\ t = TargetCount(policy[h])
    BY DEF IInv, TypeOK, CountedFromIncr, Verdict
  <2>2. \A i \in 1..t : f[i] \in R /\ n[f[i]] = i
    BY <2>1 DEF IInv, Backed
  <2>3. IsFiniteSet(R)
    BY HandlersFinite, FS_Subset DEF Reports
  <2>4. IsFiniteSet(1..t) /\ Cardinality(1..t) = t
    BY <2>1, FS_Interval
  <2> HIDE DEF R, t
  <2>5. f \in Injection(1..t, R)
    BY <2>2 DEF Injection, IsInjective
  <2> QED
    BY <2>1, <2>3, <2>4, <2>5, FS_Injection, FS_CardinalityType DEF R
<1> QED BY <1>1, Inductive, PTL

-----------------------------------------------------------------------------
(* The refinement.                                                         *)

Ballot(h) == <<Key(h), win[h], n[h]>>
Ballots == {Ballot(h) : h \in {g \in Handlers : n[g] > 0}}
Fired == {Ballot(h) : h \in {g \in Handlers : pc[g] = "act"}}

\* A step that changes no number and lets nobody act is invisible.
LEMMA InvisibleStep ==
    ASSUME IInv, UNCHANGED <<count, window, n, win>>,
           \A g \in Handlers : n[g] > 0 => ev'[g] = ev[g],
           \A g \in Handlers : pc'[g] = "act" <=> pc[g] = "act"
    PROVE  UNCHANGED Window!vars
<1>1. \A g \in Handlers : n[g] > 0 => Ballot(g)' = Ballot(g)
  BY DEF Ballot, Key
<1>2. \A g \in Handlers : pc[g] = "act" => n[g] > 0
  BY DEF IInv, CountedFromIncr
<1>3. Ballots' = Ballots
  BY <1>1 DEF Ballots
<1>4. Fired' = Fired
  BY <1>1, <1>2 DEF Fired
<1> QED BY <1>3, <1>4 DEF Window!vars, Ballots, Fired, Ballot

\* Counting a report is casting a ballot.
LEMMA CountIsCast ==
    ASSUME IInv, NEW h \in Handlers, pc[h] = "incr", Counted(h), UNCHANGED <<window, ev>>,
           \A g \in Handlers : pc'[g] = "act" <=> pc[g] = "act"
    PROVE  \E k \in Keys : Window!Cast(k)
<1>1. Key(h) \in Keys /\ n[h] = 0
  BY KeyInKeys DEF IInv, CountedFromIncr
<1>2. \A g : Key(g)' = Key(g)
  BY DEF Key
<1>3. /\ count' = [count EXCEPT ![Key(h)] = @ + 1]
      /\ n'[h] = count[Key(h)] + 1 /\ n'[h] > 0 /\ win'[h] = window[Key(h)]
      /\ \A g \in Handlers : g # h => n'[g] = n[g] /\ win'[g] = win[g]
  BY <1>1 DEF IInv, TypeOK, Counted
<1>4. \A g \in Handlers : g # h => Ballot(g)' = Ballot(g)
  BY <1>2, <1>3 DEF Ballot
<1>5. Ballot(h)' = <<Key(h), window[Key(h)], count[Key(h)] + 1>>
  BY <1>2, <1>3 DEF Ballot
<1>6. Ballots' = Ballots \union {<<Key(h), window[Key(h)], count[Key(h)] + 1>>}
  BY <1>1, <1>3, <1>4, <1>5 DEF Ballots
<1>7. Fired' = Fired
  <2>1. pc[h] # "act"
    OBVIOUS
  <2> QED BY <2>1, <1>4 DEF Fired
<1>8. PICK k \in Keys : k = Key(h)
  BY <1>1
<1>9. Window!Cast(k)
  BY <1>3, <1>6, <1>7, <1>8 DEF Window!Cast, Ballots, Fired, Ballot
<1> QED BY <1>9

\* A handler that decides to act fires its ballot, which nobody has fired.
LEMMA ActIsFire ==
    ASSUME IInv, NEW h \in Handlers, Decide(h), pc'[h] = "act"
    PROVE  \E b \in Ballots : Window!Fire(b)
<1>1. n[h] > 0 /\ pc[h] = "decide" /\ UNCHANGED <<count, window, n, win, ev>>
  BY DEF IInv, CountedFromIncr, Decide, storeVars
<1>2. \A g \in Handlers : g # h => pc'[g] = pc[g]
  BY DEF IInv, TypeOK, Decide, Goto
<1>3. \A g : Ballot(g)' = Ballot(g)
  BY <1>1 DEF Ballot, Key
<1>4. Ballots' = Ballots /\ Ballot(h) \in Ballots
  BY <1>1, <1>3 DEF Ballots
<1>5. Fired' = Fired \union {Ballot(h)}
  BY <1>2, <1>3, <1>1 DEF Fired
<1>6. Ballot(h) \notin Fired
  <2> SUFFICES ASSUME NEW g \in Handlers, pc[g] = "act", Ballot(g) = Ballot(h) PROVE FALSE
    BY DEF Fired
  <2>1. Key(g) = Key(h) /\ win[g] = win[h] /\ n[g] = n[h]
    BY DEF Ballot
  <2>2. g = h
    BY <2>1, <1>1 DEF IInv, Distinct
  <2> QED BY <2>2, <1>1
<1>7. PICK b \in Ballots : b = Ballot(h)
  BY <1>4
<1>8. Window!Fire(b)
  BY <1>1, <1>4, <1>5, <1>6, <1>7 DEF Window!Fire, Ballots, Fired, Ballot
<1> QED BY <1>8

\* An expiry closes the window.
LEMMA ExpireIsClose ==
    ASSUME IInv, NEW k \in Keys, ExpireWindow(k)
    PROVE  Window!Close(k)
<1>1. UNCHANGED <<n, win, ev, pc>>
  BY DEF ExpireWindow, handlerVars
<1>2. \A g : Ballot(g)' = Ballot(g)
  BY <1>1 DEF Ballot, Key
<1>3. Ballots' = Ballots /\ Fired' = Fired
  BY <1>1, <1>2 DEF Ballots, Fired
<1> QED BY <1>3 DEF ExpireWindow, Window!Close, Ballots, Fired, Ballot

LEMMA RefinementStep == IInv /\ [Next]_vars => [Window!Next]_(Window!vars)
<1> SUFFICES ASSUME IInv, [Next]_vars PROVE Window!Next \/ UNCHANGED Window!vars
  OBVIOUS
<1>t. TypeOK
  BY DEF IInv
<1> USE DEF Goto
<1>1. ASSUME NEW h \in Handlers, NEW e \in Events, CreateEventHandler(h, e)
      PROVE UNCHANGED Window!vars
  <2>1. n[h] = 0
    BY <1>1 DEF IInv, CountedFromIncr, CreateEventHandler
  <2> QED
    BY <1>1, <1>t, <2>1, InvisibleStep DEF CreateEventHandler, storeVars, TypeOK
<1>2. ASSUME NEW h \in Handlers, LookupCluster(h) PROVE UNCHANGED Window!vars
  BY <1>2, <1>t, InvisibleStep DEF LookupCluster, storeVars, TypeOK
<1>3. ASSUME NEW h \in Handlers, Incr(h) PROVE Window!Next
  <2>1. \A g \in Handlers : pc'[g] = "act" <=> pc[g] = "act"
    BY <1>3, <1>t DEF Incr, TypeOK
  <2> QED BY <1>3, <2>1, CountIsCast DEF Incr, Window!Next
<1>4. ASSUME NEW h \in Handlers, IncrError(h) PROVE Window!Next \/ UNCHANGED Window!vars
  <2>1. \A g \in Handlers : pc'[g] = "act" <=> pc[g] = "act"
    BY <1>4, <1>t DEF IncrError, TypeOK
  <2>2. CASE Counted(h)
    BY <1>4, <2>1, <2>2, CountIsCast DEF IncrError, Window!Next
  <2>3. CASE UNCHANGED <<count, n, win>>
    BY <1>4, <2>1, <2>3, InvisibleStep DEF IncrError
  <2> QED BY <1>4, <2>2, <2>3 DEF IncrError
<1>5. ASSUME NEW h \in Handlers, Expire(h) \/ Lpush(h) \/ Ltrim(h)
      PROVE UNCHANGED Window!vars
  BY <1>5, <1>t, InvisibleStep DEF Expire, Lpush, Ltrim, TypeOK
<1>6. ASSUME NEW h \in Handlers, RecordInMemory(h) PROVE Window!Next
  <2>1. \A g \in Handlers : pc'[g] = "act" <=> pc[g] = "act"
    BY <1>6, <1>t DEF RecordInMemory, TypeOK
  <2> QED BY <1>6, <2>1, CountIsCast DEF RecordInMemory, Window!Next
<1>7. ASSUME NEW h \in Handlers, Decide(h) PROVE Window!Next \/ UNCHANGED Window!vars
  <2>1. CASE pc'[h] = "act"
    BY <1>7, <2>1, ActIsFire DEF Window!Next, Ballots, Ballot
  <2>2. CASE pc'[h] # "act"
    BY <1>7, <1>t, <2>2, InvisibleStep DEF Decide, storeVars, TypeOK
  <2> QED BY <2>1, <2>2
<1>8. ASSUME NEW h \in Handlers, Crash(h) PROVE UNCHANGED Window!vars
  BY <1>8, <1>t, InvisibleStep DEF Crash, Live, storeVars, TypeOK
<1>9. ASSUME NEW k \in Keys, ExpireWindow(k) PROVE Window!Next
  BY <1>9, ExpireIsClose DEF Window!Next
<1>10. CASE \E m \in Masters, p \in Policies \union {Unregistered} : EditCluster(m, p)
  BY <1>10, InvisibleStep DEF EditCluster, storeVars, handlerVars
<1>11. CASE UNCHANGED vars
  BY <1>11, InvisibleStep DEF vars, storeVars, handlerVars
<1> QED
  BY <1>1, <1>2, <1>3, <1>4, <1>5, <1>6, <1>7, <1>8, <1>9, <1>10, <1>11 DEF Next, HandlerStep

\* The interleaved store commands implement EventWindow: each report of a
\* window is numbered in one step and sets off at most one update.
THEOREM Refinement == Spec => ImplementsEventWindow
<1>1. Init => Window!Init
  <2> SUFFICES ASSUME Init PROVE Window!Init
    OBVIOUS
  <2>1. \A h \in Handlers : n[h] = 0 /\ pc[h] = "idle"
    BY DEF Init
  <2>2. Ballots = {} /\ Fired = {}
    BY <2>1 DEF Ballots, Fired
  <2> QED BY <2>2 DEF Init, Window!Init, Ballots, Fired, Ballot
<1> QED
  BY <1>1, Inductive, RefinementStep, PTL DEF Spec, ImplementsEventWindow, Window!Spec

-----------------------------------------------------------------------------
(* The event history.                                                      *)

Trimming == {h \in Handlers : pc[h] = "trim"}

\* LTRIM and the memory store leave at most HistoryMax events.
LEMMA NewestLength ==
    ASSUME NEW s \in Seq(Events)
    PROVE  Len(Newest(s)) <= HistoryMax
<1>1. HistoryMax \in Nat /\ Len(s) \in Nat
  BY HistoryAssumption
<1>2. CASE Len(s) > HistoryMax
  BY <1>1, <1>2 DEF Newest
<1>3. CASE ~(Len(s) > HistoryMax)
  BY <1>1, <1>3 DEF Newest
<1> QED BY <1>2, <1>3

\* A step that does not lengthen the history and takes no handler out of the trims to
\* come keeps the bound.
LEMMA HistoryQuiet ==
    ASSUME TypeOK, HistoryBounded, Len(history') <= Len(history), history' \in Seq(Events),
           pc' \in [Handlers -> {"idle"} \union Live \union Ended],
           \A h \in Handlers : pc[h] = "trim" => pc'[h] = "trim"
    PROVE  HistoryBounded'
<1>1. /\ Trimming' \subseteq Handlers /\ IsFiniteSet(Trimming')
      /\ Trimming \subseteq Trimming'
  BY HandlersFinite, FS_Subset DEF Trimming
<1>2. Cardinality(Trimming) <= Cardinality(Trimming') /\ IsFiniteSet(Trimming)
  BY <1>1, FS_Subset
<1>3. Cardinality(Trimming) \in Nat /\ Cardinality(Trimming') \in Nat
  BY <1>1, <1>2, FS_CardinalityType
<1>4. Len(history) \in Nat /\ Len(history') \in Nat /\ HistoryMax \in Nat
  BY HistoryAssumption DEF TypeOK
<1> QED BY <1>2, <1>3, <1>4 DEF HistoryBounded, Trimming

\* LPUSH lengthens the history by one, and its handler is the next to trim.
LEMMA HistoryPush ==
    ASSUME TypeOK, HistoryBounded, NEW h \in Handlers, pc[h] = "push", Goto(h, "trim"),
           history' \in {history, <<ev[h]>> \o history}
    PROVE  HistoryBounded'
<1>1. Trimming' = Trimming \union {h} /\ h \notin Trimming
  BY DEF Trimming, Goto, TypeOK, Live
<1>2. IsFiniteSet(Trimming)
  BY HandlersFinite, FS_Subset DEF Trimming
<1>3. Cardinality(Trimming') = Cardinality(Trimming) + 1 /\ Cardinality(Trimming) \in Nat
  BY <1>1, <1>2, FS_AddElement, FS_CardinalityType
<1>4. ev[h] \in Events /\ history \in Seq(Events)
  BY KeyInKeys DEF TypeOK
<1>5. Len(history') <= Len(history) + 1 /\ Len(history') \in Nat
  BY <1>4
<1>6. Len(history) \in Nat /\ HistoryMax \in Nat
  BY <1>4, HistoryAssumption
<1> QED BY <1>3, <1>5, <1>6 DEF HistoryBounded, Trimming

\* LTRIM and the memory store leave the maximum, whoever is still to trim.
LEMMA HistoryTrim ==
    ASSUME TypeOK, NEW s \in Seq(Events), history' = Newest(s)
    PROVE  HistoryBounded'
<1>1. IsFiniteSet(Trimming')
  BY HandlersFinite, FS_Subset DEF Trimming
<1>2. Cardinality(Trimming') \in Nat
  BY <1>1, FS_CardinalityType
<1>3. Len(history') <= HistoryMax /\ Len(history') \in Nat /\ HistoryMax \in Nat
  BY NewestLength, NewestType, HistoryAssumption
<1> QED BY <1>2, <1>3 DEF HistoryBounded, Trimming

LEMMA HistoryStep == TypeOK /\ HistoryBounded /\ [Next]_vars => HistoryBounded'
<1> SUFFICES ASSUME TypeOK, HistoryBounded, [Next]_vars, Disturbances \intersect {"crash", "history"} = {}
             PROVE  HistoryBounded'
  BY DEF HistoryBounded
<1>t. TypeOK'
  BY TypeStep
<1>h. history \in Seq(Events) /\ Len(history) \in Nat
  BY DEF TypeOK
<1>q. ASSUME history' = history, \A h \in Handlers : pc[h] = "trim" => pc'[h] = "trim"
      PROVE  HistoryBounded'
  BY <1>t, <1>h, <1>q, HistoryQuiet DEF TypeOK
<1>d. ~Disturbed("crash") /\ ~Disturbed("history")
  BY DEF Disturbed
<1>1. ASSUME NEW h \in Handlers, Lpush(h) PROVE HistoryBounded'
  BY <1>1, HistoryPush DEF Lpush
<1>2. ASSUME NEW h \in Handlers, Ltrim(h) PROVE HistoryBounded'
  BY <1>2, <1>d, <1>h, HistoryTrim DEF Ltrim
<1>3. ASSUME NEW h \in Handlers, RecordInMemory(h) PROVE HistoryBounded'
  <2>1. ev[h] \in Events /\ <<ev[h]>> \o history \in Seq(Events)
    BY <1>3, <1>h, KeyInKeys DEF RecordInMemory
  <2>2. history' \in {history, Newest(<<ev[h]>> \o history)}
    BY <1>3 DEF RecordInMemory
  <2>3. pc[h] = "incr" /\ Goto(h, "decide")
    BY <1>3 DEF RecordInMemory
  <2>4. \A g \in Handlers : pc[g] = "trim" => pc'[g] = "trim"
    BY <2>3 DEF Goto, TypeOK
  <2> QED BY <1>q, <2>1, <2>2, <2>4, HistoryTrim
<1>4. ASSUME NEW h \in Handlers, LookupCluster(h) \/ Incr(h) \/ IncrError(h) \/ Expire(h) \/ Decide(h)
      PROVE  HistoryBounded'
  <2>1. /\ history' = history /\ pc[h] # "trim"
        /\ \E label \in {"incr", "expire", "decide", "failed", "push", "act", "done"} : Goto(h, label)
    BY <1>4 DEF LookupCluster, Incr, IncrError, Expire, Decide, storeVars
  <2>2. \A g \in Handlers : pc[g] = "trim" => pc'[g] = "trim"
    BY <2>1 DEF Goto, TypeOK
  <2> QED BY <1>q, <2>1, <2>2
<1>5. ASSUME NEW h \in Handlers, NEW e \in Events, CreateEventHandler(h, e) PROVE HistoryBounded'
  BY <1>5, <1>q DEF CreateEventHandler, Goto, TypeOK, storeVars
<1>6. ASSUME NEW k \in Keys, ExpireWindow(k) PROVE HistoryBounded'
  BY <1>6, <1>q DEF ExpireWindow, handlerVars
<1>7. ASSUME NEW m \in Masters, NEW p \in Policies \union {Unregistered}, EditCluster(m, p)
      PROVE  HistoryBounded'
  BY <1>7, <1>q DEF EditCluster, storeVars, handlerVars
<1>8. CASE UNCHANGED vars
  BY <1>8, <1>q DEF vars, storeVars, handlerVars
<1>9. ASSUME NEW h \in Handlers, Crash(h) PROVE HistoryBounded'
  BY <1>9, <1>d DEF Crash
<1> QED BY <1>1, <1>2, <1>3, <1>4, <1>5, <1>6, <1>7, <1>8, <1>9 DEF Next, HandlerStep

\* Whatever handlers push at once, the history exceeds its maximum only by the pushes
\* still to be trimmed.
THEOREM HistoryStaysBounded == Spec => []HistoryBounded
<1>1. Init => HistoryBounded
  <2> SUFFICES ASSUME Init PROVE HistoryBounded
    OBVIOUS
  <2>1. Len(history) = 0 /\ HistoryMax \in Nat
    BY HistoryAssumption DEF Init
  <2>2. IsFiniteSet(Trimming)
    BY HandlersFinite, FS_Subset DEF Trimming
  <2>3. Cardinality(Trimming) \in Nat
    BY <2>2, FS_CardinalityType
  <2> QED BY <2>1, <2>3 DEF HistoryBounded, Trimming
<1> QED BY <1>1, TypeInit, TypeStep, HistoryStep, PTL DEF Spec

-----------------------------------------------------------------------------
(***************************************************************************)
(* The reporting path of EventReporting: agents and a lossy network around *)
(* the same handlers.                                                      *)
(***************************************************************************)

\* An answer on its way, and an agent that exited 0, have a handler with their report;
\* a handler that has not started has none, so starting it takes no report away.
ReportingInv ==
    /\ agent \in [Events -> {"idle", "sending", "waiting", "exit0", "exit1"}]
    /\ \A q \in requests : q[1] \in Events
    /\ \A h \in Handlers : pc[h] = "idle" => ev[h] = NoEvent
    /\ \A q \in answers : q[1] \in Events /\ \E h \in Handlers : ev[h] = q[1]
    /\ ExitZeroIsHandled

\* A step of a manager, and the start of a handler, leave every started handler its report.
LEMMA ReportsKept ==
    ASSUME TypeOK, [Next]_vars, \A h \in Handlers : pc[h] = "idle" => ev[h] = NoEvent
    PROVE  /\ \A h \in Handlers : pc'[h] = "idle" => ev'[h] = NoEvent
           /\ \A h \in Handlers : ev[h] \in Events => ev'[h] = ev[h]
<1>1. ASSUME NEW h \in Handlers, NEW e \in Events, CreateEventHandler(h, e)
      PROVE  /\ \A g \in Handlers : pc'[g] = "idle" => ev'[g] = NoEvent
             /\ \A g \in Handlers : ev[g] \in Events => ev'[g] = ev[g]
  <2>1. ev[h] \notin Events
    BY <1>1, EventAssumption DEF CreateEventHandler
  <2> QED BY <1>1, <2>1 DEF CreateEventHandler, Goto, TypeOK
<1>2. ASSUME NEW h \in Handlers, HandlerStep(h) \/ Crash(h)
      PROVE  ev' = ev /\ \A g \in Handlers : pc'[g] = "idle" => pc[g] = "idle"
  <2>1. /\ ev' = ev
        /\ \E label \in Live \union Ended : Goto(h, label)
    BY <1>2 DEF HandlerStep, LookupCluster, Incr, IncrError, Expire, Lpush, Ltrim, RecordInMemory,
                Decide, Crash, Live, Ended
  <2> QED BY <2>1 DEF Goto, TypeOK, Live, Ended
<1>3. ASSUME NEW k \in Keys, ExpireWindow(k) PROVE ev' = ev /\ pc' = pc
  BY <1>3 DEF ExpireWindow, handlerVars
<1>4. ASSUME NEW m \in Masters, NEW p \in Policies \union {Unregistered}, EditCluster(m, p)
      PROVE  ev' = ev /\ pc' = pc
  BY <1>4 DEF EditCluster, handlerVars
<1>5. CASE UNCHANGED vars
  BY <1>5 DEF vars, handlerVars
<1> QED BY <1>1, <1>2, <1>3, <1>4, <1>5 DEF Next

\* The managers of the composed system do what EventProcessor lets them do.
LEMMA ReportingSteps ==
    ASSUME TypeOK, ReportingInv, [ReportingNext]_reportingVars
    PROVE  [Next]_vars
<1>1. ASSUME NEW q \in requests, Deliver(q) PROVE Next
  <2> DEFINE idle == {h \in Handlers : pc[h] = "idle"}
  <2>1. idle # {} /\ CreateEventHandler(CHOOSE h \in idle : TRUE, q[1])
    BY <1>1 DEF Deliver
  <2>2. (CHOOSE h \in idle : TRUE) \in Handlers /\ q[1] \in Events
    BY <2>1 DEF ReportingInv
  <2> QED BY <2>1, <2>2 DEF Next
<1>2. ASSUME NEW e \in Events, AgentStep(e) PROVE UNCHANGED vars
  BY <1>2 DEF AgentStep
<1>3. ASSUME NEW q \in requests, LoseRequest(q) PROVE UNCHANGED vars
  BY <1>3 DEF LoseRequest
<1>4. ManagerStep => Next
  BY DEF ManagerStep, Next
<1>5. CASE UNCHANGED reportingVars
  BY <1>5 DEF reportingVars
<1> QED BY <1>1, <1>2, <1>3, <1>4, <1>5 DEF ReportingNext

LEMMA ReportingStep ==
    ASSUME TypeOK, ReportingInv, [ReportingNext]_reportingVars
    PROVE  ReportingInv'
<1>1. /\ \A h \in Handlers : pc'[h] = "idle" => ev'[h] = NoEvent
      /\ \A h \in Handlers : ev[h] \in Events => ev'[h] = ev[h]
  BY ReportingSteps, ReportsKept DEF ReportingInv
<1>2. \A e \in Events : (\E h \in Handlers : ev[h] = e) => \E h \in Handlers : ev'[h] = e
  BY <1>1
<1>3. CASE agent' = agent /\ requests' \subseteq requests /\ answers' \subseteq answers
  <2>1. \A q \in answers' : q[1] \in Events /\ \E h \in Handlers : ev'[h] = q[1]
    BY <1>2, <1>3 DEF ReportingInv
  <2>2. ExitZeroIsHandled'
    BY <1>2, <1>3 DEF ReportingInv, ExitZeroIsHandled
  <2> QED BY <1>1, <1>3, <2>1, <2>2 DEF ReportingInv
<1>4. ASSUME NEW q \in requests, Deliver(q) PROVE ReportingInv'
  <2> DEFINE idle == {h \in Handlers : pc[h] = "idle"}
  <2>1. idle # {} /\ CreateEventHandler(CHOOSE h \in idle : TRUE, q[1]) /\ Agent!Accept(q)
    BY <1>4 DEF Deliver
  <2>2. PICK h \in Handlers : CreateEventHandler(h, q[1])
    BY <2>1
  <2>3. ev'[h] = q[1]
    BY <2>2 DEF CreateEventHandler, TypeOK
  <2>4. /\ agent' = agent /\ requests' \subseteq requests
        /\ answers' \subseteq answers \union {q}
    BY <2>1 DEF Agent!Accept
  <2>5. \A r \in answers' : r[1] \in Events /\ \E g \in Handlers : ev'[g] = r[1]
    BY <1>2, <2>3, <2>4 DEF ReportingInv
  <2>6. ExitZeroIsHandled'
    BY <1>2, <2>4 DEF ReportingInv, ExitZeroIsHandled
  <2> QED BY <1>1, <2>4, <2>5, <2>6 DEF ReportingInv
<1>5. ASSUME NEW e \in Events, AgentStep(e) PROVE ReportingInv'
  <2>1. ev' = ev /\ pc' = pc
    BY <1>5 DEF AgentStep, vars, handlerVars
  <2>2. /\ agent' \in [Events -> {"idle", "sending", "waiting", "exit0", "exit1"}]
        /\ \A q \in requests' : q[1] \in Events
        /\ answers' \subseteq answers
        /\ \A d \in Events : agent'[d] = "exit0" => agent[d] = "exit0" \/ \E q \in answers : q[1] = d
    <3>1. CASE Agent!RunScript(e)
      BY <3>1 DEF Agent!RunScript, ReportingInv
    <3>2. CASE Agent!SendEvent(e)
      <4>1. CASE attempt[e] < RetryCount
        BY <3>2, <4>1 DEF Agent!SendEvent, ReportingInv
      <4>2. CASE ~(attempt[e] < RetryCount)
        BY <3>2, <4>2 DEF Agent!SendEvent, ReportingInv
      <4> QED BY <4>1, <4>2
    <3>3. CASE Agent!Answered(e)
      BY <3>3 DEF Agent!Answered, Agent!Request, ReportingInv
    <3>4. CASE Agent!SendFailed(e)
      BY <3>4 DEF Agent!SendFailed, ReportingInv
    <3> QED BY <1>5, <3>1, <3>2, <3>3, <3>4 DEF AgentStep
  <2>3. \A q \in answers' : q[1] \in Events /\ \E h \in Handlers : ev'[h] = q[1]
    BY <2>1, <2>2 DEF ReportingInv
  <2>4. ExitZeroIsHandled'
    BY <2>1, <2>2 DEF ReportingInv, ExitZeroIsHandled
  <2> QED BY <1>1, <2>2, <2>3, <2>4 DEF ReportingInv
<1>6. ASSUME NEW q \in requests, LoseRequest(q) PROVE ReportingInv'
  BY <1>3, <1>6 DEF LoseRequest, Agent!Lost
<1>7. ASSUME ManagerStep PROVE ReportingInv'
  BY <1>3, <1>7 DEF ManagerStep, agentVars
<1>8. CASE UNCHANGED reportingVars
  BY <1>3, <1>8 DEF reportingVars, agentVars
<1> QED BY <1>4, <1>5, <1>6, <1>7, <1>8 DEF ReportingNext

LEMMA ReportingInductive == ReportingSpec => [](TypeOK /\ ReportingInv)
<1>1. ReportingInit => TypeOK /\ ReportingInv
  BY TypeInit DEF ReportingInit, Init, Agent!Init, ReportingInv, ExitZeroIsHandled
<1>2. TypeOK /\ ReportingInv /\ [ReportingNext]_reportingVars => TypeOK' /\ ReportingInv'
  BY ReportingSteps, ReportingStep, TypeStep
<1> QED BY <1>1, <1>2, PTL DEF ReportingSpec

\* An agent that exits 0 left its report in the hands of a handler, whatever was lost,
\* repeated or answered late on the way.
THEOREM ExitZeroHandled == ReportingSpec => []ExitZeroIsHandled
<1>1. ReportingInv => ExitZeroIsHandled
  BY DEF ReportingInv
<1> QED BY <1>1, ReportingInductive, PTL

\* Behind the agents and the network the managers still behave as EventProcessor says.
THEOREM ReportingImplements == ReportingSpec => Spec
<1>1. ReportingInit => Init
  BY DEF ReportingInit
<1>2. TypeOK /\ ReportingInv /\ [ReportingNext]_reportingVars => [Next]_vars
  BY ReportingSteps
<1> QED BY <1>1, <1>2, ReportingInductive, PTL DEF ReportingSpec, Spec

\* So what is proved of the handlers holds however often a report is sent: each one
\* that arrives has a number of its own, and a window is acted on once.
THEOREM ReportingSafe ==
    ReportingSpec => [](NumberedOnce /\ ActsOncePerWindow /\ ActsWithQuorum /\ TargetNotSkipped)
BY ReportingImplements, NumberedOnceHolds, ActsOnce, QuorumBehindAct, TargetServed, PTL
=============================================================================
