------------------------ MODULE AdministrationProofs ------------------------
(***************************************************************************)
(* Proofs about the administration: the webhooks and the Sentinel registry *)
(* each for itself, and the five areas side by side.  The theorems about   *)
(* settings, logins and DNS providers are in modules of their own; the     *)
(* last section carries all of them over to a manager that has every area. *)
(***************************************************************************)
EXTENDS Administration, RuntimeSettingsProofs, SessionsProofs, ProviderRegistryProofs,
        FiniteSetTheorems, SequenceTheorems, TLAPS

USE WebhooksAssumption, NoneHookAssumption, RegistryAssumption, NoPageAssumption
    DEF WebhooksAssumption, NoneHookAssumption, RegistryAssumption, NoPageAssumption

-----------------------------------------------------------------------------
(* Webhooks: the invariant.                                                *)

\* Only ids that were drawn, and the Slack one, are in pages and are deleted.
IdsDrawn ==
    /\ removed \subseteq used \union {Slack}
    /\ \A a \in Paging : hookPage[a].id \in used \union {Slack}

\* A page that writes an entry has one to write.
PagesWrite == \A a \in Paging : hookPage[a].at = "save" => hookPage[a].hook # NoHook

\* Nobody is about to write an id that was deleted.
NobodyRevives ==
    "revived" \notin hookMishaps =>
        \A i \in removed :
            /\ webhooks[i] = NoHook
            /\ \A a \in Paging : hookPage[a].id = i => hookPage[a].at # "save"
            /\ i = Slack => ~legacy

\* The migration writes the webhook while the old key is there, and deletes the key
\* when there is nothing to lose.
SlackMoved == webhooks[Slack] # NoHook \/ Slack \in removed \/ "not saved" \in hookMishaps
MigrationSafe ==
    /\ migration = "save" => legacy
    /\ legacy \/ SlackMoved
    /\ migration = "delete" => SlackMoved

\* A notification has been posted to what is no longer left of its list.
ListWorkedOff ==
    /\ ~sending.busy => sending.left = {}
    /\ sending.busy => sending.left \subseteq sending.list /\ tried = sending.list \ sending.left

HooksInv == IdsDrawn /\ PagesWrite /\ NobodyRevives /\ MigrationSafe /\ ListWorkedOff

-----------------------------------------------------------------------------
(* Webhooks: types.                                                        *)

\* What a page is made of.
LEMMA HookPageFields ==
    ASSUME WebhooksTypeOK, NEW a \in HookPages, hookPage[a] # NoHookPage
    PROVE  /\ hookPage[a] \in HookPage
           /\ hookPage[a].id \in AllHooks /\ hookPage[a].hook \in Hook \union {NoHook}
BY DEF WebhooksTypeOK, HookPage

\* The types, one by one.
LEMMA HookParts ==
    ASSUME WebhooksTypeOK
    PROVE  /\ webhooks \in [AllHooks -> Hook \union {NoHook}]
           /\ hookPage \in [HookPages -> HookPage \union {NoHookPage}]
           /\ legacy \in BOOLEAN
           /\ sending \in [busy : BOOLEAN, list : SUBSET AllHooks, left : SUBSET AllHooks]
           /\ tried \subseteq AllHooks
           /\ hookPages \in Nat /\ sends \in Nat /\ hookStarts \in Nat
           /\ used \subseteq HookIds /\ removed \subseteq AllHooks
BY Zenon DEF WebhooksTypeOK

\* The goroutine that takes a page is one, and is free.
LEMMA FreePageIsFree ==
    ASSUME NEW a \in FreePage
    PROVE  a \in HookPages /\ hookPage[a] = NoHookPage
<1>1. Paging # HookPages /\ Paging \subseteq HookPages /\ a = CHOOSE b \in HookPages : b \notin Paging
  BY Zenon DEF FreePage, Paging
<1>2. a \in HookPages /\ a \notin Paging
  BY <1>1
<1> QED BY <1>2 DEF Paging

\* What an edit or a toggle makes of an entry is an entry.
LEMMA EditedType ==
    ASSUME WebhooksTypeOK, NEW page \in HookPage, Edited(page) # NoHook
    PROVE  Edited(page) \in Hook /\ webhooks[page.id] # NoHook
<1>1. webhooks[page.id] \in Hook
  <2>1. page.id \in AllHooks /\ webhooks[page.id] # NoHook
    BY DEF Edited, HookPage
  <2> QED BY <2>1, HookParts
<1>2. /\ [webhooks[page.id] EXCEPT !.content = "new"] \in Hook
      /\ [webhooks[page.id] EXCEPT !.enabled = ~webhooks[page.id].enabled] \in Hook
  BY <1>1 DEF Hook, Contents
<1> QED BY <1>1, <1>2 DEF Edited

\* A page goes on or ends.
LEMMA HookPageGoes ==
    ASSUME WebhooksTypeOK, NEW a \in HookPages, NEW p \in HookPage \union {NoHookPage},
           hookPage' = [hookPage EXCEPT ![a] = p]
    PROVE  /\ hookPage' \in [HookPages -> HookPage \union {NoHookPage}]
           /\ hookPage'[a] = p /\ \A b \in HookPages : b # a => hookPage'[b] = hookPage[b]
BY ZenonT(60), SMTT(30) DEF WebhooksTypeOK

\* An edit or a toggle that has read an entry goes on to write it, changed.
LEMMA GetHookPage ==
    ASSUME WebhooksTypeOK, NEW a \in HookPages, GetHook(a)
    PROVE  \E p \in HookPage \union {NoHookPage} :
              /\ hookPage' = [hookPage EXCEPT ![a] = p]
              /\ hookPage[a] # NoHookPage
              /\ p # NoHookPage => /\ p.id = hookPage[a].id /\ p.at = "save"
                                   /\ p.hook \in Hook /\ webhooks[p.id] # NoHook
<1>1. hookPage[a] # NoHookPage /\ hookPage[a] \in HookPage
  BY HookPageFields DEF GetHook, PageAt
<1>2. CASE Edited(hookPage[a]) = NoHook
  BY <1>1, <1>2 DEF GetHook, PageEnds
<1>3. CASE Edited(hookPage[a]) # NoHook
  <2>1. PICK h : h = Edited(hookPage[a]) /\ h \in Hook /\ webhooks[hookPage[a].id] # NoHook
    BY <1>1, <1>3, EditedType
  <2>2. PICK p : p = [hookPage[a] EXCEPT !.at = "save", !.hook = h]
    OBVIOUS
  <2>3. p \in HookPage /\ p.id = hookPage[a].id /\ p.at = "save" /\ p.hook = h
    BY <1>1, <2>1, <2>2 DEF HookPage
  <2>4. hookPage' = [hookPage EXCEPT ![a] = p]
    <3>1. hookPage' = [hookPage EXCEPT ![a].at = "save", ![a].hook = h]
      BY ZenonT(60), <1>3, <2>1 DEF GetHook
    <3> QED BY <3>1, <2>2, HookParts
  <2> QED BY <1>1, <2>1, <2>3, <2>4
<1> QED BY <1>2, <1>3

\* The page that begins.
LEMMA BeginHookPagePage ==
    ASSUME WebhooksTypeOK, NEW a \in HookPages, NEW kind \in {"create", "edit", "toggle", "delete"},
           NEW i \in AllHooks, BeginHookPage(a, kind, i)
    PROVE  \E p \in HookPage :
              /\ hookPage' = [hookPage EXCEPT ![a] = p]
              /\ p.id = i
              /\ p.at = "save" => kind = "create" /\ p.hook \in Hook
<1>1. PICK p : /\ hookPage' = [hookPage EXCEPT ![a] = p]
               /\ p = [kind |-> kind, id |-> i,
                       at |-> CASE kind = "create" -> "save" [] kind = "delete" -> "delete" [] OTHER -> "get",
                       hook |-> IF kind = "create" THEN [content |-> "old", enabled |-> TRUE] ELSE NoHook]
  BY DEF BeginHookPage
<1>2. [content |-> "old", enabled |-> TRUE] \in Hook
  BY DEF Hook, Contents
<1>3. p.at \in {"get", "save", "delete"} /\ (p.at = "save" => kind = "create")
  BY <1>1
<1>4. p.hook \in Hook \union {NoHook} /\ (kind = "create" => p.hook \in Hook)
  BY <1>1, <1>2
<1>5. p.kind = kind /\ p.id = i /\ p = [kind |-> p.kind, id |-> p.id, at |-> p.at, hook |-> p.hook]
  BY <1>1
<1>6. p \in HookPage
  BY <1>3, <1>4, <1>5 DEF HookPage
<1> QED BY <1>1, <1>3, <1>4, <1>5, <1>6

\* The migration makes its two steps in their order.
LEMMA MigrationSteps ==
    MigrationOrder[1] = "save" /\ AfterStep("save") = "delete" /\ AfterStep("delete") = "done"
BY DEF MigrationOrder, AfterStep

\* Every variable keeps its type.
LEMMA WebhooksTypes ==
    ASSUME WebhooksTypeOK, WebhooksNext
    PROVE  WebhooksTypeOK'
<1>1. ASSUME NEW a \in FreePage, NEW kind \in {"create", "edit", "toggle", "delete"}, NEW i \in AllHooks,
             BeginHookPage(a, kind, i)
      PROVE  WebhooksTypeOK'
  <2>1. hookPage' \in [HookPages -> HookPage \union {NoHookPage}]
    BY <1>1, FreePageIsFree, BeginHookPagePage, HookPageGoes
  <2>2. hookPages' \in Nat /\ used' \subseteq HookIds
    <3>1. hookPages' = hookPages + 1 /\ (used' = used \/ (i \in HookIds /\ used' = used \union {i}))
      BY <1>1 DEF BeginHookPage
    <3> QED BY <3>1, HookParts
  <2> QED BY <1>1, <2>1, <2>2 DEF BeginHookPage, pageServed, sendVars, WebhooksTypeOK
<1>2. ASSUME NEW a \in HookPages, GetHook(a) PROVE WebhooksTypeOK'
  <2>1. hookPage' \in [HookPages -> HookPage \union {NoHookPage}]
    BY <1>2, GetHookPage, HookPageGoes
  <2> QED BY <1>2, <2>1 DEF GetHook, pageServed, sendVars, WebhooksTypeOK
<1>3. ASSUME NEW a \in HookPages, SaveHook(a) PROVE WebhooksTypeOK'
  <2>1. hookPage[a].id \in AllHooks /\ hookPage[a].hook \in Hook \union {NoHook}
    BY <1>3, HookPageFields DEF SaveHook, PageAt
  <2>2. webhooks' \in [AllHooks -> Hook \union {NoHook}]
    <3>1. \/ webhooks' = [webhooks EXCEPT ![hookPage[a].id] = hookPage[a].hook]
          \/ webhooks' = webhooks
      BY <1>3 DEF SaveHook
    <3> QED BY <2>1, <3>1, HookParts
  <2>3. hookPage' \in [HookPages -> HookPage \union {NoHookPage}]
    BY <1>3, HookPageGoes DEF SaveHook, PageEnds
  <2> QED BY <1>3, <2>2, <2>3 DEF SaveHook, pageServed, sendVars, WebhooksTypeOK
<1>4. ASSUME NEW a \in HookPages, DeleteHook(a) PROVE WebhooksTypeOK'
  <2>1. hookPage[a].id \in AllHooks
    BY <1>4, HookPageFields DEF DeleteHook, PageAt
  <2>2. webhooks' \in [AllHooks -> Hook \union {NoHook}] /\ removed' \subseteq AllHooks
    <3>1. /\ webhooks' = [webhooks EXCEPT ![hookPage[a].id] = NoHook]
          /\ removed' = removed \union {hookPage[a].id}
      BY <1>4 DEF DeleteHook
    <3> QED BY <2>1, <3>1, HookParts
  <2>3. hookPage' \in [HookPages -> HookPage \union {NoHookPage}]
    BY <1>4, HookPageGoes DEF DeleteHook, PageEnds
  <2>4. hookMishaps' \subseteq {"revived", "not saved"}
    BY <1>4 DEF DeleteHook, WebhooksTypeOK
  <2> QED BY <1>4, <2>2, <2>3, <2>4 DEF DeleteHook, pageServed, sendVars, WebhooksTypeOK
<1>5. ASSUME MigrateGet \/ MigrateSave \/ MigrateDelete \/ StartAgain PROVE WebhooksTypeOK'
  <2>1. [content |-> "old", enabled |-> TRUE] \in Hook
    BY DEF Hook, Contents
  <2>2. webhooks' \in [AllHooks -> Hook \union {NoHook}]
    <3>1. \/ webhooks' = webhooks
          \/ \E h \in Hook : webhooks' = [webhooks EXCEPT ![Slack] = h]
      BY <1>5, <2>1 DEF MigrateGet, MigrateSave, MigrateDelete, StartAgain
    <3> QED BY <3>1, HookParts
  <2>3. legacy' \in BOOLEAN /\ migration' \in {"get", "save", "delete", "done"} /\ hookStarts' \in Nat
    <3>1. legacy' = legacy \/ legacy' = FALSE
      BY <1>5 DEF MigrateGet, MigrateSave, MigrateDelete, StartAgain
    <3>2. migration' \in {"get", "save", "delete", "done"}
      BY <1>5, MigrationSteps DEF MigrateGet, MigrateSave, MigrateDelete, StartAgain
    <3>3. hookStarts' = hookStarts \/ hookStarts' = hookStarts + 1
      BY <1>5 DEF MigrateGet, MigrateSave, MigrateDelete, StartAgain
    <3>4. legacy' \in BOOLEAN
      BY Zenon, <3>1, HookParts
    <3>5. hookStarts' \in Nat
      BY <3>3, HookParts
    <3> QED BY <3>2, <3>4, <3>5
  <2>4. hookMishaps' \subseteq {"revived", "not saved"}
    BY ZenonT(60), <1>5 DEF MigrateGet, MigrateSave, MigrateDelete, StartAgain, WebhooksTypeOK
  <2>5. UNCHANGED starting
    BY <1>5 DEF MigrateGet, MigrateSave, MigrateDelete, StartAgain
  <2> QED BY <2>2, <2>3, <2>4, <2>5 DEF starting, sendVars, WebhooksTypeOK
<1>6. ASSUME ListWebhooks \/ SendStep PROVE WebhooksTypeOK'
  <2>1. PICK sent : sent = sending'
    OBVIOUS
  <2>2. /\ sent \in [busy : BOOLEAN, list : SUBSET AllHooks, left : SUBSET AllHooks]
        /\ tried' \subseteq AllHooks /\ sends' \in Nat
    <3>1. CASE ListWebhooks
      <4>1. sends' = sends + 1 /\ tried' = {}
        BY <3>1 DEF ListWebhooks
      <4>2. PICK list \in SUBSET AllHooks : sent = [busy |-> TRUE, list |-> list, left |-> list]
        BY <2>1, <3>1 DEF ListWebhooks, NotSending
      <4> QED BY <4>1, <4>2, HookParts
    <3>2. ASSUME NEW i \in AllHooks, SendToEndpoint(i)
          PROVE  /\ sent \in [busy : BOOLEAN, list : SUBSET AllHooks, left : SUBSET AllHooks]
                 /\ tried' \subseteq AllHooks /\ sends' \in Nat
      <4>1. /\ sent = [sending EXCEPT !.left = sending.left \ {i}]
            /\ tried' = tried \union {i} /\ sends' = sends
        BY <2>1, <3>2 DEF SendToEndpoint, LeftAfter
      <4>2. sent \in [busy : BOOLEAN, list : SUBSET AllHooks, left : SUBSET AllHooks]
        BY <4>1, HookParts
      <4> QED BY <4>1, <4>2, HookParts
    <3>3. CASE EndSending
      <4>1. sent = [busy |-> FALSE, list |-> {}, left |-> {}] /\ UNCHANGED <<tried, sends>>
        BY <2>1, <3>3 DEF EndSending, NotSending
      <4> QED BY <4>1, HookParts
    <3> QED BY <1>6, <3>1, <3>2, <3>3 DEF SendStep
  <2>3. UNCHANGED sendFrame
    BY <1>6 DEF ListWebhooks, SendStep, SendToEndpoint, EndSending
  <2> QED BY <2>1, <2>2, <2>3 DEF sendFrame, WebhooksTypeOK
<1> QED BY <1>1, <1>2, <1>3, <1>4, <1>5, <1>6 DEF WebhooksNext

-----------------------------------------------------------------------------
(* Webhooks: the steps.                                                    *)

\* A page begins: a new webhook has an id that was never drawn, so never deleted.
LEMMA BeginHookPageInv ==
    ASSUME WebhooksTypeOK, HooksInv, NEW a \in HookPages, hookPage[a] = NoHookPage,
           NEW kind \in {"create", "edit", "toggle", "delete"},
           NEW i \in AllHooks, BeginHookPage(a, kind, i)
    PROVE  HooksInv'
<1>1. PICK p \in HookPage :
        /\ hookPage' = [hookPage EXCEPT ![a] = p]
        /\ p.id = i
        /\ p.at = "save" => kind = "create" /\ p.hook \in Hook
  BY BeginHookPagePage
<1>2. hookPage'[a] = p /\ \A b \in HookPages : b # a => hookPage'[b] = hookPage[b]
  BY <1>1, HookPageGoes
<1>3. /\ UNCHANGED <<webhooks, removed, hookMishaps, legacy, migration, sending, tried>>
      /\ used \subseteq used' /\ i \in used' \union {Slack}
      /\ kind = "create" => i \in HookIds \ used
  BY DEF BeginHookPage, pageServed, sendVars
<1>4. IdsDrawn'
  BY <1>1, <1>2, <1>3 DEF HooksInv, IdsDrawn, Paging
<1>5. PagesWrite'
  BY <1>1, <1>2 DEF HooksInv, PagesWrite, Paging
<1>6. NobodyRevives'
  <2>1. kind = "create" => i \notin removed
    BY <1>3 DEF HooksInv, IdsDrawn
  <2> SUFFICES ASSUME "revived" \notin hookMishaps, NEW j \in removed
               PROVE  /\ webhooks[j] = NoHook
                      /\ \A b \in HookPages : hookPage'[b] # NoHookPage /\ hookPage'[b].id = j => hookPage'[b].at # "save"
                      /\ j = Slack => ~legacy
    BY <1>3 DEF NobodyRevives, Paging
  <2> QED BY <1>1, <1>2, <2>1 DEF HooksInv, NobodyRevives, Paging
<1>7. MigrationSafe' /\ ListWorkedOff'
  BY <1>3 DEF HooksInv, MigrationSafe, SlackMoved, ListWorkedOff
<1> QED BY <1>4, <1>5, <1>6, <1>7 DEF HooksInv

\* An edit or a toggle reads: what it finds was not deleted.
LEMMA GetHookInv ==
    ASSUME WebhooksTypeOK, HooksInv, NEW a \in HookPages, GetHook(a)
    PROVE  HooksInv'
<1>1. PICK p \in HookPage \union {NoHookPage} :
        /\ hookPage' = [hookPage EXCEPT ![a] = p]
        /\ hookPage[a] # NoHookPage
        /\ p # NoHookPage => /\ p.id = hookPage[a].id /\ p.at = "save"
                             /\ p.hook \in Hook /\ webhooks[p.id] # NoHook
  BY GetHookPage
<1>2. hookPage'[a] = p /\ \A b \in HookPages : b # a => hookPage'[b] = hookPage[b]
  BY <1>1, HookPageGoes
<1>3. UNCHANGED <<webhooks, removed, used, hookMishaps, legacy, migration, sending, tried>>
  BY DEF GetHook, pageServed, sendVars
<1>4. IdsDrawn' /\ PagesWrite'
  BY <1>1, <1>2, <1>3 DEF HooksInv, IdsDrawn, PagesWrite, Paging
<1>5. NobodyRevives'
  <2> SUFFICES ASSUME "revived" \notin hookMishaps, NEW j \in removed
               PROVE  /\ webhooks[j] = NoHook
                      /\ \A b \in HookPages : hookPage'[b] # NoHookPage /\ hookPage'[b].id = j => hookPage'[b].at # "save"
                      /\ j = Slack => ~legacy
    BY <1>3 DEF NobodyRevives, Paging
  <2> QED BY <1>1, <1>2 DEF HooksInv, NobodyRevives, Paging
<1>6. MigrationSafe' /\ ListWorkedOff'
  BY <1>3 DEF HooksInv, MigrationSafe, SlackMoved, ListWorkedOff
<1> QED BY <1>4, <1>5, <1>6 DEF HooksInv

\* A page writes its entry, which is one that was not deleted.
LEMMA SaveHookInv ==
    ASSUME WebhooksTypeOK, HooksInv, NEW a \in HookPages, SaveHook(a)
    PROVE  HooksInv'
<1>1. hookPage[a] # NoHookPage /\ hookPage[a].at = "save" /\ hookPage[a].id \in AllHooks
      /\ hookPage[a].hook # NoHook
  BY HookPageFields DEF SaveHook, PageAt, HooksInv, PagesWrite, Paging
<1>2. hookPage'[a] = NoHookPage /\ \A b \in HookPages : b # a => hookPage'[b] = hookPage[b]
  BY HookPageGoes DEF SaveHook, PageEnds
<1>3. /\ UNCHANGED <<removed, used, hookMishaps, legacy, migration, sending, tried>>
      /\ \A j \in AllHooks : j # hookPage[a].id => webhooks'[j] = webhooks[j]
      /\ webhooks[Slack] # NoHook => webhooks'[Slack] # NoHook
  <2>1. /\ UNCHANGED <<removed, used, hookMishaps, legacy, migration, sending, tried>>
        /\ \/ webhooks' = [webhooks EXCEPT ![hookPage[a].id] = hookPage[a].hook]
           \/ webhooks' = webhooks
    BY DEF SaveHook, pageServed, sendVars
  <2>2. Slack \in AllHooks
    BY DEF AllHooks
  <2> QED BY <2>1, <2>2, <1>1, HookParts
<1>4. IdsDrawn' /\ PagesWrite'
  BY <1>2, <1>3 DEF HooksInv, IdsDrawn, PagesWrite, Paging
<1>5. NobodyRevives'
  <2> SUFFICES ASSUME "revived" \notin hookMishaps, NEW j \in removed
               PROVE  /\ webhooks'[j] = NoHook
                      /\ \A b \in HookPages : hookPage'[b] # NoHookPage /\ hookPage'[b].id = j => hookPage'[b].at # "save"
                      /\ j = Slack => ~legacy
    BY <1>3 DEF NobodyRevives, Paging
  <2>1. j # hookPage[a].id /\ j \in AllHooks
    BY <1>1 DEF HooksInv, NobodyRevives, Paging, WebhooksTypeOK
  <2> QED BY <1>2, <1>3, <2>1 DEF HooksInv, NobodyRevives, Paging
<1>6. MigrationSafe' /\ ListWorkedOff'
  BY <1>3 DEF HooksInv, MigrationSafe, SlackMoved, ListWorkedOff
<1> QED BY <1>4, <1>5, <1>6 DEF HooksInv

\* A page deletes: either somebody will revive the entry, which is noted, or nobody.
LEMMA DeleteHookInv ==
    ASSUME WebhooksTypeOK, HooksInv, NEW a \in HookPages, DeleteHook(a)
    PROVE  HooksInv'
<1> DEFINE i == hookPage[a].id
<1>1. hookPage[a] # NoHookPage /\ i \in AllHooks
  BY HookPageFields DEF DeleteHook, PageAt
<1>2. hookPage'[a] = NoHookPage /\ \A b \in HookPages : b # a => hookPage'[b] = hookPage[b]
  BY HookPageGoes DEF DeleteHook, PageEnds
<1>3. /\ UNCHANGED <<used, legacy, migration, sending, tried>>
      /\ webhooks' = [webhooks EXCEPT ![i] = NoHook]
      /\ removed' = removed \union {i} /\ hookMishaps \subseteq hookMishaps'
      /\ "revived" \notin hookMishaps' =>
            /\ \A b \in Paging : hookPage[b].id = i => hookPage[b].at # "save"
            /\ i = Slack => ~legacy
  BY DEF DeleteHook, pageServed, sendVars
<1>4. i \in used \union {Slack}
  BY <1>1 DEF HooksInv, IdsDrawn, Paging
<1>5. \A b \in HookPages : hookPage'[b] # NoHookPage => b \in Paging /\ hookPage'[b] = hookPage[b]
  BY <1>2 DEF Paging
<1> HIDE DEF i
<1>6. IdsDrawn' /\ PagesWrite'
  BY <1>3, <1>4, <1>5 DEF HooksInv, IdsDrawn, PagesWrite, Paging
<1>7. NobodyRevives'
  <2> SUFFICES ASSUME "revived" \notin hookMishaps', NEW j \in removed'
               PROVE  /\ webhooks'[j] = NoHook
                      /\ \A b \in HookPages : hookPage'[b] # NoHookPage /\ hookPage'[b].id = j => hookPage'[b].at # "save"
                      /\ j = Slack => ~legacy
    BY <1>3 DEF NobodyRevives, Paging
  <2>1. CASE j = i
    <3>1. webhooks'[j] = NoHook
      BY ZenonT(60), <2>1, <1>1, <1>3 DEF WebhooksTypeOK
    <3>2. j = Slack => ~legacy
      BY <2>1, <1>3
    <3>3. \A b \in HookPages : hookPage'[b] # NoHookPage /\ hookPage'[b].id = j => hookPage'[b].at # "save"
      BY <2>1, <1>3, <1>5
    <3> QED BY <3>1, <3>2, <3>3
  <2>2. CASE j # i
    <3>1. j \in removed /\ j \in AllHooks /\ "revived" \notin hookMishaps
      BY <2>2, <1>3 DEF WebhooksTypeOK
    <3>2. webhooks'[j] = NoHook
      <4>1. webhooks[j] = NoHook
        BY <3>1 DEF HooksInv, NobodyRevives
      <4> QED BY <4>1, <2>2, <3>1, <1>1, <1>3, HookParts
    <3>3. \A b \in HookPages : hookPage'[b] # NoHookPage /\ hookPage'[b].id = j => hookPage'[b].at # "save"
      BY <3>1, <1>5 DEF HooksInv, NobodyRevives
    <3> QED BY <3>1, <3>2, <3>3 DEF HooksInv, NobodyRevives
  <2> QED BY <2>1, <2>2
<1>8. SlackMoved => SlackMoved'
  <2>1. Slack \in AllHooks
    BY DEF AllHooks
  <2>2. webhooks'[Slack] = webhooks[Slack] \/ Slack \in removed'
    BY <2>1, <1>1, <1>3, HookParts
  <2> QED BY <2>2, <1>3 DEF SlackMoved
<1>9. MigrationSafe' /\ ListWorkedOff'
  BY <1>3, <1>8 DEF HooksInv, MigrationSafe, ListWorkedOff
<1> QED BY <1>6, <1>7, <1>9 DEF HooksInv

\* The migration: it writes the webhook only while the old key is there, so never one
\* that was deleted for good.
LEMMA MigrateInv ==
    ASSUME WebhooksTypeOK, HooksInv, MigrateGet \/ MigrateSave \/ MigrateDelete \/ StartAgain
    PROVE  HooksInv'
<1>1. UNCHANGED <<removed, used, hookPage, sending, tried>>
  BY DEF MigrateGet, MigrateSave, MigrateDelete, StartAgain, starting, sendVars
<1>2. IdsDrawn' /\ PagesWrite' /\ ListWorkedOff'
  BY <1>1 DEF HooksInv, IdsDrawn, PagesWrite, ListWorkedOff, Paging
<1>3. legacy' => legacy
  BY DEF MigrateGet, MigrateSave, MigrateDelete, StartAgain, WebhooksTypeOK
<1>4. hookMishaps \subseteq hookMishaps' /\ ("revived" \in hookMishaps' => "revived" \in hookMishaps)
  BY DEF MigrateGet, MigrateSave, MigrateDelete, StartAgain
<1>5. \A j \in AllHooks : webhooks'[j] = webhooks[j] \/ (j = Slack /\ legacy)
  <2>1. \/ webhooks' = webhooks
        \/ legacy /\ \E h : webhooks' = [webhooks EXCEPT ![Slack] = h]
    BY DEF MigrateGet, MigrateSave, MigrateDelete, StartAgain, HooksInv, MigrationSafe
  <2> QED BY <2>1, HookParts
<1>6. NobodyRevives'
  <2> SUFFICES ASSUME "revived" \notin hookMishaps, NEW j \in removed
               PROVE  /\ webhooks'[j] = NoHook
                      /\ \A b \in Paging : hookPage[b].id = j => hookPage[b].at # "save"
                      /\ j = Slack => ~legacy'
    BY <1>1, <1>4 DEF NobodyRevives, Paging
  <2>1. j \in AllHooks
    BY DEF WebhooksTypeOK
  <2> QED BY <2>1, <1>3, <1>5 DEF HooksInv, NobodyRevives
<1>7. MigrationSafe'
  <2>1. Slack \in AllHooks /\ [content |-> "old", enabled |-> TRUE] \in Hook
    BY DEF AllHooks, Hook, Contents
  <2>2. CASE MigrateGet
    BY <2>2, MigrationSteps DEF MigrateGet, HooksInv, MigrationSafe, SlackMoved, starting
  <2>3. CASE MigrateSave
    <3>1. migration' = "delete" /\ legacy' = legacy /\ removed' = removed
      BY <2>3, MigrationSteps DEF MigrateSave, starting
    <3>2. SlackMoved'
      <4>1. \/ \E h \in Hook : webhooks' = [webhooks EXCEPT ![Slack] = h]
            \/ "not saved" \in hookMishaps'
        BY <2>1, <2>3 DEF MigrateSave
      <4>2. CASE "not saved" \in hookMishaps'
        BY <4>2 DEF SlackMoved
      <4>3. CASE \E h \in Hook : webhooks' = [webhooks EXCEPT ![Slack] = h]
        <5>1. PICK h \in Hook : webhooks' = [webhooks EXCEPT ![Slack] = h]
          BY <4>3
        <5>2. webhooks'[Slack] = h /\ h # NoHook
          BY <5>1, <2>1, HookParts, NoneHookAssumption DEF NoneHookAssumption
        <5> QED BY <5>2 DEF SlackMoved
      <4> QED BY <4>1, <4>2, <4>3
    <3> QED BY <3>1, <3>2 DEF MigrationSafe
  <2>4. CASE MigrateDelete
    <3>1. migration = "delete" /\ migration' = "done" /\ (SlackMoved => SlackMoved')
      BY <2>4, MigrationSteps DEF MigrateDelete, SlackMoved, starting
    <3> QED BY <3>1 DEF HooksInv, MigrationSafe
  <2>5. CASE StartAgain
    BY <2>5 DEF StartAgain, HooksInv, MigrationSafe, SlackMoved, starting
  <2> QED BY <2>2, <2>3, <2>4, <2>5
<1> QED BY <1>2, <1>6, <1>7 DEF HooksInv

\* A notification.
LEMMA SendInv ==
    ASSUME WebhooksTypeOK, HooksInv, ListWebhooks \/ SendStep
    PROVE  HooksInv'
<1>1. UNCHANGED <<webhooks, legacy, migration, hookPage, used, removed, hookMishaps>>
  BY DEF ListWebhooks, SendStep, SendToEndpoint, EndSending, sendFrame
<1>2. IdsDrawn' /\ PagesWrite' /\ NobodyRevives' /\ MigrationSafe'
  BY <1>1 DEF HooksInv, IdsDrawn, PagesWrite, NobodyRevives, MigrationSafe, SlackMoved, Paging
<1>3. ListWorkedOff'
  <2>1. CASE ListWebhooks
    <3>1. PICK list : sending' = [busy |-> TRUE, list |-> list, left |-> list]
      BY <2>1 DEF ListWebhooks, NotSending
    <3>2. tried' = {}
      BY <2>1 DEF ListWebhooks
    <3> QED BY <3>1, <3>2 DEF ListWorkedOff
  <2>2. ASSUME NEW i \in AllHooks, SendToEndpoint(i) PROVE ListWorkedOff'
    <3>1. /\ sending' = [sending EXCEPT !.left = sending.left \ {i}]
          /\ i \in sending.left /\ tried' = tried \union {i}
      BY <2>2 DEF SendToEndpoint, LeftAfter
    <3>2. sending \in [busy : BOOLEAN, list : SUBSET AllHooks, left : SUBSET AllHooks]
      BY DEF WebhooksTypeOK
    <3>3. sending'.busy = sending.busy /\ sending'.list = sending.list /\ sending'.left = sending.left \ {i}
      BY <3>1, <3>2
    <3> QED BY <3>1, <3>3 DEF HooksInv, ListWorkedOff
  <2>3. CASE EndSending
    BY <2>3 DEF EndSending, NotSending, ListWorkedOff
  <2> QED BY <2>1, <2>2, <2>3 DEF SendStep
<1> QED BY <1>2, <1>3 DEF HooksInv

-----------------------------------------------------------------------------
(* Webhooks: the theorems.                                                 *)

\* The types and the invariant hold in every state.
THEOREM HooksInvariant == WebhooksSpec => [](WebhooksTypeOK /\ HooksInv)
<1>1. WebhooksInit => WebhooksTypeOK /\ HooksInv
  <2> SUFFICES ASSUME WebhooksInit PROVE WebhooksTypeOK /\ HooksInv
    OBVIOUS
  <2>1. WebhooksTypeOK
    BY DEF WebhooksInit, WebhooksTypeOK, NotSending
  <2>2. Paging = {}
    BY DEF WebhooksInit, Paging
  <2>3. ListWorkedOff
    BY DEF WebhooksInit, NotSending, ListWorkedOff
  <2> QED BY <2>1, <2>2, <2>3
          DEF WebhooksInit, HooksInv, IdsDrawn, PagesWrite, NobodyRevives, MigrationSafe
<1>2. WebhooksTypeOK /\ HooksInv /\ [WebhooksNext]_hookVars => WebhooksTypeOK' /\ HooksInv'
  <2> SUFFICES ASSUME WebhooksTypeOK, HooksInv, [WebhooksNext]_hookVars
               PROVE  WebhooksTypeOK' /\ HooksInv'
    OBVIOUS
  <2>1. CASE WebhooksNext
    <3>1. ASSUME NEW a \in FreePage, NEW kind \in {"create", "edit", "toggle", "delete"},
                 NEW i \in AllHooks, BeginHookPage(a, kind, i)
          PROVE  HooksInv'
      BY <3>1, FreePageIsFree, BeginHookPageInv
    <3> QED BY <2>1, <3>1, WebhooksTypes, GetHookInv, SaveHookInv, DeleteHookInv, MigrateInv, SendInv
            DEF WebhooksNext
  <2>2. CASE UNCHANGED hookVars
    <3>1. UNCHANGED <<hookFaults, webhooks, legacy, migration, hookPage, sending, tried, hookPages, sends,
                      hookStarts, used, removed, hookMishaps>>
      BY <2>2 DEF hookVars, sendVars, hookCounters
    <3>2. WebhooksTypeOK'
      BY <3>1 DEF WebhooksTypeOK
    <3>3. HooksInv'
      BY ZenonT(60), <3>1 DEF HooksInv, IdsDrawn, PagesWrite, NobodyRevives, MigrationSafe, SlackMoved, ListWorkedOff, Paging
    <3> QED BY <3>2, <3>3
  <2> QED BY <2>1, <2>2
<1> QED BY <1>1, <1>2, PTL DEF WebhooksSpec

\* A deleted webhook does not come back, unless somebody had read it before.
THEOREM WebhooksStayDeleted == WebhooksSpec => []DeletedStaysDeleted
<1>1. HooksInv => DeletedStaysDeleted
  BY DEF HooksInv, NobodyRevives, DeletedStaysDeleted
<1> QED BY <1>1, HooksInvariant, PTL

\* No start of an instance, wherever it was cut off, loses the Slack destination.
THEOREM MigrationKeepsSlack == WebhooksSpec => []SlackNotLost
<1>1. HooksInv => SlackNotLost
  BY DEF HooksInv, MigrationSafe, SlackMoved, SlackNotLost
<1> QED BY <1>1, HooksInvariant, PTL

\* A notification ends when it was posted to every webhook of its list.
THEOREM NotificationReachesAll == WebhooksSpec => EveryHookTried
<1>1. WebhooksTypeOK /\ HooksInv /\ [WebhooksNext]_hookVars =>
        [sending.busy /\ ~sending'.busy => tried = sending.list]_hookVars
  <2> SUFFICES ASSUME WebhooksTypeOK, HooksInv, WebhooksNext, sending.busy, ~sending'.busy
               PROVE  tried = sending.list
    OBVIOUS
  <2>1. sending' # sending
    OBVIOUS
  <2>2. ~ListWebhooks
    BY DEF ListWebhooks
  <2>3. ASSUME NEW i \in AllHooks, SendToEndpoint(i) PROVE FALSE
    <3>1. sending' = [sending EXCEPT !.left = sending.left \ {i}]
      BY <2>3 DEF SendToEndpoint, LeftAfter
    <3> QED BY <3>1 DEF WebhooksTypeOK
  <2>4. EndSending
    BY <2>1, <2>2, <2>3
       DEF WebhooksNext, SendStep, BeginHookPage, GetHook, SaveHook, DeleteHook, pageServed, sendVars,
           MigrateGet, MigrateSave, MigrateDelete, StartAgain, starting
  <2> QED BY <2>4 DEF EndSending, HooksInv, ListWorkedOff
<1> QED BY <1>1, HooksInvariant, PTL DEF WebhooksSpec, EveryHookTried

-----------------------------------------------------------------------------
(* Sentinel registry: the invariant.                                       *)

Entry(n) == hash[n] = IF n \in index THEN "full" ELSE "none"

\* A request is between its call for the hash and its call for the index.
Mid(n) == \E a \in Busy : clerk[a].at \in {"sadd", "srem"} /\ Current(a).name = n

\* A request that is at a second call has an operation to finish.
MidHasOp == \A a \in Busy : clerk[a].at # "next" => clerk[a].ops # <<>>

\* Under the mutex of the memory store nothing is half done.
MemoryAgrees ==
    /\ \A n \in NodeNames : Entry(n)
    /\ \A a \in Busy : clerk[a].at \notin {"sadd", "srem"}
    /\ \A n \in NodeNames : ~LastSeenPending(n)

\* Over Valkey one request at a time, which has done half of its operation, and a
\* checker and reports that write last_seen into a hash that is there.
ValkeyAgrees ==
    /\ \A a, b \in Busy : a = b
    /\ \A n \in NodeNames : Mid(n) \/ Entry(n)
    /\ \A a \in Busy : /\ clerk[a].at = "sadd" => hash[Current(a).name] = "full"
                       /\ clerk[a].at = "srem" => hash[Current(a).name] = "none"
    /\ \A n \in NodeNames : LastSeenPending(n) => hash[n] # "none"

RegistryInv ==
    /\ MidHasOp
    /\ storeKind = "memory" => MemoryAgrees
    /\ storeKind = "valkey" /\ tangles = {} => ValkeyAgrees

RegistryTypes == RegistryTypeOK /\ (tick.at = "hset" => tick.seen \in NodeNames)

-----------------------------------------------------------------------------
(* Sentinel registry: types.                                               *)

\* The types, one by one.
LEMMA RegistryParts ==
    ASSUME RegistryTypes
    PROVE  /\ storeKind \in {"valkey", "memory"}
           /\ hash \in [NodeNames -> Fields] /\ index \subseteq NodeNames
           /\ clerk \in [Clerks -> Clerk \union {NoPage}] /\ pages \in Nat
           /\ reporting \in [Reporters -> NodeNames \union {NoPage}] /\ reports \in Nat
           /\ up \subseteq NodeNames /\ upheavals \in Nat
           /\ status \in [NodeNames -> {"unknown", "up", "down"}]
           /\ tick \in Tick
           /\ announced \subseteq NodeNames \X {"up", "down"}
           /\ tangles \subseteq {"requests", "last_seen", "store", "crash"}
BY Zenon DEF RegistryTypes, RegistryTypeOK

\* A finite set of names is put into a sequence of names.
LEMMA NamesInSequence ==
    ASSUME NEW S \in SUBSET NodeNames
    PROVE  SetToSeq(S) \in Seq(S)
<1>1. IsFiniteSet(S)
  BY FS_Subset
<1>2. Cardinality(S) \in Nat /\ ExistsBijection(1..Cardinality(S), S)
  BY <1>1, FS_CardinalityType
<1>3. \E f \in [1..Cardinality(S) -> S] : IsInjective(f)
  BY <1>2 DEF ExistsBijection, Bijection, Injection
<1>4. SetToSeq(S) \in [1..Cardinality(S) -> S]
  BY Zenon, <1>3 DEF SetToSeq
<1> QED BY <1>2, <1>4, SeqDef

\* A request is a sequence of operations.
LEMMA OpsOfType ==
    ASSUME RegistryTypes, NEW p \in Pages, NEW list \in ListSentinels
    PROVE  OpsOf(p, list) \in Seq(Op)
<1>1. CASE p.kind = "ops"
  BY <1>1 DEF OpsOf, PageType
<1>2. CASE p.kind # "ops"
  <2> DEFINE names == SetToSeq(Named(list))
             ops == [i \in 1..Len(names) |-> [do |-> "del", name |-> names[i]]]
  <2>1. Named(list) \in SUBSET NodeNames
    BY RegistryParts DEF ListSentinels, Listed, Named
  <2>2. names \in Seq(NodeNames)
    <3>1. names \in Seq(Named(list))
      BY <2>1, NamesInSequence
    <3> HIDE DEF names
    <3> QED BY <2>1, <3>1
  <2>3. Len(names) \in Nat /\ \A i \in 1..Len(names) : names[i] \in NodeNames
    <3> HIDE DEF names
    <3> QED BY <2>2
  <2>4. ops \in [1..Len(names) -> Op]
    <3> HIDE DEF names
    <3> QED BY <2>3 DEF Op
  <2>5. ops \in Seq(Op)
    <3> HIDE DEF ops, names
    <3> QED BY <2>3, <2>4, SeqDef
  <2> QED BY <1>2, <2>5 DEF OpsOf
<1> QED BY <1>1, <1>2

\* The operation a request is at, and what it has left after it.
LEMMA CurrentOp ==
    ASSUME RegistryTypes, NEW a \in Clerks, clerk[a] # NoPage, clerk[a].ops # <<>>
    PROVE  /\ clerk[a] \in Clerk
           /\ Current(a) \in Op /\ Current(a).name \in NodeNames
           /\ Tail(clerk[a].ops) \in Seq(Op)
<1>1. clerk[a] \in Clerk /\ clerk[a].ops \in Seq(Op)
  BY RegistryParts DEF Clerk
<1>2. Head(clerk[a].ops) \in Op /\ Tail(clerk[a].ops) \in Seq(Op)
  BY <1>1
<1> QED BY <1>1, <1>2 DEF Current, Op

\* A request turns to its next operation.
LEMMA NextOpStep ==
    ASSUME RegistryTypes, NEW a \in Clerks, clerk[a] # NoPage, clerk[a].ops # <<>>, NextOp(a)
    PROVE  /\ clerk' \in [Clerks -> Clerk \union {NoPage}]
           /\ \A b \in Clerks : b # a => clerk'[b] = clerk[b]
           /\ clerk'[a] \in Clerk /\ clerk'[a].at = "next"
<1>1. PICK c : c = [clerk[a] EXCEPT !.ops = Tail(clerk[a].ops), !.at = "next"]
  OBVIOUS
<1>2. c \in Clerk /\ c.at = "next"
  BY ZenonT(60), <1>1, CurrentOp DEF Clerk
<1>3. clerk' = [clerk EXCEPT ![a] = c]
  BY ZenonT(60), <1>1 DEF NextOp
<1> QED BY <1>2, <1>3, RegistryParts

\* A request goes on with the same operation.
LEMMA ThenStep ==
    ASSUME RegistryTypes, NEW a \in Clerks, clerk[a] # NoPage,
           NEW label \in {"next", "hset", "sadd", "srem"}, Then(a, label)
    PROVE  /\ clerk' \in [Clerks -> Clerk \union {NoPage}]
           /\ \A b \in Clerks : b # a => clerk'[b] = clerk[b]
           /\ clerk'[a] \in Clerk /\ clerk'[a].at = label /\ clerk'[a].ops = clerk[a].ops
<1>1. PICK c : c = [clerk[a] EXCEPT !.at = label]
  OBVIOUS
<1>2. c \in Clerk /\ c.at = label /\ c.ops = clerk[a].ops
  BY <1>1, RegistryParts DEF Clerk
<1>3. clerk' = [clerk EXCEPT ![a] = c]
  BY <1>1 DEF Then
<1> QED BY <1>2, <1>3, RegistryParts

\* The goroutine that takes a request is one, and is free.
LEMMA FreeClerkIsFree ==
    ASSUME NEW a \in FreeClerk
    PROVE  a \in Clerks /\ clerk[a] = NoPage
<1>1. Busy # Clerks /\ Busy \subseteq Clerks /\ a = CHOOSE b \in Clerks : b \notin Busy
  BY Zenon DEF FreeClerk, Busy
<1>2. a \in Clerks /\ a \notin Busy
  BY <1>1
<1> QED BY <1>2 DEF Busy

\* A request that begins is at its first operation.
LEMMA BeginPageStep ==
    ASSUME RegistryTypes, NEW a \in Clerks, NEW p \in Pages, BeginPage(a, p)
    PROVE  /\ clerk' \in [Clerks -> Clerk \union {NoPage}]
           /\ \A b \in Clerks : b # a => clerk'[b] = clerk[b]
           /\ clerk'[a] \in Clerk /\ clerk'[a].at = "next"
<1>1. PICK list \in ListSentinels : clerk' = [clerk EXCEPT ![a] = [ops |-> OpsOf(p, list), at |-> "next"]]
  BY DEF BeginPage
<1>2. PICK c : c = [ops |-> OpsOf(p, list), at |-> "next"]
  OBVIOUS
<1>3. c \in Clerk /\ c.at = "next"
  BY <1>2, OpsOfType DEF Clerk
<1> QED BY <1>1, <1>2, <1>3, RegistryParts

\* A command that fails is noted, and the request turns to its next operation.
LEMMA FailsStep ==
    ASSUME RegistryTypes, NEW a \in Clerks, clerk[a] # NoPage, clerk[a].ops # <<>>, Fails(a)
    PROVE  /\ clerk' \in [Clerks -> Clerk \union {NoPage}]
           /\ tangles' \subseteq {"requests", "last_seen", "store", "crash"}
           /\ tangles' # {} /\ storeKind = "valkey"
BY NextOpStep, RegistryParts DEF Fails

\* The registry keeps its types.
LEMMA ClerkTypes ==
    ASSUME RegistryTypes, NEW a \in Clerks, ClerkStep(a)
    PROVE  RegistryTypes'
<1>1. UNCHANGED <<storeKind, pages, reporting, reports, up, upheavals, status, tick, announced>>
  BY DEF ClerkStep, Look, Hset, SaddIndex, DelHash, SremIndex, EndPage, clerkFrame, checkerVars, reportVars
<1>2. ASSUME hash' \in [NodeNames -> Fields], index' \subseteq NodeNames,
             tangles' \subseteq {"requests", "last_seen", "store", "crash"},
             clerk' \in [Clerks -> Clerk \union {NoPage}]
      PROVE  RegistryTypes'
  BY <1>1, <1>2, RegistryParts DEF RegistryTypes, RegistryTypeOK
<1>3. CASE EndPage(a)
  <2>1. clerk' \in [Clerks -> Clerk \union {NoPage}] /\ UNCHANGED <<hash, index, tangles>>
    BY <1>3, RegistryParts DEF EndPage
  <2> QED BY <1>2, <2>1, RegistryParts
<1>4. CASE ~EndPage(a)
  <2> DEFINE n == Current(a).name
  <2>1. clerk[a] # NoPage /\ clerk[a].ops # <<>> /\ n \in NodeNames
    BY <1>4, CurrentOp DEF ClerkStep, Look, Hset, SaddIndex, DelHash, SremIndex, Doing
  <2>2. /\ Fails(a) \/ NextOp(a) \/ \E label \in {"next", "hset", "sadd", "srem"} : Then(a, label)
        /\ Fails(a) \/ tangles' = tangles \/ tangles' \subseteq tangles \union {"last_seen"}
    BY <1>4 DEF ClerkStep, Look, Hset, SaddIndex, DelHash, SremIndex
  <2>3. /\ clerk' \in [Clerks -> Clerk \union {NoPage}]
        /\ tangles' \subseteq {"requests", "last_seen", "store", "crash"}
    BY <2>1, <2>2, NextOpStep, ThenStep, FailsStep, RegistryParts
  <2>4. index' \in {index, index \union {n}, index \ {n}}
    BY <1>4 DEF ClerkStep, Look, Hset, SaddIndex, DelHash, SremIndex
  <2>5. hash' \in {hash, [hash EXCEPT ![n] = "full"], [hash EXCEPT ![n] = "none"]}
    BY <1>4 DEF ClerkStep, Look, Hset, SaddIndex, DelHash, SremIndex
  <2> HIDE DEF n
  <2>6. hash' \in [NodeNames -> Fields] /\ index' \subseteq NodeNames
    <3>1. "full" \in Fields /\ "none" \in Fields
      BY DEF Fields
    <3> QED BY <2>1, <2>4, <2>5, <3>1, RegistryParts
  <2> QED BY <1>2, <2>3, <2>6
<1> QED BY <1>3, <1>4

\* A write of last_seen keeps the types, and changes no hash that is there.
LEMMA SetLastSeenStep ==
    ASSUME RegistryTypes, NEW n \in NodeNames, SetLastSeen(n)
    PROVE  /\ hash' \in [NodeNames -> Fields]
           /\ hash[n] # "none" => hash' = hash
<1> DEFINE field == IF hash[n] = "none" THEN "last_seen only" ELSE hash[n]
<1>1. hash' = hash \/ hash' = [hash EXCEPT ![n] = field]
  BY DEF SetLastSeen
<1>2. field \in Fields /\ (hash[n] # "none" => field = hash[n])
  BY RegistryParts DEF Fields
<1> HIDE DEF field
<1> QED BY <1>1, <1>2, RegistryParts

\* The health checker, the Sentinels and a restart keep the types.
LEMMA CheckerTypes ==
    ASSUME RegistryTypes, CheckerStep
    PROVE  RegistryTypes'
<1>1. UNCHANGED <<storeKind, index, clerk, pages, reporting, reports, up, upheavals, tangles>>
  BY DEF CheckerStep, List, Ping, HsetLastSeen, Compare, checkerFrame, reportVars
<1>2. Unknown \in [NodeNames -> {"unknown", "up", "down"}] /\ Waiting \in Tick
  BY DEF Unknown, Waiting, Tick
<1>3. CASE List
  <2>1. PICK list \in ListSentinels : tick' = [Waiting EXCEPT !.at = "ping", !.list = Named(list)]
    BY <1>3 DEF List
  <2>2. tick' \in Tick /\ tick'.at = "ping"
    <3>1. Named(list) \subseteq NodeNames
      BY RegistryParts DEF ListSentinels, Listed, Named
    <3> QED BY <1>2, <2>1, <3>1 DEF Tick
  <2>3. UNCHANGED <<hash, status>> /\ announced' = {}
    BY <1>3 DEF List
  <2> QED BY <1>1, <2>2, <2>3, RegistryParts DEF RegistryTypes, RegistryTypeOK
<1>4. ASSUME NEW n \in NodeNames, Ping(n) PROVE RegistryTypes'
  <2>1. tick \in Tick /\ tick.results \in [NodeNames -> {"unknown", "up", "down"}]
    BY RegistryParts DEF Tick
  <2>2. \A r \in {"up", "down"} : [tick.results EXCEPT ![n] = r] \in [NodeNames -> {"unknown", "up", "down"}]
    BY <2>1
  <2>3. PICK results, at, seen :
          /\ tick' = [tick EXCEPT !.results = results, !.at = at, !.seen = seen]
          /\ results \in [NodeNames -> {"unknown", "up", "down"}]
          /\ at \in {"wait", "ping", "hset"} /\ seen \in NodeNames \union {NoPage}
          /\ at = "hset" => seen \in NodeNames
    <3>1. tick.at = "ping" /\ tick.seen \in NodeNames \union {NoPage}
      BY <1>4, <2>1 DEF Ping, Tick
    <3>2. tick = [tick EXCEPT !.at = tick.at, !.seen = tick.seen]
      BY <2>1 DEF Tick
    <3>3. \/ \E u \in {"up", "down"} : tick' = [tick EXCEPT !.results[n] = u]
          \/ tick' = [tick EXCEPT !.results[n] = "up", !.at = "hset", !.seen = n]
      BY <1>4 DEF Ping
    <3>4. CASE \E u \in {"up", "down"} : tick' = [tick EXCEPT !.results[n] = u]
      <4>1. PICK u \in {"up", "down"} : tick' = [tick EXCEPT !.results[n] = u]
        BY <3>4
      <4>2. tick' = [tick EXCEPT !.results = [tick.results EXCEPT ![n] = u],
                                 !.at = tick.at, !.seen = tick.seen]
        BY <4>1, <2>1 DEF Tick
      <4> QED BY ZenonT(60), <2>2, <3>1, <4>2
    <3>5. CASE tick' = [tick EXCEPT !.results[n] = "up", !.at = "hset", !.seen = n]
      <4>1. tick' = [tick EXCEPT !.results = [tick.results EXCEPT ![n] = "up"],
                                 !.at = "hset", !.seen = n]
        BY <3>5, <2>1 DEF Tick
      <4> QED BY ZenonT(60), <2>2, <4>1
    <3> QED BY <3>3, <3>4, <3>5
  <2>4. tick' \in Tick /\ tick'.at = at /\ tick'.seen = seen
    BY <2>1, <2>3 DEF Tick
  <2>5. UNCHANGED <<hash, status, announced>>
    BY <1>4 DEF Ping
  <2> QED BY <1>1, <2>3, <2>4, <2>5, RegistryParts DEF RegistryTypes, RegistryTypeOK
<1>5. CASE HsetLastSeen
  <2>1. tick.seen \in NodeNames
    BY <1>5 DEF HsetLastSeen, RegistryTypes
  <2>2. hash' \in [NodeNames -> Fields]
    BY <1>5, <2>1, SetLastSeenStep DEF HsetLastSeen
  <2>3. tick' \in Tick /\ tick'.at = "ping"
    BY <1>5, RegistryParts DEF HsetLastSeen, Tick
  <2>4. UNCHANGED <<status, announced>>
    BY <1>5 DEF HsetLastSeen
  <2> QED BY <1>1, <2>2, <2>3, <2>4, RegistryParts DEF RegistryTypes, RegistryTypeOK
<1>6. CASE Compare
  <2>1. tick.results \in [NodeNames -> {"unknown", "up", "down"}]
    BY RegistryParts DEF Tick
  <2>2. \A n \in NodeNames : Transition(n) => tick.results[n] \in {"up", "down"}
    BY DEF Transition
  <2>3. announced' \subseteq NodeNames \X {"up", "down"}
    BY <1>6, <2>2 DEF Compare
  <2>4. hash' = hash /\ status' = tick.results /\ tick' = Waiting /\ Waiting.at = "wait"
    BY <1>6 DEF Compare, Waiting
  <2> QED BY <1>1, <1>2, <2>1, <2>3, <2>4, RegistryParts DEF RegistryTypes, RegistryTypeOK
<1> QED BY <1>3, <1>4, <1>5, <1>6 DEF CheckerStep

\* Reports keep the types.
LEMMA ReportTypes ==
    ASSUME RegistryTypes, NEW r \in Reporters, ReportStep(r)
    PROVE  RegistryTypes'
<1>1. UNCHANGED <<storeKind, index, clerk, pages, up, upheavals, status, tick, announced, tangles>>
  BY DEF ReportStep, ReportExists, ReportHset, reportFrame, checkerVars
<1>2. ASSUME NEW n \in NodeNames, ReportExists(r, n) PROVE RegistryTypes'
  <2>1. reporting' \in [Reporters -> NodeNames \union {NoPage}] /\ reports' \in Nat /\ hash' = hash
    BY <1>2, RegistryParts DEF ReportExists
  <2> QED BY <1>1, <2>1, RegistryParts DEF RegistryTypes, RegistryTypeOK
<1>3. CASE ReportHset(r)
  <2>1. reporting[r] \in NodeNames
    BY <1>3, RegistryParts DEF ReportHset
  <2>2. hash' \in [NodeNames -> Fields]
    BY <1>3, <2>1, SetLastSeenStep DEF ReportHset
  <2>3. reporting' \in [Reporters -> NodeNames \union {NoPage}] /\ reports' = reports
    BY <1>3, RegistryParts DEF ReportHset
  <2> QED BY <1>1, <2>2, <2>3, RegistryParts DEF RegistryTypes, RegistryTypeOK
<1> QED BY <1>2, <1>3 DEF ReportStep

\* Every variable keeps its type.
LEMMA RegistryTypesKept ==
    ASSUME RegistryTypes, RegistryNext
    PROVE  RegistryTypes'
<1>1. ASSUME NEW a \in FreeClerk, NEW p \in Pages, BeginPage(a, p) PROVE RegistryTypes'
  <2>1. clerk' \in [Clerks -> Clerk \union {NoPage}]
    BY <1>1, FreeClerkIsFree, BeginPageStep
  <2>2. pages' = pages + 1 /\ tangles' \subseteq tangles \union {"requests"}
    BY <1>1 DEF BeginPage
  <2>3. UNCHANGED <<storeKind, hash, index, reporting, reports, up, upheavals, status, tick, announced>>
    BY <1>1 DEF BeginPage, checkerVars, reportVars
  <2> QED BY <2>1, <2>2, <2>3, RegistryParts DEF RegistryTypes, RegistryTypeOK
<1>2. ASSUME NEW n \in NodeNames, Flip(n) PROVE RegistryTypes'
  <2>1. up' \subseteq NodeNames /\ upheavals' \in Nat
    BY <1>2, RegistryParts DEF Flip
  <2>2. UNCHANGED <<storeKind, hash, index, clerk, pages, reporting, reports, status, tick, announced, tangles>>
    BY <1>2 DEF Flip, registryVars, reportVars, checkerVars
  <2> QED BY <2>1, <2>2, RegistryParts DEF RegistryTypes, RegistryTypeOK
<1>3. CASE Restart
  <2>1. Unknown \in [NodeNames -> {"unknown", "up", "down"}] /\ Waiting \in Tick /\ Waiting.at = "wait"
    BY DEF Unknown, Waiting, Tick
  <2>2. hash' \in [NodeNames -> Fields] /\ index' \subseteq NodeNames
    <3>1. \/ hash' = [n \in NodeNames |-> "none"] /\ index' = {}
          \/ UNCHANGED <<hash, index>>
      BY <1>3 DEF Restart
    <3>2. "none" \in Fields
      BY DEF Fields
    <3> QED BY <3>1, <3>2, RegistryParts
  <2>3. /\ clerk' \in [Clerks -> Clerk \union {NoPage}] /\ upheavals' \in Nat
        /\ status' = Unknown /\ tick' = Waiting /\ announced' = {}
        /\ reporting' \in [Reporters -> NodeNames \union {NoPage}]
        /\ tangles' \subseteq tangles \union {"crash"} /\ UNCHANGED <<storeKind, pages, reports, up>>
    BY <1>3, RegistryParts DEF Restart
  <2> QED BY <2>1, <2>2, <2>3, RegistryParts DEF RegistryTypes, RegistryTypeOK
<1> QED BY <1>1, <1>2, <1>3, ClerkTypes, CheckerTypes, ReportTypes DEF RegistryNext

-----------------------------------------------------------------------------
(* Sentinel registry: the steps.                                           *)

\* A request that has ended its operation, or is still in the same one, is never at a
\* second call without one.
LEMMA ClerkMidHasOp ==
    ASSUME RegistryTypes, MidHasOp, NEW a \in Clerks, ClerkStep(a)
    PROVE  /\ MidHasOp'
           /\ clerk[a] # NoPage /\ \A b \in Clerks : b # a => clerk'[b] = clerk[b]
<1>1. clerk[a] # NoPage
  BY DEF ClerkStep, Look, Hset, SaddIndex, DelHash, SremIndex, EndPage, Doing
<1>2. CASE EndPage(a)
  <2>1. clerk'[a] = NoPage /\ \A b \in Clerks : b # a => clerk'[b] = clerk[b]
    BY <1>2, RegistryParts DEF EndPage
  <2> QED BY <1>1, <2>1 DEF MidHasOp, Busy
<1>3. CASE ~EndPage(a)
  <2>1. /\ clerk[a].ops # <<>>
        /\ NextOp(a) \/ \E label \in {"next", "hset", "sadd", "srem"} : Then(a, label)
    BY <1>3 DEF ClerkStep, Look, Hset, SaddIndex, DelHash, SremIndex, Doing, Fails
  <2>2. /\ \A b \in Clerks : b # a => clerk'[b] = clerk[b]
        /\ clerk'[a].at = "next" \/ clerk'[a].ops = clerk[a].ops
    BY <1>1, <2>1, NextOpStep, ThenStep
  <2> QED BY <1>1, <2>1, <2>2 DEF MidHasOp, Busy
<1> QED BY <1>2, <1>3

\* The memory store changes the map and the index under one lock.
LEMMA ClerkMemory ==
    ASSUME RegistryTypes, MidHasOp, storeKind = "memory", MemoryAgrees, NEW a \in Clerks, ClerkStep(a)
    PROVE  MemoryAgrees'
<1>1. /\ clerk[a] # NoPage /\ clerk[a].at \notin {"sadd", "srem"}
      /\ \A b \in Clerks : b # a => clerk'[b] = clerk[b]
      /\ ~Fails(a) /\ tick' = tick /\ reporting' = reporting
  BY ClerkMidHasOp
     DEF MemoryAgrees, Busy, Fails, ClerkStep, Look, Hset, SaddIndex, DelHash, SremIndex, EndPage, clerkFrame,
         checkerVars, reportVars
<1>2. \A n \in NodeNames : Entry(n)'
  <2>1. CASE Look(a) \/ EndPage(a)
    BY <2>1 DEF Look, EndPage, MemoryAgrees, Entry
  <2>2. CASE Hset(a)
    <3>1. hash' = [hash EXCEPT ![Current(a).name] = "full"] /\ index' = index \union {Current(a).name}
      BY <1>1, <2>2 DEF Hset
    <3> QED BY <3>1, RegistryParts DEF MemoryAgrees, Entry
  <2>3. CASE DelHash(a)
    <3>1. hash' = [hash EXCEPT ![Current(a).name] = "none"] /\ index' = index \ {Current(a).name}
      BY <1>1, <2>3 DEF DelHash
    <3> QED BY <3>1, RegistryParts DEF MemoryAgrees, Entry
  <2> QED BY <2>1, <2>2, <2>3, <1>1 DEF ClerkStep, SaddIndex, SremIndex, Doing
<1>3. clerk'[a] = NoPage \/ clerk'[a].at \in {"next", "hset"}
  <2>1. CASE EndPage(a)
    BY <2>1, RegistryParts DEF EndPage
  <2>2. CASE ~EndPage(a)
    <3>1. clerk[a].ops # <<>> /\ (NextOp(a) \/ Then(a, "hset"))
      BY <2>2, <1>1 DEF ClerkStep, Look, Hset, SaddIndex, DelHash, SremIndex, Doing
    <3> QED BY <3>1, <1>1, NextOpStep, ThenStep
  <2> QED BY <2>1, <2>2
<1> QED BY <1>1, <1>2, <1>3 DEF MemoryAgrees, Busy, LastSeenPending

\* What is to be shown of a step over Valkey of the only request.
LEMMA ValkeyStep ==
    ASSUME RegistryTypes, ValkeyAgrees, NEW a \in Clerks, clerk[a] # NoPage,
           \A b \in Clerks : b # a => clerk'[b] = clerk[b],
           \A n \in NodeNames :
               \/ clerk'[a] # NoPage /\ clerk'[a].at \in {"sadd", "srem"} /\ Current(a)'.name = n
               \/ Entry(n)',
           clerk'[a] # NoPage => /\ clerk'[a].at = "sadd" => hash'[Current(a)'.name] = "full"
                                 /\ clerk'[a].at = "srem" => hash'[Current(a)'.name] = "none",
           tick' = tick, reporting' = reporting,
           \A n \in NodeNames : LastSeenPending(n) => hash'[n] # "none"
    PROVE  ValkeyAgrees'
<1>1. \A b \in Clerks : clerk'[b] # NoPage => b = a
  BY DEF ValkeyAgrees, Busy
<1>2. \A b \in Busy' : b = a
  BY <1>1 DEF Busy
<1>3. (\A b, c \in Busy : b = c)'
  BY <1>2
<1>4. (\A n \in NodeNames : Mid(n) \/ Entry(n))'
  BY DEF Mid, Busy
<1>5. (\A b \in Busy : /\ clerk[b].at = "sadd" => hash[Current(b).name] = "full"
                       /\ clerk[b].at = "srem" => hash[Current(b).name] = "none")'
  BY <1>2 DEF Busy
<1>6. (\A n \in NodeNames : LastSeenPending(n) => hash[n] # "none")'
  BY DEF LastSeenPending
<1> QED BY <1>3, <1>4, <1>5, <1>6 DEF ValkeyAgrees

\* Over Valkey an operation has two halves; between them the name is the request's.
LEMMA ClerkValkey ==
    ASSUME RegistryTypes, MidHasOp, storeKind = "valkey", tangles' = {}, ValkeyAgrees,
           NEW a \in Clerks, ClerkStep(a)
    PROVE  ValkeyAgrees'
<1> DEFINE n == Current(a).name
<1>1. /\ clerk[a] # NoPage /\ \A b \in Clerks : b # a => clerk'[b] = clerk[b]
      /\ ~Fails(a) /\ tick' = tick /\ reporting' = reporting
  BY ClerkMidHasOp
     DEF Fails, ClerkStep, Look, Hset, SaddIndex, DelHash, SremIndex, EndPage, clerkFrame, checkerVars, reportVars
<1>2. clerk[a].at \notin {"sadd", "srem"} => \A m \in NodeNames : Entry(m)
  BY <1>1 DEF ValkeyAgrees, Mid, Busy
<1>3. clerk[a].at \in {"sadd", "srem"} => \A m \in NodeNames : m # n => Entry(m)
  BY <1>1 DEF ValkeyAgrees, Mid, Busy
<1>4. \A m \in NodeNames : LastSeenPending(m) => hash[m] # "none"
  BY DEF ValkeyAgrees
<1>5. CASE Look(a)
  <2>1. clerk[a].at = "next" /\ clerk[a].ops # <<>> /\ hash' = hash /\ index' = index
    BY <1>5 DEF Look, Doing
  <2>2. clerk'[a].at \in {"next", "hset"}
    BY <1>1, <1>5, <2>1, NextOpStep, ThenStep DEF Look
  <2>3. \A m \in NodeNames : Entry(m)'
    BY <1>2, <2>1 DEF Entry
  <2> QED BY <1>1, <1>4, <2>1, <2>2, <2>3, ValkeyStep
<1>6. CASE Hset(a)
  <2>1. /\ clerk[a].at \in {"next", "hset"} /\ clerk[a].ops # <<>> /\ Then(a, "sadd")
        /\ hash' = [hash EXCEPT ![n] = "full"] /\ index' = index
    BY <1>1, <1>6 DEF Hset, Doing
  <2>2. clerk'[a] # NoPage /\ clerk'[a].at = "sadd" /\ Current(a)' = Current(a)
    BY <1>1, <2>1, ThenStep DEF Current
  <2>3. n \in NodeNames
    BY <1>1, <2>1, CurrentOp
  <2> HIDE DEF n
  <2>4. hash'[n] = "full" /\ \A m \in NodeNames : m # n => Entry(m)'
    BY <1>2, <2>1, <2>3, RegistryParts DEF Entry
  <2>5. \A m \in NodeNames : LastSeenPending(m) => hash'[m] # "none"
    BY <1>4, <2>1, <2>3, RegistryParts
  <2> QED BY <1>1, <2>2, <2>4, <2>5, ValkeyStep DEF n
<1>7. CASE SaddIndex(a)
  <2>1. /\ clerk[a].at = "sadd" /\ clerk[a].ops # <<>> /\ NextOp(a)
        /\ hash' = hash /\ index' = index \union {n}
    BY <1>1, <1>7 DEF SaddIndex, Doing
  <2>2. clerk'[a].at = "next"
    BY <1>1, <2>1, NextOpStep
  <2>3. hash[n] = "full"
    BY <1>1, <2>1 DEF ValkeyAgrees, Busy
  <2> HIDE DEF n
  <2>4. \A m \in NodeNames : Entry(m)'
    BY <1>3, <2>1, <2>3 DEF Entry
  <2> QED BY <1>1, <1>4, <2>1, <2>2, <2>4, ValkeyStep
<1>8. CASE DelHash(a)
  <2>1. /\ clerk[a].at = "next" /\ clerk[a].ops # <<>> /\ Then(a, "srem")
        /\ hash' = [hash EXCEPT ![n] = "none"] /\ index' = index
        /\ ~LastSeenPending(n)
    BY <1>1, <1>8 DEF DelHash, Doing
  <2>2. clerk'[a] # NoPage /\ clerk'[a].at = "srem" /\ Current(a)' = Current(a)
    BY <1>1, <2>1, ThenStep DEF Current
  <2>3. n \in NodeNames
    BY <1>1, <2>1, CurrentOp
  <2> HIDE DEF n
  <2>4. hash'[n] = "none" /\ \A m \in NodeNames : m # n => Entry(m)'
    BY <1>2, <2>1, <2>3, RegistryParts DEF Entry
  <2>5. \A m \in NodeNames : LastSeenPending(m) => hash'[m] # "none"
    BY <1>4, <2>1, <2>3, RegistryParts
  <2> QED BY <1>1, <2>2, <2>4, <2>5, ValkeyStep DEF n
<1>9. CASE SremIndex(a)
  <2>1. /\ clerk[a].at = "srem" /\ clerk[a].ops # <<>> /\ NextOp(a)
        /\ hash' = hash /\ index' = index \ {n}
    BY <1>1, <1>9 DEF SremIndex, Doing
  <2>2. clerk'[a].at = "next"
    BY <1>1, <2>1, NextOpStep
  <2>3. hash[n] = "none"
    BY <1>1, <2>1 DEF ValkeyAgrees, Busy
  <2> HIDE DEF n
  <2>4. \A m \in NodeNames : Entry(m)'
    BY <1>3, <2>1, <2>3 DEF Entry
  <2> QED BY <1>1, <1>4, <2>1, <2>2, <2>4, ValkeyStep
<1>10. CASE EndPage(a)
  <2>1. clerk[a].at = "next" /\ clerk'[a] = NoPage /\ hash' = hash /\ index' = index
    BY <1>1, <1>10, RegistryParts DEF EndPage, MidHasOp, Busy
  <2>2. \A m \in NodeNames : Entry(m)'
    BY <1>2, <2>1 DEF Entry
  <2> QED BY <1>1, <1>4, <2>1, <2>2, ValkeyStep
<1> QED BY <1>5, <1>6, <1>7, <1>8, <1>9, <1>10 DEF ClerkStep

\* Between two ticks the checker waits.
LEMMA WaitingTick == Waiting \in Tick /\ Waiting.at = "wait"
BY DEF Waiting, Tick, Unknown

\* The checker writes last_seen only where there is a hash: it changes no hash.
LEMMA CheckerInv ==
    ASSUME RegistryTypes, RegistryInv, CheckerStep
    PROVE  RegistryInv'
<1>1. UNCHANGED <<storeKind, index, clerk, reporting, tangles>>
  BY DEF CheckerStep, List, Ping, HsetLastSeen, Compare, checkerFrame, reportVars
<1>2. MidHasOp'
  BY <1>1 DEF RegistryInv, MidHasOp, Busy
<1>3. ASSUME NEW n \in NodeNames, LastSeenPending(n)'
      PROVE  LastSeenPending(n) \/ (storeKind = "valkey" /\ hash[n] # "none")
  <2>1. CASE \E r \in Reporters : reporting'[r] = n
    BY <1>1, <2>1 DEF LastSeenPending
  <2>2. CASE tick'.at = "hset" /\ tick'.seen = n
    <3>1. CASE List
      BY <2>2, <3>1, WaitingTick DEF List
    <3>2. CASE Compare
      BY <2>2, <3>2, WaitingTick DEF Compare
    <3>3. ASSUME NEW m \in NodeNames, Ping(m) PROVE storeKind = "valkey" /\ hash[n] # "none"
      <4>1. tick.at = "ping" /\ tick \in Tick
        BY <3>3, RegistryParts DEF Ping
      <4>2. \/ tick' = [tick EXCEPT !.results[m] = "up"]
            \/ /\ tick' = [tick EXCEPT !.results[m] = "up", !.at = "hset", !.seen = m]
               /\ storeKind = "valkey" /\ Found(m)
            \/ tick' = [tick EXCEPT !.results[m] = "down"]
        BY <3>3 DEF Ping
      <4> QED BY ZenonT(60), <2>2, <4>1, <4>2 DEF Tick, Found
    <3>4. CASE HsetLastSeen
      BY <2>2, <3>4, RegistryParts DEF HsetLastSeen, Tick
    <3> QED BY <3>1, <3>2, <3>3, <3>4 DEF CheckerStep
  <2> QED BY <1>3, <2>1, <2>2 DEF LastSeenPending
<1>4. HsetLastSeen => tick.seen \in NodeNames /\ LastSeenPending(tick.seen)
  BY DEF HsetLastSeen, RegistryTypes, LastSeenPending
<1>5. ASSUME storeKind = "memory", MemoryAgrees PROVE MemoryAgrees'
  <2>1. hash' = hash
    BY <1>4, <1>5 DEF CheckerStep, List, Ping, Compare, MemoryAgrees
  <2>2. \A n \in NodeNames : ~LastSeenPending(n)'
    BY <1>3, <1>5 DEF MemoryAgrees
  <2> QED BY <1>1, <1>5, <2>1, <2>2 DEF MemoryAgrees, Entry, Busy
<1>6. ASSUME storeKind = "valkey", ValkeyAgrees PROVE ValkeyAgrees'
  <2>1. hash' = hash
    <3>1. CASE HsetLastSeen
      BY <1>4, <1>6, <3>1, SetLastSeenStep DEF HsetLastSeen, ValkeyAgrees
    <3> QED BY <3>1 DEF CheckerStep, List, Ping, Compare
  <2>2. \A n \in NodeNames : LastSeenPending(n)' => hash[n] # "none"
    BY <1>3, <1>6 DEF ValkeyAgrees
  <2> QED BY <1>1, <1>6, <2>1, <2>2 DEF ValkeyAgrees, Entry, Mid, Busy, Current
<1> QED BY <1>1, <1>2, <1>5, <1>6 DEF RegistryInv

\* A report writes last_seen only where there is a hash: it changes no hash.
LEMMA ReportInv ==
    ASSUME RegistryTypes, RegistryInv, NEW r \in Reporters, ReportStep(r)
    PROVE  RegistryInv'
<1>1. UNCHANGED <<storeKind, index, clerk, tick, tangles>>
  BY DEF ReportStep, ReportExists, ReportHset, reportFrame, checkerVars
<1>2. MidHasOp'
  BY <1>1 DEF RegistryInv, MidHasOp, Busy
<1>3. ASSUME NEW n \in NodeNames, LastSeenPending(n)'
      PROVE  LastSeenPending(n) \/ (storeKind = "valkey" /\ hash[n] # "none")
  <2>1. CASE tick'.at = "hset" /\ tick'.seen = n
    BY <1>1, <2>1 DEF LastSeenPending
  <2>2. ASSUME NEW q \in Reporters, reporting'[q] = n
        PROVE  LastSeenPending(n) \/ (storeKind = "valkey" /\ hash[n] # "none")
    <3>1. CASE reporting[q] = n
      BY <3>1 DEF LastSeenPending
    <3>2. CASE reporting[q] # n
      BY <2>2, <3>2, RegistryParts, NoPageAssumption DEF ReportStep, ReportExists, ReportHset, Found
    <3> QED BY <3>1, <3>2
  <2> QED BY <1>3, <2>1, <2>2 DEF LastSeenPending
<1>4. ReportHset(r) => reporting[r] \in NodeNames /\ LastSeenPending(reporting[r])
  BY RegistryParts DEF ReportHset, LastSeenPending
<1>5. ASSUME storeKind = "memory", MemoryAgrees PROVE MemoryAgrees'
  <2>1. hash' = hash
    BY <1>4, <1>5 DEF ReportStep, ReportExists, MemoryAgrees
  <2>2. \A n \in NodeNames : ~LastSeenPending(n)'
    BY <1>3, <1>5 DEF MemoryAgrees
  <2> QED BY <1>1, <1>5, <2>1, <2>2 DEF MemoryAgrees, Entry, Busy
<1>6. ASSUME storeKind = "valkey", ValkeyAgrees PROVE ValkeyAgrees'
  <2>1. hash' = hash
    <3>1. CASE ReportHset(r)
      BY <1>4, <1>6, <3>1, SetLastSeenStep DEF ReportHset, ValkeyAgrees
    <3> QED BY <3>1 DEF ReportStep, ReportExists
  <2>2. \A n \in NodeNames : LastSeenPending(n)' => hash[n] # "none"
    BY <1>3, <1>6 DEF ValkeyAgrees
  <2> QED BY <1>1, <1>6, <2>1, <2>2 DEF ValkeyAgrees, Entry, Mid, Busy, Current
<1> QED BY <1>1, <1>2, <1>5, <1>6 DEF RegistryInv

\* A restart cuts off what is under way; where that was half done, it is noted.
LEMMA RestartRegistryInv ==
    ASSUME RegistryTypes, RegistryInv, Restart
    PROVE  RegistryInv'
<1>1. /\ Busy' = {} /\ storeKind' = storeKind
      /\ tangles' = {} => tangles = {} /\ Busy = {}
  BY DEF Restart, Busy
<1>0. \A n \in NodeNames : ~LastSeenPending(n)'
  <2>1. tick'.at = "wait" /\ \A r \in Reporters : reporting'[r] = NoPage
    BY DEF Restart, Waiting
  <2> QED BY <2>1, NoPageAssumption DEF LastSeenPending
<1>2. MidHasOp'
  BY <1>1 DEF MidHasOp
<1>3. ASSUME storeKind = "memory" PROVE MemoryAgrees'
  <2>1. \A n \in NodeNames : Entry(n)'
    BY <1>3 DEF Restart, Entry
  <2> QED BY <1>1, <1>0, <2>1 DEF MemoryAgrees
<1>4. ASSUME storeKind = "valkey", tangles' = {} PROVE ValkeyAgrees'
  <2>1. ValkeyAgrees /\ Busy = {} /\ UNCHANGED <<hash, index>>
    BY <1>1, <1>4 DEF RegistryInv, Restart
  <2>2. \A n \in NodeNames : Entry(n)'
    BY <2>1 DEF ValkeyAgrees, Mid, Entry
  <2> QED BY <1>1, <1>0, <2>2 DEF ValkeyAgrees
<1> QED BY <1>1, <1>2, <1>3, <1>4 DEF RegistryInv

\* A request begins: over Valkey, if another one is under way, it is noted.
LEMMA BeginPageInv ==
    ASSUME RegistryTypes, RegistryInv, NEW a \in Clerks, clerk[a] = NoPage, NEW p \in Pages, BeginPage(a, p)
    PROVE  RegistryInv'
<1>1. /\ \A b \in Clerks : b # a => clerk'[b] = clerk[b]
      /\ clerk'[a] # NoPage /\ clerk'[a].at = "next"
  BY BeginPageStep
<1>2. /\ UNCHANGED <<storeKind, hash, index, reporting, tick>>
      /\ tangles' = {} => tangles = {} /\ Busy = {}
  BY DEF BeginPage, checkerVars, reportVars
<1>3. MidHasOp'
  BY <1>1 DEF RegistryInv, MidHasOp, Busy
<1>4. ASSUME MemoryAgrees PROVE MemoryAgrees'
  BY <1>1, <1>2, <1>4 DEF MemoryAgrees, Entry, Busy, LastSeenPending
<1>5. ASSUME ValkeyAgrees, tangles' = {} PROVE ValkeyAgrees'
  <2>1. \A b \in Clerks : b # a => clerk'[b] = NoPage
    BY <1>1, <1>2, <1>5 DEF Busy
  <2>2. \A n \in NodeNames : Entry(n)'
    BY <1>2, <1>5 DEF ValkeyAgrees, Mid, Entry
  <2> QED BY <1>1, <1>2, <1>5, <2>1, <2>2 DEF ValkeyAgrees, Busy, LastSeenPending
<1> QED BY <1>2, <1>3, <1>4, <1>5 DEF RegistryInv

\* Every step keeps the invariant.
LEMMA RegistryStep ==
    ASSUME RegistryTypes, RegistryInv, [RegistryNext]_sentinelVars
    PROVE  RegistryTypes' /\ RegistryInv'
<1>1. CASE RegistryNext
  <2>1. ASSUME NEW a \in FreeClerk, NEW p \in Pages, BeginPage(a, p) PROVE RegistryInv'
    BY <2>1, FreeClerkIsFree, BeginPageInv
  <2>2. ASSUME NEW a \in Clerks, ClerkStep(a) PROVE RegistryInv'
    <3>1. storeKind' = storeKind /\ tangles \subseteq tangles'
      BY <2>2 DEF ClerkStep, Look, Hset, SaddIndex, DelHash, SremIndex, EndPage, Fails, clerkFrame
    <3> QED BY <2>2, <3>1, ClerkMidHasOp, ClerkMemory, ClerkValkey DEF RegistryInv
  <2>3. ASSUME NEW n \in NodeNames, Flip(n) PROVE RegistryInv'
    <3>1. UNCHANGED <<storeKind, hash, index, clerk, reporting, tick, tangles>>
      BY <2>3 DEF Flip, registryVars, reportVars, checkerVars
    <3> QED BY <3>1
            DEF RegistryInv, MidHasOp, MemoryAgrees, ValkeyAgrees, Entry, Mid, Busy, Current, LastSeenPending
  <2> QED BY <1>1, <2>1, <2>2, <2>3, CheckerInv, ReportInv, RestartRegistryInv, RegistryTypesKept DEF RegistryNext
<1>2. CASE UNCHANGED sentinelVars
  <2>1. UNCHANGED <<storeKind, hash, index, clerk, pages, reporting, reports, up, upheavals, status, tick,
                    announced, tangles>>
    BY <1>2 DEF sentinelVars, registryVars, reportVars, checkerVars
  <2>2. RegistryTypes'
    BY <2>1, RegistryParts DEF RegistryTypes, RegistryTypeOK
  <2>3. RegistryInv'
    BY <2>1 DEF RegistryInv, MidHasOp, MemoryAgrees, ValkeyAgrees, Entry, Mid, Busy, Current, LastSeenPending
  <2> QED BY <2>2, <2>3
<1> QED BY <1>1, <1>2

\* It holds at the start.
LEMMA RegistryStart == RegistryInit => RegistryTypes /\ RegistryInv
<1> SUFFICES ASSUME RegistryInit PROVE RegistryTypes /\ RegistryInv
  OBVIOUS
<1>1. Unknown \in [NodeNames -> {"unknown", "up", "down"}] /\ Waiting \in Tick /\ Waiting.at = "wait"
  BY DEF Unknown, Waiting, Tick
<1>2. RegistryTypes
  BY <1>1 DEF RegistryInit, RegistryTypes, RegistryTypeOK, Fields
<1>3. Busy = {} /\ \A n \in NodeNames : Entry(n)
  BY DEF RegistryInit, Busy, Entry
<1>4. \A n \in NodeNames : ~LastSeenPending(n)
  BY <1>1, NoPageAssumption DEF RegistryInit, LastSeenPending
<1> QED BY <1>2, <1>3, <1>4 DEF RegistryInv, MidHasOp, MemoryAgrees, ValkeyAgrees

\* The types and the invariant hold in every state.
THEOREM RegistryInvariant == RegistrySpec => [](RegistryTypes /\ RegistryInv)
<1>1. RegistryTypes /\ RegistryInv /\ [RegistryNext]_sentinelVars => RegistryTypes' /\ RegistryInv'
  BY RegistryStep
<1> QED BY <1>1, RegistryStart, PTL DEF RegistrySpec

\* The invariant says so between two requests.
LEMMA NamesAgreeThen == RegistryTypes /\ RegistryInv => NamesAgree
<1> SUFFICES ASSUME RegistryTypes, RegistryInv, Busy = {}, storeKind = "memory" \/ tangles = {},
                    NEW n \in NodeNames
             PROVE  Entry(n)
  BY DEF NamesAgree, Entry
<1> QED BY RegistryParts DEF RegistryInv, MemoryAgrees, ValkeyAgrees, Mid

\* What is listed can be deleted and what is not can be registered.
THEOREM RegistryNamesAgree == RegistrySpec => []NamesAgree
BY NamesAgreeThen, RegistryInvariant, PTL

-----------------------------------------------------------------------------
(* The areas side by side.                                                 *)

\* One of the areas is exercised.
AreaTypeOK == area \in Areas

\* A step of the administration is a step of one area and leaves the others alone, so
\* what it does is what each area may do.
LEMMA AreaSteps ==
    ASSUME [AdministrationNext]_allVars
    PROVE  /\ [SettingsNext]_settingsVars
           /\ [RegistryNext]_sentinelVars
           /\ [SessionsNext]_sessionVars
           /\ [ProvidersNext]_providerVars
           /\ [WebhooksNext]_hookVars
           /\ AreaTypeOK => AreaTypeOK'
<1>1. CASE UNCHANGED allVars
  BY <1>1 DEF allVars, AreaTypeOK
<1>2. CASE AdministrationNext
  BY <1>2 DEF AdministrationNext, AreaTypeOK
<1> QED BY <1>1, <1>2

\* The administration implements each of its areas.  The fairness of the health checker
\* is not carried over; what follows is about safety.
LEMMA AreasImplemented ==
    AdministrationSpec =>
        /\ SettingsSpec /\ SessionsSpec /\ ProvidersSpec /\ WebhooksSpec
        /\ RegistryInit /\ [][RegistryNext]_sentinelVars
        /\ []AreaTypeOK
<1>1. AdministrationSpec => AdministrationInit /\ [][AdministrationNext]_allVars
  BY PTL DEF AdministrationSpec
<1>2. AdministrationInit /\ [][AdministrationNext]_allVars => SettingsSpec
  <2>1. AdministrationInit => SettingsInit
    BY DEF AdministrationInit
  <2>2. [AdministrationNext]_allVars => [SettingsNext]_settingsVars
    BY AreaSteps
  <2> QED BY <2>1, <2>2, PTL DEF SettingsSpec
<1>3. AdministrationInit /\ [][AdministrationNext]_allVars => SessionsSpec
  <2>1. AdministrationInit => SessionsInit
    BY DEF AdministrationInit
  <2>2. [AdministrationNext]_allVars => [SessionsNext]_sessionVars
    BY AreaSteps
  <2> QED BY <2>1, <2>2, PTL DEF SessionsSpec
<1>4. AdministrationInit /\ [][AdministrationNext]_allVars => ProvidersSpec
  <2>1. AdministrationInit => ProvidersInit
    BY DEF AdministrationInit
  <2>2. [AdministrationNext]_allVars => [ProvidersNext]_providerVars
    BY AreaSteps
  <2> QED BY <2>1, <2>2, PTL DEF ProvidersSpec
<1>5. AdministrationInit /\ [][AdministrationNext]_allVars => WebhooksSpec
  <2>1. AdministrationInit => WebhooksInit
    BY DEF AdministrationInit
  <2>2. [AdministrationNext]_allVars => [WebhooksNext]_hookVars
    BY AreaSteps
  <2> QED BY <2>1, <2>2, PTL DEF WebhooksSpec
<1>6. AdministrationInit /\ [][AdministrationNext]_allVars => RegistryInit /\ [][RegistryNext]_sentinelVars
  <2>1. AdministrationInit => RegistryInit
    BY DEF AdministrationInit
  <2>2. [AdministrationNext]_allVars => [RegistryNext]_sentinelVars
    BY AreaSteps
  <2> QED BY <2>1, <2>2, PTL
<1>7. AdministrationInit /\ [][AdministrationNext]_allVars => []AreaTypeOK
  <2>1. AdministrationInit => AreaTypeOK
    BY DEF AdministrationInit, AreaTypeOK
  <2>2. AreaTypeOK /\ [AdministrationNext]_allVars => AreaTypeOK'
    BY AreaSteps
  <2> QED BY <2>1, <2>2, PTL
<1> QED BY <1>1, <1>2, <1>3, <1>4, <1>5, <1>6, <1>7, PTL

\* The registry's invariant needs no fairness.
LEMMA RegistrySafety ==
    RegistryInit /\ [][RegistryNext]_sentinelVars => [](RegistryTypes /\ RegistryInv)
<1>1. RegistryTypes /\ RegistryInv /\ [RegistryNext]_sentinelVars => RegistryTypes' /\ RegistryInv'
  BY RegistryStep
<1> QED BY <1>1, RegistryStart, PTL

\* Every variable of every area keeps its type.
THEOREM AdministrationTypes == AdministrationSpec => []AdministrationTypeOK
<1>1. SettingsTypes => SettingsTypeOK
  BY DEF SettingsTypes
<1>2. RegistryTypes => RegistryTypeOK
  BY DEF RegistryTypes
<1>3. /\ AreaTypeOK /\ SettingsTypeOK /\ RegistryTypeOK /\ SessionsTypeOK /\ ProvidersTypeOK /\ WebhooksTypeOK
      => AdministrationTypeOK
  BY DEF AdministrationTypeOK, AreaTypeOK
<1> QED BY <1>1, <1>2, <1>3, AreasImplemented, SettingsTypesKept, RegistrySafety, TypeCorrect,
           ProvidersInvariant, HooksInvariant, PTL

\* What holds of each area alone holds of all of them in one manager.
THEOREM AdministrationSafe ==
    AdministrationSpec =>
        /\ []RevokedStaysRevoked /\ NoLockout
        /\ []NamesAgree
        /\ []LockoutBounded /\ []FormsStayValid
        /\ []ProvidersFollowConfigs
        /\ []DeletedStaysDeleted /\ []SlackNotLost /\ EveryHookTried
BY AreasImplemented, NoRevokedTokenAccepted, OnlyDeletionLocksOut, RegistrySafety, NamesAgreeThen,
   LockoutHolds, FormsStay, ProvidersAgree, WebhooksStayDeleted, MigrationKeepsSlack,
   NotificationReachesAll, PTL
=============================================================================
