------------------------------ MODULE Webhooks ------------------------------
(***************************************************************************)
(* The webhooks notifications go to: the hash smgr:webhooks, the pages of  *)
(* web/admin.go that create, edit, toggle and delete an entry,             *)
(* SendNotifications of core/notifier.go that goes through the enabled     *)
(* ones, and the migration in main.go of a Slack URL that older versions   *)
(* kept under a key of its own.                                            *)
(*                                                                         *)
(* Several manager instances may share the store: pages are served while   *)
(* one of them starts and migrates.                                        *)
(***************************************************************************)
EXTENDS Naturals

CONSTANTS HookIds,       \* ids generateWebhookID draws
          HookPages,     \* pages under way at once
          MaxHookPages,  \* bound: pages served
          MaxSends,      \* bound: notifications
          MaxHookStarts, \* bound: starts of an instance
          HookFaults,    \* what may fail: sets of {"save", "list", "post"}
          NoHook, NoHookPage

Slack == "wh_slack_migrated"

ASSUME WebhooksAssumption ==
    /\ Slack \notin HookIds
    /\ MaxHookPages \in Nat /\ MaxSends \in Nat /\ MaxHookStarts \in Nat
    /\ HookFaults \subseteq SUBSET {"save", "list", "post"}

VARIABLES hookFaults,    \* the faults this behaviour may show
          webhooks,      \* webhooks[i]: content and Enabled, NoHook if there is none
          legacy,        \* whether smgr:slack:webhook_url exists
          migration,     \* the starting instance's next step
          hookPage,      \* hookPage[a]: what the page does, and the entry it has read
          sending,       \* the list a notification goes through, and what is left of it
          tried,         \* webhooks the notification was posted to
          hookPages, sends, hookStarts,  \* counters for the bounds
          used, removed, \* history: ids drawn, ids deleted by a page
          hookMishaps    \* history: what the code does not guard against

hookCounters == <<hookPages, sends, hookStarts>>
sendVars == <<sending, tried>>
hookVars == <<hookFaults, webhooks, legacy, migration, hookPage, sendVars, hookCounters, used,
              removed, hookMishaps>>

AllHooks == HookIds \union {Slack}
Contents == {"old", "new"}
Hook == [content : Contents, enabled : BOOLEAN]
HookPage == [kind : {"create", "edit", "toggle", "delete"}, id : AllHooks,
             at : {"get", "save", "delete"}, hook : Hook \union {NoHook}]

\* NoHook and NoHookPage stand for "none" and are none.
ASSUME NoneHookAssumption == NoHook \notin Hook /\ NoHookPage \notin HookPage

NotSending == [busy |-> FALSE, list |-> {}, left |-> {}]

\* The store of an older version.  A fresh one is as after the migration.
WebhooksInit ==
    /\ hookFaults \in HookFaults
    /\ webhooks = [i \in AllHooks |-> NoHook]
    /\ legacy = TRUE
    /\ migration = "get"
    /\ hookPage = [a \in HookPages |-> NoHookPage]
    /\ sending = NotSending /\ tried = {}
    /\ hookPages = 0 /\ sends = 0 /\ hookStarts = 0
    /\ used = {} /\ removed = {}
    /\ hookMishaps = {}

Paging == {a \in HookPages : hookPage[a] # NoHookPage}
PageAt(a, label) == hookPage[a] # NoHookPage /\ hookPage[a].at = label
PageEnds(a) == hookPage' = [hookPage EXCEPT ![a] = NoHookPage]

-----------------------------------------------------------------------------
(* The pages.                                                              *)

pageServed == <<hookFaults, legacy, migration, sendVars, sends, hookStarts>>

\* WebhookCreate draws an id; the others come with one of a webhook shown before.
BeginHookPage(a, kind, i) ==
    /\ hookPage[a] = NoHookPage /\ hookPages < MaxHookPages
    /\ hookPages' = hookPages + 1
    /\ IF kind = "create" THEN i \in HookIds \ used ELSE i \in used \union {Slack}
    /\ used' = IF kind = "create" THEN used \union {i} ELSE used
    /\ hookPage' = [hookPage EXCEPT ![a] =
           [kind |-> kind, id |-> i,
            at |-> CASE kind = "create" -> "save" [] kind = "delete" -> "delete" [] OTHER -> "get",
            hook |-> IF kind = "create" THEN [content |-> "old", enabled |-> TRUE] ELSE NoHook]]
    /\ UNCHANGED <<webhooks, removed, hookMishaps, pageServed>>

\* Mutant: an edit of an id that is not found creates it.
EditedAnyway(page) ==
    IF page.kind = "edit" THEN [content |-> "new", enabled |-> TRUE] ELSE NoHook

\* The entry of an edit or a toggle, as read and changed; NoHook if it is not there.
Edited(page) ==
    IF webhooks[page.id] = NoHook THEN NoHook
    ELSE IF page.kind = "edit" THEN [webhooks[page.id] EXCEPT !.content = "new"]
    ELSE [webhooks[page.id] EXCEPT !.enabled = ~@]

\* GetWebhook of WebhookEdit and WebhookToggle.
GetHook(a) ==
    /\ PageAt(a, "get")
    /\ IF Edited(hookPage[a]) = NoHook THEN PageEnds(a)
       ELSE hookPage' = [hookPage EXCEPT ![a].at = "save", ![a].hook = Edited(hookPage[a])]
    /\ UNCHANGED <<webhooks, hookPages, used, removed, hookMishaps, pageServed>>

\* SaveWebhook; an error is logged or not looked at.
SaveHook(a) ==
    /\ PageAt(a, "save")
    /\ \/ webhooks' = [webhooks EXCEPT ![hookPage[a].id] = hookPage[a].hook]
       \/ "save" \in hookFaults /\ UNCHANGED webhooks
    /\ PageEnds(a)
    /\ UNCHANGED <<hookPages, used, removed, hookMishaps, pageServed>>

\* WebhookDelete.  A page that has read the entry, or a migration that has not come to
\* its end, will write it again.
DeleteHook(a) ==
    LET i == hookPage[a].id
    IN  /\ PageAt(a, "delete")
        /\ webhooks' = [webhooks EXCEPT ![i] = NoHook]
        /\ removed' = removed \union {i}
        /\ hookMishaps' = hookMishaps \union
               (IF \/ \E b \in Paging : hookPage[b].id = i /\ hookPage[b].at = "save"
                   \/ i = Slack /\ legacy
                THEN {"revived"} ELSE {})
        /\ PageEnds(a)
        /\ UNCHANGED <<hookPages, used, pageServed>>

-----------------------------------------------------------------------------
(* The migration.                                                          *)

starting == <<hookFaults, hookPage, hookPages, sendVars, sends, used, removed>>

\* Mutant: the old key is deleted first.
MigrationOrderSwapped == <<"delete", "save">>

\* SaveWebhook, then DeleteSlackLegacy.
MigrationOrder == <<"save", "delete">>

AfterStep(step) == IF MigrationOrder[1] = step THEN MigrationOrder[2] ELSE "done"

\* GetSlackWebhookURL and GetSlackChannel; an error counts as "".
MigrateGet ==
    /\ migration = "get"
    /\ \/ migration' = IF legacy THEN MigrationOrder[1] ELSE "done"
       \/ "list" \in hookFaults /\ migration' = "done"
    /\ UNCHANGED <<webhooks, legacy, hookStarts, hookMishaps, starting>>

MigrateSave ==
    /\ migration = "save"
    /\ \/ /\ webhooks' = [webhooks EXCEPT ![Slack] = [content |-> "old", enabled |-> TRUE]]
          /\ UNCHANGED hookMishaps
       \/ /\ "save" \in hookFaults
          /\ UNCHANGED webhooks
          /\ hookMishaps' = hookMishaps \union {"not saved"}
    /\ migration' = AfterStep("save")
    /\ UNCHANGED <<legacy, hookStarts, starting>>

MigrateDelete ==
    /\ migration = "delete"
    /\ \/ legacy' = FALSE
       \/ "save" \in hookFaults /\ UNCHANGED legacy
    /\ migration' = AfterStep("delete")
    /\ UNCHANGED <<webhooks, hookStarts, hookMishaps, starting>>

\* The instance stops, at any time, and starts.  A page or notification of its own that
\* is cut off is one that never takes its next step.
StartAgain ==
    /\ hookStarts < MaxHookStarts
    /\ hookStarts' = hookStarts + 1
    /\ migration' = "get"
    /\ UNCHANGED <<webhooks, legacy, hookMishaps, starting>>

-----------------------------------------------------------------------------
(* Notifications.                                                          *)

sendFrame == <<hookFaults, webhooks, legacy, migration, hookPage, hookPages, hookStarts, used,
               removed, hookMishaps>>

\* SendNotifications lists the webhooks; after an error there is nothing to send to.
ListWebhooks ==
    /\ ~sending.busy /\ sends < MaxSends
    /\ sends' = sends + 1
    /\ \/ LET enabled == {i \in AllHooks : webhooks[i] # NoHook /\ webhooks[i].enabled}
          IN  sending' = [busy |-> TRUE, list |-> enabled, left |-> enabled]
       \/ "list" \in hookFaults /\ sending' = [NotSending EXCEPT !.busy = TRUE]
    /\ tried' = {}
    /\ UNCHANGED sendFrame

\* Mutant: the first error ends the loop.
LeftAfterError(i) == {}

\* What is left after an error: it is logged and the loop goes on.
LeftAfter(i) == sending.left \ {i}

\* One webhook, in the order of a Go map.
SendToEndpoint(i) ==
    /\ i \in sending.left
    /\ tried' = tried \union {i}
    /\ \/ sending' = [sending EXCEPT !.left = @ \ {i}]
       \/ "post" \in hookFaults /\ sending' = [sending EXCEPT !.left = LeftAfter(i)]
    /\ UNCHANGED <<sends, sendFrame>>

EndSending ==
    /\ sending.busy /\ sending.left = {}
    /\ sending' = NotSending
    /\ UNCHANGED <<tried, sends, sendFrame>>

SendStep == (\E i \in AllHooks : SendToEndpoint(i)) \/ EndSending

\* Goroutines are interchangeable.
FreePage == IF Paging = HookPages THEN {} ELSE {CHOOSE a \in HookPages : a \notin Paging}

WebhooksNext ==
    \/ \E a \in FreePage, kind \in {"create", "edit", "toggle", "delete"}, i \in AllHooks :
          BeginHookPage(a, kind, i)
    \/ \E a \in HookPages : GetHook(a) \/ SaveHook(a) \/ DeleteHook(a)
    \/ MigrateGet \/ MigrateSave \/ MigrateDelete \/ StartAgain
    \/ ListWebhooks \/ SendStep

WebhooksSpec == WebhooksInit /\ [][WebhooksNext]_hookVars

-----------------------------------------------------------------------------
(* Properties.                                                             *)

\* Every variable keeps its type.
WebhooksTypeOK ==
    /\ hookFaults \subseteq {"save", "list", "post"}
    /\ webhooks \in [AllHooks -> Hook \union {NoHook}]
    /\ legacy \in BOOLEAN /\ migration \in {"get", "save", "delete", "done"}
    /\ hookPage \in [HookPages -> HookPage \union {NoHookPage}]
    /\ sending \in [busy : BOOLEAN, list : SUBSET AllHooks, left : SUBSET AllHooks]
    /\ tried \subseteq AllHooks
    /\ hookPages \in Nat /\ sends \in Nat /\ hookStarts \in Nat
    /\ used \subseteq HookIds /\ removed \subseteq AllHooks
    /\ hookMishaps \subseteq {"revived", "not saved"}

\* A webhook that was deleted does not come back, unless an edit or toggle had read it
\* before, or the migration had not yet deleted the old Slack key.
DeletedStaysDeleted ==
    "revived" \notin hookMishaps => \A i \in removed : webhooks[i] = NoHook

\* At whatever step an instance stops and however often the migration is repeated, the
\* Slack destination stays: under the old key or as a webhook, until a page deletes it.
\* A store error while it is saved can lose it, as the old key is deleted all the same.
SlackNotLost ==
    \/ legacy \/ webhooks[Slack] # NoHook
    \/ Slack \in removed \/ "not saved" \in hookMishaps

\* A notification is tried with every webhook that its list shows as enabled, whichever
\* of the posts before failed and whatever pages do in the meantime.  A post is tried
\* also if it fails at once: on the path of the events all posts share the 60 s of
\* their handler, and a slow one may leave no time for those after it.
EveryHookTried ==
    [][sending.busy /\ ~sending'.busy => tried = sending.list]_hookVars
=============================================================================
