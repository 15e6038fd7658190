-------------------------- MODULE RuntimeSettings --------------------------
(***************************************************************************)
(* The runtime settings: one JSON map under one key that several pages     *)
(* read, change and write back whole, next to a key with one API token for *)
(* backward compatibility.  SettingsServerSave, SentinelToggleAlert (and   *)
(* the same code in SentinelClusterEditSave), RegenerateToken and          *)
(* DeleteToken of web/admin.go; getValidTokens of api/auth.go decides      *)
(* which tokens the API accepts.                                           *)
(***************************************************************************)
EXTENDS Naturals

CONSTANTS Editors,       \* requests under way at once
          TokenNames,    \* names of API tokens, "default" among them
          Groups,        \* Sentinel groups with an alert switch
          MaxEdits,      \* bound: requests served
          MaxTokens,     \* bound: tokens generated
          SettingsFaults,            \* what may fail: sets of {"read", "write", "crash"}
          NoEdit

ASSUME SettingsAssumption ==
    /\ "default" \in TokenNames
    /\ MaxEdits \in Nat /\ MaxTokens \in Nat
    /\ SettingsFaults \subseteq SUBSET {"read", "write", "crash"}

VARIABLES faulty,        \* the faults this behaviour may show
          settings,      \* smgr:runtime:settings
          single,        \* smgr:api:token
          edit,          \* edit[a]: the request's form, next call and what it has read
          edits, minted, \* counters for the bounds; tokens are numbered
          revoked,       \* history: tokens whose deletion or replacement has ended
          mishaps        \* history: what the code does not guard against

settingsVars == <<faulty, settings, single, edit, edits, minted, revoked, mishaps>>

NoToken == 0
Tokens == 0..MaxTokens
NoTokens == [n \in TokenNames |-> NoToken]

\* The map: the token JSON (absent and "{}" make no difference), the groups whose
\* alert is on, and whether the page's server settings were ever saved.
Settings == [tokens : [TokenNames -> Tokens], alerts : SUBSET Groups, server : BOOLEAN]
NoSettings == [tokens |-> NoTokens, alerts |-> {}, server |-> FALSE]

SettingsForm ==
    [kind : {"server"}] \union [kind : {"alert"}, group : Groups, on : BOOLEAN]
    \union [kind : {"regenerate", "delete"}, name : TokenNames]
Edit == [form : SettingsForm, at : {"read", "legacy", "reread", "write", "single"},
         tokens : [TokenNames -> Tokens], map : Settings]

\* NoEdit stands for "no request" and is none.
ASSUME NoEditAssumption == NoEdit \notin Edit

SettingsInit ==
    /\ faulty \in SettingsFaults
    /\ settings = NoSettings /\ single = NoToken
    /\ edit = [a \in Editors |-> NoEdit]
    /\ edits = 0 /\ minted = 0
    /\ revoked = {} /\ mishaps = {}

Editing == {a \in Editors : edit[a] # NoEdit}
EditAt(a, label) == edit[a] # NoEdit /\ edit[a].at = label
Values(tokens) == {tokens[n] : n \in TokenNames} \ {NoToken}

\* getValidTokens: the named tokens, or else the single one.
Accepted ==
    IF Values(settings.tokens) # {} THEN Values(settings.tokens) ELSE {single} \ {NoToken}

EditStep(a, e) == edit' = [edit EXCEPT ![a] = e]
ReadsOf(f) ==
    {settings} \union IF f \in faulty /\ mishaps \intersect {"fault"} = {} THEN {NoSettings} ELSE {}
Note(read) == mishaps' = mishaps \union (IF read = settings THEN {} ELSE {"fault"})

\* A form arrives.  The server page reads nothing: its map is the form's.  Bound: no
\* request begins after a mishap, past which nothing is claimed.
StartEdit(a, f) ==
    /\ edit[a] = NoEdit /\ edits < MaxEdits /\ mishaps = {}
    /\ edits' = edits + 1
    /\ EditStep(a, [form |-> f, at |-> IF f.kind = "server" THEN "write" ELSE "read",
                    tokens |-> NoTokens,
                    map |-> IF f.kind = "server" THEN [NoSettings EXCEPT !.server = TRUE] ELSE NoSettings])
    /\ mishaps' = mishaps \union (IF Editing = {} THEN {} ELSE {"race"})
    /\ UNCHANGED <<faulty, settings, single, minted, revoked>>

\* What the form does to the named tokens that the handler knows of.
Changed(a, tokens) ==
    IF edit[a].form.kind = "regenerate" THEN [tokens EXCEPT ![edit[a].form.name] = minted']
    ELSE [tokens EXCEPT ![edit[a].form.name] = NoToken]
Mint(a) ==
    IF edit[a].form.kind = "regenerate" THEN minted < MaxTokens /\ minted' = minted + 1
    ELSE UNCHANGED minted
Revoke(a, tokens) == ({tokens[edit[a].form.name]} \ {NoToken}) \union revoked

\* GetRuntimeSettings.  An error leaves an empty map, which will be written back.
\* getAPITokens falls back to the single token if it finds no named one.
ReadSettings(a) ==
    /\ EditAt(a, "read")
    /\ \E read \in ReadsOf("read") :
        /\ Note(read)
        /\ IF edit[a].form.kind = "alert"
           THEN LET g == edit[a].form.group
                IN  /\ EditStep(a, [edit[a] EXCEPT !.at = "write",
                           !.map = [read EXCEPT !.alerts = IF edit[a].form.on THEN @ \union {g} ELSE @ \ {g}]])
                    /\ UNCHANGED <<minted, revoked>>
           ELSE IF Values(read.tokens) = {}
           THEN EditStep(a, [edit[a] EXCEPT !.at = "legacy"]) /\ UNCHANGED <<minted, revoked>>
           ELSE /\ Mint(a)
                /\ EditStep(a, [edit[a] EXCEPT !.at = "reread", !.tokens = Changed(a, read.tokens)])
                /\ revoked' = Revoke(a, read.tokens)
    /\ UNCHANGED <<faulty, settings, single, edits>>

\* GetAPIToken; the single token counts as the one named "default".
ReadLegacy(a) ==
    LET tokens == [NoTokens EXCEPT !["default"] = single]
    IN  /\ EditAt(a, "legacy")
        /\ Mint(a)
        /\ EditStep(a, [edit[a] EXCEPT !.at = "reread", !.tokens = Changed(a, tokens)])
        /\ revoked' = Revoke(a, tokens)
        /\ UNCHANGED <<faulty, settings, single, edits, mishaps>>

\* saveAPITokens reads the map again.
RereadSettings(a) ==
    /\ EditAt(a, "reread")
    /\ \E read \in ReadsOf("read") :
        /\ Note(read)
        /\ EditStep(a, [edit[a] EXCEPT !.at = "write", !.map = [read EXCEPT !.tokens = edit[a].tokens]])
    /\ UNCHANGED <<faulty, settings, single, edits, minted, revoked>>

\* SaveRuntimeSettings; errors are not looked at.
WriteSettings(a) ==
    /\ EditAt(a, "write")
    /\ \/ settings' = edit[a].map /\ UNCHANGED mishaps
       \/ "write" \in faulty /\ "fault" \notin mishaps /\ UNCHANGED settings /\ mishaps' = mishaps \union {"fault"}
    /\ EditStep(a, IF edit[a].form.kind \in {"server", "alert"} THEN NoEdit
                   ELSE [edit[a] EXCEPT !.at = "single"])
    /\ UNCHANGED <<faulty, single, edits, minted, revoked>>

\* Mutant: the single token is written once and then left alone.
SingleForKept(tokens) == IF single # NoToken THEN {single} ELSE Values(tokens) \union {NoToken}

\* Mutant: the single token stays when the last named one is deleted.
SingleForLast(tokens) == IF Values(tokens) = {} THEN {single} ELSE Values(tokens)

\* The single token is any of the named ones: Go ranges over a map in no order.
SingleFor(tokens) == IF Values(tokens) = {} THEN {NoToken} ELSE Values(tokens)

\* SetAPIToken, or DeleteAPIToken if no token is left.
WriteSingle(a) ==
    /\ EditAt(a, "single")
    /\ \/ single' \in SingleFor(edit[a].tokens) /\ UNCHANGED mishaps
       \/ "write" \in faulty /\ "fault" \notin mishaps /\ UNCHANGED single /\ mishaps' = mishaps \union {"fault"}
    /\ EditStep(a, NoEdit)
    /\ UNCHANGED <<faulty, settings, edits, minted, revoked>>

\* The manager stops between two calls of a request.
CrashEdit(a) ==
    /\ "crash" \in faulty /\ "fault" \notin mishaps
    /\ edit[a] # NoEdit
    /\ EditStep(a, NoEdit)
    /\ mishaps' = mishaps \union {"fault"}
    /\ UNCHANGED <<faulty, settings, single, edits, minted, revoked>>

\* Goroutines are interchangeable.
FreeEditor == IF Editing = Editors THEN {} ELSE {CHOOSE a \in Editors : a \notin Editing}

SettingsNext ==
    \/ \E a \in FreeEditor, f \in SettingsForm : StartEdit(a, f)
    \/ \E a \in Editors :
        \/ ReadSettings(a) \/ ReadLegacy(a) \/ RereadSettings(a) \/ WriteSettings(a)
        \/ WriteSingle(a) \/ CrashEdit(a)

SettingsSpec == SettingsInit /\ [][SettingsNext]_settingsVars

-----------------------------------------------------------------------------
(* Properties.                                                             *)

\* Every variable keeps its type.
SettingsTypeOK ==
    /\ faulty \subseteq {"read", "write", "crash"}
    /\ settings \in Settings /\ single \in Tokens
    /\ edit \in [Editors -> Edit \union {NoEdit}]
    /\ edits \in Nat /\ minted \in Tokens
    /\ revoked \subseteq Tokens
    /\ mishaps \subseteq {"race", "fault"}

\* A token that was deleted or replaced is not accepted again, although the server
\* page throws the named tokens away and the API then falls back to the single one.
\* This needs token and settings requests one after the other, none of them cut off
\* or failing half way.
RevokedStaysRevoked ==
    mishaps = {} /\ Editing = {} => Accepted \intersect revoked = {}

\* The same requests never lock the agents out: only the deletion of the last token
\* leaves no token that the API accepts, whatever the server page has overwritten.
NoLockout ==
    [][mishaps' = {} /\ Accepted # {} /\ Accepted' = {} =>
        \E a \in Editing : edit[a].form.kind = "delete" /\ Values(edit[a].tokens) = {}]_settingsVars
=============================================================================
