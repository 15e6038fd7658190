----------------------- MODULE RuntimeSettingsProofs -----------------------
(***************************************************************************)
(* Proofs about RuntimeSettings, for any number of concurrent requests,    *)
(* token names and groups: a revoked API token is not accepted again, and  *)
(* no page but the deletion of the last token locks the agents out.        *)
(***************************************************************************)
EXTENDS RuntimeSettings, TLAPS

USE SettingsAssumption, NoEditAssumption DEF SettingsAssumption, NoEditAssumption

-----------------------------------------------------------------------------
(* Types.                                                                  *)

TokenForm(e) == e.form.kind \in {"regenerate", "delete"}

\* A request makes the calls of its form: the server page only writes, and only the
\* two token pages look for the single token, read twice and write two keys.
Fits(e) ==
    /\ e.at = "read" => e.form.kind # "server"
    /\ e.at \in {"legacy", "reread", "single"} => TokenForm(e)
SettingsTypes == SettingsTypeOK /\ \A a \in Editors : edit[a] # NoEdit => Fits(edit[a])

\* What the forms hold.
LEMMA FormFields ==
    ASSUME NEW f \in SettingsForm
    PROVE  /\ f.kind \in {"server", "alert", "regenerate", "delete"}
           /\ f.kind = "alert" => f.group \in Groups
           /\ f.kind \in {"regenerate", "delete"} => f.name \in TokenNames
BY DEF SettingsForm

\* A request that is under way is one, and fits its form.
LEMMA EditFields ==
    ASSUME SettingsTypes, NEW a \in Editors, edit[a] # NoEdit
    PROVE  /\ edit[a] \in Edit /\ Fits(edit[a])
           /\ edit[a].form \in SettingsForm
           /\ edit[a].tokens \in [TokenNames -> Tokens] /\ edit[a].map \in Settings
BY DEF SettingsTypes, SettingsTypeOK, Edit

\* A request that goes on, or ends, leaves the others as they were.
LEMMA EditStepTypes ==
    ASSUME SettingsTypes, NEW a \in Editors, NEW e,
           e = NoEdit \/ (e \in Edit /\ Fits(e)), EditStep(a, e)
    PROVE  /\ edit' \in [Editors -> Edit \union {NoEdit}]
           /\ \A b \in Editors : edit'[b] # NoEdit => Fits(edit'[b])
BY DEF EditStep, SettingsTypes, SettingsTypeOK

\* No token is a token of the type, and so are the maps of none.
LEMMA NoTokenTypes ==
    NoTokens \in [TokenNames -> Tokens] /\ NoSettings \in Settings /\ 0 \in Tokens
<1>1. NoToken \in Tokens /\ 0 \in Tokens
  BY DEF Tokens, NoToken
<1>2. NoTokens \in [TokenNames -> Tokens]
  BY <1>1 DEF NoTokens
<1> QED BY <1>1, <1>2 DEF NoSettings, Settings

\* What GetRuntimeSettings returns, with or without an error.
LEMMA ReadTypes ==
    ASSUME SettingsTypes, NEW f, NEW read \in ReadsOf(f)
    PROVE  read \in Settings /\ read.tokens \in [TokenNames -> Tokens]
BY NoTokenTypes DEF ReadsOf, SettingsTypes, SettingsTypeOK, Settings

\* A page changes the named tokens it knows of; RegenerateToken and DeleteToken share
\* these lines.
TakesTokens(a, tokens) ==
    /\ Mint(a)
    /\ EditStep(a, [edit[a] EXCEPT !.at = "reread", !.tokens = Changed(a, tokens)])
    /\ revoked' = Revoke(a, tokens)

\* It keeps the types.
LEMMA TakesTokensTypes ==
    ASSUME SettingsTypes, NEW a \in Editors, edit[a] # NoEdit, TokenForm(edit[a]),
           NEW tokens \in [TokenNames -> Tokens], TakesTokens(a, tokens)
    PROVE  /\ edit' \in [Editors -> Edit \union {NoEdit}]
           /\ \A b \in Editors : edit'[b] # NoEdit => Fits(edit'[b])
           /\ minted' \in Tokens /\ revoked' \subseteq Tokens
           /\ Changed(a, tokens) \in [TokenNames -> Tokens]
<1>1. minted' \in Tokens
  <2>1. minted \in 0..MaxTokens /\ (minted' = minted \/ (minted < MaxTokens /\ minted' = minted + 1))
    BY DEF TakesTokens, Mint, SettingsTypes, SettingsTypeOK, Tokens
  <2> QED BY <2>1 DEF Tokens
<1>2. Changed(a, tokens) \in [TokenNames -> Tokens]
  BY <1>1, NoTokenTypes DEF Changed, NoToken
<1>3. edit[a].form.name \in TokenNames
  BY EditFields, FormFields DEF TokenForm
<1>4. revoked' \subseteq Tokens
  BY <1>3 DEF TakesTokens, Revoke, SettingsTypes, SettingsTypeOK
<1> DEFINE e == [edit[a] EXCEPT !.at = "reread", !.tokens = Changed(a, tokens)]
<1>5. e \in Edit /\ e.form = edit[a].form /\ e.at = "reread"
  <2>1. PICK r : r = edit[a] /\ r \in Edit
    BY EditFields
  <2>2. PICK t \in [TokenNames -> Tokens] : t = Changed(a, tokens)
    BY <1>2
  <2>3. [r EXCEPT !.at = "reread", !.tokens = t] \in Edit
    BY <2>1 DEF Edit
  <2>4. /\ [r EXCEPT !.at = "reread", !.tokens = t].form = r.form
        /\ [r EXCEPT !.at = "reread", !.tokens = t].at = "reread"
    BY <2>1 DEF Edit
  <2> QED BY <2>1, <2>2, <2>3, <2>4
<1>6. Fits(e)
  BY <1>5 DEF Fits, TokenForm
<1>7. EditStep(a, e)
  BY DEF TakesTokens
<1> QED BY <1>1, <1>2, <1>4, <1>5, <1>6, <1>7, EditStepTypes

\* StartEdit keeps the types.
LEMMA StartEditTypes ==
    ASSUME SettingsTypes, NEW a \in Editors, NEW f \in SettingsForm, StartEdit(a, f)
    PROVE  SettingsTypes'
<1> DEFINE map == IF f.kind = "server" THEN [NoSettings EXCEPT !.server = TRUE] ELSE NoSettings
           e == [form |-> f, at |-> IF f.kind = "server" THEN "write" ELSE "read",
                 tokens |-> NoTokens, map |-> map]
<1>1. map \in Settings
  <2>1. [NoSettings EXCEPT !.server = TRUE] \in Settings
    BY NoTokenTypes DEF Settings
  <2> QED BY <2>1, NoTokenTypes
<1>2. e \in Edit /\ Fits(e)
  <2> HIDE DEF map
  <2> QED BY <1>1, NoTokenTypes DEF Edit, Fits
<1>3. EditStep(a, e)
  BY DEF StartEdit
<1>4. edit' \in [Editors -> Edit \union {NoEdit}] /\ \A b \in Editors : edit'[b] # NoEdit => Fits(edit'[b])
  <2> HIDE DEF e
  <2> QED BY <1>2, <1>3, EditStepTypes
<1>5. edits' \in Nat
  BY DEF StartEdit, SettingsTypes, SettingsTypeOK
<1>6. mishaps' \subseteq {"race", "fault"}
  BY DEF StartEdit
<1> QED BY <1>4, <1>5, <1>6 DEF StartEdit, SettingsTypes, SettingsTypeOK

\* ReadSettings keeps the types.
LEMMA ReadSettingsTypes ==
    ASSUME SettingsTypes, NEW a \in Editors, ReadSettings(a)
    PROVE  SettingsTypes'
<1>1. edit[a] # NoEdit /\ edit[a].at = "read" /\ edit[a].form.kind # "server"
  BY DEF ReadSettings, EditAt, SettingsTypes, Fits
<1>2. PICK read \in ReadsOf("read") :
        /\ Note(read)
        /\ \/ /\ edit[a].form.kind = "alert"
              /\ EditStep(a, [edit[a] EXCEPT !.at = "write",
                     !.map = [read EXCEPT !.alerts = IF edit[a].form.on THEN @ \union {edit[a].form.group}
                                                     ELSE @ \ {edit[a].form.group}]])
              /\ UNCHANGED <<minted, revoked>>
           \/ /\ edit[a].form.kind # "alert" /\ Values(read.tokens) = {}
              /\ EditStep(a, [edit[a] EXCEPT !.at = "legacy"]) /\ UNCHANGED <<minted, revoked>>
           \/ /\ edit[a].form.kind # "alert"
              /\ TakesTokens(a, read.tokens)
  BY DEF ReadSettings, TakesTokens
<1>3. edit[a] \in Edit /\ edit[a].form \in SettingsForm
  BY <1>1, EditFields
<1>4. edit[a].form.kind # "alert" => TokenForm(edit[a])
  BY <1>1, <1>3, FormFields DEF TokenForm
<1>5. read \in Settings /\ read.tokens \in [TokenNames -> Tokens]
  BY <1>2, ReadTypes
<1>6. mishaps' \subseteq {"race", "fault"}
  BY <1>2 DEF Note, SettingsTypes, SettingsTypeOK
<1>7. /\ edit' \in [Editors -> Edit \union {NoEdit}]
      /\ \A b \in Editors : edit'[b] # NoEdit => Fits(edit'[b])
      /\ minted' \in Tokens /\ revoked' \subseteq Tokens
  <2>1. CASE edit[a].form.kind = "alert"
    <3> DEFINE map == [read EXCEPT !.alerts = IF edit[a].form.on THEN @ \union {edit[a].form.group}
                                              ELSE @ \ {edit[a].form.group}]
               e == [edit[a] EXCEPT !.at = "write", !.map = map]
    <3>1. map \in Settings
      BY <1>3, <1>5, <2>1, FormFields DEF Settings
    <3>2. e \in Edit /\ e.at = "write"
      <4> HIDE DEF map
      <4> QED BY <1>3, <3>1 DEF Edit
    <3>3. Fits(e)
      BY <3>2 DEF Fits
    <3>4. EditStep(a, e) /\ UNCHANGED <<minted, revoked>>
      BY <1>2, <2>1 DEF TakesTokens
    <3> HIDE DEF e
    <3> QED BY <3>2, <3>3, <3>4, EditStepTypes DEF SettingsTypes, SettingsTypeOK
  <2>2. CASE edit[a].form.kind # "alert" /\ TakesTokens(a, read.tokens)
    BY <1>1, <1>4, <1>5, <2>2, TakesTokensTypes
  <2>3. CASE edit[a].form.kind # "alert" /\ ~TakesTokens(a, read.tokens)
    <3> DEFINE e == [edit[a] EXCEPT !.at = "legacy"]
    <3>1. e \in Edit /\ e.at = "legacy" /\ e.form = edit[a].form
      BY <1>3 DEF Edit
    <3>2. Fits(e)
      BY <3>1, <1>4, <2>3 DEF Fits, TokenForm
    <3>3. EditStep(a, e) /\ UNCHANGED <<minted, revoked>>
      BY <1>2, <2>3
    <3> HIDE DEF e
    <3> QED BY <3>1, <3>2, <3>3, EditStepTypes DEF SettingsTypes, SettingsTypeOK
  <2> QED BY <2>1, <2>2, <2>3
<1> QED BY <1>6, <1>7 DEF ReadSettings, SettingsTypes, SettingsTypeOK

\* A request goes on to a call its form makes, with another map or not.
LEMMA EditGoesTypes ==
    ASSUME SettingsTypes, NEW a \in Editors, edit[a] # NoEdit, NEW map \in Settings,
           NEW label \in {"reread", "write", "single"}, label # "write" => TokenForm(edit[a]),
           EditStep(a, [edit[a] EXCEPT !.at = label, !.map = map])
    PROVE  /\ edit' \in [Editors -> Edit \union {NoEdit}]
           /\ \A b \in Editors : edit'[b] # NoEdit => Fits(edit'[b])
<1> DEFINE e == [edit[a] EXCEPT !.at = label, !.map = map]
<1>1. e \in Edit /\ e.at = label /\ e.form = edit[a].form
  BY ZenonT(60), EditFields DEF Edit
<1>2. Fits(e)
  BY <1>1 DEF Fits, TokenForm
<1> HIDE DEF e
<1> QED BY <1>1, <1>2, EditStepTypes DEF e

\* Every step of a request keeps the types.
LEMMA EditStepsTypes ==
    ASSUME SettingsTypes, NEW a \in Editors,
           \/ ReadSettings(a) \/ ReadLegacy(a) \/ RereadSettings(a) \/ WriteSettings(a)
           \/ WriteSingle(a) \/ CrashEdit(a)
    PROVE  SettingsTypes'
<1>1. CASE ReadSettings(a)
  BY <1>1, ReadSettingsTypes
<1>2. CASE ReadLegacy(a)
  <2> DEFINE tokens == [NoTokens EXCEPT !["default"] = single]
  <2>1. tokens \in [TokenNames -> Tokens]
    BY NoTokenTypes DEF SettingsTypes, SettingsTypeOK
  <2>2. edit[a] # NoEdit /\ TokenForm(edit[a])
    BY <1>2 DEF ReadLegacy, EditAt, SettingsTypes, Fits
  <2>3. TakesTokens(a, tokens) /\ UNCHANGED <<faulty, settings, single, edits, mishaps>>
    BY <1>2 DEF ReadLegacy, TakesTokens
  <2> HIDE DEF tokens
  <2> QED BY <2>1, <2>2, <2>3, TakesTokensTypes DEF SettingsTypes, SettingsTypeOK
<1>3. CASE RereadSettings(a)
  <2>1. edit[a] # NoEdit /\ edit[a].tokens \in [TokenNames -> Tokens]
    BY <1>3, EditFields DEF RereadSettings, EditAt
  <2>2. PICK read \in ReadsOf("read") :
          Note(read) /\ EditStep(a, [edit[a] EXCEPT !.at = "write", !.map = [read EXCEPT !.tokens = edit[a].tokens]])
    BY <1>3 DEF RereadSettings
  <2>3. [read EXCEPT !.tokens = edit[a].tokens] \in Settings
    BY <2>1, <2>2, ReadTypes DEF Settings
  <2>4. /\ edit' \in [Editors -> Edit \union {NoEdit}]
        /\ \A b \in Editors : edit'[b] # NoEdit => Fits(edit'[b])
    BY <2>1, <2>2, <2>3, EditGoesTypes
  <2>5. mishaps' \subseteq {"race", "fault"}
    BY <2>2 DEF Note, SettingsTypes, SettingsTypeOK
  <2> QED BY <1>3, <2>4, <2>5 DEF RereadSettings, SettingsTypes, SettingsTypeOK
<1>4. CASE WriteSettings(a)
  <2>1. edit[a] # NoEdit /\ edit[a] \in Edit /\ edit[a].map \in Settings /\ edit[a].form \in SettingsForm
    BY <1>4, EditFields DEF WriteSettings, EditAt
  <2>2. settings' \in Settings /\ mishaps' \subseteq {"race", "fault"}
    BY <1>4, <2>1 DEF WriteSettings, SettingsTypes, SettingsTypeOK
  <2>3. /\ edit' \in [Editors -> Edit \union {NoEdit}]
        /\ \A b \in Editors : edit'[b] # NoEdit => Fits(edit'[b])
    <3>1. CASE edit[a].form.kind \in {"server", "alert"}
      BY <1>4, <3>1, EditStepTypes DEF WriteSettings
    <3>2. CASE edit[a].form.kind \notin {"server", "alert"}
      <4>1. TokenForm(edit[a])
        BY <2>1, <3>2, FormFields DEF TokenForm
      <4>2. EditStep(a, [edit[a] EXCEPT !.at = "single"])
        BY <1>4, <3>2 DEF WriteSettings
      <4>3. [edit[a] EXCEPT !.at = "single"] = [edit[a] EXCEPT !.at = "single", !.map = edit[a].map]
        BY <2>1 DEF Edit
      <4> QED BY <2>1, <4>1, <4>2, <4>3, EditGoesTypes
    <3> QED BY <3>1, <3>2
  <2> QED BY <1>4, <2>2, <2>3 DEF WriteSettings, SettingsTypes, SettingsTypeOK
<1>5. CASE WriteSingle(a)
  <2>1. edit[a] # NoEdit /\ edit[a].tokens \in [TokenNames -> Tokens]
    BY <1>5, EditFields DEF WriteSingle, EditAt
  <2>2. single' \in Tokens /\ mishaps' \subseteq {"race", "fault"}
    <3>1. SingleFor(edit[a].tokens) \subseteq Tokens
      BY <2>1, NoTokenTypes DEF SingleFor, Values, NoToken
    <3>2. single' \in SingleFor(edit[a].tokens) \/ single' = single
      BY <1>5 DEF WriteSingle
    <3>3. mishaps' \subseteq mishaps \union {"fault"}
      BY <1>5 DEF WriteSingle
    <3> QED BY <3>1, <3>2, <3>3 DEF SettingsTypes, SettingsTypeOK
  <2>3. /\ edit' \in [Editors -> Edit \union {NoEdit}]
        /\ \A b \in Editors : edit'[b] # NoEdit => Fits(edit'[b])
    BY <1>5, EditStepTypes DEF WriteSingle
  <2> QED BY <1>5, <2>2, <2>3 DEF WriteSingle, SettingsTypes, SettingsTypeOK
<1>6. CASE CrashEdit(a)
  BY <1>6, EditStepTypes DEF CrashEdit, SettingsTypes, SettingsTypeOK
<1> QED BY <1>1, <1>2, <1>3, <1>4, <1>5, <1>6

\* The settings, the requests and the tokens keep their types, and every request
\* makes only the calls of its form.
THEOREM SettingsTypesKept == SettingsSpec => []SettingsTypes
<1>1. SettingsInit => SettingsTypes
  BY NoTokenTypes DEF SettingsInit, SettingsTypes, SettingsTypeOK, NoToken
<1>2. SettingsTypes /\ [SettingsNext]_settingsVars => SettingsTypes'
  <2> SUFFICES ASSUME SettingsTypes, [SettingsNext]_settingsVars PROVE SettingsTypes'
    OBVIOUS
  <2>1. ASSUME NEW a \in FreeEditor, NEW f \in SettingsForm, StartEdit(a, f) PROVE SettingsTypes'
    <3>1. a \in Editors
      <4>1. Editing # Editors /\ Editing \subseteq Editors /\ a = CHOOSE b \in Editors : b \notin Editing
        BY Zenon, <2>1 DEF FreeEditor, Editing
      <4> QED BY <4>1
    <3> QED BY <2>1, <3>1, StartEditTypes
  <2>2. CASE UNCHANGED settingsVars
    BY <2>2 DEF settingsVars, SettingsTypes, SettingsTypeOK, Fits
  <2> QED BY <2>1, <2>2, EditStepsTypes DEF SettingsNext
<1> QED BY <1>1, <1>2, PTL DEF SettingsSpec

-----------------------------------------------------------------------------
(* The invariant.                                                          *)

\* Named tokens that may be accepted: all were generated, none was revoked, and no
\* token has two names, so that taking one name away takes the token away.
Kept(tokens) ==
    /\ tokens \in [TokenNames -> 0..minted]
    /\ Values(tokens) \intersect revoked = {}
    /\ \A m, n \in TokenNames : tokens[m] = tokens[n] /\ tokens[m] # NoToken => m = n

\* What holds between two requests.  The single token is one of the named ones; when
\* the server page has thrown those away, it is still not a revoked one.
Calm ==
    /\ Kept(settings.tokens)
    /\ single \in 0..minted /\ single \notin revoked
    /\ Values(settings.tokens) # {} => single \in Values(settings.tokens)

\* What a request under way has done, call by call.
ReadStage(e) == e.at = "read" => Calm
LegacyStage(e) == e.at = "legacy" => Calm /\ Values(settings.tokens) = {}
ChangedStage(e) ==
    e.at \in {"reread", "write", "single"} /\ TokenForm(e) =>
        Kept(e.tokens) /\ (e.form.kind = "regenerate" => Values(e.tokens) # {})
WriteStage(e) ==
    /\ e.at = "write" /\ TokenForm(e) => e.map.tokens = e.tokens
    /\ e.at = "write" /\ e.form.kind = "alert" => Calm /\ e.map.tokens = settings.tokens
    /\ e.at = "write" /\ e.form.kind = "server" => Calm /\ e.map.tokens = NoTokens
SingleStage(e) == e.at = "single" => settings.tokens = e.tokens
Stage(e) ==
    ReadStage(e) /\ LegacyStage(e) /\ ChangedStage(e) /\ WriteStage(e) /\ SingleStage(e)

\* Until something goes wrong, requests come one after the other.
Alone == \A a, b \in Editors : edit[a] # NoEdit /\ edit[b] # NoEdit => a = b
Orderly ==
    /\ revoked \subseteq 1..minted
    /\ Alone
    /\ Editing = {} => Calm
    /\ \A a \in Editing : Stage(edit[a])
SettingsInv == mishaps = {} => Orderly

\* What a token page does with the named tokens keeps them fit to be accepted: the
\* one it replaces or deletes has no other name, the one it generates is new.
LEMMA TakesTokensKept ==
    ASSUME SettingsTypes, revoked \subseteq 1..minted, NEW a \in Editors, edit[a] # NoEdit,
           TokenForm(edit[a]), NEW tokens, Kept(tokens), TakesTokens(a, tokens),
           NEW t, t = Changed(a, tokens)
    PROVE  /\ revoked' \subseteq 1..minted'
           /\ Kept(t)'
           /\ edit[a].form.kind = "regenerate" => Values(t) # {}
<1> DEFINE n == edit[a].form.name
<1>1. n \in TokenNames /\ edit[a].form.kind \in {"regenerate", "delete"}
  BY EditFields, FormFields DEF TokenForm
<1>2. /\ minted \in Nat
      /\ edit[a].form.kind = "regenerate" => minted' = minted + 1
      /\ edit[a].form.kind # "regenerate" => minted' = minted
  BY DEF TakesTokens, Mint, SettingsTypes, SettingsTypeOK, Tokens
<1>3. revoked' = ({tokens[n]} \ {NoToken}) \union revoked
  BY DEF TakesTokens, Revoke
<1>4. /\ edit[a].form.kind = "regenerate" => t = [tokens EXCEPT ![n] = minted']
      /\ edit[a].form.kind # "regenerate" => t = [tokens EXCEPT ![n] = NoToken]
  BY DEF Changed
<1>5. tokens \in [TokenNames -> 0..minted] /\ tokens[n] \in 0..minted
  BY <1>1 DEF Kept
<1>6. revoked' \subseteq 1..minted'
  <2>1. minted' \in Nat /\ minted \leq minted'
    BY <1>1, <1>2
  <2>2. \A k \in revoked' : k \in 0..minted /\ k # 0
    BY <1>2, <1>3, <1>5 DEF NoToken
  <2> QED BY <2>1, <2>2, <1>2
<1>7. t \in [TokenNames -> 0..minted']
  <2>1. \A m \in TokenNames : tokens[m] \in 0..minted'
    BY <1>2, <1>5
  <2>2. minted' \in 0..minted' /\ NoToken \in 0..minted'
    BY <1>2 DEF NoToken
  <2> QED BY <2>1, <2>2, <1>1, <1>4, <1>5
<1>8. \A m \in TokenNames : t[m] # NoToken => t[m] \notin revoked'
  <2> SUFFICES ASSUME NEW m \in TokenNames, t[m] # NoToken PROVE t[m] \notin revoked'
    OBVIOUS
  <2>1. CASE m = n
    <3>1. t[m] = minted + 1
      BY <2>1, <1>1, <1>2, <1>4, <1>5
    <3> QED BY <3>1, <1>2, <1>3, <1>5
  <2>2. CASE m # n
    <3>1. t[m] = tokens[m]
      BY <2>2, <1>1, <1>4, <1>5
    <3>2. tokens[m] # tokens[n] /\ tokens[m] \notin revoked
      BY <3>1, <2>2, <1>1 DEF Kept, Values
    <3> QED BY <3>1, <3>2, <1>3
  <2> QED BY <2>1, <2>2
<1>9. \A l, m \in TokenNames : t[l] = t[m] /\ t[l] # NoToken => l = m
  <2>1. \A m \in TokenNames : m # n => t[m] = tokens[m] /\ t[m] \in 0..minted
    BY <1>1, <1>4, <1>5
  <2>2. t[n] = NoToken \/ t[n] = minted + 1
    BY <1>1, <1>2, <1>4, <1>5
  <2> QED BY <2>1, <2>2, <1>1, <1>2 DEF Kept
<1>10. edit[a].form.kind = "regenerate" => Values(t) # {}
  <2>1. edit[a].form.kind = "regenerate" => t[n] = minted + 1 /\ t[n] # NoToken
    BY <1>1, <1>2, <1>4, <1>5 DEF NoToken
  <2> QED BY <2>1, <1>1 DEF Values
<1> QED BY <1>6, <1>7, <1>8, <1>9, <1>10 DEF Kept, Values

\* The only request under way goes on or ends; the invariant needs to be shown of its
\* next stage only.
LEMMA AloneStep ==
    ASSUME SettingsTypes, Alone, NEW a \in Editors, edit[a] # NoEdit, NEW e, EditStep(a, e),
           revoked' \subseteq 1..minted', e = NoEdit => Calm', e # NoEdit => Stage(e)'
    PROVE  Orderly'
<1>1. \A b \in Editors : edit'[b] = IF b = a THEN e ELSE NoEdit
  BY DEF EditStep, SettingsTypes, SettingsTypeOK, Alone
<1>2. Alone'
  BY <1>1 DEF Alone
<1>3. Editing' = {} => Calm'
  BY <1>1 DEF Editing
<1>4. (\A b \in Editing : Stage(edit[b]))'
  BY <1>1 DEF Editing, Stage, ReadStage, LegacyStage, ChangedStage, WriteStage, SingleStage, TokenForm
<1> QED BY <1>2, <1>3, <1>4 DEF Orderly

\* What is said of the keys and the tokens stays true while they stay as they are.
LEMMA CalmStays ==
    ASSUME UNCHANGED <<settings, single, minted, revoked>>
    PROVE  (Calm => Calm') /\ \A t : Kept(t) => Kept(t)'
BY DEF Calm, Kept

\* As long as nothing goes wrong, GetRuntimeSettings returns what is stored.
LEMMA ReadIsStored ==
    ASSUME NEW read, Note(read), mishaps' = {}
    PROVE  mishaps = {} /\ read = settings
BY DEF Note

\* A token page goes on with the tokens it has changed.
LEMMA TakesTokensOrderly ==
    ASSUME SettingsTypes, Orderly, NEW a \in Editors, edit[a] # NoEdit, TokenForm(edit[a]),
           NEW tokens \in [TokenNames -> Tokens], Kept(tokens), TakesTokens(a, tokens)
    PROVE  Orderly'
<1>1. PICK t, e : /\ t = Changed(a, tokens)
                  /\ e = [edit[a] EXCEPT !.at = "reread", !.tokens = t]
                  /\ EditStep(a, e)
  BY DEF TakesTokens
<1>2. /\ revoked' \subseteq 1..minted' /\ Kept(t)'
      /\ edit[a].form.kind = "regenerate" => Values(t) # {}
  BY <1>1, TakesTokensKept DEF Orderly
<1>3. t \in [TokenNames -> Tokens]
  BY <1>1, TakesTokensTypes
<1>4. edit[a] \in Edit
  BY EditFields
<1>5. e \in Edit /\ e.at = "reread" /\ e.form = edit[a].form /\ e.tokens = t
  BY <1>1, <1>3, <1>4 DEF Edit
<1>6. Stage(e)'
  BY <1>2, <1>5
     DEF Stage, ReadStage, LegacyStage, ChangedStage, WriteStage, SingleStage, Values
<1> QED BY <1>1, <1>2, <1>5, <1>6, AloneStep DEF Orderly

\* ReadSettings.
LEMMA ReadSettingsOrderly ==
    ASSUME SettingsTypes, SettingsInv, NEW a \in Editors, ReadSettings(a), mishaps' = {}
    PROVE  Orderly'
<1>1. edit[a] # NoEdit /\ edit[a].at = "read" /\ edit[a].form.kind # "server"
  BY DEF ReadSettings, EditAt, SettingsTypes, Fits
<1>2. mishaps = {} /\ Orderly
  BY ReadIsStored DEF ReadSettings, SettingsInv
<1>3. edit[a] \in Edit /\ edit[a].form \in SettingsForm
  BY <1>1, EditFields
<1>4. Calm
  BY <1>1, <1>2 DEF Orderly, Stage, ReadStage, Editing
<1>5. CASE edit[a].form.kind = "alert"
  <2>1. PICK map, e :
          /\ map = [settings EXCEPT !.alerts = IF edit[a].form.on THEN @ \union {edit[a].form.group}
                                               ELSE @ \ {edit[a].form.group}]
          /\ e = [edit[a] EXCEPT !.at = "write", !.map = map]
          /\ EditStep(a, e) /\ UNCHANGED <<minted, revoked>>
    BY <1>5, ReadIsStored DEF ReadSettings
  <2>2. map.tokens = settings.tokens
    BY <2>1 DEF SettingsTypes, SettingsTypeOK, Settings
  <2>3. e.at = "write" /\ e.form = edit[a].form /\ e.map = map
    BY <2>1, <1>3 DEF Edit
  <2>4. Calm' /\ settings' = settings
    BY <1>4, <2>1, CalmStays DEF ReadSettings
  <2>5. Stage(e)'
    BY <1>5, <2>2, <2>3, <2>4
       DEF Stage, ReadStage, LegacyStage, ChangedStage, WriteStage, SingleStage, TokenForm
  <2> QED BY <1>1, <1>2, <2>1, <2>4, <2>5, AloneStep DEF Orderly
<1>6. CASE edit[a].form.kind # "alert" /\ Values(settings.tokens) = {}
  <2>1. PICK e : e = [edit[a] EXCEPT !.at = "legacy"] /\ EditStep(a, e) /\ UNCHANGED <<minted, revoked>>
    BY <1>6, ReadIsStored DEF ReadSettings
  <2>2. e.at = "legacy"
    BY <2>1, <1>3 DEF Edit
  <2>3. Calm' /\ settings' = settings
    BY <1>4, <2>1, CalmStays DEF ReadSettings
  <2>4. Stage(e)'
    BY <1>6, <2>2, <2>3
       DEF Stage, ReadStage, LegacyStage, ChangedStage, WriteStage, SingleStage, Values
  <2> QED BY <1>1, <1>2, <2>1, <2>3, <2>4, AloneStep DEF Orderly
<1>7. CASE edit[a].form.kind # "alert" /\ Values(settings.tokens) # {}
  <2>1. TakesTokens(a, settings.tokens)
    <3>1. PICK read \in ReadsOf("read") : Note(read) /\ (Values(read.tokens) = {} \/ TakesTokens(a, read.tokens))
      BY <1>7 DEF ReadSettings, TakesTokens
    <3> QED BY <3>1, <1>7, ReadIsStored
  <2>2. TokenForm(edit[a])
    BY <1>1, <1>3, <1>7, FormFields DEF TokenForm
  <2>3. settings.tokens \in [TokenNames -> Tokens]
    BY DEF SettingsTypes, SettingsTypeOK, Settings
  <2> QED BY <1>1, <1>2, <1>4, <2>1, <2>2, <2>3, TakesTokensOrderly DEF Calm
<1> QED BY <1>5, <1>6, <1>7

\* ReadLegacy: the single token counts as the one named "default".
LEMMA ReadLegacyOrderly ==
    ASSUME SettingsTypes, SettingsInv, NEW a \in Editors, ReadLegacy(a), mishaps' = {}
    PROVE  Orderly'
<1> DEFINE tokens == [NoTokens EXCEPT !["default"] = single]
<1>1. edit[a] # NoEdit /\ edit[a].at = "legacy" /\ TokenForm(edit[a])
  BY DEF ReadLegacy, EditAt, SettingsTypes, Fits
<1>2. Orderly
  BY DEF ReadLegacy, SettingsInv
<1>3. Calm
  BY <1>1, <1>2 DEF Orderly, Stage, LegacyStage, Editing
<1>4. tokens \in [TokenNames -> Tokens]
  BY NoTokenTypes DEF SettingsTypes, SettingsTypeOK
<1>5. Kept(tokens)
  <2>1. minted \in Nat
    BY DEF SettingsTypes, SettingsTypeOK, Tokens
  <2>2. \A n \in TokenNames : tokens[n] = IF n = "default" THEN single ELSE NoToken
    BY DEF NoTokens
  <2>3. tokens \in [TokenNames -> 0..minted]
    BY <1>3, <1>4, <2>1, <2>2 DEF Calm, NoToken
  <2>4. Values(tokens) \intersect revoked = {}
    BY <1>3, <2>2 DEF Calm, Values
  <2>5. \A m, n \in TokenNames : tokens[m] = tokens[n] /\ tokens[m] # NoToken => m = n
    BY <2>2
  <2> QED BY <2>3, <2>4, <2>5 DEF Kept
<1>6. TakesTokens(a, tokens)
  BY DEF ReadLegacy, TakesTokens
<1> HIDE DEF tokens
<1> QED BY <1>1, <1>2, <1>4, <1>5, <1>6, TakesTokensOrderly

\* RereadSettings.
LEMMA RereadSettingsOrderly ==
    ASSUME SettingsTypes, SettingsInv, NEW a \in Editors, RereadSettings(a), mishaps' = {}
    PROVE  Orderly'
<1>1. edit[a] # NoEdit /\ edit[a].at = "reread" /\ TokenForm(edit[a]) /\ edit[a] \in Edit
  BY EditFields DEF RereadSettings, EditAt, SettingsTypes, Fits
<1>2. Orderly
  BY ReadIsStored DEF RereadSettings, SettingsInv
<1>3. PICK map, e : /\ map = [settings EXCEPT !.tokens = edit[a].tokens]
                    /\ e = [edit[a] EXCEPT !.at = "write", !.map = map]
                    /\ EditStep(a, e) /\ UNCHANGED <<settings, single, minted, revoked>>
  BY ReadIsStored DEF RereadSettings
<1>4. settings \in Settings /\ edit[a].tokens \in [TokenNames -> Tokens]
  BY <1>1, EditFields DEF SettingsTypes, SettingsTypeOK
<1>5. map \in Settings /\ map.tokens = edit[a].tokens
  BY <1>3, <1>4 DEF Settings
<1>6. e \in Edit /\ e.at = "write" /\ e.form = edit[a].form /\ e.map = map /\ e.tokens = edit[a].tokens
  BY <1>1, <1>3, <1>5 DEF Edit
<1>7. ChangedStage(edit[a])
  BY <1>1, <1>2 DEF Orderly, Stage, Editing
<1>8. Kept(e.tokens)' /\ (e.form.kind = "regenerate" => Values(e.tokens) # {})
  BY <1>1, <1>3, <1>6, <1>7, CalmStays DEF ChangedStage, TokenForm
<1>9. Stage(e)'
  BY <1>1, <1>5, <1>6, <1>8
     DEF Stage, ReadStage, LegacyStage, ChangedStage, WriteStage, SingleStage, TokenForm, Values
<1> QED BY <1>1, <1>2, <1>3, <1>6, <1>9, AloneStep DEF Orderly

\* WriteSettings: the server page leaves the single token, which is not a revoked one.
LEMMA WriteSettingsOrderly ==
    ASSUME SettingsTypes, SettingsInv, NEW a \in Editors, WriteSettings(a), mishaps' = {}
    PROVE  Orderly'
<1>1. edit[a] # NoEdit /\ edit[a].at = "write" /\ edit[a] \in Edit /\ edit[a].form \in SettingsForm
  BY EditFields DEF WriteSettings, EditAt
<1>2. Orderly /\ settings' = edit[a].map /\ UNCHANGED <<single, minted, revoked>>
  BY DEF WriteSettings, SettingsInv
<1>3. Stage(edit[a])
  BY <1>1, <1>2 DEF Orderly, Editing
<1>4. CASE edit[a].form.kind \in {"server", "alert"}
  <2>1. PICK tokens : tokens = settings'.tokens
    OBVIOUS
  <2>2. Calm /\ (tokens = settings.tokens \/ tokens = NoTokens)
    BY <1>1, <1>2, <1>3, <1>4, <2>1 DEF Stage, WriteStage
  <2>3. Kept(tokens) /\ (Values(tokens) # {} => single \in Values(tokens))
    <3>1. minted \in Nat
      BY DEF SettingsTypes, SettingsTypeOK, Tokens
    <3>2. Values(NoTokens) = {} /\ Kept(NoTokens)
      BY <3>1 DEF Kept, Values, NoTokens, NoToken
    <3> QED BY <2>2, <3>2 DEF Calm
  <2>4. Calm'
    BY <1>2, <2>1, <2>2, <2>3 DEF Calm, Kept
  <2>5. EditStep(a, NoEdit)
    BY <1>4 DEF WriteSettings
  <2> QED BY <1>1, <1>2, <2>4, <2>5, AloneStep DEF Orderly
<1>5. CASE edit[a].form.kind \notin {"server", "alert"}
  <2>1. PICK e : e = [edit[a] EXCEPT !.at = "single"] /\ EditStep(a, e)
    BY <1>5 DEF WriteSettings
  <2>2. /\ e \in Edit /\ e.at = "single" /\ e.form = edit[a].form
        /\ e.map = edit[a].map /\ e.tokens = edit[a].tokens
    BY <1>1, <2>1 DEF Edit
  <2>3. TokenForm(edit[a])
    BY <1>1, <1>5, FormFields DEF TokenForm
  <2>4. /\ Kept(e.tokens) /\ (e.form.kind = "regenerate" => Values(e.tokens) # {})
        /\ settings'.tokens = e.tokens
    BY <1>1, <1>2, <1>3, <2>2, <2>3 DEF Stage, ChangedStage, WriteStage, TokenForm
  <2>5. Kept(e.tokens)'
    BY <1>2, <2>4 DEF Kept
  <2>6. settings' = edit[a].map /\ settings'.tokens = e.tokens /\ (e.form.kind = "regenerate" => Values(e.tokens)' # {})
    BY <1>2, <2>4 DEF Values
  <2>7. Stage(e)'
    BY <2>2, <2>5, <2>6
       DEF Stage, ReadStage, LegacyStage, ChangedStage, WriteStage, SingleStage
  <2> QED BY <1>1, <1>2, <2>1, <2>2, <2>7, AloneStep DEF Orderly
<1> QED BY <1>4, <1>5

\* WriteSingle: the single token is again one of the named ones.
LEMMA WriteSingleOrderly ==
    ASSUME SettingsTypes, SettingsInv, NEW a \in Editors, WriteSingle(a), mishaps' = {}
    PROVE  Orderly'
<1>1. edit[a] # NoEdit /\ edit[a].at = "single" /\ TokenForm(edit[a])
  BY DEF WriteSingle, EditAt, SettingsTypes, Fits
<1>2. /\ Orderly /\ single' \in SingleFor(edit[a].tokens)
      /\ EditStep(a, NoEdit) /\ UNCHANGED <<settings, minted, revoked>>
  BY DEF WriteSingle, SettingsInv
<1>3. Kept(settings.tokens) /\ settings.tokens = edit[a].tokens
  BY <1>1, <1>2 DEF Orderly, Editing, Stage, ChangedStage, SingleStage
<1>4. minted \in Nat /\ revoked \subseteq 1..minted
  BY <1>2 DEF SettingsTypes, SettingsTypeOK, Tokens, Orderly
<1>5. single' \in 0..minted /\ single' \notin revoked
  <2>1. CASE Values(settings.tokens) = {}
    BY <2>1, <1>2, <1>3, <1>4 DEF SingleFor, NoToken
  <2>2. CASE Values(settings.tokens) # {}
    BY <2>2, <1>2, <1>3 DEF SingleFor, Kept, Values
  <2> QED BY <2>1, <2>2
<1>6. Values(settings.tokens) # {} => single' \in Values(settings.tokens)
  BY <1>2, <1>3 DEF SingleFor
<1>7. Calm'
  BY <1>2, <1>3, <1>5, <1>6 DEF Calm, Kept, Values
<1> QED BY <1>1, <1>2, <1>4, <1>7, AloneStep DEF Orderly

\* StartEdit: it is alone.
LEMMA StartEditOrderly ==
    ASSUME SettingsTypes, SettingsInv, NEW a \in Editors, NEW f \in SettingsForm,
           StartEdit(a, f), mishaps' = {}
    PROVE  Orderly'
<1>1. Orderly /\ Editing = {} /\ UNCHANGED <<settings, single, minted, revoked>>
  BY DEF StartEdit, SettingsInv
<1>2. Calm /\ Calm' /\ settings' = settings
  BY <1>1, CalmStays DEF Orderly
<1>3. PICK e : /\ EditStep(a, e)
               /\ e = [form |-> f, at |-> IF f.kind = "server" THEN "write" ELSE "read", tokens |-> NoTokens,
                       map |-> IF f.kind = "server" THEN [NoSettings EXCEPT !.server = TRUE] ELSE NoSettings]
  BY DEF StartEdit
<1>4. /\ e.form = f
      /\ f.kind = "server" => e.at = "write" /\ e.map.tokens = NoTokens
      /\ f.kind # "server" => e.at = "read"
  BY <1>3 DEF NoSettings
<1>5. Stage(e)'
  BY <1>2, <1>4
     DEF Stage, ReadStage, LegacyStage, ChangedStage, WriteStage, SingleStage, TokenForm, NoTokens
<1>6. \A b \in Editors : b # a => edit'[b] = NoEdit
  BY <1>1, <1>3 DEF EditStep, Editing, SettingsTypes, SettingsTypeOK
<1>7. edit'[a] = e
  BY <1>3 DEF EditStep, SettingsTypes, SettingsTypeOK
<1>8. (\A b \in Editing : Stage(edit[b]))'
  BY <1>5, <1>6, <1>7
     DEF Editing, Stage, ReadStage, LegacyStage, ChangedStage, WriteStage, SingleStage, TokenForm
<1> QED BY <1>1, <1>2, <1>6, <1>8 DEF Orderly, Alone

\* The invariant holds in every state.
THEOREM SettingsInvariant == SettingsSpec => [](SettingsTypes /\ SettingsInv)
<1>1. SettingsInit => SettingsInv
  BY NoTokenTypes
     DEF SettingsInit, SettingsInv, Orderly, Alone, Editing, Calm, Kept, Values, NoSettings, NoTokens, NoToken
<1>2. SettingsTypes /\ SettingsInv /\ [SettingsNext]_settingsVars => SettingsInv'
  <2> SUFFICES ASSUME SettingsTypes, SettingsInv, [SettingsNext]_settingsVars, mishaps' = {}
               PROVE  Orderly'
    BY DEF SettingsInv
  <2>1. ASSUME NEW a \in FreeEditor, NEW f \in SettingsForm, StartEdit(a, f) PROVE Orderly'
    <3>1. a \in Editors
      <4>1. Editing # Editors /\ Editing \subseteq Editors /\ a = CHOOSE b \in Editors : b \notin Editing
        BY Zenon, <2>1 DEF FreeEditor, Editing
      <4> QED BY <4>1
    <3> QED BY <2>1, <3>1, StartEditOrderly
  <2>2. ASSUME NEW a \in Editors, CrashEdit(a) PROVE Orderly'
    BY <2>2 DEF CrashEdit
  <2>3. CASE UNCHANGED settingsVars
    <3>1. UNCHANGED <<settings, single, edit, minted, revoked>> /\ Orderly
      BY <2>3 DEF settingsVars, SettingsInv
    <3>2. Alone' /\ (Calm => Calm') /\ Editing' = Editing /\ revoked' \subseteq 1..minted'
      BY <3>1, CalmStays DEF Orderly, Alone, Editing
    <3>3. \A a \in Editing : Stage(edit[a])
      BY <3>1 DEF Orderly
    <3>4. (\A a \in Editing : Stage(edit[a]))'
      <4> SUFFICES ASSUME NEW a \in Editing PROVE Stage(edit[a])'
        BY <3>2
      <4>1. Stage(edit[a]) /\ (Kept(edit[a].tokens) => Kept(edit[a].tokens)')
        BY <3>1, <3>3 DEF Kept
      <4> QED BY <3>1, <3>2, <4>1
              DEF Stage, ReadStage, LegacyStage, ChangedStage, WriteStage, SingleStage, TokenForm, Values
    <3> QED BY <3>1, <3>2, <3>4 DEF Orderly
  <2> QED BY <2>1, <2>2, <2>3, ReadSettingsOrderly, ReadLegacyOrderly, RereadSettingsOrderly,
             WriteSettingsOrderly, WriteSingleOrderly DEF SettingsNext
<1> QED BY <1>1, <1>2, SettingsTypesKept, PTL DEF SettingsSpec

-----------------------------------------------------------------------------
(* The properties.                                                         *)

\* Between two requests no token is accepted that was deleted or replaced.
THEOREM NoRevokedTokenAccepted == SettingsSpec => []RevokedStaysRevoked
<1>1. SettingsInv => RevokedStaysRevoked
  BY DEF SettingsInv, Orderly, Calm, Kept, RevokedStaysRevoked, Accepted
<1> QED BY <1>1, SettingsInvariant, PTL

\* A step that takes the last accepted token away belongs to a deletion that has left
\* no named token.
LEMMA LockoutStep ==
    ASSUME SettingsTypes, SettingsInv, SettingsNext, mishaps' = {}, Accepted # {}, Accepted' = {}
    PROVE  \E a \in Editing : edit[a].form.kind = "delete" /\ Values(edit[a].tokens) = {}
<1>1. ASSUME UNCHANGED <<settings, single>> PROVE FALSE
  BY <1>1 DEF Accepted
<1>2. PICK a \in Editors : WriteSettings(a) \/ WriteSingle(a)
  BY <1>1 DEF SettingsNext, StartEdit, ReadSettings, ReadLegacy, RereadSettings, CrashEdit
<1>3. edit[a] # NoEdit /\ edit[a].form \in SettingsForm
  BY <1>2, EditFields DEF WriteSettings, WriteSingle, EditAt
<1>4. Orderly /\ Stage(edit[a]) /\ a \in Editing
  BY <1>2, <1>3 DEF WriteSettings, WriteSingle, SettingsInv, Orderly, Editing
<1>5. SUFFICES ASSUME ~(edit[a].form.kind = "delete" /\ Values(edit[a].tokens) = {}) PROVE FALSE
  BY <1>4
<1>6. ASSUME TokenForm(edit[a]), edit[a].at \in {"write", "single"} PROVE Values(edit[a].tokens) # {}
  BY <1>4, <1>5, <1>6 DEF Stage, ChangedStage, TokenForm
<1>7. ASSUME Calm, Values(settings.tokens) # {} PROVE single # NoToken
  BY <1>7 DEF Calm, Values
<1>8. CASE WriteSettings(a)
  <2>1. edit[a].at = "write" /\ settings' = edit[a].map /\ single' = single
    BY <1>8, <1>4 DEF WriteSettings, EditAt
  <2>2. CASE TokenForm(edit[a])
    BY <2>1, <2>2, <1>4, <1>6 DEF Stage, WriteStage, Accepted
  <2>3. CASE edit[a].form.kind = "alert"
    BY <2>1, <2>3, <1>4 DEF Stage, WriteStage, Accepted
  <2>4. CASE edit[a].form.kind = "server"
    <3>1. Calm /\ Values(settings'.tokens) = {}
      BY <2>1, <2>4, <1>4 DEF Stage, WriteStage, Values, NoTokens
    <3>2. single # NoToken
      BY <3>1, <1>7 DEF Accepted, Calm, Values
    <3> QED BY <2>1, <3>1, <3>2 DEF Accepted
  <2> QED BY <2>2, <2>3, <2>4, <1>3, FormFields DEF TokenForm
<1>9. CASE WriteSingle(a)
  <2>1. edit[a].at = "single" /\ TokenForm(edit[a]) /\ settings' = settings
    BY <1>9, <1>3 DEF WriteSingle, EditAt, SettingsTypes, Fits
  <2>2. settings.tokens = edit[a].tokens /\ Values(settings.tokens) # {}
    BY <2>1, <1>4, <1>6 DEF Stage, SingleStage
  <2> QED BY <2>1, <2>2 DEF Accepted
<1> QED BY <1>2, <1>8, <1>9

\* Only the deletion of the last token locks the agents out.
THEOREM OnlyDeletionLocksOut == SettingsSpec => NoLockout
<1>1. SettingsTypes /\ SettingsInv /\ [SettingsNext]_settingsVars =>
        [mishaps' = {} /\ Accepted # {} /\ Accepted' = {} =>
            \E a \in Editing : edit[a].form.kind = "delete" /\ Values(edit[a].tokens) = {}]_settingsVars
  BY LockoutStep
<1> QED BY <1>1, SettingsInvariant, PTL DEF SettingsSpec, NoLockout
=============================================================================
