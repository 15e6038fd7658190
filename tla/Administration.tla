--------------------------- MODULE Administration ---------------------------
(***************************************************************************)
(* The administration of a manager beside its clusters: runtime settings,  *)
(* Sentinel registry and health checker, logins, DNS providers, webhooks.  *)
(*                                                                         *)
(* These parts share no record: a step of one reads and writes its own     *)
(* keys and maps only, so what holds of one alone holds of it beside the   *)
(* others.  A behaviour therefore exercises one of them, its area, and     *)
(* leaves the others as they start.  One record is shared with the path of *)
(* the events: its handlers write last_seen of registered Sentinels, which *)
(* is part of SentinelRegistry.                                            *)
(***************************************************************************)
EXTENDS RuntimeSettings, SentinelRegistry, Sessions, ProviderRegistry, Webhooks

VARIABLE area

allVars == <<area, settingsVars, sentinelVars, sessionVars, providerVars, hookVars>>

Areas == {"settings", "sentinels", "sessions", "providers", "webhooks"}

\* The choices an area leaves open at the start are open only where it is exercised.
AdministrationInit ==
    /\ area \in Areas
    /\ SettingsInit /\ RegistryInit /\ SessionsInit /\ ProvidersInit /\ WebhooksInit
    /\ area # "settings" => faulty = CHOOSE f \in SettingsFaults : TRUE
    /\ area # "sentinels" => /\ storeKind = CHOOSE s \in Stores : TRUE
                             /\ up = NodeNames

AdministrationNext ==
    \/ /\ area = "settings" /\ SettingsNext
       /\ UNCHANGED <<area, sentinelVars, sessionVars, providerVars, hookVars>>
    \/ /\ area = "sentinels" /\ RegistryNext
       /\ UNCHANGED <<area, settingsVars, sessionVars, providerVars, hookVars>>
    \/ /\ area = "sessions" /\ SessionsNext
       /\ UNCHANGED <<area, settingsVars, sentinelVars, providerVars, hookVars>>
    \/ /\ area = "providers" /\ ProvidersNext
       /\ UNCHANGED <<area, settingsVars, sentinelVars, sessionVars, hookVars>>
    \/ /\ area = "webhooks" /\ WebhooksNext
       /\ UNCHANGED <<area, settingsVars, sentinelVars, sessionVars, providerVars>>

\* The fairness of the health checker.
AdministrationSpec ==
    /\ AdministrationInit /\ [][AdministrationNext]_allVars
    /\ WF_allVars(area = "sentinels" /\ CheckerStep
                  /\ UNCHANGED <<area, settingsVars, sessionVars, providerVars, hookVars>>)

\* Every variable of every area keeps its type.
AdministrationTypeOK ==
    /\ area \in Areas
    /\ SettingsTypeOK /\ RegistryTypeOK /\ SessionsTypeOK /\ ProvidersTypeOK /\ WebhooksTypeOK
=============================================================================
