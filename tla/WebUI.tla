-------------------------------- MODULE WebUI --------------------------------
(***************************************************************************)
(* The web UI: its tables, its audit log, its settings page and the        *)
(* session they all depend on (web/src).                                   *)
(*                                                                         *)
(* Each is a module of its own: what they share, the tokens a call leaves  *)
(* with, only decides whether a call is refused, and every one of them     *)
(* counts with a refusal at any time.  Their variables are disjoint, so    *)
(* one of them at a time is looked at while the others rest.               *)
(***************************************************************************)
EXTENDS WebTables, WebSession, WebAudit, WebSettings

VARIABLE part    \* the one that is looked at

webVars == <<part, tableVars, sessionVars, auditVars, settingsVars>>

WebInit ==
    /\ part \in {"tables", "session", "audit", "settings"}
    /\ TableInit
    /\ part # "tables" => page = DDNS /\ table = [r \in Rows |-> NoRow]
    /\ SessionInit
    /\ part # "session" => stored = NoPair
    /\ AuditInit
    /\ part # "audit" => log[All] = 0
    /\ SettingsInit
    /\ part # "settings" => ~otp /\ password = CHOOSE p \in Passwords : TRUE

TablesStep ==
    /\ part = "tables" /\ TableNext
    /\ UNCHANGED <<part, sessionVars, auditVars, settingsVars>>

SessionsStep ==
    /\ part = "session" /\ SessionNext
    /\ UNCHANGED <<part, tableVars, auditVars, settingsVars>>

AuditStep ==
    /\ part = "audit" /\ AuditNext
    /\ UNCHANGED <<part, tableVars, sessionVars, settingsVars>>

SettingsStep ==
    /\ part = "settings" /\ SettingsNext
    /\ UNCHANGED <<part, tableVars, sessionVars, auditVars>>

WebNext == TablesStep \/ SessionsStep \/ AuditStep \/ SettingsStep

WebSpec == WebInit /\ [][WebNext]_webVars
=============================================================================
