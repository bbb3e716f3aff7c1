--------------------------- MODULE MCModuleEngines ---------------------------
(* Values of ModuleEngines' constants for TLC.                             *)
EXTENDS ModuleEngines

MCValues == 1..2
MCRefused == {2}
MCWatched == {1}
MCEngines == {"ddns", "stun", "cron", "storage"}
=============================================================================
