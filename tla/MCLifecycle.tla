---------------------------- MODULE MCLifecycle ----------------------------
(***************************************************************************)
(* Lifecycle for TLC: the commands that change a setting of the file, and  *)
(* the power command, whose failures disable the switch.                   *)
(***************************************************************************)
EXTENDS Lifecycle

SettingCommands ==
    {j \in MqttJobs : j.command \in {"alert_hi", "alert_lo"} \cup SwitchCommands}
=============================================================================
