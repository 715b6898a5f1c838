--------------------------- MODULE MCMqttSession ---------------------------
(***************************************************************************)
(* MqttSession for TLC: every valid message is alike to the task.          *)
(***************************************************************************)
EXTENDS MqttSession

OneCommand == {Job("light_other", None)}
=============================================================================
