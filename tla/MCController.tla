---------------------------- MODULE MCController ----------------------------
(***************************************************************************)
(* Controller for TLC: a switch that is enabled from the start, and the    *)
(* commands that arrive.                                                   *)
(***************************************************************************)
EXTENDS Controller

EnabledFile == {[EmptyFile EXCEPT !["switch_en"] = "on"]}

MixedCommands == {Job("timer_start", "low"), Job("switch_enable", "off")}
=============================================================================
