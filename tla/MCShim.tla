------------------------------- MODULE MCShim -------------------------------
(***************************************************************************)
(* For TLC: the primitives of the FreeRTOS shim beside the queue, and the  *)
(* operations of the status LED.  They share no state here, so that        *)
(* interleaving them would show nothing: each runs while the others stay   *)
(* as they were initialised.                                               *)
(***************************************************************************)
EXTENDS EventGroup, CriticalSection, StatusLed

VARIABLE part  \* which one runs

MCInit == /\ Init /\ CriticalInit /\ LedInit
          /\ part \in {"event_group", "critical_section", "status_led"}
          /\ part # "status_led" => raised = {}

RunGroup == part = "event_group" /\ Next /\ UNCHANGED <<criticalVars, ledVars, part>>
RunSection == part = "critical_section" /\ CriticalNext /\ UNCHANGED <<vars, ledVars, part>>
RunLed == part = "status_led" /\ LedNext /\ UNCHANGED <<vars, criticalVars, part>>

MCNext == RunGroup \/ RunSection \/ RunLed
MCSpec == MCInit /\ [][MCNext]_<<vars, criticalVars, ledVars, part>>
=============================================================================
