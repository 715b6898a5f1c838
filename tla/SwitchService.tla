---------------------------- MODULE SwitchService ----------------------------
(***************************************************************************)
(* What the Tuya switch driver and its retry loop promise the device       *)
(* worker: a job that succeeds reports a state the plug really had since   *)
(* the verification began (window), and a power command succeeds only with *)
(* the state it asked for.  The plug changes whenever it likes.            *)
(***************************************************************************)
EXTENDS Naturals

VARIABLES job,     \* "none", "state", "on" or "off"
          known,   \* s_switch.power and s_switch.valid
          power,   \* the relay of the plug
          window   \* what power has been since the verification began

vars == <<job, known, power, window>>

Relay == {"on", "off"}
Unknown == [power |-> "off", valid |-> FALSE]

\* A power command wants one state, a request for the state takes either.
Wanted(request, value) == request \in {"state", value}

Init == /\ job = "none" /\ known = Unknown
        /\ power \in Relay /\ window = {power}

Begin(request) == /\ job = "none" /\ job' = request
                  /\ window' = {power}
                  /\ UNCHANGED <<known, power>>

Verify == /\ job # "none"
          /\ window' = {power}
          /\ UNCHANGED <<job, known, power>>

Change == /\ power' \in Relay
          /\ window' = window \cup {power'}
          /\ UNCHANGED <<job, known>>

Succeed == /\ job # "none" /\ job' = "none"
           /\ \E value \in window :
                /\ Wanted(job, value)
                /\ known' = [power |-> value, valid |-> TRUE]
           /\ UNCHANGED <<power, window>>

Fail == /\ job # "none" /\ job' = "none"
        /\ known' \in {known, Unknown}
        /\ UNCHANGED <<power, window>>

Next == \/ \E request \in {"state", "on", "off"} : Begin(request)
        \/ Verify \/ Change \/ Succeed \/ Fail

Spec == Init /\ [][Next]_vars
=============================================================================
