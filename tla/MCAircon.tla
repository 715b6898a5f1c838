------------------------------ MODULE MCAircon ------------------------------
(***************************************************************************)
(* The air conditioner for TLC: Aircon, the worker and the clock, and      *)
(* AirconIr, the bytes and symbols of a frame.  The clock does not depend  *)
(* on the bytes: it is explored with the first frame, and the frames       *)
(* before it runs.                                                         *)
(*                                                                         *)
(* Every name with every other of its byte, every temperature, every value *)
(* of both timers in every mode.                                           *)
(***************************************************************************)
EXTENDS Aircon, AirconIr

Make(power, mode, temperature, fan, swing, timer, minutes) ==
    [power |-> power, mode |-> mode, temperature_c |-> temperature, fan |-> fan,
     swing |-> swing, timer |-> timer, minutes |-> minutes]

Modes == ToSet(ModeNames)
MCCommanded ==
    {Make("on", m, t, "auto", "auto", "off", 0) : m \in Modes, t \in 16 .. 30}
      \cup {Make(p, m, 22, f, s, "on", n) : p \in {"on", "off"}, m \in {"auto", "fan"},
              f \in ToSet(FanNames), s \in ToSet(SwingNames), n \in {0, 720}}
      \cup {Make(p, m, 22, "auto", "auto", k, n) : p \in {"on", "off"},
              m \in {"cool", "fan"}, k \in {"on", "off"}, n \in 1 .. 720}

First == Make("on", "auto", 22, "auto", "auto", "off", 0)
MCInit == Init /\ sent = First
MCNext == \/ sent = First /\ Next /\ UNCHANGED sent
          \/ sent = First /\ Init /\ unit = Default /\ SendState /\ UNCHANGED vars
          \/ sent # First /\ sent' = First /\ UNCHANGED vars
MCSpec == MCInit /\ [][MCNext]_<<vars, sent>>
=============================================================================
