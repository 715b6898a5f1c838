------------------------------ MODULE LampSmart ------------------------------
(***************************************************************************)
(* components/lampsmart: lampsmart.c's build_and_send over                  *)
(* lampsmart_sender_linux_bluez.c.  A light command is a schedule of        *)
(* advertisements, one at a time on the air; each takes four or five HCI    *)
(* commands, any of which may fail and then ends the light command.         *)
(*                                                                         *)
(* The controller is external: it executes every HCI command that reaches  *)
(* it, keeps advertising when the process ends, and ignores new parameters *)
(* while it advertises.  A burst of a frame begins when it goes on the air. *)
(* The frames are those of LampFrames; suspend and resume, which nothing    *)
(* calls, are left out.                                                     *)
(***************************************************************************)
EXTENDS Naturals, Sequences

CONSTANTS Rounds,    \* 4: repeat_count of every command but the night light
          Variants   \* the frames of a round, by send_mode

ASSUME LampAssumption == /\ Rounds \in Nat \ {0}
                         /\ Variants \in {<<"F008">>, <<"F008", "77F8">>}

VARIABLES lpc,          \* where advertise_raw is
          command,      \* "night", or "plain" for every other command
          round, place, \* build_and_send's loop: the round, and where in it
          result,       \* of the last light command: "none", "ok" or "failed"
          opened,       \* s_hci_fd >= 0
          advertising,  \* s_advertising
          radio,        \* external: whether the controller advertises, and what
          bursts,       \* history: bursts of each frame of the last command
          inherited     \* history: the process found the controller advertising

sequence == <<command, round, place>>
driver == <<lpc, sequence, result, opened, advertising>>
lampVars == <<driver, radio, bursts, inherited>>

Flags == "flags"
Places == 1 .. Len(Variants)
Frames == {Variants[i] : i \in Places} \cup {Flags}
NoBursts == [f \in Frames |-> 0]

\* A mutant of RepeatCount: the night light is repeated like the rest.
RepeatCountAlways(kind) == Rounds

\* The night light is a toggle and is sent once.
RepeatCount(kind) == IF kind = "night" THEN 1 ELSE Rounds

\* build_and_send: the frames of each round, then the flags that end the burst.
Ending == round > RepeatCount(command)
Current == IF Ending THEN Flags ELSE Variants[place]

\* device_worker_initialize, lampsmart_sender_init: no adapter is not an error.
LampInit == /\ lpc = "idle" /\ command = "plain" /\ round = 1 /\ place = 1
            /\ result = "none" /\ opened \in BOOLEAN /\ advertising = FALSE
            /\ radio = [on |-> FALSE, frame |-> Flags]
            /\ bursts = NoBursts /\ inherited = FALSE

-----------------------------------------------------------------------------
\* process_light; without an adapter every advertisement succeeds at once.
Begin(kind) == /\ lpc = "idle"
               /\ command' = kind /\ round' = 1 /\ place' = 1 /\ bursts' = NoBursts
               /\ IF opened THEN lpc' = "stop" /\ result' = "none"
                  ELSE result' = "ok" /\ UNCHANGED lpc
               /\ UNCHANGED <<opened, advertising, radio, inherited>>

\* hci_send_cmd fails: the error is returned through build_and_send.
HciFails == /\ lpc \in {"stop", "params", "data", "enable", "air"}
            /\ lpc = "stop" => advertising
            /\ lpc' = "idle" /\ result' = "failed"
            /\ UNCHANGED <<sequence, opened, advertising, radio, bursts, inherited>>

\* A mutant of StopRadio: a stop that fails is taken for done.
StopRadioForgets == /\ advertising' = FALSE
                    /\ radio' \in {radio, [radio EXCEPT !.on = FALSE]}
                    /\ inherited' = FALSE

\* lampsmart_sender_stop
StopRadio == /\ advertising' = FALSE
             /\ IF advertising
                THEN radio' = [radio EXCEPT !.on = FALSE] /\ inherited' = FALSE
                ELSE UNCHANGED <<radio, inherited>>

Stop == /\ lpc = "stop" /\ lpc' = "params"
        /\ StopRadio
        /\ UNCHANGED <<sequence, result, opened, bursts>>

Params == /\ lpc = "params" /\ lpc' = "data"
          /\ UNCHANGED <<sequence, result, opened, advertising, radio, bursts,
                         inherited>>

Burst(frame) == bursts' = [bursts EXCEPT ![frame] = @ + 1]

\* Data set while the controller advertises goes on the air at once.
Data == /\ lpc = "data" /\ lpc' = "enable"
        /\ radio' = [radio EXCEPT !.frame = Current]
        /\ IF radio.on THEN Burst(Current) ELSE UNCHANGED bursts
        /\ UNCHANGED <<sequence, result, opened, advertising, inherited>>

Enable == /\ lpc = "enable" /\ lpc' = "air"
          /\ advertising' = TRUE
          /\ radio' = [radio EXCEPT !.on = TRUE]
          /\ IF radio.on THEN UNCHANGED bursts ELSE Burst(radio.frame)
          /\ inherited' = FALSE
          /\ UNCHANGED <<sequence, result, opened>>

\* The next advertisement of build_and_send, or its return.
NextFrame == \/ /\ Ending
                /\ lpc' = "idle" /\ result' = "ok" /\ UNCHANGED <<round, place>>
             \/ /\ ~Ending
                /\ IF place < Len(Variants) THEN place' = place + 1 /\ UNCHANGED round
                   ELSE round' = round + 1 /\ place' = 1
                /\ lpc' = "stop" /\ UNCHANGED result

\* A mutant of AirEnds: the last frame is left on the air.
AirEndsOnAir == /\ lpc = "air"
                /\ IF Ending THEN UNCHANGED <<advertising, radio, inherited>> ELSE StopRadio
                /\ NextFrame
                /\ UNCHANGED <<command, opened, bursts>>

\* usleep ends and the advertisement is stopped.
AirEnds == /\ lpc = "air"
           /\ StopRadio
           /\ NextFrame
           /\ UNCHANGED <<command, opened, bursts>>

\* The process ends anywhere and is started again; the controller goes on.
LampRestart == /\ lpc' = "idle" /\ result' = "none"
               /\ opened' \in BOOLEAN /\ advertising' = FALSE
               /\ inherited' = radio.on
               /\ UNCHANGED <<sequence, radio, bursts>>

LampNext == \/ \E kind \in {"night", "plain"} : Begin(kind)
            \/ HciFails \/ Stop \/ Params \/ Data \/ Enable \/ AirEnds \/ LampRestart

LampSpec == LampInit /\ [][LampNext]_lampVars

-----------------------------------------------------------------------------
(* Properties *)

\* The types of the variables.
DriverOK == /\ lpc \in {"idle", "stop", "params", "data", "enable", "air"}
            /\ command \in {"night", "plain"}
            /\ round \in 1 .. RepeatCount(command) + 1 /\ place \in Places
            /\ result \in {"none", "ok", "failed"}
            /\ opened \in BOOLEAN /\ advertising \in BOOLEAN
            /\ radio \in [on : BOOLEAN, frame : Frames]
            /\ bursts \in [Frames -> Nat] /\ inherited \in BOOLEAN

\* A frame that an error left on the air is one the driver knows of, so that the
\* next command begins by stopping it.  Only the frame of an earlier process
\* goes unnoticed until the first advertisement of this one.
OnAirIsKnown == radio.on => advertising \/ inherited

\* The night light is a toggle (the comment in build_and_send): whatever fails,
\* and whatever was left on the air, no variant of it goes on the air twice.
NightOnce == command = "night" => \A f \in Frames : bursts[f] <= 1

\* A command reported sent has been on the air in every variant and every round,
\* and leaves the air silent, also after commands that failed half-way.
SentIsSent ==
    lpc = "idle" /\ result = "ok" /\ opened =>
      /\ ~radio.on
      /\ \A i \in Places : bursts[Variants[i]] = RepeatCount(command)
=============================================================================
