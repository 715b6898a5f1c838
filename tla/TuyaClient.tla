----------------------------- MODULE TuyaClient -----------------------------
(***************************************************************************)
(* components/tuya_switch/tuya_switch.c and the retry loops around it in   *)
(* main/device_worker.c: a session with the plug is a TCP connection, a    *)
(* negotiation of the session key, one request and its answer.  A power    *)
(* command is one session, and a second one reads the state back.          *)
(*                                                                         *)
(* The plug is external.  It answers frames in order or not at all, pushes *)
(* frames nobody asked for, closes the connection, has a button, and may   *)
(* execute a command long after the driver closed the session that sent    *)
(* it.  A frame is [kind, value]: "status" is JSON with a boolean dps.1,   *)
(* "json" any other JSON, "plain" a frame without JSON (an empty           *)
(* acknowledgement), "error" one with a return code, "garbled" one that    *)
(* fails the checks of receive_frame.  That both ends have the session key *)
(* shows only in that a frame of another key is garbled.                   *)
(***************************************************************************)
EXTENDS Naturals, Sequences

CONSTANTS MaxSkipped,  \* TUYA_MAX_SKIPPED_RESPONSES
          MaxInFlight  \* bound: frames on their way from the plug

ASSUME TuyaAssumption == MaxSkipped \in Nat \ {0} /\ MaxInFlight \in Nat

VARIABLES pc, job,     \* the point in the driver; the switch job it serves
          attempt,     \* of read_switch_with_retry, set_switch_with_retry
          phase,       \* "command" or "verify": which session
          skipped,     \* frames skipped by receive_json
          known,       \* s_switch.power, s_switch.valid
          conn,        \* "closed", "open" or "dead" (the plug has closed it)
          toPlug, toClient,  \* the frames in the connection
          power,       \* the relay
          orphans      \* commands of closed sessions the plug may still execute

\* History: the states of the relay since the session that reads it began; the
\* power command last confirmed; whether the relay has other masters since.
VARIABLES window, settled, contested

client == <<pc, job, attempt, phase, skipped, known>>
network == <<conn, toPlug, toClient>>
history == <<window, settled, contested>>
vars == <<client, network, power, orphans, history>>

-----------------------------------------------------------------------------
Frame(kind, value) == [kind |-> kind, value |-> value]
Plain(kind) == Frame(kind, "none")
Requests == {"state", "on", "off"}
Waiting == {"nonce", "ack", "status"}
Relay == {"on", "off"}
Unknown == [power |-> "off", valid |-> FALSE]
Wanted(request, value) == request \in {"state", value}

FirstPhase(request) == IF request = "state" THEN "verify" ELSE "command"

Init == /\ pc = "idle" /\ job = "none" /\ attempt = 1 /\ phase = "verify"
        /\ skipped = 0 /\ known = Unknown
        /\ conn = "closed" /\ toPlug = << >> /\ toClient = << >>
        /\ power \in Relay /\ orphans = {}
        /\ window = {power} /\ settled = "none" /\ contested = FALSE

\* process_switch enters the driver, with an enabled switch.
Begin(request) ==
    /\ pc = "idle"
    /\ pc' = "connect" /\ job' = request /\ attempt' = 1
    /\ phase' = FirstPhase(request)
    /\ window' = {power}
    /\ settled' = IF request = "state" THEN settled ELSE "none"
    /\ contested' = IF request = "state" THEN contested
                    ELSE \E value \in orphans : ~Wanted(request, value)
    /\ UNCHANGED <<skipped, known, network, power, orphans>>

-----------------------------------------------------------------------------
(* A session *)

\* send_all tells a dead connection from a living one late or never.
Send(frame) == toPlug' = IF conn = "open" THEN Append(toPlug, frame) ELSE toPlug

Connect == /\ pc = "connect" /\ pc' = "negotiate"
           /\ conn' = "open" /\ skipped' = 0
           /\ UNCHANGED <<job, attempt, phase, known, toPlug, toClient, power,
                          orphans, history>>

SendStart == /\ pc = "negotiate" /\ pc' = "nonce"
             /\ Send(Plain("start"))
             /\ UNCHANGED <<job, attempt, phase, skipped, known, conn, toClient,
                            power, orphans, history>>

Arrived(kinds) == toClient # << >> /\ Head(toClient).kind \in kinds

\* The response proves that the plug has the local key: send the finish.
SendFinish == /\ pc = "nonce" /\ Arrived({"nonce"}) /\ pc' = "request"
              /\ Send(Plain("finish"))
              /\ toClient' = Tail(toClient)
              /\ UNCHANGED <<job, attempt, phase, skipped, known, conn, power,
                             orphans, history>>

Request == IF phase = "command" THEN Frame("control", job)
           ELSE Plain("query")

SendRequest == /\ pc = "request"
               /\ pc' = IF phase = "command" THEN "ack" ELSE "status"
               /\ Send(Request)
               /\ UNCHANGED <<job, attempt, phase, skipped, known, conn,
                              toClient, power, orphans, history>>

\* A mutant of SkipFrame: receive_json skips for as long as there are frames.
SkipFrameForever ==
    /\ pc = "status" /\ Arrived({"plain"})
    /\ toClient' = Tail(toClient)
    /\ UNCHANGED <<client, conn, toPlug, power, orphans, history>>

\* receive_json skips a frame without JSON.
SkipFrame == /\ pc = "status" /\ Arrived({"plain"})
             /\ skipped + 1 < MaxSkipped
             /\ skipped' = skipped + 1
             /\ toClient' = Tail(toClient)
             /\ UNCHANGED <<pc, job, attempt, phase, known, conn, toPlug, power,
                            orphans, history>>

\* Resolving, connecting, building or sending fails; the receive timeout ends,
\* or the plug has closed; the frame is not the one waited for.
SessionFails ==
    \/ pc \in {"connect", "negotiate", "request"}
    \/ pc \in Waiting /\ toClient = << >>
    \/ pc = "nonce" /\ toClient # << >> /\ ~Arrived({"nonce"})
    \/ pc \in {"ack", "status"} /\ Arrived({"error", "garbled"})
    \/ pc = "status" /\ Arrived({"json"})
    \/ pc = "status" /\ Arrived({"plain"}) /\ skipped + 1 >= MaxSkipped

Commands(frames) ==
    {frames[i].value : i \in {j \in 1 .. Len(frames) : frames[j].kind = "control"}}

\* close_client; what the plug has not read yet it may still read.
Close == /\ conn' = "closed" /\ toClient' = << >> /\ toPlug' = << >>
         /\ orphans' = orphans \cup Commands(toPlug)

\* A mutant of CommandOver: an acknowledged command is verified in its session.
CommandOverSameSession ==
    /\ phase = "command" /\ pc = "ack" /\ Arrived({"plain", "status", "json"})
    /\ phase' = "verify" /\ pc' = "request"
    /\ window' = {power}
    /\ toClient' = Tail(toClient)
    /\ UNCHANGED <<job, attempt, skipped, known, conn, toPlug, power, orphans,
                   settled, contested>>

\* Any frame that is not an error acknowledges the command; acknowledged or
\* failed, the command is verified in a session of its own.
CommandOver ==
    /\ phase = "command"
    /\ \/ SessionFails
       \/ pc = "ack" /\ Arrived({"plain", "status", "json"})
    /\ phase' = "verify" /\ pc' = "connect"
    /\ window' = {power}
    /\ Close
    /\ UNCHANGED <<job, attempt, skipped, known, power, settled, contested>>

Reading == Head(toClient).value
ReadingAccepted == pc = "status" /\ Arrived({"status"}) /\ Wanted(job, Reading)
Finish == pc' = "idle" /\ job' = "none"

\* A mutant of Verified: the actual state is not compared with the requested.
VerifiedWhatever ==
    /\ pc = "status" /\ Arrived({"status"})
    /\ known' = [power |-> Reading, valid |-> TRUE]
    /\ settled' = IF job = "state" THEN settled ELSE job
    /\ Finish /\ Close
    /\ UNCHANGED <<attempt, phase, skipped, power, window, contested>>

Verified == /\ ReadingAccepted
            /\ known' = [power |-> Reading, valid |-> TRUE]
            /\ settled' = IF job = "state" THEN settled ELSE job
            /\ Finish /\ Close
            /\ UNCHANGED <<attempt, phase, skipped, power, window, contested>>

\* The session that reads the state failed, or read the state not asked for.
\* A first attempt is repeated unless the failure disabled the switch (the
\* failure counter is in DeviceWorker).
AttemptFails ==
    phase = "verify" /\ \/ SessionFails
                        \/ pc = "status" /\ Arrived({"status"}) /\ ~ReadingAccepted

\* A mutant of Retry: the attempt is repeated without being counted.
RetryUncounted == /\ AttemptFails /\ attempt = 1
                  /\ phase' = FirstPhase(job) /\ pc' = "connect"
                  /\ window' = {power}
                  /\ Close
                  /\ UNCHANGED <<attempt, job, skipped, known, power, settled, contested>>

Retry == /\ AttemptFails /\ attempt = 1 /\ attempt' = 2
         /\ phase' = FirstPhase(job) /\ pc' = "connect"
         /\ window' = {power}
         /\ Close
         /\ UNCHANGED <<job, skipped, known, power, settled, contested>>

GiveUp == /\ AttemptFails
          /\ \/ attempt = 2 /\ UNCHANGED known
             \/ known' = Unknown  \* disable_switch_after_failures
          /\ Finish /\ Close
          /\ UNCHANGED <<attempt, phase, skipped, power, history>>

-----------------------------------------------------------------------------
(* The plug *)

Pushes == {Frame("status", power)}
            \cup {Plain(kind) : kind \in {"json", "plain", "error", "garbled"}}

Answers(kind) == IF kind = "start" THEN {Plain("nonce")}
                 ELSE IF kind = "query" THEN Pushes
                 ELSE {Plain("plain"), Plain("error")}

Set(value) == power' = value /\ window' = window \cup {value}

PlugReads ==
    /\ conn = "open" /\ toPlug # << >>
    /\ toPlug' = Tail(toPlug)
    /\ IF Head(toPlug).kind = "control" THEN Set(Head(toPlug).value)
       ELSE UNCHANGED <<power, window>>
    /\ \/ /\ Len(toClient) < MaxInFlight
          /\ \E frame \in Answers(Head(toPlug).kind) : toClient' = Append(toClient, frame)
       \/ UNCHANGED toClient
    /\ UNCHANGED <<client, conn, orphans, settled, contested>>

PlugPushes == /\ conn = "open" /\ Len(toClient) < MaxInFlight
              /\ \E frame \in Pushes : toClient' = Append(toClient, frame)
              /\ UNCHANGED <<client, conn, toPlug, power, orphans, history>>

PlugCloses == /\ conn = "open" /\ conn' = "dead"
              /\ toPlug' = << >>
              /\ UNCHANGED <<client, toClient, power, orphans, history>>

\* One of possibly several such commands, or it is dropped.
OrphanEnds == \E value \in orphans :
                /\ Set(value) \/ UNCHANGED <<power, window>>
                /\ orphans' \in {orphans, orphans \ {value}}
                /\ UNCHANGED <<client, network, settled, contested>>

Button == /\ \E value \in Relay : Set(value)
          /\ contested' = TRUE
          /\ UNCHANGED <<client, network, orphans, settled>>

-----------------------------------------------------------------------------
DriverStep == \/ Connect \/ SendStart \/ SendFinish \/ SendRequest \/ SkipFrame
              \/ CommandOver \/ Verified \/ Retry \/ GiveUp

PlugStep == PlugReads \/ PlugPushes \/ PlugCloses \/ OrphanEnds \/ Button

Next == (\E request \in Requests : Begin(request)) \/ DriverStep \/ PlugStep

\* The worker thread runs, and every receive ends by SO_RCVTIMEO.
Spec == Init /\ [][Next]_vars /\ WF_vars(DriverStep)

-----------------------------------------------------------------------------
(* Properties *)

ClientFrames == [kind : {"nonce", "status", "json", "plain", "error", "garbled"},
                 value : Relay \cup {"none"}]
PlugFrames == [kind : {"start", "finish", "control", "query"},
               value : Relay \cup {"none"}]

DriverTypeOK ==
    /\ pc \in {"idle", "connect", "negotiate", "request"} \cup Waiting
    /\ job \in Requests \cup {"none"}
    /\ attempt \in {1, 2} /\ phase \in {"command", "verify"} /\ skipped \in Nat
    /\ known \in [power : Relay, valid : BOOLEAN]
    /\ settled \in Relay \cup {"none"} /\ contested \in BOOLEAN

FramesOK == /\ toPlug \in Seq(PlugFrames) /\ toClient \in Seq(ClientFrames)
            /\ \A i \in 1 .. Len(toPlug) :
                 toPlug[i].kind = "control" => toPlug[i].value \in {job} \cap Relay
            /\ \A i \in 1 .. Len(toClient) :
                 toClient[i].kind = "status" => toClient[i].value \in Relay

PlugTypeOK == /\ power \in window /\ window \subseteq Relay
              /\ orphans \subseteq Relay

\* Where the driver is: only a busy one has a connection, a command is sent in
\* the first session of a power command only.
PhaseOK == /\ job = "none" <=> pc = "idle"
           /\ pc = "ack" \/ phase = "command" => job \in Relay
           /\ pc = "ack" => phase = "command"
           /\ pc = "status" => phase = "verify"
           /\ conn \in {"closed", "open", "dead"}
           /\ conn = "closed" <=> pc \in {"idle", "connect"}
           /\ conn = "closed" => toPlug = << >> /\ toClient = << >>

\* The types of the variables, and where the driver is.
TypeOK == DriverTypeOK /\ FramesOK /\ PlugTypeOK /\ PhaseOK

\* "The verified state is authoritative" (the comment in
\* tuya_switch_set_power_verified): every job that succeeds reports a state
\* the plug had since the session that read it was opened, whatever frames were
\* pushed, late, lost or left over, and a power command the state it asked for.
Service == INSTANCE SwitchService
Authoritative == Service!Spec

\* "Explicit ON/OFF is idempotent" (the same comment): once a power command is
\* reported done, the plug stays as asked for although commands of its
\* failed attempts may still be executed, unless the button is pressed or a
\* command of an earlier job was under way when this one began.
StaysAsConfirmed == settled # "none" /\ ~contested => power = settled

\* How many more steps the driver may take in its session, and with all that may
\* follow: the session that reads back, the second attempt.
SessionSteps == MaxSkipped + 4

StepsInSession == CASE pc = "connect" -> SessionSteps
                    [] pc = "negotiate" -> SessionSteps - 1
                    [] pc = "nonce" -> SessionSteps - 2
                    [] pc = "request" -> SessionSteps - 3
                    [] pc = "ack" -> 1
                    [] pc = "status" -> MaxSkipped - skipped
                    [] OTHER -> 0

StepsLeft == IF pc = "idle" THEN 0
             ELSE StepsInSession
                    + (IF phase = "command" THEN SessionSteps ELSE 0)
                    + (IF attempt = 1 THEN 2 * SessionSteps ELSE 0)

\* A switch job is at most four sessions of a connection, three messages and the
\* frames that may be skipped; no answer, push or silence of the plug leads back.
DriverShrinks == [][IF pc = "idle" THEN StepsLeft' <= 4 * SessionSteps
                    ELSE StepsLeft' < StepsLeft]_client

\* Every switch job comes back to the worker, however many frames the plug pushes.
JobReturns == job # "none" ~> job = "none"
=============================================================================
