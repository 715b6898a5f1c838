--------------------------- MODULE MessageCallback ---------------------------
(***************************************************************************)
(* message_callback of main/mqtt_task.c: a message arrives in fragments,   *)
(* is put together in static buffers and becomes a job, a result sent back *)
(* or nothing.  wolfMQTT is external: it hands over the bytes of a message *)
(* in order, marks the first and the last fragment, and forgets a message  *)
(* in the middle when the session ends.  Bytes are <<message, position>>,  *)
(* so that those of two messages differ.                                   *)
(*                                                                         *)
(* The broker is external, too: it delivers what is below our identifier,  *)
(* whoever published it, the program's own results included.               *)
(***************************************************************************)
EXTENDS MqttProtocol, FiniteSets

CONSTANTS Messages,       \* what clients send: [topic, longTopic, payload, size]
          PayloadMax,     \* APP_MQTT_PAYLOAD_MAX
          MaxFragment,    \* bound: bytes of a fragment
          MaxSelfSigned,  \* bound: messages of a session signed with a topic of ours
          DeviceLength,   \* APP_DEVICE_QUEUE_LENGTH
          PublishLength   \* APP_PUBLISH_QUEUE_LENGTH

ASSUME CallbackAssumption == /\ PayloadMax \in Nat \ {0} /\ MaxFragment \in Nat \ {0}
                             /\ DeviceLength \in Nat /\ PublishLength \in Nat
                             /\ MaxSelfSigned \in Nat

\* The subscription delivers only what is below our identifier.
ASSUME MessagesAssumption ==
    \A m \in Messages :
        /\ m.topic # << >> /\ IsOurPrefix(m.topic)
        /\ m.longTopic \in BOOLEAN /\ m.size \in Nat

VARIABLES incoming,   \* external: the message being received, or NoMessage
          parity,     \* which of two consecutive messages it is
          got,        \* external: how much of it has been handed over
          buffer,     \* topic, payload and the overflow flags
          jobs,       \* the device queue
          results,    \* the topics of the results in the publish queue
          last,       \* history: what became of the message completed last, until the next
          echoes,     \* external: the topics of results of ours, yet to be delivered to us
          selfSigned  \* history: the messages of the session that clients signed so

stream == <<incoming, parity, got>>
broker == <<echoes, selfSigned>>
vars == <<stream, buffer, jobs, results, last, broker>>

NoMessage == [topic |-> << >>, longTopic |-> FALSE, payload |-> Garbage, size |-> 0]

Nothing == [message |-> NoMessage, room |-> TRUE, outcome |-> "none"]

Init == /\ incoming = NoMessage /\ parity = 0 /\ got = 0
        /\ buffer = [topic |-> << >>, topicOverflow |-> FALSE,
                     payload |-> << >>, payloadOverflow |-> FALSE]
        /\ jobs = << >> /\ results = << >>
        /\ last = Nothing
        /\ echoes = << >> /\ selfSigned = 0

-----------------------------------------------------------------------------
\* A mutant of Started: what is left of an unfinished message is kept.
StartedOnTop(message) == [buffer EXCEPT !.topic = message.topic,
                                        !.topicOverflow = message.longTopic,
                                        !.payloadOverflow = FALSE]

\* message_new
Started(message) == [topic |-> message.topic, topicOverflow |-> message.longTopic,
                     payload |-> << >>, payloadOverflow |-> FALSE]

Fragment(n) == [i \in 1 .. n |-> <<parity, got + i>>]

\* What fits is appended, and the terminating zero always fits.
Appended(b, bytes) ==
    LET available == PayloadMax - 1 - Len(b.payload)
    IN  [b EXCEPT !.payload = @ \o SubSeq(bytes, 1, IF Len(bytes) > available
                                                    THEN available ELSE Len(bytes)),
                  !.payloadOverflow = @ \/ Len(bytes) > available]

\* What cJSON_Parse sees in the buffer: a message only if all of it is there.
Payload(b) == IF b.payload = [i \in 1 .. incoming.size |-> <<parity, i>>]
              THEN incoming.payload ELSE Garbage

\* app_enqueue_publish discards when the queue is full.
Reply(topic) == results' = IF Len(results) < PublishLength
                           THEN Append(results, ResultTopic(topic)) ELSE results

\* A mutant of Outcome: the overflow of a payload goes unnoticed.
OutcomeUncut(b) ==
    IF b.topicOverflow THEN "silent"
    ELSE CASE Parse(b.topic, incoming.payload) = "not_for_us" -> "silent"
           [] Parse(b.topic, incoming.payload) = "invalid" -> "error"
           [] OTHER -> IF Len(jobs) < DeviceLength THEN "job" ELSE "busy"

Outcome(b) ==
    IF b.topicOverflow THEN "silent"
    ELSE IF b.payloadOverflow THEN IF IsOurPrefix(b.topic) THEN "error" ELSE "silent"
    ELSE CASE Parse(b.topic, Payload(b)) = "not_for_us" -> "silent"
           [] Parse(b.topic, Payload(b)) = "invalid" -> "error"
           [] OTHER -> IF Len(jobs) < DeviceLength THEN "job" ELSE "busy"

\* The last fragment: app_enqueue_device_job or a result.
Complete(b) ==
    /\ last' = [message |-> incoming, room |-> Len(jobs) < DeviceLength,
                outcome |-> Outcome(b)]
    /\ IF Outcome(b) = "job"
       THEN jobs' = Append(jobs, ParsedJob(b.topic, incoming.payload))
       ELSE UNCHANGED jobs
    /\ IF Outcome(b) \in {"error", "busy"} THEN Reply(b.topic) ELSE UNCHANGED results

\* A callback with n bytes of payload.
Callback(n) ==
    LET b == Appended(IF got = 0 THEN Started(incoming) ELSE buffer, Fragment(n))
        done == got + n = incoming.size
    IN  /\ incoming # NoMessage
        /\ got + n <= incoming.size /\ (n = 0 => incoming.size = 0)
        /\ buffer' = b
        /\ IF done THEN Complete(b) ELSE UNCHANGED <<jobs, results, last>>
        /\ incoming' = IF done THEN NoMessage ELSE incoming
        /\ got' = IF done THEN 0 ELSE got + n
        /\ UNCHANGED <<parity, broker>>

-----------------------------------------------------------------------------
\* The program's own topics can stand for the sender as well: nothing checks it.
SelfSigned(topic) == Splits(topic) /\ topic[2] \in Ours

Deliver(message) == /\ incoming = NoMessage
                    /\ incoming' = message /\ parity' = 1 - parity /\ got' = 0
                    /\ last' = Nothing
                    /\ UNCHANGED <<buffer, jobs, results>>

Arrive(message) == /\ Deliver(message)
                   /\ \/ ~SelfSigned(message.topic) /\ UNCHANGED selfSigned
                      \/ /\ SelfSigned(message.topic) /\ selfSigned < MaxSelfSigned
                         /\ selfSigned' = selfSigned + 1
                   /\ UNCHANGED echoes

\* A result that the program has sent to itself: an object with two members.
Echo(topic, n) == [topic |-> topic, longTopic |-> FALSE, payload |-> Garbage, size |-> n]

EchoArrives(n) == /\ echoes # << >> /\ echoes' = Tail(echoes)
                  /\ Deliver(Echo(Head(echoes), n))
                  /\ UNCHANGED selfSigned

\* The session ends between two fragments; app_reset_publish_queue.  It was a clean
\* session: the broker keeps nothing for us.
SessionEnds == /\ incoming' = NoMessage /\ got' = 0 /\ results' = << >>
               /\ echoes' = << >> /\ selfSigned' = 0
               /\ UNCHANGED <<parity, buffer, jobs, last>>

\* The worker takes a job.
TakeJob == /\ jobs # << >> /\ jobs' = Tail(jobs)
           /\ UNCHANGED <<stream, buffer, results, last, broker>>

\* The session's loop publishes a result; one below our identifier comes back, or
\* is lost.
PublishResult == /\ results # << >> /\ results' = Tail(results)
                 /\ \/ IsOurPrefix(Head(results)) /\ echoes' = Append(echoes, Head(results))
                    \/ UNCHANGED echoes
                 /\ UNCHANGED <<stream, buffer, jobs, last, selfSigned>>

Next == \/ \E n \in 0 .. MaxFragment : Callback(n)
        \/ \E message \in Messages : Arrive(message)
        \/ \E n \in 1 .. PayloadMax - 1 : EchoArrives(n)
        \/ SessionEnds \/ TakeJob \/ PublishResult

Spec == Init /\ [][Next]_vars

-----------------------------------------------------------------------------
(* Properties *)

\* The buffer holds the payload and its zero, and a piece of one message only:
\* what an unfinished message left there is gone with the next one's first byte.
BufferOK ==
    /\ Len(buffer.payload) < PayloadMax
    /\ got > 0 => /\ buffer.topic = incoming.topic
                  /\ \A i \in 1 .. Len(buffer.payload) : buffer.payload[i] = <<parity, i>>

\* What becomes of a message depends on the message and the room for its job
\* alone: not on its fragments, on earlier messages or on a session that ended in
\* the middle of one.  A command that fits becomes its job or is called busy, any
\* other message with a topic that fits is called an error.
MeansTheMessage ==
    LET m == last.message
        command == m.size < PayloadMax /\ Parse(m.topic, m.payload) = "valid"
    IN  last.outcome = IF last.outcome = "none" THEN "none"
                       ELSE IF m.longTopic THEN "silent"
                       ELSE IF ~command THEN "error"
                       ELSE IF last.room THEN "job" ELSE "busy"

\* The types that the parser, the worker and the drivers convert a value to, and what
\* they accept (process_aircon, aircon_ir_send_state, lampsmart.c).
UInt8(v) == v % 256
UInt16(v) == v % 65536
Int8(v) == ((v + 128) % 256) - 128

Usable(job) ==
    /\ job.command = "settemp" => UInt8(job.value) = job.value /\ job.value \in 16 .. 30
    /\ job.command \in {"alert+", "alert-"} => Int8(job.value) = job.value
    /\ job.command \in {"offtimer", "ontimer"} =>
         UInt16(job.value) = job.value /\ job.value \in 0 .. 720
    /\ job.command = "timer" =>
         /\ UInt16(job.value) = job.value /\ job.value \in 1 .. 720
         /\ job.value <= 255 => UInt8(job.value) = job.value
    /\ job.command \in {"bright", "colortmp"} => job.value \in 0 .. 2
    /\ job.command = "mode" => job.value \in Modes
    /\ job.command = "fan" => job.value \in Fans
    /\ job.command = "swing" => job.value \in Swings
    /\ job.command \in {"power", "enable"} => job.value \in {"on", "off", "true", "false"}

\* Every job has a value that the device does not refuse and that survives each
\* narrowing on its way there, but for one: a light's timer above 255 minutes is kept
\* whole as far as lampsmart_sleep_timer, which puts all of it into the frame F008 and
\* the lower byte alone into 77F8 (LampFrames says what the light makes of it).
JobsUsable == \A i \in 1 .. Len(jobs) : Usable(jobs[i])

\* The answers to itself that are going round: in the publish queue, at the broker
\* and being received.
ToItself == {i \in 1 .. Len(results) : IsOurPrefix(results[i])}
GoingRound == Cardinality(ToItself) + Len(echoes)
                + (IF SelfSigned(incoming.topic) THEN 1 ELSE 0)

\* The program answers itself only if a client has signed a message with one of the
\* program's topics in this session, and each such message keeps one answer going
\* round at the most: they do not multiply (and would go on until the session ends,
\* for an answer is no command and is answered in turn).
EchoesDoNotMultiply == GoingRound <= selfSigned
=============================================================================
