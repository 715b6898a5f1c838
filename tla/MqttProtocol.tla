---------------------------- MODULE MqttProtocol ----------------------------
(***************************************************************************)
(* main/mqtt_protocol.c: which messages are commands, and where the result *)
(* of one that is not goes.                                                *)
(*                                                                         *)
(* A topic is its text cut at every "/<-/": <<receiver, sender>> in a      *)
(* proper one.  "aircon", "light" and "switch" stand for the receivers     *)
(* below our identifier, "ours" for anything else below it; "long" is a    *)
(* sender of APP_SENDER_MAX characters or more, "" an empty part.  Letter   *)
(* case, which strcasecmp ignores, is left out.                            *)
(*                                                                         *)
(* A payload is an object with one member, or Garbage: no JSON, no object, *)
(* no member or several.  The value of a "number" is in halves, so that    *)
(* 45 is 22.5; an int holds the numbers above IntMin.                      *)
(***************************************************************************)
EXTENDS Integers, Sequences

CONSTANT IntMin  \* the least int, which the cast of a number out of range gives

Devices == {"aircon", "light", "switch"}
Ours == Devices \cup {"ours"}
Aws == "aws"     \* APP_AWS_SENDER

Garbage == [key |-> "none", kind |-> "garbage", value |-> "none"]

-----------------------------------------------------------------------------
(* Topics *)

IsOurPrefix(topic) == topic[1] \in Ours

\* Exactly one delimiter, with something of a bearable length on both sides.
Splits(topic) == Len(topic) = 2 /\ topic[1] # "" /\ topic[2] \notin {"", "long"}

\* A mutant of ResultTopic: the result goes to the receiver.
ResultTopicUnswapped(topic) == IF Splits(topic) THEN topic ELSE <<Aws, "ours">>

\* mqtt_protocol_make_result: back to the sender, or to the cloud.
ResultTopic(topic) == IF Splits(topic) THEN <<topic[2], topic[1]>> ELSE <<Aws, "ours">>

-----------------------------------------------------------------------------
(* Values *)

Text(m, values) == m.kind = "string" /\ m.value \in values

\* (int)number: to zero, and on this platform IntMin when it does not fit.
Truncated(halves) ==
    LET whole == IF halves >= 0 THEN halves \div 2 ELSE -((-halves) \div 2)
    IN  IF whole \in IntMin .. -IntMin - 1 THEN whole ELSE IntMin

\* A mutant of Whole: the upper limit is not checked.
WholeUnlimited(m, low, high) == m.kind = "number" /\ m.value = 2 * Truncated(m.value)
                                  /\ Truncated(m.value) >= low

\* integer_value
Whole(m, low, high) == m.kind = "number" /\ m.value = 2 * Truncated(m.value)
                         /\ Truncated(m.value) \in low .. high

Modes == {"auto", "dry", "cool", "heat", "fan"}
Fans == {"auto", "min", "low", "medium", "high", "max"}
Swings == {"auto", "highest", "high", "middle", "low", "lowest"}

AirconAccepts(m) ==
    \/ m.key = "power" /\ Text(m, {"on", "off"})
    \/ m.key = "mode" /\ Text(m, Modes)
    \/ m.key = "settemp" /\ Whole(m, 16, 30)
    \/ m.key = "fan" /\ Text(m, Fans)
    \/ m.key = "swing" /\ Text(m, Swings)
    \/ m.key \in {"offtimer", "ontimer"} /\ Whole(m, 0, 720)
    \/ m.key = "get" /\ Text(m, {"temperature"})
    \/ m.key \in {"alert+", "alert-"} /\ Whole(m, -55, 125)

LightAccepts(m) ==
    \/ m.key = "power" /\ Text(m, {"on", "off"})
    \/ m.key = "night" /\ Text(m, {"toggle"})
    \/ m.key \in {"bright", "colortmp"} /\ m.kind = "number" /\ m.value \in 0 .. 2
    \/ m.key = "timer" /\ Whole(m, 1, 720)
    \/ m.key = "cmd" /\ Text(m, {"pair"})

SwitchAccepts(m) ==
    \/ m.key = "power" /\ Text(m, {"on", "off"})
    \/ m.key = "enable" /\ Text(m, {"true", "false"})

Accepts(device, m) == CASE device = "aircon" -> AirconAccepts(m)
                        [] device = "light" -> LightAccepts(m)
                        [] device = "switch" -> SwitchAccepts(m)

Parse(topic, payload) ==
    IF ~IsOurPrefix(topic) THEN "not_for_us"
    ELSE IF /\ Splits(topic) /\ topic[1] \in Devices
            /\ payload.kind # "garbage" /\ Accepts(topic[1], payload)
    THEN "valid" ELSE "invalid"

\* The job of a valid message; the fractions of the light stay in halves.
ParsedJob(topic, m) ==
    [device |-> topic[1], command |-> m.key,
     value |-> IF m.kind = "number" /\ m.key \notin {"bright", "colortmp"}
               THEN Truncated(m.value) ELSE m.value]
=============================================================================
