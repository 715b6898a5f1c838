------------------------------ MODULE AirconIr ------------------------------
(***************************************************************************)
(* components/aircon_ir/aircon_ir.c: the infrared frame of an air          *)
(* conditioner state.  Settings arrive as the names of an MQTT command,    *)
(* become enumeration values, then 27 bytes, then 439 timing symbols.  The *)
(* air conditioner (Received) is external: it measures the symbols and     *)
(* reads its fields back.  The timer is given by the minutes that          *)
(* remaining_timer_minutes returned; when they were read is in Aircon.     *)
(***************************************************************************)
EXTENDS Naturals, Sequences, SequencesExt, Bitwise

CONSTANT Commanded  \* the settings commanded: [power, mode, temperature_c, fan,
                    \* swing, timer, minutes], names for the enumerations

VARIABLE sent      \* the settings of the last frame

BaseState == <<2, 32, 224, 4, 0, 0, 0, 6, 2, 32, 224, 4, 0, 0, 50, 128, 175, 0,
               0, 6, 96, 0, 0, 128, 0, 6, 0>>
StateLen == Len(BaseState)
FirstSectionLen == 8
RawLen == 439

ModeNames == <<"auto", "dry", "cool", "heat", "fan">>
FanNames == <<"auto", "min", "low", "medium", "high", "max">>
SwingNames == <<"auto", "highest", "high", "middle", "low", "lowest">>

\* lookup, for a name of the table (the protocol refuses every other name).
Enum(names, text) == (CHOOSE i \in DOMAIN names : names[i] = text) - 1

\* The cases of the C switches, by enumeration value.
ModeBits(mode) == <<0, 32, 48, 64, 96>>[mode + 1]
FanBits(fan) == <<160, 48, 64, 80, 96, 112>>[fan + 1]
SwingBits(swing) == <<15, 1, 2, 3, 4, 5>>[swing + 1]

\* The range checks of aircon_ir_send_state.
InRange(s) == s.temperature_c \in 16 .. 30

-----------------------------------------------------------------------------
(* The bytes; state[i] of the code is state[i + 1] *)

\* A mutant of SetTimerFields: the minutes of the off timer are split at the byte.
SetTimerFieldsByByte(state, timer, minutes) ==
    IF minutes = 0 THEN state
    ELSE IF timer = "on"
    THEN [state EXCEPT ![14] = @ | 2,
                       ![19] = minutes & 255,
                       ![20] = (@ & 240) | ((minutes \div 256) & 15)]
    ELSE [state EXCEPT ![14] = @ | 4,
                       ![20] = (@ & 15) | ((minutes & 15) * 16),
                       ![21] = (@ & 128) | ((minutes \div 256) & 127)]

SetTimerFields(state, timer, minutes) ==
    IF minutes = 0 THEN state
    ELSE IF timer = "on"
    THEN [state EXCEPT ![14] = @ | 2,
                       ![19] = minutes & 255,
                       ![20] = (@ & 240) | ((minutes \div 256) & 15)]
    ELSE [state EXCEPT ![14] = @ | 4,
                       ![20] = (@ & 15) | ((minutes & 15) * 16),
                       ![21] = (@ & 128) | ((minutes \div 16) & 127)]

Checksum(state) == (244 + FoldSeq(+, 0, SubSeq(state, 1, StateLen - 1))) % 256

\* build_state
State(s) ==
    LET fields == [BaseState EXCEPT
            ![14] = ModeBits(Enum(ModeNames, s.mode)) | (IF s.power = "on" THEN 1 ELSE 0),
            ![15] = (s.temperature_c * 2) % 256,
            ![17] = FanBits(Enum(FanNames, s.fan)) | SwingBits(Enum(SwingNames, s.swing))]
        timed == SetTimerFields(fields, s.timer, s.minutes)
    IN  [timed EXCEPT ![StateLen] = Checksum(timed)]

-----------------------------------------------------------------------------
(* The symbols: a section is a header, a mark and a space for each bit from *)
(* the lowest on, and a mark; a gap separates the sections.                 *)

Header == <<3500, 1750>>
BitMark == 440
ZeroSpace == 420
OneSpace == 1300
Gap == 10000

BitOf(byte, bit) == (byte \div 2 ^ bit) % 2

\* append_section
Section(bytes, gap) ==
    Header
      \o [k \in 1 .. 16 * Len(bytes) |->
            IF k % 2 = 1 THEN BitMark
            ELSE IF BitOf(bytes[((k - 1) \div 16) + 1], ((k - 1) % 16) \div 2) = 1
            THEN OneSpace ELSE ZeroSpace]
      \o <<BitMark>> \o gap

\* state_to_raw
Raw(state) == Section(SubSeq(state, 1, FirstSectionLen), <<Gap>>)
                \o Section(SubSeq(state, FirstSectionLen + 1, StateLen), << >>)

\* aircon_ir_send_state
SendState == \E s \in Commanded : InRange(s) /\ sent' = s

-----------------------------------------------------------------------------
(* The air conditioner *)

\* The bytes between the headers: a long space is a one.
Bytes(raw, first, count) ==
    [i \in 1 .. count |->
        FoldSeq(+, 0, [b \in 1 .. 8 |->
            IF raw[first + 16 * (i - 1) + 2 * b - 1] > 1000 THEN 2 ^ (b - 1) ELSE 0])]

ReceivedState(raw) ==
    Bytes(raw, 3, FirstSectionLen)
      \o Bytes(raw, 3 + 16 * FirstSectionLen + 4, StateLen - FirstSectionLen)

ModeAt == [b \in {0, 2, 3, 4, 6} |-> CASE b = 0 -> "auto" [] b = 2 -> "dry"
            [] b = 3 -> "cool" [] b = 4 -> "heat" [] b = 6 -> "fan"]
FanAt == [b \in {10} \cup 3 .. 7 |-> CASE b = 10 -> "auto" [] b = 3 -> "min"
            [] b = 4 -> "low" [] b = 5 -> "medium" [] b = 6 -> "high" [] b = 7 -> "max"]
SwingAt == [b \in {15} \cup 1 .. 5 |-> CASE b = 15 -> "auto" [] b = 1 -> "highest"
            [] b = 2 -> "high" [] b = 3 -> "middle" [] b = 4 -> "low" [] b = 5 -> "lowest"]

TimerOf(state) == CASE BitOf(state[14], 1) = 1 -> "on"
                    [] BitOf(state[14], 2) = 1 -> "off"
                    [] OTHER -> "none"

MinutesOf(state) ==
    CASE TimerOf(state) = "on" -> state[19] + 256 * (state[20] % 16)
      [] TimerOf(state) = "off" -> (state[20] \div 16) + 16 * (state[21] % 128)
      [] OTHER -> 0

Received(raw) ==
    LET state == ReceivedState(raw)
    IN  [power |-> IF BitOf(state[14], 0) = 1 THEN "on" ELSE "off",
         mode |-> ModeAt[state[14] \div 16], temperature_c |-> state[15] \div 2,
         fan |-> FanAt[state[17] \div 16], swing |-> SwingAt[state[17] % 16],
         timer |-> TimerOf(state), minutes |-> MinutesOf(state),
         intact |-> state[StateLen] = Checksum(state)]

\* The air conditioner reads from the symbols what was commanded by name: no
\* field disturbs another, above all the two timers that share a byte, or grows
\* out of its byte, and the symbols are those raw has room for.
Understood ==
    LET state == State(sent)
    IN  /\ \A i \in 1 .. StateLen : state[i] \in 0 .. 255
        /\ Len(Raw(state)) = RawLen
        /\ Received(Raw(state)) =
             [power |-> sent.power, mode |-> sent.mode,
              temperature_c |-> sent.temperature_c, fan |-> sent.fan,
              swing |-> sent.swing, minutes |-> sent.minutes, intact |-> TRUE,
              timer |-> IF sent.minutes = 0 THEN "none" ELSE sent.timer]
=============================================================================
