----------------------------- MODULE LampFrames -----------------------------
(***************************************************************************)
(* components/lampsmart: the two advertisements of a light command, F008   *)
(* (lampsmart_f008.c) and 77F8 (lampsmart_77f8.c), from the command to the *)
(* 31 bytes.  The lamps are external: each undoes the whitening of its     *)
(* variant, checks what it can check, and reads the command back.  Byte i  *)
(* of the code is byte i + 1 here.                                         *)
(*                                                                         *)
(* The encryption that signs an F008 frame is an operator of key and block *)
(* known to both sides.  A brightness is given in hundredths, a colour     *)
(* temperature by the position it is truncated to; a channel is computed   *)
(* exactly (of the 10201 pairs the code's floats give 2 a unit less).      *)
(***************************************************************************)
EXTENDS Naturals, Sequences, SequencesExt, Bitwise

CONSTANTS Commands,         \* [kind, level, amount]: brightness; position, minutes
          Turns,            \* how many commands were sent before
          Randoms,          \* the numbers drawn: [f008, uuid77], neither zero
          Signature(_, _),  \* the 16 bits taken from esp_aes_crypt_ecb
          Profile           \* lampsmart_profile_from_uuid: [target, device_src]

VARIABLE sent  \* the command, the turn and the numbers of the last frames

Low(n) == n % 256
High(n) == (n \div 256) % 256
BitOf(n, bit) == (n \div 2 ^ bit) % 2
Complement16(n) == 65535 - n

EightTimes(f(_), x) == f(f(f(f(f(f(f(f(x))))))))

\* lampsmart_crc16_ccitt_update: the shifts of the high byte by table.
ShiftCrc(crc) == IF crc >= 32768 THEN ((2 * crc) % 65536) ^^ 4129 ELSE 2 * crc
CrcTable == [high \in 0 .. 255 |-> EightTimes(ShiftCrc, high * 256)]
CrcByte(crc, b) == CrcTable[High(crc) ^^ b] ^^ (Low(crc) * 256)

\* lampsmart_crc16_ccitt_range, the start counted from zero.
Crc(data, start, len, seed) == FoldLeft(CrcByte, seed, SubSeq(data, start + 1, start + len))

-----------------------------------------------------------------------------
(* The command: its number in both variants, four bytes, two bytes, param4 *)

\* channel_from_float, of a scale in parts of whole
Channel(scale, whole) == (255 * scale) \div whole

Built(number, p4, p2, param4) == [number |-> number, p4 |-> p4, p2 |-> p2, param4 |-> param4]
Plain(number) == Built(number, <<0, 0, 0, 0>>, <<0, 0>>, 0)
Dim(a, b) == Built(33, <<0, 0, a, b>>, <<a, b>>, 0)

\* lampsmart_brightness, not in the style of the app: at least 0.015.
Brightness(level) == Dim(Channel(IF level < 2 THEN 15 ELSE 10 * level, 1000), 0)

\* lampsmart_color_temp: the scale is in thousandths.
ColorTemp(level, position) ==
    LET scale == 9 * level + 100
    IN  IF position > 50
        THEN Dim(Channel(scale, 1000), Channel((100 - position) * scale, 50000))
        ELSE Dim(Channel(position * scale, 50000), Channel(scale, 1000))

\* lampsmart_sleep_timer: 77F8 has room for the low byte only.
SleepTimer(minutes) ==
    Built(65, <<0, Low(minutes), High(minutes), 0>>, <<Low(minutes), 0>>, 0)

\* lampsmart_profile_from_uuid: the addresses, device_addr being the same for all.
DeviceAddress == <<152, 67, 175, 11, 70>>
Address2 == <<Profile.target[1], (Profile.target[2] \div 16) * 16>>

Pairing == Built(40, <<0, 0, 0, 0>>, Address2, 129)

\* process_light
Build(command) ==
    CASE command.kind = "on" -> Plain(16)
      [] command.kind = "off" -> Plain(17)
      [] command.kind = "night" -> Plain(35)
      [] command.kind = "bright" -> Brightness(command.level)
      [] command.kind = "colortmp" -> ColorTemp(command.level, command.amount)
      [] command.kind = "timer" -> SleepTimer(command.amount)
      [] command.kind = "pair" -> Pairing

\* lampsmart_init_from_uuid, build_and_send: the counters wrap.
Key2(turn) == (32 + turn) % 256
Seq77(turn) == (1 + turn) % 65536

-----------------------------------------------------------------------------
(* F008 *)

XorTable == <<
    183, 253, 147,  38,  54,  63, 247, 204,  52, 165, 229, 241, 113, 216,  49,  21,
      4, 199,  35, 195,  24, 150,   5, 154,   7,  18, 128, 226, 235,  39, 178, 117,
    208, 239, 170, 251,  67,  77,  51, 133,  69, 249,   2, 127,  80,  60, 159, 168,
     81, 163,  64, 143, 146, 157,  56, 245, 188, 182, 218,  33,  16, 255, 243, 210,
    224,  50,  58,  10,  73,   6,  36,  92, 194, 211, 172,  98, 145, 149, 228, 121,
    231, 200,  55, 109, 141, 213,  78, 169, 108,  86, 244, 234, 101, 122, 174,   8,
    225, 248, 152,  17, 105, 217, 142, 148, 155,  30, 135, 233, 206,  85,  40, 223,
    140, 161, 137,  13, 191, 230,  66, 104,  65, 153,  45,  15, 176,  84, 187,  22>>

Whitened(packet, i) ==
    packet[i] ^^ (packet[28] ^^ XorTable[((packet[9] % 4) * 32) + ((packet[28] + i - 1) % 32) + 1])

\* A mutant of ApplyWhitening: one byte too many.
ApplyWhiteningTo27(packet) ==
    SubSeq(packet, 1, 9)
      \o [k \in 1 .. 19 |-> Whitened(packet, 9 + k)] \o SubSeq(packet, 29, 31)

ApplyWhitening(packet) ==
    SubSeq(packet, 1, 9)
      \o [k \in 1 .. 18 |-> Whitened(packet, 9 + k)] \o SubSeq(packet, 28, 31)

\* The key is two random bytes, the transaction and a fixed tail.
Signed(packet) ==
    LET signature == Signature(<<packet[28], packet[29], packet[11]>>, SubSeq(packet, 9, 24))
    IN  IF signature = 0 THEN 65535 ELSE signature

Packet(bytes, key2, rand16) ==
    <<2, 1, 2, 27, 3, 240, 8, 48, 130, 0, key2, 0, 1>>
      \o Profile.target
      \o <<0, Low(bytes.number), High(bytes.number)>> \o bytes.p4
      \o <<0, 0, 0, Low(rand16), High(rand16), 0, 0>>

\* lampsmart_f008_build_adv31
F008(bytes, key2, rand16) ==
    LET packet == Packet(bytes, key2, rand16)
        white == ApplyWhitening([packet EXCEPT ![25] = Low(Signed(packet)),
                                               ![26] = High(Signed(packet))])
        crc == Crc(white, 7, 22, Complement16(rand16))
    IN  [white EXCEPT ![30] = Low(crc), ![31] = High(crc)]

-----------------------------------------------------------------------------
(* 77F8 *)

\* bit_reverse_byte
BitReverse == [b \in 0 .. 255 |->
    FoldLeft(LAMBDA r, bit : 2 * r + BitOf(b, bit), 0, <<0, 1, 2, 3, 4, 5, 6, 7>>)]

\* ble_whitening, by tables: the register eight bits later, and what has left it,
\* the first bit lowest; the register before byte i; the mask of each byte.
ShiftLfsr(register) ==
    LET shifted == ((2 * register) % 256) + BitOf(register, 6)
    IN  IF BitOf(register, 6) = 1 THEN shifted ^^ 16 ELSE shifted
NextLfsr == [register \in 0 .. 255 |-> EightTimes(ShiftLfsr, register)]
LfsrByte == [register \in 0 .. 255 |->
    FoldLeft(LAMBDA acc, bit : <<ShiftLfsr(acc[1]), acc[2] + BitOf(acc[1], 6) * 2 ^ bit>>,
             <<register, 0>>, <<0, 1, 2, 3, 4, 5, 6, 7>>)[2]]
Lfsr[i \in 0 .. 38] == IF i = 0 THEN 83 ELSE NextLfsr[Lfsr[i - 1]]
Mask == [i \in 0 .. 38 |-> LfsrByte[Lfsr[i]]]

\* whitening_for_rf_packet: the 13 bytes before the payload are on the air too.
WhitenedForRf(payload) == << >> \o [i \in 1 .. 26 |-> payload[i] ^^ Mask[12 + i]]

Logical(bytes, seq, rand) ==
    <<IF BitOf(DeviceAddress[1], 7) = 1 THEN 170 ELSE 85>> \o DeviceAddress
      \o <<DeviceAddress[5], DeviceAddress[5], bytes.number>> \o Address2 \o bytes.p2
      \o <<bytes.param4, Low(seq), 0, Low(Profile.device_src) ^^ rand, High(seq) ^^ rand, 0, rand>>

\* A mutant of Crc2: the address is left out of the second checksum.
Crc2Unseeded(logical) == Crc(logical, 8, 14, 65535)

\* The second checksum covers the address, and the first one.
Crc2(logical) == Crc(logical, 8, 14, Crc(logical, 1, 5, 65535))

\* build_payload26
Payload26(bytes, seq, rand) ==
    LET fields == Logical(bytes, seq, rand)
        crc1 == Crc(fields, 8, 12, Complement16(rand))
        once == fields \o <<High(crc1), Low(crc1)>>
        logical == once \o <<High(Crc2(once)), Low(Crc2(once))>>
    IN  WhitenedForRf(<<0, 0>> \o [i \in 1 .. 24 |-> BitReverse[logical[i]]])

\* lampsmart_77f8_build_adv31
Adv77(bytes, seq, rand) == <<2, 1, 1, 27, 3>> \o Payload26(bytes, seq, rand)

-----------------------------------------------------------------------------
(* The frames that are sent, and the lamps *)

Draws == [command : Commands, turn : Turns, random : Randoms]

Send == sent' \in Draws

SentF008 == F008(Build(sent.command), Key2(sent.turn), sent.random.f008)
Sent77 == Adv77(Build(sent.command), Seq77(sent.turn), sent.random.uuid77)

Kind(number) == CASE number = 16 -> "on" [] number = 17 -> "off" [] number = 35 -> "night"
                  [] number = 33 -> "dim" [] number = 65 -> "timer" [] number = 40 -> "pair"
                  [] OTHER -> "unknown"

Word(low, high) == low + 256 * high

\* What a lamp of each variant makes of an advertisement; "value" is the channels
\* or the minutes.
ReadF008(adv) ==
    LET plain == ApplyWhitening(adv)
        rand16 == Word(adv[28], adv[29])
        kind == Kind(Word(plain[19], plain[20]))
    IN  [intact |-> /\ Word(adv[30], adv[31]) = Crc(adv, 7, 22, Complement16(rand16))
                    /\ Word(plain[25], plain[26]) = Signed(plain),
         mine |-> SubSeq(plain, 14, 17) = Profile.target,
         turn |-> plain[11], kind |-> kind,
         value |-> IF kind = "dim" THEN <<plain[23], plain[24]>>
                   ELSE IF kind = "timer" THEN <<Word(plain[22], plain[23])>> ELSE << >>]

Read77(adv) ==
    LET raw == WhitenedForRf(SubSeq(adv, 6, 31))
        logical == << >> \o [i \in 1 .. 24 |-> BitReverse[raw[i + 2]]]
        kind == Kind(logical[9])
        rand == logical[20]
    IN  [intact |-> /\ Word(logical[22], logical[21]) = Crc(logical, 8, 12, Complement16(rand))
                    /\ Word(logical[24], logical[23])
                         = Crc(logical, 8, 14, Crc(logical, 1, 5, 65535)),
         mine |-> SubSeq(logical, 2, 6) = DeviceAddress /\ SubSeq(logical, 10, 11) = Address2,
         turn |-> Word(logical[15], logical[18] ^^ rand), kind |-> kind,
         value |-> IF kind = "dim" THEN <<logical[12], logical[13]>>
                   ELSE IF kind = "timer" THEN <<logical[12]>> ELSE << >>]

-----------------------------------------------------------------------------
(* Properties *)

\* The frames are 31 bytes: no value outgrows its byte.
FramesFit == \A frame \in {SentF008, Sent77} :
               Len(frame) = 31 /\ \A i \in 1 .. 31 : frame[i] \in 0 .. 255

\* A lamp of the F008 kind finds the frame intact, for itself, and what was asked,
\* whatever the random numbers whiten and sign it with; nothing but "off" turns it
\* dark, the lowest brightness and colour temperature included, and no value of
\* either frame outgrows its byte.
Understood ==
    LET read == ReadF008(SentF008)
        asked == sent.command
    IN  /\ FramesFit
        /\ read.intact /\ read.mine /\ read.turn = (32 + sent.turn) % 256
        /\ read.kind = IF asked.kind \in {"bright", "colortmp"} THEN "dim" ELSE asked.kind
        /\ asked.kind = "timer" => read.value = <<asked.amount>>
        /\ read.kind = "dim" => \E i \in 1 .. 2 : read.value[i] >= 3

\* A lamp of the 77F8 kind understands the same; of a timer it gets the minutes
\* modulo 256, so that the two lamps differ from 256 minutes on, which
\* mqtt_protocol.c accepts up to 720.
VariantsAgree ==
    LET read == Read77(Sent77)
        other == ReadF008(SentF008)
    IN  /\ read.intact /\ read.mine /\ read.turn = (1 + sent.turn) % 65536
        /\ read.kind = other.kind
        /\ read.value = IF read.kind = "timer" THEN <<other.value[1] % 256>> ELSE other.value
=============================================================================
