---------------------------- MODULE MCLampSmart ----------------------------
(***************************************************************************)
(* The light command for TLC: LampSmart, the schedule of its               *)
(* advertisements, and LampFrames, their bytes.  The schedule does not     *)
(* depend on the bytes: it is explored with those of the first command,    *)
(* and the bytes of every command before anything is sent.                 *)
(*                                                                         *)
(* Every brightness, colour temperatures on both sides of the middle at    *)
(* several brightnesses, the timers around each byte boundary and the ends *)
(* of the range.                                                           *)
(***************************************************************************)
EXTENDS LampSmart, LampFrames

\* send_mode is LAMPSMART_SEND_MODE_COMPAT from lampsmart_init_from_uuid on.
MCVariants == <<"F008", "77F8">>

Command(kind, level, amount) == [kind |-> kind, level |-> level, amount |-> amount]
MCCommands ==
    {Command(kind, 0, 0) : kind \in {"on", "off", "night", "pair"}}
      \cup {Command("bright", level, 0) : level \in 0 .. 100}
      \cup {Command("colortmp", level, position) :
              level \in {0, 1, 50, 99, 100}, position \in {0, 1, 25, 49, 50, 51, 75, 99, 100}}
      \cup {Command("timer", 0, minutes) :
              minutes \in {1, 60, 127, 128, 255, 256, 257, 511, 512, 720}}

\* The first command, and both sides of the wrap of either counter.
MCTurns == {0, 223, 224, 65534, 65535}
MCRandoms == {[f008 |-> 11091, uuid77 |-> 83], [f008 |-> 1, uuid77 |-> 255],
              [f008 |-> 65535, uuid77 |-> 128]}

\* A mix of key and block that stands for the cipher, zero included.
MCSignature(key, block) ==
    (key[1] * 7 + key[2] * 31 + key[3] + FoldLeft(+, 0, block)) % 65536

\* CONFIG_ALEXA_LAMPSMART_UUID in the form of lampsmart_init_default.
MCProfile == [target |-> <<109, 91, 23, 147>>, device_src |-> 4800]

First == [command |-> Command("on", 0, 0), turn |-> 0,
          random |-> [f008 |-> 11091, uuid77 |-> 83]]
MCInit == LampInit /\ sent = First
MCNext == \/ sent = First /\ LampNext /\ UNCHANGED sent
          \/ sent = First /\ LampInit /\ opened /\ Send /\ UNCHANGED lampVars
          \/ sent # First /\ sent' = First /\ UNCHANGED lampVars
MCSpec == MCInit /\ [][MCNext]_<<lampVars, sent>>
=============================================================================
