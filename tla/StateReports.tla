---------------------------- MODULE StateReports ----------------------------
(***************************************************************************)
(* What the program promises the broker (and Alexa behind it) about the    *)
(* devices.  A change of a device is reported in the step that makes it,   *)
(* or it is silent, and then nothing else is reported before it is; only   *)
(* what time does to a device need not be reported at all.  The reports of *)
(* a device tell the state it is in at that moment, reach the broker in    *)
(* their order and during a session only, and are discarded only if the    *)
(* channel is at its limit, or with the session whose end found them.      *)
(* Replies to the senders of messages share the channel.                   *)
(***************************************************************************)
EXTENDS Naturals, Sequences

CONSTANTS Devices,
          States,   \* what a report may tell of a device
          Replies,  \* publications that are not about a device
          Lapses,   \* what time does, as [device, before, after]
          Capacity, \* the reports the channel always has room for
          Unknown   \* what the broker knows of a device before the first report

VARIABLES state,    \* the state of each device
          silent,   \* the devices whose last change is yet to be reported
          channel,  \* reports and replies on their way, oldest first
          up,       \* whether there is a session
          view      \* what the broker knows of each device

vars == <<state, silent, channel, up, view>>

Init == /\ state \in [Devices -> States]
        /\ silent = {}
        /\ channel = << >>
        /\ up = FALSE
        /\ view = [d \in Devices |-> Unknown]

\* What is sent joins the channel, or is discarded if the channel is at its limit.
Send(publication) ==
    \/ Len(channel) <= Capacity /\ channel' = Append(channel, publication)
    \/ Len(channel) >= Capacity /\ UNCHANGED channel

Changes(d) == /\ state' = [state EXCEPT ![d] = state'[d]]
              /\ state'[d] \in States

\* The new state of d, or the one it has, is reported.
Report(d) == /\ silent \subseteq {d} /\ silent' = {}
             /\ UNCHANGED <<up, view>>
             /\ Send([device |-> d, state |-> state'[d]])
             /\ Changes(d)

ChangeSilently(d) == /\ silent = {} /\ silent' = {d}
                     /\ UNCHANGED <<channel, up, view>>
                     /\ Changes(d)

Lapse == /\ UNCHANGED <<silent, channel, up, view>>
         /\ \E l \in Lapses : /\ state[l.device] = l.before
                             /\ state' = [state EXCEPT ![l.device] = l.after]

SendReply == /\ \E reply \in Replies : Send(reply)
             /\ UNCHANGED <<state, silent, up, view>>

\* The oldest publication reaches the broker, or its recipient.
Arrives == LET oldest == Head(channel)
           IN  IF oldest.device \in Devices
               THEN view' = [view EXCEPT ![oldest.device] = oldest.state]
               ELSE UNCHANGED view

Arrive == /\ up /\ channel # << >>
          /\ channel' = Tail(channel)
          /\ Arrives
          /\ UNCHANGED <<state, silent, up>>

SessionBegins == /\ ~up /\ up' = TRUE
                 /\ UNCHANGED <<state, silent, channel, view>>

\* The end of a session may take the oldest publication along, and nobody knows
\* whether it has arrived.
SessionEnds == /\ up /\ up' = FALSE
               /\ \/ UNCHANGED <<channel, view>>
                  \/ /\ channel # << >> /\ channel' = Tail(channel)
                     /\ Arrives \/ UNCHANGED view
               /\ UNCHANGED <<state, silent>>

\* An attempt at a session that ends throws away what is left.
Discard == /\ ~up
           /\ channel' = << >>
           /\ UNCHANGED <<state, silent, up, view>>

Next == \/ SendReply \/ Arrive \/ SessionBegins \/ SessionEnds \/ Discard \/ Lapse
        \/ \E d \in Devices : ChangeSilently(d) \/ Report(d)

Spec == Init /\ [][Next]_vars
=============================================================================
