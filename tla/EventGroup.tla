----------------------------- MODULE EventGroup -----------------------------
(***************************************************************************)
(* The event group of compat/src/freertos_shim.c: a set of bits under a    *)
(* mutex, and a condition variable on which xEventGroupWaitBits sleeps.    *)
(* Everything a call does under the mutex is one action; only the sleep of *)
(* pthread_cond_timedwait divides a call.  Any thread makes any call;      *)
(* what a call returns, and xEventGroupGetBits, which only returns, do not *)
(* change the group.                                                       *)
(***************************************************************************)
EXTENDS FiniteSets

CONSTANTS Threads, Bits

VARIABLES bits,    \* g->bits
          call,    \* of each thread: the wait it is in, or NoWait
          asleep,  \* the threads in pthread_cond_timedwait
          woken    \* the sleeping threads that have been broadcast to

vars == <<bits, call, asleep, woken>>

\* The arguments of xEventGroupWaitBits; portMAX_DELAY is "forever".
Waits == [for : (SUBSET Bits) \ {{}}, need : {"any", "all"}, exit : {"keep", "clear"},
          ticks : {"zero", "some", "forever"}]
NoWait == [for |-> {}, need |-> "any", exit |-> "keep", ticks |-> "zero"]

\* xEventGroupCreate
Init == /\ bits = {} /\ call = [t \in Threads |-> NoWait]
        /\ asleep = {} /\ woken = {}

-----------------------------------------------------------------------------
\* The wake-ups of pthread_cond_broadcast.
Broadcast == woken' = asleep

\* A mutant of SetBits: pthread_cond_signal, to one waiting thread only.
SetBitsSignalling(t, some) ==
    /\ t \notin asleep
    /\ bits' = bits \cup some
    /\ IF asleep \subseteq woken THEN UNCHANGED woken
       ELSE \E s \in asleep \ woken : woken' = woken \cup {s}
    /\ UNCHANGED <<call, asleep>>

SetBits(t, some) == /\ t \notin asleep
                    /\ bits' = bits \cup some
                    /\ Broadcast
                    /\ UNCHANGED <<call, asleep>>

ClearBits(t, some) == /\ t \notin asleep
                      /\ bits' = bits \ some
                      /\ UNCHANGED <<call, asleep, woken>>

Satisfied(wait) == IF wait.need = "all" THEN wait.for \subseteq bits
                   ELSE wait.for \cap bits # {}

\* The wait returns the bits as they were before it cleared any.
Return(t, wait) == /\ bits' = IF Satisfied(wait) /\ wait.exit = "clear" THEN bits \ wait.for ELSE bits
                   /\ call' = [call EXCEPT ![t] = NoWait]
                   /\ asleep' = asleep \ {t} /\ woken' = woken \ {t}

Sleep(t, wait) == /\ call' = [call EXCEPT ![t] = wait]
                  /\ asleep' = asleep \cup {t} /\ woken' = woken \ {t}
                  /\ UNCHANGED bits

\* A turn of the loop: no time to wait, or for ever, is not to wait at all.
Turn(t, wait) == IF Satisfied(wait) \/ wait.ticks # "some" THEN Return(t, wait)
                 ELSE Sleep(t, wait)

WaitBits(t, wait) == t \notin asleep /\ Turn(t, wait)

\* A broadcast, or a spurious wake-up: the bits are tested again.
Wake(t) == t \in asleep /\ Turn(t, call[t])

\* The deadline: the bits are returned as they are, and nothing is cleared.
Expire(t) == /\ t \in asleep
             /\ call' = [call EXCEPT ![t] = NoWait]
             /\ asleep' = asleep \ {t} /\ woken' = woken \ {t}
             /\ UNCHANGED bits

Next == \E t \in Threads :
          \/ \E some \in (SUBSET Bits) \ {{}} : SetBits(t, some) \/ ClearBits(t, some)
          \/ \E wait \in Waits : WaitBits(t, wait)
          \/ Wake(t) \/ Expire(t)

Spec == Init /\ [][Next]_vars

-----------------------------------------------------------------------------
(* Properties *)

\* The types of the variables: a sleeping thread has a wait with a deadline.
TypeOK == /\ bits \subseteq Bits /\ asleep \subseteq Threads /\ woken \subseteq asleep
          /\ call \in [Threads -> Waits \cup {NoWait}]
          /\ \A t \in asleep : call[t] \in Waits /\ call[t].ticks = "some"

\* No set is missed: a thread that sleeps and has not been woken waits for
\* something the bits do not hold, whichever threads set, clear and take bits.
NoMissedSet == \A t \in asleep \ woken : ~Satisfied(call[t])
=============================================================================
