-------------------------- MODULE QueueDiscipline --------------------------
(***************************************************************************)
(* How the program uses its queues (app_resources.c and the tasks): one    *)
(* consumer receives (device_worker_main waits, run_session does not) and  *)
(* resets, and everyone else sends without waiting.  Without a consumer    *)
(* any thread makes any call.                                              *)
(***************************************************************************)
EXTENDS FreertosQueue

VARIABLE consumer  \* the one consumer, or Free if there is no discipline

TaskUses(t) == IF t = consumer THEN {c \in Calls : c.op # "send"}
               ELSE {c \in Calls : c.op = "send" /\ ~c.patient}

UseInit == Init /\ consumer \in Threads \cup {Free}
UseNext == /\ Next
           /\ consumer = Free \/ \A t \in Threads : call'[t] \in TaskUses(t) \cup {NoCall}
           /\ UNCHANGED consumer
UseSpec == UseInit /\ [][UseNext]_<<vars, consumer>>

-----------------------------------------------------------------------------
(* Properties *)

\* No wakeup is lost to the queues' one consumer: with the mutex free, it does
\* not sleep on a queue that holds more items than receivers on their way.
\* Several receivers could have a signal consumed by one of them that times out
\* (and returns without looking at count again) while another sleeps on.
NoLostWakeupToConsumer == consumer # Free => NoLostWakeup
=============================================================================
