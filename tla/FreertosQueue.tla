--------------------------- MODULE FreertosQueue ---------------------------
(***************************************************************************)
(* The queue of compat/src/freertos_shim.c: a ring buffer under a pthread  *)
(* mutex, with two condition variables.  A thread's call is cut into the   *)
(* steps between which another thread can run or observe it: taking the    *)
(* mutex, testing count, copying the item, moving the indices and leaving, *)
(* sleeping on a condition variable, being woken (by a signal, a broadcast *)
(* or spuriously) and missing the deadline.  The waiters of not_full are   *)
(* the sleeping senders, those of not_empty the sleeping receivers.        *)
(***************************************************************************)
EXTENDS Naturals, Sequences, FiniteSets

CONSTANTS Threads, Items, Capacity, NoItem, Free,
          Uses       \* Uses[t]: the calls thread t makes

\* xQueueCreate is called with positive lengths (APP_DEVICE_QUEUE_LENGTH,
\* APP_PUBLISH_QUEUE_LENGTH); NoItem and Free are mere markers.
ASSUME QueueAssumption == /\ Capacity \in Nat \ {0}
                          /\ NoItem \notin Items
                          /\ Free \notin Threads

NoCall == [op |-> "none", item |-> NoItem, patient |-> FALSE]
Calls == [op : {"send"}, item : Items, patient : BOOLEAN]
           \cup [op : {"receive"}, item : {NoItem}, patient : BOOLEAN]
           \cup [op : {"reset"}, item : {NoItem}, patient : {FALSE}]

ASSUME UsesAssumption == Uses \in [Threads -> SUBSET Calls]

VARIABLES call, ret,               \* as in BoundedFifo
          pc,                      \* pc[t]: where t is inside its call
          lock,                    \* q->lock: its holder, or Free
          storage, head, count,    \* q->storage, q->head, q->count
          buf                      \* buf[t]: the caller's out_item

vars == <<call, ret, pc, lock, storage, head, count, buf>>

Slots == 0 .. Capacity - 1
NoReturn == [ok |-> FALSE, item |-> NoItem]

Init == /\ call = [t \in Threads |-> NoCall]
        /\ ret = [t \in Threads |-> NoReturn]
        /\ pc = [t \in Threads |-> "idle"]
        /\ lock = Free
        /\ storage = [i \in Slots |-> NoItem]
        /\ head = 0
        /\ count = 0
        /\ buf = [t \in Threads |-> NoItem]

Goto(t, label) == pc' = [pc EXCEPT ![t] = label]

\* pthread_mutex_unlock and return to the caller.
Leave(t, ok, item) ==
    /\ lock' = Free
    /\ call' = [call EXCEPT ![t] = NoCall]
    /\ ret' = [ret EXCEPT ![t] = [ok |-> ok, item |-> item]]

At(label, op) == {u \in Threads : pc[u] = label /\ call[u].op = op}
Sleepers(op) == At("asleep", op)

\* pthread_cond_signal by t, which is leaving: one sleeper, if any, is woken.
\* POSIX lets a waiter whose deadline has passed consume the signal instead.
LeaveSignalling(t, op) ==
    \/ /\ Sleepers(op) = {} \/ At("expired", op) # {}
       /\ Goto(t, "idle")
    \/ \E u \in Sleepers(op) : pc' = [pc EXCEPT ![t] = "idle", ![u] = "woken"]

\* pthread_cond_broadcast by t, which is leaving.
LeaveBroadcasting(t, op) ==
    pc' = [u \in Threads |-> IF u = t THEN "idle"
                             ELSE IF u \in Sleepers(op) THEN "woken" ELSE pc[u]]

Invoke(t, c) == /\ call[t] = NoCall
                /\ call' = [call EXCEPT ![t] = c]
                /\ ret' = [ret EXCEPT ![t] = NoReturn]
                /\ Goto(t, "enter")
                /\ UNCHANGED <<lock, storage, head, count, buf>>

\* The first pthread_mutex_lock, and the one inside pthread_cond_timedwait.
Lock(t) == /\ pc[t] \in {"enter", "woken"}
           /\ lock = Free
           /\ lock' = t
           /\ Goto(t, "locked")
           /\ UNCHANGED <<call, ret, storage, head, count, buf>>

\* The loop test "while (q->count == ...)" of xQueueSend and xQueueReceive.
Blocked(t) == \/ call[t].op = "send" /\ count = Capacity
              \/ call[t].op = "receive" /\ count = 0

Refuse(t) == /\ pc[t] = "locked" /\ Blocked(t) /\ ~call[t].patient
             /\ Leave(t, FALSE, NoItem)
             /\ Goto(t, "idle")
             /\ UNCHANGED <<storage, head, count, buf>>

\* pthread_cond_timedwait gives up the mutex and sleeps.
Sleep(t) == /\ pc[t] = "locked" /\ Blocked(t) /\ call[t].patient
            /\ lock' = Free
            /\ Goto(t, "asleep")
            /\ UNCHANGED <<call, ret, storage, head, count, buf>>

\* POSIX allows a condition variable to wake a thread for no reason.
SpuriousWakeup(t) == /\ pc[t] = "asleep"
                     /\ Goto(t, "woken")
                     /\ UNCHANGED <<call, ret, lock, storage, head, count, buf>>

\* The deadline passes: rc # 0 once the mutex has been taken back.
Expire(t) == /\ pc[t] = "asleep"
             /\ Goto(t, "expired")
             /\ UNCHANGED <<call, ret, lock, storage, head, count, buf>>

GiveUp(t) == /\ pc[t] = "expired" /\ lock = Free
             /\ Leave(t, FALSE, NoItem)
             /\ Goto(t, "idle")
             /\ UNCHANGED <<storage, head, count, buf>>

SlotAt(i) == (head + i) % Capacity

\* A mutant of Store: the item goes where it would if head were 0.
StoreIgnoringHead(t) ==
    /\ pc[t] = "locked" /\ call[t].op = "send" /\ ~Blocked(t)
    /\ storage' = [storage EXCEPT ![count] = call[t].item]
    /\ Goto(t, "stored")
    /\ UNCHANGED <<call, ret, lock, head, count, buf>>

\* memcpy of the item into the slot behind the last one.
Store(t) == /\ pc[t] = "locked" /\ call[t].op = "send" /\ ~Blocked(t)
            /\ storage' = [storage EXCEPT ![SlotAt(count)] = call[t].item]
            /\ Goto(t, "stored")
            /\ UNCHANGED <<call, ret, lock, head, count, buf>>

\* A mutant of CommitSend: it signals the wrong condition variable.
CommitSendSignallingSenders(t) ==
    /\ pc[t] = "stored"
    /\ count' = count + 1
    /\ Leave(t, TRUE, NoItem)
    /\ LeaveSignalling(t, "send")
    /\ UNCHANGED <<storage, head, buf>>

CommitSend(t) == /\ pc[t] = "stored"
                 /\ count' = count + 1
                 /\ Leave(t, TRUE, NoItem)
                 /\ LeaveSignalling(t, "receive")
                 /\ UNCHANGED <<storage, head, buf>>

\* memcpy of the oldest item to the caller.
Copy(t) == /\ pc[t] = "locked" /\ call[t].op = "receive" /\ ~Blocked(t)
           /\ buf' = [buf EXCEPT ![t] = storage[head]]
           /\ Goto(t, "copied")
           /\ UNCHANGED <<call, ret, lock, storage, head, count>>

CommitReceive(t) == /\ pc[t] = "copied"
                    /\ head' = SlotAt(1)
                    /\ count' = count - 1
                    /\ Leave(t, TRUE, buf[t])
                    /\ LeaveSignalling(t, "send")
                    /\ buf' = [buf EXCEPT ![t] = NoItem]
                    /\ UNCHANGED storage

ResetQueue(t) == /\ pc[t] = "locked" /\ call[t].op = "reset"
                 /\ count' = 0
                 /\ head' = 0
                 /\ Leave(t, TRUE, NoItem)
                 /\ LeaveBroadcasting(t, "send")
                 /\ UNCHANGED <<storage, buf>>

Step(t) == \/ \E c \in Uses[t] : Invoke(t, c)
           \/ Lock(t) \/ Refuse(t) \/ Sleep(t) \/ SpuriousWakeup(t)
           \/ Expire(t) \/ GiveUp(t) \/ Store(t) \/ CommitSend(t)
           \/ Copy(t) \/ CommitReceive(t) \/ ResetQueue(t)

Next == \E t \in Threads : Step(t)

Spec == Init /\ [][Next]_vars
-----------------------------------------------------------------------------
(***************************************************************************)
(* Properties                                                              *)
(***************************************************************************)

Labels == {"idle", "enter", "locked", "stored", "copied", "asleep", "woken",
           "expired"}
Critical == {"locked", "stored", "copied"}

\* Every variable keeps its type; in particular the indices stay inside
\* storage and the count inside the capacity.
TypeOK == /\ call \in [Threads -> Calls \cup {NoCall}]
          /\ ret \in [Threads -> [ok : BOOLEAN, item : Items \cup {NoItem}]]
          /\ pc \in [Threads -> Labels]
          /\ lock \in Threads \cup {Free}
          /\ storage \in [Slots -> Items \cup {NoItem}]
          /\ head \in Slots
          /\ count \in 0 .. Capacity
          /\ buf \in [Threads -> Items \cup {NoItem}]

\* The ring read as a sequence, oldest item first.
Contents == [i \in 1 .. count |-> storage[SlotAt(i - 1)]]

Fifo == INSTANCE BoundedFifo WITH fifo <- Contents

\* The pthread queue implements the queue its callers are promised: items
\* come out once, in the order they went in, whatever the interleaving of
\* xQueueSend, xQueueReceive and xQueueReset, and a call that does not wait
\* fails only on a queue that is full (or empty) at that instant.
RefinesFifo == Fifo!Spec

\* Whenever the mutex is free, a receiver still asleep on not_empty means that
\* every stored item has a woken receiver on its way to it (see QueueDiscipline).
NoLostWakeup ==
    lock = Free /\ Sleepers("receive") # {} =>
        count <= Cardinality(At("woken", "receive"))
=============================================================================
