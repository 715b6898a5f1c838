---------------------------- MODULE BoundedFifo ----------------------------
(***************************************************************************)
(* What freertos/queue.h promises the tasks that share a queue: a bounded  *)
(* first-in first-out buffer whose operations take effect at one instant   *)
(* between the call and its return.  app_resources.c builds the device and *)
(* the publish queue on this promise; FreertosQueue shows that the pthread *)
(* implementation of compat/src/freertos_shim.c keeps it.                  *)
(*                                                                         *)
(* A call with ticks_to_wait > 0 is "patient": it may also fail because    *)
(* its deadline passed.  A call with ticks_to_wait = 0 may fail only when  *)
(* the queue is full (send) or empty (receive) at that very instant.       *)
(***************************************************************************)
EXTENDS Naturals, Sequences

CONSTANTS Threads,   \* the tasks that use the queue
          Items,     \* what can be stored
          Capacity,  \* queue_length of xQueueCreate
          NoItem     \* "no item": not a member of Items

VARIABLES fifo,      \* the items, oldest first
          call,      \* call[t]: the call thread t is inside of, or NoCall
          ret        \* ret[t]: what the last call of t returned

vars == <<fifo, call, ret>>

NoCall == [op |-> "none", item |-> NoItem, patient |-> FALSE]

Calls == [op : {"send"}, item : Items, patient : BOOLEAN]
           \cup [op : {"receive"}, item : {NoItem}, patient : BOOLEAN]
           \cup [op : {"reset"}, item : {NoItem}, patient : {FALSE}]

NoReturn == [ok |-> FALSE, item |-> NoItem]

Init == /\ fifo = << >>
        /\ call = [t \in Threads |-> NoCall]
        /\ ret = [t \in Threads |-> NoReturn]

Invoke(t, c) == /\ call[t] = NoCall
                /\ call' = [call EXCEPT ![t] = c]
                /\ ret' = [ret EXCEPT ![t] = NoReturn]
                /\ UNCHANGED fifo

Return(t, ok, item) ==
    /\ call' = [call EXCEPT ![t] = NoCall]
    /\ ret' = [ret EXCEPT ![t] = [ok |-> ok, item |-> item]]

Send(t) == /\ call[t].op = "send"
           /\ Len(fifo) < Capacity
           /\ fifo' = Append(fifo, call[t].item)
           /\ Return(t, TRUE, NoItem)

Receive(t) == /\ call[t].op = "receive"
              /\ fifo # << >>
              /\ fifo' = Tail(fifo)
              /\ Return(t, TRUE, Head(fifo))

Reset(t) == /\ call[t].op = "reset"
            /\ fifo' = << >>
            /\ Return(t, TRUE, NoItem)

\* pdFALSE: the queue cannot serve the call now, or a patient call gave up.
Refuse(t) == /\ \/ call[t].op = "send" /\ (call[t].patient \/ Len(fifo) = Capacity)
                \/ call[t].op = "receive" /\ (call[t].patient \/ fifo = << >>)
             /\ Return(t, FALSE, NoItem)
             /\ UNCHANGED fifo

Next == \E t \in Threads :
            \/ \E c \in Calls : Invoke(t, c)
            \/ Send(t) \/ Receive(t) \/ Reset(t) \/ Refuse(t)

Spec == Init /\ [][Next]_vars
=============================================================================
