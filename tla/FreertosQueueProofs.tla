------------------------ MODULE FreertosQueueProofs ------------------------
(***************************************************************************)
(* The queue of freertos_shim.c implements the bounded FIFO of             *)
(* BoundedFifo, for every number of threads, every item type and every     *)
(* capacity.  The inductive invariant Inv adds to the types what a thread  *)
(* may rely on at each label: who holds the mutex, and what it has already *)
(* written or read under it.                                               *)
(***************************************************************************)
EXTENDS QueueDiscipline, SequenceTheorems, FiniteSetTheorems, TLAPS

\* A thread is inside a call exactly when it has left "idle".
CallInv == \A t \in Threads : pc[t] = "idle" <=> call[t] = NoCall

\* The mutex excludes: the critical labels are those of its holder.
LockInv == \A t \in Threads : pc[t] \in Critical <=> lock = t

\* Only patient calls sleep.
WaitInv == \A t \in Threads :
    pc[t] \in {"asleep", "woken", "expired"} =>
        call[t].op \in {"send", "receive"} /\ call[t].patient

\* The copies made under the mutex are still right when the indices move.
CopyInv == \A t \in Threads :
    /\ pc[t] = "stored" => /\ call[t].op = "send"
                           /\ count < Capacity
                           /\ storage[SlotAt(count)] = call[t].item
    /\ pc[t] = "copied" => /\ call[t].op = "receive"
                           /\ count > 0
                           /\ buf[t] = storage[head]

\* The slots that hold an item hold an item.
ItemInv == \A i \in 0 .. count - 1 : storage[SlotAt(i)] \in Items

Inv == TypeOK /\ CallInv /\ LockInv /\ WaitInv /\ CopyInv /\ ItemInv

-----------------------------------------------------------------------------
(* Arithmetic of the ring *)

\* The slot SlotAt names, without the modulo: head + i wraps at most once.
LEMMA SlotValue ==
  ASSUME NEW h \in Slots, NEW i \in 0 .. Capacity
  PROVE  (h + i) % Capacity = IF h + i < Capacity THEN h + i
                                                  ELSE h + i - Capacity
<1> Capacity \in Nat \ {0}
  BY QueueAssumption
<1>1. CASE h + i < Capacity
  BY <1>1 DEF Slots
<1>2. CASE h + i >= Capacity
  BY <1>2 DEF Slots
<1> QED
  BY <1>1, <1>2 DEF Slots

\* A slot index is an index of storage.
LEMMA SlotInRange ==
  ASSUME NEW h \in Slots, NEW i \in 0 .. Capacity
  PROVE  (h + i) % Capacity \in Slots
BY SlotValue, QueueAssumption DEF Slots

\* Two positions of the ring are two slots.
LEMMA SlotsDiffer ==
  ASSUME NEW h \in Slots, NEW i \in Slots, NEW j \in Slots, i # j
  PROVE  (h + i) % Capacity # (h + j) % Capacity
<1> Capacity \in Nat \ {0}
  BY QueueAssumption
<1> i \in 0 .. Capacity /\ j \in 0 .. Capacity
  BY DEF Slots
<1>1. (h + i) % Capacity = IF h + i < Capacity THEN h + i ELSE h + i - Capacity
  BY SlotValue
<1>2. (h + j) % Capacity = IF h + j < Capacity THEN h + j ELSE h + j - Capacity
  BY SlotValue
<1> HIDE DEF Slots
<1> QED
  BY <1>1, <1>2 DEF Slots

\* Moving head by one renames position i + 1 to position i.
LEMMA SlotShift ==
  ASSUME NEW h \in Slots, NEW i \in Slots
  PROVE  (((h + 1) % Capacity) + i) % Capacity = (h + (i + 1)) % Capacity
<1> Capacity \in Nat \ {0}
  BY QueueAssumption
<1> 1 \in 0 .. Capacity /\ i + 1 \in 0 .. Capacity /\ i \in 0 .. Capacity
  BY DEF Slots
<1>1. (h + 1) % Capacity = IF h + 1 < Capacity THEN h + 1 ELSE h + 1 - Capacity
  BY SlotValue
<1>2. (h + (i + 1)) % Capacity = IF h + (i + 1) < Capacity THEN h + (i + 1)
                                 ELSE h + (i + 1) - Capacity
  BY SlotValue
<1>3. (h + 1) % Capacity \in Slots
  BY SlotInRange
<1>4. (((h + 1) % Capacity) + i) % Capacity =
         IF ((h + 1) % Capacity) + i < Capacity THEN ((h + 1) % Capacity) + i
         ELSE ((h + 1) % Capacity) + i - Capacity
  BY <1>3, SlotValue
<1> QED
  BY <1>1, <1>2, <1>4 DEF Slots

-----------------------------------------------------------------------------
(* The inductive invariant *)

\* The calls are told apart by their op, and no call is the absence of one.
LEMMA CallFacts ==
  ASSUME NEW c \in Calls
  PROVE  /\ c # NoCall
         /\ c.op \in {"send", "receive", "reset"}
         /\ c.op = "send" => c.item \in Items
         /\ c.op # "send" => c.item = NoItem
<1>1. c.op \in {"send", "receive", "reset"}
  BY DEF Calls
<1>2. c # NoCall
  BY <1>1 DEF NoCall
<1>3. (c.op = "send" => c.item \in Items) /\ (c.op # "send" => c.item = NoItem)
  BY DEF Calls
<1> QED
  BY <1>1, <1>2, <1>3

\* What Inv says of one thread, its call and the mutex.
LEMMA ThreadFacts ==
  ASSUME Inv, NEW t \in Threads
  PROVE  /\ pc[t] # "idle" => call[t] \in Calls
         /\ pc[t] \in Critical => lock = t
         /\ lock = Free => pc[t] \notin Critical
         /\ \A u \in Threads : pc[t] \in Critical /\ pc[u] \in Critical => u = t
BY QueueAssumption DEF Inv, TypeOK, CallInv, LockInv

\* xQueueCreate, with no thread in a call, establishes the invariant.
THEOREM InvInit == Init => Inv
<1> SUFFICES ASSUME Init PROVE Inv
  OBVIOUS
<1>1. TypeOK
  BY QueueAssumption DEF Init, TypeOK, NoReturn, Labels, Slots
<1>2. CallInv /\ LockInv /\ WaitInv /\ CopyInv
  BY QueueAssumption DEF Init, CallInv, LockInv, WaitInv, CopyInv, Critical
<1>3. ItemInv
  BY DEF Init, ItemInv
<1> QED
  BY <1>1, <1>2, <1>3 DEF Inv

\* Steps that touch neither the ring nor the copies: they move one thread
\* between labels, none of them "stored" or "copied".
LEMMA ControlStep ==
  ASSUME Inv, NEW t \in Threads,
         \/ \E c \in Uses[t] : Invoke(t, c)
         \/ Lock(t) \/ Refuse(t) \/ Sleep(t) \/ SpuriousWakeup(t)
         \/ Expire(t) \/ GiveUp(t)
  PROVE  Inv'
<1> USE ThreadFacts DEF Inv, TypeOK
<1>0. UNCHANGED <<storage, head, count, buf>>
  BY DEF Invoke, Lock, Refuse, Sleep, SpuriousWakeup, Expire, GiveUp
<1>i. Uses[t] \subseteq Calls
  BY UsesAssumption
<1>r. NoReturn \in [ok : BOOLEAN, item : Items \cup {NoItem}]
  BY DEF NoReturn
<1>1. CASE \E c \in Uses[t] : Invoke(t, c)
  <2> PICK c \in Calls : Invoke(t, c)
    BY <1>1, <1>i
  <2> c # NoCall
    BY CallFacts
  <2>0. pc[t] = "idle"
    BY DEF Invoke, CallInv
  <2>1. TypeOK'
    BY <1>0, <1>r DEF Invoke, Goto, Labels
  <2>2. CallInv' /\ LockInv' /\ WaitInv'
    BY <2>0 DEF Invoke, Goto, CallInv, LockInv, WaitInv, Critical
  <2>3. CopyInv' /\ ItemInv'
    BY <1>0, <2>0 DEF Invoke, Goto, CopyInv, ItemInv, SlotAt
  <2> QED
    BY <2>1, <2>2, <2>3
<1>2. CASE Lock(t)
  <2>1. TypeOK'
    BY <1>0, <1>2 DEF Lock, Goto, Labels
  <2>2. CallInv' /\ WaitInv'
    BY <1>2 DEF Lock, Goto, CallInv, WaitInv
  <2>3. LockInv'
    BY <1>2, QueueAssumption DEF Lock, Goto, LockInv, Critical
  <2>4. CopyInv' /\ ItemInv'
    BY <1>0, <1>2 DEF Lock, Goto, CopyInv, ItemInv, SlotAt
  <2> QED
    BY <2>1, <2>2, <2>3, <2>4
<1>3. CASE Refuse(t) \/ GiveUp(t)
  <2>0. pc[t] \in {"locked", "expired"}
    BY <1>3 DEF Refuse, GiveUp
  <2>1. TypeOK'
    <3>1. /\ ret' = [ret EXCEPT ![t] = NoReturn]
          /\ call' = [call EXCEPT ![t] = NoCall]
          /\ lock' = Free
          /\ pc' = [pc EXCEPT ![t] = "idle"]
      BY <1>3 DEF Refuse, GiveUp, Leave, Goto, NoReturn
    <3> QED
      BY <1>0, <1>r, <3>1 DEF Labels
  <2>2. CallInv' /\ WaitInv'
    BY <1>3 DEF Refuse, GiveUp, Leave, Goto, CallInv, WaitInv
  <2>3. LockInv'
    BY <1>3, QueueAssumption DEF Refuse, GiveUp, Leave, Goto, LockInv, Critical
  <2>4. CopyInv' /\ ItemInv'
    BY <1>0, <1>3 DEF Refuse, GiveUp, Leave, Goto, CopyInv, ItemInv, SlotAt
  <2> QED
    BY <2>1, <2>2, <2>3, <2>4
<1>4. CASE Sleep(t)
  <2>1. TypeOK'
    BY <1>0, <1>4 DEF Sleep, Goto, Labels
  <2>2. CallInv' /\ WaitInv'
    BY <1>4 DEF Sleep, Blocked, Goto, CallInv, WaitInv
  <2>3. LockInv'
    BY <1>4, QueueAssumption DEF Sleep, Goto, LockInv, Critical
  <2>4. CopyInv' /\ ItemInv'
    BY <1>0, <1>4 DEF Sleep, Goto, CopyInv, ItemInv, SlotAt
  <2> QED
    BY <2>1, <2>2, <2>3, <2>4
<1>5. CASE SpuriousWakeup(t) \/ Expire(t)
  <2>1. TypeOK'
    BY <1>0, <1>5 DEF SpuriousWakeup, Expire, Goto, Labels
  <2>2. CallInv' /\ WaitInv' /\ LockInv'
    BY <1>5 DEF SpuriousWakeup, Expire, Goto, CallInv, WaitInv, LockInv, Critical
  <2>4. CopyInv' /\ ItemInv'
    BY <1>0, <1>5 DEF SpuriousWakeup, Expire, Goto, CopyInv, ItemInv, SlotAt
  <2> QED
    BY <2>1, <2>2, <2>4
<1> QED
  BY <1>1, <1>2, <1>3, <1>4, <1>5

\* A signal or a broadcast moves sleeping threads to "woken" and no other.
LEMMA WakeFacts ==
  ASSUME Inv, NEW t \in Threads, pc[t] \in Critical, NEW op,
         LeaveSignalling(t, op) \/ LeaveBroadcasting(t, op)
  PROVE  /\ pc' \in [Threads -> Labels]
         /\ pc'[t] = "idle"
         /\ \A u \in Threads \ {t} :
               \/ pc'[u] = pc[u]
               \/ pc[u] = "asleep" /\ pc'[u] = "woken"
<1> USE DEF Inv, TypeOK, Labels, Critical, Sleepers, At, Goto
<1>1. CASE LeaveSignalling(t, op)
  BY <1>1 DEF LeaveSignalling
<1>2. CASE LeaveBroadcasting(t, op)
  BY <1>2 DEF LeaveBroadcasting
<1> QED
  BY <1>1, <1>2

\* What the end of a call leaves of the control part of the invariant.
LEMMA LeaveStep ==
  ASSUME Inv, NEW t \in Threads, pc[t] \in Critical,
         NEW op, LeaveSignalling(t, op) \/ LeaveBroadcasting(t, op),
         NEW ok \in BOOLEAN, NEW item \in Items \cup {NoItem}, Leave(t, ok, item)
  PROVE  /\ pc' \in [Threads -> Labels]
         /\ call' \in [Threads -> Calls \cup {NoCall}]
         /\ ret' \in [Threads -> [ok : BOOLEAN, item : Items \cup {NoItem}]]
         /\ lock' \in Threads \cup {Free}
         /\ CallInv' /\ LockInv' /\ WaitInv'
         /\ \A u \in Threads : pc'[u] \notin {"stored", "copied"}
<1> USE ThreadFacts DEF Inv, TypeOK
<1>1. /\ pc' \in [Threads -> Labels]
      /\ pc'[t] = "idle"
      /\ \A u \in Threads \ {t} :
            \/ pc'[u] = pc[u]
            \/ pc[u] = "asleep" /\ pc'[u] = "woken"
  BY WakeFacts
<1>2. /\ lock' = Free /\ lock = t
      /\ call' = [call EXCEPT ![t] = NoCall]
      /\ ret' = [ret EXCEPT ![t] = [ok |-> ok, item |-> item]]
  BY DEF Leave
<1>3. ret' \in [Threads -> [ok : BOOLEAN, item : Items \cup {NoItem}]]
  <2>1. [ok |-> ok, item |-> item] \in [ok : BOOLEAN, item : Items \cup {NoItem}]
    OBVIOUS
  <2> QED
    BY <1>2, <2>1
<1>4. CallInv'
  BY <1>1, <1>2 DEF CallInv
<1>5. LockInv'
  BY <1>1, <1>2, QueueAssumption DEF LockInv, Critical
<1>6. WaitInv'
  BY <1>1, <1>2 DEF WaitInv
<1>7. \A u \in Threads : pc'[u] \notin {"stored", "copied"}
  BY <1>1, <1>2 DEF Critical
<1> QED
  BY <1>1, <1>2, <1>3, <1>4, <1>5, <1>6, <1>7

\* The copies a thread makes under the mutex.
LEMMA CopyStep ==
  ASSUME Inv, NEW t \in Threads, Store(t) \/ Copy(t)
  PROVE  Inv'
<1> USE ThreadFacts DEF Inv, TypeOK
<1> Capacity \in Nat \ {0} /\ count \in 0 .. Capacity /\ head \in Slots
  BY QueueAssumption
<1>0. lock = t /\ call[t] \in Calls
  BY DEF Store, Copy, Critical
<1>1. CASE Store(t)
  <2>1. count \in Slots /\ call[t].op = "send" /\ call[t].item \in Items
    BY <1>0, <1>1, CallFacts DEF Store, Blocked, Slots
  <2>2. SlotAt(count) \in Slots
    BY SlotInRange DEF SlotAt
  <2>3. storage' \in [Slots -> Items \cup {NoItem}]
        /\ storage'[SlotAt(count)] = call[t].item
    BY <1>1, <2>1, <2>2 DEF Store
  <2>4. TypeOK'
    BY <1>1, <2>3 DEF Store, Goto, Labels
  <2>5. CallInv' /\ LockInv' /\ WaitInv'
    BY <1>1 DEF Store, Goto, CallInv, LockInv, WaitInv, Critical
  <2>6. CopyInv'
    <3> SUFFICES ASSUME NEW u \in Threads, pc'[u] \in {"stored", "copied"}
                 PROVE  u = t
      BY <1>1, <2>1, <2>3 DEF Store, Goto, CopyInv, SlotAt, Slots
    <3> QED
      BY <1>0, <1>1 DEF Store, Goto, Critical
  <2>7. ItemInv'
    <3> SUFFICES ASSUME NEW i \in 0 .. count - 1
                 PROVE  storage'[SlotAt(i)] \in Items
      BY <1>1 DEF Store, ItemInv, SlotAt
    <3>1. i \in Slots /\ i # count
      BY <2>1 DEF Slots
    <3>2. SlotAt(i) # SlotAt(count)
      BY <2>1, <3>1, SlotsDiffer DEF SlotAt
    <3> QED
      BY <1>1, <3>2 DEF Store, ItemInv
  <2> QED
    BY <2>4, <2>5, <2>6, <2>7
<1>2. CASE Copy(t)
  <2>1. TypeOK'
    BY <1>2 DEF Copy, Goto, Labels
  <2>2. CallInv' /\ LockInv' /\ WaitInv'
    BY <1>2 DEF Copy, Goto, CallInv, LockInv, WaitInv, Critical
  <2>3. CopyInv'
    <3> SUFFICES ASSUME NEW u \in Threads, pc'[u] \in {"stored", "copied"}
                 PROVE  u = t
      BY <1>2 DEF Copy, Blocked, Goto, CopyInv, SlotAt
    <3> QED
      BY <1>0, <1>2 DEF Copy, Goto, Critical
  <2>4. ItemInv'
    BY <1>2 DEF Copy, ItemInv, SlotAt
  <2> QED
    BY <2>1, <2>2, <2>3, <2>4
<1> QED
  BY <1>1, <1>2

\* The steps that end a call by changing the indices.
LEMMA CommitStep ==
  ASSUME Inv, NEW t \in Threads, CommitSend(t) \/ CommitReceive(t) \/ ResetQueue(t)
  PROVE  Inv'
<1> DEFINE Control == /\ pc' \in [Threads -> Labels]
                      /\ call' \in [Threads -> Calls \cup {NoCall}]
                      /\ ret' \in [Threads -> [ok : BOOLEAN, item : Items \cup {NoItem}]]
                      /\ lock' \in Threads \cup {Free}
                      /\ CallInv' /\ LockInv' /\ WaitInv'
                      /\ \A u \in Threads : pc'[u] \notin {"stored", "copied"}
           Ring == /\ storage' \in [Slots -> Items \cup {NoItem}]
                   /\ head' \in Slots
                   /\ count' \in 0 .. Capacity
                   /\ buf' \in [Threads -> Items \cup {NoItem}]
                   /\ ItemInv'
<1>0. ASSUME Control, Ring PROVE Inv'
  BY <1>0 DEF Inv, TypeOK, CopyInv
<1> HIDE DEF Control, Ring
<1>t. /\ storage \in [Slots -> Items \cup {NoItem}]
      /\ Capacity \in Nat \ {0} /\ count \in 0 .. Capacity /\ head \in Slots
      /\ buf \in [Threads -> Items \cup {NoItem}]
      /\ \A i \in 0 .. count - 1 : storage[SlotAt(i)] \in Items
  BY QueueAssumption DEF Inv, TypeOK, ItemInv
<1>1. CASE CommitSend(t)
  <2>1. /\ Leave(t, TRUE, NoItem) /\ LeaveSignalling(t, "receive")
        /\ pc[t] = "stored" /\ pc[t] \in Critical
    BY <1>1 DEF CommitSend, Critical
  <2>2. Control
    BY <2>1, LeaveStep DEF Control
  <2>3. /\ count < Capacity
        /\ storage[SlotAt(count)] \in Items
    <3>1. call[t] \in Calls
      BY <2>1, ThreadFacts
    <3> QED
      BY <2>1, <3>1, CallFacts DEF Inv, CopyInv
  <2>4. /\ count' = count + 1
        /\ UNCHANGED <<storage, head, buf>>
    BY <1>1 DEF CommitSend
  <2>5. ItemInv'
    <3> SUFFICES ASSUME NEW i \in 0 .. count
                 PROVE  storage[SlotAt(i)] \in Items
      BY <2>4, <1>t DEF ItemInv, SlotAt
    <3> QED
      BY <1>t, <2>3
  <2>6. Ring
    BY <1>t, <2>3, <2>4, <2>5 DEF Ring
  <2> QED
    BY <1>0, <2>2, <2>6
<1>2. CASE CommitReceive(t)
  <2>1. /\ Leave(t, TRUE, buf[t]) /\ LeaveSignalling(t, "send")
        /\ pc[t] = "copied" /\ pc[t] \in Critical
    BY <1>2 DEF CommitReceive, Critical
  <2>2. Control
    BY <1>t, <2>1, LeaveStep DEF Control
  <2>3. count > 0
    BY <2>1 DEF Inv, CopyInv
  <2>4. /\ head' = SlotAt(1) /\ count' = count - 1
        /\ buf' = [buf EXCEPT ![t] = NoItem]
        /\ UNCHANGED storage
    BY <1>2 DEF CommitReceive
  <2>5. head' \in Slots
    BY <1>t, <2>4, SlotInRange DEF SlotAt
  <2>6. ItemInv'
    <3> SUFFICES ASSUME NEW i \in 0 .. (count - 1) - 1
                 PROVE  storage[(head' + i) % Capacity] \in Items
      BY <2>4 DEF ItemInv, SlotAt
    <3>1. i \in Slots /\ i + 1 \in 0 .. count - 1
      BY <1>t DEF Slots
    <3>2. (head' + i) % Capacity = SlotAt(i + 1)
      BY <1>t, <2>4, <3>1, SlotShift DEF SlotAt
    <3> QED
      BY <1>t, <3>1, <3>2
  <2>7. Ring
    BY <1>t, <2>3, <2>4, <2>5, <2>6 DEF Ring
  <2> QED
    BY <1>0, <2>2, <2>7
<1>3. CASE ResetQueue(t)
  <2>1. /\ Leave(t, TRUE, NoItem) /\ LeaveBroadcasting(t, "send")
        /\ pc[t] \in Critical
    BY <1>3 DEF ResetQueue, Critical
  <2>2. Control
    BY <2>1, LeaveStep DEF Control
  <2>3. head' = 0 /\ count' = 0 /\ UNCHANGED <<storage, buf>>
    BY <1>3 DEF ResetQueue
  <2>4. Ring
    BY <1>t, <2>3 DEF Ring, ItemInv, Slots
  <2> QED
    BY <1>0, <2>2, <2>4
<1> QED
  BY <1>1, <1>2, <1>3

\* Every step of every call of freertos_shim.c preserves the invariant.
THEOREM InvStep == Inv /\ [Next]_vars => Inv'
<1> SUFFICES ASSUME Inv, [Next]_vars PROVE Inv'
  OBVIOUS
<1>1. ASSUME NEW t \in Threads, Step(t) PROVE Inv'
  BY <1>1, ControlStep, CopyStep, CommitStep DEF Step
<1>2. CASE UNCHANGED vars
  BY <1>2 DEF vars, Inv, TypeOK, CallInv, LockInv, WaitInv, CopyInv, ItemInv, SlotAt
<1> QED
  BY <1>1, <1>2 DEF Next

\* The invariant holds at every moment of every interleaving of the calls.
THEOREM InvHolds == Spec => []Inv
BY InvInit, InvStep, PTL DEF Spec

\* Every variable of freertos_shim.c's queue keeps its type, for any number of
\* threads and any capacity: in particular tail, head and count never leave the
\* bounds of storage, whatever the interleaving of the calls.
THEOREM TypeCorrect == Spec => []TypeOK
<1>1. Inv => TypeOK
  BY DEF Inv
<1> QED
  BY <1>1, InvHolds, PTL

-----------------------------------------------------------------------------
(* Refinement *)

ContentsOK == /\ Contents \in Seq(Items)
              /\ Len(Contents) = count
              /\ count \in Nat
              /\ \A i \in 1 .. count : Contents[i] = storage[SlotAt(i - 1)]

\* The ring, read as a sequence, is a sequence of count items.
LEMMA ContentsFacts == Inv => ContentsOK
<1> SUFFICES ASSUME Inv PROVE ContentsOK
  OBVIOUS
<1>1. count \in Nat
  BY QueueAssumption DEF Inv, TypeOK
<1>2. \A i \in 1 .. count : i - 1 \in 0 .. count - 1
  BY <1>1
<1>3. Contents \in [1 .. count -> Items]
  BY <1>2 DEF Contents, Inv, ItemInv
<1>4. Contents \in Seq(Items) /\ Len(Contents) = count
  BY <1>1, <1>3
<1> QED
  BY <1>1, <1>4 DEF ContentsOK, Contents

\* The same of the state after a step.
LEMMA ContentsFactsNext == Inv' => ContentsOK'
BY ContentsFacts, PTL

\* A created queue is an empty FIFO.
LEMMA InitRefines == Init => Fifo!Init
<1> SUFFICES ASSUME Init PROVE Fifo!Init
  OBVIOUS
<1>1. Contents = << >>
  BY InvInit, ContentsFacts, EmptySeq DEF Init, ContentsOK
<1> QED
  BY <1>1 DEF Init, Fifo!Init, NoCall, Fifo!NoCall, NoReturn, Fifo!NoReturn

\* Steps inside a call do not change what the ring contains; Store writes
\* behind the last item.
LEMMA InnerStep ==
  ASSUME Inv, NEW t \in Threads,
         \/ Lock(t) \/ Sleep(t) \/ SpuriousWakeup(t) \/ Expire(t)
         \/ Store(t) \/ Copy(t)
  PROVE  UNCHANGED Fifo!vars
<1>1. UNCHANGED <<call, ret, head, count>>
  BY DEF Lock, Sleep, SpuriousWakeup, Expire, Store, Copy
<1>2. UNCHANGED Contents
  <2>1. CASE UNCHANGED storage
    BY <1>1, <2>1 DEF Contents, SlotAt
  <2>2. CASE Store(t)
    <3>1. count \in Slots /\ head \in Slots
      BY <2>2, QueueAssumption DEF Inv, TypeOK, CopyInv, Store, Blocked, Slots
    <3>2. \A i \in 1 .. count : storage'[SlotAt(i - 1)] = storage[SlotAt(i - 1)]
      <4> SUFFICES ASSUME NEW i \in 1 .. count
                   PROVE  storage'[SlotAt(i - 1)] = storage[SlotAt(i - 1)]
        OBVIOUS
      <4>1. i - 1 \in Slots /\ i - 1 # count
        BY <3>1, QueueAssumption DEF Slots
      <4>2. SlotAt(i - 1) # SlotAt(count) /\ SlotAt(i - 1) \in Slots
        <5>1. i - 1 \in 0 .. Capacity
          BY <4>1, QueueAssumption DEF Slots
        <5> QED
          BY <3>1, <4>1, <5>1, SlotsDiffer, SlotInRange DEF SlotAt
      <4> QED
        BY <2>2, <4>2 DEF Store, Inv, TypeOK
    <3> QED
      BY <1>1, <3>2 DEF Contents, SlotAt
  <2> QED
    BY <2>1, <2>2 DEF Lock, Sleep, SpuriousWakeup, Expire, Copy
<1> QED
  BY <1>1, <1>2 DEF Fifo!vars

\* The instant xQueueSend increments count is the instant the item is appended.
LEMMA SendRefines ==
  ASSUME Inv, Inv', NEW t \in Threads, CommitSend(t)
  PROVE  Fifo!Send(t)
<1>1. /\ call[t].op = "send" /\ count < Capacity
      /\ storage[SlotAt(count)] = call[t].item
  BY DEF CommitSend, Inv, CopyInv
<1>2. count' = count + 1 /\ UNCHANGED <<storage, head>> /\ Leave(t, TRUE, NoItem)
  BY DEF CommitSend
<1>3. call[t].item \in Items
  BY <1>1, ThreadFacts, CallFacts DEF CommitSend
<1>4. /\ Contents \in Seq(Items) /\ Len(Contents) = count /\ count \in Nat
      /\ \A i \in 1 .. count : Contents[i] = storage[SlotAt(i - 1)]
  BY ContentsFacts DEF ContentsOK
<1>5. /\ Contents' \in Seq(Items) /\ Len(Contents') = count + 1
      /\ \A i \in 1 .. count + 1 : Contents'[i] = storage[SlotAt(i - 1)]
  <2>1. /\ Contents' \in Seq(Items) /\ Len(Contents') = count'
        /\ \A i \in 1 .. count' : Contents'[i] = storage'[SlotAt(i - 1)']
    BY ContentsFactsNext DEF ContentsOK
  <2> QED
    BY <1>2, <2>1 DEF SlotAt
<1>6. Contents' = Append(Contents, call[t].item)
  <2> DEFINE new == Append(Contents, call[t].item)
  <2>1. /\ new \in Seq(Items) /\ Len(new) = count + 1
        /\ \A i \in 1 .. count + 1 :
             new[i] = IF i = count + 1 THEN call[t].item ELSE Contents[i]
    BY <1>3, <1>4, AppendProperties
  <2>2. \A i \in 1 .. count + 1 : new[i] = Contents'[i]
    <3> SUFFICES ASSUME NEW i \in 1 .. count + 1 PROVE new[i] = Contents'[i]
      OBVIOUS
    <3>1. CASE i = count + 1
      <4>1. i - 1 = count
        BY <1>4, <3>1
      <4> QED
        BY <1>1, <1>5, <2>1, <3>1, <4>1
    <3>2. CASE i # count + 1
      <4>1. i \in 1 .. count
        BY <1>4, <3>2
      <4> QED
        BY <1>4, <1>5, <2>1, <3>2, <4>1
    <3> QED
      BY <3>1, <3>2
  <2> HIDE DEF new
  <2>3. new = Contents'
    BY <1>5, <2>1, <2>2, SeqEqual
  <2> QED
    BY <2>3 DEF new
<1> QED
  BY <1>1, <1>2, <1>4, <1>6 DEF Fifo!Send, Fifo!Return, Leave, Fifo!NoCall, NoCall

\* The instant xQueueReceive moves head is the instant the first item, which it
\* copied before, leaves the FIFO.
LEMMA ReceiveRefines ==
  ASSUME Inv, Inv', NEW t \in Threads, CommitReceive(t)
  PROVE  Fifo!Receive(t)
<1>1. /\ call[t].op = "receive" /\ count > 0 /\ buf[t] = storage[head]
  BY DEF CommitReceive, Inv, CopyInv
<1>2. /\ head' = SlotAt(1) /\ count' = count - 1 /\ UNCHANGED storage
      /\ Leave(t, TRUE, buf[t])
  BY DEF CommitReceive
<1>3. /\ Contents \in Seq(Items) /\ Len(Contents) = count /\ count \in Nat
      /\ \A i \in 1 .. count : Contents[i] = storage[SlotAt(i - 1)]
  BY ContentsFacts DEF ContentsOK
<1>4. head \in Slots /\ Capacity \in Nat \ {0} /\ count <= Capacity
  BY QueueAssumption DEF Inv, TypeOK
<1>5. /\ Contents # << >> /\ Head(Contents) = Contents[1]
      /\ Tail(Contents) \in Seq(Items) /\ Len(Tail(Contents)) = count - 1
      /\ \A i \in 1 .. count - 1 : Tail(Contents)[i] = Contents[i + 1]
  <2>1. Contents # << >>
    BY <1>1, <1>3, EmptySeq
  <2> QED
    BY <1>3, <2>1, HeadTailProperties
<1>6. Head(Contents) = buf[t]
  <2>1. SlotAt(0) = head
    <3>1. 0 \in 0 .. Capacity /\ head + 0 < Capacity /\ head + 0 = head
      BY <1>4 DEF Slots
    <3> QED
      BY <1>4, <3>1, SlotValue DEF SlotAt
  <2> QED
    BY <1>1, <1>3, <1>5, <2>1
<1>7. Contents' = Tail(Contents)
  <2>1. /\ Contents' \in Seq(Items) /\ Len(Contents') = count'
        /\ \A i \in 1 .. count' : Contents'[i] = storage'[SlotAt(i - 1)']
    BY ContentsFactsNext DEF ContentsOK
  <2>2. \A i \in 1 .. count - 1 : Contents'[i] = Tail(Contents)[i]
    <3> SUFFICES ASSUME NEW i \in 1 .. count - 1
                 PROVE  Contents'[i] = Tail(Contents)[i]
      OBVIOUS
    <3>1. i - 1 \in Slots /\ i + 1 \in 1 .. count /\ (i - 1) + 1 = i /\ (i + 1) - 1 = i
      BY <1>3, <1>4 DEF Slots
    <3>2. SlotAt(i - 1)' = SlotAt(i)
      BY <1>2, <1>4, <3>1, SlotShift DEF SlotAt
    <3>3. Contents'[i] = storage'[SlotAt(i - 1)']
      BY <1>2, <1>3, <2>1
    <3>4. Tail(Contents)[i] = storage[SlotAt(i)]
      BY <1>3, <1>5, <3>1
    <3> QED
      BY <1>2, <3>2, <3>3, <3>4
  <2> QED
    BY <1>2, <1>5, <2>1, <2>2, SeqEqual
<1> QED
  BY <1>1, <1>2, <1>5, <1>6, <1>7
     DEF Fifo!Receive, Fifo!Return, Leave, Fifo!NoCall, NoCall

\* xQueueReset empties the FIFO at the instant it resets the indices.
LEMMA ResetRefines ==
  ASSUME Inv, Inv', NEW t \in Threads, ResetQueue(t)
  PROVE  Fifo!Reset(t)
<1>1. Contents' = << >>
  <2>1. Contents' \in Seq(Items) /\ Len(Contents') = count' /\ count' = 0
    BY ContentsFactsNext DEF ContentsOK, ResetQueue
  <2> QED
    BY <2>1, EmptySeq
<1> QED
  BY <1>1 DEF ResetQueue, Fifo!Reset, Fifo!Return, Leave, Fifo!NoCall, NoCall

\* pdFALSE without a deadline is returned at an instant the FIFO is full (send)
\* or empty (receive).
LEMMA RefuseRefines ==
  ASSUME Inv, NEW t \in Threads, Refuse(t) \/ GiveUp(t)
  PROVE  Fifo!Refuse(t)
<1>1. UNCHANGED Contents
  BY DEF Refuse, GiveUp, Contents, SlotAt
<1>2. Leave(t, FALSE, NoItem)
  BY DEF Refuse, GiveUp
<1>3. \/ call[t].op = "send" /\ (call[t].patient \/ Len(Contents) = Capacity)
      \/ call[t].op = "receive" /\ (call[t].patient \/ Contents = << >>)
  <2>1. CASE Refuse(t)
    BY <2>1, ContentsFacts, EmptySeq DEF ContentsOK, Refuse, Blocked
  <2>2. CASE GiveUp(t)
    BY <2>2 DEF GiveUp, Inv, WaitInv
  <2> QED
    BY <2>1, <2>2
<1> QED
  BY <1>1, <1>2, <1>3 DEF Fifo!Refuse, Fifo!Return, Leave, Fifo!NoCall, NoCall

\* Every step of the implementation is a step of the FIFO or leaves it alone.
LEMMA StepRefines == Inv /\ Inv' /\ [Next]_vars => [Fifo!Next]_(Fifo!vars)
<1> SUFFICES ASSUME Inv, Inv', [Next]_vars
             PROVE  Fifo!Next \/ UNCHANGED Fifo!vars
  OBVIOUS
<1>1. ASSUME NEW t \in Threads, Step(t)
      PROVE  Fifo!Next \/ UNCHANGED Fifo!vars
  <2>1. CASE \E c \in Uses[t] : Invoke(t, c)
    <3>1. PICK c \in Calls : Invoke(t, c)
      BY <2>1, UsesAssumption
    <3>2. Fifo!Invoke(t, c)
      BY <3>1 DEF Invoke, Fifo!Invoke, Fifo!NoCall, NoCall, Fifo!NoReturn,
                  NoReturn, Contents, SlotAt
    <3> QED
      BY <3>2 DEF Fifo!Next, Fifo!Calls, Calls
  <2>2. CASE Lock(t) \/ Sleep(t) \/ SpuriousWakeup(t) \/ Expire(t) \/ Store(t) \/ Copy(t)
    BY <2>2, InnerStep
  <2>3. CASE Refuse(t) \/ GiveUp(t)
    BY <2>3, RefuseRefines DEF Fifo!Next
  <2>4. CASE CommitSend(t)
    BY <2>4, SendRefines DEF Fifo!Next
  <2>5. CASE CommitReceive(t)
    BY <2>5, ReceiveRefines DEF Fifo!Next
  <2>6. CASE ResetQueue(t)
    BY <2>6, ResetRefines DEF Fifo!Next
  <2> QED
    BY <1>1, <2>1, <2>2, <2>3, <2>4, <2>5, <2>6 DEF Step
<1>2. CASE UNCHANGED vars
  BY <1>2 DEF vars, Fifo!vars, Contents, SlotAt
<1> QED
  BY <1>1, <1>2 DEF Next

\* The pthread queue of freertos_shim.c implements the bounded FIFO its callers
\* rely on, for any number of threads making any calls, any items and any
\* capacity: nothing is lost, duplicated or reordered between xQueueSend and
\* xQueueReceive, and a call that does not wait fails only on a full (or empty)
\* queue.
THEOREM QueueImplementsFifo == Spec => RefinesFifo
BY InitRefines, StepRefines, InvHolds, PTL DEF Spec, RefinesFifo, Fifo!Spec

-----------------------------------------------------------------------------
(* The discipline *)

\* Only the consumer receives.
OneConsumer == \A t \in Threads :
    call[t] \in TaskUses(t) \cup {NoCall}

\* The consumer sleeps on an empty queue only, whoever holds the mutex.
AsleepOnEmpty == \A t \in Sleepers("receive") : count = 0

UseInv == /\ Inv
          /\ consumer \in Threads \cup {Free}
          /\ consumer # Free => OneConsumer /\ AsleepOnEmpty

LEMMA OnlyConsumer ==
  ASSUME OneConsumer, NEW t \in Threads, call[t].op \in {"receive", "reset"}
  PROVE  t = consumer
BY DEF OneConsumer, TaskUses, NoCall

\* A send wakes the consumer that sleeps: nobody else can take the signal.
LEMMA SendWakes ==
  ASSUME Inv, OneConsumer, NEW t \in Threads, CommitSend(t)
  PROVE  \A u \in Threads : pc'[u] = "asleep" => call'[u].op # "receive"
<1> SUFFICES ASSUME NEW u \in Threads, pc'[u] = "asleep", call'[u].op = "receive"
             PROVE  FALSE
  OBVIOUS
<1>1. /\ pc[t] = "stored" /\ Leave(t, TRUE, NoItem) /\ LeaveSignalling(t, "receive")
  BY DEF CommitSend
<1>2. u # t /\ pc[u] = "asleep" /\ call[u].op = "receive"
  <2>1. /\ pc'[t] = "idle"
        /\ \A v \in Threads \ {t} : pc'[v] = pc[v] \/ pc'[v] = "woken"
    BY <1>1, WakeFacts DEF Critical
  <2> QED
    BY <1>1, <2>1 DEF Leave, Inv, TypeOK
<1>3. u = consumer /\ u \in Sleepers("receive")
  BY <1>2, OnlyConsumer DEF Sleepers, At
<1>4. At("expired", "receive") = {}
  <2> SUFFICES ASSUME NEW v \in Threads, pc[v] = "expired", call[v].op = "receive"
               PROVE  FALSE
    BY DEF At
  <2> QED
    BY <1>2, <1>3, OnlyConsumer
<1>5. PICK v \in Sleepers("receive") : pc' = [pc EXCEPT ![t] = "idle", ![v] = "woken"]
  BY <1>1, <1>3, <1>4 DEF LeaveSignalling
<1>6. v = u
  BY <1>3, <1>5, OnlyConsumer DEF Sleepers, At
<1> QED
  BY <1>2, <1>5, <1>6 DEF Inv, TypeOK

LEMMA UseStep == UseInv /\ [UseNext]_<<vars, consumer>> => UseInv'
<1> SUFFICES ASSUME UseInv, [UseNext]_<<vars, consumer>> PROVE UseInv'
  OBVIOUS
<1>1. Inv' /\ UNCHANGED consumer
  BY InvStep DEF UseInv, UseNext
<1>2. ASSUME consumer # Free PROVE OneConsumer'
  BY <1>1, <1>2 DEF UseInv, UseNext, OneConsumer, TaskUses, vars
<1>3. ASSUME consumer # Free, NEW u \in Threads, pc'[u] = "asleep", call'[u].op = "receive"
      PROVE  count' = 0
  <2>1. Inv /\ OneConsumer /\ AsleepOnEmpty
    BY <1>3 DEF UseInv
  <2>2. CASE UNCHANGED vars
    BY <1>3, <2>1, <2>2 DEF vars, AsleepOnEmpty, Sleepers, At
  <2>3. ASSUME NEW t \in Threads, Step(t) PROVE count' = 0
    <3> USE <2>1 DEF Inv, TypeOK
    <3>1. CASE \/ \E c \in Uses[t] : Invoke(t, c)
               \/ Lock(t) \/ Refuse(t) \/ SpuriousWakeup(t) \/ Expire(t) \/ GiveUp(t)
               \/ Store(t) \/ Copy(t)
      <4>1. count' = count /\ pc[u] = "asleep" /\ call[u].op = "receive"
        BY <1>3, <3>1 DEF Invoke, Lock, Refuse, SpuriousWakeup, Expire, GiveUp, Store,
                          Copy, Goto, Leave
      <4> QED
        BY <4>1 DEF AsleepOnEmpty, Sleepers, At
    <3>2. CASE Sleep(t)
      <4>1. CASE u = t
        BY <1>3, <3>2, <4>1 DEF Sleep, Blocked
      <4>2. CASE u # t
        BY <1>3, <3>2, <4>2 DEF Sleep, Goto, AsleepOnEmpty, Sleepers, At
      <4> QED
        BY <4>1, <4>2
    <3>3. CASE CommitSend(t)
      BY <1>3, <3>3, SendWakes
    <3>4. CASE CommitReceive(t)
      <4>1. t = consumer
        BY <3>4, OnlyConsumer DEF CommitReceive, CopyInv
      <4>2. u # t /\ call[u].op = "receive"
        BY <1>3, <3>4, WakeFacts DEF CommitReceive, Critical, Leave
      <4> QED
        BY <4>1, <4>2, OnlyConsumer
    <3>5. CASE ResetQueue(t)
      BY <3>5 DEF ResetQueue
    <3> QED
      BY <2>3, <3>1, <3>2, <3>3, <3>4, <3>5 DEF Step
  <2> QED
    BY <2>2, <2>3 DEF UseNext, Next
<1> QED
  BY <1>1, <1>2, <1>3 DEF UseInv, AsleepOnEmpty, Sleepers, At

LEMMA UseInvHolds == UseSpec => []UseInv
<1>1. UseInit => UseInv
  <2> SUFFICES ASSUME UseInit PROVE UseInv
    OBVIOUS
  <2>1. Inv
    BY InvInit DEF UseInit
  <2>2. OneConsumer /\ AsleepOnEmpty
    BY DEF UseInit, Init, OneConsumer, AsleepOnEmpty, Sleepers, At
  <2> QED
    BY <2>1, <2>2 DEF UseInit, UseInv
<1> QED
  BY <1>1, UseStep, PTL DEF UseSpec

\* With one consumer, as in app_resources.c, no wakeup of xQueueReceive is lost:
\* the consumer never sleeps on an item.
THEOREM ConsumerIsWoken == UseSpec => []NoLostWakeupToConsumer
<1>1. UseInv => NoLostWakeupToConsumer
  <2> SUFFICES ASSUME UseInv, consumer # Free, NEW t \in Sleepers("receive")
               PROVE  count <= Cardinality(At("woken", "receive"))
    BY DEF NoLostWakeupToConsumer, NoLostWakeup
  <2>1. count = 0 /\ OneConsumer
    BY DEF UseInv, AsleepOnEmpty
  <2>2. At("woken", "receive") = {}
    <3> SUFFICES ASSUME NEW u \in Threads, pc[u] = "woken", call[u].op = "receive"
                 PROVE  FALSE
      BY DEF At
    <3> QED
      BY <2>1, OnlyConsumer DEF Sleepers, At
  <2> QED
    BY <2>1, <2>2, FS_EmptySet
<1> QED
  BY <1>1, UseInvHolds, PTL
=============================================================================
