----------------------------- MODULE ShimProofs -----------------------------
(***************************************************************************)
(* Proofs about the primitives of the FreeRTOS shim beside the queue, for  *)
(* any threads and bits, and about the status LED that is made from them.  *)
(***************************************************************************)
EXTENDS EventGroup, CriticalSection, StatusLed, TLAPS

-----------------------------------------------------------------------------
(* The event group: no set is missed *)

GroupInv == TypeOK /\ NoMissedSet

LEMMA GroupStarts == Init => GroupInv
  BY DEF Init, GroupInv, TypeOK, NoMissedSet

\* SetBits wakes every sleeper, so that nobody is left to be wrong.
LEMMA SetBitsInv ==
    ASSUME GroupInv, NEW t \in Threads, NEW some \in SUBSET Bits, SetBits(t, some)
    PROVE  GroupInv'
  BY DEF GroupInv, TypeOK, NoMissedSet, SetBits, Broadcast

\* Fewer bits satisfy no more waits.
LEMMA FewerBits ==
    ASSUME GroupInv, bits' \subseteq bits, UNCHANGED call, asleep' \ woken' \subseteq asleep \ woken
    PROVE  NoMissedSet'
  BY DEF GroupInv, NoMissedSet, Satisfied

LEMMA ClearBitsInv ==
    ASSUME GroupInv, NEW t \in Threads, NEW some \in SUBSET Bits, ClearBits(t, some)
    PROVE  GroupInv'
  <1>1. NoMissedSet'
    BY FewerBits DEF ClearBits
  <1>2. TypeOK'
    BY DEF GroupInv, TypeOK, ClearBits
  <1>3. QED
    BY <1>1, <1>2 DEF GroupInv

\* A thread goes back to sleep only with its condition false; one that returns
\* takes bits away and is asleep no more.
LEMMA TurnInv ==
    ASSUME GroupInv, NEW t \in Threads, NEW wait \in Waits, Turn(t, wait)
    PROVE  GroupInv'
  <1>1. CASE Satisfied(wait) \/ wait.ticks # "some"
    <2>1. Return(t, wait)
      BY <1>1 DEF Turn
    <2>2. bits' \subseteq bits
      BY <2>1 DEF Return
    <2>3. TypeOK'
      BY <2>1, <2>2 DEF GroupInv, TypeOK, Return
    <2>4. NoMissedSet'
      <3> SUFFICES ASSUME NEW s \in asleep' \ woken' PROVE ~Satisfied(call[s])'
        BY DEF NoMissedSet
      <3>1. s # t /\ s \in asleep \ woken
        BY <2>1 DEF Return
      <3>2. call'[s] = call[s]
        BY <2>1, <3>1 DEF GroupInv, TypeOK, Return
      <3>3. ~Satisfied(call[s])
        BY <3>1 DEF GroupInv, NoMissedSet
      <3>4. QED
        BY <2>2, <3>2, <3>3 DEF Satisfied
    <2>5. QED
      BY <2>3, <2>4 DEF GroupInv
  <1>2. CASE ~(Satisfied(wait) \/ wait.ticks # "some")
    <2>1. Sleep(t, wait) /\ wait.ticks = "some" /\ ~Satisfied(wait)
      BY <1>2 DEF Turn
    <2>2. TypeOK'
      BY <2>1 DEF GroupInv, TypeOK, Sleep
    <2>3. NoMissedSet'
      <3> SUFFICES ASSUME NEW s \in asleep' \ woken' PROVE ~Satisfied(call[s])'
        BY DEF NoMissedSet
      <3>1. bits' = bits
        BY <2>1 DEF Sleep
      <3>2. CASE s = t
        <4>1. call'[s] = wait
          BY <2>1, <3>2 DEF GroupInv, TypeOK, Sleep
        <4>2. QED
          BY <2>1, <3>1, <4>1 DEF Satisfied
      <3>3. CASE s # t
        <4>1. s \in asleep \ woken /\ call'[s] = call[s]
          BY <2>1, <3>3 DEF GroupInv, TypeOK, Sleep
        <4>2. ~Satisfied(call[s])
          BY <4>1 DEF GroupInv, NoMissedSet
        <4>3. QED
          BY <3>1, <4>1, <4>2 DEF Satisfied
      <3>4. QED
        BY <3>2, <3>3
    <2>4. QED
      BY <2>2, <2>3 DEF GroupInv
  <1>3. QED
    BY <1>1, <1>2

LEMMA ExpireInv ==
    ASSUME GroupInv, NEW t \in Threads, Expire(t) PROVE GroupInv'
  <1>1. TypeOK'
    BY DEF GroupInv, TypeOK, Expire
  <1>2. NoMissedSet'
    <2> SUFFICES ASSUME NEW s \in asleep' \ woken' PROVE ~Satisfied(call[s])'
      BY DEF NoMissedSet
    <2>1. s \in asleep \ woken /\ call'[s] = call[s] /\ bits' = bits
      BY DEF GroupInv, TypeOK, Expire
    <2>2. QED
      BY <2>1 DEF GroupInv, NoMissedSet, Satisfied
  <1>3. QED
    BY <1>1, <1>2 DEF GroupInv

LEMMA GroupStep == GroupInv /\ [Next]_vars => GroupInv'
  <1> SUFFICES ASSUME GroupInv, [Next]_vars PROVE GroupInv'
    OBVIOUS
  <1>1. CASE UNCHANGED vars
    BY <1>1 DEF GroupInv, TypeOK, NoMissedSet, Satisfied, vars
  <1>2. CASE Next
    <2>1. PICK t \in Threads :
            \/ \E some \in (SUBSET Bits) \ {{}} : SetBits(t, some) \/ ClearBits(t, some)
            \/ \E wait \in Waits : WaitBits(t, wait)
            \/ Wake(t) \/ Expire(t)
      BY <1>2 DEF Next
    <2>2. CASE \E some \in (SUBSET Bits) \ {{}} : SetBits(t, some) \/ ClearBits(t, some)
      BY <2>2, SetBitsInv, ClearBitsInv
    <2>3. CASE \E wait \in Waits : WaitBits(t, wait)
      BY <2>3, TurnInv DEF WaitBits
    <2>4. CASE Wake(t)
      BY <2>4, TurnInv DEF Wake, GroupInv, TypeOK
    <2>5. CASE Expire(t)
      BY <2>5, ExpireInv
    <2>6. QED
      BY <2>1, <2>2, <2>3, <2>4, <2>5
  <1>3. QED
    BY <1>1, <1>2

\* The types of the variables, for any threads and bits.
THEOREM GroupTypeCorrect == Spec => []TypeOK
  BY GroupStarts, GroupStep, PTL DEF Spec, GroupInv

\* No thread sleeps through a set it waits for.
THEOREM NoSetIsMissed == Spec => []NoMissedSet
  BY GroupStarts, GroupStep, PTL DEF Spec, GroupInv

-----------------------------------------------------------------------------
(* The critical section: it excludes from the first calm moment on.  The   *)
(* invariant says why: before it, only a thread in its section leaves the  *)
(* current mutex locked, so that the last one to leave finds it free;      *)
(* after it, every thread holds or waits for the current mutex.            *)

\* A mutex is locked only after its thread has created it.
Created == \A t \in Entrants : (mutex = t \/ t \in locked \/ \E u \in Entrants : seen[u] = t)
                                => pc[t] # "create" /\ mutex # NoMutex

\* The current mutex is locked by a thread in its section.
LockedInside == mutex \in locked => \E t \in Entrants : pc[t] = "in"

\* Once calm every thread uses the current mutex, and one inside has it locked.
OneMutex == calm => /\ mutex # NoMutex
                    /\ \A t \in Entrants : pc[t] # "create"
                    /\ \A t \in Entrants : pc[t] \in {"call", "wait", "in"} => seen[t] = mutex
                    /\ \A t \in Entrants : pc[t] = "in" => mutex \in locked

\* A thread past its check has a mutex, and so has the program.
MutexSeen == \A t \in Entrants : pc[t] \in {"call", "wait", "in"} => seen[t] \in Entrants
                                                               /\ mutex # NoMutex

SectionInv == CriticalTypeOK /\ Created /\ LockedInside /\ MutexSeen /\ OneMutex /\ ExclusiveOnceCalm

LEMMA SectionStarts == CriticalInit => SectionInv
  BY CriticalAssumption DEF CriticalInit, SectionInv, CriticalTypeOK, Created, LockedInside, MutexSeen, OneMutex,
       ExclusiveOnceCalm, Exclusive

LEMMA CheckInv == ASSUME SectionInv, NEW t \in Entrants, Check(t) PROVE SectionInv'
<1>1. CriticalTypeOK'
  BY CriticalAssumption DEF Check, Goto, SectionInv, CriticalTypeOK
<1>2. Created'
  BY CriticalAssumption DEF Check, Goto, SectionInv, CriticalTypeOK, Created
<1>3. LockedInside'
  BY DEF Check, Goto, SectionInv, CriticalTypeOK, LockedInside
<1>4. MutexSeen'
  BY CriticalAssumption DEF Check, Goto, SectionInv, CriticalTypeOK, MutexSeen
<1>5. OneMutex'
  BY DEF Check, Goto, SectionInv, CriticalTypeOK, OneMutex
<1>6. ExclusiveOnceCalm'
  BY DEF Check, Goto, SectionInv, CriticalTypeOK, ExclusiveOnceCalm, Exclusive
<1> QED
  BY <1>1, <1>2, <1>3, <1>4, <1>5, <1>6 DEF SectionInv

LEMMA CreateInv == ASSUME SectionInv, NEW t \in Entrants, Create(t) PROVE SectionInv'
<1>1. CriticalTypeOK'
  BY DEF Create, Goto, SectionInv, CriticalTypeOK
<1>2. Created'
  BY CriticalAssumption DEF Create, Goto, SectionInv, CriticalTypeOK, Created
<1>3. t \notin locked
  BY DEF Create, Goto, SectionInv, CriticalTypeOK, Created
<1>4. LockedInside'
  BY <1>3 DEF Create, LockedInside
<1>5. MutexSeen'
  BY CriticalAssumption DEF Create, Goto, SectionInv, CriticalTypeOK, MutexSeen
<1>6. ~calm
  BY DEF Create, Goto, SectionInv, OneMutex
<1>7. OneMutex' /\ ExclusiveOnceCalm'
  BY <1>6 DEF Create, OneMutex, ExclusiveOnceCalm
<1> QED
  BY <1>1, <1>2, <1>4, <1>5, <1>7 DEF SectionInv

LEMMA CallInv == ASSUME SectionInv, NEW t \in Entrants, Call(t) PROVE SectionInv'
<1>1. PICK m \in {seen[t], mutex} : seen' = [seen EXCEPT ![t] = m]
  BY DEF Call
<1>2. CriticalTypeOK'
  BY <1>1 DEF Call, Goto, SectionInv, CriticalTypeOK
<1>3. Created'
  BY <1>1 DEF Call, Goto, SectionInv, CriticalTypeOK, Created
<1>4. LockedInside'
  BY DEF Call, Goto, SectionInv, CriticalTypeOK, LockedInside
<1>5. MutexSeen'
  BY <1>1 DEF Call, Goto, SectionInv, CriticalTypeOK, MutexSeen
<1>6. OneMutex'
  BY <1>1 DEF Call, Goto, SectionInv, CriticalTypeOK, OneMutex
<1>7. ExclusiveOnceCalm'
  BY DEF Call, Goto, SectionInv, CriticalTypeOK, ExclusiveOnceCalm, Exclusive
<1> QED
  BY <1>2, <1>3, <1>4, <1>5, <1>6, <1>7 DEF SectionInv

LEMMA LockInv == ASSUME SectionInv, NEW t \in Entrants, Lock(t) PROVE SectionInv'
<1>1. CriticalTypeOK'
  BY DEF Lock, Goto, SectionInv, CriticalTypeOK, MutexSeen
<1>2. Created'
  BY DEF Lock, Goto, SectionInv, CriticalTypeOK, Created
<1>3. LockedInside'
  BY DEF Lock, Goto, SectionInv, CriticalTypeOK, LockedInside
<1>4. MutexSeen'
  BY DEF Lock, Goto, SectionInv, CriticalTypeOK, MutexSeen
<1>5. OneMutex'
  BY DEF Lock, Goto, SectionInv, CriticalTypeOK, OneMutex
<1>6. ExclusiveOnceCalm'
  <2>1. calm => \A u \in Entrants : pc[u] # "in"
    BY DEF Lock, Goto, SectionInv, OneMutex
  <2> QED
    BY <2>1 DEF Lock, Goto, SectionInv, CriticalTypeOK, ExclusiveOnceCalm, Exclusive
<1> QED
  BY <1>1, <1>2, <1>3, <1>4, <1>5, <1>6 DEF SectionInv

\* Whoever leaves frees the current mutex; the last to leave leaves all calm.
LEMMA ExitInv == ASSUME SectionInv, NEW t \in Entrants, Exit(t) PROVE SectionInv'
<1>1. CriticalTypeOK'
  BY DEF Exit, Goto, SectionInv, CriticalTypeOK
<1>2. Created'
  BY DEF Exit, Goto, SectionInv, CriticalTypeOK, Created
<1>3. LockedInside'
  BY DEF Exit, LockedInside
<1>4. MutexSeen'
  BY DEF Exit, Goto, SectionInv, CriticalTypeOK, MutexSeen
<1>5. calm' => \A u \in Entrants : pc'[u] # "in"
  BY DEF Exit, Goto, SectionInv, CriticalTypeOK, ExclusiveOnceCalm, Exclusive
<1>6. ExclusiveOnceCalm'
  BY <1>5 DEF ExclusiveOnceCalm, Exclusive
<1>7. mutex' # NoMutex
  BY DEF Exit, Goto, SectionInv, MutexSeen
<1>8. OneMutex'
  <2>1. CASE calm
    BY <1>5, <1>7, <2>1 DEF Exit, Goto, SectionInv, CriticalTypeOK, OneMutex
  <2>2. CASE ~calm
    <3>1. calm' => \A u \in Entrants : pc'[u] = "out"
      BY <2>2 DEF Exit, Goto, SectionInv, CriticalTypeOK
    <3> QED
      BY <1>7, <3>1 DEF OneMutex
  <2> QED
    BY <2>1, <2>2
<1> QED
  BY <1>1, <1>2, <1>3, <1>4, <1>6, <1>8 DEF SectionInv

LEMMA SectionStep == SectionInv /\ [CriticalNext]_criticalVars => SectionInv'
<1> SUFFICES ASSUME SectionInv, [CriticalNext]_criticalVars PROVE SectionInv'
  OBVIOUS
<1>1. CASE UNCHANGED criticalVars
  BY <1>1 DEF criticalVars, SectionInv, CriticalTypeOK, Created, LockedInside, MutexSeen, OneMutex,
       ExclusiveOnceCalm, Exclusive
<1>2. CASE CriticalNext
  <2>1. PICK t \in Entrants : Step(t)
    BY <1>2 DEF CriticalNext
  <2> QED
    BY <2>1, CheckInv, CreateInv, CallInv, LockInv, ExitInv DEF Step
<1> QED
  BY <1>1, <1>2

\* Every execution keeps the invariant.
THEOREM SectionInvariant == CriticalSpec => []SectionInv
<1> QED
  BY SectionStarts, SectionStep, PTL DEF CriticalSpec

\* Every reachable state of portENTER_CRITICAL and portEXIT_CRITICAL is well-typed.
THEOREM SectionTypeCorrect == CriticalSpec => []CriticalTypeOK
<1>1. SectionInv => CriticalTypeOK
  BY DEF SectionInv
<1> QED
  BY <1>1, SectionInvariant, PTL

\* However many threads enter, and however their first entries overlap, one is in
\* a section at a time once no thread has been between enter and exit.
THEOREM ExclusionOnceCalm == CriticalSpec => []ExclusiveOnceCalm
<1>1. SectionInv => ExclusiveOnceCalm
  BY DEF SectionInv
<1> QED
  BY <1>1, SectionInvariant, PTL

\* From then on no thread sleeps on a mutex that nobody is going to unlock.
THEOREM NobodyIsForgotten == CriticalSpec => []HolderReleases
<1>1. SectionInv => HolderReleases
  BY DEF SectionInv, OneMutex, LockedInside, HolderReleases
<1> QED
  BY <1>1, SectionInvariant, PTL

-----------------------------------------------------------------------------
(* The status LED *)

LEMMA ErrorBitsAre ==
    /\ ErrorBits = {"WIFI_ERROR", "MQTT_ERROR", "THERMOMETER_ERROR"}
    /\ \A e \in ErrorBits : HalfPeriod(e) \in {1, 3, 6}
<1>1. /\ Errors[1] = "WIFI_ERROR" /\ Errors[2] = "MQTT_ERROR"
      /\ Errors[3] = "THERMOMETER_ERROR"
  BY DEF Errors
<1>2. ErrorBits = {"WIFI_ERROR", "MQTT_ERROR", "THERMOMETER_ERROR"}
  BY <1>1 DEF ErrorBits
<1>3. QED
  BY <1>2 DEF HalfPeriod

\* The condition is one of the errors, or there is none.
LEMMA ConditionTyped == Condition \in ErrorBits \cup {"none"}
<1>1. CASE raised \cap ErrorBits = {}
  BY <1>1 DEF Condition
<1>2. CASE raised \cap ErrorBits # {}
  <2>1. \E i \in 1 .. 3 : Errors[i] \in raised
    BY <1>2 DEF ErrorBits
  <2>2. \E i \in 1 .. 3 : /\ Errors[i] \in raised
                          /\ \A j \in 1 .. i - 1 : Errors[j] \notin raised
    <3>1. CASE Errors[1] \in raised
      BY <3>1
    <3>2. CASE Errors[1] \notin raised /\ Errors[2] \in raised
      BY <3>2
    <3>3. CASE Errors[1] \notin raised /\ Errors[2] \notin raised
      BY <2>1, <3>3
    <3>4. QED
      BY <3>1, <3>2, <3>3
  <2>3. PICK i \in 1 .. 3 : Condition = Errors[i]
    BY <1>2, <2>2 DEF Condition
  <2>4. QED
    BY <2>3 DEF ErrorBits
<1>3. QED
  BY <1>1, <1>2

\* The phase counts the ticks of the condition; what was shown of it is its pattern.
PatternInv == /\ PatternShown
              /\ condition = "none" => shown = << >>
              /\ condition # "none" =>
                   /\ Len(shown) <= 4 * HalfPeriod(condition)
                   /\ phase = Len(shown) % (2 * HalfPeriod(condition))

\* A notification that no flash has shown is still requested, and no flash goes on.
UnseenRequested == unseen => publishTicks = 0 /\ publishRequested

LedInv == LedTypeOK /\ PatternInv /\ UnseenRequested

LEMMA LedStarts == ASSUME LedInit PROVE LedInv
<1>1. LedTypeOK
  <2>1. publishTicks \in 0 .. FlashTicks - 1
    BY DEF LedInit, FlashTicks
  <2>2. phase \in 0 .. 2 * (IF condition = "none" THEN 1 ELSE HalfPeriod(condition)) - 1
    BY DEF LedInit
  <2>3. shown \in Seq({"on", "off"})
    BY DEF LedInit
  <2>4. QED
    BY <2>1, <2>2, <2>3 DEF LedInit, LedTypeOK
<1>2. PatternInv /\ UnseenRequested
  BY DEF LedInit, PatternInv, PatternShown, UnseenRequested
<1>3. QED
  BY <1>1, <1>2 DEF LedInv

\* Steps that do not touch the pattern.
LEMMA SamePattern ==
    ASSUME PatternInv, UNCHANGED <<condition, phase, shown>>
    PROVE  PatternInv'
BY DEF PatternInv, PatternShown

LEMMA TickErrorInv ==
    ASSUME LedInv, TickError, UNCHANGED raised
    PROVE  LedInv'
<1> DEFINE H == HalfPeriod(Condition)
           now == IF Condition = condition THEN phase ELSE 0
<1>1. Condition \in ErrorBits /\ H \in {1, 3, 6} /\ Condition # "none"
  BY ConditionTyped, ErrorBitsAre DEF TickError
<1>2. /\ condition' = Condition
      /\ led' = Lit(now < H) /\ phase' = (now + 1) % (2 * H)
      /\ shown' = IF Condition = condition /\ Len(shown) < 4 * H
                  THEN Append(shown, led') ELSE <<led'>>
      /\ UNCHANGED <<publishRequested, publishTicks, unseen>>
  BY DEF TickError, Remember
<1>3. shown \in Seq({"on", "off"}) /\ Len(shown) \in Nat
  BY DEF LedInv, LedTypeOK
<1>4. led' \in {"on", "off"}
  BY <1>2 DEF Lit
<1>5. CASE Condition = condition /\ Len(shown) < 4 * H
  <2>1. now = Len(shown) % (2 * H) /\ phase = now
    BY <1>1, <1>5 DEF LedInv, PatternInv
  <2>2. shown' = Append(shown, led') /\ Len(shown') = Len(shown) + 1
    BY <1>2, <1>3, <1>5
  <2>3. phase' = Len(shown') % (2 * H)
    BY <1>1, <1>2, <1>3, <1>5, <2>1, <2>2
  <2>4. ASSUME NEW i \in 1 .. Len(shown')
        PROVE  shown'[i] = Lit((i - 1) % (2 * H) < H)
    <3>1. CASE i \in 1 .. Len(shown)
      BY <1>2, <1>3, <1>5, <2>2, <3>1 DEF LedInv, PatternInv, PatternShown
    <3>2. CASE i = Len(shown) + 1
      BY <1>2, <1>3, <2>1, <2>2, <3>2
    <3>3. QED
      BY <1>3, <2>2, <2>4, <3>1, <3>2
  <2>5. Len(shown') <= 4 * H
    BY <1>1, <1>3, <1>5, <2>2
  <2>6. PatternInv'
    BY <1>1, <1>2, <2>3, <2>4, <2>5 DEF PatternInv, PatternShown
  <2>7. phase' \in 0 .. 2 * H - 1
    BY <1>1, <1>2, <1>3, <2>1
  <2>8. LedTypeOK'
    BY <1>1, <1>2, <1>3, <1>4, <2>2, <2>7 DEF LedInv, LedTypeOK
  <2>9. QED
    BY <1>2, <2>6, <2>8 DEF LedInv, UnseenRequested
<1>6. CASE ~(Condition = condition /\ Len(shown) < 4 * H)
  <2>1. now = 0
    <3>1. CASE Condition = condition
      <4>1. phase = Len(shown) % (2 * H) /\ Len(shown) = 4 * H
        BY <1>1, <1>3, <1>6, <3>1 DEF LedInv, PatternInv
      <4>2. QED
        BY <1>1, <3>1, <4>1
    <3>2. CASE Condition # condition
      BY <3>2
    <3>3. QED
      BY <3>1, <3>2
  <2>2. shown' = <<led'>> /\ Len(shown') = 1 /\ shown'[1] = led'
    BY <1>2, <1>6
  <2>3. phase' = 1 % (2 * H)
    BY <1>2, <2>1
  <2>4. 0 % (2 * H) = 0
    BY <1>1
  <2>5. PatternInv'
    BY <1>1, <1>2, <2>1, <2>2, <2>3, <2>4 DEF PatternInv, PatternShown
  <2>6. phase' \in 0 .. 2 * H - 1
    BY <1>1, <2>3
  <2>7. shown' \in Seq({"on", "off"})
    BY <1>4, <2>2
  <2>8. LedTypeOK'
    BY <1>1, <1>2, <1>4, <2>6, <2>7 DEF LedInv, LedTypeOK
  <2>9. QED
    BY <1>2, <2>5, <2>8 DEF LedInv, UnseenRequested
<1>7. QED
  BY <1>5, <1>6

LEMMA LedStep == ASSUME LedInv, [LedNext]_ledVars PROVE LedInv'
<1> USE DEF LedInv
<1>1. CASE NotifyPublish
  BY <1>1, SamePattern DEF NotifyPublish, LedTypeOK, UnseenRequested
<1>2. CASE ChangeBits
  BY <1>2, SamePattern DEF ChangeBits, led_c, LedTypeOK, UnseenRequested
<1>3. CASE Tick
  <2>1. UNCHANGED raised
    BY <1>3 DEF Tick
  <2>2. CASE TickStarting
    BY <2>1, <2>2, SamePattern DEF TickStarting, LedTypeOK, UnseenRequested
  <2>3. CASE TickFlash
    <3>1. TicksLeft \in 1 .. FlashTicks
      BY <2>3 DEF TickFlash, TicksLeft, LedTypeOK, FlashTicks
    <3>2. led' \in {"on", "off"} /\ publishTicks' \in 0 .. FlashTicks - 1
      BY <2>3, <3>1 DEF TickFlash, Lit, FlashTicks
    <3>3. UnseenRequested' /\ unseen' \in BOOLEAN
      BY <2>3 DEF TickFlash, UnseenRequested, LedTypeOK
    <3>4. QED
      BY <2>1, <2>3, <3>2, <3>3, SamePattern DEF TickFlash, LedTypeOK
  <2>4. CASE TickQuiet
    BY <2>1, <2>4 DEF TickQuiet, LedTypeOK, PatternInv, PatternShown, UnseenRequested
  <2>5. CASE TickError
    BY <2>1, <2>5, TickErrorInv
  <2>6. QED
    BY <1>3, <2>2, <2>3, <2>4, <2>5 DEF Tick
<1>4. CASE UNCHANGED ledVars
  BY <1>4, SamePattern DEF ledVars, led_c, LedTypeOK, UnseenRequested
<1>5. QED
  BY <1>1, <1>2, <1>3, <1>4 DEF LedNext

\* The invariant holds of the LED through every tick, error and notification.
THEOREM LedInvariant == LedSpec => []LedInv
BY LedStarts, LedStep, PTL DEF LedSpec

\* Ticks and phases stay in range, whatever the errors and the notifications.
THEOREM LedTypeCorrect == LedSpec => []LedTypeOK
<1>1. LedInv => LedTypeOK
  BY DEF LedInv
<1>2. QED
  BY <1>1, LedInvariant, PTL

\* The LED shows each error with its own pattern from the beginning (next_led_state's
\* reset of the phase), after any flashes and any other errors.
THEOREM PatternsTellApart == LedSpec => []PatternShown
<1>1. LedInv => PatternShown
  BY DEF LedInv, PatternInv
<1>2. QED
  BY <1>1, LedInvariant, PTL

\* A notification between any two ticks stands until a flash begins for it.
THEOREM RequestsStand == LedSpec => []RequestStands
<1>1. LedInv => RequestStands
  BY DEF LedInv, UnseenRequested, RequestStands
<1>2. QED
  BY <1>1, LedInvariant, PTL
=============================================================================
