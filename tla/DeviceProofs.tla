---------------------------- MODULE DeviceProofs ----------------------------
(***************************************************************************)
(* Proofs about the two appliances whose state the worker keeps.           *)
(*                                                                         *)
(* Aircon, for every length of a minute in ticks and every longest timer:  *)
(* the two timers stay within a minute of each other, the air conditioner  *)
(* follows the worker, and publications tell of it.                        *)
(*                                                                         *)
(* LampSmart, for every number of rounds and both send modes: the bursts   *)
(* that have been on the air are those of the loop so far, whatever was    *)
(* left on the air before, so that a toggle goes out once.                 *)
(***************************************************************************)
EXTENDS Aircon, LampSmart, TLAPS

(* Rounding *)

LEMMA DivMod ==
    ASSUME NEW a \in Nat, NEW t \in Nat \ {0}
    PROVE  /\ a = (t * (a \div t)) + (a % t)
           /\ (a % t) \in 0 .. t - 1 /\ (a \div t) \in Nat
  OBVIOUS

\* remaining_timer_minutes: the least number of minutes that is not less.
LEMMA Rounding ==
    ASSUME NEW left \in Nat
    PROVE  /\ Minutes(left) \in Nat
           /\ (Minutes(left) - 1) * TicksPerMinute < left
           /\ left <= Minutes(left) * TicksPerMinute
           /\ Minutes(left) * TicksPerMinute < left + TicksPerMinute
           /\ Minutes(left) = 0 <=> left = 0
  <1> DEFINE T == TicksPerMinute
             q == Minutes(left)
             r == (left + T - 1) % T
  <1>1. T \in Nat \ {0} /\ left + T - 1 \in Nat
    BY AirconAssumption
  <1>2. q \in Nat /\ r \in 0 .. T - 1 /\ left + T - 1 = (T * q) + r
    BY <1>1, DivMod DEF Minutes
  <1> HIDE DEF T, q, r
  <1>3. (q - 1) * T < left /\ left <= q * T /\ q * T < left + T
    BY <1>1, <1>2
  <1>4. left > 0 => q # 0
    BY <1>2, <1>3, <1>1
  <1>5. left = 0 => q = 0
    <2>1. SUFFICES ASSUME left = 0, q >= 1 PROVE FALSE
      BY <1>2
    <2>2. (q - 1) * T >= 0
      BY <2>1, <1>1, <1>2
    <2>3. QED
      BY <1>1, <1>2, <1>3, <2>1, <2>2
  <1>6. QED
    BY <1>2, <1>3, <1>4, <1>5 DEF T, q

-----------------------------------------------------------------------------
(* The operations on states *)

LEMMA JobTypes ==
    ASSUME NEW j \in Settings
    PROVE  /\ j.kind \in {"power", "fan", "timer"} /\ j.minutes \in Nat
           /\ j.kind \in {"power", "timer"} => j.value \in Switch
           /\ j.kind = "fan" => j.value \in Fans
  BY AirconAssumption DEF Settings, Request

\* States without a timer have no target.
Consistent(state) == state \in States /\ (state.timer = "none" => state.left = 0)

LEMMA RefreshedState ==
    ASSUME NEW s, Consistent(s)
    PROVE  /\ Consistent(Refreshed(s))
           /\ Refreshed(s).power = s.power /\ Refreshed(s).fan = s.fan
           /\ Refreshed(s).left = s.left
           /\ s.left > 0 => Refreshed(s) = s
           /\ Refreshed(s).timer = "none" <=> s.left = 0
  BY DEF Refreshed, Consistent, States, Timers, Switch

LEMMA SoonerState ==
    ASSUME NEW s, Consistent(s)
    PROVE  /\ Consistent(Sooner(s))
           /\ Sooner(s).power = s.power /\ Sooner(s).fan = s.fan
           /\ Sooner(s).timer = s.timer
           /\ Sooner(s).left = IF s.left > 0 THEN s.left - 1 ELSE 0
  BY DEF Sooner, Consistent, States

LEMMA ChangedState ==
    ASSUME NEW s, Consistent(s), job \in Settings
    PROVE  Consistent(Changed(s))
  <1> USE DEF Consistent, States, Timers
  <1>1. CASE job.kind = "power"
    BY <1>1, JobTypes DEF Changed
  <1>2. CASE job.kind = "fan"
    BY <1>2, JobTypes DEF Changed
  <1>3. CASE job.kind = "timer"
    <2>1. job.minutes * TicksPerMinute \in Nat
      BY JobTypes, AirconAssumption
    <2>2. job.minutes = 0 => job.minutes * TicksPerMinute = 0
      BY AirconAssumption
    <2>3. Changed(s) = [s EXCEPT !.timer = IF job.minutes = 0 THEN "none" ELSE job.value,
                                 !.left = job.minutes * TicksPerMinute]
      BY <1>3 DEF Changed
    <2>4. job.value \in Switch /\ job.value # "none"
      BY <1>3, JobTypes DEF Switch
    <2>5. QED
      BY <2>1, <2>2, <2>3, <2>4
  <1>4. QED
    BY <1>1, <1>2, <1>3, JobTypes

\* make_ir_state, build_state: the air conditioner is given the settings and the
\* minutes left, rounded up.
LEMMA FrameState ==
    ASSUME NEW s, Consistent(s)
    PROVE  /\ Frame(s) \in States
           /\ Frame(s).timer = "none" <=> Frame(s).left = 0
           /\ Frame(s).power = s.power /\ Frame(s).fan = s.fan
           /\ s.left = 0 => Frame(s).left = 0
           /\ s.left > 0 => /\ Frame(s).timer = s.timer
                            /\ s.left <= Frame(s).left
                            /\ Frame(s).left < s.left + TicksPerMinute
  <1> DEFINE minutes == IF s.timer = "none" THEN 0 ELSE Minutes(s.left)
  <1>1. s \in States /\ s.left \in Nat /\ TicksPerMinute \in Nat \ {0}
    BY AirconAssumption DEF Consistent, States
  <1>2. minutes \in Nat /\ (minutes = 0 <=> s.left = 0)
    BY <1>1, Rounding DEF Consistent
  <1>3. minutes * TicksPerMinute \in Nat /\ (minutes * TicksPerMinute = 0 <=> minutes = 0)
    BY <1>1, <1>2
  <1>4. s.left > 0 => s.left <= minutes * TicksPerMinute
                      /\ minutes * TicksPerMinute < s.left + TicksPerMinute
    BY <1>1, Rounding DEF Consistent
  <1> DEFINE frame == [s EXCEPT !.timer = IF minutes = 0 THEN "none" ELSE @,
                                !.left = minutes * TicksPerMinute]
  <1>5. Frame(s) = frame
    BY DEF Frame
  <1> HIDE DEF minutes
  <1>6. frame \in States /\ frame.power = s.power /\ frame.fan = s.fan
        /\ frame.left = minutes * TicksPerMinute
        /\ frame.timer = IF minutes = 0 THEN "none" ELSE s.timer
    BY <1>1, <1>3 DEF States, Timers
  <1>7. s.left > 0 => s.timer # "none"
    BY <1>1 DEF Consistent
  <1> HIDE DEF frame
  <1>8. QED
    BY <1>1, <1>2, <1>3, <1>4, <1>5, <1>6, <1>7 DEF Consistent

-----------------------------------------------------------------------------
(* The invariant *)

\* After the worker's timer has run out, that of the air conditioner has less
\* than a minute left.
Settled == commanded /\ shadow.left = 0 => unit.left < TicksPerMinute

Copies == Consistent(shadow) /\ Consistent(next)

IInv == TypeOK /\ Copies /\ TimerTracked /\ UnitFollows /\ Settled

LEMMA InitInv == Init => IInv
  <1> SUFFICES ASSUME Init PROVE IInv
    OBVIOUS
  <1>1. Consistent(Default)
    BY DEF Default, Consistent, States, Switch, Fans, Timers
  <1>2. job \in Jobs
    BY DEF Init, Jobs, Others
  <1>3. unit \in States
    <2>1. PICK v \in Switch, f \in Fans, t \in Timers, n \in 0 .. MaxMinutes * TicksPerMinute :
            unit = [power |-> v, fan |-> f, timer |-> t, left |-> n]
      BY DEF Init
    <2>2. n \in Nat
      BY AirconAssumption
    <2>3. QED
      BY <2>1, <2>2 DEF States
  <1>4. TypeOK
    <2>1. WorkerOK
      BY <1>1, <1>2 DEF Init, WorkerOK, Consistent, Timers
    <2>2. commanded = FALSE /\ fired = "none"
      BY DEF Init
    <2>3. unit.timer = "none" <=> unit.left = 0
      BY DEF Init
    <2>4. UnitOK
      BY <1>3, <2>2, <2>3 DEF UnitOK, Timers
    <2>5. QED
      BY <2>1, <2>4 DEF TypeOK
  <1>5. shadow.left = 0 /\ ~commanded
    BY DEF Init, Default
  <1>6. QED
    BY <1>1, <1>4, <1>5 DEF Init, IInv, Copies, TimerTracked, UnitFollows, Settled

\* The worker's own steps between two frames: the settings and the time left stay.
LEMMA ShadowKept ==
    ASSUME IInv, UNCHANGED <<unit, commanded, fired>>, shadow' = Refreshed(shadow)
    PROVE  Consistent(shadow)' /\ TimerTracked' /\ UnitFollows' /\ Settled'
  <1>1. /\ Consistent(shadow') /\ shadow'.power = shadow.power
        /\ shadow'.fan = shadow.fan /\ shadow'.left = shadow.left
        /\ shadow.left > 0 => shadow' = shadow
    BY RefreshedState DEF IInv, Copies
  <1>2. QED
    BY <1>1 DEF IInv, TimerTracked, UnitFollows, Settled

LEMMA TakeJobInv == IInv /\ TakeJob => IInv'
  <1> SUFFICES ASSUME IInv, TakeJob PROVE IInv'
    OBVIOUS
  <1>1. Consistent(shadow)' /\ TimerTracked' /\ UnitFollows' /\ Settled'
    BY ShadowKept DEF TakeJob
  <1>2. Consistent(next)'
    BY DEF IInv, Copies, TakeJob
  <1>3. TypeOK'
    BY <1>1 DEF IInv, TypeOK, WorkerOK, UnitOK, TakeJob, Consistent
  <1>4. QED
    BY <1>1, <1>2, <1>3 DEF IInv, Copies

LEMMA ProcessInv == IInv /\ Process => IInv'
  <1> SUFFICES ASSUME IInv, Process PROVE IInv'
    OBVIOUS
  <1>1. Consistent(shadow)' /\ TimerTracked' /\ UnitFollows' /\ Settled'
    BY ShadowKept DEF Process
  <1>2. job \in Jobs /\ Consistent(next)
    BY DEF IInv, TypeOK, WorkerOK, Copies
  <1>3. /\ Consistent(next)' /\ apc' \in {"idle", "send", "publish"}
        /\ apc' = "send" => job \in Settings
    <2>1. CASE job.kind = "report"
      BY <2>1, <1>2 DEF Process
    <2>2. CASE job.kind = "other"
      BY <2>2, <1>2 DEF Process
    <2>3. CASE job.kind \notin {"report", "other"}
      <3>1. job \in Settings
        BY <2>3, <1>2 DEF Jobs, Others, Request
      <3>2. apc' = "send" /\ next' = Changed(shadow')
        BY <2>3 DEF Process
      <3>3. QED
        BY <1>1, <3>1, <3>2, ChangedState
    <2>4. QED
      BY <2>1, <2>2, <2>3
  <1>4. TypeOK'
    BY <1>1, <1>3 DEF IInv, TypeOK, WorkerOK, UnitOK, Process, Consistent
  <1>5. QED
    BY <1>1, <1>3, <1>4 DEF IInv, Copies

\* The frame is what makes the two timers agree again.
LEMMA SendInv == IInv /\ Send => IInv'
  <1> SUFFICES ASSUME IInv, Send PROVE IInv'
    OBVIOUS
  <1>1. /\ Consistent(next) /\ unit' = Frame(next) /\ shadow' = next /\ next' = next
        /\ commanded' = TRUE /\ fired' = "none" /\ apc' = "publish"
        /\ job' = job /\ published' = published
    BY DEF IInv, Copies, Send
  <1>2. next.left \in Nat /\ TicksPerMinute \in Nat \ {0}
    BY <1>1, AirconAssumption DEF Consistent, States
  <1>3. TypeOK'
    BY <1>1, FrameState DEF IInv, TypeOK, WorkerOK, UnitOK, Consistent, Timers
  <1>4. TimerTracked' /\ UnitFollows' /\ Settled'
    BY <1>1, <1>2, FrameState DEF TimerTracked, UnitFollows, Settled
  <1>5. QED
    BY <1>1, <1>3, <1>4 DEF IInv, Copies

LEMMA PublishInv == IInv /\ Publish => IInv'
  <1> SUFFICES ASSUME IInv, Publish PROVE IInv'
    OBVIOUS
  <1>1. Consistent(shadow)' /\ TimerTracked' /\ UnitFollows' /\ Settled'
    BY ShadowKept DEF Publish
  <1>2. Consistent(next)'
    BY DEF IInv, Copies, Publish
  <1>3. shadow'.timer \in Timers /\ Minutes(shadow.left) \in Nat
    BY <1>1, Rounding DEF IInv, Copies, Consistent, States
  <1>4. TypeOK'
    BY <1>1, <1>3 DEF IInv, TypeOK, WorkerOK, UnitOK, Publish, Consistent
  <1>5. QED
    BY <1>1, <1>2, <1>4 DEF IInv, Copies

\* Time passes for both: the air conditioner's timer runs out no earlier.
LEMMA TickInv == IInv /\ Tick => IInv'
  <1> SUFFICES ASSUME IInv, Tick PROVE IInv'
    OBVIOUS
  <1>1. /\ Consistent(shadow') /\ Consistent(next')
        /\ shadow'.power = shadow.power /\ shadow'.fan = shadow.fan
        /\ shadow'.timer = shadow.timer
        /\ shadow'.left = IF shadow.left > 0 THEN shadow.left - 1 ELSE 0
    BY SoonerState DEF IInv, Copies, Tick
  <1>2. unit \in States /\ unit.left \in Nat /\ shadow.left \in Nat
        /\ (unit.timer = "none" <=> unit.left = 0) /\ TicksPerMinute \in Nat \ {0}
    BY AirconAssumption DEF IInv, TypeOK, UnitOK, Copies, Consistent, States
  <1>3. CASE unit.left = 1
    <2>1. unit' = [unit EXCEPT !.power = unit.timer, !.timer = "none", !.left = 0]
          /\ fired' = unit.timer
      BY <1>3 DEF Tick, Counted
    <2>2. unit.timer \in Switch /\ unit.timer # "none"
      BY <1>2, <1>3 DEF States, Timers
    <2>3. /\ unit' \in States /\ unit'.power = unit.timer /\ unit'.fan = unit.fan
          /\ unit'.timer = "none" /\ unit'.left = 0
      BY <1>2, <2>1, <2>2 DEF States, Timers
    <2>4. shadow'.left = 0
      BY <1>1, <1>2, <1>3 DEF IInv, TimerTracked
    <2>5. TypeOK'
      BY <1>1, <2>1, <2>2, <2>3 DEF IInv, TypeOK, WorkerOK, UnitOK, Tick, Consistent, Timers
    <2>6. TimerTracked' /\ UnitFollows' /\ Settled'
      BY <1>1, <1>2, <2>1, <2>2, <2>3, <2>4
         DEF IInv, TimerTracked, UnitFollows, Settled, Tick
    <2>7. QED
      BY <1>1, <2>5, <2>6 DEF IInv, Copies
  <1>4. CASE unit.left # 1
    <2>1. unit' = Sooner(unit) /\ fired' = fired
      BY <1>4 DEF Tick, Counted
    <2>2. Consistent(unit)
      BY <1>2 DEF Consistent
    <2>3. /\ unit' \in States /\ unit'.power = unit.power /\ unit'.fan = unit.fan
          /\ unit'.timer = unit.timer
          /\ unit'.left = IF unit.left > 0 THEN unit.left - 1 ELSE 0
      BY <2>1, <2>2, SoonerState DEF Consistent
    <2>4. unit'.timer = "none" <=> unit'.left = 0
      BY <1>2, <1>4, <2>3
    <2>5. TypeOK'
      BY <1>1, <2>1, <2>3, <2>4 DEF IInv, TypeOK, WorkerOK, UnitOK, Tick, Consistent
    <2>6. TimerTracked' /\ UnitFollows' /\ Settled'
      BY <1>1, <1>2, <2>1, <2>3 DEF IInv, TimerTracked, UnitFollows, Settled, Tick
    <2>7. QED
      BY <1>1, <2>5, <2>6 DEF IInv, Copies
  <1>5. QED
    BY <1>3, <1>4

LEMMA RestartInv == IInv /\ Restart => IInv'
  <1> SUFFICES ASSUME IInv, Restart PROVE IInv'
    OBVIOUS
  <1>1. Consistent(Default) /\ Default.left = 0
    BY DEF Default, Consistent, States, Switch, Fans, Timers
  <1>2. TypeOK'
    BY <1>1 DEF IInv, TypeOK, WorkerOK, UnitOK, Restart, Consistent, Timers
  <1>3. QED
    BY <1>1, <1>2 DEF IInv, Copies, TimerTracked, UnitFollows, Settled, Restart

LEMMA InvStep == IInv /\ [Next]_vars => IInv'
  <1>1. CASE UNCHANGED vars
    BY <1>1 DEF IInv, TypeOK, WorkerOK, UnitOK, Copies, Consistent, TimerTracked,
                UnitFollows, Settled, vars, worker
  <1>2. QED
    BY <1>1, TakeJobInv, ProcessInv, SendInv, PublishInv, TickInv, RestartInv DEF Next

LEMMA InvHolds == Spec => []IInv
  BY InitInv, InvStep, PTL DEF Spec

-----------------------------------------------------------------------------
(* The theorems *)

\* The types of the variables, for every longest timer.
THEOREM TypeCorrect == Spec => []TypeOK
  BY InvHolds, PTL DEF IInv

\* However often a command sends the remaining time again, the timer of the air
\* conditioner is never early and less than a minute late.
THEOREM TimersWithinAMinute == Spec => []TimerTracked
  BY InvHolds, PTL DEF IInv

\* The air conditioner differs from s_aircon only by what its timer did.
THEOREM AirconFollows == Spec => []UnitFollows
  BY InvHolds, PTL DEF IInv

\* A publication reads the clock after the frame was built and still tells of the
\* timer in the air conditioner within a minute.
THEOREM PublicationsTell == Spec => ReportsTimer
  <1> DEFINE Told == Published =>
         IF published'.timer = "none" THEN unit.left < TicksPerMinute
         ELSE /\ unit.timer = published'.timer
              /\ (published'.remaining - 1) * TicksPerMinute < unit.left
              /\ unit.left < (published'.remaining + 1) * TicksPerMinute
  <1>1. IInv /\ [Next]_vars => [Told]_vars
    <2> SUFFICES ASSUME IInv, Next, Published PROVE Told
      BY DEF vars
    <2>1. Publish
      BY DEF Next, Published, TakeJob, Process, Send, Tick, Restart
    <2>2. Consistent(shadow) /\ shadow.left \in Nat /\ TicksPerMinute \in Nat \ {0}
          /\ unit.left \in Nat
      BY AirconAssumption DEF IInv, Copies, Consistent, States, TypeOK, UnitOK
    <2>3. published'.timer = Refreshed(shadow).timer
          /\ published'.remaining = Minutes(shadow.left)
      BY <2>1 DEF Publish
    <2>4. CASE shadow.left = 0
      BY <2>2, <2>3, <2>4, RefreshedState DEF IInv, Settled, Published
    <2>5. CASE shadow.left > 0
      <3> DEFINE q == Minutes(shadow.left)
      <3>1. published'.timer = shadow.timer /\ published'.timer # "none"
            /\ published'.remaining = q
        BY <2>2, <2>3, <2>5, RefreshedState
      <3>2. unit.timer = shadow.timer /\ shadow.left <= unit.left
            /\ unit.left < shadow.left + TicksPerMinute
        BY <2>5 DEF IInv, TimerTracked
      <3>3. q \in Nat /\ (q - 1) * TicksPerMinute < shadow.left
            /\ shadow.left <= q * TicksPerMinute
        BY <2>2, Rounding
      <3> HIDE DEF q
      <3>4. (q - 1) * TicksPerMinute < unit.left /\ unit.left < (q + 1) * TicksPerMinute
        BY <2>2, <3>2, <3>3
      <3>5. QED
        BY <3>1, <3>2, <3>4
    <2>6. QED
      BY <2>2, <2>4, <2>5
  <1>2. QED
    BY <1>1, InvHolds, PTL DEF Spec, ReportsTimer

-----------------------------------------------------------------------------
(* The light command *)

\* What the loop has sent of the variant in place i before the current frame.
Past(i) == IF Ending THEN RepeatCount(command) ELSE IF i < place THEN round ELSE round - 1

\* The current frame has begun its burst: early if an old one was on the air.
Begun == lpc = "air" \/ (lpc = "enable" /\ radio.on)

CountInv ==
    lpc # "idle" =>
      /\ \A i \in Places : bursts[Variants[i]] =
                           IF ~Ending /\ i = place /\ Begun THEN Past(i) + 1 ELSE Past(i)
      /\ bursts[Flags] = IF Ending /\ Begun THEN 1 ELSE 0

BoundInv == /\ \A i \in Places : bursts[Variants[i]] <= RepeatCount(command)
            /\ bursts[Flags] <= 1

RadioInv == /\ OnAirIsKnown
            /\ lpc # "idle" => opened
            /\ lpc = "air" => advertising
            /\ lpc \in {"params", "data", "enable"} => ~advertising
            /\ lpc = "enable" => radio.frame = Current

LampInv == DriverOK /\ RadioInv /\ CountInv /\ BoundInv /\ SentIsSent

\* Either send mode has a first frame, and no two of the frames are the same.
LEMMA VariantFacts ==
    /\ Len(Variants) \in 1 .. 2 /\ Rounds \in Nat \ {0}
    /\ \A i \in Places : Variants[i] \in Frames /\ Variants[i] # Flags
    /\ \A i, j \in Places : Variants[i] = Variants[j] => i = j
    /\ Flags \in Frames /\ 1 \in Places
    /\ \A f \in Frames : f = Flags \/ \E i \in Places : f = Variants[i]
<1>1. CASE Variants = <<"F008">>
  BY <1>1, LampAssumption DEF Places, Frames, Flags
<1>2. CASE Variants = <<"F008", "77F8">>
  BY <1>2, LampAssumption DEF Places, Frames, Flags
<1> QED
  BY <1>1, <1>2, LampAssumption

LEMMA CountFacts ==
    ASSUME NEW kind
    PROVE  RepeatCount(kind) \in Nat \ {0} /\ RepeatCount("night") = 1
BY VariantFacts DEF RepeatCount

LEMMA CurrentFrame == DriverOK => Current \in Frames
BY VariantFacts DEF DriverOK, Current

LEMMA LampInitInv == LampInit => LampInv
<1> SUFFICES ASSUME LampInit PROVE LampInv
  OBVIOUS
<1> USE VariantFacts, CountFacts DEF LampInit, NoBursts
<1>1. DriverOK
  <2>1. bursts \in [Frames -> Nat] /\ radio \in [on : BOOLEAN, frame : Frames]
    OBVIOUS
  <2>2. round \in 1 .. RepeatCount(command) + 1
    OBVIOUS
  <2> QED
    BY <2>1, <2>2 DEF DriverOK
<1>2. RadioInv
  BY DEF RadioInv, OnAirIsKnown
<1>3. CountInv /\ BoundInv /\ SentIsSent
  BY DEF CountInv, BoundInv, SentIsSent
<1> QED
  BY <1>1, <1>2, <1>3 DEF LampInv

LEMMA BeginInv ==
    ASSUME LampInv, NEW kind \in {"night", "plain"}, Begin(kind)
    PROVE  LampInv'
<1> USE VariantFacts, CountFacts DEF LampInv, Begin, NoBursts
<1>1. DriverOK'
  <2>1. (round \in 1 .. RepeatCount(command) + 1)'
    OBVIOUS
  <2>2. bursts' \in [Frames -> Nat]
    OBVIOUS
  <2> QED
    BY <2>1, <2>2 DEF DriverOK
<1>2. RadioInv'
  BY DEF RadioInv, OnAirIsKnown
<1>3. CountInv'
  <2>1. lpc' = "idle" \/ (lpc' = "stop" /\ ~Begun')
    BY DEF Begun
  <2>2. ~Ending' /\ \A i \in Places : Past(i)' = 0
    BY DEF Ending, Past, Places
  <2>3. bursts'[Flags] = 0 /\ \A i \in Places : bursts'[Variants[i]] = 0
    OBVIOUS
  <2> QED
    BY <2>1, <2>2, <2>3 DEF CountInv
<1>4. BoundInv' /\ SentIsSent'
  BY DEF BoundInv, SentIsSent
<1> QED
  BY <1>1, <1>2, <1>3, <1>4

LEMMA EndsInv ==
    ASSUME LampInv, HciFails \/ LampRestart
    PROVE  LampInv'
<1> USE VariantFacts, CountFacts DEF LampInv, HciFails, LampRestart, sequence
<1>1. DriverOK'
  BY DEF DriverOK
<1>2. RadioInv'
  BY DEF RadioInv, OnAirIsKnown
<1>3. BoundInv' /\ CountInv' /\ SentIsSent'
  BY DEF BoundInv, CountInv, SentIsSent
<1> QED
  BY <1>1, <1>2, <1>3

\* The commands before the frame is on the air.
LEMMA PrepareInv ==
    ASSUME LampInv, Stop \/ Params
    PROVE  LampInv'
<1> USE VariantFacts, CountFacts DEF LampInv, Stop, Params, StopRadio, sequence
<1>1. DriverOK'
  BY DEF DriverOK
<1>2. RadioInv'
  BY DEF RadioInv, OnAirIsKnown, DriverOK
<1>3. CountInv'
  BY DEF CountInv, Ending, Past, Begun
<1>4. BoundInv' /\ SentIsSent'
  BY DEF BoundInv, SentIsSent
<1> QED
  BY <1>1, <1>2, <1>3, <1>4

\* A burst of the current frame, when none of it has begun.
LEMMA BurstLemma ==
    ASSUME LampInv, Burst(Current), UNCHANGED sequence, lpc # "idle", ~Begun, lpc' # "idle", Begun'
    PROVE  CountInv' /\ BoundInv' /\ bursts' \in [Frames -> Nat]
<1> USE VariantFacts, CountFacts, CurrentFrame DEF LampInv, sequence
<1>1. bursts' \in [Frames -> Nat]
  BY DEF DriverOK, Burst
<1>2. CASE Ending
  <2>1. Current = Flags
    BY <1>2 DEF Current
  <2>2. bursts'[Flags] = 1 /\ \A i \in Places : bursts'[Variants[i]] = bursts[Variants[i]]
    BY <1>2, <2>1 DEF Burst, DriverOK, CountInv
  <2>3. CountInv'
    BY <1>2, <2>2 DEF CountInv, Ending, Past
  <2> QED
    BY <1>1, <1>2, <2>2, <2>3 DEF BoundInv
<1>3. CASE ~Ending
  <2>1. Current = Variants[place] /\ place \in Places
    BY <1>3 DEF Current, DriverOK
  <2>2. /\ bursts'[Variants[place]] = bursts[Variants[place]] + 1
        /\ bursts'[Flags] = bursts[Flags]
        /\ \A i \in Places \ {place} : bursts'[Variants[i]] = bursts[Variants[i]]
    BY <2>1 DEF Burst, DriverOK
  <2>3. CountInv'
    BY <1>3, <2>1, <2>2 DEF CountInv, Ending, Past
  <2>4. bursts[Variants[place]] = round - 1 /\ round <= RepeatCount(command)
    BY <1>3, <2>1 DEF CountInv, Past, Ending, DriverOK, Places
  <2> QED
    BY <1>1, <2>1, <2>2, <2>3, <2>4 DEF BoundInv, DriverOK
<1> QED
  BY <1>2, <1>3

\* configure_advertising_data: on the air at once if an old frame is there.
LEMMA DataInv ==
    ASSUME LampInv, Data
    PROVE  LampInv'
<1> USE VariantFacts, CountFacts, CurrentFrame DEF LampInv, Data, sequence
<1>1. radio' \in [on : BOOLEAN, frame : Frames] /\ radio'.on = radio.on /\ radio'.frame = Current
  BY DEF DriverOK
<1>2. RadioInv'
  BY <1>1 DEF RadioInv, OnAirIsKnown, Current, Ending
<1>3. SentIsSent'
  BY DEF SentIsSent
<1>4. CASE radio.on
  <2>1. CountInv' /\ BoundInv' /\ bursts' \in [Frames -> Nat]
    BY <1>1, <1>4, BurstLemma DEF Begun
  <2> QED
    BY <1>1, <1>2, <1>3, <2>1 DEF DriverOK
<1>5. CASE ~radio.on
  <2>1. UNCHANGED <<sequence, bursts>> /\ ~Begun /\ ~Begun'
    BY <1>1, <1>5 DEF Begun
  <2>2. CountInv' /\ BoundInv'
    BY <2>1 DEF CountInv, BoundInv, Ending, Past
  <2> QED
    BY <1>1, <1>2, <1>3, <2>1, <2>2 DEF DriverOK
<1> QED
  BY <1>4, <1>5

\* set_advertising_enable: no new burst of a frame that is already there.
LEMMA EnableInv ==
    ASSUME LampInv, Enable
    PROVE  LampInv'
<1> USE VariantFacts, CountFacts DEF LampInv, Enable, sequence
<1>1. radio' \in [on : BOOLEAN, frame : Frames] /\ radio'.on /\ advertising'
  BY DEF DriverOK
<1>2. RadioInv'
  BY <1>1 DEF RadioInv, OnAirIsKnown
<1>3. SentIsSent'
  BY DEF SentIsSent
<1>4. CASE radio.on
  <2>1. UNCHANGED <<sequence, bursts>> /\ Begun /\ Begun'
    BY <1>4 DEF Begun
  <2>2. CountInv' /\ BoundInv'
    BY <2>1 DEF CountInv, BoundInv, Ending, Past
  <2> QED
    BY <1>1, <1>2, <1>3, <2>1, <2>2 DEF DriverOK
<1>5. CASE ~radio.on
  <2>1. Burst(Current) /\ ~Begun /\ Begun'
    BY <1>5 DEF Begun, RadioInv
  <2>2. CountInv' /\ BoundInv' /\ bursts' \in [Frames -> Nat]
    BY <2>1, BurstLemma
  <2> QED
    BY <1>1, <1>2, <1>3, <2>2 DEF DriverOK
<1> QED
  BY <1>4, <1>5

\* The end of an advertisement: the loop's count is one higher for its frame.
LEMMA AirEndsInv ==
    ASSUME LampInv, AirEnds
    PROVE  LampInv'
<1> USE VariantFacts, CountFacts DEF LampInv, AirEnds
<1>1. /\ advertising' = FALSE /\ radio' = [radio EXCEPT !.on = FALSE] /\ inherited' = FALSE
      /\ UNCHANGED <<command, opened, bursts>>
  BY DEF StopRadio, RadioInv
<1>2. radio' \in [on : BOOLEAN, frame : Frames] /\ ~radio'.on
  BY <1>1 DEF DriverOK
<1>3. Begun /\ BoundInv' /\ lpc' \in {"idle", "stop"}
  BY <1>1 DEF Begun, BoundInv, NextFrame
<1>4. RadioInv'
  BY <1>1, <1>2, <1>3 DEF RadioInv, OnAirIsKnown
<1>5. CASE Ending
  <2>1. lpc' = "idle" /\ result' = "ok" /\ round' = round /\ place' = place
    BY <1>5 DEF NextFrame
  <2>2. \A i \in Places : bursts[Variants[i]] = RepeatCount(command)
    BY <1>5 DEF CountInv, Past
  <2>3. CountInv' /\ SentIsSent'
    BY <1>1, <1>2, <2>1, <2>2 DEF CountInv, SentIsSent
  <2> QED
    BY <1>1, <1>2, <1>3, <1>4, <2>1, <2>3 DEF DriverOK
<1>6. CASE ~Ending
  <2>1. /\ lpc' = "stop" /\ result' = result
        /\ round \in 1 .. RepeatCount(command) /\ place \in Places
        /\ \/ place < Len(Variants) /\ place' = place + 1 /\ round' = round
           \/ place = Len(Variants) /\ place' = 1 /\ round' = round + 1
    <3>1. round \in 1 .. RepeatCount(command) + 1 /\ ~(round > RepeatCount(command))
      BY <1>6 DEF Ending, DriverOK
    <3>2. place \in Places
      BY DEF DriverOK
    <3> QED
      BY <1>6, <3>1, <3>2 DEF NextFrame, Places
  <2>2. /\ \A i \in Places : bursts[Variants[i]] = IF i <= place THEN round ELSE round - 1
        /\ bursts[Flags] = 0
    BY <1>3, <1>6, <2>1 DEF CountInv, Past, Places
  <2>3. \A i \in Places : bursts[Variants[i]] = Past(i)'
    BY <1>1, <2>1, <2>2 DEF Past, Ending, Places
  <2>4. CountInv' /\ SentIsSent'
    BY <1>1, <2>1, <2>2, <2>3 DEF CountInv, SentIsSent, Begun
  <2>5. DriverOK'
    <3>1. place' \in Places /\ round' \in 1 .. RepeatCount(command) + 1
      BY <2>1 DEF Places
    <3> QED
      BY <1>1, <1>2, <2>1, <3>1 DEF DriverOK
  <2> QED
    BY <1>3, <1>4, <2>4, <2>5
<1> QED
  BY <1>5, <1>6

LEMMA LampStepInv == LampInv /\ [LampNext]_lampVars => LampInv'
<1> SUFFICES ASSUME LampInv, [LampNext]_lampVars PROVE LampInv'
  OBVIOUS
<1>1. CASE UNCHANGED lampVars
  <2>1. UNCHANGED <<lpc, command, round, place, result, opened, advertising, radio, bursts, inherited>>
    BY <1>1 DEF lampVars, driver, sequence
  <2>2. DriverOK' /\ RadioInv' /\ SentIsSent'
    BY <2>1 DEF LampInv, DriverOK, RadioInv, OnAirIsKnown, Current, Ending, SentIsSent
  <2>3. CountInv' /\ BoundInv'
    BY <2>1 DEF LampInv, CountInv, BoundInv, Ending, Past, Begun
  <2> QED
    BY <2>2, <2>3 DEF LampInv
<1> QED
  BY <1>1, BeginInv, EndsInv, PrepareInv, DataInv, EnableInv, AirEndsInv DEF LampNext

LEMMA LampInvHolds == LampSpec => []LampInv
BY LampInitInv, LampStepInv, PTL DEF LampSpec

\* The types of the driver: the loop never leaves the frames it has.
THEOREM LampTypeCorrect == LampSpec => []DriverOK
<1>1. LampInv => DriverOK
  BY DEF LampInv
<1> QED
  BY <1>1, LampInvHolds, PTL

\* A frame left on the air is known to the driver, or an earlier process's.
THEOREM NothingUnknownOnAir == LampSpec => []OnAirIsKnown
<1>1. LampInv => OnAirIsKnown
  BY DEF LampInv, RadioInv
<1> QED
  BY <1>1, LampInvHolds, PTL

\* No frame of the night light's toggle goes on the air twice, whatever fails
\* and whatever an earlier process left there.
THEOREM NightToggledOnce == LampSpec => []NightOnce
<1>1. LampInv => NightOnce
  BY VariantFacts, CountFacts DEF LampInv, BoundInv, NightOnce
<1> QED
  BY <1>1, LampInvHolds, PTL

\* A light command that returns success has been sent in every frame and round,
\* and has left the air silent.
THEOREM SuccessIsSent == LampSpec => []SentIsSent
<1>1. LampInv => SentIsSent
  BY DEF LampInv
<1> QED
  BY <1>1, LampInvHolds, PTL
=============================================================================
