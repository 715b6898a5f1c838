-------------------------- MODULE ControllerProofs --------------------------
(***************************************************************************)
(* The MQTT task against any device worker (MqttSession), then the whole   *)
(* program (Controller): for any lengths of the queues, retry limits,      *)
(* settings files and commands.                                            *)
(***************************************************************************)
EXTENDS LifecycleProofs, Controller, MqttSession

-----------------------------------------------------------------------------
(* The event bits *)

\* BitsAgree, and where the task is when the error bit must be clear: only then may
\* it set the other.
BitsInv == /\ BitsAgree
           /\ mpc \in {"announce"} \cup Connected => "MQTT_ERROR" \notin events

LEMMA BitsStep ==
    ASSUME BitsInv, MqttStep \/ MessageCallback
    PROVE  BitsInv'
<1> USE DEF BitsInv, BitsAgree, Connected, Enter, SessionUnchanged, SetBits, ClearBits
<1>1. CASE TimeSync
  BY <1>1 DEF TimeSync
<1>2. CASE Connect \/ SubscribeFailed
  BY <1>2 DEF Connect, SubscribeFailed
<1>3. CASE Subscribed
  BY <1>3 DEF Subscribed
<1>4. CASE Announce
  BY <1>4 DEF Announce
<1>5. CASE RequestInitialPublish
  BY <1>5 DEF RequestInitialPublish
<1>6. CASE Drain \/ Published \/ PublishFailed \/ WaitMessage
  BY <1>6 DEF Drain, Published, PublishFailed, WaitMessage
<1>7. CASE ClearConnected \/ CloseSession
  BY <1>7 DEF ClearConnected, CloseSession
<1>8. CASE CountFailure \/ RetryDelay
  BY <1>8 DEF CountFailure, RetryDelay
<1>9. CASE MessageCallback
  BY <1>9 DEF MessageCallback
<1>10. QED
  BY <1>1, <1>2, <1>3, <1>4, <1>5, <1>6, <1>7, <1>8, <1>9 DEF MqttStep

LEMMA BitsStart == ASSUME InitResources, InitMqtt PROVE BitsInv
BY DEF InitResources, InitMqtt, InitEvents, BitsInv, BitsAgree, Connected

\* Whatever the other tasks do, nobody ever sees both the bit of a session and the
\* bit of an error, nor the bit of a session when there is none.
THEOREM BitsAlwaysAgree == SessionSpec => []BitsAgree
<1>1. SessionInit => BitsInv
  BY BitsStart DEF SessionInit
<1>2. BitsInv /\ [SessionNext]_sessionVars => BitsInv'
  <2>1. ASSUME BitsInv, UNCHANGED <<events, mpc>>
        PROVE  BitsInv'
    BY <2>1 DEF BitsInv, BitsAgree, Connected
  <2>2. QED
    BY <2>1, BitsStep DEF SessionNext, OtherTasks, sessionVars, resources, mqtt
<1>3. BitsInv => BitsAgree
  BY DEF BitsInv
<1>4. QED
  BY <1>1, <1>2, <1>3, PTL DEF SessionSpec

-----------------------------------------------------------------------------
(* The pause between attempts *)

\* s_failure_count is the length of the streak, up to where it saturates; the pause
\* of an attempt under way was chosen by it.
RetryInv == /\ streak \in 0 .. FastRetryFailures + 1
            /\ failed = IF streak >= FastRetryFailures THEN FastRetryFailures ELSE streak
            /\ once \in BOOLEAN
            /\ once => streak = 0
            /\ RetryPolicy

LEMMA RetryStep ==
    ASSUME RetryInv, SessionNext
    PROVE  RetryInv'
<1> USE MqttAssumption DEF RetryInv, RetryPolicy, Enter, SessionUnchanged
<1>1. CASE MqttStep /\ CountStreak
  <2>1. CASE Subscribed
    BY <1>1, <2>1 DEF Subscribed, CountStreak
  <2>2. CASE CountFailure
    BY <1>1, <2>2 DEF CountFailure, CountStreak
  <2>3. CASE RetryDelay
    BY <1>1, <2>3 DEF RetryDelay, CountStreak
  <2>4. CASE \/ TimeSync \/ Connect \/ SubscribeFailed \/ Announce \/ ClearConnected
             \/ WaitMessage
    BY <1>1, <2>4 DEF TimeSync, Connect, SubscribeFailed, Announce, ClearConnected,
       WaitMessage, CountStreak
  <2>5. CASE RequestInitialPublish \/ Drain \/ Published \/ PublishFailed \/ CloseSession
    BY <1>1, <2>5 DEF RequestInitialPublish, Drain, Published, PublishFailed,
       CloseSession, CountStreak
  <2>6. QED
    BY <1>1, <2>1, <2>2, <2>3, <2>4, <2>5 DEF MqttStep
<1>2. CASE MessageCallback /\ UNCHANGED streak
  BY <1>2 DEF MessageCallback
<1>3. CASE OtherTasks
  BY <1>3 DEF OtherTasks, mqtt
<1>4. QED
  BY <1>1, <1>2, <1>3 DEF SessionNext

\* The long pause is taken exactly after FastRetryFailures attempts in a row without
\* a session (s_failure_count, connected_once and retry_ms of mqtt_task_main).
THEOREM LongPauseAfterStreak == SessionSpec => []RetryPolicy
<1>1. ASSUME SessionInit PROVE RetryInv
  <2>1. mpc = "offline" /\ once = FALSE /\ failed = 0 /\ streak = 0
    BY <1>1 DEF SessionInit, InitMqtt
  <2>2. QED
    <3>1. failed = IF streak >= FastRetryFailures THEN FastRetryFailures ELSE streak
      BY <2>1, MqttAssumption
    <3>2. streak \in 0 .. FastRetryFailures + 1
      BY <2>1, MqttAssumption
    <3>3. once \in BOOLEAN /\ (once => streak = 0)
      BY <2>1
    <3>4. RetryPolicy
      BY <2>1 DEF RetryPolicy
    <3>5. QED
      BY <3>1, <3>2, <3>3, <3>4 DEF RetryInv
<1>2. RetryInv /\ UNCHANGED sessionVars => RetryInv'
  BY DEF RetryInv, RetryPolicy, sessionVars, mqtt
<1>3. RetryInv => RetryPolicy
  BY DEF RetryInv
<1>4. QED
  BY <1>1, <1>2, <1>3, RetryStep, PTL DEF SessionSpec

-----------------------------------------------------------------------------
(* The types of the program *)

\* The types the runs check; the jobs in the queue, which the worker will process,
\* are typed by WorkerInv.
ControlInv == WorkerInv /\ MqttTypeOK

LEMMA EnqueueTyped ==
    ASSUME lost \subseteq Devices, owed \subseteq Devices,
           NEW p, EnqueuePublish(p)
    PROVE  lost' \subseteq Devices /\ owed' \subseteq Devices
BY DEF EnqueuePublish, DevicesIn

LEMMA MqttStepTyped ==
    ASSUME MqttTypeOK, devq \in Seq(Jobs), MqttStep \/ MessageCallback
    PROVE  MqttTypeOK' /\ devq' \in Seq(Jobs)
<1> USE MqttAssumption DEF MqttTypeOK, MqttLabels, Enter, SessionUnchanged,
        QueuesUnchanged
<1>0. /\ \A bits \in SUBSET EventBits : events \cup bits \subseteq EventBits
      /\ \A bits : events \ bits \subseteq EventBits
  OBVIOUS
<1>1. CASE TimeSync \/ Connect \/ SubscribeFailed
  BY <1>1 DEF TimeSync, Connect, SubscribeFailed, publishing
<1>2. CASE Subscribed \/ Announce \/ RequestInitialPublish
  <2>1. events' \subseteq EventBits
    <3>1. /\ {"MQTT_CONNECTED"} \in SUBSET EventBits
          /\ {"INITIAL_COMPLETE"} \in SUBSET EventBits
      BY DEF EventBits
    <3>2. QED
      BY <1>0, <1>2, <3>1
         DEF Subscribed, Announce, RequestInitialPublish, SetBits, ClearBits
  <2>2. CASE Subscribed
    BY <2>1, <2>2 DEF Subscribed, publishing
  <2>3. CASE Announce
    BY <2>1, <2>3 DEF Announce, publishing
  <2>4. CASE RequestInitialPublish
    BY <2>1, <2>4 DEF RequestInitialPublish, EnqueueDeviceJob, Jobs
  <2>5. QED
    BY <1>2, <2>2, <2>3, <2>4
<1>3. CASE Drain \/ Published \/ WaitMessage \/ ClearConnected
  BY <1>3 DEF Drain, Published, WaitMessage, ClearConnected, ClearBits, publishing
<1>4. CASE PublishFailed \/ CloseSession
  BY <1>4 DEF PublishFailed, CloseSession, ResetPublishQueue, DevicesIn
<1>5. CASE CountFailure \/ RetryDelay
  <2>1. events' \subseteq EventBits
    <3>1. {"MQTT_ERROR"} \in SUBSET EventBits
      BY DEF EventBits
    <3>2. QED
      BY <1>0, <1>5, <3>1 DEF CountFailure, RetryDelay, SetBits
  <2>2. CASE CountFailure
    BY <2>1, <2>2 DEF CountFailure, publishing
  <2>3. CASE RetryDelay
    BY <2>1, <2>3 DEF RetryDelay, publishing
  <2>4. QED
    BY <1>5, <2>2, <2>3
<1>6. CASE MessageCallback
  <2>1. \/ UNCHANGED <<devq, publishing>>
        \/ /\ UNCHANGED devq
           /\ \E p : EnqueuePublish(p)
        \/ UNCHANGED publishing /\ (\E m \in Commands : EnqueueDeviceJob(m))
    BY <1>6 DEF MessageCallback
  <2>2. devq' \in Seq(Jobs)
    BY <2>1, CommandsAssumption DEF EnqueueDeviceJob, Jobs
  <2>3. lost' \subseteq Devices /\ owed' \subseteq Devices
    BY <2>1, EnqueueTyped DEF publishing
  <2>4. QED
    BY <1>6, <2>2, <2>3 DEF MessageCallback
<1>7. QED
  BY <1>1, <1>2, <1>3, <1>4, <1>5, <1>6 DEF MqttStep

\* What a step of the worker does to the publish queue and to what its publications
\* are about: nothing; or it disables the switch, which it is yet to publish; or it
\* publishes one device, with the state it has after the step.
\* Once the failures have disabled the switch, the worker is bound to publish it.
DisablingGoesOn ==
    wpc \in {"save", "write"} /\ save.done = "disabled" => save.failed = "disabled"

Publications == [device : Devices \cup {"reply"}, state : States]

StateKept(d) == StateOf(d)' = StateOf(d) /\ Outrun(d)' = Outrun(d)

Publishes(d) == /\ EnqueuePublish(Publication(d, StateOf(d)'))
                /\ \A e \in Devices \ {d} : StateKept(e)
                /\ Exempt => d = "switch"
                /\ ~Exempt'

StatesTyped == \A d \in Devices : StateOf(d) \in States

LEMMA StateTyped == WorkerTypeOK => StatesTyped
<1> SUFFICES ASSUME WorkerTypeOK, NEW d \in Devices
             PROVE  StateOf(d) \in States
  BY DEF StatesTyped
<1>1. CASE d = "aircon"
  BY <1>1 DEF WorkerTypeOK, StateOf, States, AirconState, OnOff
<1>2. CASE d = "light"
  BY <1>2 DEF WorkerTypeOK, StateOf, States
<1>3. CASE d = "switch"
  BY <1>3 DEF StateOf, States, SwitchState, OnOff
<1>4. QED
  BY <1>1, <1>2, <1>3 DEF Devices

LEMMA StateTypedAfter == WorkerTypeOK' => StatesTyped'
BY StateTyped, PTL

LEMMA PublicationTyped ==
    ASSUME WorkerTypeOK', NEW d \in Devices
    PROVE  Publication(d, StateOf(d)') \in Publications
BY StateTypedAfter DEF StatesTyped, Publication, Publications

\* To clear a timer that is due changes neither what the payload would tell nor what
\* the broker may still have been told.
LEMMA AirconKept ==
    ASSUME aircon \in AirconStates, aircon' \in {aircon, Refreshed(aircon)}
    PROVE  StateKept("aircon")
<1>1. CASE aircon' = aircon
  BY <1>1 DEF StateKept, StateOf, Outrun
<1>2. CASE aircon.timer = "due" /\ aircon' = [aircon EXCEPT !.timer = "cleared"]
  BY <1>2 DEF AirconStates, StateKept, StateOf, Outrun, AirconState, OnOff
<1>3. QED
  BY <1>1, <1>2 DEF Refreshed

LEMMA OtherKept ==
    /\ UNCHANGED light => StateKept("light")
    /\ UNCHANGED switch => StateKept("switch")
BY DEF StateKept, StateOf, Outrun

\* When the timer runs out the broker may still have been told that it runs.
LEMMA TimerOutruns ==
    ASSUME aircon \in AirconStates, TimerLapses
    PROVE  /\ StateKept("light") /\ StateKept("switch")
           /\ StateOf("aircon") = <<aircon.settings, "on">>
           /\ StateOf("aircon")' = <<aircon.settings, "off">>
           /\ Outrun("aircon") = {} /\ Outrun("aircon")' = {StateOf("aircon")}
<1>1. aircon.timer = "running" /\ aircon' = [aircon EXCEPT !.timer = "due"]
  BY DEF TimerLapses, Lapsed
<1>2. /\ aircon'.timer = "due" /\ aircon'.settings = aircon.settings
      /\ [aircon' EXCEPT !.timer = "running"] = aircon
  BY <1>1 DEF AirconStates
<1>3. UNCHANGED <<light, switch>>
  BY DEF TimerLapses
<1>4. QED
  BY <1>1, <1>2, <1>3, OtherKept DEF StateOf, Outrun, AirconState, OnOff

\* A payload of the air conditioner tells the state that it leaves behind.
LEMMA AirconPublication ==
    ASSUME NEW a \in AirconStates, PublishAircon(a)
    PROVE  EnqueuePublish(Publication("aircon", StateOf("aircon")'))
<1>1. PICK now \in {a, Lapsed(a)} :
        /\ aircon' = Told(now)
        /\ EnqueuePublish(Publication("aircon", AirconState(now)))
  BY DEF PublishAircon
<1>2. now \in AirconStates
  BY <1>1, AirconUpdated
<1>3. AirconState(Told(now)) = AirconState(now)
  BY <1>2 DEF AirconStates, AirconState, Told, OnOff
<1>4. QED
  BY <1>1, <1>3 DEF StateOf

LEMMA WorkerPublishes ==
    ASSUME WorkerInv, DisablingGoesOn, WorkerStep
    PROVE  /\ DisablingGoesOn'
           /\ \/ Quiet /\ (\A d \in Devices : StateKept(d)) /\ (Exempt <=> Exempt')
              \/ Quiet /\ (\A d \in Devices \ {"switch"} : StateKept(d)) /\ ~Exempt /\ Exempt'
              \/ \E d \in Devices : Publishes(d)
<1> USE OtherKept DEF Goto, Finish, Running, Exempt, Devices
<1>0. aircon \in AirconStates /\ Refreshed(aircon) \in AirconStates
  BY AirconUpdated DEF WorkerInv, WorkerTypeOK, AirconStates
<1>a. aircon' \in {aircon, Refreshed(aircon)} => StateKept("aircon")
  BY <1>0, AirconKept
<1>1. CASE TakeJob \/ SilentJob \/ EnabledSwitchJob \/ FinishJob
  <2>1. /\ aircon' \in {aircon, Refreshed(aircon)} /\ UNCHANGED <<light, switch>>
        /\ wpc \notin {"disabled", "save", "write"}
        /\ wpc' \notin {"disabled", "save", "write"} /\ Quiet
    BY <1>1 DEF TakeJob, SilentJob, EnabledSwitchJob, FinishJob, Quiet
  <2>2. QED
    BY <1>a, <2>1 DEF DisablingGoesOn
<1>2. CASE AirconStateJob \/ AirconSetJob \/ InitialAircon
  <2>1. /\ wpc = "run" /\ wpc' \in {"idle", "initial_light"}
        /\ UNCHANGED <<light, switch>>
    BY <1>2 DEF AirconStateJob, AirconSetJob, InitialAircon
  <2>2. CASE aircon' = Refreshed(aircon) /\ Quiet
    BY <1>a, <2>1, <2>2 DEF DisablingGoesOn
  <2>3. CASE \E a \in AirconStates : PublishAircon(a)
    <3>1. EnqueuePublish(Publication("aircon", StateOf("aircon")'))
      BY <2>3, AirconPublication
    <3>2. QED
      BY <2>1, <3>1 DEF DisablingGoesOn, Publishes
  <2>4. AirconSetJob => Commanded(Refreshed(aircon)) \in AirconStates
    BY <1>0, JobValues, AirconCommanded
       DEF AirconSetJob, LevelCommands, WorkerInv, WorkerTypeOK, WorkerJobs
  <2>5. QED
    BY <1>0, <1>2, <2>2, <2>3, <2>4 DEF AirconStateJob, AirconSetJob, InitialAircon
<1>3. CASE BrightnessJob \/ InitialLight
  <2>1. /\ wpc \in {"run", "initial_light"} /\ wpc' \in {"idle", "run"}
        /\ UNCHANGED <<aircon, switch>>
    BY <1>3 DEF BrightnessJob, InitialLight
  <2>2. \/ UNCHANGED light /\ Quiet
        \/ PublishLight(light')
    BY <1>3 DEF BrightnessJob, InitialLight
  <2>3. QED
    BY <1>a, <2>1, <2>2 DEF DisablingGoesOn, Publishes, PublishLight, StateOf
<1>4. CASE DisabledSwitchJob \/ ChangeEnable \/ TuyaSuccess \/ PublishDisabled
  <2>1. /\ wpc \in {"run", "enable", "tuya", "disabled"} /\ wpc' \in {"idle", "tuya"}
        /\ UNCHANGED <<aircon, light>> /\ PublishSwitch(switch')
    BY <1>4 DEF DisabledSwitchJob, ChangeEnable, TuyaSuccess, PublishDisabled
  <2>2. QED
    BY <1>a, <2>1 DEF DisablingGoesOn, Publishes, PublishSwitch, StateOf
<1>5. CASE TuyaFailure
  <2>1. /\ wpc = "tuya" /\ wpc' \in {"idle", "tuya"} /\ UNCHANGED <<aircon, light, switch>>
        /\ Quiet \/ PublishSwitch(switch')
    BY <1>5 DEF TuyaFailure
  <2>2. QED
    BY <1>a, <2>1 DEF DisablingGoesOn, Publishes, PublishSwitch, StateOf
<1>6. CASE AlertJob \/ EnableJob
  <2>1. /\ wpc = "run" /\ aircon' \in {aircon, Refreshed(aircon)}
        /\ UNCHANGED <<light, switch>> /\ Quiet
        /\ \/ wpc' = "enable"
           \/ wpc' = "save" /\ save'.done \in {"finish", "enable"}
    BY <1>6 DEF AlertJob, EnableJob, StartSave
  <2>2. QED
    BY <1>a, <2>1 DEF DisablingGoesOn
<1>7. CASE TuyaGiveUp
  BY <1>7, <1>a DEF TuyaGiveUp, StartSave, DisablingGoesOn
<1>8. CASE TruncateFile \/ ReadError
  <2>1. /\ wpc = "save" /\ wpc' = "write" /\ UNCHANGED <<aircon, light, switch>> /\ Quiet
        /\ save \in Saves /\ file \in SettingsFiles
    BY <1>8 DEF TruncateFile, ReadError, WorkerInv, SaveInProgress, WorkerTypeOK
  <2>2. save'.done = save.done /\ save'.failed = save.failed
    <3>1. CASE TruncateFile
      BY <2>1, <3>1, SaveLoaded DEF TruncateFile
    <3>2. CASE ReadError
      BY <2>1, <3>2, SaveLoaded, EmptyFileTyped DEF ReadError
    <3>3. QED
      BY <1>8, <3>1, <3>2
  <2>3. QED
    BY <1>a, <2>1, <2>2 DEF DisablingGoesOn
<1>9. CASE OpenError \/ WriteFile \/ WriteError
  <2>1. /\ wpc \in {"save", "write"} /\ save \in Saves
        /\ UNCHANGED <<aircon, light, switch>> /\ Quiet
        /\ wpc' \in {save.done, save.failed}
    <3>1. CASE OpenError
      BY <3>1 DEF OpenError, WorkerInv, SaveInProgress
    <3>2. CASE WriteFile
      BY <3>2 DEF WriteFile, WorkerInv, SaveInProgress
    <3>3. CASE WriteError
      BY <3>3 DEF WriteError, WorkerInv, SaveInProgress
    <3>4. QED
      BY <1>9, <3>1, <3>2, <3>3
  <2>2. wpc' \in {"finish", "enable", "disabled"}
    BY <2>1, SaveFields
  <2>3. save.done = "disabled" => wpc' = "disabled"
    BY <2>1 DEF DisablingGoesOn
  <2>4. QED
    BY <1>a, <2>1, <2>2, <2>3 DEF DisablingGoesOn
<1>10. QED
  BY <1>1, <1>2, <1>3, <1>4, <1>5, <1>6, <1>7, <1>8, <1>9 DEF WorkerStep

-----------------------------------------------------------------------------
(* What the broker will have last *)

\* The last word about d, among the publications of the queue q, the one in flight
\* and what the broker knows already, is in S.
LatestIn(q, inHand, known, d, S) ==
    /\ \A i \in 1 .. Len(q) :
         /\ q[i].device = d
         /\ \A j \in 1 .. Len(q) : j > i => q[j].device # d
         => q[i].state \in S
    /\ (\A i \in 1 .. Len(q) : q[i].device # d)
         => IF inHand.device = d THEN inHand.state \in S ELSE known[d] \in S

LEMMA AppendLatest ==
    ASSUME NEW q \in Seq(Publications), NEW p \in Publications, NEW inHand, NEW known,
           NEW d, NEW S,
           p.device = d => p.state \in S,
           p.device # d => LatestIn(q, inHand, known, d, S)
    PROVE  LatestIn(Append(q, p), inHand, known, d, S)
<1>1. /\ Len(Append(q, p)) = Len(q) + 1 /\ Len(q) \in Nat
      /\ Append(q, p)[Len(q) + 1] = p
      /\ \A i \in 1 .. Len(q) : Append(q, p)[i] = q[i]
  OBVIOUS
<1>2. CASE p.device = d
  BY <1>1, <1>2 DEF LatestIn
<1>3. CASE p.device # d
  <2>1. ASSUME NEW i \in 1 .. Len(q) + 1, Append(q, p)[i].device = d,
               \A j \in 1 .. Len(q) + 1 : j > i => Append(q, p)[j].device # d
        PROVE  Append(q, p)[i].state \in S
    <3>1. i \in 1 .. Len(q)
      BY <1>1, <1>3, <2>1
    <3>2. q[i].device = d /\ \A j \in 1 .. Len(q) : j > i => q[j].device # d
      BY <1>1, <2>1, <3>1
    <3>3. QED
      BY <1>1, <1>3, <3>1, <3>2 DEF LatestIn
  <2>2. ASSUME \A i \in 1 .. Len(q) + 1 : Append(q, p)[i].device # d
        PROVE  IF inHand.device = d THEN inHand.state \in S ELSE known[d] \in S
    <3>1. \A i \in 1 .. Len(q) : q[i].device # d
      BY <1>1, <2>2
    <3>2. QED
      BY <1>3, <3>1 DEF LatestIn
  <2>3. QED
    BY <1>1, <2>1, <2>2 DEF LatestIn
<1>4. QED
  BY <1>2, <1>3

LEMMA TakeLatest ==
    ASSUME NEW q \in Seq(Publications), q # << >>, NEW inHand, NEW known, NEW d, NEW S,
           inHand.device # d, LatestIn(q, inHand, known, d, S)
    PROVE  LatestIn(Tail(q), Head(q), known, d, S)
<1>1. /\ Len(Tail(q)) = Len(q) - 1 /\ Len(q) \in Nat \ {0}
      /\ Head(q) = q[1]
      /\ \A i \in 1 .. Len(q) - 1 : Tail(q)[i] = q[i + 1]
  OBVIOUS
<1>2. ASSUME NEW i \in 1 .. Len(q) - 1, Tail(q)[i].device = d,
             \A j \in 1 .. Len(q) - 1 : j > i => Tail(q)[j].device # d
      PROVE  Tail(q)[i].state \in S
  <2>1. i + 1 \in 1 .. Len(q) /\ Tail(q)[i] = q[i + 1]
    BY <1>1
  <2>2. ASSUME NEW j \in 1 .. Len(q), j > i + 1
        PROVE  q[j].device # d
    <3>1. j - 1 \in 1 .. Len(q) - 1 /\ j - 1 > i /\ (j - 1) + 1 = j
      BY <1>1, <2>2
    <3>2. QED
      BY <1>1, <1>2, <3>1
  <2>3. QED
    BY <1>2, <2>1, <2>2 DEF LatestIn
<1>3. ASSUME \A i \in 1 .. Len(q) - 1 : Tail(q)[i].device # d
      PROVE  IF Head(q).device = d THEN Head(q).state \in S ELSE known[d] \in S
  <2>1. \A j \in 1 .. Len(q) : j > 1 => q[j].device # d
    <3>1. ASSUME NEW j \in 1 .. Len(q), j > 1
          PROVE  q[j].device # d
      <4>1. j - 1 \in 1 .. Len(q) - 1 /\ (j - 1) + 1 = j
        BY <1>1, <3>1
      <4>2. QED
        BY <1>1, <1>3, <4>1
    <3>2. QED
      BY <3>1
  <2>2. 1 \in 1 .. Len(q)
    BY <1>1
  <2>3. CASE Head(q).device = d
    BY <1>1, <2>1, <2>2, <2>3 DEF LatestIn
  <2>4. CASE Head(q).device # d
    <3>1. \A j \in 1 .. Len(q) : q[j].device # d
      BY <1>1, <2>1, <2>4
    <3>2. QED
      BY <2>4, <3>1 DEF LatestIn
  <2>5. QED
    BY <2>3, <2>4
<1>4. QED
  BY <1>1, <1>2, <1>3 DEF LatestIn

LEMMA NotQueued ==
    ASSUME NEW q \in Seq(Publications), NEW d \in Devices
    PROVE  d \notin DevicesIn(q) <=> \A i \in 1 .. Len(q) : q[i].device # d
BY DEF DevicesIn

-----------------------------------------------------------------------------
(* The agreement of the broker with the devices *)

PublicationsInv == /\ pubq \in Seq(Publications)
                   /\ mpc # "publish" => inflight = NoPublication
                   /\ mpc = "publish" => inflight \in Publications
                   /\ view \in [Devices -> States]

\* What the broker may have of d if none of its publications was discarded.
Current(d) == {Unknown, StateOf(d)} \cup Outrun(d)

SaysTheState(d) == LatestIn(pubq, inflight, view, d, Current(d))

AgreementInv == \A d \in Devices \ lost : SaysTheState(d) \/ (d = "switch" /\ Exempt)

\* A publication that is enqueued, or discarded, leaves the last word about the
\* other devices as it was, and is itself the last word about its own.
LEMMA EnqueueKeeps ==
    ASSUME PublicationsInv, NEW p \in Publications, EnqueuePublish(p),
           UNCHANGED <<inflight, view, mpc>>
    PROVE  /\ PublicationsInv'
           /\ \A d \in Devices \ lost' : \A S :
                IF p.device = d THEN p.state \in S => LatestIn(pubq', inflight', view', d, S)
                ELSE /\ d \notin lost
                     /\ LatestIn(pubq, inflight, view, d, S)
                          => LatestIn(pubq', inflight', view', d, S)
<1>1. CASE pubq' = Append(pubq, p) /\ lost' = lost \ {p.device}
  <2>1. PublicationsInv'
    BY <1>1 DEF PublicationsInv
  <2>2. ASSUME NEW d \in Devices \ lost', NEW S
        PROVE  IF p.device = d THEN p.state \in S => LatestIn(pubq', inflight', view', d, S)
               ELSE /\ d \notin lost
                    /\ LatestIn(pubq, inflight, view, d, S)
                         => LatestIn(pubq', inflight', view', d, S)
    <3>1. pubq \in Seq(Publications)
      BY DEF PublicationsInv
    <3>2. CASE p.device = d /\ p.state \in S
      <4>1. LatestIn(Append(pubq, p), inflight, view, d, S)
        BY <3>1, <3>2, AppendLatest
      <4>2. QED
        BY <1>1, <3>2, <4>1
    <3>3. CASE p.device # d /\ LatestIn(pubq, inflight, view, d, S)
      <4>1. LatestIn(Append(pubq, p), inflight, view, d, S)
        BY <3>1, <3>3, AppendLatest
      <4>2. QED
        BY <1>1, <2>2, <3>3, <4>1
    <3>4. p.device # d => d \notin lost
      BY <1>1, <2>2
    <3>5. QED
      BY <3>2, <3>3, <3>4
  <2>3. QED
    BY <2>1, <2>2
<1>2. CASE UNCHANGED pubq /\ lost' = lost \cup DevicesIn(<<p>>)
  <2>1. PublicationsInv'
    BY <1>2 DEF PublicationsInv
  <2>2. \A d \in Devices \ lost' : p.device # d /\ d \notin lost
    BY <1>2 DEF DevicesIn
  <2>3. QED
    BY <1>2, <2>1, <2>2
<1>3. QED
  BY <1>1, <1>2 DEF EnqueuePublish

LEMMA WorkerKeepsAgreement ==
    ASSUME WorkerInv, WorkerInv', DisablingGoesOn, PublicationsInv, AgreementInv, Worker
    PROVE  DisablingGoesOn' /\ PublicationsInv' /\ AgreementInv'
<1>1. WorkerStep /\ UNCHANGED <<inflight, view, mpc>>
  BY DEF Worker, mqtt
<1>2. DisablingGoesOn'
  BY <1>1, WorkerPublishes
<1>3. CASE Quiet /\ (\A d \in Devices : StateKept(d)) /\ (Exempt <=> Exempt')
  BY <1>1, <1>2, <1>3
     DEF Quiet, publishing, PublicationsInv, AgreementInv, SaysTheState, StateKept, Current
<1>4. CASE Quiet /\ (\A d \in Devices \ {"switch"} : StateKept(d)) /\ Exempt'
  BY <1>1, <1>2, <1>4
     DEF Quiet, publishing, PublicationsInv, AgreementInv, SaysTheState, StateKept, Current
<1>5. CASE \E d \in Devices : Publishes(d)
  <2>1. PICK e \in Devices : Publishes(e)
    BY <1>5
  <2> DEFINE p == Publication(e, StateOf(e)')
  <2>2. p \in Publications /\ p.device = e /\ p.state = StateOf(e)'
    <3>1. WorkerTypeOK'
      BY DEF WorkerInv
    <3>2. p \in Publications
      BY <3>1, PublicationTyped
    <3>3. QED
      BY <3>2 DEF Publication
  <2>3. EnqueuePublish(p)
    BY <2>1 DEF Publishes
  <2> HIDE DEF p
  <2>4. /\ PublicationsInv'
        /\ \A d \in Devices \ lost' : \A S :
             IF p.device = d THEN p.state \in S => LatestIn(pubq', inflight', view', d, S)
             ELSE /\ d \notin lost
                  /\ LatestIn(pubq, inflight, view, d, S)
                       => LatestIn(pubq', inflight', view', d, S)
    BY <1>1, <2>2, <2>3, EnqueueKeeps
  <2>5. ASSUME NEW d \in Devices \ lost'
        PROVE  LatestIn(pubq', inflight', view', d, Current(d)')
    <3>1. CASE d = e
      <4>1. p.state \in Current(d)'
        BY <2>2, <3>1 DEF Current
      <4>2. QED
        BY <2>2, <2>4, <2>5, <3>1, <4>1
    <3>2. CASE d # e
      <4>1. Current(d)' = Current(d) /\ ~(d = "switch" /\ Exempt)
        BY <2>1, <3>2 DEF Publishes, StateKept, Current
      <4>2. LatestIn(pubq, inflight, view, d, Current(d))
        BY <2>2, <2>4, <2>5, <3>2, <4>1 DEF AgreementInv, SaysTheState
      <4>3. LatestIn(pubq', inflight', view', d, Current(d))
        BY <2>2, <2>4, <2>5, <3>2, <4>2
      <4>4. QED
        BY <4>1, <4>3
    <3>3. QED
      BY <3>1, <3>2
  <2>6. AgreementInv'
    BY <2>5 DEF AgreementInv, SaysTheState
  <2>7. QED
    BY <1>2, <2>4, <2>6
<1>6. QED
  BY <1>1, <1>3, <1>4, <1>5, WorkerPublishes

\* A timer that runs out leaves what the broker was told within what is allowed.
LEMMA ClockKeepsAgreement ==
    ASSUME WorkerInv, PublicationsInv, AgreementInv, DisablingGoesOn, Clock
    PROVE  DisablingGoesOn' /\ PublicationsInv' /\ AgreementInv'
<1>1. TimerLapses /\ UNCHANGED <<pubq, lost, inflight, view, mpc, wpc, save>>
  BY DEF Clock, TimerLapses, publishing, mqtt
<1>2. \A d \in Devices : Current(d) \subseteq Current(d)'
  <2>1. aircon \in AirconStates
    BY DEF WorkerInv, WorkerTypeOK, AirconStates
  <2>2. QED
    BY <1>1, <2>1, TimerOutruns DEF Current, Devices, StateKept
<1>3. \A d \in Devices : SaysTheState(d) => SaysTheState(d)'
  BY <1>1, <1>2 DEF SaysTheState, LatestIn
<1>4. QED
  BY <1>1, <1>3 DEF DisablingGoesOn, PublicationsInv, AgreementInv, Exempt

LEMMA NoPublicationIsNone == NoPublication.device \notin Devices
                             /\ NoPublication.device \notin Devices \cup {"reply"}
BY DEF NoPublication, Devices, None

\* While nothing is in flight the last word is in the queue, or is the broker's.
LEMMA MqttKeepsAgreement ==
    ASSUME PublicationsInv, AgreementInv, MqttStep \/ MessageCallback, UNCHANGED worker
    PROVE  PublicationsInv' /\ AgreementInv'
<1>0. Exempt' = Exempt /\ \A d : Current(d)' = Current(d)
  BY DEF worker, Exempt, StateOf, Current, Outrun
<1>1. ASSUME UNCHANGED <<pubq, lost, inflight, view>>, (mpc = "publish") <=> (mpc' = "publish")
      PROVE  PublicationsInv' /\ AgreementInv'
  BY <1>0, <1>1 DEF PublicationsInv, AgreementInv, SaysTheState
<1>2. CASE \/ TimeSync \/ Connect \/ SubscribeFailed \/ Subscribed \/ Announce
           \/ RequestInitialPublish \/ WaitMessage \/ ClearConnected \/ CountFailure
           \/ RetryDelay
  <2>1. UNCHANGED <<pubq, lost, inflight, view>> /\ mpc # "publish" /\ mpc' # "publish"
    BY <1>2 DEF TimeSync, Connect, SubscribeFailed, Subscribed, Announce,
       RequestInitialPublish, WaitMessage, ClearConnected, CountFailure, RetryDelay,
       Enter, SessionUnchanged, QueuesUnchanged, publishing
  <2>2. QED
    BY <1>1, <2>1
<1>3. CASE Drain
  <2>1. mpc = "drain" /\ inflight = NoPublication /\ UNCHANGED <<view, lost>>
    BY <1>3 DEF Drain, PublicationsInv
  <2>2. CASE pubq = << >> /\ mpc' = "wait" /\ UNCHANGED <<inflight, pubq>>
    BY <1>1, <2>1, <2>2
  <2>3. CASE pubq # << >> /\ inflight' = Head(pubq) /\ pubq' = Tail(pubq) /\ mpc' = "publish"
    <3>1. PublicationsInv'
      BY <2>1, <2>3 DEF PublicationsInv
    <3>2. ASSUME NEW d \in Devices, NEW S, LatestIn(pubq, inflight, view, d, S)
          PROVE  LatestIn(pubq', inflight', view', d, S)
      <4>1. inflight.device # d /\ pubq \in Seq(Publications)
        BY <2>1, NoPublicationIsNone DEF PublicationsInv
      <4>2. LatestIn(Tail(pubq), Head(pubq), view, d, S)
        BY <2>3, <3>2, <4>1, TakeLatest
      <4>3. QED
        BY <2>1, <2>3, <4>2
    <3>3. QED
      BY <1>0, <2>1, <3>1, <3>2 DEF AgreementInv, SaysTheState
  <2>4. QED
    BY <1>3, <2>2, <2>3 DEF Drain, Enter
<1>4. CASE Published \/ PublishFailed
  <2>1. /\ mpc = "publish" /\ mpc' # "publish" /\ inflight \in Publications
        /\ inflight' = NoPublication /\ UNCHANGED pubq
        /\ view' \in {view, Delivered(inflight)} /\ lost \subseteq lost'
    BY <1>4 DEF Published, PublishFailed, Enter, QueuesUnchanged, publishing,
       PublicationsInv
  <2>2. /\ inflight.device \in Devices \cup {"reply"} /\ inflight.state \in States
        /\ view \in [Devices -> States] /\ pubq \in Seq(Publications)
    BY <2>1 DEF Publications, PublicationsInv
  <2>3. /\ view' \in [Devices -> States]
        /\ \A d \in Devices : d # inflight.device => view'[d] = view[d]
        /\ inflight.device \in Devices /\ view' = Delivered(inflight)
             => view'[inflight.device] = inflight.state
    BY <2>1, <2>2 DEF Delivered
  <2>4. PublicationsInv'
    BY <2>1, <2>3 DEF PublicationsInv
  <2>5. ASSUME NEW d \in Devices \ lost', NEW S, LatestIn(pubq, inflight, view, d, S)
        PROVE  LatestIn(pubq', inflight', view', d, S)
    <3>1. inflight'.device # d
      BY <2>1, NoPublicationIsNone
    <3>2. CASE d # inflight.device
      BY <2>1, <2>3, <2>5, <3>1, <3>2 DEF LatestIn
    <3>3. CASE d = inflight.device /\ view' = Delivered(inflight)
      BY <2>1, <2>3, <2>5, <3>1, <3>3 DEF LatestIn
    <3>4. CASE d = inflight.device /\ view' # Delivered(inflight)
      <4>1. d \in DevicesIn(pubq)
        <5>1. lost' = lost \cup (DevicesIn(<<inflight>>) \ DevicesIn(pubq))
          BY <1>4, <3>4 DEF Published, PublishFailed
        <5>2. d \in DevicesIn(<<inflight>>)
          BY <2>5, <3>4 DEF DevicesIn
        <5>3. QED
          BY <2>5, <5>1, <5>2
      <4>2. ~ \A i \in 1 .. Len(pubq) : pubq[i].device # d
        BY <2>2, <2>5, <4>1, NotQueued
      <4>3. QED
        BY <2>1, <2>5, <4>2 DEF LatestIn
    <3>5. QED
      BY <3>2, <3>3, <3>4
  <2>6. AgreementInv'
    BY <1>0, <2>1, <2>5 DEF AgreementInv, SaysTheState
  <2>7. QED
    BY <2>4, <2>6
<1>5. CASE CloseSession
  <2>1. /\ mpc = "close" /\ mpc' = "error" /\ UNCHANGED <<inflight, view>>
        /\ pubq' = << >> /\ lost' = lost \cup DevicesIn(pubq)
    BY <1>5 DEF CloseSession, ResetPublishQueue, Enter
  <2>2. PublicationsInv'
    BY <2>1 DEF PublicationsInv
  <2>3. ASSUME NEW d \in Devices \ lost', NEW S, LatestIn(pubq, inflight, view, d, S)
        PROVE  LatestIn(pubq', inflight', view', d, S)
    <3>1. \A i \in 1 .. Len(pubq) : pubq[i].device # d
      BY <2>1, <2>3, NotQueued DEF PublicationsInv
    <3>2. QED
      BY <2>1, <2>3, <3>1 DEF LatestIn
  <2>4. QED
    BY <1>0, <2>1, <2>2, <2>3 DEF AgreementInv, SaysTheState
<1>6. CASE MessageCallback
  <2>1. UNCHANGED <<mpc, inflight, view>>
    BY <1>6 DEF MessageCallback
  <2>2. CASE UNCHANGED publishing
    BY <1>1, <2>1, <2>2 DEF publishing
  <2>3. CASE EnqueuePublish(Reply("error")) \/ EnqueuePublish(Reply("busy"))
    <3>1. PICK p \in {Reply("error"), Reply("busy")} : EnqueuePublish(p)
      BY <2>3
    <3>2. p \in Publications /\ p.device = "reply"
      <4>1. <<"error">> \in States /\ <<"busy">> \in States
        BY DEF States
      <4>2. QED
        BY <3>1, <4>1 DEF Reply, Publications
    <3>3. /\ PublicationsInv'
          /\ \A d \in Devices \ lost' : \A S :
               IF p.device = d THEN p.state \in S => LatestIn(pubq', inflight', view', d, S)
               ELSE /\ d \notin lost
                    /\ LatestIn(pubq, inflight, view, d, S)
                         => LatestIn(pubq', inflight', view', d, S)
      BY <2>1, <3>1, <3>2, EnqueueKeeps
    <3>4. \A d \in Devices : p.device # d
      BY <3>2 DEF Devices
    <3>5. QED
      BY <1>0, <3>3, <3>4 DEF AgreementInv, SaysTheState
  <2>4. QED
    BY <1>6, <2>2, <2>3 DEF MessageCallback, QueuesUnchanged
<1>7. QED
  BY <1>2, <1>3, <1>4, <1>5, <1>6 DEF MqttStep

-----------------------------------------------------------------------------
(* Controller *)

ProgramInv == ControlInv /\ DisablingGoesOn /\ PublicationsInv /\ AgreementInv

LEMMA ProgramStarts == ASSUME Init PROVE ProgramInv
<1>1. PICK f \in Files : InitWorker(f)
  BY DEF Init
<1>2. WorkerInv
  BY <1>1, FilesAssumption, WorkerStarts DEF Init
<1>3. MqttTypeOK
  <2>1. events \subseteq EventBits
    BY DEF Init, InitResources, InitEvents, EventBits
  <2>2. failed \in 0 .. FastRetryFailures /\ received \in 0 .. MaxMessages
    BY MqttAssumption DEF Init, InitMqtt
  <2>3. QED
    BY <2>1, <2>2 DEF Init, InitResources, InitMqtt, MqttTypeOK, MqttLabels
<1>4. PublicationsInv /\ \A d \in Devices : view[d] = Unknown
  BY DEF Init, InitResources, InitMqtt, PublicationsInv, Unknown, States
<1>5. \A d \in Devices : SaysTheState(d)
  <2>1. pubq = << >> /\ inflight = NoPublication
    BY DEF Init, InitResources, InitMqtt
  <2>2. QED
    BY <1>4, <2>1, NoPublicationIsNone DEF SaysTheState, LatestIn, Current
<1>6. QED
  BY <1>1, <1>2, <1>3, <1>4, <1>5
     DEF InitWorker, ProgramInv, ControlInv, DisablingGoesOn, AgreementInv

LEMMA ProgramStep == ASSUME ProgramInv, [Next]_vars PROVE ProgramInv'
<1> USE DEF ProgramInv, ControlInv
<1>1. CASE Worker
  <2>1. WorkerStep /\ UNCHANGED <<events, mqtt>>
    BY <1>1 DEF Worker
  <2>2. WorkerInv'
    BY <2>1, WorkerStepInv
  <2>3. lost' \subseteq Devices /\ owed' \subseteq Devices
    <3>1. Quiet \/ \E d \in Devices : Publishes(d)
      BY <2>1, WorkerPublishes
    <3>2. QED
      BY <3>1, EnqueueTyped DEF MqttTypeOK, Quiet, publishing, Publishes
  <2>4. MqttTypeOK'
    BY <2>1, <2>3 DEF MqttTypeOK, mqtt
  <2>5. QED
    BY <1>1, <2>2, <2>4, WorkerKeepsAgreement
<1>2. CASE Mqtt \/ Callback
  <2>1. (MqttStep \/ MessageCallback) /\ UNCHANGED worker
    BY <1>2 DEF Mqtt, Callback
  <2>2. MqttTypeOK' /\ devq' \in Seq(Jobs)
    BY <2>1, MqttStepTyped DEF WorkerInv
  <2>3. WorkerInv' /\ DisablingGoesOn'
    BY <2>1, <2>2 DEF worker, WorkerInv, WorkerTypeOK, SaveInProgress, SwitchInOrder,
       JobInHand, DisablingGoesOn
  <2>4. QED
    BY <2>1, <2>2, <2>3, MqttKeepsAgreement
<1>3. CASE SystemLoopStep
  <2>1. devq' \in Seq(Jobs) /\ UNCHANGED <<publishing, events, worker, mqtt>>
    BY <1>3 DEF SystemLoopStep, EnqueueDeviceJob, WorkerInv, Jobs
  <2>2. WorkerInv' /\ DisablingGoesOn' /\ MqttTypeOK'
    BY <2>1 DEF worker, mqtt, publishing, WorkerInv, WorkerTypeOK, SaveInProgress,
       SwitchInOrder, JobInHand, DisablingGoesOn, MqttTypeOK
  <2>3. PublicationsInv' /\ AgreementInv'
    BY <2>1 DEF worker, mqtt, publishing, PublicationsInv, AgreementInv, SaysTheState,
       StateOf, Current, Outrun, Exempt
  <2>4. QED
    BY <2>2, <2>3
<1>4. CASE UNCHANGED vars
  <2>1. WorkerInv' /\ DisablingGoesOn' /\ MqttTypeOK'
    BY <1>4 DEF vars, resources, worker, mqtt, publishing, WorkerInv, WorkerTypeOK,
       SaveInProgress, SwitchInOrder, JobInHand, DisablingGoesOn, MqttTypeOK
  <2>2. PublicationsInv' /\ AgreementInv'
    BY <1>4 DEF vars, resources, worker, mqtt, publishing, PublicationsInv, AgreementInv,
       SaysTheState, StateOf, Current, Outrun, Exempt
  <2>3. QED
    BY <2>1, <2>2
<1>5. CASE Clock
  <2>1. WorkerInv'
    BY <1>5, TimerLapsesInv DEF Clock
  <2>2. MqttTypeOK'
    BY <1>5 DEF Clock, TimerLapses, publishing, mqtt, MqttTypeOK
  <2>3. QED
    BY <1>5, <2>1, <2>2, ClockKeepsAgreement
<1>6. QED
  BY <1>1, <1>2, <1>3, <1>4, <1>5 DEF Next

\* The invariant holds of the whole program: the two queues, the worker, the MQTT
\* task and what the broker knows.
THEOREM ProgramInvariant == Spec => []ProgramInv
BY ProgramStarts, ProgramStep, PTL DEF Spec

-----------------------------------------------------------------------------
(* What was proved of the parts holds of the whole *)

\* In the program as in any surroundings: no reader of the event bits ever sees both
\* the bit of a session and that of an error.
THEOREM ProgramBitsAgree == Spec => []BitsAgree
<1>1. Init => BitsInv
  BY BitsStart DEF Init
<1>2. ASSUME BitsInv, [Next]_vars PROVE BitsInv'
  <2>1. CASE MqttStep \/ MessageCallback
    BY <1>2, <2>1, BitsStep
  <2>2. CASE UNCHANGED <<events, mpc>>
    BY <1>2, <2>2 DEF BitsInv, BitsAgree, Connected
  <2>3. QED
    BY <1>2, <2>1, <2>2
       DEF Next, Worker, Mqtt, Callback, SystemLoopStep, Clock, vars, resources, mqtt
<1>3. BitsInv => BitsAgree
  BY DEF BitsInv
<1>4. QED
  BY <1>1, <1>2, <1>3, PTL DEF Spec

\* In the program, whatever sessions and queues do to the worker's jobs, a switch
\* that is enabled between jobs has failed fewer times in a row than the limit.
THEOREM ProgramBelowLimit == Spec => []EnabledBelowLimit
<1>1. ProgramInv => EnabledBelowLimit
  BY DEF ProgramInv, ControlInv, WorkerInv, SwitchInOrder, EnabledBelowLimit
<1>2. QED
  BY <1>1, ProgramInvariant, PTL

\* In the program, from any settings file to start with, the next start would find
\* every setting in force between jobs, but for those an I/O error kept out.
THEOREM ProgramPersists == Spec => []PersistedSettings
<1>1. Init => FileInv
  BY FilesAssumption, WorkerStarts DEF Init
<1>2. ASSUME ProgramInv, FileInv, [Next]_vars PROVE FileInv'
  <2>1. CASE WorkerStep
    BY <1>2, <2>1, WorkerStepFile DEF ProgramInv, ControlInv
  <2>2. CASE UNCHANGED worker
    BY <1>2, <2>2 DEF worker, FileInv, SavesTheSetting, Agrees, InForce
  <2>3. CASE TimerLapses
    BY <1>2, <2>3, TimerLapsesFile
  <2>4. QED
    BY <1>2, <2>1, <2>2, <2>3 DEF Next, Worker, Mqtt, Callback, SystemLoopStep, Clock, vars
<1>3. ProgramInv /\ FileInv => PersistedSettings
  <2>1. wpc = "idle" => wpc \in Elsewhere
    BY DEF Elsewhere, WorkerLabels
  <2>2. QED
    BY <2>1 DEF FileInv, Agrees, PersistedSettings
<1>4. QED
  BY <1>1, <1>2, <1>3, ProgramInvariant, PTL DEF Spec

-----------------------------------------------------------------------------
(* The queues, and the length of a job *)

\* What a step does to the device queue.
LEMMA DeviceQueueChanges ==
    ASSUME ProgramInv, Next
    PROVE  \/ UNCHANGED devq
           \/ TakeJob
           \/ \E j \in Jobs : EnqueueDeviceJob(j)
<1>1. CASE Worker
  BY <1>1 DEF Worker, WorkerStep, TakeJob, SilentJob, AirconStateJob, AirconSetJob,
     AlertJob, BrightnessJob, InitialAircon, InitialLight, DisabledSwitchJob,
     EnabledSwitchJob, EnableJob, ChangeEnable, TuyaSuccess, TuyaFailure, TuyaGiveUp,
     PublishDisabled, TruncateFile, ReadError, OpenError, WriteFile, WriteError, FinishJob
<1>2. CASE Mqtt
  BY <1>2 DEF Mqtt, MqttStep, TimeSync, Connect, SubscribeFailed, Subscribed, Announce,
     RequestInitialPublish, Drain, Published, PublishFailed, WaitMessage, ClearConnected,
     CloseSession, CountFailure, RetryDelay, QueuesUnchanged, Jobs
<1>3. CASE Callback
  BY <1>3, CommandsAssumption DEF Callback, MessageCallback, QueuesUnchanged, Jobs
<1>4. CASE SystemLoopStep
  BY <1>4 DEF SystemLoopStep, Jobs
<1>5. QED
  BY <1>1, <1>2, <1>3, <1>4 DEF Next, Clock, TimerLapses

\* What it does to the publish queue.
LEMMA PublishQueueChanges ==
    ASSUME ProgramInv, Next
    PROVE  \/ UNCHANGED pubq
           \/ pubq # << >> /\ pubq' = Tail(pubq)
           \/ pubq' = << >>
           \/ \E p : Len(pubq) < PublishQueueLength /\ pubq' = Append(pubq, p)
<1>1. CASE Worker
  BY <1>1, WorkerPublishes DEF Worker, ProgramInv, ControlInv, Quiet, publishing,
     Publishes, EnqueuePublish
<1>2. CASE Mqtt
  BY <1>2 DEF Mqtt, MqttStep, TimeSync, Connect, SubscribeFailed, Subscribed, Announce,
     RequestInitialPublish, Drain, Published, PublishFailed, WaitMessage, ClearConnected,
     CloseSession, CountFailure, RetryDelay, QueuesUnchanged, publishing, ResetPublishQueue
<1>3. CASE Callback
  BY <1>3 DEF Callback, MessageCallback, QueuesUnchanged, publishing, EnqueuePublish
<1>4. CASE SystemLoopStep
  BY <1>4 DEF SystemLoopStep, publishing
<1>5. QED
  BY <1>1, <1>2, <1>3, <1>4 DEF Next, Clock, TimerLapses, publishing

LEMMA QueuesStep ==
    ASSUME ProgramInv, ProgramInv', QueuesBounded, [Next]_vars
    PROVE  QueuesBounded'
<1> USE QueueLengthAssumption
<1>1. devq' \in Seq(Jobs) /\ devq \in Seq(Jobs) /\ pubq \in Seq(Publications)
  BY DEF ProgramInv, ControlInv, WorkerInv, PublicationsInv
<1>2. CASE Next
  <2>1. Len(devq') <= DeviceQueueLength
    BY <1>1, <1>2, DeviceQueueChanges DEF QueuesBounded, TakeJob, EnqueueDeviceJob
  <2>2. Len(pubq') <= PublishQueueLength
    BY <1>1, <1>2, PublishQueueChanges DEF QueuesBounded
  <2>3. QED
    BY <1>1, <2>1, <2>2 DEF QueuesBounded
<1>3. CASE UNCHANGED vars
  BY <1>3 DEF vars, resources, publishing, QueuesBounded
<1>4. QED
  BY <1>2, <1>3

\* The types of the worker's and the task's variables, in the whole program: the
\* attempts stay within two, the failure counters within their limits and the
\* queues within their lengths, whoever sends at the same time.
THEOREM TypeCorrect == Spec => []TypeOK
<1>1. Init => QueuesBounded
  BY QueueLengthAssumption DEF Init, InitResources, QueuesBounded
<1>2. ProgramInv /\ QueuesBounded => TypeOK
  BY DEF ProgramInv, ControlInv, WorkerInv, TypeOK
<1>3. QED
  BY <1>1, <1>2, QueuesStep, ProgramInvariant, PTL DEF Spec

\* A job that was taken has nine steps at the most, and each leaves fewer.
LEMMA WorkerShrinks ==
    ASSUME WorkerInv, WorkerStep
    PROVE  IF wpc = "idle" THEN StepsLeft' <= 9 ELSE StepsLeft' < StepsLeft
<1> USE DEF StepsLeft, Goto, Finish, Running
<1>0. attempt \in {1, 2}
  BY DEF WorkerInv, WorkerTypeOK
<1>1. CASE TakeJob
  BY <1>1 DEF TakeJob
<1>2. CASE \/ SilentJob \/ AirconStateJob \/ AirconSetJob \/ BrightnessJob
           \/ DisabledSwitchJob \/ TuyaSuccess \/ PublishDisabled \/ FinishJob
  <2>1. wpc \in {"run", "tuya", "disabled", "finish"} /\ wpc' = "idle"
    BY <1>2 DEF SilentJob, AirconStateJob, AirconSetJob, BrightnessJob,
       DisabledSwitchJob, TuyaSuccess, PublishDisabled, FinishJob
  <2>2. QED
    BY <1>0, <2>1
<1>3. CASE AlertJob \/ EnableJob
  <2>1. wpc = "run" /\ job # SwitchStateJob
    BY <1>3 DEF AlertJob, EnableJob, SwitchStateJob, Job
  <2>2. wpc' \in {"save", "enable"}
    BY <1>3 DEF AlertJob, EnableJob, StartSave
  <2>3. QED
    BY <2>1, <2>2
<1>4. CASE InitialAircon \/ InitialLight
  BY <1>4 DEF InitialAircon, InitialLight, SwitchStateJob, Job
<1>5. CASE EnabledSwitchJob
  <2>1. wpc = "run" /\ wpc' = "tuya" /\ attempt' = attempt
    BY <1>5 DEF EnabledSwitchJob
  <2>2. QED
    BY <1>0, <2>1
<1>6. CASE ChangeEnable
  <2>1. wpc = "enable" /\ (wpc' = "idle" \/ (wpc' = "tuya" /\ attempt' = attempt))
    BY <1>6 DEF ChangeEnable
  <2>2. QED
    BY <1>0, <2>1
<1>7. CASE TuyaFailure
  <2>1. /\ wpc = "tuya"
        /\ wpc' = "idle" \/ (wpc' = "tuya" /\ attempt = 1 /\ attempt' = 2)
    BY <1>7 DEF TuyaFailure
  <2>2. QED
    BY <1>0, <2>1
<1>8. CASE TuyaGiveUp
  <2>1. wpc = "tuya" /\ wpc' = "save" /\ save'.done = "disabled"
    BY <1>8 DEF TuyaGiveUp, StartSave
  <2>2. QED
    BY <1>0, <2>1
<1>9. CASE TruncateFile \/ ReadError
  <2>1. /\ wpc = "save" /\ wpc' = "write"
        /\ save \in Saves /\ file \in SettingsFiles
    BY <1>9 DEF TruncateFile, ReadError, WorkerInv, SaveInProgress, WorkerTypeOK
  <2>2. save'.done = save.done
    BY <1>9, <2>1, SaveLoaded, EmptyFileTyped DEF TruncateFile, ReadError
  <2>3. QED
    BY <2>1, <2>2
<1>10. CASE OpenError
  <2>1. wpc = "save" /\ wpc' = save.failed /\ save \in Saves
    BY <1>10 DEF OpenError, WorkerInv, SaveInProgress
  <2>2. wpc' \in {"finish", "disabled"}
    BY <2>1, SaveFields
  <2>3. QED
    BY <2>1, <2>2
<1>11. CASE WriteFile \/ WriteError
  <2>1. wpc = "write" /\ wpc' = save.done /\ save \in Saves
    BY <1>11 DEF WriteFile, WriteError, WorkerInv, SaveInProgress
  <2>2. wpc' \in {"finish", "enable", "disabled"}
    BY <2>1, SaveFields
  <2>3. QED
    BY <2>1, <2>2
<1>12. QED
  BY <1>1, <1>2, <1>3, <1>4, <1>5, <1>6, <1>7, <1>8, <1>9, <1>10, <1>11 DEF WorkerStep

\* The worker comes back to its queue after nine steps at the most, whatever the
\* drivers and the file do and whatever the other tasks do in between: what
\* termination rests on, apart from the scheduler.
THEOREM JobsAreBounded == Spec => JobShrinks
<1>1. ASSUME ProgramInv, [Next]_vars
      PROVE  [\/ TimerLapses
              \/ IF wpc = "idle" THEN StepsLeft' <= 9 ELSE StepsLeft' < StepsLeft]_worker
  <2>1. CASE Worker
    BY <1>1, <2>1, WorkerShrinks DEF Worker, ProgramInv, ControlInv
  <2>2. CASE Mqtt \/ Callback \/ SystemLoopStep \/ UNCHANGED vars
    BY <2>2 DEF Mqtt, Callback, SystemLoopStep, vars
  <2>3. QED
    BY <1>1, <2>1, <2>2 DEF Next, Clock
<1>2. QED
  BY <1>1, ProgramInvariant, PTL DEF Spec, JobShrinks

-----------------------------------------------------------------------------
(* What a session has asked for *)

\* The nested request for the switch's state ends with a publication of the switch,
\* or goes on.
SwitchStateInHand ==
    job = SwitchStateJob => /\ wpc \in {"run", "tuya", "save", "write", "disabled"}
                            /\ wpc \in {"save", "write"} => save.done = "disabled"

OwedInv == SwitchStateInHand /\ NothingForgotten

Asked == \E i \in DOMAIN devq : devq[i] = InitialJob

LEMMA OwedAfterEnqueue ==
    ASSUME NEW p, EnqueuePublish(p)
    PROVE  owed' = owed \ {p.device}
BY DEF EnqueuePublish

\* The jobs are told apart by their commands.
LEMMA SpecialJobs ==
    /\ InitialJob.command = "publish_initial" /\ SwitchStateJob.command = "switch_state"
    /\ NoJob.command = "none"
    /\ SwitchStateJob \notin Jobs
BY DEF InitialJob, SwitchStateJob, NoJob, Job, None, Jobs, MqttJobs, TemperatureJob,
       LevelCommands, AirconCommands, SwitchCommands, PlainCommands

\* The job that is taken off the queue is the one asked for, or it is still there.
LEMMA TakenOrAsked ==
    ASSUME devq \in Seq(Jobs), devq # << >>, devq' = Tail(devq), Asked
    PROVE  Head(devq) = InitialJob \/ Asked'
<1>1. PICK i \in 1 .. Len(devq) : devq[i] = InitialJob
  BY DEF Asked
<1>2. /\ devq' \in Seq(Jobs) /\ Len(devq') = Len(devq) - 1 /\ Len(devq) \in Nat \ {0}
      /\ \A k \in 1 .. Len(devq) - 1 : devq'[k] = devq[k + 1]
  OBVIOUS
<1>3. CASE i = 1
  BY <1>1, <1>3
<1>4. CASE i # 1
  <2>1. i - 1 \in 1 .. Len(devq) - 1 /\ (i - 1) + 1 = i
    BY <1>1, <1>2, <1>4
  <2>2. devq'[i - 1] = InitialJob
    BY <1>1, <1>2, <2>1
  <2>3. DOMAIN devq' = 1 .. Len(devq) - 1
    BY <1>2
  <2>4. QED
    BY <2>1, <2>2, <2>3 DEF Asked
<1>5. QED
  BY <1>3, <1>4

LEMMA WorkerKeepsOwed ==
    ASSUME WorkerInv, DisablingGoesOn, OwedInv, owed \subseteq Devices, WorkerStep
    PROVE  OwedInv'
<1> USE SpecialJobs DEF OwedInv, SwitchStateInHand, NothingForgotten, Ahead, Goto, Finish,
        Running
<1>1. CASE TakeJob
  <2>1. devq \in Seq(Jobs) /\ devq # << >>
    BY <1>1 DEF TakeJob, WorkerInv
  <2>2. /\ wpc = "idle" /\ wpc' = "run" /\ job' = Head(devq) /\ devq' = Tail(devq)
        /\ UNCHANGED owed
    BY <1>1 DEF TakeJob, publishing
  <2>3. job' \in Jobs
    BY <2>1, <2>2
  <2>4. ASSUME Asked PROVE job' = InitialJob \/ Asked'
    BY <2>1, <2>2, <2>4, TakenOrAsked
  <2>5. SwitchStateInHand'
    BY <2>3
  <2>6. ASSUME NEW d \in owed' PROVE Ahead(d)'
    <3>1. Ahead(d) /\ wpc = "idle"
      BY <2>2, <2>6
    <3>2. Asked
      BY <3>1 DEF Asked
    <3>3. QED
      BY <2>2, <2>4, <3>2 DEF Asked
  <2>7. QED
    <3> HIDE DEF Ahead, SwitchStateInHand
    <3> QED
      BY <2>5, <2>6
<1>2. ASSUME UNCHANGED devq, owed' \subseteq owed, job' \in {job, NoJob},
             job # SwitchStateJob, wpc = "run" => job # InitialJob,
             wpc # "initial_light"
      PROVE  OwedInv'
  BY <1>2
<1>3. CASE \/ SilentJob \/ AirconStateJob \/ AirconSetJob \/ AlertJob \/ BrightnessJob
           \/ EnableJob \/ ChangeEnable \/ FinishJob
  <2>1. /\ UNCHANGED devq /\ job' \in {job, NoJob}
        /\ wpc \in {"run", "enable", "finish"}
        /\ wpc = "run" => job.command \notin {"publish_initial", "switch_state"}
    BY <1>3 DEF SilentJob, AirconStateJob, AirconSetJob, AlertJob, BrightnessJob, EnableJob,
       ChangeEnable, FinishJob, StartSave, AirconCommands
  <2>2. owed' \subseteq owed
    BY <1>3, OwedAfterEnqueue DEF SilentJob, AirconStateJob, AirconSetJob, AlertJob,
       BrightnessJob, EnableJob, ChangeEnable, FinishJob, Quiet, publishing, PublishAircon,
       PublishLight, PublishSwitch
  <2>3. job # SwitchStateJob /\ (wpc = "run" => job # InitialJob)
    BY <2>1
  <2>4. QED
    BY <1>2, <2>1, <2>2, <2>3
<1>4. CASE InitialAircon
  <2>1. owed' = owed \ {"aircon"}
    BY <1>4, OwedAfterEnqueue DEF InitialAircon, PublishAircon, Publication
  <2>2. wpc' = "initial_light" /\ UNCHANGED <<devq, job>> /\ job.command = "publish_initial"
    BY <1>4 DEF InitialAircon
  <2>3. QED
    BY <2>1, <2>2 DEF Devices
<1>5. CASE InitialLight
  <2>1. owed' = owed \ {"light"}
    BY <1>5, OwedAfterEnqueue DEF InitialLight, PublishLight, Publication
  <2>2. /\ wpc = "initial_light" /\ wpc' = "run" /\ job' = SwitchStateJob
        /\ UNCHANGED devq
    BY <1>5 DEF InitialLight
  <2>3. ASSUME NEW d \in owed' PROVE Ahead(d)'
    <3>1. CASE d = "switch"
      BY <2>2, <3>1
    <3>2. CASE d = "aircon"
      <4>1. Ahead(d) /\ wpc = "initial_light"
        BY <2>1, <2>2, <2>3
      <4>2. Asked
        BY <3>2, <4>1 DEF Asked
      <4>3. QED
        BY <2>2, <4>2 DEF Asked
    <3>3. QED
      BY <2>1, <2>3, <3>1, <3>2 DEF Devices
  <2>4. SwitchStateInHand'
    BY <2>2
  <2>5. QED
    <3> HIDE DEF Ahead, SwitchStateInHand
    <3> QED
      BY <2>3, <2>4
<1>6. CASE DisabledSwitchJob \/ TuyaSuccess \/ PublishDisabled
  <2>1. owed' = owed \ {"switch"}
    <3>1. \E s : EnqueuePublish(Publication("switch", s))
      BY <1>6 DEF DisabledSwitchJob, TuyaSuccess, PublishDisabled, PublishSwitch
    <3>2. QED
      BY <3>1, OwedAfterEnqueue DEF Publication
  <2>2. /\ wpc \in {"run", "tuya", "disabled"} /\ wpc' = "idle" /\ job' = NoJob
        /\ UNCHANGED devq
        /\ wpc = "run" => job.command # "publish_initial"
    BY <1>6 DEF DisabledSwitchJob, TuyaSuccess, PublishDisabled
  <2>3. QED
    BY <2>1, <2>2
<1>7. CASE EnabledSwitchJob
  <2>1. /\ wpc = "run" /\ wpc' = "tuya" /\ UNCHANGED <<devq, owed, job>>
        /\ job.command # "publish_initial"
    BY <1>7 DEF EnabledSwitchJob, Quiet, publishing
  <2>2. QED
    BY <2>1
<1>8. CASE TuyaFailure
  <2>1. CASE attempt = 1
    BY <1>8, <2>1 DEF TuyaFailure, Quiet, publishing
  <2>2. CASE attempt = 2 /\ job = SwitchStateJob
    <3>1. owed' = owed \ {"switch"}
      BY <1>8, <2>2, OwedAfterEnqueue DEF TuyaFailure, PublishSwitch, Publication
    <3>2. wpc = "tuya" /\ wpc' = "idle" /\ job' = NoJob /\ UNCHANGED devq
      BY <1>8, <2>2 DEF TuyaFailure
    <3>3. QED
      BY <3>1, <3>2
  <2>3. CASE attempt = 2 /\ job # SwitchStateJob
    <3>1. wpc = "tuya" /\ job' \in {job, NoJob} /\ UNCHANGED devq
      BY <1>8, <2>3 DEF TuyaFailure
    <3>2. owed' \subseteq owed
      BY <1>8, OwedAfterEnqueue DEF TuyaFailure, PublishSwitch, Quiet, publishing
    <3>3. QED
      BY <1>2, <2>3, <3>1, <3>2
  <2>4. QED
    BY <1>8, <2>1, <2>2, <2>3 DEF TuyaFailure
<1>9. CASE TuyaGiveUp
  BY <1>9 DEF TuyaGiveUp, StartSave, Quiet, publishing
<1>10. CASE TruncateFile \/ ReadError
  <2>1. /\ wpc = "save" /\ wpc' = "write" /\ UNCHANGED <<devq, owed, job>>
        /\ save \in Saves /\ file \in SettingsFiles
    BY <1>10 DEF TruncateFile, ReadError, WorkerInv, SaveInProgress, WorkerTypeOK, Quiet,
       publishing
  <2>2. save'.done = save.done
    BY <1>10, <2>1, SaveLoaded, EmptyFileTyped DEF TruncateFile, ReadError
  <2>3. QED
    BY <2>1, <2>2
<1>11. CASE OpenError \/ WriteFile \/ WriteError
  <2>1. /\ wpc \in {"save", "write"} /\ wpc' \in {save.failed, save.done}
        /\ wpc = "write" => wpc' = save.done
        /\ UNCHANGED <<devq, owed, job>>
    BY <1>11 DEF OpenError, WriteFile, WriteError, Quiet, publishing
  <2>2. CASE job = SwitchStateJob
    BY <2>1, <2>2 DEF DisablingGoesOn
  <2>3. CASE job # SwitchStateJob
    BY <1>2, <2>1, <2>3
  <2>4. QED
    BY <2>2, <2>3
<1>12. QED
  BY <1>1, <1>3, <1>4, <1>5, <1>6, <1>7, <1>8, <1>9, <1>10, <1>11 DEF WorkerStep

\* A job that joins the queue leaves what is in it.
LEMMA StillAsked ==
    ASSUME devq \in Seq(Jobs), NEW j \in Jobs, devq' = Append(devq, j)
    PROVE  /\ Asked => Asked'
           /\ j = InitialJob => Asked'
<1>1. /\ devq' \in Seq(Jobs) /\ Len(devq') = Len(devq) + 1 /\ Len(devq) \in Nat
      /\ devq'[Len(devq) + 1] = j
      /\ \A i \in 1 .. Len(devq) : devq'[i] = devq[i]
  OBVIOUS
<1>2. DOMAIN devq = 1 .. Len(devq) /\ DOMAIN devq' = 1 .. Len(devq) + 1
  BY <1>1
<1>3. QED
  BY <1>1, <1>2 DEF Asked

LEMMA OthersKeepOwed ==
    ASSUME ProgramInv, OwedInv, Mqtt \/ Callback \/ SystemLoopStep
    PROVE  OwedInv'
<1> USE DEF OwedInv, SwitchStateInHand, NothingForgotten, Ahead
<1>1. UNCHANGED <<wpc, job, save>> /\ devq \in Seq(Jobs)
  BY DEF Mqtt, Callback, SystemLoopStep, worker, ProgramInv, ControlInv, WorkerInv
<1>2. ASSUME UNCHANGED devq \/ \E j \in Jobs : devq' = Append(devq, j), owed' \subseteq owed
      PROVE  OwedInv'
  BY <1>1, <1>2, StillAsked DEF Asked
<1>3. CASE \/ TimeSync \/ Connect \/ SubscribeFailed \/ Subscribed \/ Announce \/ Drain
           \/ Published \/ PublishFailed \/ WaitMessage \/ ClearConnected \/ CloseSession
           \/ CountFailure \/ RetryDelay
  <2>1. UNCHANGED devq /\ owed' \subseteq owed
    BY <1>3 DEF TimeSync, Connect, SubscribeFailed, Subscribed, Announce, Drain, Published,
       PublishFailed, WaitMessage, ClearConnected, CloseSession, CountFailure, RetryDelay,
       QueuesUnchanged, publishing, ResetPublishQueue
  <2>2. QED
    BY <1>2, <2>1
<1>4. CASE RequestInitialPublish
  <2>1. CASE EnqueueDeviceJob(InitialJob)
    <3>1. Asked'
      BY <1>1, <2>1, StillAsked DEF EnqueueDeviceJob, Jobs
    <3>2. QED
      BY <1>1, <3>1 DEF Asked
  <2>2. CASE UNCHANGED <<devq, events, owed>>
    BY <1>2, <2>2
  <2>3. QED
    BY <1>4, <2>1, <2>2 DEF RequestInitialPublish
<1>5. CASE Callback
  <2>1. /\ UNCHANGED devq \/ \E j \in Jobs : devq' = Append(devq, j)
        /\ owed' \subseteq owed
    BY <1>5, CommandsAssumption, OwedAfterEnqueue DEF Callback, MessageCallback,
       QueuesUnchanged, publishing, EnqueueDeviceJob, Jobs
  <2>2. QED
    BY <1>2, <2>1
<1>6. CASE SystemLoopStep
  <2>1. TemperatureJob \in Jobs /\ devq' = Append(devq, TemperatureJob) /\ UNCHANGED owed
    BY <1>6 DEF SystemLoopStep, EnqueueDeviceJob, Jobs, publishing
  <2>2. QED
    BY <1>2, <2>1
<1>7. QED
  BY <1>3, <1>4, <1>5, <1>6 DEF Mqtt, MqttStep

\* What a session has asked the worker to publish is on its way to being published
\* for as long as the session lasts.
THEOREM RequestsAreKept == Spec => []NothingForgotten
<1>1. ASSUME Init PROVE OwedInv
  BY <1>1, SpecialJobs DEF Init, InitResources, InitWorker, OwedInv, SwitchStateInHand,
     NothingForgotten
<1>2. ASSUME ProgramInv, OwedInv, [Next]_vars PROVE OwedInv'
  <2>1. CASE Worker
    BY <1>2, <2>1, WorkerKeepsOwed DEF Worker, ProgramInv, ControlInv, MqttTypeOK
  <2>2. CASE Mqtt \/ Callback \/ SystemLoopStep
    BY <1>2, <2>2, OthersKeepOwed
  <2>3. CASE UNCHANGED vars
    BY <1>2, <2>3 DEF vars, resources, publishing, worker, OwedInv, SwitchStateInHand,
       NothingForgotten, Ahead
  <2>4. CASE Clock
    BY <1>2, <2>4 DEF Clock, TimerLapses, publishing, OwedInv, SwitchStateInHand,
       NothingForgotten, Ahead
  <2>5. QED
    BY <1>2, <2>1, <2>2, <2>3, <2>4 DEF Next
<1>3. OwedInv => NothingForgotten
  BY DEF OwedInv
<1>4. QED
  BY <1>1, <1>2, <1>3, ProgramInvariant, PTL DEF Spec

-----------------------------------------------------------------------------
(* Agreement *)

\* What is pending stands for the queue, behind the publication in flight.
LEMMA PendingParts ==
    ASSUME PublicationsInv
    PROVE  \/ inflight = NoPublication /\ Pending = pubq
           \/ /\ inflight \in Publications
              /\ Pending \in Seq(Publications)
              /\ Len(Pending) = Len(pubq) + 1
              /\ Pending[1] = inflight
              /\ \A i \in 1 .. Len(pubq) : Pending[i + 1] = pubq[i]
<1>0. pubq \in Seq(Publications)
  BY DEF PublicationsInv
<1>1. CASE inflight = NoPublication
  BY <1>0, <1>1 DEF Pending
<1>2. CASE inflight # NoPublication
  <2>1. inflight \in Publications
    BY <1>2 DEF PublicationsInv
  <2>2. Pending = <<inflight>> \o pubq
    BY <1>2 DEF Pending
  <2>3. QED
    BY <1>0, <2>1, <2>2
<1>3. QED
  BY <1>1, <1>2

\* The last word about a device is what the broker is bound to have of it.
LEMMA LatestIsForeseen ==
    ASSUME PublicationsInv, NEW d \in Devices, NEW S,
           LatestIn(pubq, inflight, view, d, S)
    PROVE  Foreseen(d) \subseteq S
<1>0. pubq \in Seq(Publications) /\ Len(pubq) \in Nat
  BY DEF PublicationsInv
<1>1. CASE inflight = NoPublication /\ Pending = pubq
  <2>1. inflight.device # d
    BY <1>1, NoPublicationIsNone
  <2>2. \A i \in LastPending(d) : Pending[i].state \in S
    BY <1>0, <1>1 DEF LastPending, LatestIn
  <2>3. d \notin DevicesIn(Pending) => view[d] \in S
    BY <1>0, <1>1, <2>1, NotQueued DEF LatestIn
  <2>4. QED
    BY <2>2, <2>3 DEF Foreseen
<1>2. CASE /\ inflight \in Publications /\ Pending \in Seq(Publications)
           /\ Len(Pending) = Len(pubq) + 1 /\ Pending[1] = inflight
           /\ \A i \in 1 .. Len(pubq) : Pending[i + 1] = pubq[i]
  <2>1. ASSUME NEW i \in LastPending(d)
        PROVE  Pending[i].state \in S
    <3>1. /\ i \in 1 .. Len(pubq) + 1 /\ Pending[i].device = d
          /\ \A j \in 1 .. Len(pubq) + 1 : Pending[j].device = d => j <= i
      BY <1>2 DEF LastPending
    <3>2. CASE i = 1
      <4>1. ASSUME NEW j \in 1 .. Len(pubq)
            PROVE  pubq[j].device # d
        <5>1. j + 1 \in 1 .. Len(pubq) + 1 /\ ~(j + 1 <= i)
          BY <1>0, <3>2
        <5>2. QED
          BY <1>2, <3>1, <5>1
      <4>2. QED
        BY <1>2, <3>1, <3>2, <4>1 DEF LatestIn
    <3>3. CASE i # 1
      <4>1. i - 1 \in 1 .. Len(pubq) /\ Pending[i] = pubq[i - 1]
        <5>1. i - 1 \in 1 .. Len(pubq) /\ (i - 1) + 1 = i
          BY <1>0, <3>1, <3>3
        <5>2. QED
          BY <1>2, <5>1
      <4>2. ASSUME NEW j \in 1 .. Len(pubq), j > i - 1
            PROVE  pubq[j].device # d
        <5>1. j + 1 \in 1 .. Len(pubq) + 1 /\ ~(j + 1 <= i)
          BY <1>0, <3>1, <4>2
        <5>2. QED
          BY <1>2, <3>1, <5>1
      <4>3. QED
        BY <3>1, <4>1, <4>2 DEF LatestIn
    <3>4. QED
      BY <3>2, <3>3
  <2>2. ASSUME d \notin DevicesIn(Pending)
        PROVE  view[d] \in S
    <3>1. \A i \in 1 .. Len(pubq) + 1 : Pending[i].device # d
      BY <1>2, <2>2, NotQueued
    <3>2. inflight.device # d
      BY <1>0, <1>2, <3>1
    <3>3. ASSUME NEW i \in 1 .. Len(pubq)
          PROVE  pubq[i].device # d
      <4>1. i + 1 \in 1 .. Len(pubq) + 1
        BY <1>0
      <4>2. QED
        BY <1>2, <3>1, <4>1
    <3>4. QED
      BY <3>2, <3>3 DEF LatestIn
  <2>3. QED
    BY <2>1, <2>2 DEF Foreseen
<1>3. QED
  BY <1>1, <1>2, PendingParts

\* Between the worker, the queue, the session and the broker, no step leaves the
\* broker bound to keep a state of a device that it is no longer in, unless the
\* publication was discarded or is the one the worker is about to make; of the air
\* conditioner it may keep a timer that has run out (refresh_timer, which clears it,
\* publishes nothing), and then with the settings it still has.
THEOREM BrokerAgrees == Spec => []Agreement
<1>1. ProgramInv => Agreement
  <2>1. ASSUME ProgramInv, NEW d \in Devices \ lost, SaysTheState(d)
        PROVE  Foreseen(d) \subseteq {Unknown, StateOf(d)} \cup Outrun(d)
    BY <2>1, LatestIsForeseen DEF ProgramInv, SaysTheState, Current
  <2>2. QED
    BY <2>1 DEF ProgramInv, AgreementInv, Agreement, Exempt
<1>2. QED
  BY <1>1, ProgramInvariant, PTL

-----------------------------------------------------------------------------
(* The reports in their order: StateReports implemented *)

LEMMA ConsFacts ==
    ASSUME NEW p \in Publications, NEW q \in Seq(Publications)
    PROVE  /\ <<p>> \o q \in Seq(Publications)
           /\ <<p>> \o q # << >>
           /\ Len(<<p>> \o q) = Len(q) + 1
           /\ Head(<<p>> \o q) = p
           /\ Tail(<<p>> \o q) = q
           /\ \A r \in Publications : <<p>> \o Append(q, r) = Append(<<p>> \o q, r)
OBVIOUS

LEMMA HeadThenTail ==
    ASSUME NEW q \in Seq(Publications), q # << >>
    PROVE  /\ Head(q) \in Publications
           /\ Tail(q) \in Seq(Publications)
           /\ <<Head(q)>> \o Tail(q) = q
OBVIOUS

\* What is enqueued comes last of all that is pending, or there was no room.
LEMMA EnqueueSends ==
    ASSUME PublicationsInv, NEW p \in Publications, EnqueuePublish(p), UNCHANGED inflight
    PROVE  Reports!Send(p)
<1>1. pubq \in Seq(Publications) /\ Len(pubq) \in Nat
  BY DEF PublicationsInv
<1>2. CASE inflight = NoPublication
  <2>1. Pending = pubq /\ Pending' = pubq'
    <3>1. pubq' \in Seq(Publications)
      BY <1>1 DEF EnqueuePublish
    <3>2. QED
      BY <1>1, <1>2, <3>1 DEF Pending
  <2>2. QED
    BY <1>1, <2>1, QueueLengthAssumption DEF EnqueuePublish, Reports!Send
<1>3. CASE inflight # NoPublication
  <2>1. inflight \in Publications
    BY <1>3 DEF PublicationsInv
  <2>2. Pending = <<inflight>> \o pubq /\ Pending' = <<inflight>> \o pubq'
    BY <1>3 DEF Pending
  <2>3. Len(Pending) = Len(pubq) + 1
    BY <1>1, <2>1, <2>2, ConsFacts
  <2>4. pubq' = Append(pubq, p) => Pending' = Append(Pending, p)
    BY <1>1, <2>1, <2>2, ConsFacts
  <2>5. UNCHANGED pubq => UNCHANGED Pending
    BY <2>2
  <2>6. QED
    BY <1>1, <2>3, <2>4, <2>5, QueueLengthAssumption DEF EnqueuePublish, Reports!Send
<1>4. QED
  BY <1>2, <1>3

LEMMA WorkerReports ==
    ASSUME ProgramInv, WorkerInv', Worker
    PROVE  [Reports!Next]_Reports!vars
<1> USE DEF ProgramInv, ControlInv
<1>1. WorkerStep /\ UNCHANGED <<inflight, view, mpc>>
  BY DEF Worker, mqtt
<1>2. [d \in Devices |-> StateOf(d)]' \in [Devices -> States]
  BY StateTypedAfter DEF StatesTyped, WorkerInv
<1>3. CASE Quiet /\ (\A d \in Devices : StateKept(d)) /\ (Exempt <=> Exempt')
  <2>1. UNCHANGED <<[d \in Devices |-> StateOf(d)], {d \in {"switch"} : Exempt}>>
    BY <1>3 DEF StateKept
  <2>2. UNCHANGED <<Pending, mpc \in Connected, view>>
    BY <1>1, <1>3 DEF Quiet, publishing, Pending
  <2>3. QED
    BY <2>1, <2>2 DEF Reports!vars
<1>4. CASE Quiet /\ (\A d \in Devices \ {"switch"} : StateKept(d)) /\ ~Exempt /\ Exempt'
  <2>1. UNCHANGED <<Pending, mpc \in Connected, view>>
    BY <1>1, <1>4 DEF Quiet, publishing, Pending
  <2>2. /\ {d \in {"switch"} : Exempt} = {}
        /\ {d \in {"switch"} : Exempt}' = {"switch"}
    BY <1>4
  <2>3. Reports!Changes("switch")
    BY <1>2, <1>4 DEF Reports!Changes, StateKept, Devices
  <2>4. Reports!ChangeSilently("switch") /\ "switch" \in Devices
    BY <2>1, <2>2, <2>3 DEF Reports!ChangeSilently, Devices
  <2>5. QED
    BY <2>4 DEF Reports!Next
<1>5. CASE \E d \in Devices : Publishes(d)
  <2>1. PICK e \in Devices : Publishes(e)
    BY <1>5
  <2>2. /\ {d \in {"switch"} : Exempt} \subseteq {e}
        /\ {d \in {"switch"} : Exempt}' = {}
    BY <2>1 DEF Publishes
  <2>3. Reports!Changes(e)
    BY <1>2, <2>1 DEF Reports!Changes, Publishes, StateKept
  <2>4. Publication(e, StateOf(e)') \in Publications
    BY <2>1, PublicationTyped DEF WorkerInv
  <2>5. Reports!Send(Publication(e, StateOf(e)'))
    BY <1>1, <2>1, <2>4, EnqueueSends DEF Publishes
  <2>6. Reports!Send([device |-> e, state |-> [d \in Devices |-> StateOf(d)]'[e]])
    BY <2>1, <2>5 DEF Publication
  <2>7. Reports!Report(e)
    BY <1>1, <2>2, <2>3, <2>6 DEF Reports!Report
  <2>8. QED
    BY <2>1, <2>7 DEF Reports!Next
<1>6. QED
  BY <1>1, <1>3, <1>4, <1>5, WorkerPublishes

\* The oldest of all that is pending is the publication in flight.
LEMMA InflightIsHead ==
    ASSUME PublicationsInv, mpc = "publish"
    PROVE  /\ Pending # << >>
           /\ Head(Pending) = inflight
           /\ Tail(Pending) = pubq
<1>1. inflight \in Publications /\ pubq \in Seq(Publications)
  BY DEF PublicationsInv
<1>2. inflight # NoPublication
  BY <1>1, NoPublicationIsNone DEF Publications
<1>3. Pending = <<inflight>> \o pubq
  BY <1>2 DEF Pending
<1>4. QED
  BY <1>1, <1>3, ConsFacts

\* With nothing in flight, the queue is all that is pending.
LEMMA QueueIsPending ==
    PublicationsInv => (inflight = NoPublication => Pending = pubq)
BY DEF PublicationsInv, Pending

LEMMA QueueIsPendingAfter ==
    PublicationsInv' => (inflight' = NoPublication => Pending' = pubq')
BY DEF PublicationsInv, Pending

LEMMA MqttReports ==
    ASSUME ProgramInv, ProgramInv', MqttStep \/ MessageCallback, UNCHANGED worker
    PROVE  [Reports!Next]_Reports!vars
<1> USE DEF ProgramInv, Enter
<1>1. UNCHANGED <<[d \in Devices |-> StateOf(d)], {d \in {"switch"} : Exempt}>>
  BY DEF worker, StateOf, Exempt
<1>2. /\ pubq \in Seq(Publications)
      /\ PublicationsInv' => (inflight' = NoPublication => Pending' = pubq')
  BY QueueIsPendingAfter DEF PublicationsInv
<1>3. ASSUME UNCHANGED <<inflight, pubq, view>>, (mpc \in Connected) <=> (mpc' \in Connected)
      PROVE  UNCHANGED Reports!vars
  BY <1>1, <1>3 DEF Reports!vars, Pending
<1>4. CASE \/ TimeSync \/ Connect \/ SubscribeFailed \/ Subscribed
           \/ RequestInitialPublish \/ ClearConnected \/ CountFailure \/ RetryDelay
  <2>1. /\ UNCHANGED <<inflight, pubq, view>>
        /\ (mpc \in Connected) <=> (mpc' \in Connected)
    BY <1>4 DEF TimeSync, Connect, SubscribeFailed, Subscribed, RequestInitialPublish,
       ClearConnected, CountFailure, RetryDelay, SessionUnchanged, QueuesUnchanged,
       publishing, Connected
  <2>2. QED
    BY <1>3, <2>1
<1>5. CASE Announce
  <2>1. UNCHANGED <<Pending, view>> /\ ~(mpc \in Connected) /\ mpc' \in Connected
    BY <1>5 DEF Announce, SessionUnchanged, QueuesUnchanged, publishing, Connected, Pending
  <2>2. Reports!SessionBegins
    BY <1>1, <2>1 DEF Reports!SessionBegins
  <2>3. QED
    BY <2>2 DEF Reports!Next
<1>6. CASE Drain
  <2>1. /\ mpc = "drain" /\ mpc' \in {"wait", "publish"} /\ inflight = NoPublication
        /\ UNCHANGED view
    BY <1>6 DEF Drain, PublicationsInv
  <2>2. CASE UNCHANGED <<inflight, pubq>>
    BY <1>3, <2>1, <2>2 DEF Connected
  <2>3. CASE pubq # << >> /\ inflight' = Head(pubq) /\ pubq' = Tail(pubq)
    <3>1. Head(pubq) \in Publications /\ <<Head(pubq)>> \o Tail(pubq) = pubq
      BY <1>2, <2>3, HeadThenTail
    <3>2. inflight' # NoPublication
      BY <2>3, <3>1, NoPublicationIsNone DEF Publications
    <3>3. Pending' = pubq /\ Pending = pubq
      BY <2>1, <2>3, <3>1, <3>2, QueueIsPending DEF Pending
    <3>4. QED
      BY <1>1, <2>1, <3>3 DEF Reports!vars, Connected
  <2>4. QED
    BY <1>6, <2>2, <2>3 DEF Drain
<1>7. CASE Published
  <2>1. /\ mpc = "publish" /\ mpc' = "drain" /\ view' = Delivered(inflight)
        /\ inflight' = NoPublication /\ UNCHANGED pubq
    BY <1>7 DEF Published, QueuesUnchanged, publishing
  <2>2. Pending # << >> /\ Head(Pending) = inflight /\ Pending' = Tail(Pending)
    BY <1>2, <2>1, InflightIsHead
  <2>3. Reports!Arrives
    BY <2>1, <2>2 DEF Reports!Arrives, Delivered
  <2>4. Reports!Arrive
    BY <1>1, <2>1, <2>2, <2>3 DEF Reports!Arrive, Connected
  <2>5. QED
    BY <2>4 DEF Reports!Next
<1>8. CASE PublishFailed
  <2>1. /\ mpc = "publish" /\ mpc' = "exit" /\ view' \in {view, Delivered(inflight)}
        /\ inflight' = NoPublication /\ UNCHANGED pubq
    BY <1>8 DEF PublishFailed
  <2>2. Pending # << >> /\ Head(Pending) = inflight /\ Pending' = Tail(Pending)
    BY <1>2, <2>1, InflightIsHead
  <2>3. Reports!Arrives \/ UNCHANGED view
    BY <2>1, <2>2 DEF Reports!Arrives, Delivered
  <2>4. Reports!SessionEnds
    BY <1>1, <2>1, <2>2, <2>3 DEF Reports!SessionEnds, Connected
  <2>5. QED
    BY <2>4 DEF Reports!Next
<1>9. CASE WaitMessage
  <2>1. /\ mpc = "wait" /\ mpc' \in {"drain", "exit"} /\ UNCHANGED <<inflight, pubq, view>>
    BY <1>9 DEF WaitMessage, SessionUnchanged, QueuesUnchanged, publishing
  <2>2. CASE mpc' = "drain"
    BY <1>3, <2>1, <2>2 DEF Connected
  <2>3. CASE mpc' = "exit"
    <3>1. Reports!SessionEnds
      BY <1>1, <2>1, <2>3 DEF Reports!SessionEnds, Connected, Pending
    <3>2. QED
      BY <3>1 DEF Reports!Next
  <2>4. QED
    BY <2>1, <2>2, <2>3
<1>10. CASE CloseSession
  <2>1. /\ mpc = "close" /\ mpc' = "error" /\ pubq' = << >>
        /\ UNCHANGED <<inflight, view>> /\ inflight = NoPublication
    BY <1>10 DEF CloseSession, ResetPublishQueue, PublicationsInv
  <2>2. Pending' = << >>
    BY <1>2, <2>1
  <2>3. Reports!Discard
    BY <1>1, <2>1, <2>2 DEF Reports!Discard, Connected
  <2>4. QED
    BY <2>3 DEF Reports!Next
<1>11. CASE MessageCallback
  <2>1. UNCHANGED <<mpc, inflight, view>>
    BY <1>11 DEF MessageCallback
  <2>2. CASE UNCHANGED publishing
    BY <1>3, <2>1, <2>2 DEF publishing
  <2>3. CASE EnqueuePublish(Reply("error")) \/ EnqueuePublish(Reply("busy"))
    <3>1. PICK p \in {Reply("error"), Reply("busy")} : EnqueuePublish(p)
      BY <2>3
    <3>2. p \in Publications
      <4>1. <<"error">> \in States /\ <<"busy">> \in States
        BY DEF States
      <4>2. QED
        BY <3>1, <4>1 DEF Reply, Publications
    <3>3. Reports!Send(p)
      BY <2>1, <3>1, <3>2, EnqueueSends
    <3>4. Reports!SendReply
      BY <1>1, <2>1, <3>1, <3>3 DEF Reports!SendReply
    <3>5. QED
      BY <3>4 DEF Reports!Next
  <2>4. QED
    BY <1>11, <2>2, <2>3 DEF MessageCallback, QueuesUnchanged
<1>12. QED
  BY <1>4, <1>5, <1>6, <1>7, <1>8, <1>9, <1>10, <1>11 DEF MqttStep

\* A timer that runs out is what time may do to a device.
LEMMA ClockLapses ==
    ASSUME WorkerInv, Clock
    PROVE  Reports!Next
<1>1. /\ TimerLapses /\ aircon \in AirconStates
      /\ UNCHANGED <<pubq, lost, inflight, view, mpc, wpc, save>>
  BY DEF Clock, TimerLapses, publishing, mqtt, WorkerInv, WorkerTypeOK, AirconStates
<1>2. UNCHANGED <<{d \in {"switch"} : Exempt}, Pending, mpc \in Connected, view>>
  BY <1>1 DEF Exempt, Pending
<1> DEFINE l == [device |-> "aircon", before |-> <<aircon.settings, "on">>,
                 after |-> <<aircon.settings, "off">>]
<1>3. l \in TimerEnds
  BY <1>1 DEF TimerEnds, AirconStates
<1>4. /\ [d \in Devices |-> StateOf(d)][l.device] = l.before
      /\ [d \in Devices |-> StateOf(d)]'
           = [[d \in Devices |-> StateOf(d)] EXCEPT ![l.device] = l.after]
  BY <1>1, TimerOutruns DEF Devices, StateKept
<1>5. Reports!Lapse
  BY <1>2, <1>3, <1>4 DEF Reports!Lapse
<1>6. QED
  BY <1>5 DEF Reports!Next

\* Over any failures of sessions and any shortage of room, what the broker is told
\* of a device are states it was in, in that order; only a session's end or a full
\* queue costs a report; and a silent change is reported before anything else.
THEOREM ReportsImplemented == Spec => ReportsInOrder
<1>1. ASSUME Init PROVE Reports!Init
  <2>1. WorkerInv /\ wpc = "idle"
    BY <1>1, ProgramStarts DEF Init, ProgramInv, ControlInv, InitWorker
  <2>2. [d \in Devices |-> StateOf(d)] \in [Devices -> States]
    BY <2>1, StateTyped DEF StatesTyped, WorkerInv
  <2>3. /\ pubq = << >> /\ inflight = NoPublication /\ mpc = "offline"
        /\ view = [d \in Devices |-> Unknown]
    BY <1>1 DEF Init, InitResources, InitMqtt
  <2>4. QED
    BY <2>1, <2>2, <2>3 DEF Reports!Init, Exempt, Pending, Connected
<1>2. ASSUME ProgramInv, ProgramInv', [Next]_vars PROVE [Reports!Next]_Reports!vars
  <2>1. CASE Worker
    BY <1>2, <2>1, WorkerReports DEF ProgramInv, ControlInv
  <2>2. CASE Mqtt \/ Callback
    BY <1>2, <2>2, MqttReports DEF Mqtt, Callback
  <2>3. CASE SystemLoopStep \/ UNCHANGED vars
    <3>1. UNCHANGED <<pubq, worker, mqtt>>
      BY <2>3 DEF SystemLoopStep, vars, resources, publishing
    <3>2. UNCHANGED Reports!vars
      BY <3>1 DEF worker, mqtt, Reports!vars, StateOf, Exempt, Pending
    <3>3. QED
      BY <3>2
  <2>4. CASE Clock
    BY <1>2, <2>4, ClockLapses DEF ProgramInv, ControlInv
  <2>5. QED
    BY <1>2, <2>1, <2>2, <2>3, <2>4 DEF Next
<1>3. QED
  BY <1>1, <1>2, ProgramInvariant, PTL DEF Spec, ReportsInOrder, Reports!Spec
=============================================================================
