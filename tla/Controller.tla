----------------------------- MODULE Controller -----------------------------
(***************************************************************************)
(* The program as it runs: the MQTT task, the device worker and the system *)
(* loop, around the queues of app_resources.c.  What it is for: the broker *)
(* (and Alexa behind it) knows the state of the devices.                   *)
(***************************************************************************)
EXTENDS DeviceWorker, MqttTask

CONSTANT Files   \* the settings files the program may start with

ASSUME FilesAssumption == Files \subseteq SettingsFiles

vars == <<resources, worker, mqtt>>

\* enqueue_temperature_job of system_loop.c: skipped if the queue is full.
SystemLoopStep == /\ EnqueueDeviceJob(TemperatureJob)
                  /\ UNCHANGED <<publishing, events, worker, mqtt>>

Init == InitResources /\ (\E f \in Files : InitWorker(f)) /\ InitMqtt

Worker == WorkerStep /\ UNCHANGED <<events, mqtt>>
Mqtt == MqttStep /\ UNCHANGED worker
Callback == MessageCallback /\ UNCHANGED worker
Clock == TimerLapses /\ UNCHANGED <<events, mqtt>>

Next == Worker \/ Mqtt \/ Callback \/ SystemLoopStep \/ Clock

\* Every task is a thread, and everything it waits for has a timeout: it goes
\* on.  Nothing is assumed of the broker, of the clock or of the system loop.
Spec == Init /\ [][Next]_vars /\ WF_vars(Worker) /\ WF_vars(Mqtt)

-----------------------------------------------------------------------------
(* Properties *)

QueuesBounded == /\ devq \in Seq(Jobs) /\ Len(devq) <= DeviceQueueLength
                 /\ Len(pubq) <= PublishQueueLength

\* The types of the variables of both tasks, and the bounds of the queues.
TypeOK == WorkerTypeOK /\ MqttTypeOK /\ QueuesBounded

Pending == (IF inflight = NoPublication THEN << >> ELSE <<inflight>>) \o pubq

\* The states of d the broker may have once all that is pending arrives: that of
\* the last pending publication of d, or else the one it has.
LastPending(d) == {i \in DOMAIN Pending :
                     /\ Pending[i].device = d
                     /\ \A j \in DOMAIN Pending : Pending[j].device = d => j <= i}
Foreseen(d) == {Pending[i].state : i \in LastPending(d)}
                 \cup {view[d] : x \in {d} \ DevicesIn(Pending)}

\* The switch has been disabled by its failures, and that is yet to be published.
Exempt == \/ wpc = "disabled"
          \/ wpc \in {"save", "write"} /\ save.done = "disabled"

\* The air conditioner as it was when its timer still ran, if that has run out and
\* nothing was published since: refresh_timer clears a timer without a word.
Outrun(d) == IF d = "aircon" /\ aircon.timer \in {"due", "cleared"}
             THEN {AirconState([aircon EXCEPT !.timer = "running"])} ELSE {}

\* The broker never ends up with an old state of a device behind the worker's
\* back: what it has of the device, or is about to receive last, is the state
\* the device is in, unless the last publication was discarded (queue full,
\* publish failed, session closed), there has been none, or it is the one
\* disable_switch_after_failures is about to make.  Of the air conditioner it may
\* still be told a timer that has run out meanwhile, with the settings in force.
Agreement == \A d \in Devices \ lost :
                \/ Foreseen(d) \subseteq {Unknown, StateOf(d)} \cup Outrun(d)
                \/ d = "switch" /\ Exempt

\* What the payloads tell, the results of replies included.
States == Seq(Levels \cup {"on", "off", "error", "busy"})

\* What the clock does to the air conditioner, whatever its settings.
TimerEnds == {[device |-> "aircon", before |-> <<v, "on">>, after |-> <<v, "off">>] :
                v \in Levels}

Reports == INSTANCE StateReports
           WITH state <- [d \in Devices |-> StateOf(d)],
                silent <- {d \in {"switch"} : Exempt},
                Lapses <- TimerEnds,
                channel <- Pending,
                up <- mpc \in Connected,
                Replies <- {Reply("error"), Reply("busy")},
                Capacity <- PublishQueueLength

\* What the broker is told of a device are states the device was in when they were
\* published, in that order, and never an older one after a newer one, whatever
\* sessions fail and queues fill up meanwhile; no publication is discarded while
\* there is room in the queue, or in the middle of a session but by its failure.
ReportsInOrder == Reports!Spec

\* Where the worker's way to a publication of d still leads through: the initial
\* publication is queued, or in hand and d's turn has not come.
Ahead(d) == \/ \E i \in DOMAIN devq : devq[i] = InitialJob
            \/ wpc = "run" /\ job = InitialJob
            \/ wpc = "initial_light" /\ d \in {"light", "switch"}
            \/ wpc # "idle" /\ job = SwitchStateJob /\ d = "switch"

\* No state that a session has asked for is forgotten: until the worker has tried to
\* publish it, the request is in the queue or in hand, through the retries and the
\* disabling of the switch, whatever commands and sessions come in between.
NothingForgotten == \A d \in owed : Ahead(d)

\* Once a session has asked for the initial publication, every device gets to
\* publish its state, and what it published leaves for the broker; or the
\* session ends first.  (A full publish queue may discard it: see lost.)
InitialStatePublished ==
    \A d \in Devices : d \in owed ~> d \notin owed \cup DevicesIn(Pending)
=============================================================================
