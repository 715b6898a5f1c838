------------------------------- MODULE Aircon -------------------------------
(***************************************************************************)
(* The air conditioner in main/device_worker.c and the clock: the worker   *)
(* keeps what it last sent and the target time of a timer, and reads the   *)
(* clock again at every step of a job: refresh_timer, process_aircon, the  *)
(* frame (remaining_timer_minutes), the publication.  Time passes between  *)
(* any two of them.                                                        *)
(*                                                                         *)
(* A target is kept as the time left until it, in ticks, a fraction of a   *)
(* minute.  The air conditioner is external: it takes the settings of a    *)
(* frame, counts its timer down and then switches itself, which nobody     *)
(* tells the worker.  `fan' stands for every setting but power; a frame is *)
(* what AirconIr shows to be read back.                                    *)
(***************************************************************************)
EXTENDS Integers

CONSTANTS TicksPerMinute,
          MaxMinutes  \* 720, the longest timer of parse_aircon

ASSUME AirconAssumption == /\ TicksPerMinute \in Nat \ {0}
                           /\ MaxMinutes \in Nat

VARIABLES apc,        \* the step of the job
          job,        \* the job in progress
          shadow,     \* s_aircon
          next,       \* process_aircon's copy
          published,  \* the last publication
          unit,       \* external: the air conditioner
          commanded,  \* history: this process has sent a frame
          fired       \* history: the timer that ran out in the unit since then

worker == <<apc, job, shadow, next, published>>
vars == <<worker, unit, commanded, fired>>

Switch == {"on", "off"}
Timers == Switch \cup {"none"}
Fans == {"auto", "max"}
States == [power : Switch, fan : Fans, timer : Timers, left : Nat]

\* device_worker_initialize
Default == [power |-> "off", fan |-> "auto", timer |-> "none", left |-> 0]

Request(kind, value, minutes) == [kind |-> kind, value |-> value, minutes |-> minutes]
Settings == {Request("power", v, 0) : v \in Switch} \cup {Request("fan", v, 0) : v \in Fans}
              \cup {Request("timer", v, m) : v \in Switch, m \in 0 .. MaxMinutes}
Others == {Request("report", "none", 0), Request("other", "none", 0)}
Jobs == Settings \cup Others

Init == /\ apc = "idle" /\ job = Request("other", "none", 0)
        /\ shadow = Default /\ next = Default
        /\ published = [timer |-> "none", remaining |-> 0]
        /\ unit \in {[power |-> v, fan |-> f, timer |-> t, left |-> n] :
                       v \in Switch, f \in Fans, t \in Timers,
                       n \in 0 .. MaxMinutes * TicksPerMinute}
        /\ unit.timer = "none" <=> unit.left = 0
        /\ commanded = FALSE /\ fired = "none"

-----------------------------------------------------------------------------
(* The worker *)

\* A mutant of Refreshed: a timer that has run out stays.
RefreshedTarget(state) == state

\* refresh_timer
Refreshed(state) == IF state.left = 0 THEN [state EXCEPT !.timer = "none"] ELSE state

\* process_job
TakeJob == /\ apc = "idle" /\ apc' = "process"
           /\ job' \in Jobs
           /\ shadow' = Refreshed(shadow)
           /\ UNCHANGED <<next, published, unit, commanded, fired>>

\* The switch of process_aircon; zero minutes take a timer back.
Changed(state) ==
    CASE job.kind = "power" -> [state EXCEPT !.power = job.value]
      [] job.kind = "fan" -> [state EXCEPT !.fan = job.value]
      [] job.kind = "timer" ->
           [state EXCEPT !.timer = IF job.minutes = 0 THEN "none" ELSE job.value,
                         !.left = job.minutes * TicksPerMinute]

\* process_aircon up to the frame.  The first publication of a session and a
\* request for the state are "report"; the jobs of other devices, thresholds and
\* temperatures (no sensor on this platform) are "other".
Process == /\ apc = "process"
           /\ shadow' = Refreshed(shadow)
           /\ CASE job.kind = "report" -> apc' = "publish" /\ UNCHANGED next
                [] job.kind = "other" -> apc' = "idle" /\ UNCHANGED next
                [] OTHER -> apc' = "send" /\ next' = Changed(shadow')
           /\ UNCHANGED <<job, published, unit, commanded, fired>>

\* A mutant of Minutes: what is left is rounded down.
MinutesDown(left) == left \div TicksPerMinute

\* remaining_timer_minutes, rounded up (parse_aircon keeps it below 720).
Minutes(left) == (left + TicksPerMinute - 1) \div TicksPerMinute

\* make_ir_state, aircon_ir_send_state: a timer that has run out is not sent.
\* The air conditioner restarts its timer, or drops it with a frame without one.
Frame(state) == LET minutes == IF state.timer = "none" THEN 0 ELSE Minutes(state.left)
                IN [state EXCEPT !.timer = IF minutes = 0 THEN "none" ELSE @,
                                 !.left = minutes * TicksPerMinute]

\* A mutant of Send: the copy is never taken over.
SendOnly == /\ apc = "send" /\ apc' = "publish"
            /\ unit' = Frame(next)
            /\ commanded' = TRUE /\ fired' = "none"
            /\ UNCHANGED <<job, shadow, next, published>>

\* Sending is simulated and succeeds: the settings of every job are in range.
Send == /\ apc = "send" /\ apc' = "publish"
        /\ unit' = Frame(next) /\ shadow' = next
        /\ commanded' = TRUE /\ fired' = "none"
        /\ UNCHANGED <<job, next, published>>

\* publish_aircon: mqtt_protocol_make_aircon_state drops a timer that has run out.
Publish == /\ apc = "publish" /\ apc' = "idle"
           /\ shadow' = Refreshed(shadow)
           /\ published' = [timer |-> shadow'.timer, remaining |-> Minutes(shadow.left)]
           /\ UNCHANGED <<job, next, unit, commanded, fired>>

-----------------------------------------------------------------------------
Sooner(state) == [state EXCEPT !.left = IF @ > 0 THEN @ - 1 ELSE 0]

Counted == IF unit.left = 1
           THEN [unit EXCEPT !.power = unit.timer, !.timer = "none", !.left = 0]
           ELSE Sooner(unit)

Tick == /\ shadow' = Sooner(shadow) /\ next' = Sooner(next)
        /\ unit' = Counted
        /\ fired' = IF unit.left = 1 THEN unit.timer ELSE fired
        /\ UNCHANGED <<apc, job, published, commanded>>

\* The process ends and is started again; the air conditioner goes on.
Restart == /\ apc' = "idle" /\ shadow' = Default /\ next' = Default
           /\ commanded' = FALSE /\ fired' = "none"
           /\ UNCHANGED <<job, published, unit>>

Next == TakeJob \/ Process \/ Send \/ Publish \/ Tick \/ Restart

Spec == Init /\ [][Next]_vars

-----------------------------------------------------------------------------
(* Properties *)

WorkerOK == /\ apc \in {"idle", "process", "send", "publish"}
            /\ job \in Jobs /\ (apc = "send" => job \in Settings)
            /\ shadow \in States /\ next \in States
            /\ published \in [timer : Timers, remaining : Nat]

UnitOK == /\ unit \in States
          /\ unit.timer = "none" <=> unit.left = 0
          /\ commanded \in BOOLEAN /\ fired \in Timers

\* The types of the variables.
TypeOK == WorkerOK /\ UnitOK

\* Every command sends the remaining time again, rounded up to a minute: the
\* timer of the air conditioner is that of the worker, never early, and less than
\* a minute late however often it was sent again.
TimerTracked ==
    shadow.left > 0 => /\ unit.timer = shadow.timer
                       /\ shadow.left <= unit.left
                       /\ unit.left < shadow.left + TicksPerMinute

\* The air conditioner is as it was last told to be, whatever job, timer or clock
\* came in between, but for what its own timer did: then it has switched itself,
\* and the worker's timer has run out too.
UnitFollows ==
    commanded => /\ unit.fan = shadow.fan
                 /\ unit.power = IF fired = "none" THEN shadow.power ELSE fired
                 /\ fired # "none" => shadow.left = 0

\* A publication tells of the timer in the air conditioner within a minute; one
\* that tells of none is wrong for less than a minute, although it reads the clock
\* again after the frame was built.
Published == apc = "publish" /\ apc' = "idle" /\ commanded /\ commanded'
ReportsTimer ==
    [][Published =>
         IF published'.timer = "none" THEN unit.left < TicksPerMinute
         ELSE /\ unit.timer = published'.timer
              /\ (published'.remaining - 1) * TicksPerMinute < unit.left
              /\ unit.left < (published'.remaining + 1) * TicksPerMinute]_vars
=============================================================================
