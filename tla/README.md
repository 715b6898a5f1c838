# A TLA+ model of the x86_64 test build of the MQTT/IR/BLE controller

The program (a port of an ESP32 controller to Linux) connects a broker to three
devices: an air conditioner driven by infrared, a lamp driven by Bluetooth
advertisements and a Tuya smart plug. This directory holds TLA+ modules that
model its tasks, its drivers, its transport and the FreeRTOS shim they stand on,
TLC configurations that check the models on small instances, and proofs that the
safety properties hold for every value of the constants, those of the bytes of
frames excepted.

## 1. Inventory

| Part | Source | State | Operations |
|---|---|---|---|
| Queue of the FreeRTOS shim | `compat/src/freertos_shim.c:72-162` | mutex, two condition variables, ring buffer | send, receive, reset, with or without a deadline |
| Event group, critical section | `freertos_shim.c` | bits under a mutex; a mutex the first caller allocates | set, clear, wait; enter, exit |
| Tasks, semaphore | the rest of `freertos_shim.c` | none of their own | create, delay; take, give (the semaphore is unused) |
| Application resources | `main/app_resources.c` | the device queue, the publish queue, the event group | enqueue, discard when full, reset |
| MQTT task | `main/mqtt_task.c` | failure counter, time flags, message being assembled, a session | synchronise, connect, subscribe, publish, receive, ping, close, retry |
| Device worker | `main/device_worker.c` | the state of the three devices, failure counters | one job at a time |
| Settings store | `main/settings_store.c` | a file of `key=value` lines | load, upsert |
| System loop | `main/system_loop.c` | next temperature time | one job every interval |
| Start-up | `main/app_main.c` | - | initialise in order, abort on an error |
| Wi-Fi manager | `main/wifi_manager.c` | one bit, always set | none that is called after the start |
| Protocol | `main/mqtt_protocol.c` | none | parse a topic and payload, make a state or result |
| Transport | `main/mqtt_transport.c` | a socket, TLS | connect, read, write, close |
| Status LED | `main/status_led.c` | pattern, publish flash | tick (its call is commented out) |
| IR frames | `components/aircon_ir` | none | build and send a frame |
| Tuya driver | `components/tuya_switch` | one connection per request | read the state, set and verify it |
| LampSmart | `components/lampsmart` | an HCI socket, counters of two protocol variants | send a command in both |
| Temperature sensor | `components/room_temperature` | none | always "not supported" here |

**How they interact.** The system loop and wolfMQTT's callback (which runs in the
MQTT task) put *jobs* in the device queue and never wait. The device worker is
its only consumer. It drives a device, changes its own copy of the state, saves
settings, and puts *publications* in the publish queue, without waiting either.
The MQTT task is the only consumer of that queue, and empties it only during a
session; it throws away what is left when a session ends. The event bits are set
by the MQTT task, the start-up and the worker, and read by the status LED. The
worker calls the drivers, wolfMQTT calls the transport; both wait for the other
side of a connection for a bounded time.

**What is hard.** Sessions can fail at any point while commands and publications
are on their way; both queues discard when full; a publication is removed from
its queue before it is sent; a message arrives in fragments that outlive the
session that began it; the plug pushes, delays and repeats frames and may execute
a command after the driver has given up on it; failures of the plug are counted
over jobs and attempts and lead to a change of a persistent setting in the middle
of a retry loop; the clock moves between the steps of an air conditioner's job, and
a timer that has run out is cleared without a word; a result may be addressed to the
program itself;
an HCI command may fail with an advertisement on the air; the settings file is
truncated before it is rewritten and its errors are mostly not looked at; the
queue, the event group and the critical section are hand-written pthread
constructions. `PROJECT.json` lists these hazards with their lines.

**What makes the parts correct.** Queue: a FIFO whose calls take effect at one
instant, and a consumer that does not sleep on items. Event group: nobody sleeps
on bits that are set. MQTT task: truthful event bits, a retry pause that follows
the failures, messages that mean what they say. Transport: no descriptor and no
byte lost. Worker: retries that end, a plug disabled exactly at the limit,
settings that survive. Drivers: a plug state that was so, timers that agree, a
toggle sent once, frames that are read back as commanded. The whole: the broker
knows the state of the devices, except where the code discards on purpose.

## 2. Modules

| Module | Models | Built on |
|---|---|---|
| `BoundedFifo` | abstract: what `freertos/queue.h` promises | - |
| `FreertosQueue` | the queue of `freertos_shim.c`, at the grain of mutex and condition variables | refines `BoundedFifo` |
| `QueueDiscipline` | who calls the queue, and how: one consumer, producers that do not wait | `FreertosQueue` |
| `EventGroup` | the event group of `freertos_shim.c` | - |
| `CriticalSection` | the critical section of `freertos_shim.c` | - |
| `StatusLed` | `status_led.c` under calls in any order | event bits as a set |
| `AppResources` | the two queues as bounded sequences, event bits, jobs | uses what `BoundedFifo` promises |
| `DeviceWorker` | `device_worker.c` with `settings_store.c` | `AppResources` |
| `MqttTask` | `mqtt_task.c` | `AppResources` |
| `MqttSession` | the MQTT task against arbitrary other tasks | `MqttTask` |
| `StateReports` | abstract: what the program promises the broker about the devices | - |
| `Controller` | MQTT task, worker, system loop together | `DeviceWorker`, `MqttTask`; refines `StateReports` |
| `Lifecycle` | the worker and its settings over kills and starts | `DeviceWorker` |
| `MqttProtocol` | `mqtt_protocol.c`: commands and results | - |
| `MessageCallback` | `message_callback` and the buffers it fills | `MqttProtocol` |
| `MqttTransport` | `mqtt_transport.c` over sockets | - |
| `SwitchService` | abstract: what the worker may expect of the plug | - |
| `TuyaClient` | `tuya_switch.c` and the retry loops around it | refines `SwitchService` |
| `Aircon` | the air conditioner's timer in `device_worker.c` | - |
| `AirconIr` | `aircon_ir.c`: names to timing symbols | - |
| `LampSmart` | `lampsmart.c`, `lampsmart_sender_linux_bluez.c`: the advertisements of a command | - |
| `LampFrames` | `lampsmart_f008.c`, `lampsmart_77f8.c`, `lampsmart.c`: their bytes | - |
| `*Proofs` | the theorems, section 4 | the modules they extend |
| `MC*` | constants and combinations for TLC | the modules they extend |

Where two modules are extended by a third, the specification of one of them has
a name of its own: `SessionSpec`, `LifeSpec`, `LampSpec`, `LedSpec`,
`CriticalSpec`; elsewhere it is `Spec`.

**FreertosQueue.** A thread's call has a place `pc[t]`: waiting for the mutex,
holding it (`locked`, `stored`, `copied`), `asleep` on a condition variable,
`woken`, or `expired`. `Store` and `Copy` (the `memcpy`s) are steps apart from
`CommitSend` and `CommitReceive` (the indices and the signal), so that the mutex
has something to protect. A signal may be lost to a waiter whose deadline has
passed, and a waiter may wake for no reason, as POSIX allows. Deadlines pass at
any moment: no clock is needed. **QueueDiscipline** adds the variable `consumer`,
the one thread that receives and resets, or none, and then anybody makes any
call.

**EventGroup.** What a call does under the mutex is one action; the sleep in
`pthread_cond_timedwait` is what divides a wait. `asleep` are the sleepers,
`woken` those that a broadcast has reached and that have not run yet.

**CriticalSection.** `portENTER_CRITICAL` is `Check` (is there a mutex),
`Create` (allocate and store it), `Call` (read the pointer and call
`pthread_mutex_lock`) and `Lock`. The accesses to `mux->mutex` are not ordered:
a thread that found a mutex may lock the one it saw or the one of a fresh read.
`calm` remembers that the mutex has existed at a moment nobody was inside.

**StatusLed.** `Tick` is `status_led_tick`, one action: only it reads and writes the
phases, and the lock orders a notification with it. In this build its call is
commented out (`system_loop.c:33-34`) although `README.md:18` and the comment at
`status_led.c:7` say that the logic is unchanged: the LED keeps its start-up
state. So a tick is an operation that may be called at any moment or never; the
module says what the component does with the calls it gets, assumes no fairness,
and claims nothing of what it must show in the end.

**AppResources.** A queue call is one atomic step: that is what the refinement
above justifies. Two history variables say what became of publications: `lost`
(devices whose last publication was discarded, by a full queue, a failed publish
or a session's end) and `owed` (devices that have not published since the session
asked for the initial state).

**DeviceWorker.** `wpc` is the place in `process_job`; an action is the code
between two queue operations, file operations or answers of a driver.
`read_switch_with_retry` and `set_switch_with_retry` are the `tuya` steps with
`attempt`; saving is `save` (before `fopen`), `write` (the file is truncated)
and the place to go on from. Drivers answer success or failure; a power command
succeeds only with the plug read back as asked, which is what `TuyaClient`
establishes. Settings of the air conditioner are one value: every IR command
replaces one field of a copy, sends all of it, and keeps it only if the send
succeeded. Beside them stands the timer, since the payload tells of it: `running`;
`due` once its target has passed, which is the step `TimerLapses` of the clock and may
come at any moment, inside a publication too (`PublishAircon`); `none`, or `cleared`
when `refresh_timer` at the beginning of a job (`Refreshed`) has found it due and
nothing was published since. The code does not tell the last two apart. How many
minutes are left is the matter of `Aircon`. The file may be unreadable (taken for absent), impossible to open for
writing (reported), or written in part (not noticed). `configValid` is whether
the compiled-in configuration of the plug passes the driver's check.

**MqttTask.** `mpc` is the place in `mqtt_task_main` and `run_session`. Every
library call succeeds or fails. `MessageCallback` is possible wherever the
library waits for a packet after the subscription was asked for: during the
subscribe call, while a publish waits for its acknowledgement, and in the wait
itself. A failed publish may have arrived at the broker, whose last knowledge of
each device is `view`. The two event bits change in separate steps.

**Controller** runs them together. **StateReports** is what it is for, without tasks,
jobs, retries or files: the states of the devices, one channel to the broker that
holds the publication in flight and the publish queue, whether there is a session,
and what the broker has been told. A change of a device is reported by the step that
makes it; or it is silent (the switch disabled by its failures, whose publication
waits for the settings file), and then the next report is the one that is missing.
What time does to a device, `Lapse`, need not be reported at all: the air
conditioner's timer runs out.
The channel loses a report only when it is full or at the end of a session.

**Lifecycle** has the worker killed between
any two steps, losing everything but `file`, and started again by
`device_worker_initialize`, which aborts if the switch is enabled and its
configuration does not pass its own check.

**MqttProtocol, MessageCallback.** A topic is its text cut at the delimiter, a
payload an object with one member or garbage, so that the tests of
`mqtt_protocol.c` are on the parts they look at. `Callback(n)` is one call of
`message_callback` with `n` bytes: start a message, append what fits, and after
the last byte parse it into a job, a result or nothing. Bytes know which message
they are of, and `SessionEnds` cuts a message off in the middle. The broker delivers
whatever is below our identifier: what clients send, signed with any topic, and the
program's own results (`PublishResult` leaves one in `echoes`, `EchoArrives` brings
it back). `selfSigned` counts the messages of the session that clients have signed
with a topic of ours.
`MqttTask` takes the whole message as one step; this module is why it may.

**MqttTransport.** `tpc` is the place in `net_connect` (the loop over addresses,
`connect`, `select`, `getsockopt`), `net_read` or `net_write`; `tcp` is what each
descriptor is to the kernel, `fd` and `held` are the two variables that know it.
Bytes are counted at the kernel and at wolfMQTT.

**TuyaClient.** `pc` is the place in a session: connect, the negotiation
(`nonce`, `finish`), the request, `ack`, `status`. `toPlug` and `toClient` are the
frames in the connection. The plug reads them in order, answers or refuses them,
pushes frames nobody asked for, garbles, closes, and its button is pressed.
Commands of a closed session stay in `orphans` and may be executed at any later
moment. `phase` separates the session that commands from the one that reads back,
`attempt` is the retry loop of `device_worker.c`. `SwitchService` knows only the
job, the plug's relay and `window`, the states it had since the verification
began; a job succeeds with one of those.

**Aircon.** `apc` is the step of a job: refresh the timer, apply the command to
`next`, build the frame, keep it, publish; `Tick` is possible between any two.
Targets are kept as the ticks left. `unit` is the air conditioner, which counts
its own timer and then switches itself without telling anybody.

**AirconIr, LampFrames** compute the frames as the C code does, byte for byte,
and have the receiver read them back. AES, which signs an F008 frame, is an
operator known to both sides.

**LampSmart.** `lpc` is the HCI command of `advertise_raw` that comes next, `round`
and `place` are where the loop of `build_and_send` is, past the last round when it
sends the flags (`Ending`). Any HCI command may fail, and
then the light command ends there. `radio` is the controller, which goes on
advertising when the process dies.

## 3. Runs

| Run | Instance | States | Shows |
|---|---|---|---|
| `queue` | 3 threads, 2 items, capacity 3; any call, or the calls of one consumer and two producers | 191 k | `NoLostWakeupToConsumer`, `RefinesFifo` |
| `shim` | 3 threads on 2 event bits; 3 threads entering a critical section; the LED with 3 error bits | 36 k | `NoMissedSet`; `ExclusiveOnceCalm`, `HolderReleases`; `PatternShown`, `RequestStands` |
| `mqtt_session` | limit 3, queues of 1 | 217 k | `BitsAgree`, `RetryPolicy` |
| `controller` | queues of 1, plug limit 4, one message, which starts a timer or disables the switch | 2.1 M | `TypeOK`, `Agreement`, `NothingForgotten`, `ReportsInOrder`, `JobShrinks` |
| `controller_live` | publish queue 2, no messages | 327 k | `InitialStatePublished`, `JobTerminates` |
| `lifecycle` | setting commands, every I/O error, any number of kills, plug limit 4, a valid and an invalid plug configuration | 4.8 M | `EnabledBelowLimit`, `PersistedSettings`, `AbortExplained`, `RestartKeepsSettings` |
| `message_callback` | payload buffer 4, fragments up to 3 bytes, 1 job, 1 result, 2 self-signed messages of a session | 2.6 M | `BufferOK`, `MeansTheMessage`, `JobsUsable`, `EchoesDoNotMultiply` |
| `mqtt_transport` | 3 sockets, 3 addresses, 4 bytes each way, buffers of 1 to 3 | 12 k | `NoLeak`, `NoByteLost` |
| `mqtt_transport_connect` | the same | violated | `ReportsConnected` |
| `tuya_client` | 2 skipped frames, 2 frames in flight | 503 k | `StaysAsConfirmed`, `Authoritative`, `JobReturns`, `DriverShrinks` |
| `aircon` | 3 ticks in a minute, 2 minutes; 6 000 frames | 32 k | `TimerTracked`, `UnitFollows`, `ReportsTimer`; `Understood` |
| `lampsmart` | 4 rounds of 2 variants; 2 400 frames of either kind | 2.7 k | `OnAirIsKnown`, `NightOnce`, `SentIsSent`; `Understood`, `VariantsAgree` |

The properties, in words:

* `RefinesFifo`: every interleaving of calls is one of a bounded FIFO whose
  calls happen at an instant; a call without a deadline fails only when the queue
  is full (or empty) at that instant.
* `NoLostWakeupToConsumer`: with the mutex free, a sleeping receiver means every
  stored item has a woken receiver coming for it. It rests on the program's
  discipline (one receiver); with several, a receiver that times out can consume
  the signal meant for another. The variable `consumer` says which discipline a
  behaviour follows.
* `NoMissedSet`: a thread that sleeps on event bits and is not woken waits for
  something the bits do not hold.
* `ExclusiveOnceCalm`, `HolderReleases`: two threads whose first
  `portENTER_CRITICAL` overlap can both allocate the mutex and both be inside
  (`FreeRTOS.h:21` promises a simple mutex, and the model's `Exclusive` does not
  hold from the start). From the first moment on at which the mutex exists and
  nobody is inside, one thread at a time is inside, and the mutex a thread
  sleeps on is the one the thread inside will unlock. Before it, a third thread
  may sleep on a mutex that nobody unlocks any more.
* `PatternShown`, `RequestStands`: over the ticks it gets, each error blinks with its
  own period from the tick that finds it on, whatever flashes interrupt it; a
  notification stands until a flash has begun for it. One made during a flash is
  taken by that flash. That an error is shown in the end is not claimed: nobody calls
  the tick.
* `BitsAgree`: never both `MQTT_CONNECTED` and `MQTT_ERROR`; `MQTT_CONNECTED` only
  between subscription and tear-down.
* `RetryPolicy`: the long pause exactly when the last attempts, as many as the
  limit, all ended without a session.
* `Agreement`: what the broker has of a device, or will have once what is pending
  arrives, is the worker's state of it, unless its last publication was
  discarded. Discarding is what the code does on purpose, and it does not repair
  it before the next session. The other exception is the air conditioner's timer:
  when it has run out, the next job of any kind clears it (`device_worker.c:34-41`)
  and publishes nothing for it, so that the broker may go on being told a running
  timer, with the settings in force, until the next publication of the air
  conditioner. Nothing stronger is true.
* `InitialStatePublished`: once the initial publication is queued as a job, each
  device publishes, and that publication leaves for the broker or its session
  ends. If the device queue is full at that moment (`mqtt_task.c:185`) the job is
  not queued at all, and the code does not ask again; no property is claimed for
  that session.
* `ReportsInOrder`: `Controller` implements `StateReports`. The states the broker is
  told were the states of the devices when they were published, and it is never told
  an older one after a newer one; no publication is discarded while there is room,
  or during a session but by its failure. Where `Agreement` is about the last word,
  this is about every word before it. What a publication of the air conditioner
  tells includes whether its timer runs at that moment.
* `NothingForgotten`: a state the session has asked for and the worker has not yet
  tried to publish is still on the worker's way: the initial job is in the queue, or
  in hand with that device's turn to come, through the plug's retries, the disabling
  of the switch and its save.
* `JobTerminates`, `JobShrinks`: no job keeps the worker for ever, whatever the broker
  does; it takes nine steps at the most, for `StepsLeft` shrinks with each.
* `EnabledBelowLimit`: between jobs an enabled switch has fewer failures in a row
  than the limit, and a disabled one is reported off and not valid.
* `PersistedSettings`, `RestartKeepsSettings`: the file holds the settings in
  force, but for those an I/O error kept from it; after a kill and a start they
  come back, but for those that were being saved. The exceptions are what the
  code does: it truncates before it writes, and does not look at write errors.
* `AbortExplained`: with an invalid plug configuration, a start is refused only
  if the switch was enabled when the process died, or its setting was exposed.
* `BufferOK`, `MeansTheMessage`: the static buffer holds a piece of one message,
  with room for its zero; what becomes of a message depends on the message and
  the room in the queue alone, not on how it was cut or on what came before it.
* `JobsUsable`: the device does not refuse the value of a job, and the value
  survives each narrowing on its way there, with one exception: a light's timer of
  more than 255 minutes is whole as far as `lampsmart_sleep_timer`, which puts all of
  it into the frame F008 and the lower byte into 77F8 (`lampsmart.c:182`;
  `VariantsAgree` says what the lamps make of it).
* `EchoesDoNotMultiply`: nothing checks who has signed a message
  (`mqtt_protocol.c:21-36`), so that one signed with a topic below our own identifier
  is answered to the program itself, and that answer, which is no command, is
  answered in turn, until a publish queue that is full or the end of the session
  stops it. The property says that there are never more such answers going round
  than messages signed so in the session: each keeps one going at the most, and
  messages of anybody else none.
* `NoLeak`, `NoByteLost`: over any number of sessions every open descriptor is
  known, and there is none between sessions; as long as a session goes on, every
  byte the kernel gave or took is one wolfMQTT knows of, timeouts in the middle of
  a packet included.
* `ReportsConnected` is what the log message at `mqtt_transport.c:91` says, and is
  violated: `select` returning 0, its timeout, is not an error at line 77 and
  passes the test `connect_result >= 0` at line 88. A socket that is still
  connecting is handed to wolfMQTT and the addresses that remain are not tried.
* `Authoritative`: `TuyaClient` implements `SwitchService`. Whatever frames were
  pushed, late, lost or left over, a job that succeeds reports a state the plug
  had since the session that read it was opened.
* `StaysAsConfirmed`: a confirmed command stays in force although the commands
  of its failed attempts may still be executed (they ask for the same), unless
  the relay has other masters: the button, or a command of an earlier job that was
  still under way.
* `JobReturns`, `DriverShrinks`: the driver comes back, however many frames the plug
  pushes, and after at most four sessions of `MaxSkipped + 4` steps.
* `TimerTracked`, `UnitFollows`, `ReportsTimer`: the timer in the air conditioner
  is never early and less than a minute late, however often the remaining minutes
  were sent again; the unit is as last told but for what its timer did; a
  publication tells of its timer within a minute.
* `OnAirIsKnown`, `NightOnce`, `SentIsSent`: an advertisement that an error left on
  the air is stopped by the next command; the night light, a toggle, never goes
  on the air twice; a command reported sent was sent in full.
* `Understood` (of each module of frames) and `VariantsAgree`: the receiver reads
  back what was commanded. The two kinds of lamps are told the same, but for the
  sleep timer, of which the 77F8 frame holds the minutes modulo 256 while
  `mqtt_protocol.c` accepts up to 720. No value outgrows its byte.

`TypeOK` of the whole program is checked as one of them; the type invariants of the
other modules are parts of the invariants proved in section 4.

**Bounds.** Two or three threads and two items are enough to let two calls race
and a third observe; capacity 3 lets two items be stored before the consumer
wakes. Queues of one or two slots make "full" frequent, against 20 (jobs) and 10
(publications) in the program; nothing depends on the length but being full. The
limit of 10 plug failures is 4: it takes more than one job to reach it, and it is
even like the original, so that a job that uses up its two attempts keeps the
count even and the limit falls on a second attempt, as in the program.
`FastRetryFailures` is 3 where it is the subject. One message per behaviour in
`controller` (`MaxMessages`) meets every place the callback can run in. `failed`
saturates at the only value it is compared with. `controller` has room for one publication, so that with the one in flight two are on
their way, a third is discarded, and order can go wrong. Commands are reduced per run to
those its properties can tell apart; the MC modules name them. `MaxSkipped` is 2
against 8, so that a frame is skipped and the limit is reached; `MaxInFlight`, 2,
lets a pushed frame overtake an answer. A session of 4 bytes and buffers of up to 3
has reads and writes cut at every place; three addresses have a first, a middle
and a last. Payloads of up to the buffer's 4 bytes and one more, in fragments of
0 to 3, end before, at and past its end. Two self-signed messages of a session
(`MaxSelfSigned`) have their answers meet in the one place of the publish queue. `IntMin` is -1024: what counts is that it
is out of every range. A minute of 3 ticks has a beginning, a middle and an end;
with timers of up to 2 minutes each rounding happens. `Rounds` is the 4 of
the program. The frames are all brightnesses, timers around each byte boundary,
both sides of each counter's wrap; and every pair of names that share a byte, every
temperature, every minute of both timers. The parts of `shim`, and the clock and
the bytes in `aircon` and `lampsmart`, share no state; each is explored with the
other at rest. `SYMMETRY` is used in `queue` only, whose properties are safety
properties. The deadlock check is on in every run but `lifecycle`, where an
aborted process has stopped for good.

**Fairness.** `Controller` assumes weak fairness of the worker and of the MQTT
task's own steps: each is a thread, the scheduler runs it, and every call it
waits in (queue receive, library calls, driver timeouts, file operations) returns
after a bounded time. `TuyaClient` assumes weak fairness of the driver's steps
(`DriverStep`): its thread runs, and `SO_RCVTIMEO` ends every receive. Nothing is
assumed of messages, of the temperature timer, of the clock, of the plug or of the
network. The other runs assume none; in particular none is assumed of the LED's
tick, which nothing calls.

Each property has a mutant in `PROJECT.json`: a definition next to the original
(such as `LimitReachedLate`, `ReadReturnsTimeout`) that changes it as a
plausible mistake in that code would, under which the property fails.

## 4. Proofs

What is proved holds for every value of the constants, under the assumptions the
modules declare and TLC evaluates on every run:

* lengths, limits, buffers, rounds and ticks are numbers, and where the code could
  not run with none of them (a queue without a slot, a limit of no failures, a
  read into no buffer) not zero; a marker (`Free`, `NoItem`, `NoSocket`,
  `Absent`) is none of the values it marks;
* `CommandsAssumption`: the jobs that arrive are among those `mqtt_protocol_parse`
  makes; `FilesAssumption`: the settings file of the first start is one that this
  program wrote;
* `MessagesAssumption`: the broker delivers what the program subscribed to, topics
  below its identifier. Senders, payloads and sizes are arbitrary;
* `LampAssumption`: the frames of a round are those of one of the two values of
  `send_mode`.

The invariants below were checked with TLC on the instances of section 3 before
they were proved. In each proof there is a step for every action, under lemmas for
what many actions have in common.

**`FreertosQueueProofs`**, for any set of threads and items, any capacity and any
uses: `TypeCorrect` (`Spec => []TypeOK`) and `QueueImplementsFifo`
(`Spec => RefinesFifo`), the justification for the atomic queue operations of all
other modules. The types alone are not inductive: that `count + 1` stays within
the capacity needs that a thread at `stored` tested the room itself and that
nobody changed `count` since. So the invariant `Inv` adds what each place in a
call knows of the call (`CallInv`), that the places inside the critical section
hold the mutex and so exclude each other (`LockInv`), that only calls with a
deadline sleep (`WaitInv`), that a finished copy is still what the ring says
(`CopyInv`), and that stored slots hold items (`ItemInv`). One lemma serves all
steps that only move a thread, one the copies, one the commits. For the
refinement, `SlotsDiffer` and `SlotShift` say how positions of the ring become
slots, and each committing step maps to one step of the FIFO while all others
stutter. `ConsumerIsWoken` (`UseSpec => []NoLostWakeupToConsumer`) is about the
discipline: with one consumer, a receiver that sleeps is the consumer, there is
no other one to consume its signal, and so it sleeps on an empty queue only,
whoever holds the mutex (`AsleepOnEmpty`).

**`ShimProofs`**, for any threads and bits: `NoSetIsMissed`. The invariant is
`NoMissedSet` with the types; `SetBits` leaves no sleeper unwoken, and every
other step leaves fewer bits or fewer sleepers (`FewerBits`). `ExclusionOnceCalm`
and `NobodyIsForgotten`, for any number of threads: exclusion is not inductive.
Before the calm moment `LockedInside` says that only a thread in its section
leaves the current mutex locked, so that the last one to leave finds it free;
after it `OneMutex` says that every thread past its check holds or waits for that
mutex. `Created` and `Seen` say which mutexes exist. `PatternsTellApart` and
`RequestsStand`, of the LED: `PatternInv` says that the phase is the number of
ticks shown of the condition in force, modulo its period, and `UnseenRequested`
that no flash is going on while a notification is unseen.

**`LifecycleProofs`**, for any queue lengths, levels, failure limit and I/O errors
and any number of kills: `FailuresBelowLimit`, `SettingsPersist`,
`AbortsAreExplained` and, of the step, `RestartRestores`. That an enabled switch
is below the limit holds at every step of a job and not only between jobs
(`SwitchInOrder`), because the retry loop is the only place that counts and it is
entered with the switch enabled. `PersistedSettings` says nothing of the middle of
a job, and a job may save in the middle of its retries: `FileInv` says
for each place of the worker on which keys file and memory agree, what the buffer
of a save holds while the file is truncated, and that what is saved is the
setting in force, or about to be (`SavesTheSetting`, `JobInHand`). At the moment of
a kill this leaves exactly the exposed keys in doubt (`FileKept`). The first half
of the module is about `WorkerStep` alone and is used again by `ControllerProofs`.

**`ControllerProofs`**. `BitsAlwaysAgree` and `LongPauseAfterStreak`, of
`SessionSpec` for any limit: `BitsInv` adds where the error bit must already be
clear when the other is set; `RetryInv` that `failed` is the streak cut off at the
limit, and that an attempt that got as far as a session has reset both. `TypeCorrect` and
`BrokerAgrees`, of the whole program for any lengths of the queues, any limits,
commands and files (`ProgramInvariant`): `Agreement` excepts the worker that is about to publish a
switch it has just disabled, so the invariant needs that it does get there
(`DisablingGoesOn`), whether or not the save in between fails. `LatestIn` is the last
word about a device, in the publish queue, in flight or at the broker, without
the case distinction over the joint sequence; `AppendLatest`, `TakeLatest` and
their like say what enqueueing, taking, delivering, losing and discarding do to
it, `WorkerPublishes` that a step of the worker changes no state it does not publish
or except, and `MqttKeepsAgreement` that no step of the MQTT task changes the last
word about a device without putting the device in `lost`. For the air conditioner's
timer, `TimerOutruns` says that what the broker was told before the timer ran out is
what `Outrun` excepts after it, `AirconKept` that to clear the timer changes neither,
and `AirconPublication` that a publication ends the exception. `PendingParts` and
`LatestIsForeseen` lead back to the joint sequence of `Agreement`.

The same module proves the refinement, `ReportsImplemented`
(`Spec => ReportsInOrder`). The channel of `StateReports` is the publication in
flight and then the publish queue: `Drain` moves one to the other and stutters
(`HeadThenTail`), `Published` is `Arrive`, `PublishFailed` ends a session with the
head of the channel arrived or lost, and every publication of the worker or of the
callback is a `Send` (`EnqueueSends`). `WorkerReports` needs that a step of the worker
publishes the state the device is in after the step, and that it publishes nothing
else while a disabled switch is unpublished; `MqttReports` that there is a publication
in flight only in a session. `RequestsAreKept` (`Spec => []NothingForgotten`) needs
`SwitchStateInHand` to be inductive: the nested request for the switch's state goes
through the retry loop and two file operations, and none of these places leads back
to the queue without a publication. `JobsAreBounded` (`Spec => JobShrinks`) shows
that each step of the worker lessens `StepsLeft`, which no other task touches.
`ProgramBitsAgree`, `ProgramBelowLimit` and `ProgramPersists` say of the whole program
what was proved of its parts in surroundings of their own, so that nothing rests on
those surroundings being general enough.

**`MqttTransportProofs`**, for any descriptors, addresses, bytes and buffers:
`TypeCorrect`, `DescriptorsKept`, `BytesKept`. `NoByteLost` looks only between
calls; `Accounted` says for each call in progress that the kernel's count is ahead
of wolfMQTT's by the bytes in its buffer. `Held` says for each place which of `fd`
and `s_socket` owns the descriptor, which is why `mqtt_transport_init` may overwrite
`s_socket`, and `AddressLeft` bounds the loop.

**`MessageCallbackProofs`**, for any messages, buffer, fragments and queues:
`OneMessageAtATime`, `FragmentsDoNotMatter`, `DevicesAcceptJobs`,
`AnswersToItself`. The buffer is a function of the message and of the number of
bytes that have arrived (`Holds`): `FragmentLemma` says that any next fragment
keeps it so, the one that overflows included, and that the first one makes it so
whatever an earlier message left there. `OutcomeLemma` then gives the outcome from
`Holds` alone. `AcceptedLemma` goes through the commands, ranges and casts of
`mqtt_protocol.c` for every number. For the answers to itself the proof counts:
`ResultLemma` says that only a message signed with a topic of ours is answered to
us, `AppendOfOurs` and `TailOfOurs` how many such answers a queue holds after one
has come and gone, so that each answer is in one place at a time.

**`TuyaClientProofs`**, for any number of skipped frames and frames in flight:
`TypeCorrect`, `VerifiedStateIsAuthoritative` (`Spec => Authoritative`),
`ConfirmedStays`, `DriverStepsAreBounded`. `TypeOK` is inductive as it is stated: besides the types it says
where the driver is when it has a connection, and that the commands in a
connection are those of the job. `Fresh` adds that in the session that reads back,
a status on its way is a state in `window`, which makes the refinement's
`Succeed` possible; `Uncontested` adds that without other masters every command
still to be executed asks for what was confirmed. For the bound, `SkippedInv` says
that the frames of a session are counted from zero and below the limit, so that in
every place of a session a step is left (`StepsAreLeft`); a session gives way only to
the one that reads back or to the second attempt.

**`DeviceProofs`**. Of the air conditioner, for any length of a minute and any
longest timer: `TypeCorrect`, `TimersWithinAMinute`, `AirconFollows`,
`PublicationsTell`. The invariant adds that the two copies of the state are
consistent (`Copies`) and that the unit's timer has less than a minute left when
the worker's has run out (`Settled`). The arithmetic is in two lemmas, `DivMod` and
`Rounding`. Of the lamp, for any number of rounds and either send mode:
`LampTypeCorrect`, `NothingUnknownOnAir`, `NightToggledOnce`, `SuccessIsSent`. How
often a frame has begun a burst depends on whether a burst was already going on
when it was put on the air: `CountInv` counts each frame by the place of the loop
and by whether the current one has begun, `RadioInv` says what the radio is doing
at each HCI command, and `BoundInv` keeps the bound when a command has failed and
the count means nothing any more.

**Only model-checked.** Liveness (`InitialStatePublished`, `JobTerminates`,
`JobReturns`), which is out of the prover's reach, as is `ENABLED`; of
all three the safety halves are proved (`RequestsAreKept`, `JobsAreBounded`,
`DriverStepsAreBounded`), and what remains is that a step is possible and, by
fairness, taken. `Understood` and `VariantsAgree` of `LampFrames` and `AirconIr`,
because these modules use bitwise operators. `ReportsConnected` is false.

## 5. Not modelled, and the plan

Not modelled: wolfMQTT, wolfSSL, the broker, BlueZ, the lamps, the air conditioner
and the plug but for what the program can see of them; the bytes of a Tuya frame
(AES, HMAC, padding: a frame is intact or garbled) and the set-up of TLS, which
are calls into libraries; the semaphore (unused) and the creation of tasks; packet
identifiers (`mqtt_task.c:30`), whose reuse only wolfMQTT and the broker would
see; the parsing of the lamp's UUID, done once with a constant; suspending and
resuming the lamp, and stopping the Wi-Fi, which nothing calls; the hysteresis of
the temperature alert and the recovery of the sensor, which cannot run here
because the sensor is always missing; failed allocations; failures of the start
before any task runs, other than the abort above; a line of the settings file
cut inside its number; log output.

What could come next: kills and starts of the whole program rather than of the worker
alone, so that the broker's knowledge of an earlier process is part of the question;
the alert hysteresis, once there is a sensor; the deadlines of wolfMQTT's calls, which
are now one nondeterministic failure; and a frame of the plug down to its fields.
