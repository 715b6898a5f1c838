---------------------------- MODULE DeviceWorker ----------------------------
(***************************************************************************)
(* main/device_worker.c with main/settings_store.c: the one task that owns *)
(* the state of the air conditioner, the light and the Tuya switch.  It    *)
(* takes a job at a time, drives the device, and publishes the state that  *)
(* changed.  An action is the code between two points where another task   *)
(* can see or change something: the queues and the settings file.          *)
(*                                                                         *)
(* Abstracted data: the settings of the air conditioner, the kind of its   *)
(* timer among them, are one value of Levels (every IR command replaces    *)
(* one field and sends the lot).  Of the timer it counts whether it runs,  *)
(* has run out, or has been cleared for it; the minutes are in Aircon.     *)
(* The temperature sensor is left out: room_temperature.c always reports   *)
(* it missing, so that a temperature job does nothing and alert_status     *)
(* stays 0.                                                                *)
(***************************************************************************)
EXTENDS AppResources

CONSTANTS Initial,             \* the first value of settings and thresholds
          PlugStates,          \* what the plug may be found to be, on or off
          Configurations,      \* what configValid may be in this build
          SwitchFailureLimit,  \* 10 in record_switch_failure
          IoErrors             \* the file operations that may fail

\* A key that is not in the settings file.
Absent == "absent"

ASSUME WorkerAssumption == /\ Initial \in Levels
                           /\ Absent \notin Levels
                           /\ PlugStates \subseteq BOOLEAN
                           /\ Configurations \subseteq BOOLEAN
                           /\ SwitchFailureLimit \in Nat \ {0}
                           /\ IoErrors \subseteq {"read", "open", "write"}

VARIABLES wpc,       \* where device_worker_main is
          job,       \* the job being processed
          attempt,   \* the attempt of the *_with_retry loops
          aircon,    \* s_aircon: its settings as one value, and its timer
          light,     \* s_light.brightness
          alert,     \* s_aircon.alert_high_temperature, alert_low_temperature
          switch,    \* s_switch
          failures,  \* s_switch_failures
          file,      \* the settings file, key by key
          save,      \* the settings_store_save_* call in progress
          configValid,  \* tuya_switch_validate_config(&s_tuya_config)
          unsaved    \* history: keys an I/O error kept from the file, or unread

worker == <<wpc, job, attempt, aircon, light, alert, switch, failures, file,
            save, unsaved, configValid>>

-----------------------------------------------------------------------------
(* The settings file *)

Keys == {"alert_hi", "alert_lo", "switch_en"}
EmptyFile == [k \in Keys |-> Absent]

\* What a file holds that this program wrote: levels, and the switch's setting.
Settings(key) == IF key = "switch_en" THEN {"on", "off"} ELSE Levels
SettingsFiles == {f \in [Keys -> Levels \cup {"on", "off", Absent}] :
                    \A k \in Keys : f[k] \in Settings(k) \cup {Absent}}

\* find_value, or the default of the loader.
Loaded(contents, key) ==
    IF contents[key] # Absent THEN contents[key]
    ELSE IF key = "switch_en" THEN "off" ELSE Initial

\* save is the call in progress; done and failed are where its caller goes on.
Saves == {s \in [key : Keys, value : Levels \cup {"on", "off"}, entries : SettingsFiles,
                 done : {"finish", "enable", "disabled"}, failed : {"finish", "disabled"}] :
            s.value \in Settings(s.key)}
NoSave == [key |-> None, value |-> None, entries |-> EmptyFile,
           done |-> None, failed |-> None]

\* Call settings_store_save_*: go on at done if it returns ESP_OK, at failed
\* otherwise.
StartSave(key, value, done, failed) ==
    /\ save' = [key |-> key, value |-> value, entries |-> EmptyFile,
                done |-> done, failed |-> failed]
    /\ wpc' = "save"

-----------------------------------------------------------------------------
(* State, publications *)

SwitchOff == [power |-> FALSE, enable |-> FALSE, valid |-> FALSE]

\* The timer of s_aircon: "running"; "due", when its target has passed and
\* timer_enabled is still set; "cleared", when refresh_timer has found that and
\* nothing was published since (a history: to the code it is "none").
Timers == {"none", "running", "due", "cleared"}
AirconDefault == [settings |-> Initial, timer |-> "none"]

LoadedAlert(contents) == [k \in Keys \ {"switch_en"} |-> Loaded(contents, k)]
LoadedSwitch(contents) ==
    [SwitchOff EXCEPT !.enable = Loaded(contents, "switch_en") = "on"]

\* device_worker_initialize, given the settings file.
InitWorker(contents) ==
    /\ wpc = "idle" /\ job = NoJob /\ attempt = 1
    /\ aircon = AirconDefault /\ light = Initial
    /\ alert = LoadedAlert(contents) /\ switch = LoadedSwitch(contents)
    /\ failures = 0
    /\ file = contents /\ save = NoSave /\ unsaved = {}
    /\ configValid \in Configurations

OnOff(b) == IF b THEN "on" ELSE "off"
SwitchState(s) == <<OnOff(s.power), OnOff(s.enable)>>

\* The clock reaches timer_target_us.
Lapsed(a) == IF a.timer = "running" THEN [a EXCEPT !.timer = "due"] ELSE a

\* refresh_timer
Refreshed(a) == IF a.timer = "due" THEN [a EXCEPT !.timer = "cleared"] ELSE a

\* mqtt_protocol_make_aircon_state clears a timer that is due, too, and its payload
\* tells of one that runs only.
Told(a) == IF a.timer = "running" THEN a ELSE [a EXCEPT !.timer = "none"]
AirconState(a) == <<a.settings, OnOff(a.timer = "running")>>

\* The payload of mqtt_protocol_make_*_state, now.
StateOf(d) == CASE d = "aircon" -> AirconState(aircon)
                [] d = "light" -> <<light>>
                [] d = "switch" -> SwitchState(switch)

Publication(device, state) == [device |-> device, state |-> state]
\* The clock is read again for the payload.
PublishAircon(a) == \E now \in {a, Lapsed(a)} :
                      /\ aircon' = Told(now)
                      /\ EnqueuePublish(Publication("aircon", AirconState(now)))
PublishLight(value) == EnqueuePublish(Publication("light", <<value>>))
PublishSwitch(s) == EnqueuePublish(Publication("switch", SwitchState(s)))

Goto(label) == wpc' = label
Finish == Goto("idle") /\ job' = NoJob /\ attempt' = 1
Quiet == UNCHANGED publishing

-----------------------------------------------------------------------------
(* Jobs other than those of the switch *)

\* xQueueReceive in device_worker_main; process_job begins with refresh_timer.
TakeJob == /\ wpc = "idle" /\ devq # << >>
           /\ job' = Head(devq)
           /\ devq' = Tail(devq)
           /\ aircon' = Refreshed(aircon)
           /\ Goto("run")
           /\ UNCHANGED <<attempt, light, alert, switch, failures, file,
                          save, unsaved, publishing>>

Running(commands) == wpc = "run" /\ job.command \in commands

\* process_temperature returns at once, and so do the light commands once the
\* advertisement is sent (or has failed): nothing of theirs is kept.
SilentJob == /\ Running({"read_temperature", "light_other"})
             /\ Finish /\ Quiet
             /\ UNCHANGED <<devq, aircon, light, alert, switch, failures, file,
                            save, unsaved>>

AirconStateJob == /\ Running({"aircon_state"})
                  /\ PublishAircon(aircon)
                  /\ Finish
                  /\ UNCHANGED <<devq, light, alert, switch, failures,
                                 file, save, unsaved>>

\* The copy that process_aircon makes and changes.
Commanded(a) == [settings |-> job.value,
                 timer |-> CASE job.command = "timer_start" -> "running"
                             [] job.command = "timer_cancel" -> "none"
                             [] OTHER -> a.timer]

\* aircon_ir_send_state may fail; the new state is kept only if it was sent.
AirconSetJob == /\ Running(AirconCommands)
                /\ \/ PublishAircon(Commanded(Refreshed(aircon)))
                   \/ aircon' = Refreshed(aircon) /\ Quiet
                /\ Finish
                /\ UNCHANGED <<devq, light, alert, switch, failures, file, save,
                               unsaved>>

\* A mutant of AlertJob: each threshold is saved under the other's key.
AlertJobCrossed ==
    /\ Running({"alert_hi", "alert_lo"})
    /\ alert' = [alert EXCEPT ![job.command] = job.value]
    /\ \E key \in {"alert_hi", "alert_lo"} \ {job.command} :
         StartSave(key, job.value, "finish", "finish")
    /\ aircon' = Refreshed(aircon)
    /\ Quiet
    /\ UNCHANGED <<devq, job, attempt, light, switch, failures, file, unsaved>>

\* The threshold is changed in memory first, whatever becomes of the file.
AlertJob == /\ Running({"alert_hi", "alert_lo"})
            /\ alert' = [alert EXCEPT ![job.command] = job.value]
            /\ StartSave(job.command, job.value, "finish", "finish")
            /\ aircon' = Refreshed(aircon)
            /\ Quiet
            /\ UNCHANGED <<devq, job, attempt, light, switch, failures, file,
                           unsaved>>

BrightnessJob == /\ Running({"brightness"})
                 /\ \/ light' = job.value /\ PublishLight(job.value)
                    \/ UNCHANGED light /\ Quiet
                 /\ Finish
                 /\ UNCHANGED <<devq, aircon, alert, switch, failures, file,
                                save, unsaved>>

\* JOB_CMD_PUBLISH_INITIAL_STATE: the air conditioner, then the light, then a
\* nested switch job.
InitialAircon == /\ Running({"publish_initial"})
                 /\ PublishAircon(aircon)
                 /\ Goto("initial_light")
                 /\ UNCHANGED <<devq, job, attempt, light, alert, switch,
                                failures, file, save, unsaved>>

InitialLight == /\ wpc = "initial_light"
                /\ PublishLight(light)
                /\ job' = SwitchStateJob
                /\ Goto("run")
                /\ UNCHANGED <<devq, attempt, aircon, light, alert, switch,
                               failures, file, save, unsaved>>

-----------------------------------------------------------------------------
(* The switch *)

\* process_switch while the switch is disabled
DisabledSwitchJob ==
    /\ Running({"switch_state", "switch_power"}) /\ ~switch.enable
    /\ switch' = IF job.command = "switch_state" THEN switch
                 ELSE [switch EXCEPT !.power = FALSE, !.valid = FALSE]
    /\ PublishSwitch(switch')
    /\ Finish
    /\ UNCHANGED <<devq, aircon, light, alert, failures, file, save, unsaved>>

\* process_switch enters read_switch_with_retry or set_switch_with_retry.
EnabledSwitchJob ==
    /\ Running({"switch_state", "switch_power"}) /\ switch.enable
    /\ Goto("tuya")
    /\ Quiet
    /\ UNCHANGED <<devq, job, attempt, aircon, light, alert, switch, failures,
                   file, save, unsaved>>

Enabling == job.value = "on"

\* set_switch_enabled: a change is saved before it is made.
EnableJob ==
    /\ Running({"switch_enable"})
    /\ \/ switch.enable = Enabling /\ Goto("enable") /\ UNCHANGED save
       \/ /\ switch.enable # Enabling
          /\ StartSave("switch_en", job.value, "enable", "finish")
    /\ Quiet
    /\ UNCHANGED <<devq, job, attempt, aircon, light, alert, switch, failures,
                   file, unsaved>>

ChangeEnable ==
    /\ wpc = "enable"
    /\ switch' = IF Enabling THEN [switch EXCEPT !.enable = TRUE] ELSE SwitchOff
    /\ failures' = 0
    /\ PublishSwitch(switch')
    /\ IF Enabling THEN Goto("tuya") /\ UNCHANGED <<job, attempt>> ELSE Finish
    /\ UNCHANGED <<devq, aircon, light, alert, file, save, unsaved>>

\* What the switch may answer: a verified power command reports success only
\* when the plug is read back in the state that was asked for.
Answers == IF job.command = "switch_power" THEN {job.value = "on"} ELSE PlugStates

\* The driver refuses every request if its configuration is invalid.
TuyaSuccess ==
    /\ wpc = "tuya" /\ configValid
    /\ failures' = 0
    /\ \E actual \in Answers :
         switch' = [switch EXCEPT !.power = actual, !.valid = TRUE]
    /\ PublishSwitch(switch')
    /\ Finish
    /\ UNCHANGED <<devq, aircon, light, alert, file, save, unsaved>>

FailuresAfter == IF failures < SwitchFailureLimit THEN failures + 1 ELSE failures

\* A mutant of LimitReached: the failure at hand is not counted.
LimitReachedLate == failures >= SwitchFailureLimit

LimitReached == FailuresAfter >= SwitchFailureLimit

\* Mutants of TuyaFailure: attempts that are not counted; one attempt too many; a
\* request for the state that fails publishes nothing.
TuyaFailureUncounted ==
    /\ wpc = "tuya" /\ ~LimitReached
    /\ failures' = FailuresAfter
    /\ Quiet
    /\ UNCHANGED <<wpc, devq, job, attempt, aircon, light, alert, switch, file, save,
                   unsaved>>

TuyaFailureThrice ==
    /\ wpc = "tuya" /\ ~LimitReached
    /\ failures' = FailuresAfter
    /\ \/ /\ attempt <= 2
          /\ attempt' = attempt + 1
          /\ Quiet
          /\ UNCHANGED <<wpc, job>>
       \/ /\ attempt = 3
          /\ IF job.command = "switch_state" THEN PublishSwitch(switch) ELSE Quiet
          /\ Finish
    /\ UNCHANGED <<devq, aircon, light, alert, switch, file, save, unsaved>>

TuyaFailureSilent ==
    /\ wpc = "tuya" /\ ~LimitReached
    /\ failures' = FailuresAfter
    /\ \/ attempt = 1 /\ attempt' = 2 /\ UNCHANGED <<wpc, job>>
       \/ attempt = 2 /\ Finish
    /\ Quiet
    /\ UNCHANGED <<devq, aircon, light, alert, switch, file, save, unsaved>>

\* An attempt failed and the switch is still enabled: retry once, then give up;
\* only a request for the state publishes what is known.
TuyaFailure ==
    /\ wpc = "tuya" /\ ~LimitReached
    /\ failures' = FailuresAfter
    /\ \/ /\ attempt = 1
          /\ attempt' = 2
          /\ Quiet
          /\ UNCHANGED <<wpc, job>>
       \/ /\ attempt = 2
          /\ IF job.command = "switch_state" THEN PublishSwitch(switch) ELSE Quiet
          /\ Finish
    /\ UNCHANGED <<devq, aircon, light, alert, switch, file, save, unsaved>>

\* A mutant of TuyaGiveUp: the disabled switch is not saved.
TuyaGiveUpInMemory ==
    /\ wpc = "tuya" /\ LimitReached
    /\ failures' = FailuresAfter
    /\ switch' = SwitchOff
    /\ Goto("disabled")
    /\ Quiet
    /\ UNCHANGED <<devq, job, attempt, aircon, light, alert, file, save, unsaved>>

\* disable_switch_after_failures
TuyaGiveUp ==
    /\ wpc = "tuya" /\ LimitReached
    /\ failures' = FailuresAfter
    /\ switch' = SwitchOff
    /\ StartSave("switch_en", "off", "disabled", "disabled")
    /\ Quiet
    /\ UNCHANGED <<devq, job, attempt, aircon, light, alert, file, unsaved>>

\* A mutant of PublishDisabled: the switch is disabled without a word.
PublishDisabledSilent ==
    /\ wpc = "disabled"
    /\ Finish /\ Quiet
    /\ UNCHANGED <<devq, aircon, light, alert, switch, failures, file, save,
                   unsaved>>

PublishDisabled ==
    /\ wpc = "disabled"
    /\ PublishSwitch(switch)
    /\ Finish
    /\ UNCHANGED <<devq, aircon, light, alert, switch, failures, file, save,
                   unsaved>>

-----------------------------------------------------------------------------
(* upsert_value *)

\* A mutant of TruncateFile: the entries already in the file are not loaded.
TruncateFileForgetting ==
    /\ wpc = "save"
    /\ save' = [save EXCEPT !.entries = [EmptyFile EXCEPT ![save.key] = save.value]]
    /\ file' = EmptyFile
    /\ Goto("write")
    /\ Quiet
    /\ UNCHANGED <<devq, job, attempt, aircon, light, alert, switch, failures,
                   unsaved>>

\* load_all, then fopen(..., "w"), which truncates the file.
TruncateFile ==
    /\ wpc = "save"
    /\ save' = [save EXCEPT !.entries = [file EXCEPT ![save.key] = save.value]]
    /\ file' = EmptyFile
    /\ Goto("write")
    /\ Quiet
    /\ UNCHANGED <<devq, job, attempt, aircon, light, alert, switch, failures,
                   unsaved>>

\* load_all takes a file it cannot open for one that does not exist: ESP_OK, and
\* the entries of the other keys are not written back.
ReadError ==
    /\ wpc = "save" /\ "read" \in IoErrors
    /\ save' = [save EXCEPT !.entries = [EmptyFile EXCEPT ![save.key] = save.value]]
    /\ file' = EmptyFile
    /\ unsaved' = unsaved \cup (Keys \ {save.key})
    /\ Goto("write")
    /\ Quiet
    /\ UNCHANGED <<devq, job, attempt, aircon, light, alert, switch, failures>>

\* fopen fails.  set_switch_enabled then leaves memory as it was; every other
\* caller has already changed it.
OpenError ==
    /\ wpc = "save" /\ "open" \in IoErrors
    /\ unsaved' = IF save.done = "enable" THEN unsaved ELSE unsaved \cup {save.key}
    /\ Goto(save.failed)
    /\ save' = NoSave
    /\ Quiet
    /\ UNCHANGED <<devq, job, attempt, aircon, light, alert, switch, failures, file>>

WriteFile ==
    /\ wpc = "write"
    /\ file' = save.entries
    /\ unsaved' = unsaved \ {save.key}
    /\ Goto(save.done)
    /\ save' = NoSave
    /\ Quiet
    /\ UNCHANGED <<devq, job, attempt, aircon, light, alert, switch, failures>>

\* save_all looks at neither fprintf nor fclose: some of the entries are not
\* in the file, and the caller is told ESP_OK.  (A line cut inside its number,
\* which would be read as another number, is taken for a missing one.)
WriteError ==
    /\ wpc = "write" /\ "write" \in IoErrors
    /\ \E kept \in (SUBSET Keys) \ {Keys} :
         /\ file' = [k \in Keys |-> IF k \in kept THEN save.entries[k] ELSE Absent]
         /\ unsaved' = (unsaved \ ({save.key} \cap kept)) \cup (Keys \ kept)
    /\ Goto(save.done)
    /\ save' = NoSave
    /\ Quiet
    /\ UNCHANGED <<devq, job, attempt, aircon, light, alert, switch, failures>>

\* Back in process_aircon or set_switch_enabled with nothing left to do.
FinishJob == /\ wpc = "finish"
             /\ Finish /\ Quiet
             /\ UNCHANGED <<devq, aircon, light, alert, switch, failures, file,
                            save, unsaved>>

-----------------------------------------------------------------------------
\* Time passes, whatever the worker is doing.
TimerLapses == /\ aircon.timer = "running"
               /\ aircon' = Lapsed(aircon)
               /\ UNCHANGED <<wpc, devq, job, attempt, light, alert, switch,
                              failures, file, save, unsaved, configValid,
                              publishing>>

WorkerStep ==
    /\ \/ TakeJob \/ SilentJob \/ AirconStateJob \/ AirconSetJob \/ AlertJob
       \/ BrightnessJob \/ InitialAircon \/ InitialLight \/ DisabledSwitchJob
       \/ EnabledSwitchJob \/ EnableJob \/ ChangeEnable \/ TuyaSuccess
       \/ TuyaFailure \/ TuyaGiveUp \/ PublishDisabled \/ TruncateFile \/ ReadError \/ OpenError
       \/ WriteFile \/ WriteError \/ FinishJob
    /\ UNCHANGED configValid

-----------------------------------------------------------------------------
(* Properties *)

WorkerLabels == {"idle", "run", "initial_light", "enable", "tuya", "disabled",
                 "save", "write", "finish",
                 "off", "aborted"}  \* no process, see Lifecycle

\* The types of the worker's variables; the failure counter saturates.
WorkerTypeOK ==
    /\ wpc \in WorkerLabels
    /\ job \in Jobs \cup {NoJob, SwitchStateJob}
    /\ attempt \in {1, 2}
    /\ aircon \in [settings : Levels, timer : Timers] /\ light \in Levels
    /\ alert \in [Keys \ {"switch_en"} -> Levels]
    /\ switch \in [power : BOOLEAN, enable : BOOLEAN, valid : BOOLEAN]
    /\ failures \in 0 .. SwitchFailureLimit
    /\ file \in SettingsFiles
    /\ save = NoSave \/ save \in Saves
    /\ unsaved \subseteq Keys /\ configValid \in BOOLEAN

\* Every failure of the Tuya driver counts, over all jobs and attempts, until a
\* success or an enable command: between jobs, a switch that is still enabled
\* has failed fewer times in a row than the limit, and one that is disabled is
\* reported off.
EnabledBelowLimit ==
    /\ wpc = "idle" /\ switch.enable => failures < SwitchFailureLimit
    /\ ~switch.enable => ~switch.power /\ ~switch.valid

\* What settings the next start would find, against those in force.
InForce(key) == IF key = "switch_en" THEN OnOff(switch.enable) ELSE alert[key]

\* Between jobs, a restart would restore every setting that is in force, save
\* those an I/O error kept out of the file or from being read: an auto-disabled switch does not
\* come back enabled, and saving one setting does not lose the others.
PersistedSettings ==
    wpc = "idle" => \A key \in Keys \ unsaved : Loaded(file, key) = InForce(key)

\* How many more steps the job in hand may take.
StepsLeft == CASE wpc = "run" -> IF job = SwitchStateJob THEN 6 ELSE 9
               [] wpc = "initial_light" -> 7
               [] wpc = "enable" -> 6
               [] wpc = "tuya" -> 6 - attempt
               [] wpc = "save" -> IF save.done = "enable" THEN 8 ELSE 3
               [] wpc = "write" -> IF save.done = "enable" THEN 7 ELSE 2
               [] wpc \in {"finish", "disabled"} -> 1
               [] OTHER -> 0

\* A job takes nine steps at the most, two attempts and two saves included: none of
\* them leads back, whatever the other tasks, the drivers and the clock do meanwhile.
JobShrinks == [][\/ TimerLapses
                 \/ IF wpc = "idle" THEN StepsLeft' <= 9 ELSE StepsLeft' < StepsLeft]_worker

\* Every job comes to an end, the retries included.
JobTerminates == wpc # "idle" ~> wpc = "idle"
=============================================================================
