----------------------------- MODULE Lifecycle -----------------------------
(***************************************************************************)
(* The device worker across restarts: main/app_main.c starts it from the   *)
(* settings file, any job may come, the process may be killed between any  *)
(* two steps (in the middle of a save too) and started again.  Memory is   *)
(* lost, the file stays.  The publications are left where they are:        *)
(* nothing the worker does depends on them.                                *)
(*                                                                         *)
(* It may be killed any number of times.  Two history variables: before,   *)
(* the settings in force when the process was killed, and atRisk, those    *)
(* whose value in the file was being changed or had been spoilt by an I/O  *)
(* error.                                                                  *)
(***************************************************************************)
EXTENDS DeviceWorker

VARIABLES before, atRisk

history == <<before, atRisk>>
lifeVars == <<resources, worker, history>>

\* Beside the places of the worker, wpc says that there is no process: "off", or
\* "aborted" by ESP_ERROR_CHECK in app_main.
RunningProcess == wpc \notin {"off", "aborted"}

NothingBefore == [k \in Keys |-> None]

LifeInit == /\ InitResources /\ InitWorker(EmptyFile)
            /\ before = NothingBefore /\ atRisk = {}

LifeWorker == (WorkerStep \/ TimerLapses) /\ UNCHANGED <<events, history>>

\* The other tasks bring jobs.
JobArrives == /\ RunningProcess
              /\ \E j \in Commands \cup {InitialJob} : EnqueueDeviceJob(j)
              /\ UNCHANGED <<publishing, events, worker, history>>

\* The settings a kill at this point may change: those an I/O error spoilt, the
\* one being saved, and all of them while the file is truncated.
Exposed == unsaved \cup (CASE wpc = "save" -> {save.key}
                           [] wpc = "write" -> Keys
                           [] wpc = "enable" -> {"switch_en"}
                           [] OTHER -> {})

\* The process is killed: what it had in memory is gone.
Crash == /\ RunningProcess
         /\ wpc' = "off"
         /\ before' = [k \in Keys |-> InForce(k)]
         /\ atRisk' = Exposed
         /\ devq' = << >> /\ pubq' = << >> /\ events' = InitEvents
         /\ lost' = {} /\ owed' = {}
         /\ job' = NoJob /\ attempt' = 1
         /\ aircon' = AirconDefault /\ light' = Initial
         /\ alert' = LoadedAlert(EmptyFile) /\ switch' = SwitchOff
         /\ failures' = 0
         /\ save' = NoSave /\ unsaved' = {}
         /\ UNCHANGED <<file, configValid>>

\* device_worker_initialize checks the configuration if the switch is enabled.
BootAborts == /\ wpc = "off"
              /\ Loaded(file, "switch_en") = "on" /\ ~configValid
              /\ wpc' = "aborted"
              /\ UNCHANGED <<resources, job, attempt, aircon, light, alert,
                             switch, failures, file, save, unsaved, configValid,
                             history>>

\* device_worker_initialize; the rest of the memory is already as it leaves it.
Boot == /\ wpc = "off"
        /\ Loaded(file, "switch_en") = "on" => configValid
        /\ wpc' = "idle"
        /\ alert' = LoadedAlert(file) /\ switch' = LoadedSwitch(file)
        /\ before' = NothingBefore /\ atRisk' = {}
        /\ UNCHANGED <<resources, job, attempt, aircon, light, failures, file,
                       save, unsaved, configValid>>

\* The settings file is there but cannot be opened: the defaults are in force.
BootUnread == /\ wpc = "off" /\ "read" \in IoErrors
              /\ wpc' = "idle"
              /\ alert' = LoadedAlert(EmptyFile) /\ switch' = LoadedSwitch(EmptyFile)
              /\ unsaved' = Keys
              /\ before' = NothingBefore /\ atRisk' = {}
              /\ UNCHANGED <<resources, job, attempt, aircon, light, failures,
                             file, save, configValid>>

LifeNext == LifeWorker \/ JobArrives \/ Crash \/ BootAborts \/ Boot \/ BootUnread

LifeSpec == LifeInit /\ [][LifeNext]_lifeVars

-----------------------------------------------------------------------------
(* Properties *)

\* A restart that can read the file changes no setting but those exposed at the moment of the kill:
\* the thresholds and the enabled switch come back as they were.
RestartKeepsSettings ==
    [][Boot => \A k \in Keys \ atRisk : InForce(k)' = before[k]]_lifeVars

\* A start is refused only because the switch was enabled, or its disabling was
\* being saved or could not be, when the process was killed: once the failures
\* of an invalid configuration have disabled the switch, the program starts.
AbortExplained ==
    wpc = "aborted" => before["switch_en"] = "on" \/ "switch_en" \in atRisk
=============================================================================
