-------------------------- MODULE LifecycleProofs --------------------------
(***************************************************************************)
(* What the device worker preserves, step by step, for any queue lengths,  *)
(* failure limit and I/O errors; and from it, of Lifecycle: the settings   *)
(* survive a restart.  The first part is about WorkerStep alone, so that   *)
(* ControllerProofs can use it too.                                        *)
(***************************************************************************)
EXTENDS Lifecycle, TLAPS

-----------------------------------------------------------------------------
(* Jobs, settings files and saves *)

WorkerJobs == Jobs \cup {NoJob, SwitchStateJob}

\* The value a job carries has the type its command calls for.
LEMMA JobValues ==
    ASSUME NEW j \in WorkerJobs
    PROVE  /\ j.command \in LevelCommands => j.value \in Levels
           /\ j.command \in SwitchCommands => j.value \in {"on", "off"}
BY DEF WorkerJobs, Jobs, MqttJobs, NoJob, SwitchStateJob, InitialJob,
       TemperatureJob, Job, None, LevelCommands, AirconCommands, SwitchCommands,
       PlainCommands

LEMMA QueuedJobsAreJobs ==
    ASSUME devq \in Seq(Jobs), devq # << >>
    PROVE  Head(devq) \in WorkerJobs /\ Tail(devq) \in Seq(Jobs)
BY DEF WorkerJobs

LEMMA EmptyFileTyped == EmptyFile \in SettingsFiles
BY DEF EmptyFile, SettingsFiles, Settings

\* A setting written into a file leaves it a settings file.
LEMMA FileUpdated ==
    ASSUME NEW f \in SettingsFiles, NEW k \in Keys, NEW v \in Settings(k)
    PROVE  [f EXCEPT ![k] = v] \in SettingsFiles
BY DEF SettingsFiles, Settings

\* So does losing some of its entries.
LEMMA FileCut ==
    ASSUME NEW f \in SettingsFiles, NEW kept \in SUBSET Keys
    PROVE  [k \in Keys |-> IF k \in kept THEN f[k] ELSE Absent] \in SettingsFiles
BY DEF SettingsFiles

\* What a loader returns is a setting.
LEMMA LoadedTyped ==
    ASSUME NEW f \in SettingsFiles, NEW k \in Keys
    PROVE  Loaded(f, k) \in Settings(k)
BY WorkerAssumption DEF SettingsFiles, Loaded, Settings

\* What was written is what is loaded.
LEMMA LoadedWritten ==
    ASSUME NEW f \in SettingsFiles, NEW k \in Keys, f[k] \in Settings(k)
    PROVE  Loaded(f, k) = f[k]
BY WorkerAssumption DEF Loaded, Settings, Absent

\* Absent keys and defaults apart, an entry decides what is loaded of its key.
LEMMA LoadedSame ==
    ASSUME NEW f, NEW g, NEW k, f[k] = g[k]
    PROVE  Loaded(f, k) = Loaded(g, k)
BY DEF Loaded

SaveCall(key, value, done, failure) ==
    [key |-> key, value |-> value, entries |-> EmptyFile, done |-> done,
     failed |-> failure]

LEMMA SaveCallTyped ==
    ASSUME NEW key \in Keys, NEW value \in Settings(key),
           NEW done \in {"finish", "enable", "disabled"},
           NEW failure \in {"finish", "disabled"}
    PROVE  SaveCall(key, value, done, failure) \in Saves
<1>1. value \in Levels \cup {"on", "off"}
  BY DEF Settings
<1>2. QED
  BY <1>1, EmptyFileTyped DEF SaveCall, Saves

LEMMA SaveFields ==
    ASSUME NEW s \in Saves
    PROVE  /\ s.key \in Keys /\ s.value \in Settings(s.key)
           /\ s.entries \in SettingsFiles
           /\ s.done \in {"finish", "enable", "disabled"}
           /\ s.failed \in {"finish", "disabled"}
BY DEF Saves

LEMMA SaveLoaded ==
    ASSUME NEW s \in Saves, NEW f \in SettingsFiles
    PROVE  LET t == [s EXCEPT !.entries = [f EXCEPT ![s.key] = s.value]]
           IN  /\ t \in Saves
               /\ t.key = s.key /\ t.value = s.value /\ t.done = s.done
               /\ t.failed = s.failed
               /\ t.entries[s.key] = s.value
               /\ \A k \in Keys \ {s.key} : t.entries[k] = f[k]
<1>1. [f EXCEPT ![s.key] = s.value] \in SettingsFiles
  BY FileUpdated, SaveFields
<1>2. f \in [Keys -> Levels \cup {"on", "off", Absent}]
  BY DEF SettingsFiles
<1>3. QED
  BY <1>1, <1>2, SaveFields DEF Saves

-----------------------------------------------------------------------------
(* Types, the save in progress, and the switch *)

\* A save is in progress in its two places and nowhere else.
SaveInProgress == IF wpc \in {"save", "write"} THEN save \in Saves ELSE save = NoSave

\* The places in which the switch is known to be enabled, or has just been found
\* in the file; a switch that is enabled is below the limit wherever the worker is.
SwitchInOrder == /\ switch.enable => failures < SwitchFailureLimit
                 /\ ~switch.enable => ~switch.power /\ ~switch.valid
                 /\ wpc = "tuya" => switch.enable
                 /\ wpc = "off" => failures = 0

\* The jobs that the places in the middle of one are about.
JobInHand == /\ wpc = "enable" => job.command = "switch_enable"
             /\ wpc \in {"save", "write"} /\ save.done = "enable"
                  => job.command = "switch_enable"

WorkerInv == /\ WorkerTypeOK /\ devq \in Seq(Jobs)
             /\ SaveInProgress /\ SwitchInOrder /\ JobInHand

SwitchStates == [power : BOOLEAN, enable : BOOLEAN, valid : BOOLEAN]

LEMMA SwitchUpdated ==
    ASSUME NEW s \in SwitchStates, NEW b \in BOOLEAN
    PROVE  /\ [s EXCEPT !.enable = TRUE] \in SwitchStates
           /\ [s EXCEPT !.enable = TRUE].enable = TRUE
           /\ [s EXCEPT !.power = b, !.valid = TRUE] \in SwitchStates
           /\ [s EXCEPT !.power = b, !.valid = TRUE].enable = s.enable
BY DEF SwitchStates

AirconStates == [settings : Levels, timer : Timers]

\* The air conditioner stays of its type, whatever the clock does.
LEMMA AirconUpdated ==
    ASSUME NEW a \in AirconStates
    PROVE  /\ Lapsed(a) \in AirconStates /\ Refreshed(a) \in AirconStates
           /\ Told(a) \in AirconStates
BY DEF AirconStates, Timers, Lapsed, Refreshed, Told

LEMMA AirconPublished ==
    ASSUME NEW a \in AirconStates, PublishAircon(a)
    PROVE  aircon' \in AirconStates
BY AirconUpdated DEF PublishAircon

LEMMA AirconCommanded ==
    ASSUME NEW a \in AirconStates, job.value \in Levels
    PROVE  Commanded(a) \in AirconStates
BY DEF AirconStates, Timers, Commanded

LEMMA AirconStarts == AirconDefault \in AirconStates
BY WorkerAssumption DEF AirconStates, Timers, AirconDefault

\* Every step of the worker keeps the types and the order of the switch.
LEMMA WorkerStepInv ==
    ASSUME WorkerInv, WorkerStep
    PROVE  WorkerInv'
<1> USE WorkerAssumption DEF WorkerInv, SaveInProgress, SwitchInOrder, JobInHand,
        WorkerTypeOK, WorkerLabels, WorkerJobs, Goto, Finish, Running, AirconStates
<1>0. UNCHANGED configValid
  BY DEF WorkerStep
<1>a. aircon \in AirconStates /\ Refreshed(aircon) \in AirconStates
  BY AirconUpdated
<1>1. CASE TakeJob
  BY <1>0, <1>1, <1>a, QueuedJobsAreJobs DEF TakeJob
<1>2. CASE SilentJob
  BY <1>0, <1>2 DEF SilentJob
<1>3. CASE AirconStateJob
  BY <1>0, <1>3, <1>a, AirconPublished DEF AirconStateJob
<1>4. CASE AirconSetJob
  <2>1. job.value \in Levels
    BY <1>4, JobValues DEF AirconSetJob, LevelCommands
  <2>2. aircon' \in AirconStates
    BY <1>4, <1>a, <2>1, AirconCommanded, AirconPublished DEF AirconSetJob
  <2>3. QED
    BY <1>0, <1>4, <2>2 DEF AirconSetJob
<1>5. CASE AlertJob
  <2>1. job.value \in Levels /\ job.command \in Keys \ {"switch_en"}
    BY <1>5, JobValues DEF AlertJob, LevelCommands, Keys
  <2>2. save' \in Saves /\ save'.done = "finish"
    BY <1>5, <2>1, SaveCallTyped DEF AlertJob, StartSave, SaveCall, Settings
  <2>3. QED
    BY <1>0, <1>5, <1>a, <2>1, <2>2 DEF AlertJob, StartSave
<1>6. CASE BrightnessJob
  BY <1>0, <1>6, JobValues DEF BrightnessJob, LevelCommands
<1>7. CASE InitialAircon
  BY <1>0, <1>7, <1>a, AirconPublished DEF InitialAircon
<1>8. CASE InitialLight
  BY <1>0, <1>8 DEF InitialLight
<1>9. CASE DisabledSwitchJob
  BY <1>0, <1>9 DEF DisabledSwitchJob
<1>10. CASE EnabledSwitchJob
  BY <1>0, <1>10 DEF EnabledSwitchJob
<1>11. CASE EnableJob
  <2>1. job.value \in Settings("switch_en")
    BY <1>11, JobValues DEF EnableJob, SwitchCommands, Settings
  <2>2. CASE Goto("enable") /\ UNCHANGED save
    BY <1>0, <1>11, <2>2 DEF EnableJob
  <2>3. CASE StartSave("switch_en", job.value, "enable", "finish")
    <3>1. save' \in Saves
      BY <2>1, <2>3, SaveCallTyped DEF StartSave, SaveCall, Keys
    <3>2. QED
      BY <1>0, <1>11, <2>3, <3>1 DEF EnableJob, StartSave
  <2>4. QED
    BY <1>11, <2>2, <2>3 DEF EnableJob
<1>12. CASE ChangeEnable
  <2>1. CASE Enabling
    <3>1. switch' \in SwitchStates /\ switch'.enable
      BY <1>12, <2>1, SwitchUpdated DEF ChangeEnable, SwitchStates
    <3>2. QED
      BY <1>0, <1>12, <2>1, <3>1 DEF ChangeEnable, SwitchStates
  <2>2. CASE ~Enabling
    BY <1>0, <1>12, <2>2 DEF ChangeEnable, SwitchOff
  <2>3. QED
    BY <2>1, <2>2
<1>13. CASE TuyaSuccess
  <2>1. PICK actual \in Answers : switch' = [switch EXCEPT !.power = actual, !.valid = TRUE]
    BY <1>13 DEF TuyaSuccess
  <2>2. actual \in BOOLEAN
    BY DEF Answers
  <2>3. switch' \in SwitchStates /\ switch'.enable
    BY <1>13, <2>1, <2>2, SwitchUpdated DEF TuyaSuccess, SwitchStates
  <2>4. QED
    BY <1>0, <1>13, <2>3 DEF TuyaSuccess, SwitchStates
<1>14. CASE TuyaFailure
  BY <1>0, <1>14 DEF TuyaFailure, LimitReached, FailuresAfter
<1>15. CASE TuyaGiveUp
  <2>1. save' \in Saves /\ save'.done = "disabled"
    BY <1>15, SaveCallTyped DEF TuyaGiveUp, StartSave, SaveCall, Settings, Keys
  <2>2. QED
    BY <1>0, <1>15, <2>1 DEF TuyaGiveUp, StartSave, SwitchOff, FailuresAfter
<1>16. CASE PublishDisabled
  BY <1>0, <1>16 DEF PublishDisabled
<1>17. CASE TruncateFile
  <2>1. save' \in Saves /\ save'.done = save.done
    BY <1>17, SaveLoaded DEF TruncateFile
  <2>2. QED
    BY <1>0, <1>17, <2>1, EmptyFileTyped DEF TruncateFile
<1>18. CASE ReadError
  <2>1. save' \in Saves /\ save'.done = save.done
    BY <1>18, SaveLoaded, EmptyFileTyped DEF ReadError
  <2>2. QED
    BY <1>0, <1>18, <2>1, EmptyFileTyped DEF ReadError
<1>19. CASE OpenError
  BY <1>0, <1>19, SaveFields DEF OpenError, NoSave
<1>20. CASE WriteFile
  BY <1>0, <1>20, SaveFields DEF WriteFile, NoSave
<1>21. CASE WriteError
  <2>1. PICK kept \in (SUBSET Keys) \ {Keys} :
           /\ file' = [k \in Keys |-> IF k \in kept THEN save.entries[k] ELSE Absent]
           /\ unsaved' = (unsaved \ ({save.key} \cap kept)) \cup (Keys \ kept)
    BY <1>21 DEF WriteError
  <2>2. file' \in SettingsFiles
    <3>1. save.entries \in SettingsFiles
      BY <1>21, SaveFields DEF WriteError
    <3>2. [k \in Keys |-> IF k \in kept THEN save.entries[k] ELSE Absent] \in SettingsFiles
      BY <3>1, FileCut
    <3>3. QED
      BY <2>1, <3>2
  <2>3. QED
    BY <1>0, <1>21, <2>1, <2>2, SaveFields DEF WriteError, NoSave
<1>22. CASE FinishJob
  BY <1>0, <1>22 DEF FinishJob
<1>23. QED
  BY <1>1, <1>2, <1>3, <1>4, <1>5, <1>6, <1>7, <1>8, <1>9, <1>10, <1>11, <1>12,
     <1>13, <1>14, <1>15, <1>16, <1>17, <1>18, <1>19, <1>20, <1>21, <1>22
     DEF WorkerStep

-----------------------------------------------------------------------------
(* The settings file *)

Agrees(keys) == \A k \in keys \ unsaved : Loaded(file, k) = InForce(k)

Elsewhere == WorkerLabels \ {"save", "write", "enable", "off", "aborted"}

\* What a save writes: the setting in force, or the one that will be once the
\* enable command goes on.
SavesTheSetting ==
    wpc \in {"save", "write"} =>
        IF save.done = "enable"
        THEN save.key = "switch_en" /\ save.value = job.value
        ELSE save.value = InForce(save.key)

\* What the file holds, by where the worker is: it agrees with memory; but for the
\* setting that is being saved; not at all, while it is truncated, and then the
\* entries to be written do.
FileInv ==
    /\ SavesTheSetting
    /\ wpc \in Elsewhere => Agrees(Keys)
    /\ wpc = "save" => /\ Agrees(Keys \ {save.key})
                       /\ save.done = "enable" => Agrees(Keys)
    /\ wpc = "write" =>
         /\ save.entries[save.key] = save.value
         /\ \A k \in (Keys \ {save.key}) \ unsaved : Loaded(save.entries, k) = InForce(k)
    /\ wpc = "enable" =>
         /\ Agrees(Keys \ {"switch_en"})
         /\ "switch_en" \in unsaved \/ Loaded(file, "switch_en") = job.value

LEMMA InForceSame ==
    ASSUME UNCHANGED alert, switch'.enable = switch.enable, NEW k
    PROVE  InForce(k)' = InForce(k)
BY DEF InForce

\* Steps from one plain place to another that change no setting keep the agreement.
LEMMA AgreementKept ==
    ASSUME FileInv, wpc \in Elsewhere, wpc' \in Elsewhere,
           UNCHANGED <<file, alert, unsaved>>, switch'.enable = switch.enable
    PROVE  FileInv'
<1>1. \A k : InForce(k)' = InForce(k)
  BY InForceSame
<1>2. Agrees(Keys)'
  BY <1>1 DEF FileInv, Agrees, Loaded
<1>3. QED
  BY <1>2 DEF FileInv, Elsewhere, SavesTheSetting

\* Time changes the timer and nothing else.
LEMMA TimerLapsesInv ==
    ASSUME WorkerInv, TimerLapses
    PROVE  WorkerInv'
<1>1. aircon' \in AirconStates
  BY AirconUpdated DEF TimerLapses, WorkerInv, WorkerTypeOK, AirconStates
<1>2. QED
  BY <1>1 DEF TimerLapses, WorkerInv, WorkerTypeOK, AirconStates, SaveInProgress,
     SwitchInOrder, JobInHand

LEMMA TimerLapsesFile ==
    ASSUME FileInv, TimerLapses
    PROVE  FileInv'
BY DEF TimerLapses, FileInv, SavesTheSetting, Agrees, InForce

\* Every step of the worker keeps the file in step with memory.
LEMMA WorkerStepFile ==
    ASSUME WorkerInv, FileInv, WorkerStep
    PROVE  FileInv'
<1> USE DEF Goto, Finish, Running
<1>0. wpc \in WorkerLabels /\ switch \in SwitchStates /\ file \in SettingsFiles
  BY DEF WorkerInv, WorkerTypeOK, SwitchStates
<1>1. CASE TakeJob \/ SilentJob \/ AirconStateJob \/ AirconSetJob \/ BrightnessJob
           \/ InitialAircon \/ InitialLight \/ EnabledSwitchJob \/ TuyaFailure
           \/ PublishDisabled \/ FinishJob
  <2>1. wpc \in Elsewhere /\ wpc' \in Elsewhere /\ UNCHANGED <<file, alert, unsaved, switch>>
    BY <1>0, <1>1 DEF TakeJob, SilentJob, AirconStateJob, AirconSetJob, BrightnessJob,
         InitialAircon, InitialLight, EnabledSwitchJob, TuyaFailure, PublishDisabled,
         FinishJob, Elsewhere, WorkerLabels
  <2>2. QED
    BY <2>1, AgreementKept
<1>2. CASE DisabledSwitchJob
  <2>1. wpc \in Elsewhere /\ wpc' \in Elsewhere /\ UNCHANGED <<file, alert, unsaved>>
    BY <1>2 DEF DisabledSwitchJob, Elsewhere, WorkerLabels
  <2>2. switch'.enable = switch.enable
    BY <1>0, <1>2 DEF DisabledSwitchJob, SwitchStates
  <2>3. QED
    BY <2>1, <2>2, AgreementKept
<1>3. CASE TuyaSuccess
  <2>1. wpc \in Elsewhere /\ wpc' \in Elsewhere /\ UNCHANGED <<file, alert, unsaved>>
    BY <1>3 DEF TuyaSuccess, Elsewhere, WorkerLabels
  <2>2. switch'.enable = switch.enable
    BY <1>0, <1>3 DEF TuyaSuccess, SwitchStates
  <2>3. QED
    BY <2>1, <2>2, AgreementKept
<1>4. CASE AlertJob
  <2>1. /\ job.command \in Keys \ {"switch_en"}
        /\ alert \in [Keys \ {"switch_en"} -> Levels]
    BY <1>4 DEF AlertJob, Keys, WorkerInv, WorkerTypeOK
  <2>2. \A k \in Keys \ {job.command} : InForce(k)' = InForce(k)
    BY <1>4, <2>1 DEF AlertJob, InForce
  <2>3. InForce(job.command)' = job.value
    BY <1>4, <2>1 DEF AlertJob, InForce
  <2>4. /\ wpc' = "save" /\ save'.key = job.command /\ save'.value = job.value
        /\ save'.done = "finish"
        /\ UNCHANGED <<file, unsaved, job>>
    BY <1>4 DEF AlertJob, StartSave
  <2>5. Agrees(Keys)
    BY <1>4 DEF AlertJob, FileInv, Elsewhere, WorkerLabels
  <2>6. Agrees(Keys \ {save.key})'
    BY <2>2, <2>4, <2>5 DEF Agrees, Loaded
  <2>7. QED
    BY <2>3, <2>4, <2>6 DEF FileInv, SavesTheSetting, Elsewhere, InForce
<1>5. CASE EnableJob
  <2>1. Agrees(Keys) /\ UNCHANGED <<file, alert, switch, unsaved, job>>
    BY <1>5 DEF EnableJob, FileInv, Elsewhere, WorkerLabels
  <2>2. \A k : InForce(k)' = InForce(k)
    BY <2>1, InForceSame
  <2>3. Agrees(Keys)'
    BY <2>1, <2>2 DEF Agrees, Loaded
  <2>4. CASE switch.enable = Enabling /\ wpc' = "enable"
    <3>1. job.value \in {"on", "off"}
      BY <1>5, JobValues DEF EnableJob, SwitchCommands, WorkerInv, WorkerTypeOK, WorkerJobs
    <3>2. InForce("switch_en") = job.value
      BY <2>4, <3>1 DEF InForce, OnOff, Enabling
    <3>3. "switch_en" \in unsaved' \/ Loaded(file', "switch_en") = job'.value
      BY <2>1, <3>2 DEF Agrees, Keys
    <3>4. QED
      BY <2>3, <2>4, <3>3 DEF FileInv, SavesTheSetting, Elsewhere, Agrees
  <2>5. CASE StartSave("switch_en", job.value, "enable", "finish")
    BY <2>1, <2>3, <2>5 DEF StartSave, FileInv, SavesTheSetting, Elsewhere, Agrees
  <2>6. QED
    BY <1>5, <2>4, <2>5 DEF EnableJob
<1>6. CASE ChangeEnable
  <2>1. wpc' \in Elsewhere /\ UNCHANGED <<file, alert, unsaved>>
    BY <1>6 DEF ChangeEnable, Elsewhere, WorkerLabels
  <2>2. job.value \in {"on", "off"}
    BY <1>6, JobValues DEF ChangeEnable, SwitchCommands, WorkerInv, JobInHand,
         WorkerTypeOK, WorkerJobs
  <2>3. /\ Enabling => switch'.enable = TRUE
        /\ ~Enabling => switch'.enable = FALSE
    BY <1>0, <1>6, SwitchUpdated DEF ChangeEnable, SwitchOff
  <2>4. InForce("switch_en")' = job.value
    BY <2>2, <2>3 DEF InForce, OnOff, Enabling
  <2>5. \A k \in Keys \ {"switch_en"} : InForce(k)' = InForce(k)
    BY <2>1 DEF InForce
  <2>6. Agrees(Keys)'
    BY <1>6, <2>1, <2>4, <2>5 DEF ChangeEnable, FileInv, Agrees, Loaded
  <2>7. QED
    BY <2>1, <2>6 DEF FileInv, SavesTheSetting, Elsewhere
<1>7. CASE TuyaGiveUp
  <2>1. /\ wpc' = "save" /\ save'.key = "switch_en" /\ save'.value = "off"
        /\ save'.done = "disabled" /\ ~switch'.enable
        /\ UNCHANGED <<file, alert, unsaved>>
    BY <1>7 DEF TuyaGiveUp, StartSave, SwitchOff
  <2>2. Agrees(Keys)
    BY <1>7 DEF TuyaGiveUp, FileInv, Elsewhere, WorkerLabels
  <2>3. Agrees(Keys \ {save.key})'
    BY <2>1, <2>2 DEF Agrees, Loaded, InForce
  <2>4. InForce("switch_en")' = "off"
    BY <2>1 DEF InForce, OnOff
  <2>5. QED
    BY <2>1, <2>3, <2>4 DEF FileInv, SavesTheSetting, Elsewhere, InForce
<1>8. CASE TruncateFile \/ ReadError
  <2>1. /\ wpc = "save" /\ wpc' = "write" /\ UNCHANGED <<alert, switch, job>>
        /\ save \in Saves
    BY <1>8 DEF TruncateFile, ReadError, WorkerInv, SaveInProgress
  <2>2. \A k : InForce(k)' = InForce(k)
    BY <2>1, InForceSame
  <2>3. CASE TruncateFile
    <3>1. /\ save'.key = save.key /\ save'.value = save.value /\ save'.done = save.done
          /\ save'.entries[save.key] = save.value
          /\ \A k \in Keys \ {save.key} : save'.entries[k] = file[k]
          /\ UNCHANGED unsaved
      BY <1>0, <2>1, <2>3, SaveLoaded DEF TruncateFile
    <3>2. \A k \in (Keys \ {save.key}) \ unsaved : Loaded(save'.entries, k) = InForce(k)
      BY <2>1, <3>1 DEF FileInv, Agrees, Loaded
    <3>3. QED
      BY <2>1, <2>2, <3>1, <3>2, SaveFields DEF FileInv, SavesTheSetting, Elsewhere
  <2>4. CASE ReadError
    <3>1. /\ save'.key = save.key /\ save'.value = save.value /\ save'.done = save.done
          /\ save'.entries[save.key] = save.value
          /\ unsaved' = unsaved \cup (Keys \ {save.key})
      BY <2>1, <2>4, SaveLoaded, EmptyFileTyped DEF ReadError
    <3>2. QED
      BY <2>1, <2>2, <3>1, SaveFields DEF FileInv, SavesTheSetting, Elsewhere
  <2>5. QED
    BY <1>8, <2>3, <2>4
<1>9. CASE OpenError
  <2>1. /\ wpc = "save" /\ wpc' = save.failed /\ UNCHANGED <<file, alert, switch>>
        /\ save \in Saves
    BY <1>9 DEF OpenError, WorkerInv, SaveInProgress
  <2>2. \A k : InForce(k)' = InForce(k)
    BY <2>1, InForceSame
  <2>3. Agrees(Keys)'
    BY <1>9, <2>1, <2>2 DEF OpenError, FileInv, Agrees, Loaded
  <2>4. QED
    BY <2>1, <2>3, SaveFields DEF FileInv, SavesTheSetting, Elsewhere, WorkerLabels
<1>10. CASE WriteFile \/ WriteError
  <2>1. /\ wpc = "write" /\ wpc' = save.done /\ UNCHANGED <<alert, switch, job>>
        /\ save \in Saves
    BY <1>10 DEF WriteFile, WriteError, WorkerInv, SaveInProgress
  <2>2. \A k : InForce(k)' = InForce(k)
    BY <2>1, InForceSame
  <2>3. /\ save.key \in Keys /\ save.value \in Settings(save.key)
        /\ save.entries \in SettingsFiles
        /\ save.done \in {"finish", "enable", "disabled"}
    BY <2>1, SaveFields
  <2>4. PICK kept \in SUBSET Keys :
          /\ \A k \in kept : file'[k] = save.entries[k]
          /\ unsaved' = (unsaved \ ({save.key} \cap kept)) \cup (Keys \ kept)
    <3>1. CASE WriteFile
      BY <2>3, <3>1 DEF WriteFile
    <3>2. CASE WriteError
      <4>1. PICK kept \in (SUBSET Keys) \ {Keys} :
              /\ file' = [k \in Keys |-> IF k \in kept THEN save.entries[k] ELSE Absent]
              /\ unsaved' = (unsaved \ ({save.key} \cap kept)) \cup (Keys \ kept)
        BY <3>2 DEF WriteError
      <4>2. \A k \in kept : file'[k] = save.entries[k]
        BY <4>1
      <4>3. QED
        BY <4>1, <4>2
    <3>3. QED
      BY <1>10, <3>1, <3>2
  <2>5. \A k \in (Keys \ {save.key}) \ unsaved' : Loaded(file', k) = InForce(k)'
    BY <2>1, <2>2, <2>4 DEF FileInv, Loaded
  <2>6. save.key \in unsaved' \/ Loaded(file', save.key) = save.value
    <3>1. Loaded(save.entries, save.key) = save.value
      BY <2>1, <2>3, LoadedWritten DEF FileInv
    <3>2. QED
      BY <2>3, <2>4, <3>1 DEF Loaded
  <2>7. CASE save.done = "enable"
    BY <2>1, <2>5, <2>6, <2>7 DEF FileInv, SavesTheSetting, Elsewhere, Agrees, WorkerLabels
  <2>8. CASE save.done # "enable"
    <3>1. Agrees(Keys)'
      BY <2>1, <2>2, <2>5, <2>6, <2>8 DEF FileInv, SavesTheSetting, Agrees
    <3>2. QED
      BY <2>1, <2>3, <2>8, <3>1 DEF FileInv, SavesTheSetting, Elsewhere
  <2>9. QED
    BY <2>7, <2>8
<1>11. QED
  BY <1>1, <1>2, <1>3, <1>4, <1>5, <1>6, <1>7, <1>8, <1>9, <1>10 DEF WorkerStep

-----------------------------------------------------------------------------
(* Starting *)

\* The memory as device_worker_initialize leaves it, given the contents of the file.
LEMMA LoadedMemory ==
    ASSUME NEW contents \in SettingsFiles
    PROVE  /\ LoadedAlert(contents) \in [Keys \ {"switch_en"} -> Levels]
           /\ LoadedSwitch(contents) \in SwitchStates
           /\ ~LoadedSwitch(contents).power /\ ~LoadedSwitch(contents).valid
           /\ OnOff(LoadedSwitch(contents).enable) = Loaded(contents, "switch_en")
           /\ \A k \in Keys \ {"switch_en"} : LoadedAlert(contents)[k] = Loaded(contents, k)
<1>1. \A k \in Keys : Loaded(contents, k) \in Settings(k)
  BY LoadedTyped
<1>2. LoadedAlert(contents) \in [Keys \ {"switch_en"} -> Levels]
  BY <1>1 DEF LoadedAlert, Settings
<1>3. /\ LoadedSwitch(contents) \in SwitchStates
      /\ ~LoadedSwitch(contents).power /\ ~LoadedSwitch(contents).valid
      /\ LoadedSwitch(contents).enable = (Loaded(contents, "switch_en") = "on")
  BY DEF LoadedSwitch, SwitchOff, SwitchStates
<1>4. Loaded(contents, "switch_en") \in {"on", "off"}
  BY <1>1 DEF Settings, Keys
<1>5. OnOff(LoadedSwitch(contents).enable) = Loaded(contents, "switch_en")
  BY <1>3, <1>4 DEF OnOff
<1>6. \A k \in Keys \ {"switch_en"} : LoadedAlert(contents)[k] = Loaded(contents, k)
  BY DEF LoadedAlert
<1>7. QED
  BY <1>2, <1>3, <1>5, <1>6

LEMMA WorkerStarts ==
    ASSUME NEW contents \in SettingsFiles, InitResources, InitWorker(contents)
    PROVE  WorkerInv /\ FileInv
<1>1. /\ \A k \in Keys : InForce(k) = Loaded(contents, k)
      /\ alert \in [Keys \ {"switch_en"} -> Levels] /\ switch \in SwitchStates
      /\ ~switch.power /\ ~switch.valid
  BY LoadedMemory DEF InitWorker, InForce
<1>2. devq \in Seq(Jobs)
  BY DEF InitResources
<1>3. WorkerInv
  BY <1>1, <1>2, WorkerAssumption, AirconStarts
     DEF InitWorker, WorkerInv, WorkerTypeOK, WorkerLabels, SaveInProgress,
         SwitchInOrder, JobInHand, SwitchStates, AirconStates
<1>4. FileInv
  BY <1>1 DEF InitWorker, FileInv, SavesTheSetting, Elsewhere, WorkerLabels, Agrees
<1>5. QED
  BY <1>3, <1>4

-----------------------------------------------------------------------------
(* Lifecycle *)

\* While there is no process the file still holds, of each setting not at risk,
\* the value that was in force.
FileKept == wpc = "off" => \A k \in Keys \ atRisk : Loaded(file, k) = before[k]

LifeInv == WorkerInv /\ FileInv /\ FileKept /\ AbortExplained

LEMMA LifeStarts == ASSUME LifeInit PROVE LifeInv
BY WorkerStarts, EmptyFileTyped DEF LifeInit, InitWorker, LifeInv, FileKept, AbortExplained

\* Where there is a process the worker is in one of its own places.
LEMMA WorkerNeverLeaves ==
    ASSUME WorkerInv, WorkerStep
    PROVE  wpc \notin {"off", "aborted"} /\ wpc' \notin {"off", "aborted"}
<1>1. wpc \in {"save", "write"} =>
         save.done \notin {"off", "aborted"} /\ save.failed \notin {"off", "aborted"}
  BY SaveFields DEF WorkerInv, SaveInProgress
<1>2. QED
  BY <1>1 DEF WorkerStep, TakeJob, SilentJob, AirconStateJob, AirconSetJob, AlertJob,
     BrightnessJob, InitialAircon, InitialLight, DisabledSwitchJob, EnabledSwitchJob,
     EnableJob, ChangeEnable, TuyaSuccess, TuyaFailure, TuyaGiveUp, PublishDisabled,
     TruncateFile, ReadError, OpenError, WriteFile, WriteError, FinishJob, Goto, Finish,
     Running, StartSave

LEMMA LifeStep == ASSUME LifeInv, [LifeNext]_lifeVars PROVE LifeInv'
<1> USE DEF LifeInv
<1>1. CASE LifeWorker
  <2>1. UNCHANGED <<before, atRisk>>
    BY <1>1 DEF LifeWorker, history
  <2>2. CASE WorkerStep
    <3>1. WorkerInv' /\ FileInv'
      BY <2>2, WorkerStepInv, WorkerStepFile
    <3>2. wpc' \notin {"off", "aborted"}
      BY <2>2, WorkerNeverLeaves
    <3>3. QED
      BY <3>1, <3>2 DEF FileKept, AbortExplained
  <2>3. CASE TimerLapses
    <3>1. WorkerInv' /\ FileInv'
      BY <2>3, TimerLapsesInv, TimerLapsesFile
    <3>2. UNCHANGED <<wpc, file>>
      BY <2>3 DEF TimerLapses
    <3>3. QED
      BY <2>1, <3>1, <3>2 DEF FileKept, AbortExplained
  <2>4. QED
    BY <1>1, <2>2, <2>3 DEF LifeWorker
<1>2. CASE JobArrives
  <2>1. devq' \in Seq(Jobs)
    BY <1>2, CommandsAssumption DEF JobArrives, EnqueueDeviceJob, Jobs, WorkerInv
  <2>2. UNCHANGED <<worker, history>>
    BY <1>2 DEF JobArrives
  <2>3. QED
    BY <2>1, <2>2 DEF worker, history, WorkerInv, WorkerTypeOK, SaveInProgress,
       SwitchInOrder, JobInHand, FileInv, SavesTheSetting, Agrees, InForce, FileKept,
       AbortExplained
<1>3. CASE Crash
  <2>1. alert' \in [Keys \ {"switch_en"} -> Levels] /\ switch' \in SwitchStates
    BY <1>3, LoadedMemory, EmptyFileTyped DEF Crash, SwitchOff, SwitchStates
  <2>2. devq' \in Seq(Jobs)
    BY <1>3 DEF Crash
  <2>3. WorkerInv'
    BY <1>3, <2>1, <2>2, WorkerAssumption, AirconStarts
       DEF Crash, WorkerInv, WorkerTypeOK, WorkerLabels, SaveInProgress, SwitchInOrder,
           JobInHand, SwitchStates, SwitchOff, AirconStates
  <2>4. FileInv'
    BY <1>3 DEF Crash, FileInv, SavesTheSetting, Elsewhere
  <2>5. ASSUME NEW k \in Keys \ atRisk'
        PROVE  Loaded(file, k) = InForce(k)
    <3>1. k \notin Exposed
      BY <1>3, <2>5 DEF Crash
    <3>2. wpc \in WorkerLabels \ {"off", "aborted", "write"}
      BY <1>3, <2>5, <3>1 DEF Crash, RunningProcess, Exposed, WorkerInv, WorkerTypeOK
    <3>3. k \notin unsaved
      BY <3>1 DEF Exposed
    <3>4. CASE wpc = "save"
      BY <2>5, <3>1, <3>3, <3>4 DEF Exposed, FileInv, Agrees
    <3>5. CASE wpc = "enable"
      BY <2>5, <3>1, <3>3, <3>5 DEF Exposed, FileInv, Agrees
    <3>6. CASE wpc \in Elsewhere
      BY <2>5, <3>3, <3>6 DEF FileInv, Agrees
    <3>7. QED
      BY <3>2, <3>4, <3>5, <3>6 DEF Elsewhere
  <2>6. FileKept'
    BY <1>3, <2>5 DEF Crash, FileKept, Loaded
  <2>7. AbortExplained'
    BY <1>3 DEF Crash, AbortExplained
  <2>8. QED
    BY <2>3, <2>4, <2>6, <2>7
<1>4. CASE BootAborts
  <2>1. wpc' = "aborted" /\ UNCHANGED <<devq, job, attempt, aircon, light, alert, switch,
                                      failures, file, save, unsaved, configValid, before,
                                      atRisk>>
    BY <1>4 DEF BootAborts, resources, history
  <2>2. WorkerInv'
    BY <1>4, <2>1 DEF BootAborts, WorkerInv, WorkerTypeOK, WorkerLabels, SaveInProgress,
       SwitchInOrder, JobInHand
  <2>3. FileInv' /\ FileKept'
    BY <2>1 DEF FileInv, SavesTheSetting, Elsewhere, FileKept
  <2>4. AbortExplained'
    BY <1>4, <2>1 DEF BootAborts, FileKept, AbortExplained, Keys
  <2>5. QED
    BY <2>2, <2>3, <2>4
<1>5. ASSUME NEW contents \in SettingsFiles, wpc = "off", wpc' = "idle",
             alert' = LoadedAlert(contents), switch' = LoadedSwitch(contents),
             unsaved' \subseteq Keys, contents = file \/ unsaved' = Keys,
             UNCHANGED <<devq, job, attempt, aircon, light, failures, file, save,
                         configValid>>
      PROVE  LifeInv'
  <2>1. /\ alert' \in [Keys \ {"switch_en"} -> Levels] /\ switch' \in SwitchStates
        /\ ~switch'.power /\ ~switch'.valid
    BY <1>5, LoadedMemory
  <2>2. \A k \in Keys : InForce(k)' = Loaded(contents, k)
    BY <1>5, LoadedMemory DEF InForce
  <2>3. WorkerInv'
    BY <1>5, <2>1, WorkerAssumption
       DEF WorkerInv, WorkerTypeOK, WorkerLabels, SaveInProgress, SwitchInOrder, JobInHand,
           SwitchStates
  <2>4. Agrees(Keys)'
    BY <1>5, <2>2 DEF Agrees, Loaded
  <2>5. QED
    BY <1>5, <2>3, <2>4 DEF FileInv, SavesTheSetting, Elsewhere, FileKept, AbortExplained
<1>6. CASE Boot \/ BootUnread
  <2>1. file \in SettingsFiles /\ unsaved \subseteq Keys
    BY DEF WorkerInv, WorkerTypeOK
  <2>2. CASE Boot
    BY <1>5, <2>1, <2>2 DEF Boot, resources
  <2>3. CASE BootUnread
    BY <1>5, <2>1, <2>3, EmptyFileTyped DEF BootUnread, resources
  <2>4. QED
    BY <1>6, <2>2, <2>3
<1>7. CASE UNCHANGED lifeVars
  BY <1>7 DEF lifeVars, resources, worker, history, WorkerInv, WorkerTypeOK,
     SaveInProgress, SwitchInOrder, JobInHand, FileInv, SavesTheSetting, Agrees, InForce,
     FileKept, AbortExplained
<1>8. QED
  BY <1>1, <1>2, <1>3, <1>4, <1>6, <1>7 DEF LifeNext

\* The invariant holds of the worker, its settings file and what a kill put at
\* risk, through every job, kill and start.
THEOREM LifeInvariant == LifeSpec => []LifeInv
BY LifeStarts, LifeStep, PTL DEF LifeSpec

\* Between jobs a switch that is enabled has failed fewer times in a row than
\* record_switch_failure tolerates, through kills and restarts; one that is
\* disabled is reported off.
THEOREM FailuresBelowLimit == LifeSpec => []EnabledBelowLimit
<1>1. LifeInv => EnabledBelowLimit
  BY DEF LifeInv, WorkerInv, SwitchInOrder, EnabledBelowLimit
<1>2. QED
  BY <1>1, LifeInvariant, PTL

\* Between jobs the next start would find every setting in force, but for those an
\* I/O error kept out of the file or from being read (settings_store_save_*, and
\* set_switch_enabled and disable_switch_after_failures around it).
THEOREM SettingsPersist == LifeSpec => []PersistedSettings
<1>1. LifeInv => PersistedSettings
  BY DEF LifeInv, FileInv, Elsewhere, WorkerLabels, Agrees, PersistedSettings
<1>2. QED
  BY <1>1, LifeInvariant, PTL

\* The program refuses to start only after a kill with the switch enabled, or with
\* its setting at risk (the ESP_ERROR_CHECK of device_worker_initialize).
THEOREM AbortsAreExplained == LifeSpec => []AbortExplained
<1>1. LifeInv => AbortExplained
  BY DEF LifeInv
<1>2. QED
  BY <1>1, LifeInvariant, PTL

\* A start that can read the file restores the thresholds and the enabled switch as
\* they were when the process was killed, wherever it was killed, but for the
\* settings exposed at that moment.
THEOREM RestartRestores == LifeSpec => RestartKeepsSettings
<1>1. ASSUME LifeInv, Boot, NEW k \in Keys \ atRisk
      PROVE  InForce(k)' = before[k]
  <2>1. alert' = LoadedAlert(file) /\ switch' = LoadedSwitch(file)
    BY <1>1 DEF Boot
  <2>2. file \in SettingsFiles
    BY <1>1 DEF LifeInv, WorkerInv, WorkerTypeOK
  <2>3. InForce(k)' = Loaded(file, k)
    BY <2>1, <2>2, LoadedMemory DEF InForce
  <2>4. Loaded(file, k) = before[k]
    BY <1>1 DEF Boot, LifeInv, FileKept
  <2>5. QED
    BY <2>3, <2>4
<1>2. LifeInv /\ [LifeNext]_lifeVars
        => [Boot => \A k \in Keys \ atRisk : InForce(k)' = before[k]]_lifeVars
  BY <1>1
<1>3. QED
  BY <1>2, LifeInvariant, PTL DEF LifeSpec, RestartKeepsSettings
=============================================================================
