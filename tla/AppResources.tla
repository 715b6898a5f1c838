---------------------------- MODULE AppResources ----------------------------
(***************************************************************************)
(* main/app_resources.c: the device job queue, the publish queue and the   *)
(* event bits that the tasks share.  The queues are bounded FIFOs whose    *)
(* operations are atomic (FreertosQueueProofs proves it of the pthread     *)
(* implementation) and are only ever sent to without waiting.              *)
(*                                                                         *)
(* A job is [command, value]; a publication is [device, state], where the  *)
(* device is that of the topic, or "reply" for a result sent back to the   *)
(* sender of a message.  Two history variables: lost, the devices whose     *)
(* most recent publication was discarded before the broker had it, and     *)
(* owed, those whose state the current session has asked for and the       *)
(* worker has not yet tried to publish.                                    *)
(***************************************************************************)
EXTENDS Naturals, Sequences

CONSTANTS DeviceQueueLength, PublishQueueLength,
          Levels,    \* settings, brightness and alert thresholds
          Commands   \* the jobs that valid messages carry

ASSUME QueueLengthAssumption == /\ DeviceQueueLength \in Nat \ {0}
                                /\ PublishQueueLength \in Nat \ {0}

VARIABLES devq,      \* s_device_queue: jobs, oldest first
          pubq,      \* s_publish_queue: publications, oldest first
          events,    \* s_events: the set of bits that are set
          lost, owed

publishing == <<pubq, lost, owed>>
resources == <<devq, events, publishing>>

Devices == {"aircon", "light", "switch"}

EventBits == {"WIFI_CONNECTED", "MQTT_CONNECTED", "MQTT_ERROR",
              "INITIAL_COMPLETE", "THERMOMETER_ERROR"}

\* The state in which the tasks start: wifi_manager_init has set its bit and
\* the temperature sensor, which this platform does not have, is disabled.
InitEvents == {"WIFI_CONNECTED", "THERMOMETER_ERROR"}

InitResources == /\ devq = << >>
                 /\ pubq = << >>
                 /\ events = InitEvents
                 /\ lost = {} /\ owed = {}

-----------------------------------------------------------------------------
(* Jobs (app_types.h) *)

None == "none"
Job(command, value) == [command |-> command, value |-> value]
NoJob == Job(None, None)

AirconCommands == {"aircon_set", "timer_start", "timer_cancel"}
LevelCommands == AirconCommands \cup {"alert_hi", "alert_lo", "brightness"}
SwitchCommands == {"switch_power", "switch_enable"}
PlainCommands == {"aircon_state", "light_other"}

\* What mqtt_protocol_parse accepts: AirconCommands are those of
\* is_aircon_ir_command (a timer of zero minutes is taken back), "light_other"
\* stands for those that publish nothing.
MqttJobs == [command : LevelCommands, value : Levels]
              \cup [command : SwitchCommands, value : {"on", "off"}]
              \cup [command : PlainCommands, value : {None}]

ASSUME CommandsAssumption == Commands \subseteq MqttJobs

InitialJob == Job("publish_initial", None)
TemperatureJob == Job("read_temperature", None)
SwitchStateJob == Job("switch_state", None)

Jobs == MqttJobs \cup {InitialJob, TemperatureJob}

-----------------------------------------------------------------------------
(* The queues *)

DevicesIn(publications) ==
    {publications[i].device : i \in DOMAIN publications} \cap Devices

\* app_enqueue_device_job returned true.
EnqueueDeviceJob(job) == /\ Len(devq) < DeviceQueueLength
                         /\ devq' = Append(devq, job)

\* app_enqueue_device_job returned false.
DeviceQueueFull == Len(devq) = DeviceQueueLength

\* A mutant of EnqueuePublish: it waits until there is room.
EnqueuePublishWaiting(publication) ==
    /\ Len(pubq) < PublishQueueLength
    /\ pubq' = Append(pubq, publication)
    /\ lost' = lost \ {publication.device}
    /\ owed' = owed \ {publication.device}

\* app_enqueue_publish: a publication that does not fit is discarded.
EnqueuePublish(publication) ==
    /\ \/ /\ Len(pubq) < PublishQueueLength
          /\ pubq' = Append(pubq, publication)
          /\ lost' = lost \ {publication.device}
       \/ /\ Len(pubq) = PublishQueueLength
          /\ lost' = lost \cup DevicesIn(<<publication>>)
          /\ UNCHANGED pubq
    /\ owed' = owed \ {publication.device}

\* app_reset_publish_queue, at the end of a session
ResetPublishQueue == /\ pubq' = << >>
                     /\ lost' = lost \cup DevicesIn(pubq)
                     /\ owed' = {}
=============================================================================
