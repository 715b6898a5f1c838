------------------------------ MODULE MqttTask ------------------------------
(***************************************************************************)
(* main/mqtt_task.c: the task that keeps a session with the broker, hands  *)
(* the messages it receives to the device worker and publishes what it     *)
(* finds in the publish queue.  The broker and wolfMQTT are external: a    *)
(* library call succeeds or fails, a QoS 1 publish that fails may have     *)
(* arrived all the same, and the library may call message_callback while   *)
(* it waits for any packet once the task has asked to subscribe.           *)
(*                                                                         *)
(* Abstracted data: a received message is a job, Ignored (not for us, or   *)
(* with a topic too long) or Invalid (answered with an error), and a reply *)
(* is one of two results.  Bounds: MaxMessages messages are received, and  *)
(* s_failure_count saturates at FastRetryFailures, the only value it is    *)
(* compared with.                                                          *)
(***************************************************************************)
EXTENDS AppResources

CONSTANTS FastRetryFailures,  \* APP_FAST_RETRY_FAILURES
          MaxMessages

ASSUME MqttAssumption == /\ FastRetryFailures \in Nat \ {0}
                         /\ MaxMessages \in Nat

VARIABLES mpc,         \* where mqtt_task_main and run_session are
          sntp,        \* s_sntp_initialized and s_time_synchronized
          once,        \* connected_once
          failed,      \* s_failure_count, saturating
          interval,    \* retry_ms
          inflight,    \* request: the publication taken from the queue
          view,        \* external: the last state the broker has of a device
          received     \* how many messages have been received

mqtt == <<mpc, sntp, once, failed, interval, inflight, view, received>>

Unknown == << >>
NoPublication == [device |-> None, state |-> Unknown]

InitMqtt == /\ mpc = "offline" /\ sntp = "off" /\ once = FALSE
            /\ failed = 0 /\ interval = "fast"
            /\ inflight = NoPublication
            /\ view = [d \in Devices |-> Unknown]
            /\ received = 0

\* Where the task goes next, and that it leaves the rest alone.
Enter(label) == mpc' = label
QueuesUnchanged == UNCHANGED <<devq, publishing>>
SessionUnchanged == UNCHANGED <<once, failed, interval, inflight, view, received>>
SetBits(bits) == events' = events \cup bits
ClearBits(bits) == events' = events \ bits

-----------------------------------------------------------------------------
(* Getting connected *)

\* xEventGroupWaitBits for the Wi-Fi (which is always there), then
\* ensure_initial_time_sync: initialise once, synchronise once.
TimeSync ==
    /\ mpc = "offline" /\ "WIFI_CONNECTED" \in events
    /\ \/ sntp = "synced" /\ Enter("connect") /\ UNCHANGED sntp
       \/ sntp = "off" /\ Enter("error") /\ UNCHANGED sntp
       \/ sntp # "synced" /\ Enter("error") /\ sntp' = "started"
       \/ sntp # "synced" /\ Enter("connect") /\ sntp' = "synced"
    /\ SessionUnchanged /\ QueuesUnchanged /\ UNCHANGED events

\* MqttClient_Init, whose failure returns without going through exit;
\* MqttClient_NetConnect and MqttClient_Connect, whose failures do.
Connect == /\ mpc = "connect"
           /\ \E l \in {"error", "exit", "subscribe"} : Enter(l)
           /\ SessionUnchanged /\ QueuesUnchanged /\ UNCHANGED <<sntp, events>>

SubscribeFailed == /\ mpc = "subscribe"
                   /\ Enter("exit")
                   /\ SessionUnchanged /\ QueuesUnchanged
                   /\ UNCHANGED <<sntp, events>>

\* Mutants of Subscribed: the error bit stays, the failures are not forgotten.
SubscribedInError == /\ mpc = "subscribe"
                     /\ Enter("announce")
                     /\ once' = TRUE
                     /\ failed' = 0
                     /\ UNCHANGED <<sntp, interval, inflight, view, received, events>>
                     /\ QueuesUnchanged

SubscribedCounting == /\ mpc = "subscribe"
                      /\ Enter("announce")
                      /\ once' = TRUE
                      /\ ClearBits({"MQTT_ERROR"})
                      /\ UNCHANGED <<sntp, failed, interval, inflight, view, received>>
                      /\ QueuesUnchanged

\* The session is up: the failures are forgotten, the bits change one by one.
Subscribed == /\ mpc = "subscribe"
              /\ Enter("announce")
              /\ once' = TRUE
              /\ failed' = 0
              /\ ClearBits({"MQTT_ERROR"})
              /\ UNCHANGED <<sntp, interval, inflight, view, received>>
              /\ QueuesUnchanged

Announce == /\ mpc = "announce"
            /\ Enter("request")
            /\ SetBits({"MQTT_CONNECTED"})
            /\ SessionUnchanged /\ QueuesUnchanged /\ UNCHANGED sntp

\* request_initial_publish: the job is not queued if the queue is full.
RequestInitialPublish ==
    /\ mpc = "request"
    /\ Enter("drain")
    /\ \/ /\ EnqueueDeviceJob(InitialJob)
          /\ SetBits({"INITIAL_COMPLETE"})
          /\ owed' = Devices
       \/ /\ DeviceQueueFull
          /\ UNCHANGED <<devq, events, owed>>
    /\ UNCHANGED <<sntp, once, failed, interval, inflight, view, received,
                   pubq, lost>>

-----------------------------------------------------------------------------
(* The loop of a session *)

\* xQueueReceive(publish queue, 0)
Drain == /\ mpc = "drain"
         /\ \/ pubq = << >> /\ Enter("wait") /\ UNCHANGED <<inflight, pubq>>
            \/ /\ pubq # << >>
               /\ inflight' = Head(pubq)
               /\ pubq' = Tail(pubq)
               /\ Enter("publish")
         /\ UNCHANGED <<sntp, once, failed, interval, view, received, devq, lost,
                        owed, events>>

Delivered(p) == IF p.device \in Devices THEN [view EXCEPT ![p.device] = p.state]
                ELSE view

\* MqttClient_Publish got its acknowledgement.
Published == /\ mpc = "publish"
             /\ Enter("drain")
             /\ view' = Delivered(inflight)
             /\ inflight' = NoPublication
             /\ UNCHANGED <<sntp, once, failed, interval, received, events>>
             /\ QueuesUnchanged

\* A mutant of PublishFailed: the publication goes back to the queue, for the next
\* session, behind those that came since.
PublishFailedRequeued ==
    /\ mpc = "publish"
    /\ Enter("exit")
    /\ view' \in {view, Delivered(inflight)}
    /\ EnqueuePublish(inflight)
    /\ inflight' = NoPublication
    /\ UNCHANGED <<sntp, once, failed, interval, received, devq, events>>

\* It did not; the publication may have arrived or not, and is not sent again.
PublishFailed == /\ mpc = "publish"
                 /\ Enter("exit")
                 /\ view' \in {view, Delivered(inflight)}
                 /\ lost' = lost \cup (DevicesIn(<<inflight>>) \ DevicesIn(pubq))
                 /\ inflight' = NoPublication
                 /\ UNCHANGED <<sntp, once, failed, interval, received, devq,
                                pubq, owed, events>>

\* MqttClient_WaitMessage_ex returns (a message, or its timeout) or fails, and
\* so does the MqttClient_Ping that follows every 30 seconds.
WaitMessage == /\ mpc = "wait"
               /\ Enter("drain") \/ Enter("exit")
               /\ SessionUnchanged /\ QueuesUnchanged /\ UNCHANGED <<sntp, events>>

Ignored == Job("ignored", None)
Invalid == Job("invalid", None)
Reply(result) == [device |-> "reply", state |-> <<result>>]

\* message_callback, called by wolfMQTT while it waits for a packet
MessageCallback ==
    /\ mpc \in {"subscribe", "publish", "wait"}
    /\ received < MaxMessages
    /\ received' = received + 1
    /\ \E m \in Commands \cup {Ignored, Invalid} :
         \/ m = Ignored /\ QueuesUnchanged
         \/ m = Invalid /\ EnqueuePublish(Reply("error")) /\ UNCHANGED devq
         \/ m \in Commands /\ EnqueueDeviceJob(m) /\ UNCHANGED publishing
         \/ /\ m \in Commands /\ DeviceQueueFull
            /\ EnqueuePublish(Reply("busy"))
            /\ UNCHANGED devq
    /\ UNCHANGED <<mpc, sntp, once, failed, interval, inflight, view, events>>

-----------------------------------------------------------------------------
(* The end of a session, and of an attempt at one *)

ClearConnected == /\ mpc = "exit"
                  /\ Enter("close")
                  /\ ClearBits({"MQTT_CONNECTED"})
                  /\ SessionUnchanged /\ QueuesUnchanged /\ UNCHANGED sntp

\* Disconnect, close the socket, forget what was to be published.
CloseSession == /\ mpc = "close"
                /\ Enter("error")
                /\ ResetPublishQueue
                /\ UNCHANGED <<sntp, once, failed, interval, inflight, view,
                               received, devq, events>>

\* mqtt_task_main after run_session: set the bit, count, choose the pause
CountFailure ==
    /\ mpc = "error"
    /\ Enter("retry")
    /\ SetBits({"MQTT_ERROR"})
    /\ failed' = IF ~once /\ failed < FastRetryFailures THEN failed + 1 ELSE failed
    /\ interval' = IF failed' >= FastRetryFailures THEN "slow" ELSE "fast"
    /\ UNCHANGED <<sntp, once, inflight, view, received>>
    /\ QueuesUnchanged

\* The pause; connected_once and retry_ms are variables of the loop body.
RetryDelay == /\ mpc = "retry"
              /\ Enter("offline")
              /\ once' = FALSE
              /\ interval' = "fast"
              /\ UNCHANGED <<sntp, failed, inflight, view, received, events>>
              /\ QueuesUnchanged

-----------------------------------------------------------------------------
\* What the task does by itself; MessageCallback depends on the broker.
MqttStep ==
    \/ TimeSync \/ Connect \/ SubscribeFailed
    \/ Subscribed \/ Announce \/ RequestInitialPublish \/ Drain \/ Published
    \/ PublishFailed \/ WaitMessage \/ ClearConnected \/ CloseSession
    \/ CountFailure \/ RetryDelay

-----------------------------------------------------------------------------
(* Properties *)

MqttLabels == {"offline", "connect", "subscribe", "announce", "request", "drain",
               "publish", "wait", "exit", "close", "error", "retry"}

\* The types of the task's variables and of the event bits.
MqttTypeOK ==
    /\ mpc \in MqttLabels
    /\ sntp \in {"off", "started", "synced"}
    /\ once \in BOOLEAN
    /\ failed \in 0 .. FastRetryFailures
    /\ interval \in {"fast", "slow"}
    /\ received \in 0 .. MaxMessages
    /\ owed \subseteq Devices
    /\ lost \subseteq Devices
    /\ events \subseteq EventBits

Connected == {"request", "drain", "publish", "wait"}

\* The bits tell the truth to whoever reads them between any two steps of the
\* task (status_led_tick is written for that): never both connected and in
\* error, connected only while there is a session.
BitsAgree ==
    /\ ~ {"MQTT_CONNECTED", "MQTT_ERROR"} \subseteq events
    /\ "MQTT_CONNECTED" \in events => mpc \in Connected \cup {"exit"}
=============================================================================
