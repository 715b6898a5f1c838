---------------------------- MODULE MqttSession ----------------------------
(***************************************************************************)
(* MqttTask against the least that the rest of the program does to it: the *)
(* other tasks take jobs, enqueue jobs and publications, at any time.  No  *)
(* assumption is made on what they publish, so the properties below hold   *)
(* for any device worker.                                                  *)
(*                                                                         *)
(* streak is a history variable: how many attempts in a row have ended     *)
(* without a session, saturating above FastRetryFailures.                  *)
(***************************************************************************)
EXTENDS MqttTask

VARIABLE streak

sessionVars == <<resources, mqtt, streak>>

SessionInit == InitResources /\ InitMqtt /\ streak = 0

\* The device worker takes a job; it or the system loop enqueues something.
OtherTasks == /\ \/ devq # << >> /\ devq' = Tail(devq) /\ UNCHANGED publishing
                 \/ EnqueueDeviceJob(TemperatureJob) /\ UNCHANGED publishing
                 \/ /\ \E d \in Devices : EnqueuePublish([device |-> d, state |-> <<"any">>])
                    /\ UNCHANGED devq
              /\ UNCHANGED <<events, mqtt, streak>>

CountStreak == streak' = IF mpc = "subscribe" /\ mpc' = "announce" THEN 0
                         ELSE IF mpc = "error" /\ ~once /\ streak <= FastRetryFailures
                              THEN streak + 1
                         ELSE streak

SessionNext == \/ MqttStep /\ CountStreak
               \/ MessageCallback /\ UNCHANGED streak
               \/ OtherTasks

SessionSpec == SessionInit /\ [][SessionNext]_sessionVars

\* The pause before the next attempt is the long one exactly when
\* FastRetryFailures attempts in a row have not led to a session: a session
\* that was up, however short, puts the task back on the short pause.
RetryPolicy == mpc = "retry" => (interval = "slow" <=> streak >= FastRetryFailures)
=============================================================================
