------------------------------ MODULE StatusLed ------------------------------
(***************************************************************************)
(* main/status_led.c: the pattern of the status LED, a function of the     *)
(* event bits, of the publications notified by the MQTT task and of the    *)
(* ticks since.  Its operations are called in any order and at any moment. *)
(* Nobody promises a tick: in this build the call of status_led_tick is    *)
(* commented out (system_loop.c:34) and the LED keeps its start-up state.  *)
(* So the module says what the component does with the calls it gets, and  *)
(* nothing of what must happen in the end.  The caller reads the bits once *)
(* and the lock orders a notification with a tick, which is one action.    *)
(***************************************************************************)
EXTENDS Naturals, Sequences

VARIABLES raised,            \* the event bits that are set, of those it reads
          publishRequested,  \* s_publish_requested
          publishTicks,      \* s_publish_ticks
          condition, phase,  \* s_condition, s_condition_phase
          led,               \* s_led_state
          \* history: what the LED did since the condition is the one it shows;
          \* a publication was notified that no flash in progress can show
          shown, unseen

led_c == <<publishRequested, publishTicks, condition, phase, led>>
ledVars == <<led_c, raised, shown, unseen>>

\* In the order of the tick; half of a period of each, in ticks.
Errors == <<"WIFI_ERROR", "MQTT_ERROR", "THERMOMETER_ERROR">>
HalfPeriod(error) == CASE error = "WIFI_ERROR" -> 1 [] error = "MQTT_ERROR" -> 3
                       [] error = "THERMOMETER_ERROR" -> 6
FlashTicks == 4
ErrorBits == {Errors[i] : i \in 1 .. 3}

\* app_main: status_led_init, status_led_show_startup.
LedInit == /\ raised \in SUBSET ErrorBits
           /\ publishRequested = FALSE /\ publishTicks = 0
           /\ condition = "none" /\ phase = 0
           /\ led = "on"
           /\ shown = << >> /\ unseen = FALSE

-----------------------------------------------------------------------------
\* status_led_notify_publish
NotifyPublish == /\ publishRequested' = TRUE
                 /\ unseen' = (unseen \/ publishTicks = 0)
                 /\ UNCHANGED <<raised, publishTicks, condition, phase, led, shown>>

\* The tasks set and clear error bits; the first initial publication asked for
\* sets INITIAL_COMPLETE, which nothing clears.
ChangeBits == /\ raised' \in {b \in SUBSET (ErrorBits \cup {"INITIAL_COMPLETE"}) :
                              "INITIAL_COMPLETE" \in raised => "INITIAL_COMPLETE" \in b}
              /\ UNCHANGED <<led_c, shown, unseen>>

\* The first error of the order, or "none".
Condition == IF raised \cap ErrorBits = {} THEN "none"
             ELSE Errors[CHOOSE i \in 1 .. 3 : /\ Errors[i] \in raised
                                               /\ \A j \in 1 .. i - 1 : Errors[j] \notin raised]

Lit(value) == IF value THEN "on" ELSE "off"

\* A mutant of TickStarting: the request is taken before the start is tested.
TickStartingTaking == /\ "INITIAL_COMPLETE" \notin raised
                      /\ led' = "on" /\ publishRequested' = FALSE
                      /\ UNCHANGED <<publishTicks, condition, phase, shown, unseen>>

TickStarting == /\ "INITIAL_COMPLETE" \notin raised
                /\ led' = "on"
                /\ UNCHANGED <<publishRequested, publishTicks, condition, phase, shown, unseen>>

\* A request that arrives during a flash is taken and shown by that flash.
TicksLeft == IF publishTicks = 0 /\ publishRequested THEN FlashTicks ELSE publishTicks

TickFlash == /\ "INITIAL_COMPLETE" \in raised /\ TicksLeft > 0
             /\ publishRequested' = FALSE
             /\ led' = Lit(TicksLeft % 2 = 0)
             /\ publishTicks' = TicksLeft - 1
             /\ unseen' = (unseen /\ publishTicks # 0)
             /\ UNCHANGED <<condition, phase, shown>>

TickQuiet == /\ "INITIAL_COMPLETE" \in raised /\ TicksLeft = 0
             /\ Condition = "none"
             /\ condition' = "none" /\ phase' = 0
             /\ led' = "off"
             /\ shown' = << >>
             /\ UNCHANGED <<publishRequested, publishTicks, unseen>>

\* What the LED showed since the condition came up, begun again every two periods.
Remember(value) ==
    shown' = IF Condition = condition /\ Len(shown) < 4 * HalfPeriod(Condition)
             THEN Append(shown, value) ELSE <<value>>

\* A mutant of TickError: a new condition goes on from the phase of the last one.
TickErrorGoingOn ==
    /\ "INITIAL_COMPLETE" \in raised /\ TicksLeft = 0
    /\ Condition # "none"
    /\ condition' = Condition
    /\ led' = Lit(phase < HalfPeriod(Condition))
    /\ phase' = (phase + 1) % (2 * HalfPeriod(Condition))
    /\ Remember(led')
    /\ UNCHANGED <<publishRequested, publishTicks, unseen>>

TickError == /\ "INITIAL_COMPLETE" \in raised /\ TicksLeft = 0
             /\ Condition # "none"
             /\ condition' = Condition
             /\ LET now == IF Condition = condition THEN phase ELSE 0
                IN  /\ led' = Lit(now < HalfPeriod(Condition))
                    /\ phase' = (now + 1) % (2 * HalfPeriod(Condition))
             /\ Remember(led')
             /\ UNCHANGED <<publishRequested, publishTicks, unseen>>

\* status_led_tick
Tick == /\ TickStarting \/ TickFlash \/ TickQuiet \/ TickError
        /\ UNCHANGED raised

LedNext == Tick \/ NotifyPublish \/ ChangeBits
LedSpec == LedInit /\ [][LedNext]_ledVars

-----------------------------------------------------------------------------
(* Properties *)

\* The types of the variables.
LedTypeOK == /\ raised \subseteq ErrorBits \cup {"INITIAL_COMPLETE"}
             /\ publishRequested \in BOOLEAN /\ publishTicks \in 0 .. FlashTicks - 1
             /\ condition \in ErrorBits \cup {"none"}
             /\ phase \in 0 .. 2 * (IF condition = "none" THEN 1 ELSE HalfPeriod(condition)) - 1
             /\ led \in {"on", "off"}
             /\ shown \in Seq({"on", "off"}) /\ unseen \in BOOLEAN

\* The pattern of each error can be told from the others: it begins lit when the
\* error comes up, and alternates with its own period, whichever errors came
\* before, whatever flashes interrupt it and whatever hides it for a while.
PatternShown ==
    \A i \in 1 .. Len(shown) :
      shown[i] = Lit((i - 1) % (2 * HalfPeriod(condition)) < HalfPeriod(condition))

\* No notification is lost: until a flash has begun for it, the request stands,
\* whether it came before the start was complete or between two ticks.
RequestStands == unseen => publishRequested
=============================================================================
