----------------------------- MODULE DeviceTask -----------------------------
(***************************************************************************)
(* The loop of device_task (main/qrtransfer_msc.c): the button's gestures, *)
(* the device states they lead through, the scanner's lights, and the      *)
(* status LED, which an esp_timer callback writes as well.                 *)
(*                                                                         *)
(* A tick is one round of the loop (vTaskDelay of 5 ms); the other times   *)
(* are scaled down, debounce below double tap below guard, as they are in  *)
(* the device (50, 250 and 2000 ms).  The task samples the button at       *)
(* two places of a round, so that a level may be stale when it is used,    *)
(* above all behind a scan or an update, which block the round.            *)
(*                                                                         *)
(* What a scan delivers is QrReceiver's subject, what an update does to    *)
(* the disk MassStorage's.  A callback of the timer ends before the next   *)
(* tick: the timer task has a higher priority than the device task.        *)
(***************************************************************************)
EXTENDS Integers

CONSTANTS
  Debounce,      \* BUTTON_DEBOUNCE_MS, in ticks
  DoubleTap,     \* DOUBLE_TAP_MS
  Guard,         \* RECONNECT_GUARD_MS
  Feedback,      \* the LED shows a result
  Analysis,      \* ticks an analysis takes
  Heartbeat,     \* ANALYZER_HEARTBEAT_INTERVAL_US
  MaxPresses     \* bound: presses of the button

ASSUME DeviceAssumption ==
  /\ \A n \in {Debounce, DoubleTap, Guard, Feedback, Analysis, Heartbeat} : n \in Nat \ {0}
  /\ MaxPresses \in Nat

VARIABLES
  button,     \* external: the level of the pin, 0 while it is pressed
  pressedIn,  \* the device state in which it was pressed last
  presses, scans, toggles,  \* counted: presses, scans begun, light toggles
  at,         \* where the loop is
  wait,       \* ticks until its delay is over
  previous,   \* previous_button
  current,    \* current_button
  state,      \* device_state
  pending,    \* tap_pending
  sinceTap,   \* ticks since first_tap_ms, up to DoubleTap + 1
  inGuard,    \* ticks since guard_started_ms, up to Guard
  analyzer,   \* analyzer_mode_enabled()
  fill,       \* fill_light_enabled, which is what the scanner was told
  marker,     \* external: the scanner's positioning light
  led,        \* the colour the LED shows
  timer,      \* analyzer_heartbeat_timer: ticks to the next callback, 0 stopped
  purple,     \* analyzer_progress_purple
  callback    \* the colour a running callback will show, "none"

hand    == <<button, pressedIn, presses>>
gesture == <<pending, sinceTap>>
lights  == <<fill, marker>>
beat    == <<timer, purple, callback>>
vars == <<hand, scans, toggles, at, wait, previous, current, state, gesture, inGuard,
          analyzer, lights, led, beat>>

-----------------------------------------------------------------------------
(* The status LED.                                                          *)

status_led_off   == led' = "off"
status_idle      == status_led_off
status_scanning  == led' = "blue"
status_success   == led' = "green"
status_timeout   == led' = "amber"
status_error     == led' = "red"
status_analyzing == led' = "purple"
status_fill_light_feedback(on) == led' = IF on THEN "cyan" ELSE "white"

(* analyzer_activity_start: a timer that cannot be created leaves the LED. *)
analyzer_activity_start ==
  /\ status_analyzing
  /\ purple' = TRUE
  /\ timer' \in {0, Heartbeat + 1}
  /\ UNCHANGED callback

ActivityStopLeavingTimer ==          \* faulty: no esp_timer_stop
  /\ status_analyzing
  /\ UNCHANGED beat

(* analyzer_activity_stop: a callback that has begun still goes on. *)
analyzer_activity_stop ==
  /\ timer' = 0
  /\ UNCHANGED <<purple, callback>>
  /\ status_analyzing

(* analyzer_heartbeat_timer_cb on the timer's task: it chooses a colour ... *)
CallbackBegins ==
  /\ timer = 1
  /\ callback = "none"
  /\ callback' = IF purple THEN "green" ELSE "purple"
  /\ purple' = ~purple
  /\ timer' = Heartbeat + 1
  /\ UNCHANGED <<hand, scans, toggles, at, wait, previous, current, state, gesture, inGuard,
                 analyzer, lights, led>>

(* ... and shows it. *)
CallbackEnds ==
  /\ callback # "none"
  /\ led' = callback
  /\ callback' = "none"
  /\ UNCHANGED <<hand, scans, toggles, at, wait, previous, current, state, gesture, inGuard,
                 analyzer, lights, timer, purple>>

-----------------------------------------------------------------------------
(* The hand.                                                                *)

Press ==
  /\ button = 1 /\ presses < MaxPresses
  /\ button' = 0 /\ presses' = presses + 1 /\ pressedIn' = state
  /\ UNCHANGED <<scans, toggles, at, wait, previous, current, state, gesture, inGuard,
                 analyzer, lights, led, beat>>

Release ==
  /\ button = 0
  /\ button' = 1
  /\ UNCHANGED <<pressedIn, presses, scans, toggles, at, wait, previous, current, state,
                 gesture, inGuard, analyzer, lights, led, beat>>

-----------------------------------------------------------------------------
(* One round of the loop.                                                   *)

(* The task is at stage s, its delay over, and goes on to t, delaying d ticks. *)
Go(s, t, d) == at = s /\ wait = 0 /\ at' = t /\ wait' = d

(* The first sample of a round: a press is an edge seen in IDLE. *)
SampleEdge ==
  /\ \/ /\ state = "idle" /\ previous = 1 /\ button = 0
        /\ Go("top", "debounce", Debounce)
     \/ /\ ~(state = "idle" /\ previous = 1 /\ button = 0)
        /\ Go("top", "sample", 0)
  /\ current' = button
  /\ UNCHANGED <<hand, scans, toggles, previous, state, gesture, inGuard, analyzer, lights,
                 led, beat>>

Bounced ==
  /\ Go("debounce", "sample", 0)
  /\ button = 1
  /\ UNCHANGED <<hand, scans, toggles, previous, current, state, gesture, inGuard, analyzer,
                 lights, led, beat>>

IsSecondTap == pending /\ sinceTap <= DoubleTap

(* handle_idle_button_press *)
FirstTap ==
  /\ Go("debounce", "sample", 0)
  /\ button = 0
  /\ ~IsSecondTap
  /\ pending' = TRUE /\ sinceTap' = 0
  /\ UNCHANGED <<hand, scans, toggles, previous, current, state, inGuard, analyzer, lights,
                 led, beat>>

SecondTapKept ==                     \* faulty: tap_pending is not cleared
  /\ Go("debounce", "lit", Feedback)
  /\ button = 0
  /\ IsSecondTap
  /\ toggles' = toggles + 1
  /\ fill' = ~fill
  /\ status_fill_light_feedback(fill')
  /\ UNCHANGED <<hand, scans, previous, current, state, gesture, inGuard, analyzer, marker,
                 beat>>

(* The second tap in time: qr_toggle_fill_light. *)
SecondTap ==
  /\ Go("debounce", "lit", Feedback)
  /\ button = 0
  /\ IsSecondTap
  /\ pending' = FALSE
  /\ toggles' = toggles + 1
  /\ fill' = ~fill
  /\ status_fill_light_feedback(fill')
  /\ UNCHANGED <<hand, scans, previous, current, state, sinceTap, inGuard, analyzer, marker,
                 beat>>

FeedbackEnds ==
  /\ Go("lit", "sample", 0)
  /\ status_idle
  /\ UNCHANGED <<hand, scans, toggles, previous, current, state, gesture, inGuard, analyzer,
                 lights, beat>>

(* The second sample: the one previous_button will be. *)
SampleLevel ==
  /\ Go("sample", "act", 0)
  /\ current' = button
  /\ UNCHANGED <<hand, scans, toggles, previous, state, gesture, inGuard, analyzer, lights,
                 led, beat>>

Expired == pending /\ sinceTap > DoubleTap

StartsAfterTwoTaps ==                \* faulty: waits for a second press
  /\ Go("act", "act", 0)
  /\ state = "idle" /\ Expired /\ presses > 1
  /\ pending' = FALSE
  /\ scans' = scans + 1
  /\ marker' = TRUE
  /\ status_scanning
  /\ state' = "scanning"
  /\ UNCHANGED <<hand, toggles, previous, current, sinceTap, inGuard, analyzer, fill, beat>>

(* No second tap came: qr_start_scan. *)
StartScan ==
  /\ Go("act", "act", 0)
  /\ state = "idle" /\ Expired
  /\ pending' = FALSE
  /\ scans' = scans + 1
  /\ marker' = TRUE
  /\ status_scanning
  /\ state' = "scanning"
  /\ UNCHANGED <<hand, toggles, previous, current, sinceTap, inGuard, analyzer, fill, beat>>

NothingToDo ==
  /\ Go("act", "end", 0)
  /\ \/ state = "idle" /\ ~Expired
     \/ state = "scanning"
  /\ UNCHANGED <<hand, scans, toggles, previous, current, state, gesture, inGuard, analyzer,
                 lights, led, beat>>

EndRound ==
  /\ Go("end", "top", 1)
  /\ previous' = current
  /\ UNCHANGED <<hand, scans, toggles, current, state, gesture, inGuard, analyzer, lights,
                 led, beat>>

-----------------------------------------------------------------------------
(* A scan and its update, as far as they hold the loop up.                  *)

(* qr_poll gives up: a timeout, too many bytes, an envelope it rejects.     *)
ScanGivesUp ==
  /\ Go("act", "gaveUp", Feedback)
  /\ state = "scanning"
  /\ marker' = FALSE
  /\ status_timeout \/ status_error
  /\ UNCHANGED <<hand, scans, toggles, previous, current, state, gesture, inGuard, analyzer,
                 fill, beat>>

IdleAgain ==
  /\ Go("gaveUp", "end", 0)
  /\ status_idle
  /\ state' = "idle"
  /\ UNCHANGED <<hand, scans, toggles, previous, current, gesture, inGuard, analyzer, lights,
                 beat>>

(* update_latest_from_qr: the device detaches ... *)
Update ==
  /\ Go("act", "append", 1)
  /\ state = "scanning"
  /\ state' = "updating"
  /\ pending' = FALSE
  /\ marker' = FALSE
  /\ status_success
  /\ UNCHANGED <<hand, scans, toggles, previous, current, sinceTap, inGuard, analyzer, fill,
                 beat>>

(* ... and cannot store the payload, ... *)
AppendFails ==
  /\ Go("append", "failed", Feedback)
  /\ status_error
  /\ UNCHANGED <<hand, scans, toggles, previous, current, state, gesture, inGuard, analyzer,
                 lights, beat>>

(* ... or stores it and lets the analyzer work, ... *)
AnalysisBegins ==
  /\ analyzer
  /\ Go("append", "analysis", Analysis)
  /\ analyzer_activity_start
  /\ UNCHANGED <<hand, scans, toggles, previous, current, state, gesture, inGuard, analyzer,
                 lights>>

AnalysisEnds ==
  /\ Go("analysis", "analyzed", 0)
  /\ analyzer_activity_stop
  /\ UNCHANGED <<hand, scans, toggles, previous, current, state, gesture, inGuard, analyzer,
                 lights>>

UpdatedWithoutGuard ==               \* faulty: IDLE at once
  /\ \/ Go("failed", "act", 0)
     \/ Go("analyzed", "act", 0)
     \/ Go("append", "act", 0) /\ ~analyzer
  /\ status_idle
  /\ state' = "idle"
  /\ UNCHANGED <<hand, scans, toggles, previous, current, gesture, inGuard, analyzer, lights,
                 beat>>

(* ... and it attaches again and guards the host's enumeration.             *)
Updated ==
  /\ \/ Go("failed", "act", 0) /\ status_idle
     \/ Go("analyzed", "act", 0) /\ status_success
     \/ Go("append", "act", 0) /\ ~analyzer /\ UNCHANGED led
  /\ state' = "guard"
  /\ inGuard' = 0
  /\ UNCHANGED <<hand, scans, toggles, previous, current, gesture, analyzer, lights, beat>>

(* No memory for the cache after an analysis: fatal_error_loop.             *)
CacheFails ==
  /\ Go("analyzed", "fatal", 1)
  /\ status_error
  /\ UNCHANGED <<hand, scans, toggles, previous, current, state, gesture, inGuard, analyzer,
                 lights, beat>>

FatalBlink ==
  /\ Go("fatal", "fatal", 1)
  /\ IF led = "red" THEN status_led_off ELSE status_error
  /\ UNCHANGED <<hand, scans, toggles, previous, current, state, gesture, inGuard, analyzer,
                 lights, beat>>

GuardWaits ==
  /\ Go("act", "end", 0)
  /\ state = "guard"
  /\ pending' = FALSE
  /\ IF inGuard >= Guard
       THEN status_idle /\ state' = "idle"
       ELSE UNCHANGED <<led, state>>
  /\ UNCHANGED <<hand, scans, toggles, previous, current, sinceTap, inGuard, analyzer, lights,
                 beat>>

-----------------------------------------------------------------------------
UpTo(n, m) == IF n < m THEN n + 1 ELSE n
Down(n, m) == IF n > m THEN n - 1 ELSE n

Tick ==
  /\ wait > 0
  /\ timer # 1 /\ callback = "none"
  /\ wait' = wait - 1
  /\ timer' = Down(timer, 1)
  /\ sinceTap' = IF pending THEN UpTo(sinceTap, DoubleTap + 1) ELSE sinceTap
  /\ inGuard' = IF state = "guard" THEN UpTo(inGuard, Guard) ELSE inGuard
  /\ UNCHANGED <<hand, scans, toggles, at, previous, current, state, pending, analyzer, lights,
                 led, purple, callback>>

Init ==
  /\ button \in {0, 1} /\ previous = button /\ current = button
  /\ pressedIn = "idle" /\ presses = 0 /\ scans = 0 /\ toggles = 0
  /\ at = "top" /\ wait = 0
  /\ state = "idle" /\ pending = FALSE /\ sinceTap = 0 /\ inGuard = 0
  /\ analyzer \in BOOLEAN
  /\ fill = FALSE /\ marker = FALSE
  /\ led = "off" /\ timer = 0 /\ purple = TRUE /\ callback = "none"

Loop ==
  \/ SampleEdge \/ Bounced \/ FirstTap \/ SecondTap \/ FeedbackEnds
  \/ SampleLevel \/ StartScan \/ NothingToDo \/ EndRound
  \/ ScanGivesUp \/ IdleAgain \/ Update \/ AppendFails \/ AnalysisBegins \/ AnalysisEnds
  \/ Updated \/ CacheFails \/ FatalBlink \/ GuardWaits

Callback == CallbackBegins \/ CallbackEnds

Next == Press \/ Release \/ Loop \/ Callback \/ Tick

(* The tasks are scheduled and time passes; nobody has to press anything.   *)
Spec == Init /\ [][Next]_vars /\ WF_vars(Loop) /\ WF_vars(Callback) /\ WF_vars(Tick)

-----------------------------------------------------------------------------
(* Properties.                                                             *)

(* No press counts twice: every scan is paid for by a press of its own and *)
(* every light toggle by two, whatever the button does while the loop is   *)
(* held up between its two samples.                                        *)
ActionsPaidFor == scans + 2 * toggles <= presses

(* A press made while the disk is being updated has no effect, although    *)
(* previous_button is as old as the scan when the update returns.          *)
UpdatePressIgnored == at = "debounce" => pressedIn # "updating"

(* The lights tell the state: in IDLE the LED is dark and the marker off,  *)
(* during a scan both are on.  No callback of the heartbeat timer shows    *)
(* its colour after the analysis.                                          *)
LightsTellState ==
  at = "top" =>
    /\ state = "idle" => led = "off" /\ ~marker
    /\ state = "scanning" => led = "blue" /\ marker

(* A tap is never forgotten: it starts a scan or, with a second one,       *)
(* toggles the fill light.                                                 *)
TapActs == pending ~> (state = "scanning" \/ at = "lit")
=============================================================================
