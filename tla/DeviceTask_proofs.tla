-------------------------- MODULE DeviceTask_proofs --------------------------
(***************************************************************************)
(* Proofs about DeviceTask: no press counts twice, no press made during an *)
(* update counts at all, and the lights tell the state.                    *)
(*                                                                         *)
(* None of the three is inductive.  Inv adds what a sample of the button   *)
(* is worth at each place of the round, and which task may still write the *)
(* LED in which state.                                                     *)
(***************************************************************************)
EXTENDS DeviceTask, TLAPS

Updating == {"append", "failed", "analysis", "analyzed", "fatal"}

TypeInv ==
  /\ button \in {0, 1} /\ previous \in {0, 1} /\ current \in {0, 1}
  /\ presses \in Nat /\ scans \in Nat /\ toggles \in Nat
  /\ wait \in Nat /\ inGuard \in Nat /\ timer \in Nat

(* Where the loop may be in which state; only some places are delays.      *)
Places ==
  /\ state \in {"idle", "scanning", "updating", "guard"}
  /\ at \in {"top", "debounce", "sample", "act", "end", "lit", "gaveUp"} \cup Updating
  /\ at \in {"debounce", "lit"} => state = "idle"
  /\ at = "gaveUp" => state = "scanning"
  /\ state = "updating" <=> at \in Updating
  /\ at \in {"sample", "act", "end", "analyzed"} => wait = 0

(* The presses that are spoken for: a scan spends one, a toggle two, a tap *)
(* that is remembered and an edge that is being debounced will.            *)
Spent == scans + 2 * toggles + (IF pending THEN 1 ELSE 0) + (IF at = "debounce" THEN 1 ELSE 0)

(* The sample behind which the next edge will be looked for.               *)
Sampled == IF at = "top" THEN previous ELSE current

(* Not before the second sample has it a meaning for the next round.       *)
Sampling == at \in {"debounce", "sample", "lit"}

PressesPay ==
  /\ Spent <= presses
  /\ ~Sampling /\ Sampled = 1 /\ button = 0 => Spent < presses

(* A press made during an update and held since is no edge any more when   *)
(* the loop looks for one: the guard lasts a round with a fresh sample.    *)
HeldIsOld ==
  /\ at = "debounce" => pressedIn # "updating"
  /\ pressedIn = "updating" /\ button = 0 =>
       /\ state \in {"idle", "scanning"} /\ ~Sampling => Sampled = 0
       /\ state = "guard" /\ at = "act" /\ inGuard > 0 => current = 0

(* The timer's callback and the state.                                      *)
BeatOver ==
  /\ at \notin {"analysis"} => timer = 0
  /\ state \in {"idle", "scanning"} => callback = "none"
  /\ at \in {"append", "failed"} => callback = "none"
  /\ state = "guard" /\ inGuard > 0 => callback = "none"

LightsShow ==
  /\ state = "idle" => ~marker /\ (at # "lit" => led = "off")
  /\ state = "scanning" /\ at # "gaveUp" => led = "blue" /\ marker
  /\ state \in {"updating", "guard"} \/ at = "gaveUp" => ~marker

IInv == TypeInv /\ Places /\ PressesPay /\ HeldIsOld /\ BeatOver /\ LightsShow

-----------------------------------------------------------------------------
(* A device that has just been switched on.                                 *)
LEMMA InitIInv == Init => IInv
<1> SUFFICES ASSUME Init PROVE IInv
  OBVIOUS
<1> USE DEF Init, Updating, Sampling, Sampled, Spent
<1>1. TypeInv
  BY DEF TypeInv
<1>2. Places
  BY DEF Places
<1>3. PressesPay
  BY DEF PressesPay
<1>4. HeldIsOld
  BY DEF HeldIsOld
<1>5. BeatOver
  BY DEF BeatOver
<1>6. LightsShow
  BY DEF LightsShow
<1> QED
  BY <1>1, <1>2, <1>3, <1>4, <1>5, <1>6 DEF IInv

(* Every step of the hand, the loop, the timer's callback and the clock     *)
(* preserves the invariant.                                                 *)
LEMMA StepIInv == IInv /\ [Next]_vars => IInv'
<1> SUFFICES ASSUME IInv, [Next]_vars PROVE IInv'
  OBVIOUS
<1>0. /\ Debounce \in Nat /\ Feedback \in Nat /\ Analysis \in Nat
      /\ Heartbeat \in Nat /\ Guard \in Nat \ {0}
  BY DeviceAssumption
<1> USE <1>0
    DEF IInv, TypeInv, Places, PressesPay, HeldIsOld, BeatOver, LightsShow, Spent, Sampled,
        Sampling, Updating, Go, hand, gesture, lights, beat
<1>1. CASE Press
  BY <1>1 DEF Press
<1>2. CASE Release
  BY <1>2 DEF Release
<1>3. CASE SampleEdge
  BY <1>3 DEF SampleEdge
<1>4. CASE Bounced
  BY <1>4 DEF Bounced
<1>5. CASE FirstTap
  BY <1>5 DEF FirstTap
<1>6. CASE SecondTap
  <2>1. TypeInv'
    BY <1>6 DEF SecondTap, IsSecondTap
  <2>2. Places'
    BY <1>6 DEF SecondTap, IsSecondTap
  <2>3. PressesPay'
    BY <1>6 DEF SecondTap, IsSecondTap
  <2>4. HeldIsOld'
    BY <1>6 DEF SecondTap, IsSecondTap
  <2>5. BeatOver'
    BY <1>6 DEF SecondTap, IsSecondTap
  <2>6. LightsShow'
    BY <1>6 DEF SecondTap, IsSecondTap
  <2> QED
    BY <2>1, <2>2, <2>3, <2>4, <2>5, <2>6 DEF IInv
<1>7. CASE FeedbackEnds
  BY <1>7 DEF FeedbackEnds, status_idle, status_led_off
<1>8. CASE SampleLevel
  BY <1>8 DEF SampleLevel
<1>9. CASE StartScan
  <2>1. TypeInv'
    BY <1>9 DEF StartScan, Expired, status_scanning
  <2>2. Places'
    BY <1>9 DEF StartScan, Expired, status_scanning
  <2>3. PressesPay'
    BY <1>9 DEF StartScan, Expired, status_scanning
  <2>4. HeldIsOld'
    BY <1>9 DEF StartScan, Expired, status_scanning
  <2>5. BeatOver'
    BY <1>9 DEF StartScan, Expired, status_scanning
  <2>6. LightsShow'
    BY <1>9 DEF StartScan, Expired, status_scanning
  <2> QED
    BY <2>1, <2>2, <2>3, <2>4, <2>5, <2>6 DEF IInv
<1>10. CASE NothingToDo
  BY <1>10 DEF NothingToDo
<1>11. CASE EndRound
  BY <1>11 DEF EndRound
<1>12. CASE ScanGivesUp
  <2>1. TypeInv'
    BY <1>12 DEF ScanGivesUp, status_timeout, status_error
  <2>2. Places'
    BY <1>12 DEF ScanGivesUp, status_timeout, status_error
  <2>3. PressesPay'
    BY <1>12 DEF ScanGivesUp, status_timeout, status_error
  <2>4. HeldIsOld'
    BY <1>12 DEF ScanGivesUp, status_timeout, status_error
  <2>5. BeatOver'
    BY <1>12 DEF ScanGivesUp, status_timeout, status_error
  <2>6. LightsShow'
    BY <1>12 DEF ScanGivesUp, status_timeout, status_error
  <2> QED
    BY <2>1, <2>2, <2>3, <2>4, <2>5, <2>6 DEF IInv
<1>13. CASE IdleAgain
  BY <1>13 DEF IdleAgain, status_idle, status_led_off
<1>14. CASE Update
  <2>1. TypeInv'
    BY <1>14 DEF Update, status_success
  <2>2. Places'
    BY <1>14 DEF Update, status_success
  <2>3. PressesPay'
    BY <1>14 DEF Update, status_success
  <2>4. HeldIsOld'
    BY <1>14 DEF Update, status_success
  <2>5. BeatOver'
    BY <1>14 DEF Update, status_success
  <2>6. LightsShow'
    BY <1>14 DEF Update, status_success
  <2> QED
    BY <2>1, <2>2, <2>3, <2>4, <2>5, <2>6 DEF IInv
<1>15. CASE AppendFails
  BY <1>15 DEF AppendFails, status_error
<1>16. CASE AnalysisBegins
  <2>1. TypeInv'
    BY <1>16 DEF AnalysisBegins, analyzer_activity_start
  <2>2. Places'
    BY <1>16 DEF AnalysisBegins, analyzer_activity_start
  <2>3. PressesPay'
    BY <1>16 DEF AnalysisBegins, analyzer_activity_start
  <2>4. HeldIsOld'
    BY <1>16 DEF AnalysisBegins, analyzer_activity_start
  <2>5. BeatOver'
    BY <1>16 DEF AnalysisBegins, analyzer_activity_start
  <2>6. LightsShow'
    BY <1>16 DEF AnalysisBegins, analyzer_activity_start
  <2> QED
    BY <2>1, <2>2, <2>3, <2>4, <2>5, <2>6 DEF IInv
<1>17. CASE AnalysisEnds
  BY <1>17 DEF AnalysisEnds, analyzer_activity_stop
<1>18. CASE Updated
  BY <1>18 DEF Updated, status_idle, status_led_off
<1>19. CASE CacheFails
  BY <1>19 DEF CacheFails
<1>20. CASE FatalBlink
  BY <1>20 DEF FatalBlink
<1>21. CASE GuardWaits
  <2>1. TypeInv'
    BY <1>21 DEF GuardWaits, status_idle, status_led_off
  <2>2. Places'
    BY <1>21 DEF GuardWaits, status_idle, status_led_off
  <2>3. PressesPay'
    BY <1>21 DEF GuardWaits, status_idle, status_led_off
  <2>4. HeldIsOld'
    BY <1>21 DEF GuardWaits, status_idle, status_led_off
  <2>5. BeatOver'
    BY <1>21 DEF GuardWaits, status_idle, status_led_off
  <2>6. LightsShow'
    BY <1>21 DEF GuardWaits, status_idle, status_led_off
  <2> QED
    BY <2>1, <2>2, <2>3, <2>4, <2>5, <2>6 DEF IInv
<1>22. CASE CallbackBegins
  <2>1. TypeInv'
    BY <1>22 DEF CallbackBegins
  <2>2. Places'
    BY <1>22 DEF CallbackBegins
  <2>3. PressesPay'
    BY <1>22 DEF CallbackBegins
  <2>4. HeldIsOld'
    BY <1>22 DEF CallbackBegins
  <2>5. BeatOver'
    BY <1>22 DEF CallbackBegins
  <2>6. LightsShow'
    BY <1>22 DEF CallbackBegins
  <2> QED
    BY <2>1, <2>2, <2>3, <2>4, <2>5, <2>6 DEF IInv
<1>23. CASE CallbackEnds
  BY <1>23 DEF CallbackEnds
<1>24. CASE Tick
  BY <1>24 DEF Tick, UpTo, Down
<1>25. CASE UNCHANGED vars
  BY <1>25 DEF vars
<1> QED
  BY <1>1, <1>2, <1>3, <1>4, <1>5, <1>6, <1>7, <1>8, <1>9, <1>10, <1>11, <1>12, <1>13,
         <1>14, <1>15, <1>16, <1>17, <1>18, <1>19, <1>20, <1>21, <1>22, <1>23, <1>24, <1>25
     DEF Next, Loop, Callback

THEOREM Invariant == Spec => []IInv
BY InitIInv, StepIInv, PTL DEF Spec

(* No press of the button counts twice: scans and light toggles are paid    *)
(* for by presses of their own, whatever the samples of the loop missed.    *)
THEOREM ActionsPaidForHolds == Spec => []ActionsPaidFor
<1>1. IInv => ActionsPaidFor
  BY DEF IInv, TypeInv, PressesPay, Spent, ActionsPaidFor
<1> QED
  BY Invariant, <1>1, PTL

(* A press made during an update is never debounced, held or not.           *)
THEOREM UpdatePressIgnoredHolds == Spec => []UpdatePressIgnored
<1>1. IInv => UpdatePressIgnored
  BY DEF IInv, TypeInv, Places, HeldIsOld, UpdatePressIgnored
<1> QED
  BY Invariant, <1>1, PTL

(* The LED and the marker tell IDLE from a scan, and no callback of the     *)
(* heartbeat timer shows its colour in either.                              *)
THEOREM LightsTellStateHolds == Spec => []LightsTellState
<1>1. IInv => LightsTellState
  BY DEF IInv, LightsShow, LightsTellState
<1> QED
  BY Invariant, <1>1, PTL
=============================================================================
