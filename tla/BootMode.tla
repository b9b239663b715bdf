------------------------------ MODULE BootMode ------------------------------
(***************************************************************************)
(* app_main (main/qrtransfer_msc.c): the boot of the device, the gesture   *)
(* on the button that clears the history or changes the operating mode,    *)
(* and what NVS keeps (main/analyzer.c): the mode, and the breadcrumbs of  *)
(* the last analysis, which DEBUG.TXT shows after the next boot.           *)
(*                                                                         *)
(* Power may fail between any two steps.  What is in RAM starts over; what *)
(* NVS and the history ring hold is kept.  One nvs_set_* is atomic and     *)
(* durable when it returns.  How the ring is erased, slot by slot, is      *)
(* FlashStore's subject; how the scanner is found, ScannerLink's.          *)
(***************************************************************************)
EXTENDS Integers

CONSTANTS
  ClearHold,   \* BOOT_CLEAR_MIN_HOLD_MS, in polls of the button
  ToggleHold,  \* BOOT_MODE_TOGGLE_HOLD_MS
  MaxBoots,    \* bound: boots
  MaxMarks     \* bound: breadcrumbs begun

ASSUME BootAssumption ==
  /\ ClearHold \in Nat \ {0} /\ ToggleHold \in Nat /\ ClearHold < ToggleHold
  /\ MaxBoots \in Nat /\ MaxMarks \in Nat

VARIABLES
  nvsMode,   \* NVS "mode": "absent", "normal" or "analyzer"
  diag,      \* NVS: the mark that wrote each of the breadcrumb's fields, 0 none
  history,   \* the ring: "records", "partly" erased, "empty"
  phase,     \* where app_main is
  enabled,   \* s_mode_enabled
  readable,  \* analyzer_mode_init returned ESP_OK
  text,      \* the breadcrumb DEBUG.TXT shows
  action,    \* boot_action
  elapsed,   \* polls that found the button held
  field,     \* the next field a running analyzer_diag_mark sets, 0 none runs
  button,    \* external: the level of the pin, 0 while it is pressed
  before,    \* mode and history when the mode was read
  boots, marks,  \* counted
  done,      \* the newest mark whose last field NVS holds
  failed     \* an nvs_set_* of a mark has failed

breadcrumb == <<diag, marks, done, failed, field>>
keeps == <<nvsMode, history, breadcrumb>>
vars == <<keeps, phase, enabled, readable, text, action, elapsed, button, before, boots>>

Fields == <<"stage", "error", "free", "largest">>
NoDiag == [stage |-> 0, error |-> 0, free |-> 0, largest |-> 0]
NoText == [stage |-> -1, error |-> -1, free |-> -1, largest |-> -1]   \* "NONE"

-----------------------------------------------------------------------------
(* analyzer_mode_init                                                      *)

ModeRead ==
  /\ phase = "mode"
  /\ phase' = "text"
  /\ enabled' = (nvsMode = "analyzer")
  /\ readable' = TRUE
  /\ before' = [enabled |-> enabled', history |-> history]
  /\ UNCHANGED <<keeps, text, action, elapsed, button, boots>>

(* NVS cannot be initialised, opened or read: Normal, for this boot.       *)
ModeUnreadable ==
  /\ phase = "mode"
  /\ phase' = "text"
  /\ enabled' = FALSE
  /\ UNCHANGED <<keeps, readable, text, action, elapsed, button, before, boots>>

(* No free page, or a new version: NVS is erased and initialised again.    *)
NvsErased ==
  /\ phase = "mode"
  /\ nvsMode' = "absent"
  /\ diag' = NoDiag
  /\ done' = 0
  /\ UNCHANGED <<history, phase, enabled, readable, text, action, elapsed, field, button,
                 before, boots, marks, failed>>

(* A field as nvs_get_* leaves it: 0 if it was never set or cannot be read, *)
(* for the result of the call is ignored.                                  *)
Shown == [stage : {diag.stage, 0}, error : {diag.error, 0},
          free : {diag.free, 0}, largest : {diag.largest, 0}]

(* analyzer_diag_format_last, in Analyzer mode.  It shows NONE if nvs_open  *)
(* fails or no stage was ever set; a stage that cannot be read shows as 0. *)
FormatDebugText ==
  /\ phase = "text"
  /\ phase' = "gesture"
  /\ text' \in IF enabled THEN Shown \cup {NoText} ELSE {NoText}
  /\ UNCHANGED <<keeps, enabled, readable, action, elapsed, button, before, boots>>

-----------------------------------------------------------------------------
(* boot_gesture_action                                                     *)

Hand ==
  /\ phase \in {"gesture", "armed"}
  /\ button' = 1 - button
  /\ UNCHANGED <<keeps, phase, enabled, readable, text, action, elapsed, before, boots>>

(* The button is still held after ten milliseconds more.                   *)
HoldOn ==
  /\ phase = "gesture" /\ button = 0 /\ elapsed < ToggleHold
  /\ elapsed' = elapsed + 1
  /\ UNCHANGED <<keeps, phase, enabled, readable, text, action, button, before, boots>>

(* Held for ten seconds: one hold is one toggle, so wait for the release.  *)
Arm ==
  /\ phase = "gesture" /\ button = 0 /\ elapsed = ToggleHold
  /\ phase' = "armed"
  /\ UNCHANGED <<keeps, enabled, readable, text, action, elapsed, button, before, boots>>

Verdict == IF elapsed >= ToggleHold THEN "toggle"
           ELSE IF elapsed >= ClearHold THEN "clear" ELSE "none"

LetGoUnlessArmed ==                  \* faulty: the inner loop has no exit
  /\ phase = "gesture" /\ button = 1
  /\ action' = Verdict
  /\ phase' = IF action' = "toggle" THEN "toggle" ELSE "flash"
  /\ UNCHANGED <<keeps, enabled, readable, text, elapsed, button, before, boots>>

LetGo ==
  /\ phase \in {"gesture", "armed"} /\ button = 1
  /\ action' = Verdict
  /\ phase' = IF action' = "toggle" THEN "toggle" ELSE "flash"
  /\ UNCHANGED <<keeps, enabled, readable, text, elapsed, button, before, boots>>

-----------------------------------------------------------------------------
(* analyzer_mode_toggle, for the toggle gesture and for the clear gesture. *)

SaveMode ==
  /\ \/ phase = "toggle" /\ phase' = "toggleSaved"
     \/ phase = "clear" /\ phase' = "clearSaved"
  /\ nvsMode' = IF enabled THEN "normal" ELSE "analyzer"
  /\ UNCHANGED <<history, breadcrumb, enabled, readable, text, action, elapsed, button,
                 before, boots>>

ModeKeptInRam ==                     \* faulty: s_mode_enabled is not assigned
  /\ \/ phase = "toggleSaved" /\ phase' = "flash"
     \/ phase = "clearSaved" /\ phase' = "erase"
  /\ UNCHANGED <<keeps, enabled, readable, text, action, elapsed, button, before, boots>>

(* The mode changes in RAM once NVS has committed it.                      *)
ModeChanged ==
  /\ \/ phase = "toggleSaved" /\ phase' = "flash"
     \/ phase = "clearSaved" /\ phase' = "erase"
  /\ enabled' = ~enabled
  /\ UNCHANGED <<keeps, readable, text, action, elapsed, button, before, boots>>

-----------------------------------------------------------------------------
(* The history ring.                                                       *)

FlashReadyErasing ==                 \* faulty: erases first, in Analyzer mode too
  /\ phase = "flash"
  /\ phase' = IF action = "clear" THEN "erase" ELSE "disk"
  /\ UNCHANGED <<keeps, enabled, readable, text, action, elapsed, button, before, boots>>

(* flash_store_init succeeded: a clear leaves Analyzer mode first.         *)
FlashReady ==
  /\ phase = "flash"
  /\ phase' = IF action # "clear" THEN "disk" ELSE IF enabled THEN "clear" ELSE "erase"
  /\ UNCHANGED <<keeps, enabled, readable, text, action, elapsed, button, before, boots>>

(* flash_store_reset, sector by sector                                     *)
EraseSome ==
  /\ phase = "erase" /\ history = "records"
  /\ history' = "partly"
  /\ UNCHANGED <<nvsMode, breadcrumb, phase, enabled, readable, text, action, elapsed, button,
                 before, boots>>

EraseDone ==
  /\ phase = "erase"
  /\ history' = "empty"
  /\ phase' = "disk"
  /\ UNCHANGED <<nvsMode, breadcrumb, enabled, readable, text, action, elapsed, button, before,
                 boots>>

(* The virtual disk, the scanner with its protocol format, USB, the task.  *)
GoOn ==
  /\ \/ phase = "disk" /\ phase' = "scanner"
     \/ phase = "scanner" /\ phase' = "usb"
     \/ phase = "usb" /\ phase' = "run"
  /\ UNCHANGED <<keeps, enabled, readable, text, action, elapsed, button, before, boots>>

(* fatal_error_loop: blinking until the power is cut.                      *)
BootFails ==
  /\ phase \in {"toggle", "toggleSaved", "clear", "clearSaved", "flash", "erase", "disk",
                "scanner", "usb"}
  /\ phase' = "fatal"
  /\ UNCHANGED <<keeps, enabled, readable, text, action, elapsed, button, before, boots>>

-----------------------------------------------------------------------------
(* Operation: payloads are stored, and an analysis leaves breadcrumbs.     *)

Store ==
  /\ phase = "run" /\ field = 0
  /\ history' = "records"
  /\ UNCHANGED <<nvsMode, breadcrumb, phase, enabled, readable, text, action, elapsed, button,
                 before, boots>>

(* analyzer_diag_mark: nvs_open succeeds, or the mark is given up.         *)
MarkBegins ==
  /\ phase = "run" /\ enabled /\ field = 0 /\ marks < MaxMarks
  /\ marks' = marks + 1
  /\ field' \in {0, 1}
  /\ UNCHANGED <<nvsMode, diag, done, failed, history, phase, enabled, readable, text, action,
                 elapsed, button, before, boots>>

(* The four fields in the order they are set; done is told by the last.    *)
MarkInOrder(order) ==
  /\ field > 0
  /\ field' = (field + 1) % 5
  /\ \/ /\ diag' = [diag EXCEPT ![order[field]] = marks]
        /\ done' = IF field = 4 THEN marks ELSE done
        /\ UNCHANGED failed
     \/ /\ failed' = TRUE
        /\ UNCHANGED <<diag, done>>
  /\ UNCHANGED <<nvsMode, history, marks, phase, enabled, readable, text, action, elapsed,
                 button, before, boots>>

StageLast ==                         \* faulty: the stage is set last
  MarkInOrder(<<"error", "free", "largest", "stage">>)

MarkSets == MarkInOrder(Fields)

-----------------------------------------------------------------------------
Init ==
  /\ nvsMode \in {"absent", "normal", "analyzer"}
  /\ history \in {"records", "empty"}
  /\ diag = NoDiag /\ done = 0 /\ marks = 0 /\ failed = FALSE
  /\ boots = 1
  /\ phase = "mode" /\ enabled = FALSE /\ readable = FALSE /\ text = NoText
  /\ action = "none" /\ elapsed = 0 /\ field = 0
  /\ button \in {0, 1}
  /\ before = [enabled |-> FALSE, history |-> history]

PowerLoss ==
  /\ boots < MaxBoots
  /\ boots' = boots + 1
  /\ phase' = "mode" /\ enabled' = FALSE /\ readable' = FALSE /\ text' = NoText
  /\ action' = "none" /\ elapsed' = 0 /\ field' = 0
  /\ button' \in {0, 1}
  /\ before' = [enabled |-> FALSE, history |-> history]
  /\ UNCHANGED <<nvsMode, history, diag, done, marks, failed>>

Boot ==
  \/ ModeRead \/ ModeUnreadable \/ NvsErased \/ FormatDebugText
  \/ HoldOn \/ Arm \/ LetGo \/ SaveMode \/ ModeChanged
  \/ FlashReady \/ EraseSome \/ EraseDone \/ GoOn \/ BootFails

Operation == Store \/ MarkBegins \/ MarkSets

Next == Hand \/ Boot \/ Operation \/ PowerLoss

(* The processor goes on; nobody has to press, release or cut the power.   *)
Spec == Init /\ [][Next]_vars /\ WF_vars(Boot)

-----------------------------------------------------------------------------
(* Properties.                                                             *)

(* A boot that mounts the disk has done what the hold at power-on asked    *)
(* for and nothing else, whatever earlier boots left half done: no hold    *)
(* keeps mode and history, three seconds clear the history and return to   *)
(* Normal, ten seconds toggle the mode and keep the history.  RAM and NVS  *)
(* then name the same mode.  (A boot that could not read the mode assumes  *)
(* Normal and promises none of this.)                                      *)
GestureObeyed ==
  phase \in {"disk", "scanner", "usb"} /\ readable =>
    /\ enabled <=> nvsMode = "analyzer"
    /\ elapsed < ClearHold =>
         enabled = before.enabled /\ history = before.history
    /\ elapsed \in ClearHold..ToggleHold - 1 => ~enabled /\ history = "empty"
    /\ elapsed = ToggleHold =>
         enabled = ~before.enabled /\ history = before.history

(* The clear saves Normal mode before it erases (app_main), so that a cut  *)
(* between the two never leaves an erased history in Analyzer mode; and    *)
(* nothing but a hold of three to ten seconds makes a boot erase.          *)
EraseInNormal ==
  [][phase = "erase" /\ history' # history =>
       /\ elapsed \in ClearHold..ToggleHold - 1
       /\ readable => nvsMode # "analyzer"]_vars

(* DEBUG.TXT may mix the fields of several marks, since a cut can end a    *)
(* mark between two of them, but in one way only: of the fields that were  *)
(* read, none is older than one set after it, and the last is that of the  *)
(* newest mark that finished.  So a stage that is shown is that mark's or  *)
(* a later one's.  A field shown as 0 may be one that could not be read.   *)
DebugInOrder ==
  phase \in {"gesture", "disk"} /\ text # NoText /\ ~failed =>
    /\ \A i, j \in 1..4 :
         i < j /\ text[Fields[i]] # 0 => text[Fields[i]] >= text[Fields[j]]
    /\ text.largest \in {0, done}

(* A boot ends, in operation or blinking, once the button is let go.       *)
BootEnds == <>[](button = 1) => <>[](phase \in {"run", "fatal"})
=============================================================================
