---------------------------- MODULE ImageAnalysis ----------------------------
(***************************************************************************)
(* Analyzer mode (main/analyzer.c): the image of one scan travels from the *)
(* scanner's UART through the RAW and BIN areas of the flash partition     *)
(* (main/flash_store.c) into the ZXing and quirc decoders.                 *)
(*                                                                         *)
(* The device task runs analyzer_process_scan_metadata; quirc decodes on   *)
(* a task of its own, which works on memory of the device task (the quirc  *)
(* object, a context and a result on its stack) and reports through a task *)
(* notification.  The device task waits for it DECODE_TASK_TIMEOUT_MS.     *)
(*                                                                         *)
(* Abstractions: an image is the number of the scan it was taken for; a    *)
(* decoder's verdict is a choice; the erase of a header sector, of a data  *)
(* range and the write of a header are one flash step each.  Normal mode   *)
(* does none of this.                                                      *)
(***************************************************************************)
EXTENDS Integers

CONSTANTS
  MaxScans,        \* bound: scans in Analyzer mode, without special faults
  MaxFaultyScans,  \* bound: scans with special faults
  MaxPowerLosses,  \* bound: power failures
  Blank,           \* an erased area
  Partial,         \* an area with some rows programmed
  Garbled,         \* an area programmed again without an erase
  FaultSets        \* the sets of special faults a behaviour may have

ASSUME AnalysisAssumption ==
  /\ MaxScans \in Nat /\ MaxFaultyScans \in Nat /\ MaxPowerLosses \in Nat
  /\ {Blank, Partial, Garbled} \cap Nat = {}
  /\ Blank # Partial /\ Blank # Garbled /\ Partial # Garbled
  /\ FaultSets \subseteq SUBSET {"firstErase", "install", "late"}

VARIABLES
  faults,    \* external, for good: the special faults that may happen
             \* "firstErase": the erase of the RAW header sector may fail
             \* "install": uart_driver_install may fail after the analysis
             \* "late": a decode task may outlast DECODE_TASK_TIMEOUT_MS
  at,        \* where the device task is, "idle" outside the analysis
  scan,      \* the scan being analysed, or the last one
  raw,       \* the RAW area: does its header match, what does it hold
  bin,       \* the BIN area
  uart,      \* the scanner's UART driver is installed
  detected,  \* result->quirc_detected
  decoded,   \* result->quirc_decoded
  passOk,    \* the last quirc pass returned ESP_OK
  tasks,     \* the decode tasks that have not notified yet
  live,      \* the quirc objects that are allocated
  notified,  \* the device task's notification value
  json,      \* s_json: the scan it reports, 0 when there is none
  losses     \* number of power failures

imageAreas == <<raw, bin>>
quircState == <<detected, decoded, passOk, tasks, live, notified>>
env    == <<faults, losses>>
iaVars == <<at, scan, imageAreas, uart, quircState, json, env>>

Passes == 1..3                       \* 320x240, 480x360, native crop
LastScan == IF faults = {} THEN MaxScans ELSE MaxFaultyScans
DecodeId == (1..LastScan) \X Passes

(* One step of the device task, from stage s to stage t. *)
Go(s, t) == at = s /\ at' = t

(* analyze_image returns: the report is written all the same. *)
Abandon(s) == Go(s, "identity")

-----------------------------------------------------------------------------
(* analyzer_process_scan_metadata begins; the image record is cleared. *)
Start ==
  /\ Go("idle", "eraseRawHeader")
  /\ scan < LastScan
  /\ scan' = scan + 1
  /\ json' = 0
  /\ detected' = FALSE /\ decoded' = FALSE /\ passOk' = FALSE
  /\ UNCHANGED <<imageAreas, uart, tasks, live, notified, env>>

EraseRawHeaderNothing ==             \* faulty: the erase starts at the image
  /\ Go("eraseRawHeader", "eraseRaw")
  /\ UNCHANGED <<scan, imageAreas, uart, quircState, json, env>>

(* flash_store_raw_begin erases all reserved sectors, in address order.    *)
EraseRawHeader ==
  /\ Go("eraseRawHeader", "eraseRaw")
  /\ raw' = [raw EXCEPT !.valid = FALSE]
  /\ UNCHANGED <<scan, bin, uart, quircState, json, env>>

EraseRaw ==
  /\ Go("eraseRaw", "eraseBin")
  /\ raw' = [raw EXCEPT !.image = Blank]
  /\ UNCHANGED <<scan, bin, uart, quircState, json, env>>

EraseBinNothing ==                   \* faulty: only the RAW sectors are erased
  /\ Go("eraseBin", "request")
  /\ UNCHANGED <<scan, imageAreas, uart, quircState, json, env>>

EraseBin ==
  /\ Go("eraseBin", "request")
  /\ bin' = [valid |-> FALSE, image |-> Blank]
  /\ UNCHANGED <<scan, raw, uart, quircState, json, env>>

EraseFails ==
  /\ at = "eraseRawHeader" => "firstErase" \in faults
  /\ \E s \in {"eraseRawHeader", "eraseRaw", "eraseBin"} : Abandon(s)
  /\ UNCHANGED <<scan, imageAreas, uart, quircState, json, env>>

(* NOR flash programs erased bytes only. *)
Begun(image)       == IF image = Blank THEN Partial ELSE Garbled
Filled(image, new) == IF image = Partial THEN new ELSE image

CommitRawFirst ==                    \* faulty: the header before the rows
  /\ Go("request", "rows")
  /\ raw' = [raw EXCEPT !.valid = TRUE]
  /\ UNCHANGED <<scan, bin, uart, quircState, json, env>>

(* analyzer_capture_raw_only: the scanner announces a 640x480 GRAY8 image, *)
(* the rows go to the flash as they arrive, the header goes last.          *)
Request ==
  /\ Go("request", "rows")
  /\ UNCHANGED <<scan, imageAreas, uart, quircState, json, env>>

FirstRows ==
  /\ Go("rows", "lastRows")
  /\ raw' = [raw EXCEPT !.image = Begun(@)]
  /\ UNCHANGED <<scan, bin, uart, quircState, json, env>>

LastRows ==
  /\ Go("lastRows", "commitRaw")
  /\ raw' = [raw EXCEPT !.image = Filled(@, scan)]
  /\ UNCHANGED <<scan, bin, uart, quircState, json, env>>

CommitRaw ==
  /\ Go("commitRaw", "otsu")
  /\ raw' = [raw EXCEPT !.valid = TRUE]
  /\ UNCHANGED <<scan, bin, uart, quircState, json, env>>

(* No or another image offered, a silent line, no memory, a failed write. *)
CaptureFails ==
  /\ \E s \in {"request", "rows", "lastRows", "commitRaw"} : Abandon(s)
  /\ UNCHANGED <<scan, imageAreas, uart, quircState, json, env>>

(* flash_store_raw_available, which flash_store_raw_read asks.             *)
RawAvailable == raw.valid

(* analyzer_binary_probe relies on raw_begin for the erase of the BIN area. *)
OtsuFirstRows ==
  /\ Go("otsu", "otsuLastRows")
  /\ RawAvailable
  /\ bin' = [bin EXCEPT !.image = Begun(@)]
  /\ UNCHANGED <<scan, raw, uart, quircState, json, env>>

OtsuLastRows ==
  /\ Go("otsuLastRows", "otsuCommit")
  /\ bin' = [bin EXCEPT !.image = Filled(@, raw.image)]
  /\ UNCHANGED <<scan, raw, uart, quircState, json, env>>

OtsuCommit ==
  /\ Go("otsuCommit", "release")
  /\ bin' = [bin EXCEPT !.valid = TRUE]
  /\ UNCHANGED <<scan, raw, uart, quircState, json, env>>

(* A flash call failed; analyze_image goes on. *)
OtsuFails ==
  /\ \E s \in {"otsu", "otsuLastRows", "otsuCommit"} : Go(s, "release")
  /\ UNCHANGED <<scan, imageAreas, uart, quircState, json, env>>

(* uart_driver_delete makes room for the decoders' images. *)
ReleaseUart ==
  /\ \/ Go("release", "zxing") /\ uart' = FALSE
     \/ Abandon("release") /\ UNCHANGED uart
  /\ UNCHANGED <<scan, imageAreas, quircState, json, env>>

(* analyzer_zxing_packed_probe reports, then the hybrid binarizer reads RAW *)
(* and starts over in the BIN area (flash_store_binary_begin).              *)
ZxingOtsu ==
  /\ Go("zxing", "hybrid")
  /\ UNCHANGED <<scan, imageAreas, uart, quircState, json, env>>

HybridEraseHeader ==
  /\ Go("hybrid", "hybridErase")
  /\ bin' = [bin EXCEPT !.valid = FALSE]
  /\ UNCHANGED <<scan, raw, uart, quircState, json, env>>

HybridErase ==
  /\ Go("hybridErase", "hybridRows")
  /\ bin' = [bin EXCEPT !.image = Blank]
  /\ UNCHANGED <<scan, raw, uart, quircState, json, env>>

HybridFirstRows ==
  /\ Go("hybridRows", "hybridLastRows")
  /\ bin' = [bin EXCEPT !.image = Begun(@)]
  /\ UNCHANGED <<scan, raw, uart, quircState, json, env>>

HybridLastRows ==
  /\ Go("hybridLastRows", "hybridCommit")
  /\ bin' = [bin EXCEPT !.image = Filled(@, raw.image)]
  /\ UNCHANGED <<scan, raw, uart, quircState, json, env>>

HybridCommit ==
  /\ Go("hybridCommit", "zxingHybrid")
  /\ bin' = [bin EXCEPT !.valid = TRUE]
  /\ UNCHANGED <<scan, raw, uart, quircState, json, env>>

HybridFails ==
  /\ \E s \in {"hybrid", "hybridErase", "hybridRows", "hybridLastRows", "hybridCommit"} :
       Go(s, "pass1")
  /\ UNCHANGED <<scan, imageAreas, uart, quircState, json, env>>

ZxingHybrid ==
  /\ Go("zxingHybrid", "pass1")
  /\ UNCHANGED <<scan, imageAreas, uart, quircState, json, env>>

-----------------------------------------------------------------------------
(* The quirc ladder: run_quirc_flash_pass for passes 1 and 2, and           *)
(* run_native_crop_decode, which asks the scanner for the image once more.  *)

PassStage(p) == IF p = 3 THEN "crop" ELSE IF p = 2 THEN "pass2" ELSE "pass1"
FindStage(p) == IF p = 3 THEN "find3" ELSE IF p = 2 THEN "find2" ELSE "find1"
WaitStage(p) == IF p = 3 THEN "wait3" ELSE IF p = 2 THEN "wait2" ELSE "wait1"

(* The pass returned with verdict ok: leave the ladder, or clear the flags  *)
(* and climb.                                                               *)
AfterPass(p, ok, found) ==
  /\ passOk' = ok
  /\ IF p = 1 /\ ~ok
       THEN at' = "pass2" /\ detected' = FALSE /\ decoded' = FALSE
       ELSE /\ at' = IF p = 1 THEN "reinstall1" ELSE IF p = 2 THEN "reinstall2" ELSE "identity"
            /\ detected' = found
            /\ UNCHANGED decoded

(* quirc_new: the pass has a quirc object. *)
Allocate(p) ==
  /\ Go(PassStage(p), FindStage(p))
  /\ live' = live \cup {<<scan, p>>}
  /\ UNCHANGED <<scan, imageAreas, uart, detected, decoded, passOk, tasks, notified, json, env>>

(* No memory for it, or for the crop of the symbol found. *)
NoQuirc(p) ==
  /\ at = PassStage(p)
  /\ AfterPass(p, FALSE, detected)
  /\ UNCHANGED <<scan, imageAreas, uart, tasks, live, notified, json, env>>

(* Symbols were found: the decode task gets the quirc object to work on.    *)
StartDecode(p) ==
  /\ Go(FindStage(p), WaitStage(p))
  /\ p # 3 => RawAvailable
  /\ detected' = TRUE
  /\ tasks' = tasks \cup {<<scan, p>>}
  /\ UNCHANGED <<scan, imageAreas, uart, decoded, passOk, live, notified, json, env>>

PassFailsLeaking(p) ==               \* faulty: no quirc_destroy on failure
  /\ at = FindStage(p)
  /\ \E found \in BOOLEAN : AfterPass(p, FALSE, found \/ p = 3)
  /\ UNCHANGED <<scan, imageAreas, uart, tasks, live, notified, json, env>>

(* No memory for its image, no rows, no symbol, or no task: quirc_destroy   *)
(* on each of these paths.                                                  *)
PassFails(p) ==
  /\ at = FindStage(p)
  /\ live' = live \ {<<scan, p>>}
  /\ \E found \in BOOLEAN : AfterPass(p, FALSE, found \/ p = 3)
  /\ UNCHANGED <<scan, imageAreas, uart, tasks, notified, json, env>>

WaitEndsPeeking(p) ==                \* faulty: the notification is not cleared
  /\ at = WaitStage(p)
  /\ notified > 0
  /\ live' = live \ {<<scan, p>>}
  /\ AfterPass(p, decoded, TRUE)
  /\ UNCHANGED <<scan, imageAreas, uart, tasks, notified, json, env>>

(* ulTaskNotifyTake returned a notification: any, from whichever task.      *)
WaitEnds(p) ==
  /\ at = WaitStage(p)
  /\ notified > 0
  /\ notified' = 0
  /\ live' = live \ {<<scan, p>>}
  /\ AfterPass(p, decoded, TRUE)
  /\ UNCHANGED <<scan, imageAreas, uart, tasks, json, env>>

WaitTimesOutNever(p) ==              \* faulty: portMAX_DELAY
  /\ at = WaitStage(p)
  /\ notified = 0
  /\ UNCHANGED iaVars

(* It timed out: the quirc object is left to the task, for ever. *)
WaitTimesOut(p) ==
  /\ "late" \in faults
  /\ at = WaitStage(p)
  /\ notified = 0
  /\ AfterPass(p, FALSE, TRUE)
  /\ UNCHANGED <<scan, imageAreas, uart, tasks, live, notified, json, env>>

(* The device task still waits for decode task d. *)
Awaited(d) == \E p \in Passes : d = <<scan, p>> /\ at = WaitStage(p)

(* decode_task: extract and decode the symbols, then notify.  When nobody   *)
(* waits any more its context is gone from the stack: what it still finds   *)
(* there may make it notify, or not.                                        *)
DecodeTaskEnds(d) ==
  /\ d \in tasks
  /\ tasks' = tasks \ {d}
  /\ notified' = notified + 1 \/ (~Awaited(d) /\ UNCHANGED notified)
  /\ UNCHANGED <<at, scan, imageAreas, uart, detected, passOk, live, json, env>>

(* No memory for quirc_code, or for quirc_data, or no symbol is readable.   *)
DecodeTaskFails(d) == DecodeTaskEnds(d) /\ UNCHANGED decoded

Decodes(d) == DecodeTaskEnds(d) /\ decoded' = TRUE

DecodeTask(d) == DecodeTaskFails(d) \/ Decodes(d)

(* analyzer_uart_install after the ladder.  Its error is ignored after a    *)
(* decode in pass 1 and ends the analysis after pass 2.                     *)
ReinstallAfterPass1Skipped ==        \* faulty: returns without the install
  /\ Go("reinstall1", "identity")
  /\ UNCHANGED <<scan, imageAreas, uart, quircState, json, env>>

Installs == uart' = TRUE \/ ("install" \in faults /\ UNCHANGED uart)

ReinstallAfterPass1 ==
  /\ Go("reinstall1", "identity")
  /\ Installs
  /\ UNCHANGED <<scan, imageAreas, quircState, json, env>>

ReinstallAfterPass2 ==
  /\ at = "reinstall2"
  /\ Installs
  /\ at' = IF uart' /\ ~passOk /\ detected THEN "crop" ELSE "identity"
  /\ UNCHANGED <<scan, imageAreas, quircState, json, env>>

-----------------------------------------------------------------------------
(* scanner_identity_query, if there is memory for its text. *)
Identity ==
  /\ \/ Go("identity", "report")
     \/ Go("identity", "idle")
  /\ UNCHANGED <<scan, imageAreas, uart, quircState, json, env>>

(* No memory for the report, or it cannot be formatted. *)
ReportFails ==
  /\ Go("report", "idle")
  /\ json' = 0
  /\ UNCHANGED <<scan, imageAreas, uart, quircState, env>>

(* The JSON report, or a short one in its place if it is too long. *)
Report ==
  /\ Go("report", "idle")
  /\ json' = scan
  /\ UNCHANGED <<scan, imageAreas, uart, quircState, env>>

(* Power is lost; the next boot installs the UART and has no report. *)
LosePower ==
  /\ losses < MaxPowerLosses
  /\ losses' = losses + 1
  /\ at' = "idle"
  /\ uart' = TRUE
  /\ detected' = FALSE /\ decoded' = FALSE /\ passOk' = FALSE
  /\ tasks' = {} /\ live' = {} /\ notified' = 0
  /\ json' = 0
  /\ UNCHANGED <<faults, scan, imageAreas>>

Init ==
  /\ at = "idle" /\ scan = 0
  /\ raw = [valid |-> FALSE, image |-> Blank]
  /\ bin = [valid |-> FALSE, image |-> Blank]
  /\ uart = TRUE
  /\ detected = FALSE /\ decoded = FALSE /\ passOk = FALSE
  /\ tasks = {} /\ live = {} /\ notified = 0
  /\ json = 0 /\ losses = 0
  /\ faults \in FaultSets

Capture ==
  \/ EraseRawHeader \/ EraseRaw \/ EraseBin \/ EraseFails
  \/ Request \/ FirstRows \/ LastRows \/ CommitRaw \/ CaptureFails

Binarize ==
  \/ OtsuFirstRows \/ OtsuLastRows \/ OtsuCommit \/ OtsuFails
  \/ HybridEraseHeader \/ HybridErase \/ HybridFirstRows \/ HybridLastRows
  \/ HybridCommit \/ HybridFails

Ladder ==
  \E p \in Passes :
    Allocate(p) \/ NoQuirc(p) \/ StartDecode(p) \/ PassFails(p) \/ WaitEnds(p) \/ WaitTimesOut(p)

DeviceTask ==
  \/ Capture \/ Binarize \/ ReleaseUart \/ ZxingOtsu \/ ZxingHybrid
  \/ Ladder \/ ReinstallAfterPass1 \/ ReinstallAfterPass2 \/ Identity \/ Report \/ ReportFails

Next ==
  \/ Start \/ DeviceTask
  \/ \E d \in DecodeId : DecodeTask(d)
  \/ LosePower

InTime == "late" \notin faults

(* The device task is scheduled and its waits time out.  Nothing is assumed *)
(* of the decode tasks, unless they are in time.                            *)
Spec ==
  /\ Init /\ [][Next]_iaVars
  /\ WF_iaVars(DeviceTask) /\ WF_iaVars(InTime /\ \E d \in DecodeId : DecodeTask(d))

-----------------------------------------------------------------------------
(* Properties.                                                             *)

(* A decode task that is still running has the quirc object it works on:   *)
(* "Do not destroy q if the decode task might still be using it"           *)
(* (run_quirc_flash_pass).                                                 *)
QuircAlive == tasks \subseteq live

(* Decode tasks that are in time never work on memory that is gone: their  *)
(* quirc object lives, and the device task is still in the function on     *)
(* whose stack their context and their result are, waiting for them and    *)
(* not for the task of another pass.                                       *)
DecodeMemory == InTime => QuircAlive /\ \A d \in tasks : Awaited(d)

(* Every quirc object is released on every path, failed or not, but the    *)
(* path of a wait that timed out.                                          *)
QuircReleased == InTime /\ at = "idle" => live = {}

(* Whoever talks to the scanner finds the UART driver installed, unless an *)
(* install failed: the capture, the native crop (with its quirc object allocated), the identity query, and   *)
(* the scans to come.                                                      *)
UartReady ==
  /\ "install" \notin faults
  /\ at \in {"idle", "request", "rows", "lastRows", "find3", "identity"}
  => uart

(* An image whose header matches is complete, through every failed erase,  *)
(* broken transfer and power failure.                                      *)
RawWhole == RawAvailable => raw.image \in 1..scan

(* LATEST.BMP (shown when there is a report and a valid RAW header) is the *)
(* image of the scan QRINFO.TXT reports, unless the erase of the old       *)
(* header failed.                                                          *)
ShownImage ==
  "firstErase" \notin faults /\ at = "idle" /\ json # 0 /\ RawAvailable => raw.image = json

(* A ZXing probe decodes the bitmap of this scan's image, or none.         *)
ProbesThisScan == at \in {"zxing", "zxingHybrid"} /\ bin.valid => bin.image = scan

(* The analysis ends, even if a decode task never does.                    *)
AnalysisEnds == at # "idle" ~> at = "idle"
=============================================================================
