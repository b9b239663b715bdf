------------------------- MODULE ImageAnalysis_proofs -------------------------
(***************************************************************************)
(* Proofs about ImageAnalysis: what the RAW and BIN areas hold whenever    *)
(* their headers match, who owns the memory of a decode task, and when the *)
(* UART driver is installed; for any number of scans and power failures.   *)
(***************************************************************************)
EXTENDS ImageAnalysis, TLAPS

Capturing == {"eraseRaw", "eraseBin", "request", "rows", "lastRows", "commitRaw"}
Otsu      == {"otsu", "otsuLastRows", "otsuCommit", "release"}
Zxing     == {"zxing", "hybrid", "hybridErase", "hybridRows", "hybridLastRows",
              "hybridCommit", "zxingHybrid"}
Waiting   == {"wait1", "wait2", "wait3"}
Quirc     == {"pass1", "pass2", "find1", "find2", "wait1", "wait2", "reinstall1", "reinstall2"}
Crop      == {"crop", "find3", "wait3"}
Finding   == {"find1", "find2", "find3"}
Reporting == {"identity", "report"}

Images == Nat \cup {Blank, Partial, Garbled}
Areas  == [valid : BOOLEAN, image : Images]

TypeInv ==
  /\ scan \in Nat /\ (at # "idle" => scan > 0)
  /\ json \in Nat /\ notified \in Nat
  /\ raw \in Areas /\ bin \in Areas
  /\ at \in {"idle", "eraseRawHeader"} \cup Capturing \cup Otsu \cup Zxing \cup Quirc
              \cup Crop \cup Reporting

(* The area that has been captured, once it is.  A failed erase of the     *)
(* header sector is the only way to a report beside an older image.        *)
RawInv ==
  /\ RawAvailable => raw.image \in 1..scan
  /\ at \in Capturing => ~RawAvailable
  /\ at \in {"eraseBin", "request", "rows"} => raw.image = Blank
  /\ at = "lastRows" => raw.image = Partial
  /\ at = "commitRaw" => raw.image = scan
  /\ at \in Otsu \cup Zxing \cup Quirc \cup Crop => RawAvailable /\ raw.image = scan
  /\ at \in Reporting \/ (at = "idle" /\ json # 0) =>
       (RawAvailable /\ "firstErase" \notin faults => raw.image = scan)
  /\ json # 0 => json = scan

(* The bitmap, which is written twice a scan.                               *)
BinInv ==
  /\ at \in {"request", "rows", "lastRows", "commitRaw", "otsu"} =>
       ~bin.valid /\ bin.image = Blank
  /\ at = "otsuLastRows" => ~bin.valid /\ bin.image = Partial
  /\ at = "otsuCommit" => ~bin.valid /\ bin.image = scan
  /\ at \in {"release", "zxing", "zxingHybrid"} => (bin.valid => bin.image = scan)
  /\ at \in {"hybridErase", "hybridRows", "hybridLastRows", "hybridCommit"} => ~bin.valid
  /\ at = "hybridRows" => bin.image = Blank
  /\ at = "hybridLastRows" => bin.image = Partial
  /\ at = "hybridCommit" => bin.image = scan

(* Decodes in time: a pass has its quirc object until it returns; the task  *)
(* of the pass that waits runs or has notified, once; there is no task,     *)
(* object or notification anywhere else.                                    *)
DecodeInv ==
  InTime =>
    /\ \A p \in Passes : at = WaitStage(p) =>
         /\ live = {<<scan, p>>}
         /\ \/ tasks = {<<scan, p>>} /\ notified = 0
            \/ tasks = {} /\ notified = 1
    /\ \A p \in Passes : at = FindStage(p) => live = {<<scan, p>>}
    /\ at \notin Waiting => tasks = {} /\ notified = 0
    /\ at \notin Waiting \cup Finding => live = {}

(* The driver is away from the decoders' begin to the reinstall.            *)
UartInv == "install" \notin faults /\ at \notin Zxing \cup Quirc => uart

IInv == TypeInv /\ RawInv /\ BinInv /\ DecodeInv /\ UartInv

-----------------------------------------------------------------------------
(* A new device has an empty partition and no report.                       *)
LEMMA InitIInv == Init => IInv
<1> SUFFICES ASSUME Init PROVE IInv
  OBVIOUS
<1> USE DEF Init, Capturing, Otsu, Zxing, Waiting, Quirc, Crop, Reporting, RawAvailable
<1>1. TypeInv
  BY DEF TypeInv, Areas, Images
<1>2. RawInv
  BY DEF RawInv
<1>3. BinInv
  BY DEF BinInv
<1>4. DecodeInv
  BY DEF DecodeInv, Passes, WaitStage, FindStage, Finding
<1>5. UartInv
  BY DEF UartInv
<1> QED
  BY <1>1, <1>2, <1>3, <1>4, <1>5 DEF IInv

(* Every step of the device task, of a decode task and every power failure  *)
(* preserves the invariant.                                                 *)
LEMMA StepIInv == IInv /\ [Next]_iaVars => IInv'
<1> SUFFICES ASSUME IInv, [Next]_iaVars PROVE IInv'
  OBVIOUS
<1> USE AnalysisAssumption
    DEF IInv, TypeInv, RawInv, BinInv, DecodeInv, UartInv, RawAvailable, InTime, WaitStage,
        FindStage, Finding, Capturing, Otsu, Zxing, Waiting, Quirc, Crop, Reporting, Images, Areas,
        Passes, Go, imageAreas, quircState, env
<1>1. CASE Start
  BY <1>1 DEF Start
<1>2. CASE EraseRawHeader
  BY <1>2 DEF EraseRawHeader
<1>3. CASE EraseRaw
  BY <1>3 DEF EraseRaw
<1>4. CASE EraseBin
  BY <1>4 DEF EraseBin
<1>5. CASE EraseFails
  BY <1>5 DEF EraseFails, Abandon
<1>6. CASE Request
  BY <1>6 DEF Request
<1>7. CASE FirstRows
  BY <1>7 DEF FirstRows, Begun
<1>8. CASE LastRows
  BY <1>8 DEF LastRows, Filled
<1>9. CASE CommitRaw
  <2>1. TypeInv'
    BY <1>9 DEF CommitRaw
  <2>2. RawInv'
    BY <1>9 DEF CommitRaw
  <2>3. BinInv'
    BY <1>9 DEF CommitRaw
  <2>4. DecodeInv'
    BY <1>9 DEF CommitRaw
  <2>5. UartInv'
    BY <1>9 DEF CommitRaw
  <2> QED
    BY <2>1, <2>2, <2>3, <2>4, <2>5 DEF IInv
<1>10. CASE CaptureFails
  BY <1>10 DEF CaptureFails, Abandon
<1>11. CASE OtsuFirstRows
  BY <1>11 DEF OtsuFirstRows, Begun
<1>12. CASE OtsuLastRows
  BY <1>12 DEF OtsuLastRows, Filled
<1>13. CASE OtsuCommit
  BY <1>13 DEF OtsuCommit
<1>14. CASE OtsuFails
  BY <1>14 DEF OtsuFails
<1>15. CASE HybridEraseHeader
  BY <1>15 DEF HybridEraseHeader
<1>16. CASE HybridErase
  BY <1>16 DEF HybridErase
<1>17. CASE HybridFirstRows
  BY <1>17 DEF HybridFirstRows, Begun
<1>18. CASE HybridLastRows
  BY <1>18 DEF HybridLastRows, Filled
<1>19. CASE HybridCommit
  BY <1>19 DEF HybridCommit
<1>20. CASE HybridFails
  BY <1>20 DEF HybridFails
<1>21. CASE ReleaseUart
  BY <1>21 DEF ReleaseUart, Abandon
<1>22. CASE ZxingOtsu
  BY <1>22 DEF ZxingOtsu
<1>23. CASE ZxingHybrid
  BY <1>23 DEF ZxingHybrid
<1>24. ASSUME NEW p \in Passes, StartDecode(p) PROVE IInv'
  BY <1>24 DEF StartDecode, PassStage
<1>25. ASSUME NEW p \in Passes, Allocate(p) PROVE IInv'
  BY <1>25 DEF Allocate, PassStage
<1>26. ASSUME NEW p \in Passes, NoQuirc(p) PROVE IInv'
  BY <1>26 DEF NoQuirc, PassStage, AfterPass
<1>27. ASSUME NEW p \in Passes, PassFails(p) PROVE IInv'
  BY <1>27 DEF PassFails, PassStage, AfterPass
<1>28. ASSUME NEW p \in Passes, WaitEnds(p) PROVE IInv'
  BY <1>28 DEF WaitEnds, AfterPass
<1>29. ASSUME NEW p \in Passes, WaitTimesOut(p) PROVE IInv'
  BY <1>29 DEF WaitTimesOut, AfterPass
<1>30. CASE ReinstallAfterPass1
  BY <1>30 DEF ReinstallAfterPass1, Installs
<1>31. CASE ReinstallAfterPass2
  BY <1>31 DEF ReinstallAfterPass2, Installs
<1>32. CASE Identity
  BY <1>32 DEF Identity
<1>33. CASE Report
  BY <1>33 DEF Report
<1>34. CASE ReportFails
  BY <1>34 DEF ReportFails
<1>35. ASSUME NEW d \in DecodeId, DecodeTask(d) PROVE IInv'
  BY <1>35 DEF DecodeTask, DecodeTaskEnds, DecodeTaskFails, Decodes, Awaited
<1>36. CASE LosePower
  BY <1>36 DEF LosePower
<1>37. CASE UNCHANGED iaVars
  BY <1>37 DEF iaVars
<1> QED
  BY <1>1, <1>2, <1>3, <1>4, <1>5, <1>6, <1>7, <1>8, <1>9, <1>10, <1>11, <1>12,
     <1>13, <1>14, <1>15, <1>16, <1>17, <1>18, <1>19, <1>20, <1>21, <1>22,
     <1>23, <1>24, <1>25, <1>26, <1>27, <1>28, <1>29, <1>30, <1>31, <1>32,
     <1>33, <1>34, <1>35, <1>36, <1>37
     DEF Next, DeviceTask, Capture, Binarize, Ladder

THEOREM Invariant == Spec => []IInv
BY InitIInv, StepIInv, PTL DEF Spec

(* A RAW image whose header matches is a complete image of some scan, after *)
(* every failed flash call, broken transfer and power failure.              *)
THEOREM RawWholeHolds == Spec => []RawWhole
<1>1. IInv => RawWhole
  BY DEF IInv, RawInv, RawWhole
<1> QED
  BY Invariant, <1>1, PTL

(* The image shown beside a report is that of the scan reported, unless the *)
(* erase of the old header failed.                                          *)
THEOREM ShownImageHolds == Spec => []ShownImage
<1>1. IInv => ShownImage
  BY DEF IInv, RawInv, ShownImage
<1> QED
  BY Invariant, <1>1, PTL

(* Both ZXing probes decode this scan's bitmap, or none.                    *)
THEOREM ProbesThisScanHolds == Spec => []ProbesThisScan
<1>1. IInv => ProbesThisScan
  BY DEF IInv, BinInv, ProbesThisScan
<1> QED
  BY Invariant, <1>1, PTL

(* A decode task that is in time has its quirc object and the stack frame   *)
(* of the device task for as long as it runs.                               *)
THEOREM DecodeMemoryHolds == Spec => []DecodeMemory
<1>1. IInv => DecodeMemory
  BY DEF IInv, TypeInv, DecodeInv, DecodeMemory, InTime, QuircAlive, Awaited,
         Passes, WaitStage, Waiting, Capturing, Otsu, Zxing, Quirc, Crop,
         Reporting
<1> QED
  BY Invariant, <1>1, PTL

(* No path of the ladder leaks a quirc object, but a timeout.               *)
THEOREM QuircReleasedHolds == Spec => []QuircReleased
<1>1. IInv => QuircReleased
  BY DEF IInv, DecodeInv, QuircReleased, Waiting, Finding
<1> QED
  BY Invariant, <1>1, PTL

(* The UART driver is installed whenever the scanner is spoken to, unless   *)
(* an install failed.                                                       *)
THEOREM UartReadyHolds == Spec => []UartReady
<1>1. IInv => UartReady
  BY DEF IInv, UartInv, UartReady, Zxing, Quirc
<1> QED
  BY Invariant, <1>1, PTL
=============================================================================
