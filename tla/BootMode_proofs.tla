--------------------------- MODULE BootMode_proofs ---------------------------
(***************************************************************************)
(* Proofs about BootMode: a boot does what the hold at power-on asked for, *)
(* the history is erased in Normal mode only, and DEBUG.TXT mixes marks in *)
(* one way only; for any number of boots, marks and power failures.        *)
(***************************************************************************)
EXTENDS BootMode, TLAPS

Holding  == {"gesture", "armed"}
Toggling == {"toggle", "toggleSaved"}
Clearing == {"clear", "clearSaved", "erase"}
Mounting == {"disk", "scanner", "usb"}
Marks    == [stage : Nat, error : Nat, free : Nat, largest : Nat]

TypeInv ==
  /\ phase \in {"mode", "text", "flash", "run", "fatal"}
                 \cup Holding \cup Toggling \cup Clearing \cup Mounting
  /\ nvsMode \in {"absent", "normal", "analyzer"}
  /\ enabled \in BOOLEAN /\ readable \in BOOLEAN
  /\ elapsed \in 0..ToggleHold
  /\ diag \in Marks /\ done \in Nat /\ marks \in Nat
  /\ field \in 0..4
  /\ phase # "run" => field = 0

(* What the hold has come to, at each place behind it.                      *)
HoldInv ==
  /\ phase \in {"mode", "text"} => elapsed = 0
  /\ phase = "armed" => elapsed = ToggleHold
  /\ phase \in {"flash"} \cup Toggling \cup Clearing => action = Verdict
  /\ phase \in Toggling => action = "toggle"
  /\ phase \in Clearing => action = "clear"

Agreed    == enabled <=> nvsMode = "analyzer"
Untouched == enabled = before.enabled /\ history = before.history

(* The mode and the history, relative to what the boot found.               *)
ModeInv ==
  /\ phase = "mode" => ~readable
  /\ readable =>
     /\ phase \in {"text", "toggle", "clear"} \cup Holding => Agreed /\ Untouched
     /\ phase = "toggleSaved" =>
          Untouched /\ nvsMode = (IF enabled THEN "normal" ELSE "analyzer")
     /\ phase = "flash" =>
          /\ Agreed
          /\ history = before.history
          /\ enabled = IF action = "toggle" THEN ~before.enabled ELSE before.enabled
     /\ phase \in {"clear", "clearSaved"} => enabled
     /\ phase = "clearSaved" => nvsMode = "normal"
     /\ phase = "erase" => ~enabled /\ nvsMode # "analyzer"
  /\ GestureObeyed

AsRead ==
  /\ text.stage \in {diag.stage, 0} /\ text.error \in {diag.error, 0}
  /\ text.free \in {diag.free, 0} /\ text.largest \in {diag.largest, 0}

(* A mark sets its fields in order; until one fails, each is as new as the  *)
(* ones behind it.                                                          *)
MarkInv ==
  /\ phase = "mode" => text = NoText
  /\ phase \notin {"mode", "run"} /\ text # NoText => AsRead
  /\ ~failed =>
     /\ marks >= diag.stage /\ diag.stage >= diag.error
     /\ diag.error >= diag.free /\ diag.free >= diag.largest
     /\ diag.largest = done
     /\ field > 1 => diag.stage = marks
     /\ field > 2 => diag.error = marks
     /\ field > 3 => diag.free = marks

IInv == TypeInv /\ HoldInv /\ ModeInv /\ MarkInv

-----------------------------------------------------------------------------
(* Power-on, with whatever mode and history an earlier life has left.       *)
LEMMA InitIInv == Init => IInv
<1> SUFFICES ASSUME Init PROVE IInv
  OBVIOUS
<1> USE DEF Holding, Toggling, Clearing, Mounting
<1>1. TypeInv
  <2>1. elapsed \in 0..ToggleHold /\ field = 0
    BY BootAssumption DEF Init
  <2>2. diag \in Marks /\ done \in Nat /\ marks \in Nat
    BY DEF Init, Marks, NoDiag
  <2>3. enabled \in BOOLEAN /\ readable \in BOOLEAN
    BY DEF Init
  <2>4. phase = "mode" /\ nvsMode \in {"absent", "normal", "analyzer"}
    BY DEF Init
  <2> QED
    BY <2>1, <2>2, <2>3, <2>4 DEF TypeInv
<1>2. HoldInv
  BY DEF Init, HoldInv
<1>3. ModeInv
  BY DEF Init, ModeInv, GestureObeyed
<1>4. MarkInv
  BY DEF Init, MarkInv, NoDiag
<1> QED
  BY <1>1, <1>2, <1>3, <1>4 DEF IInv

(* Every step of the hand, of the boot and of the operation, and a power    *)
(* failure anywhere, preserve the invariant.                                *)
LEMMA StepIInv == IInv /\ [Next]_vars => IInv'
<1> SUFFICES ASSUME IInv, [Next]_vars PROVE IInv'
  OBVIOUS
<1> USE BootAssumption
    DEF IInv, TypeInv, HoldInv, ModeInv, MarkInv, GestureObeyed, Agreed, Untouched, Verdict,
        Holding, Toggling, Clearing, Mounting, Marks, AsRead, keeps, breadcrumb
<1>1. CASE Hand
  BY <1>1 DEF Hand
<1>2. CASE ModeRead
  BY <1>2 DEF ModeRead
<1>3. CASE ModeUnreadable
  BY <1>3 DEF ModeUnreadable
<1>4. CASE NvsErased
  BY <1>4 DEF NvsErased, NoDiag
<1>5. CASE FormatDebugText
  BY <1>5 DEF FormatDebugText, NoText, Shown
<1>6. CASE HoldOn
  BY <1>6 DEF HoldOn
<1>7. CASE Arm
  BY <1>7 DEF Arm
<1>8. CASE LetGo
  BY <1>8 DEF LetGo
<1>9. CASE SaveMode
  BY <1>9 DEF SaveMode
<1>10. CASE ModeChanged
  <2>1. TypeInv' /\ HoldInv'
    BY <1>10 DEF ModeChanged
  <2>2. ModeInv'
    BY <1>10 DEF ModeChanged
  <2>3. MarkInv'
    BY <1>10 DEF ModeChanged
  <2> QED
    BY <2>1, <2>2, <2>3
<1>11. CASE FlashReady
  BY <1>11 DEF FlashReady
<1>12. CASE EraseSome
  BY <1>12 DEF EraseSome
<1>13. CASE EraseDone
  BY <1>13 DEF EraseDone
<1>14. CASE GoOn
  BY <1>14 DEF GoOn
<1>15. CASE BootFails
  BY <1>15 DEF BootFails
<1>16. CASE Store
  BY <1>16 DEF Store
<1>17. CASE MarkBegins
  BY <1>17 DEF MarkBegins
<1>18. CASE MarkSets
  <2>1. field \in 1..4 /\ phase = "run"
    BY <1>18 DEF MarkSets, MarkInOrder
  <2>2. CASE field = 1
    BY <1>18, <2>1, <2>2 DEF MarkSets, MarkInOrder, Fields
  <2>3. CASE field = 2
    BY <1>18, <2>1, <2>3 DEF MarkSets, MarkInOrder, Fields
  <2>4. CASE field = 3
    BY <1>18, <2>1, <2>4 DEF MarkSets, MarkInOrder, Fields
  <2>5. CASE field = 4
    BY <1>18, <2>1, <2>5 DEF MarkSets, MarkInOrder, Fields
  <2> QED
    BY <2>1, <2>2, <2>3, <2>4, <2>5
<1>19. CASE PowerLoss
  <2>1. TypeInv'
    <3>1. elapsed' \in 0..ToggleHold /\ field' = 0 /\ phase' = "mode"
      BY <1>19 DEF PowerLoss
    <3>2. UNCHANGED <<nvsMode, diag, done, marks>>
      BY <1>19 DEF PowerLoss
    <3>3. enabled' \in BOOLEAN /\ readable' \in BOOLEAN
      BY <1>19 DEF PowerLoss
    <3> QED
      BY <3>1, <3>2, <3>3
  <2>2. HoldInv' /\ ModeInv' /\ MarkInv'
    BY <1>19 DEF PowerLoss, NoText
  <2> QED
    BY <2>1, <2>2
<1>20. CASE UNCHANGED vars
  BY <1>20 DEF vars
<1> QED
  BY <1>1, <1>2, <1>3, <1>4, <1>5, <1>6, <1>7, <1>8, <1>9, <1>10, <1>11, <1>12,
     <1>13, <1>14, <1>15, <1>16, <1>17, <1>18, <1>19, <1>20
     DEF Next, Boot, Operation

THEOREM Invariant == Spec => []IInv
BY InitIInv, StepIInv, PTL DEF Spec

(* A boot that mounts the disk has obeyed the hold at power-on and done     *)
(* nothing else, after any number of boots that were cut anywhere.          *)
THEOREM GestureObeyedHolds == Spec => []GestureObeyed
<1>1. IInv => GestureObeyed
  BY DEF IInv, ModeInv
<1> QED
  BY Invariant, <1>1, PTL

(* Nothing but a hold of three to ten seconds erases the history, and then  *)
(* NVS no longer holds Analyzer mode.                                       *)
THEOREM OnlyErasedInNormal == Spec => EraseInNormal
<1>1. IInv /\ [Next]_vars =>
       [phase = "erase" /\ history' # history =>
          /\ elapsed \in ClearHold..ToggleHold - 1
          /\ readable => nvsMode # "analyzer"]_vars
  BY BootAssumption DEF IInv, TypeInv, HoldInv, ModeInv, Verdict, Clearing
<1> QED
  BY Invariant, <1>1, PTL DEF Spec, EraseInNormal

(* The fields DEBUG.TXT shows and could read are ordered by the age of      *)
(* their marks, and the last of them is that of the newest mark that        *)
(* finished.                                                                *)
THEOREM DebugInOrderHolds == Spec => []DebugInOrder
<1>1. IInv => DebugInOrder
  <2> SUFFICES ASSUME IInv, phase \in {"gesture", "disk"}, text # NoText, ~failed
               PROVE  /\ \A i, j \in 1..4 : i < j /\ text[Fields[i]] # 0
                                              => text[Fields[i]] >= text[Fields[j]]
                      /\ text.largest \in {0, done}
    BY DEF DebugInOrder
  <2>1. AsRead /\ diag \in Marks
    BY DEF IInv, TypeInv, MarkInv
  <2>2. /\ diag.stage >= diag.error /\ diag.error >= diag.free
        /\ diag.free >= diag.largest /\ diag.largest = done
    BY DEF IInv, MarkInv
  <2>3. /\ text.stage # 0 => text.stage >= text.error
        /\ text.stage # 0 => text.stage >= text.free
        /\ text.stage # 0 => text.stage >= text.largest
        /\ text.error # 0 => text.error >= text.free
        /\ text.error # 0 => text.error >= text.largest
        /\ text.free # 0 => text.free >= text.largest
    BY <2>1, <2>2 DEF AsRead, Marks
  <2>4. /\ Fields[1] = "stage" /\ Fields[2] = "error"
        /\ Fields[3] = "free" /\ Fields[4] = "largest"
    BY DEF Fields
  <2>5. \A i, j \in 1..4 : i < j /\ text[Fields[i]] # 0
                            => text[Fields[i]] >= text[Fields[j]]
    BY <2>3, <2>4
  <2>6. text.largest \in {0, done}
    BY <2>1, <2>2 DEF AsRead
  <2> QED
    BY <2>5, <2>6
<1> QED
  BY Invariant, <1>1, PTL
=============================================================================
