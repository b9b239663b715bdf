----------------------------- MODULE HistoryLog -----------------------------
(***************************************************************************)
(* What the QR history promises its callers, without slots, sectors or     *)
(* header words: a set of committed records that grows by exactly one      *)
(* record at a time, numbered consecutively, that forgets only its oldest  *)
(* record and only when it holds a full window of sequence numbers, and    *)
(* that loses records in any other way only while a reset is under way.    *)
(*                                                                         *)
(* FlashStore (main/flash_store.c) implements this specification; see      *)
(* FlashStore!RefinesHistoryLog.                                           *)
(***************************************************************************)
EXTENDS Integers

CONSTANTS
  Window,       \* sequence numbers a full history spans
  Payloads,     \* the QR payloads
  MaxNumber,    \* largest record number; the next one is 0
  MaxSequence   \* bound on the sequence numbers handed out

VARIABLES
  log,          \* the committed records
  clearing      \* a reset is erasing the history

vars == <<log, clearing>>

Record == [sequence : 1..MaxSequence, number : 0..MaxNumber, data : Payloads]

IsLast(r)  == r \in log /\ \A q \in log : q.sequence <= r.sequence

(* The record that follows r, or the first one ever. *)
Follows(r, n) ==
  /\ n.sequence = r.sequence + 1
  /\ n.number = IF r.number = MaxNumber THEN 0 ELSE r.number + 1

Init == log = {} /\ clearing = FALSE

(* Commit one record: the successor of the newest, if the window has room. *)
Commit ==
  /\ ~clearing
  /\ \E n \in Record :
       /\ \/ log = {} /\ n.sequence = 1 /\ n.number = IF MaxNumber = 0 THEN 0 ELSE 1
          \/ \E r \in log : IsLast(r) /\ Follows(r, n)
       /\ \A q \in log : n.sequence - q.sequence < Window
       /\ log' = log \cup {n}
  /\ UNCHANGED clearing

(* Forget the oldest record of a full window, to make room. *)
ForgetOldest ==
  /\ ~clearing
  /\ \E r, q \in log : /\ IsLast(q)
                       /\ q.sequence - r.sequence = Window - 1
                       /\ log' = log \ {r}
  /\ UNCHANGED clearing

BeginClear == ~clearing /\ clearing' = TRUE /\ UNCHANGED log

ClearOne ==
  /\ clearing
  /\ \E r \in log : log' = log \ {r}
  /\ UNCHANGED clearing

(* A reset ends: complete, failed or interrupted. *)
EndClear == clearing /\ clearing' = FALSE /\ UNCHANGED log

Next == Commit \/ ForgetOldest \/ BeginClear \/ ClearOne \/ EndClear

Spec == Init /\ [][Next]_vars
=============================================================================
