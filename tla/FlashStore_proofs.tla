-------------------------- MODULE FlashStore_proofs --------------------------
(***************************************************************************)
(* Machine-checked theorems about the history ring, for every number of    *)
(* slots, every set of payloads and every bound on the sequence numbers:   *)
(* first the ring itself, then the history as its callers see it.  Record  *)
(* numbers wrap from MaxNumber to 0 while the sequence numbers grow, and   *)
(* still name records uniquely; under the mapping Log of FlashStore, Init  *)
(* implies Log!Init and every step is a step of Log!Next or leaves the     *)
(* abstract history as it was; no sequence number is missing.              *)
(***************************************************************************)
EXTENDS FlashStore, FiniteSetTheorems, TLAPS

-----------------------------------------------------------------------------
(* The operators.                                                          *)

(* The index arithmetic of the ring: the successor of a slot. *)
LEMMA NextSlotValue ==
  ASSUME NEW s \in Slots
  PROVE  /\ NextSlot(s) = IF s = SlotCount - 1 THEN 0 ELSE s + 1
         /\ NextSlot(s) \in Slots
         /\ NextSlot(s) # s
<1> USE StoreAssumption DEF Slots, NextSlot
<1>1. CASE s = SlotCount - 1
  <2>1. s + 1 = SlotCount  BY <1>1
  <2>2. SlotCount % SlotCount = 0  OBVIOUS
  <2> QED BY <1>1, <2>1, <2>2
<1>2. CASE s # SlotCount - 1
  <2>1. s + 1 \in 0..(SlotCount - 1)  BY <1>2
  <2> QED BY <1>2, <2>1
<1> QED BY <1>1, <1>2

(* Going round the ring: the distance to the slot after t is one more than *)
(* the distance to t, unless it comes full circle.                         *)
LEMMA BehindNext ==
  ASSUME NEW s \in Slots, NEW t \in Slots, s # NextSlot(t)
  PROVE  Behind(s, NextSlot(t)) = Behind(s, t) + 1
BY StoreAssumption, NextSlotValue DEF Behind, Slots

LEMMA BehindRange ==
  ASSUME NEW s \in Slots, NEW t \in Slots
  PROVE  /\ Behind(s, t) \in 0..(SlotCount - 1)
         /\ Behind(s, t) = 0 <=> s = t
         /\ s # t => Behind(s, t) + Behind(t, s) = SlotCount
BY StoreAssumption DEF Behind, Slots

LEMMA BehindOfNext ==
  ASSUME NEW t \in Slots
  PROVE  Behind(NextSlot(t), t) = SlotCount - 1
BY StoreAssumption, NextSlotValue DEF Behind, Slots

(* An erased header is not a record. *)
LEMMA ErasedIsInvalid == ~HeaderIsValid(ErasedHeader)
BY StoreAssumption DEF HeaderIsValid, ErasedHeader

(* A header is a record exactly from the moment its length word is there. *)
LEMMA ValidFromLengthWord ==
  ASSUME NEW h \in Header
  PROVE  HeaderIsValid(h) <=> h.words >= LengthWord
BY StoreAssumption DEF HeaderIsValid, LengthSeen, Header, LengthWord, CrcWord

-----------------------------------------------------------------------------
(* Types.                                                                  *)

LEMMA InitTypeOK == Init => TypeOK
BY StoreAssumption DEF Init, TypeOK, Header, ErasedHeader, NoJob, Cursor, Slots, CrcWord, AppendStages, ResetStages

LEMMA BeginTypeOK ==
  ASSUME TypeOK, NEW data \in Payloads, AppendBegin(data)
  PROVE  TypeOK'
<1> USE StoreAssumption DEF TypeOK
<1>1. job' \in [slot : Slots, sequence : Nat, number : 0..MaxNumber,
                data : Payloads \cup {Blank}]
  <2>1. CASE job' = [slot |-> 0, sequence |-> 1, number |-> 1, data |-> data]
    BY <2>1 DEF Slots
  <2>2. CASE \E s \in Slots :
               job' = [slot     |-> NextSlot(s),
                       sequence |-> header[s].sequence + 1,
                       number   |-> NextNumber(header[s].number),
                       data     |-> data]
    BY <2>2, NextSlotValue DEF Header, NextNumber
  <2> QED BY <2>1, <2>2 DEF AppendBegin
<1> QED BY <1>1 DEF AppendBegin, AppendStages

LEMMA StepTypeOK == TypeOK /\ [Next]_vars => TypeOK'
<1> SUFFICES ASSUME TypeOK, [Next]_vars PROVE TypeOK'
  OBVIOUS
<1> USE StoreAssumption DEF TypeOK, AppendStages, ResetStages
<1>1. CASE UNCHANGED vars
  BY <1>1 DEF vars
<1>2. CASE \E data \in Payloads : AppendBegin(data)
  BY <1>2, BeginTypeOK
<1>3. CASE AppendRefused
  BY <1>3 DEF AppendRefused
<1>4. CASE EraseHeader
  <2>1. ErasedHeader \in Header  BY DEF ErasedHeader, Header, CrcWord
  <2> QED BY <1>4, <2>1 DEF EraseHeader
<1>5. CASE ErasePayload
  BY <1>5 DEF ErasePayload
<1>6. CASE WritePayload
  BY <1>6 DEF WritePayload
<1>7. CASE FinishPayload
  BY <1>7 DEF FinishPayload
<1>8. CASE ProgramHeader
  <2> DEFINE h == header[job.slot]
             g == [words |-> h.words + 1, sequence |-> job.sequence,
                   number |-> job.number, length |-> PayloadLength[job.data],
                   crc |-> job.data]
  <2>1. h \in Header /\ h.words < CrcWord /\ job.data \in Payloads
    BY <1>8 DEF ProgramHeader
  <2>2. g \in Header
    BY <2>1 DEF Header, CrcWord
  <2>3. header' = [header EXCEPT ![job.slot] = g]
    BY <1>8 DEF ProgramHeader
  <2> HIDE DEF g
  <2> QED BY <1>8, <2>2, <2>3 DEF ProgramHeader
<1>9. CASE AppendReturns
  BY <1>9 DEF AppendReturns, NoJob, Cursor, flash, Slots
<1>10. CASE AppendFails
  BY <1>10 DEF AppendFails, NoJob, Cursor, Slots
<1>11. CASE ResetBegin
  BY <1>11 DEF ResetBegin
<1>12. CASE ResetHeader
  <2>1. ErasedHeader \in Header  BY DEF ErasedHeader, Header, CrcWord
  <2> QED BY <1>12, <2>1 DEF ResetHeader
<1>13. CASE ResetPayload
  BY <1>13 DEF ResetPayload, NoJob, Cursor, Slots
<1>14. CASE ResetFails
  BY <1>14 DEF ResetFails, NoJob, Cursor, Slots
<1>15. CASE PowerLoss
  BY <1>15 DEF PowerLoss, NoJob, Cursor, Slots
<1> QED
  BY <1>1, <1>2, <1>3, <1>4, <1>5, <1>6, <1>7, <1>8, <1>9, <1>10, <1>11, <1>12,
     <1>13, <1>14, <1>15 DEF Next, AppendStep, ResetStep

(* The model's state is well typed in every reachable state. *)
THEOREM TypeCorrect == Spec => []TypeOK
BY InitTypeOK, StepTypeOK, PTL DEF Spec

-----------------------------------------------------------------------------
(* How the flash operations change what a scan sees.                       *)

LEMMA ScanAfterErase ==
  ASSUME TypeOK, NEW e \in Slots, header' = [header EXCEPT ![e] = ErasedHeader]
  PROVE  /\ Visible' = Visible \ {e}
         /\ \A s \in Slots \ {e} : header'[s] = header[s]
         /\ header'[e].words = 0
<1>1. header'[e] = ErasedHeader /\ \A s \in Slots \ {e} : header'[s] = header[s]
  BY DEF TypeOK
<1>2. \A s \in Slots : s \in Visible' <=> s # e /\ s \in Visible
  BY <1>1, ErasedIsInvalid DEF Visible
<1> QED BY <1>1, <1>2 DEF Visible, ErasedHeader

LEMMA ScanAfterProgram ==
  ASSUME TypeOK, ProgramHeader
  PROVE  /\ job.slot \in Slots /\ job.data \in Payloads
         /\ \A s \in Slots \ {job.slot} : header'[s] = header[s]
         /\ header'[job.slot] = [words    |-> header[job.slot].words + 1,
                                 sequence |-> job.sequence,
                                 number   |-> job.number,
                                 length   |-> PayloadLength[job.data],
                                 crc      |-> job.data]
         /\ Visible \subseteq Visible'
         /\ Visible' \subseteq Visible \cup {job.slot}
         /\ job.slot \in Visible' <=> header[job.slot].words + 1 >= LengthWord
<1>1. job.slot \in Slots /\ job.data \in Payloads
  BY DEF TypeOK, ProgramHeader, AppendStages
<1>2. /\ \A s \in Slots \ {job.slot} : header'[s] = header[s]
      /\ header'[job.slot] = [words    |-> header[job.slot].words + 1,
                              sequence |-> job.sequence,
                              number   |-> job.number,
                              length   |-> PayloadLength[job.data],
                              crc      |-> job.data]
  BY <1>1 DEF TypeOK, ProgramHeader
<1>3. header \in [Slots -> Header] /\ header' \in [Slots -> Header]
  BY StepTypeOK DEF TypeOK, Next, AppendStep
<1>4. \A s \in Slots : /\ s \in Visible <=> header[s].words >= LengthWord
                       /\ s \in Visible' <=> header'[s].words >= LengthWord
  BY <1>3, ValidFromLengthWord DEF Visible
<1>5. header[job.slot].words \in 0..CrcWord
  BY <1>1, <1>3 DEF Header
<1> QED BY <1>1, <1>2, <1>4, <1>5 DEF LengthWord, CrcWord, Visible

-----------------------------------------------------------------------------
(* The inductive invariant of the ring.                                    *)

LEMMA InitRingInv == Init => RingInv
<1> SUFFICES ASSUME Init PROVE RingInv
  OBVIOUS
<1>1. Visible = {}
  BY ErasedIsInvalid DEF Init, Visible
<1> QED
  BY <1>1, InitTypeOK DEF Init, RingInv, RingOrder, VisibleIntact, JobInv,
     AppendStages, ResetStages

(* Steps that leave the headers and the payloads of all records alone. *)
LEMMA QuietStep ==
  ASSUME RingInv, UNCHANGED header, TypeOK',
         \A s \in Visible : payload'[s] = payload[s]
  PROVE  Visible' = Visible /\ RingOrder' /\ VisibleIntact'
BY DEF RingInv, RingOrder, VisibleIntact, Visible, Behind, ReadRange, LengthSeen

LEMMA BeginRingInv ==
  ASSUME RingInv, NEW data \in Payloads, AppendBegin(data)
  PROVE  RingInv'
<1> USE DEF RingInv
<1>1. TypeOK'
  BY BeginTypeOK
<1>2. Visible' = Visible /\ RingOrder' /\ VisibleIntact'
  BY <1>1, QuietStep DEF AppendBegin
<1>3. pc' = "eraseHeader" /\ header' = header /\ acked' = acked
  BY DEF AppendBegin
<1>4. ASSUME Visible = {},
             job' = [slot |-> 0, sequence |-> 1, number |-> 1, data |-> data]
      PROVE  JobInv'
  BY <1>2, <1>3, <1>4 DEF JobInv, JobAhead, JobPlaced, JobSlot, AppendBegin,
     AppendStages, ResetStages
<1>5. ASSUME NEW s \in Slots, Newest(s),
             job' = [slot     |-> NextSlot(s),
                     sequence |-> header[s].sequence + 1,
                     number   |-> NextNumber(header[s].number),
                     data     |-> data]
      PROVE  JobInv'
  <2>1. PICK n \in Slots : n = NextSlot(s) /\ n # s
    BY NextSlotValue
  <2>8. job'.slot = n /\ job'.sequence = header[s].sequence + 1
    BY <1>5, <2>1
  <2>9. s \in Visible /\ Visible \subseteq Slots
    BY <1>5 DEF Newest, Visible
  <2>2. \A t \in Slots : header[t].sequence \in Nat
    BY DEF TypeOK, Header
  <2>3. \A t \in Visible : /\ header[t].sequence <= header[s].sequence
                          /\ header[s].sequence - header[t].sequence = Behind(t, s)
    BY <1>5, <2>9 DEF Newest, RingOrder
  <2>4. JobAhead'
    <3> SUFFICES ASSUME NEW t \in Visible \ {n}
                 PROVE  /\ header[t].sequence < header[s].sequence + 1
                        /\ header[s].sequence + 1 - header[t].sequence = Behind(t, n)
      BY <1>2, <1>3, <2>1, <2>2, <2>8, <2>9 DEF JobAhead, Behind
    <3>1. Behind(t, n) = Behind(t, s) + 1 /\ Behind(t, s) \in Int
      BY <2>1, <2>9, BehindNext, BehindRange
    <3> QED BY <2>2, <2>3, <2>9, <3>1
  <2>5. JobPlaced'
    BY <1>2, <1>3, <1>5, <2>1, <2>9 DEF JobPlaced, NextSlot, NextNumber
  <2>6. JobSlot'
    <3>1. n \in Visible => header[s].sequence + 1 - header[n].sequence = SlotCount
      BY <2>1, <2>2, <2>3, <2>9, BehindOfNext, StoreAssumption
    <3>2. Visible' = Visible /\ header' = header /\ pc' = "eraseHeader"
      BY <1>2, <1>3
    <3>3. job'.slot \in Visible' => job'.sequence - header'[job'.slot].sequence = SlotCount
      BY <2>1, <2>2, <2>8, <3>1, <3>2
    <3> QED BY <3>2, <3>3 DEF JobSlot
  <2>7. job'.sequence > 0 /\ job'.sequence <= MaxSequence
    BY <1>5, <2>2 DEF AppendBegin
  <2> QED
    BY <1>3, <2>4, <2>5, <2>6, <2>7 DEF JobInv, AppendStages, ResetStages
<1> QED
  BY <1>1, <1>2, <1>4, <1>5 DEF AppendBegin

LEMMA EraseRingInv ==
  ASSUME RingInv, EraseHeader
  PROVE  RingInv'
<1> USE DEF RingInv
<1>1. TypeOK'
  BY StepTypeOK DEF Next, AppendStep
<1>2. job.slot \in Slots /\ job' = job /\ pc' = "erasePayload" /\ payload' = payload
  BY DEF EraseHeader, TypeOK
<1>3. /\ Visible' = Visible \ {job.slot}
      /\ \A s \in Slots \ {job.slot} : header'[s] = header[s]
      /\ header'[job.slot].words = 0
  BY <1>2, ScanAfterErase DEF EraseHeader
<1>4. \A s \in Visible' : s \in Visible /\ header'[s] = header[s]
  BY <1>3 DEF Visible
<1>5. RingOrder'
  BY <1>4 DEF RingOrder, Behind
<1>6. VisibleIntact'
  BY <1>2, <1>4 DEF VisibleIntact, ReadRange, LengthSeen
<1>7. JobAhead'
  BY <1>2, <1>4 DEF JobInv, JobAhead, Behind, EraseHeader, AppendStages
<1>8. JobPlaced'
  BY <1>2, <1>3, <1>4 DEF JobInv, JobPlaced, NextSlot, NextNumber, EraseHeader,
     AppendStages
<1>9. JobSlot'
  BY <1>2, <1>3 DEF JobSlot
<1> QED
  BY <1>1, <1>2, <1>5, <1>6, <1>7, <1>8, <1>9 DEF JobInv, EraseHeader,
     AppendStages, ResetStages

(* Steps on the payload sector: the slot is not a record at that time. *)
LEMMA PayloadRingInv ==
  ASSUME RingInv, ErasePayload \/ WritePayload \/ FinishPayload
  PROVE  RingInv'
<1> USE DEF RingInv
<1>1. TypeOK'
  BY StepTypeOK DEF Next, AppendStep
<1>2. /\ job.slot \in Slots /\ job' = job /\ header' = header
      /\ pc \in AppendStages /\ pc # "eraseHeader" /\ pc # "writeHeader"
      /\ pc' \in {"writePayload", "finishPayload", "writeHeader"}
      /\ acked' = acked
  BY DEF TypeOK, ErasePayload, WritePayload, FinishPayload, AppendStages
<1>3. header[job.slot].words = 0 /\ JobAhead /\ JobPlaced /\ JobSlot
  BY <1>2 DEF JobInv, JobSlot, AppendStages
<1>4. job.slot \notin Visible
  BY <1>3 DEF Visible, HeaderIsValid
<1>5. \A s \in Visible : payload'[s] = payload[s]
  BY <1>4 DEF ErasePayload, WritePayload, FinishPayload, TypeOK, Visible
<1>6. Visible' = Visible /\ RingOrder' /\ VisibleIntact'
  BY <1>1, <1>2, <1>5, QuietStep
<1>7. JobAhead'
  BY <1>2, <1>3, <1>6 DEF JobAhead, Behind
<1>8. JobPlaced'
  BY <1>2, <1>3, <1>4, <1>6 DEF JobPlaced, NextSlot, NextNumber
<1>9. JobSlot'
  <2>1. \A x : [payload EXCEPT ![job.slot] = x][job.slot] = x
    BY <1>2 DEF TypeOK
  <2>2. PayloadLength[job.data] \in Nat
    BY <1>2, StoreAssumption DEF TypeOK
  <2>3. CASE ErasePayload
    BY <1>2, <1>3, <2>1, <2>2, <2>3 DEF ErasePayload, JobSlot
  <2>4. CASE WritePayload
    BY <1>2, <1>3, <2>1, <2>2, <2>4 DEF WritePayload, JobSlot
  <2>5. CASE FinishPayload
    BY <1>2, <1>3, <2>1, <2>2, <2>5 DEF FinishPayload, JobSlot
  <2> QED BY <2>3, <2>4, <2>5
<1> QED
  BY <1>1, <1>2, <1>6, <1>7, <1>8, <1>9 DEF JobInv, AppendStages, ResetStages

LEMMA ProgramRingInv ==
  ASSUME RingInv, ProgramHeader
  PROVE  RingInv'
<1> USE DEF RingInv
<1>1. TypeOK'
  BY StepTypeOK DEF Next, AppendStep
<1>2. /\ pc = "writeHeader" /\ pc' = pc /\ job' = job /\ payload' = payload
      /\ acked' = acked
  BY DEF ProgramHeader
<1>3. JobAhead /\ JobPlaced /\ JobSlot
  BY <1>2 DEF JobInv, AppendStages
<1>4. /\ \A s \in Slots : header[s].sequence \in Nat /\ header'[s].sequence \in Nat
      /\ job.sequence \in Nat
  BY <1>1, <1>2 DEF TypeOK, Header
<1>5. /\ job.slot \in Slots /\ job.data \in Payloads /\ Visible \subseteq Slots
      /\ Visible' \ {job.slot} = Visible \ {job.slot}
      /\ \A s \in Visible \ {job.slot} : header'[s] = header[s]
      /\ header'[job.slot].sequence = job.sequence
      /\ header'[job.slot].number = job.number
      /\ header'[job.slot].length = PayloadLength[job.data]
      /\ header'[job.slot].crc = job.data
  BY ScanAfterProgram DEF Visible
<1>6. JobAhead'
  BY <1>2, <1>3, <1>5 DEF JobAhead, Behind
<1>7. JobPlaced'
  <2>1. CASE Visible \subseteq {job.slot} /\ job.slot = 0 /\ job.sequence = 1 /\ job.number = 1
    BY <1>2, <1>5, <2>1 DEF JobPlaced
  <2>2. ASSUME NEW t \in Visible \ {job.slot},
               job.slot = NextSlot(t), job.sequence = header[t].sequence + 1,
               job.number = NextNumber(header[t].number)
        PROVE  JobPlaced'
    BY <1>2, <1>5, <2>2 DEF JobPlaced, NextSlot, NextNumber
  <2> QED BY <1>2, <1>3, <2>1, <2>2 DEF JobPlaced
<1>8. JobSlot'
  BY <1>2, <1>3, <1>5 DEF JobSlot
<1>9. RingOrder'
  <2> SUFFICES ASSUME NEW s \in Visible', NEW t \in Visible',
                      header'[s].sequence <= header'[t].sequence
               PROVE  header'[t].sequence - header'[s].sequence = Behind(s, t)
    BY DEF RingOrder, Behind
  <2>1. s \in Slots /\ t \in Slots
    BY DEF Visible
  <2>2. CASE s = job.slot /\ t = job.slot
    BY <1>4, <2>1, <2>2, BehindRange
  <2>3. CASE s # job.slot /\ t = job.slot
    BY <1>3, <1>5, <2>1, <2>3 DEF JobAhead
  <2>4. CASE s = job.slot /\ t # job.slot
    BY <1>3, <1>4, <1>5, <2>1, <2>4 DEF JobAhead
  <2>5. CASE s # job.slot /\ t # job.slot
    BY <1>5, <2>5 DEF RingOrder
  <2> QED BY <2>2, <2>3, <2>4, <2>5
<1>10. VisibleIntact'
  <2> SUFFICES ASSUME NEW s \in Visible'
               PROVE  /\ header'[s].crc \in Payloads
                      /\ LengthSeen(header'[s]) = PayloadLength[header'[s].crc]
                      /\ ReadRange(s)' = header'[s].crc
    BY DEF VisibleIntact, LengthSeen
  <2>1. CASE s # job.slot
    BY <1>2, <1>5, <2>1 DEF VisibleIntact, ReadRange, LengthSeen
  <2>2. CASE s = job.slot
    <3>1. PayloadLength[job.data] > 0 => payload[job.slot] = job.data
      BY <1>2, <1>3 DEF JobSlot
    <3>2. PayloadLength[job.data] \in Nat /\ (PayloadLength[job.data] = 0 => job.data = Empty)
      BY <1>5, StoreAssumption
    <3>3. header'[s] \in Header /\ HeaderIsValid(header'[s])
      BY <1>1 DEF Visible, TypeOK
    <3>4. LengthSeen(header'[s]) = header'[s].length
      BY <3>3, ValidFromLengthWord DEF LengthSeen
    <3> QED BY <1>2, <1>5, <2>2, <3>1, <3>2, <3>4 DEF ReadRange
  <2> QED BY <2>1, <2>2
<1> QED
  BY <1>1, <1>2, <1>6, <1>7, <1>8, <1>9, <1>10 DEF JobInv, AppendStages, ResetStages

(* The end of a call and the loss of power forget the job. *)
LEMMA ReturnRingInv ==
  ASSUME RingInv, AppendReturns \/ AppendFails \/ ResetFails \/ PowerLoss \/ AppendRefused
  PROVE  RingInv'
<1> USE DEF RingInv
<1>1. TypeOK'
  BY StepTypeOK DEF Next, AppendStep, ResetStep
<1>2. header' = header /\ payload' = payload /\ pc' = "idle"
  BY DEF AppendReturns, AppendFails, ResetFails, PowerLoss, AppendRefused, flash, Idle
<1>3. RingOrder' /\ VisibleIntact'
  BY <1>1, <1>2, QuietStep
<1> QED
  BY <1>1, <1>2, <1>3 DEF JobInv, AppendStages, ResetStages

LEMMA ResetRingInv ==
  ASSUME RingInv, ResetBegin \/ ResetHeader \/ ResetPayload
  PROVE  RingInv'
<1> USE DEF RingInv
<1>1. TypeOK'
  BY StepTypeOK DEF Next, ResetStep
<1>2. pc' \in {"idle", "resetHeader", "resetPayload"}
  BY DEF ResetBegin, ResetHeader, ResetPayload
<1>3. acked' = {}
  BY DEF ResetBegin, ResetHeader, ResetPayload, JobInv, ResetStages
<1>4. pc' # "resetPayload" => JobInv'
  BY <1>2, <1>3 DEF JobInv, AppendStages, ResetStages
<1>5. CASE ResetBegin
  BY <1>1, <1>4, <1>5, QuietStep DEF ResetBegin
<1>6. CASE ResetHeader
  <2>1. job.slot \in Slots
    BY DEF TypeOK
  <2>2. /\ Visible' = Visible \ {job.slot}
        /\ \A s \in Slots \ {job.slot} : header'[s] = header[s]
        /\ header'[job.slot].words = 0
    BY <1>6, <2>1, ScanAfterErase DEF ResetHeader
  <2>3. payload' = payload
    BY <1>6 DEF ResetHeader
  <2>4. \A s \in Visible' : s \in Visible /\ header'[s] = header[s]
    BY <2>2 DEF Visible
  <2>5. RingOrder'
    BY <2>4 DEF RingOrder, Behind
  <2>6. VisibleIntact'
    BY <2>3, <2>4 DEF VisibleIntact, ReadRange, LengthSeen
  <2>7. JobInv'
    BY <1>3, <1>6, <2>2 DEF JobInv, ResetHeader, AppendStages, ResetStages
  <2> QED BY <1>1, <2>5, <2>6, <2>7
<1>7. CASE ResetPayload
  <2>1. PICK e \in Slots : e = job.slot
    BY DEF TypeOK
  <2>2. e \notin Visible
    BY <1>7, <2>1 DEF ResetPayload, JobInv, Visible, HeaderIsValid
  <2>3. \A s \in Visible : payload'[s] = payload[s]
    BY <1>7, <2>1, <2>2 DEF ResetPayload, TypeOK, Visible
  <2>4. pc' # "resetPayload" /\ header' = header
    BY <1>7 DEF ResetPayload
  <2> QED BY <1>1, <1>4, <2>3, <2>4, QuietStep
<1> QED BY <1>5, <1>6, <1>7

LEMMA StepRingInv == RingInv /\ [Next]_vars => RingInv'
<1> SUFFICES ASSUME RingInv, [Next]_vars PROVE RingInv'
  OBVIOUS
<1>1. CASE UNCHANGED vars
  <2>1. UNCHANGED <<header, payload, pc, job, acked>> /\ TypeOK'
    BY <1>1, StepTypeOK DEF vars, RingInv
  <2>2. RingOrder' /\ VisibleIntact'
    BY <2>1, QuietStep
  <2>3. JobInv'
    BY <2>1 DEF RingInv, JobInv, JobAhead, JobPlaced, JobSlot, Behind, NextSlot,
       NextNumber, Visible
  <2> QED BY <2>1, <2>2, <2>3 DEF RingInv
<1>2. CASE Next
  BY <1>2, BeginRingInv, EraseRingInv, PayloadRingInv, ProgramRingInv, ReturnRingInv,
     ResetRingInv DEF Next, AppendStep, ResetStep
<1> QED BY <1>1, <1>2

LEMMA RingInvariant == Spec => []RingInv
BY InitRingInv, StepRingInv, PTL DEF Spec

(* Through failed appends, power failures and interrupted resets, the      *)
(* positions of the records agree with their sequence numbers: the slot    *)
(* flash_store_append reuses is never that of a record newer than another. *)
THEOREM RingOrderHolds == Spec => []RingOrder
BY RingInvariant, PTL DEF RingInv

(* Whatever a scan reports can be read, whole (header-last commit).        *)
THEOREM VisibleIntactHolds == Spec => []VisibleIntact
BY RingInvariant, PTL DEF RingInv

(* A failing or interrupted append loses at most the oldest record of a    *)
(* full window.                                                            *)
THEOREM OnlyOldestErased == Spec => AppendErasesOldest
<1> DEFINE A == \A s \in Slots :
                  (pc \in AppendStages /\ s \in Visible /\ s \notin Visible') =>
                    \E t \in Visible :
                      header[t].sequence = header[s].sequence + SlotCount - 1
<1>1. RingInv /\ [Next]_vars => [A]_vars
  <2> SUFFICES ASSUME RingInv, Next, NEW s \in Slots,
                      pc \in AppendStages, s \in Visible, s \notin Visible'
               PROVE  \E t \in Visible :
                        header[t].sequence = header[s].sequence + SlotCount - 1
    OBVIOUS
  <2> USE DEF RingInv
  <2>1. header' # header
    BY DEF Visible
  <2>2. EraseHeader \/ ProgramHeader
    BY <2>1 DEF Next, AppendStep, ResetStep, AppendBegin, AppendRefused, Idle,
       ErasePayload, WritePayload, FinishPayload, AppendReturns, AppendFails, flash,
       ResetBegin, ResetHeader, ResetPayload, ResetFails, PowerLoss, AppendStages
  <2>3. ~ProgramHeader
    BY ScanAfterProgram
  <2>4. EraseHeader /\ job.slot \in Slots
    BY <2>2, <2>3 DEF TypeOK
  <2>5. s = job.slot
    BY <2>4, ScanAfterErase DEF EraseHeader
  <2>6. /\ JobPlaced /\ JobSlot /\ pc = "eraseHeader"
        /\ \A t \in Slots : header[t].sequence \in Nat
    BY <2>4 DEF JobInv, EraseHeader, AppendStages, TypeOK, Header
  <2>7. PICK t \in Visible \ {s} : job.sequence = header[t].sequence + 1
    BY <2>5, <2>6 DEF JobPlaced
  <2>8. job.sequence - header[s].sequence = SlotCount
    BY <2>5, <2>6 DEF JobSlot
  <2>9. t \in Slots /\ SlotCount \in Nat
    BY StoreAssumption DEF Visible
  <2> QED BY <2>6, <2>7, <2>8, <2>9
<1>2. QED
  BY <1>1, RingInvariant, PTL DEF Spec, AppendErasesOldest

-----------------------------------------------------------------------------
(* Acknowledged records.                                                   *)

LEMMA StepAckedDurable ==
  RingInv /\ AckedDurable /\ [Next]_vars => AckedDurable'
<1> SUFFICES ASSUME RingInv, AckedDurable, [Next]_vars,
                    NEW r \in acked'
             PROVE  \/ \E s \in Visible' : /\ header'[s].sequence = r.sequence
                                           /\ header'[s].number = r.number
                                           /\ header'[s].words = CrcWord
                                           /\ ReadRange(s)' = r.data
                    \/ \E t \in Visible' : header'[t].sequence >= r.sequence + SlotCount - 1
  BY DEF AckedDurable
<1> USE DEF RingInv
<1>1. RingInv' /\ acked' \subseteq [sequence : Nat, number : 0..MaxNumber, data : Payloads]
  BY StepRingInv DEF TypeOK
<1>2. /\ \A s \in Slots : header[s].sequence \in Nat
      /\ Visible \subseteq Slots /\ SlotCount \in Nat /\ r.sequence \in Nat
  BY <1>1, StoreAssumption DEF TypeOK, Header, Visible
<1>3. ASSUME r \in acked
      PROVE  \/ \E s \in Visible : /\ header[s].sequence = r.sequence
                                   /\ header[s].number = r.number
                                   /\ header[s].words = CrcWord
                                   /\ ReadRange(s) = r.data
             \/ \E t \in Visible : header[t].sequence >= r.sequence + SlotCount - 1
  BY <1>3 DEF AckedDurable
<1>4. ASSUME UNCHANGED header, r \in acked
      PROVE  \A s \in Visible : s \in Visible' /\ ReadRange(s)' = ReadRange(s)
  BY <1>1, <1>4 DEF Visible, VisibleIntact
<1>5. CASE UNCHANGED header /\ r \in acked
  BY <1>3, <1>4, <1>5
<1>6. CASE AppendReturns
  <2>1. CASE r \in acked
    BY <1>5, <1>6, <2>1 DEF AppendReturns, flash
  <2>2. CASE r = [sequence |-> job.sequence, number |-> job.number, data |-> job.data]
    <3>1. PICK e \in Slots : e = job.slot
      BY DEF TypeOK
    <3>2. /\ header[e] \in Header /\ header[e].words = CrcWord
          /\ header[e].sequence = job.sequence
          /\ header[e].number = job.number
          /\ header[e].crc = job.data
      BY <1>6, <3>1 DEF AppendReturns, JobInv, JobSlot, AppendStages, CrcWord, TypeOK
    <3>3. e \in Visible /\ ReadRange(e) = job.data
      BY <3>2, ValidFromLengthWord DEF Visible, CrcWord, LengthWord, VisibleIntact
    <3>4. header' = header /\ payload' = payload
      BY <1>6 DEF AppendReturns, flash
    <3>5. /\ e \in Visible' /\ ReadRange(e)' = job.data
          /\ header'[e].sequence = job.sequence
          /\ header'[e].number = job.number
          /\ header'[e].words = CrcWord
      BY <3>2, <3>3, <3>4 DEF Visible, ReadRange
    <3>6. r.sequence = job.sequence /\ r.number = job.number /\ r.data = job.data
      BY <2>2
    <3> QED BY <3>5, <3>6
  <2> QED BY <1>6, <2>1, <2>2 DEF AppendReturns
<1>7. CASE EraseHeader
  <2>1. /\ job.slot \in Slots /\ r \in acked /\ payload' = payload
        /\ JobPlaced /\ JobSlot /\ pc = "eraseHeader"
    BY <1>7 DEF TypeOK, EraseHeader, JobInv, AppendStages
  <2>2. \A s \in Visible \ {job.slot} :
          s \in Visible' /\ header'[s] = header[s] /\ ReadRange(s)' = ReadRange(s)
    BY <1>2, <1>7, <2>1, ScanAfterErase DEF EraseHeader, ReadRange
  <2>3. ASSUME NEW s \in Visible, s = job.slot, header[s].sequence >= r.sequence
        PROVE  \E t \in Visible' : header'[t].sequence >= r.sequence + SlotCount - 1
    <3>1. PICK t \in Visible \ {job.slot} : job.sequence = header[t].sequence + 1
      BY <2>1, <2>3 DEF JobPlaced
    <3>2. job.sequence - header[s].sequence = SlotCount
      BY <2>1, <2>3 DEF JobSlot
    <3>3. header[t].sequence >= r.sequence + SlotCount - 1
      BY <1>2, <2>3, <3>1, <3>2
    <3> QED BY <2>2, <3>1, <3>3
  <2>4. CASE \E s \in Visible : /\ header[s].sequence = r.sequence
                               /\ header[s].number = r.number
                               /\ header[s].words = CrcWord
                               /\ ReadRange(s) = r.data
    <3> PICK s \in Visible : /\ header[s].sequence = r.sequence
                             /\ header[s].number = r.number
                             /\ header[s].words = CrcWord
                             /\ ReadRange(s) = r.data
      BY <2>4
    <3>1. CASE s = job.slot
      BY <1>2, <2>3, <3>1
    <3>2. CASE s # job.slot
      BY <2>2, <3>2
    <3> QED BY <3>1, <3>2
  <2>5. CASE \E t \in Visible : header[t].sequence >= r.sequence + SlotCount - 1
    <3> PICK t \in Visible : header[t].sequence >= r.sequence + SlotCount - 1
      BY <2>5
    <3>1. CASE t = job.slot
      <4>1. header[t].sequence >= r.sequence
        BY <1>2, StoreAssumption
      <4> QED BY <2>3, <3>1, <4>1
    <3>2. CASE t # job.slot
      BY <2>2, <3>2
    <3> QED BY <3>1, <3>2
  <2> QED BY <1>3, <2>1, <2>4, <2>5
<1>8. CASE ProgramHeader
  <2>1. /\ job.slot \in Slots /\ r \in acked /\ payload' = payload /\ job' = job
        /\ header[job.slot].words < CrcWord
        /\ header[job.slot].words > 0 => header[job.slot].sequence = job.sequence
    BY <1>8 DEF TypeOK, ProgramHeader, JobInv, JobSlot, AppendStages
  <2>2. \A s \in Visible \ {job.slot} :
          s \in Visible' /\ header'[s] = header[s] /\ ReadRange(s)' = ReadRange(s)
    BY <1>2, <1>8, <2>1, ScanAfterProgram DEF ReadRange
  <2>3. \A s \in Visible : s \in Visible' /\ header'[s].sequence = header[s].sequence
    <3>1. job.slot \in Visible => header[job.slot].words > 0
      BY <2>1 DEF Visible, HeaderIsValid, TypeOK, Header
    <3> QED BY <1>8, <2>1, <2>2, <3>1, ScanAfterProgram
  <2>4. CASE \E s \in Visible : /\ header[s].sequence = r.sequence
                               /\ header[s].number = r.number
                               /\ header[s].words = CrcWord
                               /\ ReadRange(s) = r.data
    BY <2>1, <2>2, <2>4 DEF CrcWord
  <2>5. CASE \E t \in Visible : header[t].sequence >= r.sequence + SlotCount - 1
    BY <2>3, <2>5
  <2> QED BY <1>3, <2>1, <2>4, <2>5
<1>9. CASE ResetBegin \/ ResetHeader \/ ResetPayload
  BY <1>9 DEF ResetBegin, ResetHeader, ResetPayload, JobInv, ResetStages
<1> QED
  BY <1>5, <1>6, <1>7, <1>8, <1>9 DEF Next, AppendStep, ResetStep, AppendBegin,
     AppendRefused, ErasePayload, WritePayload, FinishPayload, AppendFails, ResetFails,
     PowerLoss, vars

(* A record reported as stored stays stored until SlotCount - 1 newer ones *)
(* exist, whatever fails or loses power in between.                        *)
THEOREM AckedDurableHolds == Spec => []AckedDurable
<1>1. Init => AckedDurable
  BY DEF Init, AckedDurable
<1> QED
  BY <1>1, StepAckedDurable, RingInvariant, PTL DEF Spec

-----------------------------------------------------------------------------
(* Record numbers.                                                         *)

(* The next number is one further on, unless it comes full circle. *)
LEMMA NumberBehindNext ==
  ASSUME NEW m \in 0..MaxNumber, NEW n \in 0..MaxNumber,
         NumberBehind(m, n) + 1 <= MaxNumber
  PROVE  NumberBehind(m, NextNumber(n)) = NumberBehind(m, n) + 1
BY StoreAssumption DEF NumberBehind, NextNumber

LEMMA NumberBehindZero ==
  ASSUME NEW m \in 0..MaxNumber, NEW n \in 0..MaxNumber
  PROVE  NumberBehind(m, n) = 0 <=> m = n
BY StoreAssumption DEF NumberBehind

(* What the invariant of the ring says about types. *)
LEMMA FieldTypes ==
  ASSUME TypeOK
  PROVE  /\ Visible \subseteq Slots
         /\ \A s \in Slots : /\ header[s].sequence \in Nat
                             /\ header[s].number \in 0..MaxNumber
         /\ job.slot \in Slots /\ job.sequence \in Nat /\ job.number \in 0..MaxNumber
BY DEF TypeOK, Header, Visible

LEMMA InitNumberInv == Init => NumberInv
<1> SUFFICES ASSUME Init PROVE NumberInv
  OBVIOUS
<1>1. Visible = {} /\ pc = "idle"
  BY ErasedIsInvalid DEF Init, Visible
<1> QED
  BY <1>1 DEF NumberInv, AppendStages

(* Steps after which a scan reports no record it did not report before,    *)
(* while the job, if there still is one, is the same.                      *)
LEMMA FewerNumberInv ==
  ASSUME NumberInv, \A s \in Visible' : s \in Visible /\ header'[s] = header[s],
         pc' \in AppendStages => pc \in AppendStages /\ job' = job
  PROVE  NumberInv'
BY DEF NumberInv, NumberBehind

LEMMA BeginNumberInv ==
  ASSUME RingInv, NumberInv, NEW data \in Payloads, AppendBegin(data)
  PROVE  NumberInv'
<1>1. RingInv' /\ header' = header /\ Visible' = Visible
  BY BeginRingInv DEF AppendBegin, Visible
<1>2. SUFFICES ASSUME NEW t \in Visible, t # job'.slot
               PROVE  NumberBehind(header[t].number, job'.number) =
                        job'.sequence - header[t].sequence
  BY <1>1 DEF NumberInv, NumberBehind
<1>3. PICK s \in Slots : /\ Newest(s)
                         /\ job'.slot = NextSlot(s)
                         /\ job'.sequence = header[s].sequence + 1
                         /\ job'.number = NextNumber(header[s].number)
  BY <1>2 DEF AppendBegin
<1>4. /\ t \in Slots /\ s \in Visible
      /\ header[t].sequence \in Nat /\ header[s].sequence \in Nat
      /\ header[t].number \in 0..MaxNumber /\ header[s].number \in 0..MaxNumber
  BY <1>3, FieldTypes DEF RingInv, Newest
<1>5. NumberBehind(header[t].number, header[s].number) =
        header[s].sequence - header[t].sequence
  BY <1>2, <1>3, <1>4 DEF NumberInv, Newest
<1>6. header[s].sequence - header[t].sequence = Behind(t, s)
  BY <1>2, <1>3, <1>4 DEF RingInv, RingOrder, Newest
<1>7. Behind(t, NextSlot(s)) = Behind(t, s) + 1 /\ NextSlot(s) \in Slots
  BY <1>2, <1>3, <1>4, BehindNext, NextSlotValue
<1>8. Behind(t, s) \in 0..(SlotCount - 1) /\ Behind(t, NextSlot(s)) \in 0..(SlotCount - 1)
  BY <1>4, <1>7, BehindRange
<1>9. NumberBehind(header[t].number, header[s].number) + 1 <= MaxNumber
  BY <1>5, <1>6, <1>7, <1>8, StoreAssumption
<1>10. NumberBehind(header[t].number, NextNumber(header[s].number)) =
         NumberBehind(header[t].number, header[s].number) + 1
  BY <1>4, <1>9, NumberBehindNext
<1> QED BY <1>3, <1>4, <1>5, <1>10

LEMMA ProgramNumberInv ==
  ASSUME RingInv, NumberInv, ProgramHeader
  PROVE  NumberInv'
<1>1. /\ pc = "writeHeader" /\ pc' = pc /\ job' = job
      /\ pc \in AppendStages
  BY DEF ProgramHeader, AppendStages
<1>2. TypeOK /\ JobAhead
  BY <1>1 DEF RingInv, JobInv
<1>3. PICK e \in Slots : e = job.slot
  BY <1>2, FieldTypes
<1>4. /\ \A s \in Visible' : s \in Visible \/ s = e
      /\ \A s \in Visible' \ {e} : s \in Visible \ {e} /\ s \in Slots /\ header'[s] = header[s]
      /\ header'[e].sequence = job.sequence /\ header'[e].number = job.number
  BY <1>2, <1>3, ScanAfterProgram, FieldTypes
<1>5. /\ job.sequence \in Nat /\ job.number \in 0..MaxNumber
      /\ \A s \in Slots : header[s].sequence \in Nat
  BY <1>2, FieldTypes
<1>6. \A t \in Visible \ {e} :
        /\ header[t].sequence < job.sequence
        /\ NumberBehind(header[t].number, job.number) = job.sequence - header[t].sequence
  BY <1>1, <1>2, <1>3 DEF JobAhead, NumberInv
<1>7. ASSUME NEW s \in Visible', NEW t \in Visible',
             header'[s].sequence <= header'[t].sequence
      PROVE  NumberBehind(header'[s].number, header'[t].number) =
               header'[t].sequence - header'[s].sequence
  <2>1. CASE s = e /\ t = e
    BY <1>4, <1>5, <2>1, NumberBehindZero
  <2>2. CASE s # e /\ t = e
    BY <1>4, <1>6, <2>2
  <2>3. CASE s = e /\ t # e
    BY <1>4, <1>5, <1>6, <1>7, <2>3
  <2>4. CASE s # e /\ t # e
    BY <1>4, <1>7, <2>4 DEF NumberInv
  <2> QED BY <2>1, <2>2, <2>3, <2>4
<1>8. \A t \in Visible' \ {job.slot} :
        NumberBehind(header'[t].number, job.number) = job.sequence - header'[t].sequence
  BY <1>3, <1>4, <1>6
<1> QED
  BY <1>1, <1>7, <1>8 DEF NumberInv, NumberBehind

LEMMA StepNumberInv == RingInv /\ NumberInv /\ [Next]_vars => NumberInv'
<1> SUFFICES ASSUME RingInv, NumberInv, [Next]_vars PROVE NumberInv'
  OBVIOUS
<1>1. CASE \E data \in Payloads : AppendBegin(data)
  BY <1>1, BeginNumberInv
<1>2. CASE ProgramHeader
  BY <1>2, ProgramNumberInv
<1>3. CASE EraseHeader \/ ResetHeader
  <2>1. /\ job.slot \in Slots /\ TypeOK
        /\ header' = [header EXCEPT ![job.slot] = ErasedHeader]
    BY <1>3, FieldTypes DEF RingInv, EraseHeader, ResetHeader
  <2>2. \A s \in Visible' : s \in Visible /\ header'[s] = header[s]
    BY <2>1, ScanAfterErase DEF Visible
  <2>3. pc' \in AppendStages => pc \in AppendStages /\ job' = job
    BY <1>3 DEF EraseHeader, ResetHeader, AppendStages
  <2> QED BY <2>2, <2>3, FewerNumberInv
<1>4. CASE \/ UNCHANGED vars \/ AppendRefused \/ ErasePayload \/ WritePayload
           \/ FinishPayload \/ AppendReturns \/ AppendFails
           \/ ResetBegin \/ ResetPayload \/ ResetFails \/ PowerLoss
  <2>1. header' = header
    BY <1>4 DEF vars, AppendRefused, ErasePayload, WritePayload, FinishPayload,
       AppendReturns, AppendFails, flash, ResetBegin, ResetPayload, ResetFails, PowerLoss
  <2>2. \A s \in Visible' : s \in Visible /\ header'[s] = header[s]
    BY <2>1 DEF Visible
  <2>3. pc' \in AppendStages => pc \in AppendStages /\ job' = job
    BY <1>4 DEF vars, AppendRefused, ErasePayload, WritePayload, FinishPayload,
       AppendReturns, AppendFails, ResetBegin, ResetPayload, ResetFails, PowerLoss,
       AppendStages, Idle
  <2> QED BY <2>2, <2>3, FewerNumberInv
<1> QED
  BY <1>1, <1>2, <1>3, <1>4 DEF Next, AppendStep, ResetStep

(* No two records of the history share a number, so no two LOG files share *)
(* a name (make_history_name), whatever wraps, fails or loses power.       *)
THEOREM DistinctNumbersHold == Spec => []DistinctNumbers
<1>1. RingInv /\ NumberInv => DistinctNumbers
  <2> SUFFICES ASSUME RingInv, NumberInv, NEW s \in Visible, NEW t \in Visible,
                      header[s].number = header[t].number,
                      header[s].sequence <= header[t].sequence
               PROVE  s = t
    BY FieldTypes DEF RingInv, DistinctNumbers
  <2>1. /\ s \in Slots /\ t \in Slots
        /\ header[s].number \in 0..MaxNumber /\ header[t].number \in 0..MaxNumber
        /\ header[s].sequence \in Nat /\ header[t].sequence \in Nat
    BY FieldTypes DEF RingInv
  <2>2. header[t].sequence - header[s].sequence = 0
    BY <2>1, NumberBehindZero DEF NumberInv
  <2>3. Behind(s, t) = 0
    BY <2>2 DEF RingInv, RingOrder
  <2> QED BY <2>1, <2>3, BehindRange
<1> QED
  BY <1>1, InitNumberInv, StepNumberInv, RingInvariant, PTL DEF Spec

-----------------------------------------------------------------------------
(* The refinement of HistoryLog.                                           *)

(* The abstract history. *)
LogNow      == {RecordAt(s) : s \in Visible}
ClearingNow == pc \in ResetStages

(* What a record looks like from outside, in terms of its header. *)
LEMMA RecordFields ==
  ASSUME RingInv, NEW s \in Visible
  PROVE  /\ s \in Slots
         /\ RecordAt(s).sequence = header[s].sequence
         /\ RecordAt(s).number = header[s].number
         /\ RecordAt(s).data = header[s].crc
         /\ header[s].sequence \in Nat
BY DEF RingInv, VisibleIntact, RecordAt, TypeOK, Header, Visible

LEMMA RecordsDiffer ==
  ASSUME RingInv, NEW s \in Visible, NEW t \in Visible,
         header[s].sequence = header[t].sequence
  PROVE  s = t
<1>1. s \in Slots /\ t \in Slots /\ header[s].sequence \in Nat
  BY RecordFields
<1>2. Behind(s, t) = 0
  BY <1>1 DEF RingInv, RingOrder
<1> QED BY <1>1, <1>2, BehindRange

(* The abstract history when a scan still reports the same records ...      *)
LEMMA SameLog ==
  ASSUME Visible' = Visible, \A s \in Visible : RecordAt(s)' = RecordAt(s)
  PROVE  LogNow' = LogNow
BY DEF LogNow

(* ... and when the record of slot e is gone.                               *)
LEMMA LogLoses ==
  ASSUME RingInv, NEW e \in Visible, Visible' = Visible \ {e},
         \A s \in Visible \ {e} : RecordAt(s)' = RecordAt(s)
  PROVE  LogNow' = LogNow \ {RecordAt(e)}
<1>1. \A s \in Visible \ {e} : RecordAt(s) # RecordAt(e)
  BY RecordsDiffer, RecordFields
<1> QED BY <1>1 DEF LogNow

LEMMA RefineErase ==
  ASSUME RingInv, EraseHeader
  PROVE  UNCHANGED <<LogNow, ClearingNow>> \/ Log!ForgetOldest
<1>1. PICK e \in Slots : e = job.slot
  BY DEF RingInv, TypeOK
<1>2. /\ Visible' = Visible \ {e}
      /\ \A s \in Slots \ {e} : header'[s] = header[s]
  BY <1>1, ScanAfterErase DEF RingInv, EraseHeader
<1>3. \A s \in Visible \ {e} : RecordAt(s)' = RecordAt(s)
  BY <1>2 DEF RecordAt, ReadRange, EraseHeader, Visible
<1>4. ~ClearingNow /\ UNCHANGED ClearingNow
  BY DEF EraseHeader, ClearingNow, ResetStages
<1>5. CASE e \notin Visible
  <2>1. Visible' = Visible /\ \A s \in Visible : RecordAt(s)' = RecordAt(s)
    BY <1>2, <1>3, <1>5
  <2> QED BY <1>4, <2>1, SameLog
<1>6. CASE e \in Visible
  <2>1. /\ JobAhead /\ JobPlaced /\ JobSlot /\ pc = "eraseHeader"
        /\ job.sequence \in Nat
    BY DEF RingInv, JobInv, EraseHeader, AppendStages, TypeOK
  <2>2. job.sequence - header[e].sequence = SlotCount
    BY <1>1, <1>6, <2>1 DEF JobSlot
  <2>3. PICK t \in Visible \ {e} : job.sequence = header[t].sequence + 1
    BY <1>1, <1>6, <2>1 DEF JobPlaced
  <2>4. \A s \in Visible : header[s].sequence \in Nat
    BY RecordFields
  <2>5. /\ header[t].sequence - header[e].sequence = SlotCount - 1
        /\ \A s \in Visible : header[s].sequence <= header[t].sequence
    BY <1>1, <1>6, <2>1, <2>2, <2>3, <2>4, StoreAssumption DEF JobAhead
  <2>6. RecordAt(e) \in LogNow /\ RecordAt(t) \in LogNow
    BY <1>6 DEF LogNow
  <2>7. RecordAt(t).sequence - RecordAt(e).sequence = SlotCount - 1
    BY <1>6, <2>5, RecordFields
  <2>8. \A q \in LogNow : q.sequence <= RecordAt(t).sequence
    BY <2>5, RecordFields DEF LogNow
  <2>9. LogNow' = LogNow \ {RecordAt(e)}
    BY <1>2, <1>3, <1>6, LogLoses
  <2> QED
    BY <1>4, <2>6, <2>7, <2>8, <2>9
    DEF Log!ForgetOldest, Log!IsLast, LogNow, ClearingNow
<1> QED BY <1>5, <1>6

LEMMA RefineProgram ==
  ASSUME RingInv, ProgramHeader
  PROVE  UNCHANGED <<LogNow, ClearingNow>> \/ Log!Commit
<1> DEFINE n == [sequence |-> job.sequence, number |-> job.number, data |-> job.data]
<1>1. /\ pc = "writeHeader" /\ pc' = pc /\ job' = job /\ payload' = payload
      /\ JobAhead /\ JobPlaced /\ JobSlot
      /\ job.sequence > 0 /\ job.sequence <= MaxSequence
  BY DEF ProgramHeader, RingInv, JobInv, AppendStages
<1>2. PICK e \in Slots : e = job.slot
  BY DEF RingInv, TypeOK
<1>3. /\ job.sequence \in Nat /\ job.number \in 0..MaxNumber /\ job.data \in Payloads
      /\ \A s \in Slots : header[s] \in Header
  BY <1>1 DEF RingInv, TypeOK, AppendStages
<1>4. /\ \A s \in Slots \ {e} : header'[s] = header[s]
      /\ header'[e].sequence = job.sequence
      /\ header'[e].number = job.number
      /\ header'[e].length = PayloadLength[job.data]
      /\ header'[e].crc = job.data
      /\ Visible \subseteq Visible' /\ Visible' \subseteq Visible \cup {e}
  BY <1>2, ScanAfterProgram DEF RingInv
<1>5. ~ClearingNow /\ UNCHANGED ClearingNow
  BY <1>1 DEF ClearingNow, ResetStages
<1>6. \A s \in Visible \ {e} : RecordAt(s)' = RecordAt(s)
  BY <1>1, <1>4 DEF RecordAt, ReadRange, Visible
<1>7. CASE e \in Visible
  <2>1. header[e].words > 0
    BY <1>3, <1>7, ValidFromLengthWord DEF Visible, LengthWord, Header
  <2>2. RecordAt(e)' = RecordAt(e)
    BY <1>1, <1>2, <1>4, <2>1 DEF JobSlot, RecordAt, ReadRange
  <2>3. Visible' = Visible /\ \A s \in Visible : RecordAt(s)' = RecordAt(s)
    BY <1>4, <1>6, <1>7, <2>2
  <2> QED BY <1>5, <2>3, SameLog
<1>8. CASE e \notin Visible'
  <2>1. Visible' = Visible /\ \A s \in Visible : RecordAt(s)' = RecordAt(s)
    BY <1>4, <1>6, <1>8
  <2> QED BY <1>5, <2>1, SameLog
<1>9. CASE e \notin Visible /\ e \in Visible'
  <2>1. RecordAt(e)' = n
    <3>1. ReadRange(e)' = job.data
      BY <1>4, <1>9, ProgramRingInv DEF RingInv, VisibleIntact
    <3> QED BY <1>4, <3>1 DEF RecordAt
  <2>2. Visible' = Visible \cup {e}
    BY <1>4, <1>9
  <2>3. LogNow' = LogNow \cup {n}
    BY <1>6, <1>9, <2>1, <2>2 DEF LogNow
  <2>4. n \in [sequence : 1..MaxSequence, number : 0..MaxNumber, data : Payloads]
    BY <1>1, <1>3, StoreAssumption
  <2>5. \A s \in Visible : /\ header[s].sequence < job.sequence
                          /\ job.sequence - header[s].sequence < SlotCount
    <3> SUFFICES ASSUME NEW s \in Visible
                 PROVE  /\ header[s].sequence < job.sequence
                        /\ job.sequence - header[s].sequence < SlotCount
      OBVIOUS
    <3>1. s \in Slots /\ s # e
      BY <1>9 DEF Visible
    <3>2. Behind(s, e) < SlotCount
      BY <3>1, BehindRange, StoreAssumption
    <3> QED BY <1>1, <1>2, <3>1, <3>2 DEF JobAhead
  <2>6. \A q \in LogNow : n.sequence - q.sequence < SlotCount
    BY <2>5, RecordFields DEF LogNow
  <2>7. \/ LogNow = {} /\ n.sequence = 1 /\ n.number = IF MaxNumber = 0 THEN 0 ELSE 1
        \/ \E r \in LogNow : /\ \A q \in LogNow : q.sequence <= r.sequence
                             /\ n.sequence = r.sequence + 1
                             /\ n.number = IF r.number = MaxNumber THEN 0 ELSE r.number + 1
    <3>1. CASE Visible \subseteq {e} /\ job.sequence = 1 /\ job.number = 1
      <4>1. LogNow = {}
        BY <1>9, <3>1 DEF LogNow
      <4> QED BY <3>1, <4>1, StoreAssumption
    <3>2. CASE \E t \in Visible \ {e} : /\ job.sequence = header[t].sequence + 1
                                       /\ job.number = NextNumber(header[t].number)
      <4>1. PICK t \in Visible \ {e} : /\ job.sequence = header[t].sequence + 1
                                      /\ job.number = NextNumber(header[t].number)
        BY <3>2
      <4>2. \A s \in Visible : header[s].sequence <= header[t].sequence
        BY <1>3, <2>5, <4>1, RecordFields
      <4>3. \A q \in LogNow : q.sequence <= RecordAt(t).sequence
        BY <4>2, RecordFields DEF LogNow
      <4>4. /\ RecordAt(t) \in LogNow
            /\ RecordAt(t).sequence = header[t].sequence
            /\ RecordAt(t).number = header[t].number
        BY RecordFields DEF LogNow
      <4> QED BY <4>1, <4>3, <4>4 DEF NextNumber
    <3> QED BY <1>1, <1>2, <3>1, <3>2 DEF JobPlaced
  <2> QED
    BY <1>5, <2>3, <2>4, <2>6, <2>7, Zenon
    DEF Log!Commit, Log!Record, Log!IsLast, Log!Follows, LogNow, ClearingNow
<1> QED BY <1>4, <1>7, <1>8, <1>9

(* Steps that change neither a header nor the payload of a record.          *)
LEMMA RefineQuiet ==
  ASSUME UNCHANGED header, \A s \in Visible : payload'[s] = payload[s]
  PROVE  LogNow' = LogNow
<1>1. Visible' = Visible /\ \A s \in Visible : RecordAt(s)' = RecordAt(s)
  BY DEF Visible, RecordAt, ReadRange
<1> QED BY <1>1, SameLog

LEMMA RefineReset ==
  ASSUME RingInv, ResetHeader
  PROVE  UNCHANGED <<LogNow, ClearingNow>> \/ Log!ClearOne
<1>1. PICK e \in Slots : e = job.slot
  BY DEF RingInv, TypeOK
<1>2. /\ Visible' = Visible \ {e}
      /\ \A s \in Slots \ {e} : header'[s] = header[s]
  BY <1>1, ScanAfterErase DEF RingInv, ResetHeader
<1>3. \A s \in Visible \ {e} : RecordAt(s)' = RecordAt(s)
  BY <1>2 DEF RecordAt, ReadRange, ResetHeader, Visible
<1>4. ClearingNow /\ ClearingNow'
  BY DEF ResetHeader, ClearingNow, ResetStages
<1>5. CASE e \notin Visible
  BY <1>2, <1>3, <1>4, <1>5, SameLog
<1>6. CASE e \in Visible
  <2>1. RecordAt(e) \in LogNow /\ LogNow' = LogNow \ {RecordAt(e)}
    BY <1>2, <1>3, <1>6, LogLoses DEF LogNow
  <2> QED BY <1>4, <2>1 DEF Log!ClearOne, LogNow, ClearingNow
<1> QED BY <1>5, <1>6

(* The payload sector of a slot is touched only while it holds no record.   *)
LEMMA PayloadQuiet ==
  ASSUME RingInv, ErasePayload \/ WritePayload \/ FinishPayload \/ ResetPayload
  PROVE  UNCHANGED header /\ \A s \in Visible : payload'[s] = payload[s]
<1>1. PICK e \in Slots : e = job.slot
  BY DEF RingInv, TypeOK
<1>2. header[e].words = 0
  BY <1>1 DEF RingInv, JobInv, JobSlot, ErasePayload, WritePayload, FinishPayload,
     ResetPayload, AppendStages
<1>3. e \notin Visible
  BY <1>2 DEF Visible, HeaderIsValid
<1> QED
  BY <1>1, <1>3 DEF ErasePayload, WritePayload, FinishPayload, ResetPayload, RingInv,
     TypeOK, Visible

LEMMA RefineStep ==
  ASSUME RingInv, [Next]_vars
  PROVE  UNCHANGED <<LogNow, ClearingNow>> \/ Log!Next
<1>1. CASE EraseHeader
  BY <1>1, RefineErase DEF Log!Next
<1>2. CASE ProgramHeader
  BY <1>2, RefineProgram DEF Log!Next
<1>3. CASE ResetHeader
  BY <1>3, RefineReset DEF Log!Next
<1>4. CASE ErasePayload \/ WritePayload \/ FinishPayload
  <2>1. LogNow' = LogNow
    BY <1>4, PayloadQuiet, RefineQuiet
  <2>2. ClearingNow' = ClearingNow
    BY <1>4 DEF ErasePayload, WritePayload, FinishPayload, ClearingNow, ResetStages
  <2> QED BY <2>1, <2>2
<1>5. CASE \/ \E data \in Payloads : AppendBegin(data)
           \/ UNCHANGED vars \/ AppendRefused \/ AppendReturns \/ AppendFails
  <2>1. LogNow' = LogNow
    BY <1>5, RefineQuiet DEF vars, AppendBegin, AppendRefused, AppendReturns, AppendFails,
       flash
  <2>2. ClearingNow' = ClearingNow
    BY <1>5 DEF vars, AppendBegin, AppendRefused, AppendReturns, AppendFails, Idle,
       AppendStages, ClearingNow, ResetStages
  <2> QED BY <2>1, <2>2
<1>6. CASE ResetBegin
  <2>1. LogNow' = LogNow
    BY <1>6, RefineQuiet DEF ResetBegin
  <2>2. ~ClearingNow /\ ClearingNow'
    BY <1>6 DEF ResetBegin, Idle, ClearingNow, ResetStages
  <2>3. Log!BeginClear
    BY <2>1, <2>2 DEF Log!BeginClear, LogNow, ClearingNow
  <2> QED BY <2>3 DEF Log!Next
<1>7. CASE ResetPayload \/ ResetFails \/ PowerLoss
  <2>1. LogNow' = LogNow
    BY <1>7, PayloadQuiet, RefineQuiet DEF ResetFails, PowerLoss
  <2>2. ClearingNow' = ClearingNow \/ (ClearingNow /\ ~ClearingNow')
    BY <1>7 DEF ResetPayload, ResetFails, PowerLoss, ClearingNow, ResetStages
  <2>3. ClearingNow /\ ~ClearingNow' => Log!EndClear
    BY <2>1 DEF Log!EndClear, LogNow, ClearingNow
  <2> QED BY <2>1, <2>2, <2>3 DEF Log!Next
<1> QED
  BY <1>1, <1>2, <1>3, <1>4, <1>5, <1>6, <1>7 DEF Next, AppendStep, ResetStep

(* The ring implements the history its callers rely on: one record per      *)
(* successful append, consecutive sequence numbers and numbers, and nothing *)
(* forgotten but the oldest record of a full window, or by a reset.         *)
THEOREM RingImplementsHistory == Spec => RefinesHistoryLog
<1>1. Init => Log!Init
  <2> SUFFICES ASSUME Init PROVE Log!Init
    OBVIOUS
  <2>1. Visible = {} /\ pc = "idle"
    BY ErasedIsInvalid DEF Init, Visible
  <2> QED BY <2>1 DEF Log!Init, ResetStages
<1>2. RingInv /\ [Next]_vars => [Log!Next]_(Log!vars)
  BY RefineStep DEF Log!vars, LogNow, ClearingNow
<1> QED
  BY <1>1, <1>2, RingInvariant, PTL DEF Spec, RefinesHistoryLog, Log!Spec

-----------------------------------------------------------------------------
(* No record is missing.                                                   *)

(* A record with sequence number q is there; so many newer ones are that   *)
(* its slot has been reused.                                               *)
Present(q) == \E s \in Visible : header[s].sequence = q
Passed(q)  == \E t \in Visible : header[t].sequence >= q + SlotCount - 1

(* From an acknowledged record to the newest one no record is missing but  *)
(* the overtaken ones: what an append that fails leaves out is never       *)
(* numbered, and what it erases is overtaken.                              *)
Unbroken ==
  \A r \in acked :
    /\ r.sequence > 0
    /\ \A t \in Visible : \A q \in r.sequence..header[t].sequence :
         Present(q) \/ Passed(q)

(* The numbers of the records are consecutive: true until a reset is cut   *)
(* off.                                                                    *)
NoGaps ==
  \A s, t \in Visible : \A q \in header[s].sequence..header[t].sequence : Present(q)

(* Programming a header keeps every record and adds the next number.       *)
LEMMA ProgramKeeps ==
  ASSUME RingInv, ProgramHeader
  PROVE  /\ job.slot \in Slots /\ Visible \subseteq Visible'
         /\ Visible' \subseteq Visible \cup {job.slot}
         /\ \A s \in Visible : header'[s].sequence = header[s].sequence
         /\ header'[job.slot].sequence = job.sequence
         /\ job' = job /\ pc = "writeHeader" /\ pc' = pc /\ acked' = acked
         /\ job.sequence > 0 /\ JobAhead /\ JobPlaced
<1>1. /\ pc = "writeHeader" /\ pc' = pc /\ job' = job /\ acked' = acked
      /\ JobAhead /\ JobPlaced /\ JobSlot /\ job.sequence > 0
  BY DEF ProgramHeader, RingInv, JobInv, AppendStages
<1>2. \A s \in Slots : header[s] \in Header
  BY DEF RingInv, TypeOK
<1>3. job.slot \in Visible => header[job.slot].sequence = job.sequence
  BY <1>1, <1>2 DEF JobSlot, Visible, HeaderIsValid, Header
<1> QED
  BY <1>1, <1>3, ScanAfterProgram, FieldTypes DEF RingInv

(* Erasing a slot loses at most the record its newest one has overtaken.   *)
LEMMA EraseKeeps ==
  ASSUME RingInv, EraseHeader
  PROVE  /\ job.slot \in Slots
         /\ Visible' = Visible \ {job.slot}
         /\ \A s \in Visible' : header'[s] = header[s]
         /\ job' = job /\ acked' = acked
         /\ JobAhead
         /\ job.slot \in Visible =>
              \E u \in Visible' : 
                header[u].sequence = header[job.slot].sequence + SlotCount - 1
<1>1. PICK e \in Slots : e = job.slot
  BY FieldTypes DEF RingInv
<1>2. /\ Visible' = Visible \ {e} /\ \A s \in Slots \ {e} : header'[s] = header[s]
      /\ Visible \subseteq Slots /\ SlotCount \in Nat
      /\ \A s \in Slots : header[s].sequence \in Nat
  BY <1>1, ScanAfterErase, FieldTypes, StoreAssumption DEF RingInv, EraseHeader
<1>3. /\ JobAhead /\ JobPlaced /\ JobSlot /\ pc = "eraseHeader"
      /\ job' = job /\ acked' = acked
  BY DEF EraseHeader, RingInv, JobInv, AppendStages
<1>4. ASSUME e \in Visible
      PROVE  \E u \in Visible' : 
               header[u].sequence = header[e].sequence + SlotCount - 1
  <2>1. PICK u \in Visible \ {e} : job.sequence = header[u].sequence + 1
    BY <1>1, <1>3, <1>4 DEF JobPlaced
  <2>2. job.sequence - header[e].sequence = SlotCount
    BY <1>1, <1>3, <1>4 DEF JobSlot
  <2>3. header[u].sequence = header[e].sequence + SlotCount - 1
    BY <1>2, <2>1, <2>2
  <2> QED BY <1>2, <2>1, <2>3
<1> QED BY <1>1, <1>2, <1>3, <1>4

LEMMA StepUnbroken == RingInv /\ Unbroken /\ [Next]_vars => Unbroken'
<1> SUFFICES ASSUME RingInv, Unbroken, [Next]_vars PROVE Unbroken'
  OBVIOUS
<1>1. /\ Visible \subseteq Slots /\ SlotCount \in Nat /\ SlotCount > 1
      /\ \A s \in Slots : header[s].sequence \in Nat
      /\ \A r \in acked : r.sequence \in Nat
      /\ job.slot \in Slots /\ job.sequence \in Nat
  BY FieldTypes, StoreAssumption DEF RingInv, TypeOK
<1>2. CASE EraseHeader
  <2>1. PICK e \in Slots : e = job.slot
    BY <1>1
  <2>2. /\ Visible' = Visible \ {e} /\ acked' = acked
        /\ \A s \in Visible' : header'[s] = header[s]
        /\ e \in Visible =>
             \E u \in Visible' : header[u].sequence = header[e].sequence + SlotCount - 1
    BY <1>2, <2>1, EraseKeeps
  <2> SUFFICES ASSUME NEW r \in acked, NEW t \in Visible',
                      NEW q \in r.sequence..header'[t].sequence
               PROVE  Present(q)' \/ Passed(q)'
    BY <2>2 DEF Unbroken
  <2>3. t \in Visible /\ header'[t].sequence = header[t].sequence /\ q \in Nat
    BY <1>1, <2>2
  <2>4. Present(q) \/ Passed(q)
    BY <2>3 DEF Unbroken
  <2>5. CASE Present(q)
    <3>1. PICK s \in Visible : header[s].sequence = q
      BY <2>5 DEF Present
    <3>2. CASE s = e
      BY <1>1, <2>2, <3>1, <3>2 DEF Passed
    <3>3. CASE s # e
      BY <2>2, <3>1, <3>3 DEF Present
    <3> QED BY <3>2, <3>3
  <2>6. CASE Passed(q)
    <3>1. PICK s \in Visible : header[s].sequence >= q + SlotCount - 1
      BY <2>6 DEF Passed
    <3>2. CASE s = e
      <4>1. PICK u \in Visible' : header[u].sequence = header[e].sequence + SlotCount - 1
        BY <2>2, <3>2
      <4>2. header[u].sequence >= q + SlotCount - 1
        BY <1>1, <2>3, <3>1, <3>2, <4>1
      <4> QED BY <2>2, <4>2 DEF Passed
    <3>3. CASE s # e
      BY <2>2, <3>1, <3>3 DEF Passed
    <3> QED BY <3>2, <3>3
  <2> QED BY <2>4, <2>5, <2>6
<1>3. CASE ProgramHeader
  <2>1. PICK e \in Slots : e = job.slot
    BY <1>1
  <2>2. /\ Visible \subseteq Visible' /\ Visible' \subseteq Visible \cup {e}
        /\ \A s \in Visible : header'[s].sequence = header[s].sequence
        /\ header'[e].sequence = job.sequence /\ acked' = acked
        /\ JobPlaced
    BY <1>3, <2>1, ProgramKeeps
  <2>3. \A q : (Present(q) => Present(q)') /\ (Passed(q) => Passed(q)')
    BY <2>2 DEF Present, Passed
  <2> SUFFICES ASSUME NEW r \in acked, NEW t \in Visible',
                      NEW q \in r.sequence..header'[t].sequence
               PROVE  Present(q)' \/ Passed(q)'
    BY <2>2 DEF Unbroken
  <2>4. CASE t \in Visible
    BY <2>2, <2>3, <2>4 DEF Unbroken
  <2>5. CASE t \notin Visible /\ q = job.sequence
    BY <2>2, <2>5 DEF Present
  <2>6. CASE t \notin Visible /\ q # job.sequence
    <3>1. t = e /\ q \in r.sequence..(job.sequence - 1) /\ r.sequence > 0
      BY <1>1, <2>2, <2>6 DEF Unbroken
    <3>2. PICK u \in Visible : job.sequence = header[u].sequence + 1
      BY <1>1, <2>2, <3>1 DEF JobPlaced
    <3>3. q \in r.sequence..header[u].sequence
      BY <1>1, <3>1, <3>2
    <3> QED BY <2>3, <3>3 DEF Unbroken
  <2> QED BY <2>4, <2>5, <2>6
<1>4. CASE AppendReturns
  <2>1. PICK e \in Slots : e = job.slot
    BY <1>1
  <2>2. /\ header' = header /\ Visible' = Visible
        /\ \A r \in acked' : r \in acked \/ r.sequence = job.sequence
        /\ JobAhead /\ JobSlot /\ pc = "writeHeader" /\ job.sequence > 0
        /\ header[e].words = CrcWord
    BY <1>4, <2>1 DEF AppendReturns, flash, Visible, RingInv, JobInv, AppendStages
  <2>3. header[e].sequence = job.sequence
    BY <2>1, <2>2 DEF JobSlot, CrcWord
  <2>4. ASSUME NEW t \in Visible, NEW q \in job.sequence..header[t].sequence
        PROVE  t = e /\ q = header[e].sequence
    BY <1>1, <2>1, <2>2, <2>3 DEF JobAhead
  <2>5. \A q : (Present(q)' <=> Present(q)) /\ (Passed(q)' <=> Passed(q))
    BY <2>2 DEF Present, Passed
  <2> SUFFICES ASSUME NEW r \in acked'
               PROVE  /\ r.sequence > 0
                      /\ \A t \in Visible : \A q \in r.sequence..header[t].sequence :
                           Present(q) \/ Passed(q)
    BY <2>2, <2>5 DEF Unbroken
  <2>6. CASE r \in acked
    BY <2>6 DEF Unbroken
  <2>7. CASE r.sequence = job.sequence
    BY <2>2, <2>4, <2>7 DEF Present
  <2> QED BY <2>2, <2>6, <2>7
<1>5. CASE ResetBegin \/ ResetHeader \/ ResetPayload \/ ResetFails
  <2>1. acked' = {}
    BY <1>5 DEF ResetBegin, ResetHeader, ResetPayload, ResetFails, RingInv, JobInv, ResetStages
  <2> QED BY <2>1 DEF Unbroken
<1>6. CASE header' = header /\ acked' = acked
  BY <1>6 DEF Unbroken, Present, Passed, Visible
<1> QED
  BY <1>2, <1>3, <1>4, <1>5, <1>6 DEF Next, AppendStep, ResetStep, AppendBegin,
     AppendRefused, ErasePayload, WritePayload, FinishPayload, AppendFails, PowerLoss, vars

LEMMA StepNoGaps == RingInv /\ NoGaps /\ [Next]_vars => NoGaps' \/ ResetHeader
<1> SUFFICES ASSUME RingInv, NoGaps, [Next]_vars, ~ResetHeader PROVE NoGaps'
  OBVIOUS
<1>1. /\ Visible \subseteq Slots /\ SlotCount \in Nat /\ SlotCount > 1
      /\ \A s \in Slots : header[s].sequence \in Nat
      /\ job.slot \in Slots /\ job.sequence \in Nat
  BY FieldTypes, StoreAssumption DEF RingInv
<1>2. CASE EraseHeader
  <2>1. PICK e \in Slots : e = job.slot
    BY <1>1
  <2>2. /\ Visible' = Visible \ {e} /\ JobAhead
        /\ \A s \in Visible' : header'[s] = header[s]
        /\ pc = "eraseHeader" /\ JobSlot
    BY <1>2, <2>1, EraseKeeps DEF EraseHeader, RingInv, JobInv, AppendStages
  <2> SUFFICES ASSUME NEW s \in Visible', NEW t \in Visible',
                      NEW q \in header[s].sequence..header[t].sequence
               PROVE  Present(q)'
    BY <2>2 DEF NoGaps
  <2>3. PICK u \in Visible : header[u].sequence = q
    BY <2>2 DEF NoGaps, Present
  <2>4. u # e
    <3> SUFFICES ASSUME u = e PROVE FALSE
      OBVIOUS
    <3>1. job.sequence - q = SlotCount
      BY <2>1, <2>2, <2>3 DEF JobSlot
    <3>2. job.sequence - header[s].sequence = Behind(s, e)
      BY <2>1, <2>2 DEF JobAhead
    <3>3. s \in Slots /\ Behind(s, e) <= SlotCount - 1 /\ Behind(s, e) \in Int
      BY <1>1, <2>2, BehindRange
    <3> QED BY <1>1, <2>2, <3>1, <3>2, <3>3
  <2> QED BY <2>2, <2>3, <2>4 DEF Present
<1>3. CASE ProgramHeader
  <2>1. PICK e \in Slots : e = job.slot
    BY <1>1
  <2>2. /\ Visible \subseteq Visible' /\ Visible' \subseteq Visible \cup {e}
        /\ \A s \in Visible : header'[s].sequence = header[s].sequence
        /\ header'[e].sequence = job.sequence
        /\ JobAhead /\ JobPlaced
    BY <1>3, <2>1, ProgramKeeps
  <2>3. \A q : Present(q) => Present(q)'
    BY <2>2 DEF Present
  <2> SUFFICES ASSUME NEW s \in Visible', NEW t \in Visible',
                      NEW q \in header'[s].sequence..header'[t].sequence
               PROVE  Present(q)'
    BY DEF NoGaps
  <2>4. CASE s \in Visible /\ t \in Visible
    BY <2>2, <2>3, <2>4 DEF NoGaps
  <2>5. CASE q = header'[s].sequence \/ q = header'[t].sequence
    BY <2>5 DEF Present
  <2>6. CASE s \notin Visible /\ t \in Visible
    <3>1. s = e /\ t # e /\ header'[t].sequence = header[t].sequence
      BY <2>2, <2>6
    <3>2. header[t].sequence < job.sequence
      BY <2>1, <2>2, <2>6, <3>1 DEF JobAhead
    <3> QED BY <1>1, <2>2, <2>6, <3>1, <3>2
  <2>7. CASE s \in Visible /\ t \notin Visible /\ q # job.sequence
    <3>1. t = e /\ s # e /\ q \in header[s].sequence..(job.sequence - 1)
      BY <1>1, <2>2, <2>7
    <3>2. PICK u \in Visible : job.sequence = header[u].sequence + 1
      BY <2>1, <2>2, <2>7, <3>1 DEF JobPlaced
    <3>3. q \in header[s].sequence..header[u].sequence
      BY <1>1, <3>1, <3>2
    <3> QED BY <2>3, <2>7, <3>3 DEF NoGaps
  <2>8. CASE s \notin Visible /\ t \notin Visible
    BY <1>1, <2>2, <2>5, <2>8
  <2>9. CASE t \notin Visible /\ q = job.sequence
    BY <2>2, <2>5, <2>9
  <2> QED BY <2>4, <2>6, <2>7, <2>8, <2>9
<1>4. CASE header' = header
  BY <1>4 DEF NoGaps, Present, Visible
<1> QED
  BY <1>2, <1>3, <1>4 DEF Next, AppendStep, ResetStep, AppendBegin,
     AppendRefused, ErasePayload, WritePayload, FinishPayload, AppendFails, PowerLoss, vars,
     AppendReturns, flash, ResetBegin, ResetPayload, ResetFails

(* From an acknowledged record up to the newest one no sequence number is  *)
(* missing but those SlotCount - 1 newer records have overtaken, whatever  *)
(* fails or loses power: a LOG that counts back from the newest record     *)
(* meets every acknowledged one.  It speaks of records acknowledged since  *)
(* the last reset began; what a reset that was cut off left in the ring    *)
(* does have gaps.                                                         *)
THEOREM UnbrokenHolds == Spec => []Unbroken
<1>1. Init => Unbroken
  BY DEF Init, Unbroken
<1> QED
  BY <1>1, StepUnbroken, RingInvariant, PTL DEF Spec

-----------------------------------------------------------------------------
(* Counting records.                                                       *)

(* Of finitely many subsets of a finite set one contains no other. *)
LEMMA LeastSet ==
  ASSUME NEW U, IsFiniteSet(U), NEW C \in SUBSET (SUBSET U), C # {}
  PROVE  \E m \in C : \A n \in C : n \subseteq m => n = m
<1>1. IsWellFoundedOn(StrictSubsetOrdering(U), SUBSET U)
  BY FS_StrictSubsetOrderingWellFounded, FS_FiniteSubsetsOfFinite
<1>2. PICK m \in C : \A n \in C : ~(<<n, m>> \in StrictSubsetOrdering(U))
  BY <1>1, WFMin
<1> QED BY <1>2 DEF StrictSubsetOrdering

(* A finite set has an element at which a function takes its largest value. *)
LEMMA LargestValue ==
  ASSUME NEW V, IsFiniteSet(V), V # {}, NEW f \in [V -> Int]
  PROVE  \E m \in V : \A n \in V : f[n] <= f[m]
<1> DEFINE Above(s) == {t \in V : f[t] > f[s]}
           C == {Above(s) : s \in V}
<1> HIDE DEF Above
<1>1. C \in SUBSET (SUBSET V) /\ C # {}
  <2>1. \A s \in V : Above(s) \subseteq V
    BY DEF Above
  <2>2. C \subseteq SUBSET V
    BY <2>1
  <2>3. PICK s \in V : TRUE
    OBVIOUS
  <2>4. Above(s) \in C
    OBVIOUS
  <2> QED BY <2>2, <2>4
<1>2. PICK m \in V : \A n \in V : Above(n) \subseteq Above(m) => Above(n) = Above(m)
  <2>1. PICK c \in C : \A n \in C : n \subseteq c => n = c
    <3> HIDE DEF C
    <3> QED BY <1>1, LeastSet
  <2>2. PICK m \in V : c = Above(m)
    OBVIOUS
  <2>3. \A n \in V : Above(n) \in C
    OBVIOUS
  <2> HIDE DEF C
  <2> QED BY <2>1, <2>2, <2>3
<1>3. ASSUME NEW n \in V, f[n] > f[m] PROVE FALSE
  <2>1. n \in Above(m) /\ n \notin Above(n) /\ Above(n) \subseteq Above(m)
    BY <1>3 DEF Above
  <2> QED BY <1>2, <2>1
<1> QED BY <1>3

(* A scan reports finitely many records. *)
LEMMA VisibleFinite == IsFiniteSet(Visible) /\ \A V \in SUBSET Visible : IsFiniteSet(V)
<1>1. IsFiniteSet(Slots)
  BY FS_Interval, StoreAssumption DEF Slots
<1>2. Visible \in SUBSET Slots
  BY DEF Visible
<1> QED BY <1>1, <1>2, FS_Subset

(* Records whose sequence numbers cover Q are at least as many as Q ...  *)
LEMMA AtLeast ==
  ASSUME RingInv, NEW Q, NEW R \in SUBSET Visible,
         \A q \in Q : \E s \in R : header[s].sequence = q
  PROVE  IsFiniteSet(Q) /\ Cardinality(Q) <= Cardinality(R)
<1> DEFINE f == [q \in Q |-> CHOOSE s \in R : header[s].sequence = q]
<1>1. \A q \in Q : f[q] \in R /\ header[f[q]].sequence = q
  OBVIOUS
<1>2. f \in [Q -> R] /\ \A p, q \in Q : f[p] = f[q] => p = q
  <2>1. f \in [Q -> R]
    BY <1>1
  <2>2. ASSUME NEW p \in Q, NEW q \in Q, f[p] = f[q] PROVE p = q
    <3> HIDE DEF f
    <3> QED BY <1>1, <2>2
  <2> QED BY <2>1, <2>2
<1>3. f \in Injection(Q, R)
  BY <1>2 DEF Injection, IsInjective
<1> QED BY <1>3, VisibleFinite, FS_Injection

(* A history that is not empty has a newest record. *)
LEMMA NewestExists ==
  ASSUME RingInv, Visible # {}
  PROVE  \E s \in Visible : Newest(s)
<1> DEFINE f == [s \in Visible |-> header[s].sequence]
<1>1. f \in [Visible -> Int]
  BY FieldTypes DEF RingInv
<1>2. PICK m \in Visible : \A s \in Visible : f[s] <= f[m]
  BY <1>1, VisibleFinite, LargestValue
<1> QED BY <1>2 DEF Newest

(* A record that SlotCount - 1 newer ones have overtaken has that many      *)
(* newer ones, of which an exclusion can take one away.                     *)
LEMMA EnoughNewer ==
  ASSUME RingInv, Unbroken, NEW r \in acked, Passed(r.sequence), NEW c
  PROVE  LET R == {s \in Visible : header[s].sequence > r.sequence
                                   /\ header[s].sequence # c}
         IN  IsFiniteSet(R) /\ Cardinality(R) >= SlotCount - 2
<1> DEFINE R == {s \in Visible : header[s].sequence > r.sequence /\ header[s].sequence # c}
<1>1. /\ Visible \subseteq Slots /\ SlotCount \in Nat /\ SlotCount > 1
      /\ \A s \in Slots : header[s].sequence \in Nat
      /\ r.sequence \in Nat
  BY FieldTypes, StoreAssumption DEF RingInv, TypeOK
<1>2. PICK m \in Visible : Newest(m)
  BY NewestExists DEF Passed
<1>3. PICK n \in Nat : /\ n = header[m].sequence
                       /\ n >= r.sequence + SlotCount - 1
                       /\ \A s \in Visible : header[s].sequence <= n
  <2>1. PICK t \in Visible : header[t].sequence >= r.sequence + SlotCount - 1
    BY DEF Passed
  <2>2. header[m].sequence \in Nat /\ header[t].sequence <= header[m].sequence
    BY <1>1, <1>2 DEF Newest
  <2>3. header[m].sequence >= r.sequence + SlotCount - 1
    BY <1>1, <2>1, <2>2
  <2> QED BY <1>2, <2>2, <2>3 DEF Newest
<1> DEFINE I == (n - SlotCount + 2)..n
           J == I \ {c}
<1>4. IsFiniteSet(I) /\ Cardinality(I) = SlotCount - 1
  <2>1. n - SlotCount + 2 \in Int /\ n \in Int /\ ~(n - SlotCount + 2 > n)
    BY <1>1
  <2>2. IsFiniteSet(I) /\ Cardinality(I) = n - (n - SlotCount + 2) + 1
    BY <2>1, FS_Interval
  <2> QED BY <1>1, <2>2
<1>5. IsFiniteSet(J) /\ Cardinality(J) \in Nat /\ Cardinality(J) >= SlotCount - 2
  <2>1. IsFiniteSet(J) /\ Cardinality(J) \in {Cardinality(I), Cardinality(I) - 1}
    BY <1>4, FS_RemoveElement
  <2>2. Cardinality(J) \in Nat
    BY <2>1, FS_CardinalityType
  <2> QED BY <1>1, <1>4, <2>1, <2>2
<1>6. \A q \in J : \E s \in R : header[s].sequence = q
  <2> SUFFICES ASSUME NEW q \in J PROVE \E s \in R : header[s].sequence = q
    OBVIOUS
  <2>1. q \in r.sequence..header[m].sequence /\ q > r.sequence /\ q # c /\ q \in Int
    BY <1>1, <1>3
  <2>2. ~Passed(q)
    BY <1>1, <1>3, <2>1 DEF Passed
  <2>3. Present(q)
    BY <2>1, <2>2 DEF Unbroken
  <2> QED BY <2>1, <2>3 DEF Present
<1>7. R \in SUBSET Visible
  OBVIOUS
<1> HIDE DEF R, J
<1>8. IsFiniteSet(R) /\ Cardinality(R) \in Nat /\ Cardinality(J) <= Cardinality(R)
  BY <1>6, <1>7, AtLeast, VisibleFinite, FS_CardinalityType
<1>9. Cardinality(R) >= SlotCount - 2
  BY <1>1, <1>5, <1>8
<1> QED BY <1>8, <1>9 DEF R

(* Where there is no gap, a record with fewer than m newer ones, one of     *)
(* them not counted, is at most m sequence numbers behind any other.        *)
LEMMA FewNewer ==
  ASSUME RingInv, NoGaps, NEW e \in Visible, NEW t \in Visible, NEW c, NEW m \in Nat,
         Cardinality({s \in Visible : header[s].sequence > header[e].sequence
                                      /\ header[s].sequence # c}) < m
  PROVE  header[t].sequence - header[e].sequence <= m
<1> DEFINE R == {s \in Visible : header[s].sequence > header[e].sequence
                                 /\ header[s].sequence # c}
<1>1. header[e].sequence \in Nat /\ header[t].sequence \in Nat
  BY FieldTypes DEF RingInv
<1>2. SUFFICES ASSUME header[t].sequence - header[e].sequence > m
               PROVE  FALSE
  BY <1>1
<1> DEFINE I == (header[e].sequence + 1)..header[t].sequence
           J == I \ {c}
<1>3. IsFiniteSet(I) /\ Cardinality(I) = header[t].sequence - header[e].sequence
  <2> DEFINE a == header[e].sequence + 1
             b == header[t].sequence
  <2>1. a \in Int /\ b \in Int /\ ~(a > b) /\ b - a + 1 = header[t].sequence - header[e].sequence
    BY <1>1, <1>2
  <2> HIDE DEF a, b
  <2>2. IsFiniteSet(a..b) /\ Cardinality(a..b) = b - a + 1
    BY <2>1, FS_Interval
  <2> QED BY <2>1, <2>2 DEF a, b
<1>4. IsFiniteSet(J) /\ Cardinality(J) \in Nat /\ Cardinality(J) >= m
  <2>1. IsFiniteSet(J) /\ Cardinality(J) \in {Cardinality(I), Cardinality(I) - 1}
    BY <1>3, FS_RemoveElement
  <2>2. Cardinality(J) \in Nat
    BY <2>1, FS_CardinalityType
  <2> QED BY <1>1, <1>2, <1>3, <2>1, <2>2
<1>5. \A q \in J : \E s \in R : header[s].sequence = q
  <2> SUFFICES ASSUME NEW q \in J PROVE \E s \in R : header[s].sequence = q
    OBVIOUS
  <2>1. /\ q \in header[e].sequence..header[t].sequence
        /\ q > header[e].sequence /\ q # c /\ q \in Int
    BY <1>1
  <2>2. Present(q)
    BY <2>1 DEF NoGaps
  <2> QED BY <2>1, <2>2 DEF Present
<1>6. R \in SUBSET Visible /\ Cardinality(R) < m
  OBVIOUS
<1> HIDE DEF R, J
<1>7. Cardinality(R) \in Nat /\ Cardinality(J) <= Cardinality(R)
  BY <1>5, <1>6, AtLeast, VisibleFinite, FS_CardinalityType
<1> QED BY <1>4, <1>6, <1>7
=============================================================================
