----------------------------- MODULE FlashStore -----------------------------
(***************************************************************************)
(* The QR history ring of main/flash_store.c, down to the flash operations *)
(* a power failure can fall between.                                       *)
(*                                                                         *)
(* A slot is a header sector and a payload sector.  An append scans all    *)
(* headers, picks the slot after the newest record, erases it (header      *)
(* sector first), writes the payload and programs the header LAST, word by *)
(* word.  Every flash call may fail, which abandons the append half-way    *)
(* while the device keeps running; power may be lost between any two       *)
(* steps.  There is no other persistent state: what a boot finds is what   *)
(* the headers say.                                                        *)
(*                                                                         *)
(* Abstractions: a header is programmed in whole 32-bit words and in       *)
(* address order; the erase of one sector is atomic; reading a header does *)
(* not fail; CRC-32 distinguishes the payloads of the model.  The reserved *)
(* words are written with the erased value, so they have no step.          *)
(***************************************************************************)
EXTENDS Integers, FiniteSets

CONSTANTS
  SlotCount,     \* history slots (slot_count_internal(); 716 on the device)
  MaxNumber,     \* 9999 in flash_store_append
  MaxSequence,   \* bound on sequence numbers: 2^32 - 1 on the device
  Payloads,      \* what may be appended
  PayloadLength, \* [Payloads -> 0..MaxPayload]
  Empty,         \* the payload of length 0
  MaxPayload,    \* FLASH_STORE_MAX_PAYLOAD
  Erased16,      \* an erased 16-bit field read back
  Blank,         \* an erased payload sector
  Partial,       \* a sector with part of a payload programmed
  Garbled        \* a sector programmed again without an erase

ASSUME StoreAssumption ==
  /\ SlotCount \in Nat /\ SlotCount > 1
  /\ MaxNumber \in Nat /\ MaxNumber >= SlotCount - 1
  /\ MaxSequence \in Nat
  /\ MaxPayload \in Nat
  /\ Erased16 \in Nat /\ Erased16 > MaxPayload
  /\ PayloadLength \in [Payloads -> 0..MaxPayload]
  /\ \A p \in Payloads : PayloadLength[p] = 0 <=> p = Empty
  /\ Payloads \cap {Blank, Partial, Garbled} = {}
  /\ Blank # Partial /\ Blank # Garbled /\ Partial # Garbled

Slots == 0..(SlotCount - 1)

VARIABLES
  header,   \* per slot: how many words are programmed, and the fields being written
  payload,  \* per slot: the payload sector
  pc,       \* the flash operation in progress, "idle" when no call is active
  job,      \* the locals of the append or reset in progress
  result,   \* what the last call returned: "none" since boot
  acked     \* history variable: records reported committed since the last reset

flash == <<header, payload>>
vars  == <<header, payload, pc, job, result, acked>>

-----------------------------------------------------------------------------
(* Headers: magic, version and size, sequence, number and length, crc.     *)

LengthWord == 4
CrcWord    == 5

Header == [words : 0..CrcWord, sequence : Nat, number : 0..MaxNumber,
           length : 0..MaxPayload, crc : Payloads \cup {Blank}]

ErasedHeader ==
  [words |-> 0, sequence |-> 0, number |-> 0, length |-> 0, crc |-> Blank]

(* The payload_length a reader sees: all ones until its word is written. *)
LengthSeen(h) == IF h.words >= LengthWord THEN h.length ELSE Erased16

HeaderIsValidWithoutLength(h) == h.words >= 2   \* faulty: length not checked

HeaderIsValid(h) == h.words >= 2 /\ LengthSeen(h) <= MaxPayload

(* scan_records: the slots a scan reports. *)
Visible == {s \in Slots : HeaderIsValid(header[s])}

NewestUnsorted(s) ==                            \* faulty: the last slot scanned
  /\ s \in Visible
  /\ \A t \in Visible : t <= s

(* The last record after the qsort by sequence. *)
Newest(s) ==
  /\ s \in Visible
  /\ \A t \in Visible : header[t].sequence <= header[s].sequence

InfoOf(s) == [slot |-> s, sequence |-> header[s].sequence,
              number |-> header[s].number, length |-> header[s].length]

(* verify_info: the slot still holds the record a caller remembers. *)
Verified(info) == info.slot \in Visible /\ InfoOf(info.slot) = info

(* flash_store_read_range over the whole record (no CRC check). *)
ReadRange(s) == IF header[s].length = 0 THEN Empty ELSE payload[s]

(* The newest `max` records other than `exclude`; 0 excludes nothing. *)
Eligible(exclude) ==
  {s \in Visible : exclude = 0 \/ header[s].sequence # exclude}

RecentFromOldest(exclude, max) ==               \* faulty: the oldest records
  {InfoOf(s) : s \in {e \in Eligible(exclude) :
     Cardinality({t \in Eligible(exclude) :
                    header[t].sequence < header[e].sequence}) < max}}

Recent(exclude, max) ==
  {InfoOf(s) : s \in {e \in Eligible(exclude) :
     Cardinality({t \in Eligible(exclude) :
                    header[t].sequence > header[e].sequence}) < max}}

(* flash_store_get_recent: those records, or none without memory to scan. *)
GetRecent(exclude, max) == {Recent(exclude, max), {}}

-----------------------------------------------------------------------------
(* flash_store_append.                                                     *)

Cursor(s) == [slot |-> s, sequence |-> 0, number |-> 0, data |-> Blank]
NoJob == Cursor(0)

NextNumberNoWrap(n) == n + 1                    \* faulty: 9999 is not special
NextNumberSaturates(n) == IF n = MaxNumber THEN n ELSE n + 1  \* faulty: no wrap
NextNumber(n) == IF n = MaxNumber THEN 0 ELSE n + 1

NextSlotStuck(s) == IF s = SlotCount - 1 THEN s ELSE s + 1  \* faulty: no wrap
NextSlot(s) == (s + 1) % SlotCount

Idle == pc = "idle"

AppendStages ==
  {"eraseHeader", "erasePayload", "writePayload", "finishPayload", "writeHeader"}

ResetStages == {"resetHeader", "resetPayload"}

(* Scan, sort and place the record: slot 0 in an empty history, else the   *)
(* slot after the newest record.  MaxSequence bounds the sequence number.  *)
AppendBegin(data) ==
  /\ Idle
  /\ \/ /\ Visible = {}
        /\ job' = [slot |-> 0, sequence |-> 1, number |-> 1, data |-> data]
     \/ \E s \in Slots :
          /\ Newest(s)
          /\ job' = [slot     |-> NextSlot(s),
                     sequence |-> header[s].sequence + 1,
                     number   |-> NextNumber(header[s].number),
                     data     |-> data]
  /\ job'.sequence <= MaxSequence
  /\ pc' = "eraseHeader"
  /\ UNCHANGED <<header, payload, result, acked>>

(* The slot is erased in address order: its header goes first. *)
EraseHeader ==
  /\ pc = "eraseHeader"
  /\ header' = [header EXCEPT ![job.slot] = ErasedHeader]
  /\ pc' = "erasePayload"
  /\ UNCHANGED <<payload, job, result, acked>>

ErasePayloadNothing ==                          \* faulty: only one sector erased
  /\ pc = "erasePayload"
  /\ pc' = IF PayloadLength[job.data] > 0 THEN "writePayload" ELSE "writeHeader"
  /\ UNCHANGED <<header, payload, job, result, acked>>

ErasePayload ==
  /\ pc = "erasePayload"
  /\ payload' = [payload EXCEPT ![job.slot] = Blank]
  /\ pc' = IF PayloadLength[job.data] > 0 THEN "writePayload" ELSE "writeHeader"
  /\ UNCHANGED <<header, job, result, acked>>

(* The payload write is under way.  NOR flash programs erased bytes only. *)
WritePayload ==
  /\ pc = "writePayload"
  /\ payload' = [payload EXCEPT ![job.slot] = IF @ = Blank THEN Partial ELSE Garbled]
  /\ pc' = "finishPayload"
  /\ UNCHANGED <<header, job, result, acked>>

FinishPayload ==
  /\ pc = "finishPayload"
  /\ payload' = [payload EXCEPT ![job.slot] = IF @ = Partial THEN job.data ELSE @]
  /\ pc' = "writeHeader"
  /\ UNCHANGED <<header, job, result, acked>>

(* The header write advances by one word. *)
ProgramHeader ==
  /\ pc = "writeHeader"
  /\ header[job.slot].words < CrcWord
  /\ header' = [header EXCEPT ![job.slot] =
                  [words |-> @.words + 1, sequence |-> job.sequence,
                   number |-> job.number, length |-> PayloadLength[job.data],
                   crc |-> job.data]]
  /\ UNCHANGED <<payload, pc, job, result, acked>>

AppendReturns ==
  /\ pc = "writeHeader"
  /\ header[job.slot].words = CrcWord
  /\ pc' = "idle"
  /\ result' = "ok"
  /\ acked' = acked \cup {[sequence |-> job.sequence, number |-> job.number,
                           data |-> job.data]}
  /\ job' = NoJob
  /\ UNCHANGED flash

(* The erase, the payload write or the header write returned an error. *)
AppendFails ==
  /\ pc \in AppendStages
  /\ pc' = "idle"
  /\ result' = "error"
  /\ job' = NoJob
  /\ UNCHANGED <<header, payload, acked>>

(* No partition, a payload that is too long, or no memory for the scan. *)
AppendRefused ==
  /\ Idle
  /\ result' = "error"
  /\ UNCHANGED <<header, payload, pc, job, acked>>

-----------------------------------------------------------------------------
(* flash_store_reset: one erase call over the partition, sector by sector. *)

ResetBegin ==
  /\ Idle
  /\ pc' = "resetHeader"
  /\ acked' = {}
  /\ UNCHANGED <<header, payload, job, result>>

ResetHeader ==
  /\ pc = "resetHeader"
  /\ header' = [header EXCEPT ![job.slot] = ErasedHeader]
  /\ pc' = "resetPayload"
  /\ UNCHANGED <<payload, job, result, acked>>

ResetPayload ==
  /\ pc = "resetPayload"
  /\ payload' = [payload EXCEPT ![job.slot] = Blank]
  /\ IF job.slot = SlotCount - 1
       THEN pc' = "idle" /\ job' = NoJob /\ result' = "ok"
       ELSE /\ pc' = "resetHeader"
            /\ job' = Cursor(job.slot + 1)
            /\ UNCHANGED result
  /\ UNCHANGED <<header, acked>>

ResetFails ==
  /\ pc \in ResetStages
  /\ pc' = "idle"
  /\ result' = "error"
  /\ job' = NoJob
  /\ UNCHANGED <<header, payload, acked>>

-----------------------------------------------------------------------------
(* Power is lost: the flash keeps what it has, the locals are gone. *)
PowerLoss ==
  /\ pc' = "idle"
  /\ result' = "none"
  /\ job' = NoJob
  /\ UNCHANGED <<header, payload, acked>>

(* A partition that has never been written. *)
Init ==
  /\ header = [s \in Slots |-> ErasedHeader]
  /\ payload = [s \in Slots |-> Blank]
  /\ pc = "idle"
  /\ job = NoJob
  /\ result = "none"
  /\ acked = {}

AppendStep ==
  \/ EraseHeader \/ ErasePayload \/ WritePayload \/ FinishPayload
  \/ ProgramHeader \/ AppendReturns \/ AppendFails

ResetStep == ResetHeader \/ ResetPayload \/ ResetFails

Next ==
  \/ \E data \in Payloads : AppendBegin(data)
  \/ AppendRefused
  \/ AppendStep
  \/ ResetBegin
  \/ ResetStep
  \/ PowerLoss

Spec == Init /\ [][Next]_vars

-----------------------------------------------------------------------------
(* Properties.                                                             *)

TypeOK ==
  /\ header \in [Slots -> Header]
  /\ payload \in [Slots -> Payloads \cup {Blank, Partial, Garbled}]
  /\ pc \in {"idle"} \cup AppendStages \cup ResetStages
  /\ job \in [slot : Slots, sequence : Nat, number : 0..MaxNumber,
              data : Payloads \cup {Blank}]
  /\ pc \in AppendStages => job.data \in Payloads
  /\ result \in {"none", "ok", "error"}
  /\ acked \subseteq [sequence : Nat, number : 0..MaxNumber, data : Payloads]

(* How far slot s lies behind slot t, going round the ring. *)
Behind(s, t) == IF t >= s THEN t - s ELSE t - s + SlotCount

(* The positions of the records in the ring agree with the order of their *)
(* sequence numbers: of two visible records, the newer lies exactly as    *)
(* many slots ahead as its sequence is larger.  This is what makes "the   *)
(* slot after the newest" the slot to reuse, and it must survive failed   *)
(* appends, power failures and interrupted resets, which leave gaps.      *)
RingOrder ==
  \A s, t \in Visible :
    header[s].sequence <= header[t].sequence =>
      header[t].sequence - header[s].sequence = Behind(s, t)

(* A record a scan reports can be read, whole: its length and payload are *)
(* those of the append that wrote its header, even if that append was cut *)
(* off after the length word (the header is written last).                *)
VisibleIntact ==
  \A s \in Visible :
    /\ header[s].crc \in Payloads
    /\ LengthSeen(header[s]) = PayloadLength[header[s].crc]
    /\ ReadRange(s) = header[s].crc

(* A record whose append returned ESP_OK stays readable, with its CRC,    *)
(* until SlotCount - 1 newer records exist (or a reset begins), however   *)
(* many later appends fail or are cut off by a power failure.             *)
AckedDurable ==
  \A r \in acked :
    \/ \E s \in Visible : /\ header[s].sequence = r.sequence
                          /\ header[s].number = r.number
                          /\ header[s].words = CrcWord
                          /\ ReadRange(s) = r.data
    \/ \E t \in Visible : header[t].sequence >= r.sequence + SlotCount - 1

(* Two records of the history never carry the same number, so the file    *)
(* names LOG derives from the numbers (make_history_name) never collide.  *)
DistinctNumbers ==
  \A s, t \in Visible : header[s].number = header[t].number => s = t

(* The strengthening under which the properties above are inductive: what *)
(* the locals of an append in progress know about the ring around them.   *)

(* The job's slot is ahead of every other record by its sequence distance. *)
JobAhead ==
  \A t \in Visible \ {job.slot} :
    /\ header[t].sequence < job.sequence
    /\ job.sequence - header[t].sequence = Behind(t, job.slot)

(* The job follows the newest record, or starts an empty history. *)
JobPlaced ==
  \/ /\ Visible \subseteq {job.slot}
     /\ pc # "writeHeader" => Visible = {}
     /\ job.slot = 0 /\ job.sequence = 1 /\ job.number = 1
  \/ \E t \in Visible \ {job.slot} :
       /\ job.slot = NextSlot(t)
       /\ job.sequence = header[t].sequence + 1
       /\ job.number = NextNumber(header[t].number)

(* What the job has done to its slot so far. *)
JobSlot ==
  LET h == header[job.slot] IN
  /\ pc = "eraseHeader" /\ job.slot \in Visible =>
       job.sequence - h.sequence = SlotCount
  /\ pc \in {"erasePayload", "writePayload", "finishPayload"} => h.words = 0
  /\ pc \in {"writePayload", "finishPayload"} => PayloadLength[job.data] > 0
  /\ pc = "writePayload" => payload[job.slot] = Blank
  /\ pc = "finishPayload" => payload[job.slot] = Partial
  /\ pc = "writeHeader" =>
       /\ PayloadLength[job.data] > 0 => payload[job.slot] = job.data
       /\ h.words > 0 => /\ h.sequence = job.sequence
                         /\ h.number = job.number
                         /\ h.length = PayloadLength[job.data]
                         /\ h.crc = job.data

JobInv ==
  /\ pc \in AppendStages =>
       /\ job.sequence > 0
       /\ job.sequence <= MaxSequence
       /\ JobAhead /\ JobPlaced /\ JobSlot
  /\ pc \in ResetStages => acked = {}
  /\ pc = "resetPayload" => header[job.slot].words = 0

RingInv == TypeOK /\ RingOrder /\ VisibleIntact /\ JobInv

(* How far number m lies behind number n, counting round from MaxNumber to 0. *)
NumberBehind(m, n) == IF n >= m THEN n - m ELSE n - m + MaxNumber + 1

(* The numbers advance with the sequence numbers, for records and job. *)
NumberInv ==
  /\ \A s, t \in Visible :
       header[s].sequence <= header[t].sequence =>
         NumberBehind(header[s].number, header[t].number) =
           header[t].sequence - header[s].sequence
  /\ pc \in AppendStages =>
       \A t \in Visible \ {job.slot} :
         NumberBehind(header[t].number, job.number) = job.sequence - header[t].sequence

(* An append destroys a record only by reusing the slot of the oldest one *)
(* of a full window; a failing append destroys nothing else.              *)
AppendErasesOldest ==
  [][\A s \in Slots :
       (pc \in AppendStages /\ s \in Visible /\ s \notin Visible') =>
         \E t \in Visible :
           header[t].sequence = header[s].sequence + SlotCount - 1]_vars

(* The history as its callers see it: the refinement mapping. *)
RecordAt(s) == [sequence |-> header[s].sequence, number |-> header[s].number,
                data |-> ReadRange(s)]

Log == INSTANCE HistoryLog WITH
         Window   <- SlotCount,
         log      <- {RecordAt(s) : s \in Visible},
         clearing <- pc \in ResetStages

(* The ring implements the abstract history. *)
RefinesHistoryLog == Log!Spec
=============================================================================
