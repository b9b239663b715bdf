------------------------- MODULE MassStorage_proofs -------------------------
(***************************************************************************)
(* Proofs about MassStorage, for any ring, number of records, failures and *)
(* power failures:                                                         *)
(*   1. what the disconnect and its delay keep apart, and why two values   *)
(*      of bcdDevice are enough.  This holds whatever the flash does: of   *)
(*      the steps of FlashStore only what they do to pc is used.           *)
(*   2. the ring a device boots with after n appends satisfies the         *)
(*      invariants of FlashStore, so they hold here too;                   *)
(*   3. what LATEST and LOG show: every acknowledged record, and none      *)
(*      twice;                                                             *)
(*   4. why the old disk stays valid while an append fails, as long as no  *)
(*      reset is cut off and few appends fail late.                        *)
(***************************************************************************)
EXTENDS MassStorage, FlashStore_proofs

Serving  == {"idle", "guard"}
Settled  == Serving \cup {"disconnecting", "append", "connect"}
Storing  == {"release", "analyze", "restore", "publish"}

TypeInv ==
  /\ stage \in {"boot", "reset", "fatal", "rebuild"} \cup Settled \cup Storing
  /\ bcd \in {0, 1, 2}
  /\ connected \in BOOLEAN /\ reading \in BOOLEAN
  /\ host = [attached |-> host.attached, bcd |-> host.bcd, disk |-> host.disk]

(* Who may touch the memory and the flash in which stage.                   *)
ApartInv ==
  /\ connected => stage \in Serving
  /\ host.attached => connected
  /\ reading => stage \in Serving \cup {"disconnecting"}
  /\ stage \notin {"append", "reset"} => Idle
  /\ stage \in Settled =>
       cache = "built" /\ disk = [latest |-> latest, log |-> visibleLog]

(* What the host remembers: nothing, the directory of this bcdDevice, or,   *)
(* from the toggle to the next enumeration, one of the other value.         *)
FreshInv ==
  /\ stage \notin {"boot", "reset", "fatal"} => bcd \in {1, 2}
  /\ stage \in {"boot", "reset"} => host.bcd = 0
  /\ stage \in {"idle", "disconnecting", "append"} \cup Storing => host.bcd \in {0, bcd}
  /\ stage \in {"rebuild", "connect"} => host.bcd # bcd
  /\ stage \notin {"boot", "reset", "fatal"} /\ host.bcd = bcd => host.disk = disk
  /\ host.attached => host.bcd = bcd

IInv == TypeInv /\ ApartInv /\ FreshInv

-----------------------------------------------------------------------------
(* A device before its boot, whatever its ring holds.                       *)
LEMMA InitIInv == MSInit => IInv
<1> SUFFICES ASSUME MSInit PROVE IInv
  OBVIOUS
<1>1. /\ stage = "boot" /\ pc = "idle" /\ bcd = 0 /\ connected = FALSE /\ reading = FALSE
      /\ host = [attached |-> FALSE, bcd |-> 0, disk |-> NoDisk]
  BY DEF MSInit
<1> QED
  BY <1>1 DEF IInv, TypeInv, ApartInv, FreshInv, Serving, Settled, Storing, Idle

(* Every step of the device task, of the USB task and of the host, and a    *)
(* power failure anywhere, preserve the invariant.                          *)
LEMMA StepIInv == IInv /\ [MSNext]_msVars => IInv'
<1> SUFFICES ASSUME IInv, [MSNext]_msVars PROVE IInv'
  OBVIOUS
<1> USE DEF IInv, TypeInv, ApartInv, FreshInv, Serving, Settled, Storing, Idle, vars, device,
            observed
<1>1. CASE BootClears
  BY <1>1 DEF BootClears, ResetBegin
<1>2. CASE BootErases
  BY <1>2 DEF BootErases
<1>3. CASE BootEraseFails
  BY <1>3 DEF BootEraseFails, ResetFails
<1>4. CASE BootFails
  BY <1>4 DEF BootFails
<1>5. CASE BootBuilds
  BY <1>5 DEF BootBuilds
<1>6. CASE StartUpdate
  BY <1>6 DEF StartUpdate
<1>7. CASE BeginAppend
  <2>1. CASE \E data \in Payloads : AppendBegin(data) /\ stage' = "append" /\ UNCHANGED connected
    <3>1. stage = "disconnecting" /\ ~reading /\ stage' = "append"
      BY <1>7, <2>1 DEF BeginAppend
    <3>2. UNCHANGED <<connected, cache, latest, visibleLog, bcd, disk, reading, host>>
      BY <1>7, <2>1 DEF BeginAppend
    <3> QED
      BY <3>1, <3>2
  <2>2. CASE AppendRefused /\ stage' = "guard" /\ connected' = TRUE
    BY <1>7, <2>2 DEF BeginAppend, AppendRefused
  <2> QED
    BY <1>7, <2>1, <2>2 DEF BeginAppend
<1>8. CASE Appending
  BY <1>8 DEF Appending
<1>9. CASE AppendSucceeds
  BY <1>9 DEF AppendSucceeds, AppendReturns
<1>10. CASE AppendGivesUp
  BY <1>10 DEF AppendGivesUp, AppendFails
<1>11. CASE ReleaseCache
  BY <1>11 DEF ReleaseCache
<1>12. CASE Analyze
  BY <1>12 DEF Analyze
<1>13. CASE RestoreCache
  BY <1>13 DEF RestoreCache
<1>14. CASE Publish
  BY <1>14 DEF Publish, Toggled
<1>15. CASE Rebuild
  BY <1>15 DEF Rebuild
<1>16. CASE Connect
  BY <1>16 DEF Connect
<1>17. CASE GuardEnds
  BY <1>17 DEF GuardEnds
<1>18. CASE HostEnumerates
  BY <1>18 DEF HostEnumerates
<1>19. CASE ReadBegins
  BY <1>19 DEF ReadBegins
<1>20. CASE ReadEnds
  BY <1>20 DEF ReadEnds
<1>21. CASE LosePower
  BY <1>21 DEF LosePower, PowerLoss
<1>22. CASE UNCHANGED msVars
  BY <1>22 DEF msVars
<1> QED
  BY <1>1, <1>2, <1>3, <1>4, <1>5, <1>6, <1>7, <1>8, <1>9, <1>10, <1>11, <1>12,
     <1>13, <1>14, <1>15, <1>16, <1>17, <1>18, <1>19, <1>20, <1>21, <1>22
     DEF MSNext, DeviceStep

THEOREM Invariant == MSSpec => []IInv
BY InitIInv, StepIInv, PTL DEF MSSpec

(* A read callback never overlaps an append, the release of the cache or    *)
(* the rebuilding of the metadata, although no lock is held.                *)
THEOREM ReadsUndisturbedHolds == MSSpec => []ReadsUndisturbed
<1>1. IInv => ReadsUndisturbed
  BY DEF IInv, ApartInv, ReadsUndisturbed, Serving, Settled
<1> QED
  BY Invariant, <1>1, PTL

(* An attached host knows the directory the device serves: two values of    *)
(* bcdDevice are enough, because the guard lasts until it has enumerated.   *)
THEOREM HostFreshHolds == MSSpec => []HostFresh
<1>1. IInv => HostFresh
  BY DEF IInv, ApartInv, FreshInv, HostFresh, Serving
<1> QED
  BY Invariant, <1>1, PTL

-----------------------------------------------------------------------------
(* The ring at boot, and in this system.                                   *)

(* What is proved of FlashStore and needed here. *)
HistoryInv == RingInv /\ AckedDurable /\ Unbroken

(* Arithmetic: division with remainder, and what a multiple can be. *)
LEMMA DivMod ==
  ASSUME NEW a \in Int, NEW b \in Nat, b > 0
  PROVE  \E k \in Int, r \in 0..(b - 1) : a % b = r /\ a = b * k + r
<1>1. a \div b \in Int /\ (a % b) \in 0..(b - 1) /\ a = b * (a \div b) + (a % b)
  OBVIOUS
<1> QED BY <1>1

LEMMA Multiples ==
  ASSUME NEW b \in Nat, b > 0, NEW k \in Int
  PROVE  /\ k >= 1 => b * k >= b
         /\ k <= -1 => b * k <= -b
         /\ k >= 2 => b * k >= b + b
         /\ k = 0 => b * k = 0
         /\ k = 1 => b * k = b
OBVIOUS

LEMMA ModUnique ==
  ASSUME NEW b \in Nat, b > 0, NEW k \in Int, NEW r \in 0..(b - 1)
  PROVE  (b * k + r) % b = r
<1> DEFINE a == b * k + r
<1>1. a \in Int
  OBVIOUS
<1>2. PICK d \in Int, m \in 0..(b - 1) : a % b = m /\ a = b * d + m
  <2> HIDE DEF a
  <2> QED BY <1>1, DivMod
<1>3. b * (k - d) = m - r /\ k - d \in Int
  BY <1>2
<1>4. k - d = 0
  BY <1>2, <1>3, Multiples
<1> QED BY <1>2, <1>3, <1>4

(* A sequence number, less one, is a number of laps and a slot. *)
LEMMA LapOf ==
  ASSUME NEW p \in Nat, p > 0
  PROVE  \E k \in Int, u \in 0..(SlotCount - 1) :
           (p - 1) % SlotCount = u /\ p - 1 = SlotCount * k + u
<1>1. p - 1 \in Int /\ SlotCount \in Nat /\ SlotCount > 0
  BY StoreAssumption
<1> QED BY <1>1, DivMod

(* Sequence numbers p and q, less than a lap apart, lie as far apart in the  *)
(* ring as in number.                                                        *)
LEMMA LapDistance ==
  ASSUME NEW p \in Nat, NEW q \in Nat, p > 0, p <= q, q < p + SlotCount,
         NEW s, NEW t, s = (p - 1) % SlotCount, t = (q - 1) % SlotCount
  PROVE  s \in Slots /\ t \in Slots /\ q - p = Behind(s, t)
<1>1. SlotCount \in Nat /\ SlotCount > 1
  BY StoreAssumption
<1>2. PICK k \in Int, u \in 0..(SlotCount - 1) :
         (p - 1) % SlotCount = u /\ p - 1 = SlotCount * k + u
  BY LapOf
<1>3. PICK m \in Int, v \in 0..(SlotCount - 1) :
         (q - 1) % SlotCount = v /\ q - 1 = SlotCount * m + v
  BY LapOf
<1>4. s = u /\ t = v
  BY <1>2, <1>3
<1>5. PICK d \in 0..(SlotCount - 1) : d = q - p
  BY <1>1
<1>6. d = (SlotCount * m + v) - (SlotCount * k + u)
  BY <1>2, <1>3, <1>5
<1>7. d = IF v >= u THEN v - u ELSE v - u + SlotCount
  <2>1. PICK j \in Int : j = m - k
    OBVIOUS
  <2>2. d = SlotCount * j + (v - u)
    BY <1>1, <1>6, <2>1
  <2>3. j = 0 \/ j = 1
    BY <1>1, <2>2, Multiples
  <2> QED BY <1>1, <2>2, <2>3, Multiples
<1> QED BY <1>4, <1>5, <1>7 DEF Behind, Slots

(* One lap on, the slot is the same. *)
LEMMA NextLap ==
  ASSUME NEW q \in Nat, q > 0
  PROVE  (q + SlotCount - 1) % SlotCount = (q - 1) % SlotCount
<1>1. SlotCount \in Nat /\ SlotCount > 1
  BY StoreAssumption
<1>2. PICK k \in Int, r \in 0..(SlotCount - 1) :
         (q - 1) % SlotCount = r /\ q - 1 = SlotCount * k + r
  BY LapOf
<1>3. q + SlotCount - 1 = SlotCount * (k + 1) + r
  BY <1>1, <1>2
<1>4. (SlotCount * (k + 1) + r) % SlotCount = r
  BY <1>1, ModUnique
<1> QED BY <1>2, <1>3, <1>4

(* What slot s holds after n appends: the last of the sequence numbers that  *)
(* went there.                                                               *)
LastIn(s, n, q) ==
  /\ q \in 0..n
  /\ q = 0 \/ (q - 1) % SlotCount = s
  /\ \A r \in 1..n : (r - 1) % SlotCount = s => r <= q

LEMMA SequenceInSlot ==
  ASSUME NEW s, NEW n \in Nat
  PROVE  LastIn(s, n, SequenceIn(s, n))
<1> DEFINE There(r) == (r - 1) % SlotCount = s
           T == {r \in 1..n : There(r)}
<1>0. \A q : LastIn(s, n, q) <=> /\ q \in 0..n
                                 /\ q = 0 \/ There(q)
                                 /\ \A r \in 1..n : There(r) => r <= q
  BY DEF LastIn
<1> HIDE DEF There
<1>1. IsFiniteSet(T)
  <2>1. IsFiniteSet(1..n)
    BY FS_Interval
  <2> QED BY <2>1, FS_Subset
<1>2. \E q \in 0..n : LastIn(s, n, q)
  <2>1. CASE T = {}
    <3>1. LastIn(s, n, 0)
      BY <1>0, <2>1
    <3> QED BY <3>1
  <2>2. CASE T # {}
    <3> DEFINE f == [r \in T |-> r]
    <3>1. f \in [T -> Int]
      OBVIOUS
    <3>2. PICK m \in T : \A r \in T : f[r] <= f[m]
      <4> HIDE DEF f, T
      <4> QED BY <1>1, <2>2, <3>1, LargestValue
    <3>3. LastIn(s, n, m)
      BY <1>0, <3>2
    <3> QED BY <3>3
  <2> QED BY <2>1, <2>2
<1> QED BY <1>2 DEF SequenceIn, LastIn

(* It is no older than a lap. *)
LEMMA SequenceInLastLap ==
  ASSUME NEW s, NEW n \in Nat, SequenceIn(s, n) # 0
  PROVE  /\ SequenceIn(s, n) \in 1..n
         /\ (SequenceIn(s, n) - 1) % SlotCount = s
         /\ n < SequenceIn(s, n) + SlotCount
<1>1. PICK q \in 0..n : q = SequenceIn(s, n) /\ LastIn(s, n, q)
  BY SequenceInSlot DEF LastIn
<1>2. q > 0 /\ q \in Nat /\ SlotCount \in Nat /\ SlotCount > 1
  BY <1>1, StoreAssumption
<1>3. ASSUME q + SlotCount <= n PROVE FALSE
  <2>1. q + SlotCount \in 1..n
    BY <1>2, <1>3
  <2>2. (q + SlotCount - 1) % SlotCount = s
    BY <1>1, <1>2, NextLap DEF LastIn
  <2> QED BY <1>1, <1>2, <2>1, <2>2 DEF LastIn
<1> QED BY <1>1, <1>2, <1>3 DEF LastIn

(* The last SlotCount appends are there.                                     *)
LEMMA LastLapPresent ==
  ASSUME NEW n \in Nat, NEW q \in 1..n, n < q + SlotCount
  PROVE  \E s \in Slots : s = (q - 1) % SlotCount /\ SequenceIn(s, n) = q
<1> DEFINE s == (q - 1) % SlotCount
<1>1. SlotCount \in Nat /\ SlotCount > 1 /\ s \in Slots
  BY StoreAssumption, DivMod DEF Slots
<1>2. PICK p \in 0..n : p = SequenceIn(s, n) /\ LastIn(s, n, p)
  BY SequenceInSlot DEF LastIn
<1>3. p >= q
  BY <1>2 DEF LastIn
<1>4. (p - 1) % SlotCount = s
  BY <1>2, <1>3 DEF LastIn
<1>5. p - q = Behind(s, s)
  BY <1>1, <1>2, <1>3, <1>4, LapDistance
<1>6. p = q
  BY <1>1, <1>2, <1>5 DEF Behind, Slots
<1> QED BY <1>1, <1>2, <1>6

(* The ring after any number of appends has the invariants of FlashStore,   *)
(* and no gap.                                                               *)
LEMMA InitHistory == MSInit => HistoryInv /\ NoGaps
<1> SUFFICES ASSUME MSInit PROVE HistoryInv /\ NoGaps
  OBVIOUS
<1>1. PICK n \in InitialCounts, data \in Payloads :
        /\ header = [s \in Slots |-> AgedHeader(s, n, data)]
        /\ payload = [s \in Slots |->
             IF SequenceIn(s, n) = 0 \/ PayloadLength[data] = 0 THEN Blank ELSE data]
        /\ acked = {[sequence |-> q, number |-> q % (MaxNumber + 1), data |-> data] :
                      q \in 1..n}
  BY DEF MSInit
<1>2. pc = "idle" /\ job = NoJob /\ result = "none"
  BY DEF MSInit
<1>3. /\ n \in Nat /\ SlotCount \in Nat /\ SlotCount > 1 /\ MaxNumber \in Nat
      /\ PayloadLength[data] \in 0..MaxPayload /\ MaxPayload \in Nat
      /\ PayloadLength[data] = 0 => data = Empty
  BY StoreAssumption, StorageAssumption
<1> DEFINE num(q) == q % (MaxNumber + 1)
<1>4. \A q \in Nat : num(q) \in 0..MaxNumber
  <2> TAKE q \in Nat
  <2>1. q \in Int /\ MaxNumber + 1 \in Nat /\ MaxNumber + 1 > 0
    BY <1>3
  <2> QED BY <1>3, <2>1, DivMod
<1>5. \A s \in Slots : SequenceIn(s, n) \in 0..n
  BY <1>3, SequenceInSlot DEF LastIn
<1>6. \A s \in Slots :
        header[s] = IF SequenceIn(s, n) = 0 THEN ErasedHeader
                    ELSE [words |-> CrcWord, sequence |-> SequenceIn(s, n),
                          number |-> num(SequenceIn(s, n)),
                          length |-> PayloadLength[data], crc |-> data]
  BY <1>1 DEF AgedHeader
<1>20. acked = {[sequence |-> q, number |-> num(q), data |-> data] : q \in 1..n}
  BY <1>1
<1> HIDE DEF num
<1>7. TypeOK
  <2>1. \A s \in Slots : header[s] \in Header
    <3> TAKE s \in Slots
    <3>1. CASE SequenceIn(s, n) = 0
      <4>1. header[s] = ErasedHeader
        BY <1>6, <3>1
      <4>2. ErasedHeader \in Header
        BY <1>3 DEF Header, ErasedHeader, CrcWord
      <4> QED BY <4>1, <4>2
    <3>2. CASE SequenceIn(s, n) # 0
      <4> DEFINE h == [words |-> CrcWord, sequence |-> SequenceIn(s, n),
                       number |-> num(SequenceIn(s, n)),
                       length |-> PayloadLength[data], crc |-> data]
      <4>1. header[s] = h
        BY <1>6, <3>2
      <4>2. SequenceIn(s, n) \in Nat /\ num(SequenceIn(s, n)) \in 0..MaxNumber
        BY <1>3, <1>4, <1>5
      <4>3. h \in Header
        BY <1>3, <4>2 DEF Header, CrcWord
      <4> QED BY <4>1, <4>3
    <3> QED BY <3>1, <3>2
  <2>2. header \in [Slots -> Header]
    BY <1>1, <2>1
  <2>3. payload \in [Slots -> Payloads \cup {Blank, Partial, Garbled}]
    BY <1>1
  <2>4. job \in [slot : Slots, sequence : Nat, number : 0..MaxNumber,
                 data : Payloads \cup {Blank}]
    BY <1>2, <1>3 DEF NoJob, Cursor, Slots
  <2>5. acked \subseteq [sequence : Nat, number : 0..MaxNumber, data : Payloads]
    BY <1>20, <1>3, <1>4
  <2> QED BY <1>2, <2>2, <2>3, <2>4, <2>5 DEF TypeOK, AppendStages, ResetStages
<1>8. \A s \in Slots : s \in Visible <=> SequenceIn(s, n) # 0
  <2> SUFFICES ASSUME NEW s \in Slots
               PROVE  HeaderIsValid(header[s]) <=> SequenceIn(s, n) # 0
    BY DEF Visible
  <2>1. CASE SequenceIn(s, n) = 0
    <3>1. header[s] = ErasedHeader
      BY <1>6, <2>1
    <3> QED BY <2>1, <3>1, ErasedIsInvalid
  <2>2. CASE SequenceIn(s, n) # 0
    <3>1. header[s].words = CrcWord /\ header[s] \in Header
      BY <1>6, <1>7, <2>2 DEF TypeOK
    <3> QED BY <2>2, <3>1, ValidFromLengthWord DEF CrcWord, LengthWord
  <2> QED BY <2>1, <2>2
<1>9. \A s \in Visible :
        /\ s \in Slots /\ header[s].sequence = SequenceIn(s, n)
        /\ header[s].number = num(SequenceIn(s, n))
        /\ header[s].words = CrcWord
        /\ header[s].length = PayloadLength[data] /\ header[s].crc = data
        /\ ReadRange(s) = data
  BY <1>1, <1>3, <1>6, <1>8 DEF Visible, ReadRange
<1>10. \A s \in Visible :
        /\ header[s].sequence \in 1..n
        /\ (header[s].sequence - 1) % SlotCount = s
        /\ n < header[s].sequence + SlotCount
  BY <1>3, <1>8, <1>9, SequenceInLastLap
<1>11. \A q \in 1..n : n < q + SlotCount =>
         \E s \in Visible : s = (q - 1) % SlotCount /\ header[s].sequence = q
  <2> SUFFICES ASSUME NEW q \in 1..n, n < q + SlotCount
               PROVE  \E s \in Visible : s = (q - 1) % SlotCount /\ header[s].sequence = q
    OBVIOUS
  <2>1. PICK s \in Slots : s = (q - 1) % SlotCount /\ SequenceIn(s, n) = q
    BY <1>3, LastLapPresent
  <2> QED BY <1>8, <1>9, <2>1
<1>12. RingOrder
  <2> SUFFICES ASSUME NEW s \in Visible, NEW t \in Visible,
                      header[s].sequence <= header[t].sequence
               PROVE  header[t].sequence - header[s].sequence = Behind(s, t)
    BY DEF RingOrder
  <2>1. /\ header[s].sequence \in Nat /\ header[t].sequence \in Nat
        /\ header[s].sequence > 0
        /\ header[t].sequence < header[s].sequence + SlotCount
    BY <1>3, <1>10
  <2> QED BY <1>10, <2>1, LapDistance
<1>13. VisibleIntact
  BY <1>9 DEF VisibleIntact, LengthSeen, CrcWord, LengthWord
<1>14. RingInv
  BY <1>2, <1>7, <1>12, <1>13 DEF RingInv, JobInv, AppendStages, ResetStages
<1>15. n > 0 => \E t \in Visible : header[t].sequence = n
  BY <1>3, <1>11
<1>16. \A q \in 1..n : n < q + SlotCount \/ \E t \in Visible : header[t].sequence >= q + SlotCount - 1
  BY <1>3, <1>15
<1>17. AckedDurable
  <2> SUFFICES ASSUME NEW r \in acked
               PROVE  \/ \E s \in Visible : /\ header[s].sequence = r.sequence
                                            /\ header[s].number = r.number
                                            /\ header[s].words = CrcWord
                                            /\ ReadRange(s) = r.data
                      \/ \E t \in Visible : header[t].sequence >= r.sequence + SlotCount - 1
    BY DEF AckedDurable
  <2>1. PICK q \in 1..n : r = [sequence |-> q, number |-> num(q), data |-> data]
    BY <1>20
  <2>2. CASE n < q + SlotCount
    <3>1. PICK s \in Visible : header[s].sequence = q
      BY <1>11, <2>2
    <3> QED BY <1>9, <2>1, <3>1
  <2> QED BY <1>16, <2>1, <2>2
<1>18. Unbroken
  <2> SUFFICES ASSUME NEW r \in acked
               PROVE  /\ r.sequence > 0
                      /\ \A t \in Visible : \A q \in r.sequence..header[t].sequence :
                           Present(q) \/ Passed(q)
    BY DEF Unbroken
  <2>1. r.sequence \in 1..n
    BY <1>20
  <2>2. \A t \in Visible : \A q \in r.sequence..header[t].sequence : q \in 1..n
    BY <1>3, <1>10, <2>1
  <2> QED BY <1>11, <1>16, <2>1, <2>2 DEF Present, Passed
<1>19. NoGaps
  <2> SUFFICES ASSUME NEW s \in Visible, NEW t \in Visible,
                      NEW q \in header[s].sequence..header[t].sequence
               PROVE  Present(q)
    BY DEF NoGaps
  <2>1. q \in 1..n /\ n < q + SlotCount
    BY <1>3, <1>10
  <2> QED BY <1>11, <2>1 DEF Present
<1> QED BY <1>14, <1>17, <1>18, <1>19 DEF HistoryInv

(* Every step of this system is a step of FlashStore, or leaves it alone.    *)
LEMMA StepOfRing == [MSNext]_msVars => [Next]_vars
BY DEF MSNext, DeviceStep, msVars, BootClears, BootErases, BootEraseFails, BootFails,
   BootBuilds, StartUpdate, BeginAppend, Appending, AppendSucceeds, AppendGivesUp,
   ReleaseCache, Analyze, RestoreCache, Publish, Rebuild, Connect, GuardEnds,
   HostEnumerates, ReadBegins, ReadEnds, LosePower, Next, AppendStep, ResetStep

LEMMA StepHistoryInv == HistoryInv /\ [MSNext]_msVars => HistoryInv'
BY StepOfRing, StepRingInv, StepAckedDurable, StepUnbroken DEF HistoryInv

LEMMA History == MSSpec => []HistoryInv
BY InitHistory, StepHistoryInv, PTL DEF MSSpec

(* An acknowledged record stays readable until SlotCount - 1 newer ones      *)
(* exist, for a device that boots with any number of records, too.           *)
THEOREM HistoryHolds == MSSpec => []AckedDurable
BY History, PTL DEF HistoryInv

-----------------------------------------------------------------------------
(* What LATEST and LOG show.                                               *)

(* The stages in which the memory describes the disk that is, or will be,    *)
(* served.                                                                   *)
Listing == Settled \cup {"rebuild"}

(* The stage and the flash operation go together. *)
StageInv ==
  /\ pc \in AppendStages <=> stage = "append"
  /\ pc \in ResetStages => stage = "reset"
  /\ Idle => job = NoJob
  /\ stage \in {"boot", "reset"} => current = 0
  /\ current \in Nat
  /\ lateFailures \in 0..MaxLateFailures

(* q is the newest acknowledged record, and data its payload. *)
IsLatest(q, data) ==
  /\ q > 0
  /\ \E r \in acked : r.sequence = q /\ r.data = data
  /\ \A r \in acked : r.sequence <= q

(* What update_latest_from_qr is about to publish, or has published.         *)
LatestInv ==
  /\ stage \in Storing => IsLatest(newRecord.sequence, newRecord.data)
  /\ stage \in Listing /\ current # 0 =>
       IsLatest(current, latest) /\ \A i \in visibleLog : i.sequence # current

(* The records that may push record q out of LOG; where LOG has it. *)
Newer(q) == {s \in Visible : header[s].sequence > q /\ header[s].sequence # current}

Listed(q) ==
  \E i \in visibleLog : i.sequence = q /\ i.slot \in Visible /\ header[i.slot].sequence = q


(* Every step preserves it. *)
LEMMA StepStageInv ==
  ASSUME RingInv, IInv, StageInv, LatestInv, [MSNext]_msVars
  PROVE  StageInv'
<1> USE StorageAssumption DEF IInv, TypeInv, ApartInv, StageInv, Serving, Settled, Storing, Idle,
        vars, device, observed, AppendStages, ResetStages
<1>0. newRecord.sequence \in Nat \/ stage \notin Storing
  BY DEF LatestInv, IsLatest, RingInv, TypeOK
<1>1. CASE BootClears
  BY <1>1 DEF BootClears, ResetBegin
<1>2. CASE BootErases
  BY <1>2 DEF BootErases, ResetHeader, ResetPayload
<1>3. CASE BootEraseFails
  BY <1>3 DEF BootEraseFails, ResetFails
<1>4. CASE BootFails
  BY <1>4 DEF BootFails
<1>5. CASE BootBuilds
  BY <1>5 DEF BootBuilds
<1>6. CASE StartUpdate
  BY <1>6 DEF StartUpdate
<1>7. CASE BeginAppend
  BY <1>7 DEF BeginAppend, AppendBegin, AppendRefused
<1>8. CASE Appending
  BY <1>8 DEF Appending, EraseHeader, ErasePayload, WritePayload, FinishPayload, ProgramHeader
<1>9. CASE AppendSucceeds
  BY <1>9 DEF AppendSucceeds, AppendReturns
<1>10. CASE AppendGivesUp
  BY <1>10 DEF AppendGivesUp, AppendFails
<1>11. CASE ReleaseCache \/ Analyze \/ RestoreCache \/ Rebuild \/ Connect \/ GuardEnds
  BY <1>11 DEF ReleaseCache, Analyze, RestoreCache, Rebuild, Connect, GuardEnds
<1>12. CASE Publish
  BY <1>0, <1>12 DEF Publish
<1>13. CASE HostEnumerates \/ ReadBegins \/ ReadEnds \/ UNCHANGED msVars
  BY <1>13 DEF HostEnumerates, ReadBegins, ReadEnds, msVars
<1>14. CASE LosePower
  BY <1>14 DEF LosePower, PowerLoss
<1> QED
  BY <1>1, <1>2, <1>3, <1>4, <1>5, <1>6, <1>7, <1>8, <1>9, <1>10, <1>11, <1>12,
     <1>13, <1>14 DEF MSNext, DeviceStep

(* Steps that change neither records nor what the device lists. *)
Calm ==
  /\ UNCHANGED <<header, payload, acked, current, latest, visibleLog, newRecord, refreshed>>
  /\ stage' \in Listing => stage \in Listing
  /\ stage' \in Storing => stage \in Storing

LEMMA StepCases ==
  ASSUME [MSNext]_msVars
  PROVE  \/ stage' \notin Listing \cup Storing
         \/ BootBuilds \/ Publish \/ AppendSucceeds \/ Appending \/ Calm
<1> USE DEF Serving, Settled, Storing, Listing, vars, device, observed
<1>1. CASE BootClears \/ BootErases \/ BootEraseFails \/ BootFails \/ LosePower
  BY <1>1 DEF BootClears, BootErases, BootEraseFails, BootFails, LosePower
<1>2. CASE StartUpdate \/ BeginAppend \/ AppendGivesUp
  BY <1>2 DEF StartUpdate, BeginAppend, AppendGivesUp, AppendBegin, AppendRefused,
     AppendFails, Calm
<1>3. CASE ReleaseCache \/ Analyze \/ RestoreCache \/ Rebuild \/ Connect \/ GuardEnds
  BY <1>3 DEF ReleaseCache, Analyze, RestoreCache, Rebuild, Connect, GuardEnds, Calm
<1>4. CASE HostEnumerates \/ ReadBegins \/ ReadEnds \/ UNCHANGED msVars
  BY <1>4 DEF HostEnumerates, ReadBegins, ReadEnds, msVars, Calm
<1> QED
  BY <1>1, <1>2, <1>3, <1>4 DEF MSNext, DeviceStep

(* No acknowledged record is newer than the record being written.            *)
LEMMA JobNewest ==
  ASSUME RingInv, AckedDurable, pc \in AppendStages, NEW r \in acked
  PROVE  r.sequence <= job.sequence
<1>1. /\ Visible \subseteq Slots /\ SlotCount \in Nat /\ SlotCount > 1
      /\ \A s \in Slots : header[s].sequence \in Nat
      /\ job.sequence \in Nat /\ r.sequence \in Nat /\ job.slot \in Slots
  BY FieldTypes, StoreAssumption DEF RingInv, TypeOK
<1>2. PICK s \in Visible : header[s].sequence >= r.sequence
  <2>1. \A t \in Visible : header[t].sequence >= r.sequence + SlotCount - 1
                             => header[t].sequence >= r.sequence
    BY <1>1
  <2>2. \A t \in Visible : header[t].sequence = r.sequence => header[t].sequence >= r.sequence
    BY <1>1
  <2> QED BY <2>1, <2>2 DEF AckedDurable
<1>3. JobAhead /\ JobSlot
  BY DEF RingInv, JobInv
<1>4. header[s].sequence <= job.sequence
  <2>1. CASE s # job.slot
    BY <1>1, <1>3, <2>1 DEF JobAhead
  <2>2. CASE s = job.slot
    <3>1. header[s].words > 0
      BY DEF Visible, HeaderIsValid, RingInv, TypeOK, Header
    <3> QED BY <1>1, <1>3, <2>2, <3>1, StoreAssumption DEF JobSlot, AppendStages
  <2> QED BY <2>1, <2>2
<1> QED BY <1>1, <1>2, <1>4

(* What refresh_visible_log takes is the record of a visible slot.           *)
LEMMA RecentRecords ==
  ASSUME NEW c, NEW i \in Recent(c, LogMax)
  PROVE  \E e \in Visible :
           /\ i = InfoOf(e) /\ i.slot = e /\ i.sequence = header[e].sequence
           /\ c = 0 \/ header[e].sequence # c
           /\ Cardinality({t \in Eligible(c) :
                             header[t].sequence > header[e].sequence}) < LogMax
BY DEF Recent, Eligible, InfoOf

LEMMA StepLatestInv ==
  ASSUME RingInv, AckedDurable, IInv, StageInv, LatestInv, [MSNext]_msVars
  PROVE  LatestInv'
<1>1. CASE stage' \notin Listing \cup Storing
  BY <1>1 DEF LatestInv
<1>2. CASE BootBuilds
  BY <1>2 DEF LatestInv, BootBuilds, Storing
<1>3. CASE Publish
  <2>1. /\ stage = "publish" /\ stage' = "rebuild" /\ acked' = acked
        /\ current' = newRecord.sequence /\ latest' = newRecord.data
        /\ visibleLog' \subseteq Recent(current', LogMax)
    BY <1>3 DEF Publish, RefreshVisibleLog, GetRecent, vars
  <2>2. IsLatest(newRecord.sequence, newRecord.data)
    BY <2>1 DEF LatestInv, Storing
  <2>3. IsLatest(current, latest)'
    BY <2>1, <2>2 DEF IsLatest
  <2>4. current' # 0
    BY <2>1, <2>2 DEF IsLatest
  <2>5. \A i \in visibleLog' : i.sequence # current'
    BY <2>1, <2>4, RecentRecords
  <2> QED BY <2>1, <2>3, <2>5 DEF LatestInv, Storing
<1>4. CASE AppendSucceeds
  <2>1. /\ pc = "writeHeader" /\ stage' \in Storing
        /\ newRecord' = [sequence |-> job.sequence, data |-> job.data]
        /\ acked' = acked \cup {[sequence |-> job.sequence, number |-> job.number,
                                 data |-> job.data]}
    BY <1>4 DEF AppendSucceeds, AppendReturns, Storing
  <2>2. job.sequence > 0 /\ job.sequence \in Nat
    BY <2>1, FieldTypes DEF RingInv, JobInv, AppendStages
  <2>3. \A r \in acked : r.sequence <= job.sequence
    BY <2>1, JobNewest DEF AppendStages
  <2>4. IsLatest(newRecord.sequence, newRecord.data)'
    <3>1. newRecord'.sequence = job.sequence /\ newRecord'.data = job.data
      BY <2>1
    <3>2. \E r \in acked' : r.sequence = job.sequence /\ r.data = job.data
      <4> DEFINE n == [sequence |-> job.sequence, number |-> job.number, data |-> job.data]
      <4>1. n \in acked' /\ n.sequence = job.sequence /\ n.data = job.data
        BY <2>1
      <4> HIDE DEF n
      <4> QED BY <4>1
    <3>3. \A r \in acked' : r.sequence <= job.sequence
      BY <2>1, <2>2, <2>3
    <3> QED BY <2>2, <3>1, <3>2, <3>3 DEF IsLatest
  <2>5. stage' \notin Listing
    BY <2>1 DEF Storing, Listing, Settled, Serving
  <2> QED BY <2>4, <2>5 DEF LatestInv
<1>5. CASE Appending
  <2>1. UNCHANGED <<acked, device>>
    BY <1>5 DEF Appending, EraseHeader, ErasePayload, WritePayload, FinishPayload,
       ProgramHeader
  <2> QED BY <2>1 DEF LatestInv, IsLatest, device
<1>6. CASE Calm
  BY <1>6 DEF Calm, LatestInv, IsLatest
<1> QED BY <1>1, <1>2, <1>3, <1>4, <1>5, <1>6, StepCases

LEMMA NewerFinite == \A q : IsFiniteSet(Newer(q)) /\ Cardinality(Newer(q)) \in Nat
<1>1. \A q : Newer(q) \in SUBSET Visible
  BY DEF Newer
<1> QED BY <1>1, VisibleFinite, FS_CardinalityType

(* Once SlotCount - 1 newer records exist, LOG is full without this one.     *)
(* A record that the ring may lose does not belong to LOG any more. *)
FullLog ==
  \A r \in acked : Passed(r.sequence) => Cardinality(Newer(r.sequence)) >= LogMax

LEMMA PassedOut == RingInv /\ Unbroken => FullLog
<1> SUFFICES ASSUME RingInv, Unbroken, NEW r \in acked, Passed(r.sequence)
             PROVE  Cardinality(Newer(r.sequence)) >= LogMax
  BY DEF FullLog
<1>1. Cardinality(Newer(r.sequence)) >= SlotCount - 2
  BY EnoughNewer DEF Newer
<1>2. Cardinality(Newer(r.sequence)) \in Nat
  BY NewerFinite
<1> QED BY <1>1, <1>2, StoreAssumption, StorageAssumption

(* A fresh LOG takes every acknowledged record it has room for.              *)
(* LOG and LATEST together hold every acknowledged record there is room for. *)
LogComplete ==
  \A r \in acked :
    \/ r.sequence = current
    \/ Listed(r.sequence)
    \/ Cardinality(Newer(r.sequence)) >= LogMax

LEMMA FreshLog ==
  HistoryInv /\ visibleLog = Recent(current, LogMax) => LogComplete
<1> USE DEF HistoryInv
<1> SUFFICES ASSUME HistoryInv, visibleLog = Recent(current, LogMax),
                    NEW r \in acked, r.sequence # current
             PROVE  Listed(r.sequence) \/ Cardinality(Newer(r.sequence)) >= LogMax
  BY DEF LogComplete
<1>1. Passed(r.sequence) \/ \E s \in Visible : header[s].sequence = r.sequence
  BY DEF AckedDurable, Passed
<1>2. CASE Passed(r.sequence)
  BY <1>2, PassedOut DEF FullLog
<1>3. ASSUME NEW s \in Visible, header[s].sequence = r.sequence,
             ~(Cardinality(Newer(r.sequence)) >= LogMax)
      PROVE  Listed(r.sequence)
  <2> DEFINE R == {t \in Eligible(current) : header[t].sequence > header[s].sequence}
  <2>1. \A t \in Visible : header[t].sequence \in Nat
    BY FieldTypes DEF RingInv
  <2>2. R = Newer(r.sequence)
    BY <1>3, <2>1 DEF Eligible, Newer
  <2>5. Cardinality(Newer(r.sequence)) < LogMax
    BY <1>3, NewerFinite, StorageAssumption
  <2>3. Cardinality(R) < LogMax
    BY <2>2, <2>5
  <2>4. InfoOf(s) \in visibleLog
    BY <1>3, <2>3 DEF Recent, Eligible
  <2> QED BY <1>3, <2>4 DEF Listed, InfoOf
<1> QED BY <1>1, <1>2, <1>3

(* More records of one kind than before are not fewer. *)
LEMMA MoreNewer ==
  ASSUME NEW q, Newer(q) \subseteq Newer(q)', Cardinality(Newer(q)) >= LogMax
  PROVE  Cardinality(Newer(q)') >= LogMax
<1>1. IsFiniteSet(Newer(q)')
  <2>1. IsFiniteSet(Visible')
    <3>1. Visible' \in SUBSET Slots
      BY DEF Visible
    <3>2. IsFiniteSet(Slots)
      BY FS_Interval, StoreAssumption DEF Slots
    <3> QED BY <3>1, <3>2, FS_Subset
  <2>2. Newer(q)' \in SUBSET Visible'
    BY DEF Newer
  <2> QED BY <2>1, <2>2, FS_Subset
<1>2. Cardinality(Newer(q)) <= Cardinality(Newer(q)')
  BY <1>1, FS_Subset
<1>3. Cardinality(Newer(q)) \in Nat /\ Cardinality(Newer(q)') \in Nat
  BY <1>1, NewerFinite, FS_CardinalityType
<1> QED BY <1>2, <1>3, StorageAssumption

(* They do so from one publication to the next, while an append fails or    *)
(* reuses a slot, if there was memory for the scan.                          *)
LogInv == stage \in Listing /\ refreshed => LogComplete

LEMMA StepLogInv ==
  ASSUME HistoryInv, HistoryInv', IInv, LatestInv, LatestInv', StageInv, LogInv,
         [MSNext]_msVars
  PROVE  LogInv'
<1> USE DEF HistoryInv, LogComplete
<1>6. FullLog'
  BY PassedOut, PTL
<1>7. (visibleLog = Recent(current, LogMax))' => LogComplete'
  BY FreshLog, PTL
<1>1. CASE stage' \notin Listing
  BY <1>1 DEF LogInv
<1>2. CASE BootBuilds \/ Publish
  <2>1. /\ refreshed' => visibleLog' = Recent(current, LogMax)'
        /\ acked' = acked /\ header' = header
    <3>1. UNCHANGED <<header, payload, acked>>
      BY <1>2 DEF BootBuilds, Publish, vars
    <3>2. refreshed' => visibleLog' = Recent(current', LogMax)
      BY <1>2 DEF BootBuilds, Publish, RefreshVisibleLog
    <3> QED BY <3>1, <3>2 DEF Recent, Eligible, InfoOf, Visible
  <2> QED BY <1>7, <2>1 DEF LogInv
<1>3. CASE Calm /\ stage' \in Listing
  BY <1>3 DEF Calm, LogInv, Listed, Newer, Visible
<1>4. CASE Appending
  <2>1. UNCHANGED <<acked, current, visibleLog, stage, refreshed>> /\ stage \in Listing
    BY <1>4 DEF Appending, device, observed, EraseHeader, ErasePayload, WritePayload, FinishPayload,
       ProgramHeader, Listing, Settled
  <2> SUFFICES ASSUME refreshed, NEW r \in acked', r.sequence # current'
               PROVE  Listed(r.sequence)' \/ Cardinality(Newer(r.sequence)') >= LogMax
    BY <2>1 DEF LogInv
  <2>2. Listed(r.sequence) \/ Cardinality(Newer(r.sequence)) >= LogMax
    BY <2>1 DEF LogInv
  <2>3. r.sequence \in Nat /\ \A s \in Slots : header[s].sequence \in Nat
    BY <2>1, FieldTypes DEF RingInv, TypeOK
  <2>4. CASE EraseHeader
    <3>1. PICK e \in Slots : e = job.slot
      BY FieldTypes DEF RingInv
    <3>2. /\ Visible' = Visible \ {e}
          /\ \A s \in Visible' : header'[s] = header[s]
          /\ e \in Visible =>
              \E u \in Visible' : header[u].sequence = header[e].sequence + SlotCount - 1
      BY <2>4, <3>1, EraseKeeps
    <3>3. CASE e \in Visible /\ header[e].sequence >= r.sequence
      <4>1. PICK u \in Visible' : header[u].sequence = header[e].sequence + SlotCount - 1
        BY <3>2, <3>3
      <4>2. header'[u].sequence >= r.sequence + SlotCount - 1
        BY <2>3, <3>1, <3>2, <3>3, <4>1, StoreAssumption
      <4>3. Passed(r.sequence)'
        BY <4>2 DEF Passed
      <4> QED BY <4>3, <1>6 DEF FullLog
    <3>4. CASE ~(e \in Visible /\ header[e].sequence >= r.sequence)
      <4>1. Listed(r.sequence) => Listed(r.sequence)'
        BY <2>1, <2>3, <3>2, <3>4 DEF Listed
      <4>2. Newer(r.sequence) \subseteq Newer(r.sequence)'
        BY <2>1, <2>3, <3>1, <3>2, <3>4 DEF Newer
      <4> QED BY <2>2, <4>1, <4>2, MoreNewer
    <3> QED BY <3>3, <3>4
  <2>5. CASE ProgramHeader
    <3>1. Visible \subseteq Visible' /\ \A s \in Visible : header'[s].sequence = header[s].sequence
      BY <2>5, ProgramKeeps
    <3>2. Listed(r.sequence) => Listed(r.sequence)'
      BY <2>1, <3>1 DEF Listed
    <3>3. Newer(r.sequence) \subseteq Newer(r.sequence)'
      BY <2>1, <3>1 DEF Newer
    <3> QED BY <2>2, <3>2, <3>3, MoreNewer
  <2>6. CASE ErasePayload \/ WritePayload \/ FinishPayload
    <3>1. header' = header
      BY <2>6 DEF ErasePayload, WritePayload, FinishPayload
    <3> QED BY <2>1, <2>2, <3>1 DEF Listed, Newer, Visible
  <2> QED BY <1>4, <2>4, <2>5, <2>6 DEF Appending
<1>5. CASE AppendSucceeds
  BY <1>5 DEF AppendSucceeds, LogInv, Listing, Settled, Serving
<1> QED BY <1>1, <1>2, <1>3, <1>4, <1>5, StepCases

(* What the invariant says of a connected disk. *)
LEMMA ShownFromInv ==
  ASSUME HistoryInv, IInv, LatestInv, LogInv
  PROVE  LatestApart /\ AckedShown
<1>1. connected => stage \in Listing
  BY DEF IInv, ApartInv, Listing, Settled
<1>2. LatestApart
  BY <1>1 DEF LatestApart, LatestInv, IsLatest
<1>3. ASSUME connected, refreshed, NEW r \in acked, r.sequence # current,
             ~(Cardinality(Newer(r.sequence)) >= LogMax)
      PROVE  \E i \in visibleLog : i.sequence = r.sequence /\ ReadRange(i.slot) = r.data
  <2>1. PICK i \in visibleLog : /\ i.sequence = r.sequence /\ i.slot \in Visible
                                /\ header[i.slot].sequence = r.sequence
    BY <1>1, <1>3 DEF LogInv, LogComplete, Listed
  <2>2. ~Passed(r.sequence)
    BY <1>3, PassedOut DEF HistoryInv, FullLog
  <2>3. PICK s \in Visible : header[s].sequence = r.sequence /\ ReadRange(s) = r.data
    BY <2>2 DEF HistoryInv, AckedDurable, Passed
  <2>4. s = i.slot
    BY <2>1, <2>3, RecordsDiffer DEF HistoryInv
  <2> QED BY <2>1, <2>3, <2>4
<1>4. AckedShown
  BY <1>3 DEF AckedShown, Newer
<1> QED BY <1>2, <1>4

(* The inductive invariant. *)
ShownInv == HistoryInv /\ IInv /\ StageInv /\ LatestInv /\ LogInv

LEMMA InitShownInv == MSInit => ShownInv
<1> SUFFICES ASSUME MSInit PROVE ShownInv
  OBVIOUS
<1>1. HistoryInv /\ IInv
  BY InitHistory, InitIInv
<1>2. /\ stage = "boot" /\ pc = "idle" /\ job = NoJob /\ current = 0 /\ lateFailures = 0
  BY DEF MSInit
<1> QED
  BY <1>1, <1>2, StorageAssumption DEF ShownInv, StageInv, LatestInv, LogInv, Listing, Settled,
     Serving, Storing, Idle, AppendStages, ResetStages

LEMMA StepShownInv == ShownInv /\ [MSNext]_msVars => ShownInv'
<1> SUFFICES ASSUME ShownInv, [MSNext]_msVars PROVE ShownInv'
  OBVIOUS
<1>1. HistoryInv' /\ IInv'
  BY StepHistoryInv, StepIInv DEF ShownInv
<1>2. StageInv' /\ LatestInv'
  BY StepStageInv, StepLatestInv DEF ShownInv, HistoryInv
<1>3. LogInv'
  BY <1>1, <1>2, StepLogInv DEF ShownInv
<1> QED BY <1>1, <1>2, <1>3 DEF ShownInv

LEMMA Shown == MSSpec => []ShownInv
BY InitShownInv, StepShownInv, PTL DEF MSSpec

(* LATEST is the newest acknowledged payload, and not a LOG file as well.    *)
THEOREM LatestApartHolds == MSSpec => []LatestApart
<1>1. ShownInv => LatestApart
  BY ShownFromInv DEF ShownInv
<1> QED BY <1>1, Shown, PTL

(* A connected disk shows every acknowledged record, unless LogMax newer     *)
(* ones have pushed it out, whatever fails or loses power, if there was      *)
(* memory for the scan behind its LOG.                                       *)
THEOREM AckedShownHolds == MSSpec => []AckedShown
<1>1. ShownInv => AckedShown
  BY ShownFromInv DEF ShownInv
<1> QED BY <1>1, Shown, PTL

-----------------------------------------------------------------------------
(* The old disk.                                                           *)

(* While no reset is cut off: the history has no gap, except during a reset, *)
(* which clears the ring from slot 0 upwards.                                *)
Contiguous ==
  /\ stage # "reset" => NoGaps
  /\ stage = "reset" => IF Idle THEN Visible = {}
                                ELSE \A s \in Visible : s >= job.slot

(* The listed records are there, and too new to be reused.                   *)
Ahead(t) == IF pc = "writeHeader" /\ t = job.slot THEN 1 ELSE 0

WithinReach ==
  stage \in Listing =>
    \A i \in visibleLog :
      /\ Verified(i)
      /\ \A t \in Visible :
           header[t].sequence - i.sequence <= LogMax + lateFailures + Ahead(t)

(* Every step keeps the history without gaps. *)
LEMMA StepContiguous ==
  ASSUME ~cuts, RingInv, IInv, StageInv, Contiguous, [MSNext]_msVars
  PROVE  Contiguous'
<1>1. NoGaps /\ ~ResetHeader => NoGaps'
  BY StepNoGaps, StepOfRing
<1>2. CASE stage # "reset" /\ stage' # "reset"
  <2>1. ~ResetHeader
    BY <1>2 DEF ResetHeader, StageInv, ResetStages
  <2> QED BY <1>1, <1>2, <2>1 DEF Contiguous
<1>3. CASE BootClears
  <2>1. job' = NoJob /\ stage' = "reset" /\ pc' = "resetHeader"
    BY <1>3 DEF BootClears, ResetBegin, StageInv
  <2>2. \A s \in Visible' : s >= job'.slot
    BY <2>1, StoreAssumption DEF NoJob, Cursor, Visible, Slots
  <2> QED BY <2>1, <2>2 DEF Contiguous, Idle
<1>4. CASE BootErases
  <2>1. /\ stage = "reset" /\ stage' = "reset" /\ ~Idle /\ (ResetHeader \/ ResetPayload)
        /\ \A s \in Visible : s >= job.slot
        /\ job.slot \in Slots /\ Visible \subseteq Slots
    BY <1>4, FieldTypes DEF BootErases, ResetHeader, ResetPayload, Contiguous, Idle, device, RingInv
  <2>2. CASE ResetHeader
    <3>1. Visible' \subseteq Visible /\ job' = job /\ pc' = "resetPayload"
      BY <2>1, <2>2, ScanAfterErase DEF ResetHeader, RingInv
    <3> QED BY <2>1, <3>1 DEF Contiguous, Idle
  <2>3. CASE ResetPayload
    <3>1. Visible' = Visible /\ job.slot \notin Visible
      BY <2>1, <2>3 DEF ResetPayload, Visible, RingInv, JobInv, HeaderIsValid
    <3>2. \A s \in Visible' : s >= job.slot + 1
      BY <2>1, <3>1 DEF Slots
    <3>3. CASE job.slot = SlotCount - 1
      <4>1. Visible' = {}
        BY <2>1, <3>1, <3>2, <3>3, StoreAssumption DEF Slots
      <4>2. pc' = "idle"
        BY <2>3, <3>3 DEF ResetPayload
      <4> QED BY <2>1, <4>1, <4>2 DEF Contiguous, Idle
    <3>4. CASE job.slot # SlotCount - 1
      <4>1. job'.slot = job.slot + 1 /\ pc' = "resetHeader"
        BY <2>3, <3>4 DEF ResetPayload, Cursor
      <4> QED BY <2>1, <3>2, <4>1 DEF Contiguous, Idle
    <3> QED BY <3>3, <3>4
  <2> QED BY <2>1, <2>2, <2>3
<1>5. CASE stage = "reset" /\ (BootBuilds \/ BootFails)
  <2>1. Visible = {} /\ header' = header /\ stage' # "reset"
    BY <1>5 DEF BootBuilds, BootFails, Contiguous, vars
  <2> QED BY <2>1 DEF Contiguous, NoGaps, Visible
<1>6. CASE ~(stage # "reset" /\ stage' # "reset") /\
           UNCHANGED <<header, pc, job, stage>>
  BY <1>6 DEF Contiguous, NoGaps, Present, Visible, Idle
<1>7. \/ stage # "reset" /\ stage' # "reset"
      \/ BootClears \/ BootErases \/ (stage = "reset" /\ (BootBuilds \/ BootFails))
      \/ UNCHANGED <<header, pc, job, stage>>
  <2> USE DEF vars, device, observed
  <2>1. CASE BootBuilds \/ BootFails \/ BootEraseFails \/ LosePower
    BY <2>1 DEF BootBuilds, BootFails, BootEraseFails, LosePower
  <2>2. CASE StartUpdate \/ BeginAppend \/ Appending \/ AppendSucceeds \/ AppendGivesUp
    BY <2>2 DEF StartUpdate, BeginAppend, Appending, AppendSucceeds, AppendGivesUp
  <2>3. CASE ReleaseCache \/ Analyze \/ RestoreCache \/ Publish \/ Rebuild \/ Connect \/ GuardEnds
    BY <2>3 DEF ReleaseCache, Analyze, RestoreCache, Publish, Rebuild, Connect, GuardEnds
  <2>4. CASE HostEnumerates \/ ReadBegins \/ ReadEnds \/ UNCHANGED msVars
    BY <2>4 DEF HostEnumerates, ReadBegins, ReadEnds, msVars
  <2> QED BY <2>1, <2>2, <2>3, <2>4 DEF MSNext, DeviceStep
<1> QED BY <1>2, <1>3, <1>4, <1>5, <1>6, <1>7

(* A fresh LOG without gaps reaches LogMax records back.                     *)
LEMMA FreshReach ==
  ASSUME RingInv, NoGaps, NEW c, NEW i \in Recent(c, LogMax)
  PROVE  /\ Verified(i)
         /\ \A t \in Visible : header[t].sequence - i.sequence <= LogMax
<1>1. PICK e \in Visible :
           /\ i = InfoOf(e) /\ i.slot = e /\ i.sequence = header[e].sequence
           /\ Cardinality({t \in Eligible(c) :
                             header[t].sequence > header[e].sequence}) < LogMax
  BY RecentRecords
<1>2. Verified(i)
  BY <1>1 DEF Verified
<1> SUFFICES ASSUME NEW t \in Visible PROVE header[t].sequence - header[e].sequence <= LogMax
  BY <1>1, <1>2
<1>3. LogMax \in Nat /\ \A s \in Visible : header[s].sequence \in Nat
  BY StorageAssumption, FieldTypes DEF RingInv
<1>4. CASE c # 0
  <2>1. {s \in Eligible(c) : header[s].sequence > header[e].sequence} =
          {s \in Visible : header[s].sequence > header[e].sequence /\ header[s].sequence # c}
    BY <1>4 DEF Eligible
  <2> QED BY <1>1, <1>3, <2>1, FewNewer
<1>5. CASE c = 0
  <2>1. {s \in Eligible(c) : header[s].sequence > header[e].sequence} =
          {s \in Visible : header[s].sequence > header[e].sequence /\ header[s].sequence # -1}
    BY <1>3, <1>5 DEF Eligible
  <2> QED BY <1>1, <1>3, <2>1, FewNewer
<1> QED BY <1>4, <1>5

(* The slots LOG and the failed appends leave free. *)
FewLateFailures == MaxLateFailures <= SlotCount - LogMax - 2

(* Every step keeps the listed records within reach. *)
LEMMA StepWithinReach ==
  ASSUME ~cuts, FewLateFailures, RingInv, RingInv', IInv, StageInv, Contiguous, Contiguous',
         WithinReach, [MSNext]_msVars
  PROVE  WithinReach'
<1>0. /\ Visible \subseteq Slots /\ Visible' \subseteq Slots
      /\ SlotCount \in Nat /\ SlotCount > 1
      /\ LogMax \in Nat /\ lateFailures \in Nat /\ lateFailures <= MaxLateFailures
      /\ LogMax + lateFailures < SlotCount - 1
      /\ \A s \in Slots : header[s].sequence \in Nat
      /\ job.slot \in Slots /\ job.sequence \in Nat
  BY FieldTypes, StoreAssumption, StorageAssumption DEF RingInv, StageInv, FewLateFailures, Visible
<1>1. CASE stage' \notin Listing
  BY <1>1 DEF WithinReach
<1>2. CASE BootBuilds \/ Publish
  <2>1. /\ UNCHANGED <<header, payload, pc, job>> /\ pc # "writeHeader"
        /\ stage # "reset" \/ Idle
        /\ lateFailures' \in Nat
    BY <1>0, <1>2 DEF BootBuilds, Publish, vars, IInv, ApartInv, Idle, observed
  <2>2. NoGaps
    BY <2>1 DEF Contiguous, NoGaps
  <2>3. visibleLog' \subseteq Recent(current', LogMax)
    BY <1>2 DEF BootBuilds, Publish, RefreshVisibleLog, GetRecent, Recent
  <2> SUFFICES ASSUME NEW i \in visibleLog'
               PROVE  /\ Verified(i)'
                      /\ \A t \in Visible : header[t].sequence - i.sequence <=
                                              LogMax + lateFailures'
    <3>1. /\ \A t : Ahead(t)' = 0
          /\ LogMax + lateFailures' + 0 = LogMax + lateFailures'
      BY <1>0, <2>1 DEF Ahead
    <3>2. Visible' = Visible /\ header' = header
      BY <2>1 DEF Visible
    <3> QED BY <3>1, <3>2 DEF WithinReach
  <2>4. /\ Verified(i)
        /\ \A t \in Visible : header[t].sequence - i.sequence <= LogMax
    BY <2>2, <2>3, FreshReach
  <2>5. Verified(i)'
    BY <2>1, <2>4 DEF Verified, InfoOf, Visible
  <2>6. PICK e \in Visible : i.sequence = header[e].sequence
    BY <2>3, RecentRecords
  <2> QED BY <1>0, <2>1, <2>4, <2>5, <2>6
<1>3. CASE Appending
  <2>1. UNCHANGED <<visibleLog, stage, lateFailures>> /\ stage \in Listing
    BY <1>3 DEF Appending, device, observed, Listing, Settled
  <2> SUFFICES ASSUME NEW i \in visibleLog
               PROVE  /\ Verified(i)'
                      /\ \A t \in Visible' : header'[t].sequence - i.sequence <=
                                              LogMax + lateFailures + Ahead(t)'
    BY <2>1 DEF WithinReach
  <2>2. /\ Verified(i)
        /\ \A t \in Visible : header[t].sequence - i.sequence <=
                                LogMax + lateFailures + Ahead(t)
    BY <2>1 DEF WithinReach
  <2>3. PICK d \in Visible : i.slot = d /\ i = InfoOf(d) /\ i.sequence = header[d].sequence
    BY <2>2 DEF Verified, InfoOf
  <2>4. \A t : Ahead(t) \in {0, 1} /\ Ahead(t)' \in {0, 1}
    BY DEF Ahead
  <2>5. CASE EraseHeader
    <3>1. PICK e \in Slots : e = job.slot
      BY <1>0
    <3>2. /\ Visible' = Visible \ {e}
          /\ \A s \in Visible' : header'[s] = header[s]
          /\ e \in Visible =>
              \E u \in Visible' : header[u].sequence = header[e].sequence + SlotCount - 1
      BY <2>5, <3>1, EraseKeeps
    <3>3. \A t : Ahead(t) = 0
      BY <2>5 DEF EraseHeader, Ahead
    <3>4. d # e
      <4> SUFFICES ASSUME d = e PROVE FALSE
        OBVIOUS
      <4>1. PICK u \in Visible : header[u].sequence = header[e].sequence + SlotCount - 1
        BY <3>2
      <4>2. header[u].sequence - header[e].sequence <= LogMax + lateFailures
        BY <1>0, <2>2, <2>3, <3>3, <4>1
      <4> QED BY <1>0, <4>1, <4>2
    <3>5. Verified(i)'
      BY <2>3, <3>2, <3>4 DEF Verified, InfoOf
    <3>6. \A t \in Visible' : header'[t].sequence - i.sequence <=
                                LogMax + lateFailures + Ahead(t)'
      BY <1>0, <2>2, <2>3, <2>4, <3>2, <3>3
    <3> QED BY <3>5, <3>6
  <2>6. CASE ProgramHeader
    <3>1. PICK e \in Slots : e = job.slot
      BY <1>0
    <3>2. /\ Visible \subseteq Visible' /\ Visible' \subseteq Visible \cup {e}
          /\ \A s \in Visible : header'[s].sequence = header[s].sequence
          /\ header'[e].sequence = job.sequence
          /\ pc = "writeHeader" /\ pc' = pc /\ job' = job
          /\ JobAhead /\ JobPlaced /\ JobSlot
      BY <2>6, <3>1, ProgramKeeps DEF RingInv, JobInv, AppendStages
    <3>3. \A t : Ahead(t)' = Ahead(t)
      BY <3>2 DEF Ahead
    <3>4. Verified(i)'
      <4>1. CASE d # e
        <5>1. d \in Slots \ {e} /\ d \in Visible'
          BY <1>0, <3>2, <4>1
        <5>2. header'[d] = header[d]
          BY <2>6, <3>1, <5>1, ScanAfterProgram DEF RingInv
        <5> QED BY <2>3, <5>1, <5>2 DEF Verified, InfoOf
      <4>2. CASE d = e
        <5>1. header[e].words > 0
          BY <1>0, <2>3, <4>2 DEF Visible, HeaderIsValid, RingInv, TypeOK, Header
        <5>2. InfoOf(e)' = InfoOf(e)
          BY <2>6, <3>1, <3>2, <5>1, ScanAfterProgram DEF RingInv, JobSlot, InfoOf
        <5> QED BY <2>3, <3>2, <4>2, <5>2 DEF Verified
      <4> QED BY <4>1, <4>2
    <3>5. ASSUME NEW t \in Visible', t \notin Visible
          PROVE  header'[t].sequence - i.sequence <= LogMax + lateFailures + Ahead(t)'
      <4>1. t = e /\ Ahead(t)' = 1 /\ d # e
        BY <3>1, <3>2, <3>5 DEF Ahead
      <4>2. PICK u \in Visible \ {e} : job.sequence = header[u].sequence + 1
        BY <3>1, <3>2, <4>1 DEF JobPlaced
      <4>3. Ahead(u) = 0
        BY <3>1, <4>2 DEF Ahead
      <4>4. header[u].sequence - i.sequence <= LogMax + lateFailures
        BY <1>0, <2>2, <4>2, <4>3
      <4> QED BY <1>0, <2>3, <3>2, <4>1, <4>2, <4>4
    <3>6. ASSUME NEW t \in Visible
          PROVE  header'[t].sequence - i.sequence <= LogMax + lateFailures + Ahead(t)'
      BY <2>2, <3>2, <3>3, <3>6
    <3> QED BY <3>4, <3>5, <3>6
  <2>7. CASE ErasePayload \/ WritePayload \/ FinishPayload
    <3>1. header' = header /\ Visible' = Visible /\ \A t : Ahead(t) = 0
      BY <2>7 DEF ErasePayload, WritePayload, FinishPayload, Visible, Ahead
    <3>2. Verified(i)'
      BY <2>2, <3>1 DEF Verified, InfoOf
    <3> QED BY <1>0, <2>2, <2>3, <2>4, <3>1, <3>2
  <2> QED BY <1>3, <2>5, <2>6, <2>7 DEF Appending
<1>4. CASE AppendGivesUp
  <2>1. /\ UNCHANGED <<header, visibleLog>> /\ stage \in Listing /\ pc' = "idle"
        /\ IF pc = "writeHeader" /\ HeaderIsValid(header[job.slot])
             THEN lateFailures' = lateFailures + 1
             ELSE lateFailures' = lateFailures
    BY <1>4 DEF AppendGivesUp, AppendFails, Listing, Settled
  <2> SUFFICES ASSUME NEW i \in visibleLog
               PROVE  /\ Verified(i)'
                      /\ \A t \in Visible :
                           header[t].sequence - i.sequence <= LogMax + lateFailures'
    <3>1. /\ \A t : Ahead(t)' = 0
          /\ LogMax + lateFailures' + 0 = LogMax + lateFailures'
      BY <1>0, <2>1 DEF Ahead
    <3>2. Visible' = Visible /\ header' = header
      BY <2>1 DEF Visible
    <3> QED BY <2>1, <3>1, <3>2 DEF WithinReach
  <2>2. /\ Verified(i)
        /\ \A t \in Visible : header[t].sequence - i.sequence <=
                                LogMax + lateFailures + Ahead(t)
    BY <2>1 DEF WithinReach
  <2>3. Verified(i)'
    BY <2>1, <2>2 DEF Verified, InfoOf, Visible
  <2>4. /\ \A t \in Visible : lateFailures + Ahead(t) <= lateFailures'
        /\ \A t \in Visible : header[t].sequence \in Nat /\ Ahead(t) \in Nat
        /\ i.sequence \in Nat /\ lateFailures' \in Nat
    BY <1>0, <2>1, <2>2 DEF Ahead, Visible, Verified, InfoOf
  <2> QED BY <1>0, <2>2, <2>3, <2>4
<1>5. CASE /\ UNCHANGED <<header, visibleLog, lateFailures>>
           /\ stage' \in Listing => stage \in Listing
           /\ pc' = pc \/ (pc # "writeHeader" /\ pc' # "writeHeader")
           /\ pc' = pc => job' = job
  <2>1. \A t : Ahead(t)' = Ahead(t)
    BY <1>5 DEF Ahead
  <2> QED BY <1>5, <2>1 DEF WithinReach, Verified, InfoOf, Visible
<1>6. \/ stage' \notin Listing
      \/ BootBuilds \/ Publish \/ Appending \/ AppendGivesUp
      \/ /\ UNCHANGED <<header, visibleLog, lateFailures>>
         /\ stage' \in Listing => stage \in Listing
         /\ pc' = pc \/ (pc # "writeHeader" /\ pc' # "writeHeader")
         /\ pc' = pc => job' = job
  <2> USE DEF vars, device, observed, Listing, Settled, Serving
  <2>1. CASE BootClears \/ BootErases \/ BootFails \/ BootEraseFails \/ LosePower
    BY <2>1 DEF BootClears, BootErases, BootFails, BootEraseFails, LosePower
  <2>2. CASE StartUpdate \/ AppendSucceeds
    BY <2>2 DEF StartUpdate, AppendSucceeds
  <2>3. CASE BeginAppend
    BY <2>3 DEF BeginAppend, AppendBegin, AppendRefused, Idle
  <2>4. CASE ReleaseCache \/ Analyze \/ RestoreCache \/ Rebuild \/ Connect \/ GuardEnds
    BY <2>4 DEF ReleaseCache, Analyze, RestoreCache, Rebuild, Connect, GuardEnds
  <2>5. CASE HostEnumerates \/ ReadBegins \/ ReadEnds \/ UNCHANGED msVars
    BY <2>5 DEF HostEnumerates, ReadBegins, ReadEnds, msVars
  <2> QED BY <2>1, <2>2, <2>3, <2>4, <2>5 DEF MSNext, DeviceStep
<1> QED BY <1>1, <1>2, <1>3, <1>4, <1>5, <1>6

(* Whether resets may be cut is settled from the start.                      *)
LEMMA CutsKept == [MSNext]_msVars => cuts' = cuts
BY DEF MSNext, DeviceStep, BootErases, BootBuilds, BootFails, BeginAppend, Appending,
       AppendSucceeds, ReleaseCache, Analyze, RestoreCache, Publish, Rebuild, Connect,
       GuardEnds, BootClears, BootEraseFails, StartUpdate, AppendGivesUp, HostEnumerates,
       ReadBegins, ReadEnds, LosePower, observed, msVars

(* The comment of update_latest_from_qr is right for a history that no reset *)
(* has left with gaps: with at most SlotCount - LogMax - 2 appends (214 on   *)
(* the device) that fail after their header has become readable, every LOG   *)
(* file of a connected disk can be read, also after a failed append.         *)
THEOREM OldDiskKept ==
  ASSUME MaxLateFailures <= SlotCount - LogMax - 2
  PROVE  MSSpec => []UncutDiskValid
<1> DEFINE J == ShownInv /\ (~cuts => Contiguous /\ WithinReach)
<1>1. MSInit => J
  <2>1. MSInit => stage = "boot"
    BY DEF MSInit
  <2> QED
    BY <2>1, InitShownInv, InitHistory DEF Contiguous, WithinReach, Listing, Settled, Serving
<1>2. J /\ [MSNext]_msVars => J'
  <2> SUFFICES ASSUME J, [MSNext]_msVars PROVE J'
    OBVIOUS
  <2>1. ShownInv'
    BY StepShownInv
  <2>2. cuts' = cuts
    BY CutsKept
  <2>3. ~cuts => Contiguous'
    BY StepContiguous DEF ShownInv, HistoryInv
  <2>4. ~cuts => WithinReach'
    BY <2>1, <2>3, StepWithinReach DEF ShownInv, HistoryInv, FewLateFailures
  <2> QED BY <2>1, <2>2, <2>3, <2>4
<1>3. J => UncutDiskValid
  BY DEF UncutDiskValid, WithinReach, OldDiskValid, ShownInv, IInv, ApartInv, Listing, Settled
<1> QED BY <1>1, <1>2, <1>3, PTL DEF MSSpec
=============================================================================
