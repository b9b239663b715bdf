-------------------------- MODULE QrReceiver_proofs --------------------------
(***************************************************************************)
(* Proofs about QrReceiver: the buffer is never overrun; a payload from a  *)
(* verified envelope is whole, whatever the wire does; and on a steady     *)
(* wire every accepted payload is the answer to the scan that was running, *)
(* if a tap takes longer than the rest of an answer.  For any number of    *)
(* pieces, scans, status packets and corrupted pieces.                     *)
(***************************************************************************)
EXTENDS QrReceiver, TLAPS

(* Only the answer to a scan ever contains an envelope.                     *)
Good == {p \in Pieces : p.count > 0 => p.scan > 0}

(* One the scanner made.                                                    *)
Wrapped == {p \in Good : p.count > 0 => p.format = 3}

FlagInv ==
  /\ state \in {"boot", "idle", "scanning", "guard"}
  /\ analyzer \in BOOLEAN /\ expected \in BOOLEAN /\ trigger \in BOOLEAN
  /\ receiving \in BOOLEAN /\ steady \in BOOLEAN

CountInv ==
  /\ setting \in {0, 3}
  /\ scan \in 0..LastScan
  /\ trigger \/ state = "scanning" => scan > 0
  /\ silence \in 0..(InterByte + 1) /\ quiet \in 0..InterByte
  /\ elapsed \in Nat
  /\ statuses \in 0..MaxStatus /\ noises \in 0..MaxNoise

PieceInv ==
  /\ wire \in Seq(Good) /\ fifo \in Seq(Good) /\ buffer \in Seq(Good)
  /\ Len(buffer) <= Capacity
  /\ accepted.pieces \in Seq(Good)

TypeInv == FlagInv /\ CountInv /\ PieceInv

-----------------------------------------------------------------------------
(* The pieces there are.                                                    *)

LEMMA LastScanType == LastScan \in Nat
BY ReceiverAssumption DEF LastScan

LEMMA GoodExternal == StatusPacket \in Good /\ Noise \in Good
BY LastScanType, ReceiverAssumption DEF StatusPacket, Noise, Good, Pieces

LEMMA AnswerGood ==
  ASSUME NEW k \in 1..LastScan, NEW f \in {0, 3}, NEW c \in {0, 1, 2}
  PROVE  Answer(k, f, c) \in Seq(Good)
<1>1. \A i \in 1..Parts : Piece(k, i, f, c) \in Good
  BY LastScanType, ReceiverAssumption DEF Piece, Good, Pieces
<1> QED
  BY <1>1, ReceiverAssumption DEF Answer

(* An envelope that was verified, of an answer with one barcode.            *)
LEMMA VerifiedAnswer ==
  ASSUME buffer \in Seq(Good), Detected, ~Rejected
  PROVE  \E k \in 1..LastScan : /\ buffer = Answer(k, buffer[1].format, 1)
                                /\ buffer[1].format \in {0, 3}
<1>1. CrcValid /\ buffer[1].count = 1
  BY DEF Rejected
<1>2. buffer = Answer(buffer[1].scan, buffer[1].format, 1)
  BY <1>1 DEF CrcValid
<1>3. buffer[1] \in Good
  BY ReceiverAssumption DEF Detected
<1>4. buffer[1].scan \in 1..LastScan /\ buffer[1].format \in {0, 3}
  BY <1>1, <1>3, LastScanType DEF Good, Pieces
<1> QED
  BY <1>2, <1>4

LEMMA GoodPieces == Seq(Good) \subseteq Seq(Pieces)
BY DEF Good

(* Power-on: nothing has been received.                                     *)
LEMMA InitTypeInv == Init => TypeInv
<1> SUFFICES ASSUME Init PROVE TypeInv
  OBVIOUS
<1>1. FlagInv
  BY DEF Init, FlagInv
<1>2. CountInv
  BY LastScanType, ReceiverAssumption DEF Init, CountInv
<1>3. PieceInv
  BY ReceiverAssumption DEF Init, PieceInv, Nothing
<1> QED
  BY <1>1, <1>2, <1>3 DEF TypeInv

(* Every step of the scanner, of the wire, of the device and of the clock   *)
(* preserves the types.                                                     *)
LEMMA StepTypeInv == TypeInv /\ [Next]_vars => TypeInv'
<1> SUFFICES ASSUME TypeInv, [Next]_vars PROVE TypeInv'
  OBVIOUS
<1>0. LastScan' = LastScan /\ Good' = Good
  BY DEF Next, Poll, vars, config, scanner, rx, bounds, LastScan, Good, Pieces, Configure,
         ScannerReads, WireDelivers,
         ScannerStatus, StartScan, StopScan, PollReads, PollOverflows, PollDropsStatus,
         PollRejects, PollAccepts, PollTimesOut, GuardEnds, Tick
<1> USE <1>0, LastScanType, ReceiverAssumption
    DEF TypeInv, FlagInv, CountInv, PieceInv, config, scanner, rx, bounds
<1>1. CASE Configure
  <2>1. FlagInv'
    BY <1>1 DEF Configure
  <2>2. CountInv'
    BY <1>1 DEF Configure
  <2>3. PieceInv'
    BY <1>1, GoodExternal, AnswerGood DEF Configure
  <2> QED
    BY <2>1, <2>2, <2>3
<1>2. CASE ScannerReads
  <2>1. FlagInv'
    BY <1>2 DEF ScannerReads
  <2>2. CountInv'
    BY <1>2 DEF ScannerReads
  <2>3. PieceInv'
    <3>1. PICK c \in {0, 1, 2} : wire' = Answer(scan, setting, c)
      BY <1>2 DEF ScannerReads, Counts
    <3>2. wire' \in Seq(Good)
      BY <1>2, <3>1, AnswerGood DEF ScannerReads
    <3> QED
      BY <1>2, <3>2 DEF ScannerReads
  <2> QED
    BY <2>1, <2>2, <2>3
<1>3. CASE WireDelivers
  <2>1. FlagInv'
    BY <1>3 DEF WireDelivers
  <2>2. CountInv'
    BY <1>3 DEF WireDelivers
  <2>3. PieceInv'
    <3>1. Head(wire) \in Good /\ wire' \in Seq(Good)
      BY <1>3 DEF WireDelivers
    <3>2. PICK p \in Good : fifo' = Append(fifo, p)
      BY <1>3, <3>1, GoodExternal DEF WireDelivers
    <3>3. fifo' \in Seq(Good)
      BY <3>2
    <3> QED
      BY <1>3, <3>1, <3>3 DEF WireDelivers
  <2> QED
    BY <2>1, <2>2, <2>3
<1>4. CASE ScannerStatus
  <2>1. FlagInv'
    BY <1>4 DEF ScannerStatus
  <2>2. CountInv'
    BY <1>4 DEF ScannerStatus
  <2>3. PieceInv'
    BY <1>4, GoodExternal, AnswerGood DEF ScannerStatus
  <2> QED
    BY <2>1, <2>2, <2>3
<1>5. CASE StartScan
  <2>1. FlagInv'
    BY <1>5 DEF StartScan
  <2>2. CountInv'
    BY <1>5 DEF StartScan
  <2>3. PieceInv'
    BY <1>5, GoodExternal, AnswerGood DEF StartScan
  <2> QED
    BY <2>1, <2>2, <2>3
<1>6. CASE PollReads
  <2>1. FlagInv'
    BY <1>6 DEF PollReads, Received
  <2>2. CountInv'
    BY <1>6 DEF PollReads, Received
  <2>3. PieceInv'
    BY <1>6, GoodExternal, AnswerGood DEF PollReads, Received
  <2> QED
    BY <2>1, <2>2, <2>3
<1>7. CASE PollOverflows
  <2>1. FlagInv'
    BY <1>7 DEF PollOverflows, StopScan
  <2>2. CountInv'
    BY <1>7 DEF PollOverflows, StopScan
  <2>3. PieceInv'
    BY <1>7, GoodExternal, AnswerGood DEF PollOverflows, StopScan
  <2> QED
    BY <2>1, <2>2, <2>3
<1>8. CASE PollDropsStatus
  <2>1. FlagInv'
    BY <1>8 DEF PollDropsStatus
  <2>2. CountInv'
    BY <1>8 DEF PollDropsStatus
  <2>3. PieceInv'
    BY <1>8, GoodExternal, AnswerGood DEF PollDropsStatus
  <2> QED
    BY <2>1, <2>2, <2>3
<1>9. CASE PollRejects
  <2>1. FlagInv'
    BY <1>9 DEF PollRejects, StopScan
  <2>2. CountInv'
    BY <1>9 DEF PollRejects, StopScan
  <2>3. PieceInv'
    BY <1>9, GoodExternal, AnswerGood DEF PollRejects, StopScan
  <2> QED
    BY <2>1, <2>2, <2>3
<1>10. CASE PollAccepts
  <2>1. FlagInv'
    BY <1>10 DEF PollAccepts
  <2>2. CountInv'
    BY <1>10 DEF PollAccepts
  <2>3. PieceInv'
    <3>1. accepted'.pieces = buffer
      BY <1>10 DEF PollAccepts
    <3>2. wire' = wire /\ (fifo' = <<>> \/ fifo' = fifo)
      BY <1>10 DEF PollAccepts
    <3>3. buffer' \in Seq(Good) /\ Len(buffer') <= Capacity
      BY <1>10 DEF PollAccepts
    <3>4. fifo' \in Seq(Good)
      <4>1. CASE fifo' = <<>>
        BY <4>1
      <4>2. CASE fifo' = fifo
        BY <4>2
      <4> QED
        BY <3>2, <4>1, <4>2
    <3> QED
      BY <3>1, <3>2, <3>3, <3>4
  <2> QED
    BY <2>1, <2>2, <2>3
<1>11. CASE PollTimesOut
  <2>1. FlagInv'
    BY <1>11 DEF PollTimesOut, StopScan
  <2>2. CountInv'
    BY <1>11 DEF PollTimesOut, StopScan
  <2>3. PieceInv'
    BY <1>11, GoodExternal, AnswerGood DEF PollTimesOut, StopScan
  <2> QED
    BY <2>1, <2>2, <2>3
<1>12. CASE GuardEnds
  <2>1. FlagInv'
    BY <1>12 DEF GuardEnds
  <2>2. CountInv'
    BY <1>12 DEF GuardEnds
  <2>3. PieceInv'
    BY <1>12, GoodExternal, AnswerGood DEF GuardEnds
  <2> QED
    BY <2>1, <2>2, <2>3
<1>13. CASE Tick
  <2>1. FlagInv'
    BY <1>13 DEF Tick, UpTo
  <2>2. CountInv'
    BY <1>13 DEF Tick, UpTo
  <2>3. PieceInv'
    BY <1>13, GoodExternal, AnswerGood DEF Tick, UpTo
  <2> QED
    BY <2>1, <2>2, <2>3
<1>14. CASE UNCHANGED vars
  BY <1>14 DEF vars
<1> QED
  BY <1>1, <1>2, <1>3, <1>4, <1>5, <1>6, <1>7, <1>8, <1>9, <1>10, <1>11, <1>12,
     <1>13, <1>14 DEF Next, Poll

(* Once Format 3 was confirmed every envelope is one the scanner made.      *)
ConfirmedInv ==
  /\ expected => setting = 3
  /\ state = "boot" => ~trigger /\ wire = <<>>
  /\ expected \/ state = "boot" =>
       wire \in Seq(Wrapped) /\ fifo \in Seq(Wrapped) /\ buffer \in Seq(Wrapped)

LEMMA InitConfirmed == Init => ConfirmedInv
BY DEF Init, ConfirmedInv

LEMMA WrappedPieces ==
  /\ StatusPacket \in Wrapped /\ Noise \in Wrapped
  /\ \A k \in 1..LastScan, c \in {1, 2} : Answer(k, 3, c) \in Seq(Wrapped)
<1>1. StatusPacket \in Wrapped /\ Noise \in Wrapped
  BY GoodExternal DEF Wrapped, StatusPacket, Noise
<1>2. ASSUME NEW k \in 1..LastScan, NEW c \in {1, 2}
      PROVE  Answer(k, 3, c) \in Seq(Wrapped)
  <2>1. \A i \in 1..Parts : Piece(k, i, 3, c) \in Wrapped
    BY LastScanType, ReceiverAssumption DEF Piece, Wrapped, Good, Pieces
  <2> QED
    BY <2>1, ReceiverAssumption DEF Answer
<1> QED
  BY <1>1, <1>2

LEMMA StepConfirmed == TypeInv /\ ConfirmedInv /\ [Next]_vars => ConfirmedInv'
<1> SUFFICES ASSUME TypeInv, ConfirmedInv, [Next]_vars PROVE ConfirmedInv'
  OBVIOUS
<1>0. LastScan' = LastScan /\ Wrapped' = Wrapped
  BY DEF Next, Poll, vars, config, scanner, rx, bounds, LastScan, Wrapped, Good, Pieces,
         Configure, ScannerReads, WireDelivers, ScannerStatus, StartScan, StopScan, PollReads,
         PollOverflows, PollDropsStatus, PollRejects, PollAccepts, PollTimesOut, GuardEnds, Tick
<1> USE <1>0, WrappedPieces DEF ConfirmedInv, config, scanner, rx, bounds
<1>1. CASE Configure
  BY <1>1 DEF Configure
<1>2. CASE ScannerReads
  <2>1. scan \in 1..LastScan /\ scan # 0
    BY <1>2, LastScanType DEF ScannerReads, TypeInv, CountInv
  <2>2. expected => wire' \in Seq(Wrapped)
    BY <1>2, <2>1 DEF ScannerReads, Counts
  <2> QED
    BY <1>2, <2>2 DEF ScannerReads
<1>3. CASE WireDelivers
  <2>1. ASSUME expected \/ state = "boot"
        PROVE  fifo' \in Seq(Wrapped) /\ wire' \in Seq(Wrapped)
    <3>1. Head(wire) \in Wrapped /\ wire' \in Seq(Wrapped)
      BY <1>3, <2>1 DEF WireDelivers
    <3>2. PICK q \in Wrapped : fifo' = Append(fifo, q)
      BY <1>3, <3>1 DEF WireDelivers
    <3> QED
      BY <2>1, <3>1, <3>2
  <2> QED
    BY <1>3, <2>1 DEF WireDelivers
<1>4. CASE ScannerStatus
  BY <1>4 DEF ScannerStatus
<1>5. CASE StartScan \/ PollOverflows \/ PollRejects \/ PollTimesOut
  <2>1. /\ state' # "boot" /\ expected' = expected /\ setting' = setting
        /\ wire' = wire /\ fifo' = <<>> /\ buffer' = <<>>
    BY <1>5 DEF StartScan, PollOverflows, PollRejects, PollTimesOut, StopScan
  <2>2. <<>> \in Seq(Wrapped)
    OBVIOUS
  <2> QED
    BY <2>1, <2>2
<1>6. CASE PollReads
  BY <1>6 DEF PollReads, Received
<1>7. CASE PollDropsStatus
  BY <1>7 DEF PollDropsStatus
<1>8. CASE PollAccepts
  <2>1. fifo' = <<>> \/ fifo' = fifo
    BY <1>8 DEF PollAccepts
  <2>2. expected => fifo' \in Seq(Wrapped)
    <3>1. CASE fifo' = <<>>
      BY <3>1
    <3>2. CASE fifo' = fifo
      BY <3>2
    <3> QED
      BY <2>1, <3>1, <3>2
  <2> QED
    BY <1>8, <2>2 DEF PollAccepts
<1>9. CASE GuardEnds \/ Tick
  BY <1>9 DEF GuardEnds, Tick
<1>10. CASE UNCHANGED vars
  BY <1>10 DEF vars
<1> QED
  BY <1>1, <1>2, <1>3, <1>4, <1>5, <1>6, <1>7, <1>8, <1>9, <1>10 DEF Next, Poll

(* Only PollAccepts changes what was accepted, and it lets no envelope pass *)
(* whose CRC does not match.  A boot accepts nothing.                       *)
LEMMA StepVerifiedIntact ==
  TypeInv /\ ConfirmedInv /\ (state = "boot" => accepted = Nothing)
      /\ VerifiedIntact /\ [Next]_vars
    => VerifiedIntact' /\ (state' = "boot" => accepted' = Nothing)
<1> SUFFICES ASSUME TypeInv, ConfirmedInv, state = "boot" => accepted = Nothing,
                    VerifiedIntact, [Next]_vars
             PROVE  VerifiedIntact' /\ (state' = "boot" => accepted' = Nothing)
  OBVIOUS
<1>0. LastScan' = LastScan /\ (expected' = expected \/ Configure)
  BY DEF Next, Poll, vars, config, scanner, rx, bounds, LastScan, Configure, ScannerReads,
         WireDelivers,
         ScannerStatus, StartScan, StopScan, PollReads, PollOverflows, PollDropsStatus,
         PollRejects, PollAccepts, PollTimesOut, GuardEnds, Tick
<1>1. CASE PollAccepts
  <2>1. /\ accepted'.pieces = buffer
        /\ accepted'.unwrapped = Detected
        /\ accepted'.verified = (expected \/ Detected)
        /\ state' = "guard" /\ expected' = expected
    BY <1>1 DEF PollAccepts, config
  <2>2. ~Rejected
    BY <1>1 DEF PollAccepts
  <2>3. SUFFICES ASSUME accepted'.verified
                 PROVE  \E k \in 1..LastScan :
                          Payload(accepted', k) \/ (~expected /\ Stripped(accepted', k))
    BY <1>0, <2>1 DEF VerifiedIntact, Payload, Stripped, Answer, Piece
  <2>4. Detected
    BY <2>1, <2>2, <2>3 DEF Rejected
  <2>5. PICK k \in 1..LastScan : /\ buffer = Answer(k, buffer[1].format, 1)
                                 /\ buffer[1].format \in {0, 3}
    BY <2>2, <2>4, VerifiedAnswer DEF TypeInv, PieceInv
  <2>6. expected => buffer[1].format = 3
    BY <2>4, ReceiverAssumption DEF ConfirmedInv, Detected, Wrapped
  <2> QED
    BY <2>1, <2>4, <2>5, <2>6 DEF Payload, Stripped
<1>2. CASE ~PollAccepts
  <2>1. accepted' = accepted /\ (state' = "boot" => state = "boot")
    BY <1>2 DEF Next, Poll, vars, config, scanner, rx, bounds, LastScan, Configure,
           ScannerReads, WireDelivers,
         ScannerStatus, StartScan, StopScan, PollReads, PollOverflows, PollDropsStatus,
         PollRejects, PollAccepts, PollTimesOut, GuardEnds, Tick
  <2>2. state' = "boot" => accepted' = Nothing
    BY <2>1
  <2>3. VerifiedIntact'
    <3>1. CASE Configure
      <4>1. ~accepted'.verified
        BY <2>1, <3>1 DEF Configure, Nothing
      <4> QED
        BY <4>1 DEF VerifiedIntact
    <3>2. CASE expected' = expected
      BY <1>0, <2>1, <3>2 DEF VerifiedIntact, Payload, Stripped, Answer, Piece
    <3> QED
      BY <1>0, <3>1, <3>2
  <2> QED
    BY <2>2, <2>3
<1> QED
  BY <1>1, <1>2

(* The types, with them the bound on the buffer: no byte is ever written    *)
(* behind qr_buffer.                                                        *)
THEOREM TypeCorrect == Spec => []TypeOK
<1>1. TypeInv => TypeOK
  BY GoodPieces DEF TypeInv, FlagInv, CountInv, PieceInv, TypeOK
<1> QED
  BY InitTypeInv, StepTypeInv, <1>1, PTL DEF Spec

(* Whatever the wire does, what is taken from an envelope, and anything     *)
(* taken once Format 3 was confirmed, is from one whole answer; once it was *)
(* confirmed, it is the payload the scanner put into its envelope.          *)
THEOREM VerifiedIntactHolds == Spec => []VerifiedIntact
<1> DEFINE BootInv == state = "boot" => accepted = Nothing
<1>1. Init => VerifiedIntact /\ BootInv
  BY DEF Init, Nothing, VerifiedIntact
<1>2. TypeInv /\ ConfirmedInv /\ BootInv /\ VerifiedIntact /\ [Next]_vars
        => VerifiedIntact' /\ BootInv'
  BY StepVerifiedIntact
<1> QED
  BY InitTypeInv, StepTypeInv, InitConfirmed, StepConfirmed, <1>1, <1>2, PTL DEF Spec

-----------------------------------------------------------------------------
(* A steady wire.  The pieces still to be sent are the end of one answer;   *)
(* after a scan that was given up they arrive in IDLE, and before a tap is  *)
(* over the last of them has.  While a scan runs, what was received and     *)
(* what is still to come is nothing, a status packet alone, or together the *)
(* answer to this scan.                                                     *)

(* A tap takes longer than the rest of an answer that has begun.            *)
TapOutlastsAnswer == TapTicks > (Parts - 1) * (InterByte - 1)

(* The longest the end of an answer has been on its way in IDLE.            *)
Lateness(n) == (Parts - n - 1) * (InterByte - 1)

WireInv ==
  /\ Len(wire) <= Parts
  /\ \A i \in 1..Len(wire) : wire[i].part = Parts - Len(wire) + i
  /\ 0 < Len(wire) /\ Len(wire) < Parts => silence < InterByte
  /\ wire # <<>> => state \in {"scanning", "idle"}

IdleInv ==
  state = "idle" =>
    /\ Len(wire) = Parts => elapsed = 0
    /\ 0 < Len(wire) /\ Len(wire) < Parts => elapsed <= Lateness(Len(wire)) + silence

RxInv ==
  /\ trigger => state = "scanning"
  /\ receiving <=> buffer # <<>>
  /\ receiving => state = "scanning"
  /\ state = "scanning" /\ fifo # <<>> => silence = 0
  /\ state = "scanning" /\ receiving /\ fifo = <<>> => silence = quiet

(* The answer, with c barcodes, to the scan that is running.                *)
OnAir(c) ==
  /\ Len(Received) + Len(wire) = Parts
  /\ \A i \in 1..Len(Received) : Received[i] = Piece(scan, i, setting, c)
  /\ \A i \in 1..Len(wire) : wire[i] = Piece(scan, Len(Received) + i, setting, c)

StreamInv ==
  state = "scanning" =>
    \/ wire = <<>> /\ Received \in {<<>>, <<StatusPacket>>}
    \/ ~trigger /\ \E c \in Counts : OnAir(c)

SteadyInv == noises = 0 /\ WireInv /\ IdleInv /\ RxInv /\ StreamInv

LEMMA SteadyForGood == [Next]_vars => steady' = steady
BY DEF Next, Poll, vars, config, scanner, rx, bounds, Configure, ScannerReads,
       WireDelivers, ScannerStatus, StartScan, StopScan, PollReads, PollOverflows,
       PollDropsStatus, PollRejects, PollAccepts, PollTimesOut, GuardEnds, Tick

LEMMA TailOf ==
  ASSUME NEW s \in Seq(Good), s # <<>>
  PROVE  /\ Tail(s) \in Seq(Good) /\ Len(s) > 0
         /\ Len(Tail(s)) = Len(s) - 1
         /\ \A i \in 1..Len(Tail(s)) : Tail(s)[i] = s[i + 1]
         /\ Head(s) = s[1]
OBVIOUS

LEMMA Lateness1 ==
  ASSUME NEW n \in 1..Parts
  PROVE  /\ Lateness(n - 1) = Lateness(n) + (InterByte - 1)
         /\ Lateness(Parts - 1) = 0
         /\ Lateness(n) \in Int
         /\ Lateness(n) + (InterByte - 1) <= (Parts - 1) * (InterByte - 1)
<1> DEFINE d == InterByte - 1
<1>1. d \in Nat /\ Parts - n \in Nat /\ Parts \in Nat
  BY ReceiverAssumption
<1>2. \A a \in Int, b \in Int : (a - b) * d = a * d - b * d /\ a * d \in Int
  BY <1>1
<1>3. (Parts - n - 1) * d = (Parts - n) * d - 1 * d
  BY <1>1, <1>2
<1>4. (n - 1) * d >= 0
  BY <1>1
<1>5. (Parts - 1) * d - (n - 1) * d = ((Parts - 1) - (n - 1)) * d
  BY <1>1, <1>2
<1>6. (Parts - 1) - (n - 1) = Parts - n /\ Parts - (n - 1) - 1 = Parts - n
  BY <1>1
<1>7. Lateness(n - 1) = (Parts - n) * d
  BY <1>6 DEF Lateness
<1>8. Lateness(n) = (Parts - n) * d - d /\ (Parts - n) * d \in Int
  BY <1>1, <1>2, <1>3 DEF Lateness
<1>9. Lateness(Parts - 1) = 0
  <2>1. Parts - (Parts - 1) - 1 = 0 /\ 0 * (InterByte - 1) = 0
    BY ReceiverAssumption
  <2> QED
    BY <2>1 DEF Lateness
<1>10. (Parts - 1) * d \in Int /\ (n - 1) * d \in Int
  <2>1. Parts - 1 \in Int /\ n - 1 \in Int
    BY ReceiverAssumption
  <2> HIDE DEF d
  <2> QED
    BY <1>2, <2>1
<1>11. Lateness(n) + d <= (Parts - 1) * d
  BY <1>1, <1>4, <1>5, <1>6, <1>8, <1>10
<1>12. Lateness(n - 1) = Lateness(n) + d
  BY <1>1, <1>7, <1>8
<1>13. Lateness(n) \in Int
  BY <1>1, <1>8
<1> QED
  BY <1>9, <1>11, <1>12, <1>13

LEMMA InitSteady == Init => SteadyInv
<1> SUFFICES ASSUME Init PROVE SteadyInv
  OBVIOUS
<1>1. wire = <<>> /\ Len(wire) = 0 /\ buffer = <<>> /\ fifo = <<>>
  BY DEF Init
<1> QED
  BY <1>1, ReceiverAssumption
     DEF Init, SteadyInv, WireInv, IdleInv, RxInv, StreamInv

(* After a silence nothing is left of what was received before.             *)
LEMMA SilenceClears ==
  TypeInv /\ SteadyInv /\ state = "scanning" /\ silence > InterByte
    => Received = <<>> /\ fifo = <<>> /\ buffer = <<>> /\ ~receiving
<1> SUFFICES ASSUME TypeInv, SteadyInv, state = "scanning", silence > InterByte
             PROVE  Received = <<>> /\ fifo = <<>> /\ buffer = <<>> /\ ~receiving
  OBVIOUS
<1>1. fifo = <<>>
  BY ReceiverAssumption DEF SteadyInv, RxInv, TypeInv, CountInv
<1>2. ~receiving
  BY <1>1, ReceiverAssumption DEF SteadyInv, RxInv, TypeInv, CountInv
<1>3. buffer = <<>>
  BY <1>2 DEF SteadyInv, RxInv
<1> QED
  BY <1>1, <1>2, <1>3 DEF Received

(* When the device takes the answer for complete, it is.                    *)
LEMMA CompleteWhole ==
  TypeInv /\ SteadyInv /\ Complete
    => /\ wire = <<>> /\ Received = buffer
       /\ IsStatusPacket \/ (~trigger /\ \E c \in Counts : OnAir(c))
<1> SUFFICES ASSUME TypeInv, SteadyInv, Complete
             PROVE  /\ wire = <<>> /\ Received = buffer
                    /\ IsStatusPacket \/ (~trigger /\ \E c \in Counts : OnAir(c))
  OBVIOUS
<1>1. /\ state = "scanning" /\ fifo = <<>> /\ receiving /\ quiet >= InterByte
      /\ buffer \in Seq(Good) /\ wire \in Seq(Good)
  BY DEF Complete, TypeInv, PieceInv
<1>2. Received = buffer /\ buffer # <<>> /\ silence = quiet
  BY <1>1 DEF Received, SteadyInv, RxInv
<1>3. CASE wire = <<>> /\ Received \in {<<>>, <<StatusPacket>>}
  BY <1>2, <1>3 DEF IsStatusPacket
<1>4. CASE ~trigger /\ \E c \in Counts : OnAir(c)
  <2>1. Len(Received) + Len(wire) = Parts /\ Len(buffer) > 0
    BY <1>1, <1>2, <1>4 DEF OnAir
  <2>2. Len(wire) < Parts
    BY <1>1, <1>2, <2>1, ReceiverAssumption
  <2>3. ~(0 < Len(wire))
    BY <1>1, <1>2, <2>2, ReceiverAssumption DEF SteadyInv, WireInv, TypeInv, CountInv
  <2>4. wire = <<>>
    BY <1>1, <2>3
  <2> QED
    BY <1>2, <1>4, <2>4
<1> QED
  BY <1>1, <1>3, <1>4 DEF SteadyInv, StreamInv

(* By the time of a tap nothing of an earlier answer is still to come.      *)
LEMMA WireEmptyAtStart ==
  TapOutlastsAnswer /\ TypeInv /\ SteadyInv /\ state = "idle" /\ elapsed >= TapTicks
    => wire = <<>>
<1> SUFFICES ASSUME TapOutlastsAnswer, TypeInv, SteadyInv, state = "idle",
                    elapsed >= TapTicks, wire # <<>>
             PROVE  FALSE
  OBVIOUS
<1> DEFINE n == Len(wire)
<1>1. n \in Nat /\ n > 0 /\ n <= Parts
  BY DEF SteadyInv, WireInv, TypeInv, PieceInv
<1>2. /\ elapsed \in Nat /\ silence \in Int /\ TapTicks \in Nat /\ InterByte \in Nat
      /\ Parts \in Nat /\ InterByte > 0
  BY ReceiverAssumption DEF TypeInv, CountInv
<1>3. n \in 1..Parts
  BY <1>1, <1>2
<1>4. /\ Lateness(n) \in Int
      /\ Lateness(n) + (InterByte - 1) <= (Parts - 1) * (InterByte - 1)
  BY <1>3, Lateness1
<1>5. (Parts - 1) * (InterByte - 1) \in Nat
  <2>1. Parts - 1 \in Nat /\ InterByte - 1 \in Nat
    BY <1>1, <1>2
  <2> QED
    BY <2>1
<1>6. n < Parts
  BY <1>1, <1>2, <1>5 DEF TapOutlastsAnswer, SteadyInv, IdleInv
<1>7. elapsed <= Lateness(n) + silence /\ silence < InterByte
  BY <1>1, <1>6 DEF SteadyInv, IdleInv, WireInv
<1> DEFINE m == (Parts - 1) * (InterByte - 1)
<1>8. TapTicks > m
  BY DEF TapOutlastsAnswer
<1> HIDE DEF m
<1> QED
  BY <1>2, <1>4, <1>5, <1>7, <1>8 DEF m

LEMMA StepWire ==
  TypeInv /\ steady /\ SteadyInv /\ [Next]_vars
    => noises' = 0 /\ WireInv' /\ IdleInv'
<1> SUFFICES ASSUME TypeInv, steady, SteadyInv, [Next]_vars
             PROVE  noises' = 0 /\ WireInv' /\ IdleInv'
  OBVIOUS
<1>0. /\ wire \in Seq(Good) /\ Len(wire) \in Nat /\ Parts \in Nat /\ Parts > 1
      /\ InterByte \in Nat /\ InterByte > 0 /\ silence \in Nat /\ elapsed \in Nat
      /\ wire # <<>> => Len(wire) \in 1..Parts
  BY ReceiverAssumption DEF TypeInv, PieceInv, CountInv, SteadyInv, WireInv
<1>1. CASE Configure
  <2>1. wire = <<>> /\ wire' = wire /\ noises' = noises /\ state' = "idle"
    BY <1>1 DEF Configure, scanner, bounds, SteadyInv, WireInv
  <2> QED
    BY <2>1, <1>0 DEF SteadyInv, WireInv, IdleInv
<1>2. CASE ScannerReads
  <2>1. PICK c : wire' = Answer(scan, setting, c)
    BY <1>2 DEF ScannerReads
  <2>2. Len(wire') = Parts /\ \A i \in 1..Parts : wire'[i].part = i
    BY <1>0, <2>1 DEF Answer, Piece
  <2>3. state = "scanning" /\ state' = state /\ noises' = noises
    BY <1>2 DEF ScannerReads, bounds, SteadyInv, RxInv
  <2> QED
    BY <1>0, <2>2, <2>3 DEF SteadyInv, WireInv, IdleInv
<1>3. CASE WireDelivers
  <2>1. /\ wire # <<>> /\ wire' = Tail(wire) /\ silence' = 0 /\ noises' = noises
        /\ state' = state /\ elapsed' = elapsed
    BY <1>3 DEF WireDelivers
  <2>2. /\ Len(wire) \in 1..Parts /\ Len(wire') = Len(wire) - 1 /\ wire' \in Seq(Good)
        /\ \A i \in 1..Len(wire') : wire'[i] = wire[i + 1]
    BY <1>0, <2>1, TailOf
  <2>3. \A i \in 1..Len(wire') : wire'[i].part = Parts - Len(wire') + i
    <3> TAKE i \in 1..Len(wire')
    <3>1. i + 1 \in 1..Len(wire) /\ wire'[i] = wire[i + 1]
      BY <2>2
    <3>2. wire[i + 1].part = Parts - Len(wire) + (i + 1)
      BY <3>1 DEF SteadyInv, WireInv
    <3> QED
      BY <1>0, <2>2, <3>1, <3>2
  <2>4. WireInv'
    BY <1>0, <2>1, <2>2, <2>3 DEF SteadyInv, WireInv
  <2>5. IdleInv'
    <3> DEFINE m == Len(wire) - 1
    <3>1. /\ Lateness(m) = Lateness(Len(wire)) + (InterByte - 1)
          /\ Lateness(Parts - 1) = 0 /\ Lateness(Len(wire)) \in Int
      BY <2>2, Lateness1
    <3>2. ASSUME state = "idle", 0 < m
          PROVE  elapsed <= Lateness(m) /\ m < Parts
      <4>1. CASE Len(wire) = Parts
        BY <1>0, <2>2, <3>1, <3>2, <4>1 DEF SteadyInv, IdleInv
      <4>2. CASE Len(wire) # Parts
        <5>1. /\ elapsed <= Lateness(Len(wire)) + silence
              /\ silence < InterByte
          BY <1>0, <2>2, <3>2, <4>2 DEF SteadyInv, IdleInv, WireInv
        <5> QED
          BY <1>0, <2>2, <3>1, <5>1
      <4> QED
        BY <4>1, <4>2
    <3>3. Len(wire') = m /\ m < Parts /\ (0 < m => Lateness(m) \in Int)
      BY <1>0, <2>2, <3>1
    <3>4. Lateness(Len(wire))' = Lateness(m)
      BY <3>3 DEF Lateness
    <3> HIDE DEF m
    <3> QED
      BY <2>1, <3>2, <3>3, <3>4 DEF IdleInv
  <2> QED
    BY <2>1, <2>4, <2>5 DEF SteadyInv
<1>4. CASE ScannerStatus
  <2>1. wire = <<>> /\ wire' = wire /\ noises' = noises /\ Len(wire) = 0
    BY <1>4 DEF ScannerStatus
  <2> QED
    BY <1>0, <2>1 DEF SteadyInv, WireInv, IdleInv
<1>5. CASE StartScan
  <2>1. /\ wire' = wire /\ silence' = silence /\ noises' = noises
        /\ state' = "scanning"
    BY <1>5 DEF StartScan, bounds
  <2> QED
    BY <2>1 DEF SteadyInv, WireInv, IdleInv
<1>6. CASE PollReads \/ PollDropsStatus
  <2>1. /\ wire' = wire /\ silence' = silence /\ noises' = noises
        /\ state = "scanning" /\ state' = state
    BY <1>6 DEF PollReads, PollDropsStatus, Complete, scanner, bounds
  <2> QED
    BY <2>1 DEF SteadyInv, WireInv, IdleInv
<1>7. CASE PollOverflows \/ PollRejects \/ PollTimesOut
  <2>1. /\ wire' = wire /\ silence' = silence /\ noises' = noises
        /\ state = "scanning" /\ state' = "idle" /\ elapsed' = 0
    BY <1>7 DEF PollOverflows, PollRejects, PollTimesOut, StopScan, Complete, bounds
  <2>2. WireInv'
    BY <2>1 DEF SteadyInv, WireInv
  <2>3. 0 < Len(wire) /\ Len(wire) < Parts => 0 <= Lateness(Len(wire)) + silence
    <3> SUFFICES ASSUME 0 < Len(wire), Len(wire) < Parts
                 PROVE  0 <= Lateness(Len(wire)) + silence
      OBVIOUS
    <3>1. Parts - Len(wire) - 1 \in Nat /\ InterByte - 1 \in Nat
      BY <1>0
    <3>2. Lateness(Len(wire)) \in Nat
      BY <3>1 DEF Lateness
    <3> QED
      BY <1>0, <3>2
  <2> QED
    BY <2>1, <2>2, <2>3 DEF SteadyInv, IdleInv, Lateness
<1>8. CASE PollAccepts
  <2>1. /\ wire' = wire /\ noises' = noises /\ state' = "guard" /\ Complete
    BY <1>8 DEF PollAccepts, bounds
  <2>2. wire = <<>>
    BY <2>1, CompleteWhole
  <2> QED
    BY <2>1, <2>2 DEF SteadyInv, WireInv, IdleInv
<1>9. CASE GuardEnds
  <2>1. /\ wire' = wire /\ noises' = noises /\ state = "guard" /\ state' = "idle"
        /\ wire = <<>> /\ Len(wire) = 0
    BY <1>9 DEF GuardEnds, scanner, bounds, SteadyInv, WireInv
  <2> QED
    BY <1>0, <2>1 DEF SteadyInv, WireInv, IdleInv
<1>10. CASE Tick
  <2>1. /\ wire' = wire /\ noises' = noises /\ state' = state
        /\ silence' = UpTo(silence, InterByte + 1)
        /\ wire # <<>> => Head(wire).part > 1 /\ silence + 1 < InterByte
        /\ state = "idle" => elapsed' = UpTo(elapsed, TapTicks)
    BY <1>10 DEF Tick, bounds
  <2>2. wire # <<>> =>
          /\ Len(wire) < Parts
          /\ silence' = silence + 1 /\ silence + 1 < InterByte
    <3> SUFFICES ASSUME wire # <<>>
                 PROVE  /\ Len(wire) < Parts
                        /\ silence' = silence + 1 /\ silence + 1 < InterByte
      OBVIOUS
    <3>1. Head(wire) = wire[1] /\ Len(wire) \in 1..Parts
      BY <1>0, TailOf
    <3>2. wire[1].part = Parts - Len(wire) + 1
      BY <1>0, <3>1 DEF SteadyInv, WireInv
    <3>3. Len(wire) < Parts
      BY <1>0, <2>1, <3>1, <3>2
    <3> QED
      BY <1>0, <2>1, <3>3 DEF UpTo
  <2>3. WireInv'
    BY <1>0, <2>1, <2>2 DEF SteadyInv, WireInv
  <2>4. IdleInv'
    <3>1. state = "idle" => elapsed' <= elapsed + 1 /\ elapsed' \in Nat
      BY <1>0, <2>1, ReceiverAssumption DEF UpTo
    <3>2. wire # <<>> => Lateness(Len(wire)) \in Int
      BY <1>0, Lateness1
    <3>3. wire # <<>> /\ state = "idle" => elapsed <= Lateness(Len(wire)) + silence
      BY <1>0, <2>2 DEF SteadyInv, IdleInv
    <3>4. 0 < Len(wire) => wire # <<>>
      BY <1>0
    <3>5. state = "idle" /\ 0 < Len(wire)
            => elapsed' <= Lateness(Len(wire)) + silence' /\ Len(wire) < Parts
      BY <1>0, <2>2, <3>1, <3>2, <3>3, <3>4
    <3> QED
      BY <1>0, <2>1, <3>5 DEF IdleInv, Lateness
  <2> QED
    BY <2>1, <2>3, <2>4 DEF SteadyInv
<1>11. CASE UNCHANGED vars
  BY <1>11 DEF vars, scanner, bounds, SteadyInv, WireInv, IdleInv, Lateness
<1> QED
  BY <1>1, <1>2, <1>3, <1>4, <1>5, <1>6, <1>7, <1>8, <1>9, <1>10, <1>11 DEF Next, Poll

LEMMA StepRx == TypeInv /\ steady /\ SteadyInv /\ [Next]_vars => RxInv'
<1> SUFFICES ASSUME TypeInv, steady, SteadyInv, [Next]_vars PROVE RxInv'
  OBVIOUS
<1>0. RxInv /\ buffer \in Seq(Good) /\ fifo \in Seq(Good)
  BY DEF SteadyInv, TypeInv, PieceInv
<1> USE <1>0 DEF RxInv, scanner, rx, bounds
<1>1. CASE Configure
  BY <1>1 DEF Configure
<1>2. CASE ScannerReads
  BY <1>2 DEF ScannerReads
<1>3. CASE WireDelivers
  BY <1>3 DEF WireDelivers
<1>4. CASE ScannerStatus
  BY <1>4 DEF ScannerStatus
<1>5. CASE StartScan
  BY <1>5 DEF StartScan
<1>6. CASE PollReads
  <2>1. Received # <<>>
    BY <1>6 DEF PollReads, Received
  <2> QED
    BY <1>6, <2>1 DEF PollReads
<1>7. CASE PollOverflows
  BY <1>7 DEF PollOverflows, StopScan
<1>8. CASE PollDropsStatus
  BY <1>8 DEF PollDropsStatus, Complete
<1>9. CASE PollRejects
  BY <1>9 DEF PollRejects, StopScan
<1>10. CASE PollAccepts
  <2>1. /\ Complete /\ ~IsStatusPacket /\ state' = "guard"
        /\ buffer' = <<>> /\ ~receiving'
        /\ trigger' => trigger
    BY <1>10 DEF PollAccepts
  <2>2. ~trigger
    BY <2>1, CompleteWhole
  <2>3. ~trigger'
    BY <2>1, <2>2
  <2> QED
    BY <2>1, <2>3
<1>11. CASE PollTimesOut
  BY <1>11 DEF PollTimesOut, StopScan
<1>12. CASE GuardEnds
  BY <1>12 DEF GuardEnds
<1>13. CASE Tick
  <2>1. /\ state' = state /\ trigger' = trigger /\ buffer' = buffer /\ fifo' = fifo
        /\ receiving' = receiving
        /\ silence' = UpTo(silence, InterByte + 1)
        /\ receiving => quiet' = UpTo(quiet, InterByte)
        /\ state = "scanning" => fifo = <<>>
        /\ state = "scanning" /\ receiving => ~(quiet >= InterByte)
    BY <1>13 DEF Tick, PollDue, Complete
  <2>2. silence \in Nat /\ quiet \in Nat /\ InterByte \in Nat
    BY ReceiverAssumption DEF TypeInv, CountInv
  <2> QED
    BY <2>1, <2>2 DEF UpTo
<1>14. CASE UNCHANGED vars
  BY <1>14 DEF vars
<1> QED
  BY <1>1, <1>2, <1>3, <1>4, <1>5, <1>6, <1>7, <1>8, <1>9, <1>10, <1>11, <1>12,
     <1>13, <1>14 DEF Next, Poll

(* A read moves what the ring holds to the buffer, and nothing else.        *)
LEMMA SameStream ==
  ASSUME Received' = Received, wire' = wire, scan' = scan, setting' = setting,
         trigger' = trigger, state = "scanning", StreamInv
  PROVE  StreamInv'
BY DEF StreamInv, OnAir, Counts, Piece, StatusPacket

LEMMA StepStream ==
  TapOutlastsAnswer /\ TypeInv /\ steady /\ SteadyInv /\ [Next]_vars => StreamInv'
<1> SUFFICES ASSUME TapOutlastsAnswer, TypeInv, steady, SteadyInv, [Next]_vars
             PROVE  StreamInv'
  OBVIOUS
<1>0. /\ wire \in Seq(Good) /\ fifo \in Seq(Good) /\ buffer \in Seq(Good)
      /\ Received \in Seq(Good) /\ Parts \in Nat /\ Parts > 1
      /\ StreamInv /\ scan \in Nat
  BY LastScanType, ReceiverAssumption
     DEF TypeInv, PieceInv, CountInv, Received, SteadyInv
<1>1. CASE Configure \/ PollOverflows \/ PollRejects \/ PollAccepts \/ PollTimesOut
           \/ GuardEnds
  BY <1>1 DEF Configure, PollOverflows, PollRejects, PollAccepts, PollTimesOut,
              GuardEnds, StopScan, StreamInv
<1>2. CASE ScannerReads
  <2>1. PICK c \in Counts : wire' = Answer(scan, setting, c)
    BY <1>2 DEF ScannerReads, Counts
  <2>2. /\ state = "scanning" /\ silence > InterByte
        /\ buffer' = buffer /\ fifo' = fifo /\ scan' = scan /\ setting' = setting
        /\ trigger' = FALSE
    BY <1>2 DEF ScannerReads, config, rx, SteadyInv, RxInv
  <2>3. Received' = <<>>
    BY <2>2, SilenceClears DEF Received
  <2>4. Len(wire') = Parts /\ \A i \in 1..Parts : wire'[i] = Piece(scan, i, setting, c)
    BY <1>0, <2>1 DEF Answer
  <2>5. OnAir(c)'
    BY <1>0, <2>2, <2>3, <2>4 DEF OnAir, Piece
  <2>6. c \in Counts'
    BY <2>2 DEF Counts
  <2> QED
    BY <2>2, <2>5, <2>6 DEF StreamInv
<1>3. CASE WireDelivers
  <2>1. /\ wire # <<>> /\ wire' = Tail(wire) /\ fifo' = Append(fifo, Head(wire))
        /\ buffer' = buffer /\ scan' = scan /\ setting' = setting /\ state' = state
        /\ trigger' = trigger
    BY <1>3 DEF WireDelivers, config, rx
  <2>2. SUFFICES ASSUME state = "scanning" PROVE StreamInv'
    BY <2>1 DEF StreamInv
  <2>3. PICK c \in Counts : ~trigger /\ OnAir(c)
    BY <1>0, <2>1, <2>2 DEF StreamInv
  <2>4. /\ Len(wire) > 0 /\ Len(wire') = Len(wire) - 1 /\ Head(wire) = wire[1]
        /\ \A i \in 1..Len(wire') : wire'[i] = wire[i + 1]
    BY <1>0, <2>1, TailOf
  <2>5. Received' = Append(Received, wire[1])
    BY <1>0, <2>1, <2>4 DEF Received
  <2>6. /\ Len(Received') = Len(Received) + 1
        /\ \A i \in 1..Len(Received) : Received'[i] = Received[i]
        /\ Received'[Len(Received) + 1] = wire[1]
    BY <1>0, <2>5
  <2>7. /\ wire[1] = Piece(scan, Len(Received) + 1, setting, c)
        /\ Len(wire) \in Nat /\ Len(Received) \in Nat /\ Len(wire') \in Nat
    BY <1>0, <2>3, <2>4 DEF OnAir
  <2>8. \A i \in 1..Len(Received') : Received'[i] = Piece(scan, i, setting, c)
    BY <2>3, <2>6, <2>7 DEF OnAir
  <2>9. \A i \in 1..Len(wire') : wire'[i] = Piece(scan, Len(Received') + i, setting, c)
    <3> TAKE i \in 1..Len(wire')
    <3>1. wire'[i] = wire[i + 1] /\ i + 1 \in 1..Len(wire)
      BY <2>4, <2>7
    <3>2. wire[i + 1] = Piece(scan, Len(Received) + (i + 1), setting, c)
      BY <2>3, <3>1 DEF OnAir
    <3>3. Len(Received) + (i + 1) = Len(Received') + i
      BY <2>6, <2>7
    <3> QED
      BY <3>1, <3>2, <3>3
  <2>10. Len(Received') + Len(wire') = Parts
    BY <2>3, <2>4, <2>6, <2>7 DEF OnAir
  <2>11. OnAir(c)'
    BY <2>1, <2>8, <2>9, <2>10 DEF OnAir, Piece
  <2>12. c \in Counts'
    BY <2>1 DEF Counts
  <2> QED
    BY <2>1, <2>3, <2>11, <2>12 DEF StreamInv
<1>4. CASE ScannerStatus
  <2>1. /\ wire = <<>> /\ wire' = wire /\ silence > InterByte /\ state' = state
        /\ buffer' = buffer /\ fifo' = Append(fifo, StatusPacket)
    BY <1>4 DEF ScannerStatus, rx
  <2>2. state = "scanning" => Received' = <<StatusPacket>>
    BY <2>1, SilenceClears DEF Received
  <2> QED
    BY <2>1, <2>2 DEF StreamInv, StatusPacket
<1>5. CASE StartScan
  <2>1. /\ wire' = wire /\ wire = <<>> /\ buffer' = <<>> /\ fifo' = <<>>
    BY <1>5, WireEmptyAtStart DEF StartScan
  <2>2. Received' = <<>>
    BY <2>1 DEF Received
  <2> QED
    BY <2>1, <2>2 DEF StreamInv
<1>6. CASE PollReads
  <2>1. /\ state = "scanning" /\ buffer' = Received /\ fifo' = <<>> /\ wire' = wire
        /\ scan' = scan /\ setting' = setting /\ trigger' = trigger
    BY <1>6 DEF PollReads, config, scanner
  <2>2. Received' = Received
    BY <1>0, <2>1 DEF Received
  <2> QED
    BY <1>0, <2>1, <2>2, SameStream
<1>7. CASE PollDropsStatus
  <2>1. /\ Complete /\ buffer' = <<>> /\ fifo' = fifo /\ wire' = wire
    BY <1>7 DEF PollDropsStatus, scanner
  <2>2. wire = <<>> /\ fifo = <<>>
    BY <2>1, CompleteWhole DEF Complete
  <2>3. Received' = <<>>
    BY <2>1, <2>2 DEF Received
  <2> QED
    BY <2>1, <2>2, <2>3 DEF StreamInv
<1>8. CASE Tick \/ UNCHANGED vars
  <2>1. /\ state' = state /\ buffer' = buffer /\ fifo' = fifo /\ wire' = wire
        /\ scan' = scan /\ setting' = setting /\ trigger' = trigger
    BY <1>8 DEF Tick, vars, config, scanner, rx
  <2>2. Received' = Received
    BY <2>1 DEF Received
  <2> QED
    BY <1>0, <2>1, <2>2, SameStream DEF StreamInv
<1> QED
  BY <1>1, <1>2, <1>3, <1>4, <1>5, <1>6, <1>7, <1>8 DEF Next, Poll

LEMMA StepSteady ==
  TapOutlastsAnswer /\ TypeInv /\ (steady => SteadyInv) /\ [Next]_vars
    => (steady' => SteadyInv')
<1> SUFFICES ASSUME TapOutlastsAnswer, TypeInv, steady, SteadyInv, [Next]_vars
             PROVE  SteadyInv'
  BY SteadyForGood
<1> QED
  BY StepWire, StepRx, StepStream DEF SteadyInv

(* Of an answer that is complete the device accepts none but one without an *)
(* envelope or with an envelope for one barcode.                            *)
LEMMA AcceptedWhole ==
  ASSUME TypeInv, SteadyInv, Complete, ~IsStatusPacket, ~Rejected
  PROVE  \/ Detected /\ \E f \in {0, 3} : buffer = Answer(scan, f, 1)
         \/ ~Detected /\ buffer = Answer(scan, 0, 0)
<1>1. PICK c \in Counts : OnAir(c)
  BY CompleteWhole
<1>2. /\ wire = <<>> /\ Received = buffer /\ buffer \in Seq(Good) /\ setting \in {0, 3}
      /\ Parts \in Nat /\ Parts > 1
  BY CompleteWhole, ReceiverAssumption DEF TypeInv, PieceInv, CountInv, Complete
<1>3. Len(buffer) = Parts /\ \A i \in 1..Parts : buffer[i] = Piece(scan, i, setting, c)
  BY <1>1, <1>2 DEF OnAir
<1>4. buffer = Answer(scan, setting, c)
  BY <1>2, <1>3 DEF Answer
<1>5. buffer[1].part = 1 /\ buffer[1].count = c
  BY <1>2, <1>3 DEF Piece
<1>6. \A i \in 1..Parts : buffer[i].part # StatusPacket.part
  BY <1>2, <1>3 DEF Piece, StatusPacket
<1>7. Detected <=> c > 0
  BY <1>2, <1>3, <1>5, <1>6 DEF Detected
<1>8. CASE Detected
  <2>1. c = 1
    BY <1>5, <1>8 DEF Rejected
  <2> QED
    BY <1>2, <1>4, <1>8, <2>1
<1>9. CASE ~Detected
  <2>1. c = 0 /\ setting = 0
    BY <1>1, <1>2, <1>7, <1>9 DEF Counts
  <2> QED
    BY <1>4, <1>9, <2>1
<1> QED
  BY <1>8, <1>9

LEMMA StepAcceptedFresh ==
  TypeInv /\ (steady => SteadyInv) /\ AcceptedFresh /\ [Next]_vars => AcceptedFresh'
<1> SUFFICES ASSUME TypeInv, steady, SteadyInv, AcceptedFresh, [Next]_vars
             PROVE  AcceptedFresh'
  BY SteadyForGood DEF AcceptedFresh
<1>1. CASE PollAccepts
  <2>1. /\ Complete /\ ~IsStatusPacket /\ ~Rejected
        /\ accepted'.pieces = buffer /\ accepted'.unwrapped = Detected
        /\ accepted'.scan = scan
    BY <1>1 DEF PollAccepts
  <2>2. \/ Detected /\ \E f \in {0, 3} : buffer = Answer(scan, f, 1)
        \/ ~Detected /\ buffer = Answer(scan, 0, 0)
    BY <2>1, AcceptedWhole
  <2>3. Payload(accepted', scan) \/ Stripped(accepted', scan)
    BY <2>1, <2>2 DEF Payload, Stripped
  <2> QED
    BY <2>1, <2>3 DEF AcceptedFresh, Payload, Stripped, Answer, Piece
<1>2. CASE ~PollAccepts
  <2>1. accepted' = accepted
    BY <1>2 DEF Next, Poll, vars, Configure, ScannerReads, WireDelivers, ScannerStatus,
                StartScan, StopScan, PollReads, PollOverflows, PollDropsStatus,
                PollRejects, PollTimesOut, GuardEnds, Tick
  <2> QED
    BY <2>1 DEF AcceptedFresh, Payload, Stripped, Answer, Piece, Nothing
<1> QED
  BY <1>1, <1>2

(* On a steady wire, and if the rest of an answer takes less time than a    *)
(* tap, everything accepted is from the whole answer to the scan that was   *)
(* running, and is its payload unless the code itself contains an envelope: *)
(* the two flushes and the time a tap takes keep what a scan that was given *)
(* up still brings out of the next one.                                     *)
THEOREM AcceptedFreshHolds == ASSUME TapOutlastsAnswer PROVE Spec => []AcceptedFresh
<1>1. Init => (steady => SteadyInv) /\ AcceptedFresh
  BY InitSteady DEF Init, AcceptedFresh
<1>2. TypeInv /\ (steady => SteadyInv) /\ [Next]_vars => (steady' => SteadyInv')
  BY StepSteady
<1> QED
  BY InitTypeInv, StepTypeInv, StepAcceptedFresh, <1>1, <1>2, PTL DEF Spec

=============================================================================
