----------------------------- MODULE QrReceiver -----------------------------
(***************************************************************************)
(* Receiving one QR code from the scanner over the UART                    *)
(* (main/qrtransfer_msc.c: qr_start_scan, qr_poll, qr_stop_scan and the    *)
(* Format 3 parser), in discrete time.                                     *)
(*                                                                         *)
(* The scanner's answer has no end mark: the device takes what it received *)
(* for complete after QR_INTERBYTE_TIMEOUT_MS of silence, gives up after   *)
(* QR_SCAN_TIMEOUT_MS, and relies on flushing the receive ring to keep the *)
(* bytes of one scan out of the next.  In Analyzer mode the answer is      *)
(* wrapped in a "Format 3" envelope with a length and a CRC.               *)
(*                                                                         *)
(* An answer travels in Parts pieces.  The scanner module is external: it  *)
(* answers once per SCAN_START, finishes an answer it has begun, and may   *)
(* send three-byte status packets.  The device polls every 5 ms, so that   *)
(* between two ticks of the clock it has read what has arrived.            *)
(*                                                                         *)
(* What is an envelope is decided by the bytes.  A code may hold any bytes *)
(* and so, without Format 3, look like an envelope itself; a fragment of   *)
(* an answer is assumed never to look like one.                            *)
(***************************************************************************)
EXTENDS Integers, Sequences

CONSTANTS
  Parts,         \* pieces an answer arrives in
  Capacity,      \* pieces qr_buffer holds (MAX_QR_BYTES)
  InterByte,     \* QR_INTERBYTE_TIMEOUT_MS, in ticks
  ScanTimeout,   \* QR_SCAN_TIMEOUT_MS, in ticks
  TapTicks,      \* least time from IDLE to a scan: DOUBLE_TAP_MS, in ticks
  MaxScans,      \* bound: scans
  MaxSteadyScans,  \* bound: scans on a steady wire
  MaxStatus,     \* bound: status packets
  MaxNoise       \* bound: pieces that arrive corrupted, unless the wire is steady

ASSUME ReceiverAssumption ==
  /\ Parts \in Nat /\ Parts > 1
  /\ Capacity \in Nat /\ Capacity >= Parts
  /\ InterByte \in Nat /\ InterByte > 0
  /\ ScanTimeout \in Nat /\ TapTicks \in Nat
  /\ MaxScans \in Nat /\ MaxSteadyScans \in Nat /\ MaxStatus \in Nat /\ MaxNoise \in Nat

VARIABLES
  state,      \* device_state: "boot", "idle", "scanning", "guard"
  analyzer,   \* Analyzer mode
  setting,    \* external: the protocol format the scanner is set to, 0 or 3
  expected,   \* protocol3_expected: Format 3 was written and read back
  scan,       \* number of the current or last scan
  trigger,    \* external: the scanner is looking for a code
  wire,       \* external: the pieces of its answer still to be sent
  silence,    \* ticks since the scanner last sent something, up to InterByte + 1
  fifo,       \* the UART driver's receive ring
  buffer,     \* qr_buffer[0 .. qr_length - 1]
  receiving,  \* qr_receiving
  quiet,      \* ticks since qr_last_byte_ms
  elapsed,    \* ticks since scan_started_ms; in IDLE, since it was entered
  accepted,   \* what update_latest_from_qr was given, [] before
  steady,     \* external, for good: no silence inside an answer, no piece
              \* corrupted, and status packets keep apart from answers
  statuses, noises

config  == <<analyzer, setting, expected>>
scanner == <<trigger, wire, silence>>
rx      == <<buffer, receiving, quiet>>
bounds  == <<statuses, noises, steady>>
vars == <<state, config, scan, scanner, fifo, rx, elapsed, accepted, bounds>>

(* A piece of the answer to scan k, sent in format 0 or 3.  `count` is how  *)
(* many barcodes its bytes announce as an envelope, 0 if they are none; 2   *)
(* stands for several, and in format 0 also for an envelope with a wrong    *)
(* CRC, which is treated the same.                                          *)
Piece(k, i, f, c) == [scan |-> k, part |-> i, format |-> f, count |-> c]
StatusPacket == [scan |-> 0, part |-> 0, format |-> 0, count |-> 0]
Noise        == [scan |-> 0, part |-> 1, format |-> 0, count |-> 0]

Answer(k, f, c) == [i \in 1..Parts |-> Piece(k, i, f, c)]

Nothing == [pieces |-> <<>>, unwrapped |-> FALSE, verified |-> FALSE, scan |-> 0]

-----------------------------------------------------------------------------
(* Boot: qr_protocol_format_write_and_readback.  The scanner may miss the   *)
(* write, and its reply or its answer to the readback may be lost.          *)
Configure ==
  /\ state = "boot"
  /\ \E written, reply, readback \in BOOLEAN :
       /\ reply => written
       /\ setting' = IF written THEN (IF analyzer THEN 3 ELSE 0) ELSE setting
       /\ expected' = (analyzer /\ reply /\ readback /\ setting' = 3)
  /\ state' = "idle"
  /\ elapsed' = 0
  /\ UNCHANGED <<analyzer, scan, scanner, fifo, rx, accepted, bounds>>

-----------------------------------------------------------------------------
(* External: the scanner.                                                   *)

(* What the bytes of an answer may announce: with Format 3 off they are the *)
(* code's own content, whatever that is.                                    *)
Counts == IF setting = 3 THEN {1, 2} ELSE {0, 1, 2}

ScannerReads ==
  /\ trigger
  /\ wire = <<>>
  /\ steady => silence > InterByte
  /\ \E c \in Counts : wire' = Answer(scan, setting, c)
  /\ trigger' = FALSE
  /\ UNCHANGED <<state, config, scan, silence, fifo, rx, elapsed, accepted, bounds>>

(* A piece arrives, maybe corrupted. *)
WireDelivers ==
  /\ wire # <<>>
  /\ \/ fifo' = Append(fifo, Head(wire)) /\ UNCHANGED noises
     \/ ~steady /\ noises < MaxNoise /\ noises' = noises + 1 /\ fifo' = Append(fifo, Noise)
  /\ wire' = Tail(wire)
  /\ silence' = 0
  /\ UNCHANGED <<state, config, scan, trigger, rx, elapsed, accepted, statuses, steady>>

ScannerStatus ==
  /\ statuses < MaxStatus
  /\ statuses' = statuses + 1
  /\ steady => wire = <<>> /\ silence > InterByte
  /\ fifo' = Append(fifo, StatusPacket)
  /\ silence' = 0
  /\ UNCHANGED <<state, config, scan, trigger, wire, rx, elapsed, accepted, noises, steady>>

-----------------------------------------------------------------------------
(* The device.                                                              *)

LastScan == IF steady THEN MaxSteadyScans ELSE MaxScans

StartScanUnflushed ==                  \* faulty: no qr_uart_flush
  /\ state = "idle"
  /\ elapsed >= TapTicks
  /\ scan < LastScan
  /\ scan' = scan + 1
  /\ buffer' = <<>> /\ receiving' = FALSE /\ quiet' = 0
  /\ elapsed' = 0
  /\ trigger' = TRUE
  /\ state' = "scanning"
  /\ UNCHANGED <<config, wire, silence, fifo, accepted, bounds>>

(* qr_start_scan, no sooner than a tap in IDLE takes. *)
StartScan ==
  /\ state = "idle"
  /\ elapsed >= TapTicks
  /\ scan < LastScan
  /\ scan' = scan + 1
  /\ fifo' = <<>>
  /\ buffer' = <<>> /\ receiving' = FALSE /\ quiet' = 0
  /\ elapsed' = 0
  /\ trigger' = TRUE
  /\ state' = "scanning"
  /\ UNCHANGED <<config, wire, silence, accepted, bounds>>

(* qr_stop_scan: SCAN_STOP, 20 ms, flush.  Then the device reports and is   *)
(* idle again.                                                              *)
StopScan ==
  /\ trigger' = FALSE
  /\ fifo' = <<>>
  /\ buffer' = <<>> /\ receiving' = FALSE
  /\ state' = "idle"
  /\ elapsed' = 0
  /\ UNCHANGED <<wire, silence, quiet>>

Received == buffer \o fifo

PollReadsUnchecked ==                  \* faulty: free_space not checked
  /\ state = "scanning"
  /\ fifo # <<>>
  /\ buffer' = Received
  /\ fifo' = <<>>
  /\ receiving' = TRUE /\ quiet' = 0
  /\ UNCHANGED <<state, config, scan, scanner, elapsed, accepted, bounds>>

PollReads ==
  /\ state = "scanning"
  /\ fifo # <<>>
  /\ Len(Received) <= Capacity
  /\ buffer' = Received
  /\ fifo' = <<>>
  /\ receiving' = TRUE /\ quiet' = 0
  /\ UNCHANGED <<state, config, scan, scanner, elapsed, accepted, bounds>>

PollOverflows ==
  /\ state = "scanning"
  /\ Len(Received) > Capacity
  /\ StopScan
  /\ UNCHANGED <<config, scan, accepted, bounds>>

(* Silence for QR_INTERBYTE_TIMEOUT_MS: what has arrived is the answer.     *)
Complete == state = "scanning" /\ fifo = <<>> /\ receiving /\ quiet >= InterByte

IsStatusPacket == buffer = <<StatusPacket>>

(* The bytes parse as an envelope, by their first byte, their length and    *)
(* their structure -- in every mode and whoever made the envelope.          *)
Detected ==
  /\ Len(buffer) = Parts
  /\ buffer[1].count > 0 /\ buffer[1].part = 1
  /\ \A i \in 1..Parts : buffer[i] # StatusPacket

CrcValid ==
  Detected /\ buffer = Answer(buffer[1].scan, buffer[1].format, buffer[1].count)

RejectedIgnoringCrc ==                 \* faulty: crc_valid not looked at
  \/ Detected /\ buffer[1].count # 1
  \/ expected /\ ~Detected

Rejected ==
  \/ Detected /\ (~CrcValid \/ buffer[1].count # 1)
  \/ expected /\ ~Detected

PollDropsStatus ==
  /\ Complete /\ IsStatusPacket
  /\ buffer' = <<>> /\ receiving' = FALSE
  /\ UNCHANGED <<state, config, scan, scanner, fifo, quiet, elapsed, accepted, bounds>>

PollRejects ==
  /\ Complete /\ ~IsStatusPacket /\ Rejected
  /\ StopScan
  /\ UNCHANGED <<config, scan, accepted, bounds>>

(* update_latest_from_qr, up to the end of the reconnect guard.  In         *)
(* Analyzer mode the analysis of a stored payload begins with qr_stop_scan. *)
PollAccepts ==
  /\ Complete /\ ~IsStatusPacket /\ ~Rejected
  /\ accepted' = [pieces |-> buffer, unwrapped |-> Detected,
                  verified |-> expected \/ Detected, scan |-> scan]
  /\ buffer' = <<>> /\ receiving' = FALSE
  /\ \/ analyzer /\ trigger' = FALSE /\ fifo' = <<>>
     \/ UNCHANGED <<trigger, fifo>>
  /\ state' = "guard"
  /\ UNCHANGED <<config, scan, wire, silence, quiet, elapsed, bounds>>

GuardEnds ==
  /\ state = "guard"
  /\ state' = "idle"
  /\ elapsed' = 0
  /\ UNCHANGED <<config, scan, scanner, fifo, rx, accepted, bounds>>

PollTimesOutStaying ==                 \* faulty: device_state is not set
  /\ state = "scanning" /\ fifo = <<>> /\ ~Complete
  /\ elapsed >= ScanTimeout
  /\ trigger' = FALSE
  /\ buffer' = <<>> /\ receiving' = FALSE
  /\ UNCHANGED <<state, config, scan, wire, silence, fifo, quiet, elapsed, accepted,
                 bounds>>

(* The scan takes too long, even if part of an answer has arrived. *)
PollTimesOut ==
  /\ state = "scanning" /\ fifo = <<>> /\ ~Complete
  /\ elapsed >= ScanTimeout
  /\ StopScan
  /\ UNCHANGED <<config, scan, accepted, bounds>>

Poll ==
  \/ PollReads \/ PollOverflows \/ PollDropsStatus \/ PollRejects
  \/ PollAccepts \/ PollTimesOut

(* The next poll has something to do. *)
PollDue ==
  state = "scanning" /\ (fifo # <<>> \/ Complete \/ elapsed >= ScanTimeout)

UpTo(n, m) == IF n < m THEN n + 1 ELSE n

(* The clock.  It does not run ahead of the device's polling, nor, on a     *)
(* steady wire, of an answer being sent.                                    *)
Tick ==
  /\ state # "boot"
  /\ ~PollDue
  /\ steady /\ wire # <<>> => Head(wire).part > 1 /\ silence + 1 < InterByte
  /\ silence' = UpTo(silence, InterByte + 1)
  /\ quiet' = IF receiving THEN UpTo(quiet, InterByte) ELSE quiet
  /\ elapsed' = UpTo(elapsed, IF state = "scanning" THEN ScanTimeout ELSE TapTicks)
  /\ UNCHANGED <<state, config, scan, trigger, wire, fifo, buffer, receiving, accepted,
                 bounds>>

Init ==
  /\ state = "boot"
  /\ analyzer \in BOOLEAN
  /\ setting \in {0, 3}
  /\ expected = FALSE
  /\ scan = 0
  /\ trigger = FALSE /\ wire = <<>> /\ silence = InterByte + 1
  /\ fifo = <<>>
  /\ buffer = <<>> /\ receiving = FALSE /\ quiet = 0
  /\ elapsed = 0
  /\ accepted = Nothing
  /\ statuses = 0 /\ noises = 0
  /\ steady \in BOOLEAN

Next ==
  \/ Configure
  \/ ScannerReads \/ WireDelivers \/ ScannerStatus
  \/ StartScan \/ Poll \/ GuardEnds
  \/ Tick

(* The device polls, and time passes.  Of the scanner nothing is assumed,   *)
(* but that a steady wire delivers what it has begun.                       *)
Spec ==
  /\ Init /\ [][Next]_vars
  /\ WF_vars(Poll) /\ WF_vars(Tick) /\ WF_vars(steady /\ WireDelivers)

-----------------------------------------------------------------------------
(* Properties.                                                             *)

Pieces == [scan : 0..LastScan, part : 0..Parts, format : {0, 3}, count : 0..2]

TypeOK ==
  /\ state \in {"boot", "idle", "scanning", "guard"}
  /\ {analyzer, expected, trigger, receiving, steady} \subseteq BOOLEAN
  /\ setting \in {0, 3}
  /\ scan \in 0..LastScan
  /\ wire \in Seq(Pieces) /\ fifo \in Seq(Pieces) /\ buffer \in Seq(Pieces)
  /\ Len(buffer) <= Capacity
  /\ silence \in 0..(InterByte + 1) /\ quiet \in 0..InterByte
  /\ elapsed \in Nat
  /\ accepted.pieces \in Seq(Pieces)
  /\ statuses \in 0..MaxStatus /\ noises \in 0..MaxNoise

(* What was accepted is the payload of scan k, whole: what was inside the   *)
(* scanner's envelope, or everything the scanner sent without one.          *)
Payload(a, k) ==
  \/ a.unwrapped /\ a.pieces = Answer(k, 3, 1)
  \/ ~a.unwrapped /\ a.pieces = Answer(k, 0, 0)

(* It is what was inside an envelope the code itself contained.             *)
Stripped(a, k) == a.unwrapped /\ a.pieces = Answer(k, 0, 1)

(* Whatever the wire does -- silences inside an answer, corrupted pieces,   *)
(* status packets in the middle, answers of an earlier scan --, what is     *)
(* taken from a Format 3 envelope, and anything taken once Format 3 was     *)
(* confirmed, is from one whole answer: "Payload integrity is a product     *)
(* invariant" (qr_poll).  Once Format 3 was confirmed it is the payload.    *)
VerifiedIntact ==
  accepted.verified =>
    \E k \in 1..LastScan :
      Payload(accepted, k) \/ (~expected /\ Stripped(accepted, k))

(* On a steady wire what is accepted is from the whole answer to the scan   *)
(* that was running, in either mode and whether or not the scanner got the  *)
(* format command: no bytes are left over from a scan that was stopped.  It *)
(* is the payload, unless the code itself contains an envelope.             *)
AcceptedFresh ==
  steady /\ accepted # Nothing =>
    Payload(accepted, accepted.scan) \/ Stripped(accepted, accepted.scan)

(* What the scanner returns with Format 3 off is stored as it is: "Normal:  *)
(* protocol off / original payload" (app_main), and README.md says that raw *)
(* payloads are stored whatever their encoding.                             *)
RawPayloadStored ==
  steady /\ setting = 0 /\ accepted # Nothing => Payload(accepted, accepted.scan)

(* A scan ends, in a payload, an error or a timeout. *)
ScanEnds == state = "scanning" ~> state # "scanning"
=============================================================================
