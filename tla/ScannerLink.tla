----------------------------- MODULE ScannerLink -----------------------------
(***************************************************************************)
(* The commands the firmware sends the QRCode2 over the UART and the       *)
(* replies it takes for theirs: qr_scanner_init with its search for the    *)
(* baud rate, the configuration that is not read back, the protocol format *)
(* that is (main/qrtransfer_msc.c); and of an analysis (main/analyzer.c),  *)
(* the image that is captured, the image asked for again of which a crop   *)
(* is kept, and the seven identity queries.  Scanning itself is            *)
(* QrReceiver's subject, decoding ImageAnalysis's.                         *)
(*                                                                         *)
(* The scanner answers in order, but a reply may be late: it may arrive    *)
(* after the firmware gave up and even after it sent other commands.  A    *)
(* command or a piece of a reply may get lost.  A reply is a sequence of   *)
(* pieces, the parts of it the firmware reads or tells apart.  A piece of  *)
(* an image or of a value is never taken for the header of a reply: the    *)
(* model has no pixel that happens to look like one.                       *)
(*                                                                         *)
(* A behaviour is prompt, or it is not: when prompt, nothing is lost and a *)
(* read times out only when no piece is under way.                         *)
(***************************************************************************)
EXTENDS Integers, FiniteSets, SequencesExt

CONSTANTS
  PingTries, FastTries,  \* pings at 115200 and at 128000
  Queries,               \* what the scanner answers to each identity query:
                         \* a value that "fits", is "tooLong" or "empty", or "unsupported"
  Width, Height,         \* ANALYZER_SOURCE_WIDTH, ANALYZER_SOURCE_HEIGHT
  MinSize, MinMargin, MaxCropBytes,  \* of compute_native_crop
  Symbols,               \* the sets of corners quirc may have found
  MaxBacklog,            \* bound: pieces under way when a read times out
  MaxLost,               \* bound: commands and pieces lost
  MaxRestarts,           \* bound: restarts of the firmware
  MaxAnalyses            \* bound: analyses

ASSUME LinkAssumption ==
  /\ {PingTries, FastTries, Width, Height} \subseteq Nat \ {0}
  /\ {MinSize, MinMargin, MaxCropBytes} \subseteq Nat
  /\ Queries \in Seq({"fits", "tooLong", "empty", "unsupported"})
  /\ \A s \in Symbols : s # {} /\ IsFiniteSet(s) /\ s \subseteq Int \X Int
  /\ {MaxBacklog, MaxLost, MaxRestarts, MaxAnalyses} \subseteq Nat

VARIABLES
  at,        \* where the firmware is
  count,     \* pings left, the next config command, row or query
  baud,      \* of the firmware's UART
  rx,        \* the UART's receive ring: pieces that have arrived
  wanted,    \* the protocol format the operating mode asks for
  writeRid,  \* qr_protocol_write_rid, -1 when no write reply was seen
  readback,  \* qr_protocol_readback_value, -1 when no readback was seen
  crop,      \* the native crop: its geometry, its rows, whether it succeeded
  values,    \* what the identity queries found: the query of a value, or an error
  scanner,   \* external: baud rate, format, settings applied, listening, knows formats
  out,       \* external: pieces of replies that have not arrived yet
  prompt,    \* external: the scanner is prompt, for good
  alone,     \* no piece of an earlier image was left when the analysis began
  lost, restarts, analyses  \* counted

format == <<wanted, writeRid, readback>>
image  == <<crop, analyses, alone>>
vars == <<at, count, baud, rx, format, image, values, scanner, out, prompt, lost, restarts>>

Normal == 115200
Fast   == 128000
Unread == 0          \* a value that was not asked for yet
Error  == -1         \* a value that is an error text
Junk   == -2         \* a value made of something else
NoCrop == [x |-> 0, y |-> 0, width |-> 0, height |-> 0, box |-> {}, rows |-> <<>>, ok |-> FALSE]

-----------------------------------------------------------------------------
(* External: the scanner and the line.                                     *)

Piece(of, part, val) == [of |-> of, part |-> part, val |-> val, baud |-> scanner.baud]

(* An analysis asks for two images, numbered through: a capture and a crop. *)
CaptureImage == 2 * analyses - 1
CropImage    == 2 * analyses

Requested == IF at \in {"image", "header", "rows"} THEN CropImage ELSE CaptureImage

(* An image has two pieces a row, numbered through; val tells the image.   *)
ImageReply ==
  <<Piece("image", 0, Requested)>> \o [i \in 1..2 * Height |-> Piece("image", i, Requested)]

StatusReply(q) ==
  CASE Queries[q] = "unsupported" -> <<Piece("status", 1, 0), Piece("status", 2, 0)>>
    [] Queries[q] = "empty" -> [p \in 1..3 |-> Piece("status", p, q)]
    [] OTHER -> [p \in 1..4 |-> Piece("status", p, q)]

Rid == IF scanner.knows THEN 0 ELSE 1

Reply(cmd, par) ==
  CASE cmd = "image"  -> ImageReply
    [] cmd = "status" -> StatusReply(par)
    [] cmd = "writeFormat" -> <<Piece(cmd, 1, par), Piece(cmd, 2, Rid)>>
    [] cmd = "readFormat"  -> <<Piece(cmd, 1, 0), Piece(cmd, 2, scanner.format)>>
    [] OTHER -> <<Piece(cmd, 1, 0), Piece(cmd, 2, 0)>>

Obeyed(cmd, par) ==
  CASE cmd = "writeBaud" -> [scanner EXCEPT !.baud = Normal]
    [] cmd = "writeFormat" /\ scanner.knows -> [scanner EXCEPT !.format = par]
    [] cmd = "config" -> [scanner EXCEPT !.settings = @ \union {par}]
    [] OTHER -> scanner

Hears == scanner.listening /\ scanner.baud = baud

(* uart_flush_input, then the command: the scanner obeys and answers at    *)
(* the rate it had, or hears nothing.                                      *)
Send(cmd, par) ==
  /\ rx' = <<>>
  /\ \/ /\ Hears
        /\ scanner' = Obeyed(cmd, par)
        /\ out' = out \o Reply(cmd, par)
        /\ UNCHANGED lost
     \/ /\ ~Hears
        /\ UNCHANGED <<scanner, out, lost>>
     \/ /\ Hears /\ ~prompt /\ lost < MaxLost
        /\ lost' = lost + 1
        /\ UNCHANGED <<scanner, out>>

line == <<scanner, out, lost>>

(* At another rate than it was sent with, a piece arrives as something else. *)
Arrive ==
  /\ out # <<>>
  /\ rx' = Append(rx, IF Head(out).baud = baud THEN Head(out)
                      ELSE [Head(out) EXCEPT !.of = "garbage"])
  /\ out' = Tail(out)
  /\ UNCHANGED <<at, count, baud, format, image, values, scanner, prompt, lost, restarts>>

Lose ==
  /\ out # <<>> /\ ~prompt /\ lost < MaxLost
  /\ out' = Tail(out)
  /\ lost' = lost + 1
  /\ UNCHANGED <<at, count, baud, rx, format, image, values, scanner, prompt, restarts>>

Wake ==
  /\ ~scanner.listening
  /\ scanner' = [scanner EXCEPT !.listening = TRUE]
  /\ UNCHANGED <<at, count, baud, rx, format, image, values, out, prompt, lost, restarts>>

-----------------------------------------------------------------------------
(* Reading with a timeout.                                                 *)

Waited == IF prompt THEN out = <<>> ELSE Len(out) <= MaxBacklog

(* uart_read_exact, qr_read_exact_timeout: n pieces ... *)
Got(n) == Len(rx) >= n /\ rx' = SubSeq(rx, n + 1, Len(rx))

(* ... or fewer, which are used up. *)
TimesOut(n) == Len(rx) < n /\ Waited /\ rx' = <<>>

Is(i, of, part) == rx[i].of = of /\ rx[i].part = part

-----------------------------------------------------------------------------
(* qr_scanner_init                                                         *)

(* qr_scanner_ping_once: flush and send, at either rate, ... *)
PingSend ==
  /\ \/ at = "ping" /\ at' = "pinging"
     \/ at = "verify" /\ at' = "verifying"
  /\ Send("ping", 0)
  /\ UNCHANGED <<count, baud, format, image, values, prompt, restarts>>

Answered == rx # <<>> /\ Is(1, "ping", 1)

AnyAnswer ==                         \* faulty: whatever arrives is an answer
  /\ at = "pinging" /\ rx # <<>> /\ Waited
  /\ rx' = <<>>
  /\ at' = IF baud = Normal THEN "config" ELSE "baud"
  /\ count' = 1
  /\ UNCHANGED <<baud, format, image, values, line, prompt, restarts>>

(* ... then whatever has arrived when the time is up.                      *)
PingAnswered ==
  /\ at = "pinging" /\ Answered /\ Waited
  /\ rx' = <<>>
  /\ at' = IF baud = Normal THEN "config" ELSE "baud"
  /\ count' = 1
  /\ UNCHANGED <<baud, format, image, values, line, prompt, restarts>>

PingsAtOneRate ==                    \* faulty: 128000 is not tried
  /\ at = "pinging" /\ ~Answered /\ Waited
  /\ rx' = <<>>
  /\ IF count > 1 THEN at' = "ping" /\ count' = count - 1
                  ELSE at' = "failed" /\ UNCHANGED count
  /\ UNCHANGED <<baud, format, image, values, line, prompt, restarts>>

PingFails ==
  /\ at = "pinging" /\ ~Answered /\ Waited
  /\ rx' = <<>>
  /\ IF count > 1
       THEN at' = "ping" /\ count' = count - 1 /\ UNCHANGED baud
       ELSE IF baud = Normal
              THEN at' = "ping" /\ count' = FastTries /\ baud' = Fast
              ELSE at' = "failed" /\ UNCHANGED <<count, baud>>
  /\ UNCHANGED <<format, image, values, line, prompt, restarts>>

BaudSend ==
  /\ at = "baud" /\ at' = "bauding"
  /\ Send("writeBaud", 0)
  /\ UNCHANGED <<count, baud, format, image, values, prompt, restarts>>

BaudAnswered ==
  /\ at = "bauding" /\ Got(2)
  /\ IF Is(1, "writeBaud", 1) /\ Is(2, "writeBaud", 2)
       THEN at' = "verify" /\ baud' = Normal
       ELSE at' = "failed" /\ UNCHANGED baud
  /\ UNCHANGED <<count, format, image, values, line, prompt, restarts>>

BaudUnanswered ==
  /\ at = "bauding" /\ TimesOut(2)
  /\ at' = "failed"
  /\ UNCHANGED <<count, baud, format, image, values, line, prompt, restarts>>

Verified ==
  /\ at = "verifying" /\ Waited
  /\ rx' = <<>>
  /\ at' = IF Answered THEN "config" ELSE "failed"
  /\ count' = 1
  /\ UNCHANGED <<baud, format, image, values, line, prompt, restarts>>

(* Manual mode, the sounds, the fill light, the positioning light.         *)
Settings == <<"manual", "audio", "fill", "position">>

(* qr_send_config: the reply is flushed unread, if it has arrived by then. *)
ConfigSend ==
  /\ at = "config" /\ at' = "configWait"
  /\ Send("config", Settings[count])
  /\ UNCHANGED <<count, baud, format, image, values, prompt, restarts>>

ConfigSent ==
  /\ at = "configWait" /\ Waited
  /\ rx' = <<>>
  /\ IF count < Len(Settings)
       THEN at' = "config" /\ count' = count + 1
       ELSE at' = "format" /\ count' = 0
  /\ UNCHANGED <<baud, format, image, values, line, prompt, restarts>>

-----------------------------------------------------------------------------
(* qr_protocol_format_write_and_readback                                   *)

FormatWrite ==
  /\ at = "format" /\ at' = "formatWritten"
  /\ writeRid' = -1 /\ readback' = -1
  /\ Send("writeFormat", wanted)
  /\ UNCHANGED <<count, baud, wanted, image, values, prompt, restarts>>

FormatWritten ==
  /\ at = "formatWritten" /\ at' = "formatRead"
  /\ \/ Got(2) /\ writeRid' = IF Is(1, "writeFormat", 1) /\ rx[1].val = wanted
                                THEN rx[2].val ELSE -1
     \/ TimesOut(2) /\ UNCHANGED writeRid
  /\ UNCHANGED <<count, baud, wanted, readback, image, values, line, prompt, restarts>>

FormatRead ==
  /\ at = "formatRead" /\ at' = "formatShown"
  /\ Send("readFormat", 0)
  /\ UNCHANGED <<count, baud, format, image, values, prompt, restarts>>

FormatAnyShown ==                    \* faulty: any four bytes are the readback
  /\ at = "formatShown" /\ at' = "ready"
  /\ \/ Len(rx) >= 2 /\ readback' = rx[2].val
     \/ Len(rx) < 2 /\ Waited /\ UNCHANGED readback
  /\ rx' = <<>>
  /\ UNCHANGED <<count, baud, wanted, writeRid, image, values, line, prompt, restarts>>

FormatShown ==
  /\ at = "formatShown" /\ at' = "ready"
  /\ \/ Len(rx) >= 2 /\ readback' = IF Is(1, "readFormat", 1) THEN rx[2].val ELSE -1
     \/ Len(rx) < 2 /\ Waited /\ UNCHANGED readback
  /\ rx' = <<>>
  /\ UNCHANGED <<count, baud, wanted, writeRid, image, values, line, prompt, restarts>>

-----------------------------------------------------------------------------
(* compute_native_crop: the box of the corners, a margin around it, cut    *)
(* off at the edges of the image.                                          *)

Lesser(a, b)  == IF a < b THEN a ELSE b
Greater(a, b) == IF a > b THEN a ELSE b

Least(S)    == CHOOSE a \in S : \A b \in S : a <= b
Greatest(S) == CHOOSE a \in S : \A b \in S : a >= b

Box(corners) ==
  [x0 |-> Least({p[1] : p \in corners} \union {Width - 1}),
   y0 |-> Least({p[2] : p \in corners} \union {Height - 1}),
   x1 |-> Greatest({p[1] : p \in corners} \union {0}),
   y1 |-> Greatest({p[2] : p \in corners} \union {0})]

Margin(b) == Greater(Greater(b.x1 - b.x0 + 1, b.y1 - b.y0 + 1) \div 4, MinMargin)

Unclipped(b) ==                      \* faulty: the far edges are not clipped
  LET m == Margin(b)
  IN [x0 |-> Greater(b.x0 - m, 0), y0 |-> Greater(b.y0 - m, 0),
      x1 |-> b.x1 + m, y1 |-> b.y1 + m]

Clipped(b) ==
  LET m == Margin(b)
  IN [x0 |-> Greater(b.x0 - m, 0), y0 |-> Greater(b.y0 - m, 0),
      x1 |-> Lesser(b.x1 + m, Width - 1), y1 |-> Lesser(b.y1 + m, Height - 1)]

Area(c) == (c.x1 - c.x0 + 1) * (c.y1 - c.y0 + 1)

Croppable(b) ==
  /\ b.x1 - b.x0 + 1 >= MinSize /\ b.y1 - b.y0 + 1 >= MinSize
  /\ Area(Clipped(b)) <= MaxCropBytes

(* analyze_image; Analyzer mode, which asks for format 3, is the mode that *)
(* has it.  The area of the capture is erased, or the analysis fails.      *)
AnalysisBegins ==
  /\ at = "ready" /\ wanted = 3 /\ analyses < MaxAnalyses
  /\ at' \in {"capture", "identity"}
  /\ analyses' = analyses + 1
  /\ alone' = \A i \in DOMAIN (rx \o out) : (rx \o out)[i].of # "image"
  /\ crop' = NoCrop
  /\ values' = [q \in DOMAIN Queries |-> Unread]
  /\ count' = 1
  /\ UNCHANGED <<baud, rx, format, line, prompt, restarts>>

(* The image for the capture, and the image for the crop.                  *)
ImageSend ==
  /\ \/ at = "capture" /\ at' = "captureHeader"
     \/ at = "image" /\ at' = "header"
  /\ Send("image", 0)
  /\ UNCHANGED <<count, baud, format, image, values, prompt, restarts>>

GoesOnWithoutImage ==                \* faulty: a capture that timed out counts as done
  /\ at \in {"captureHeader", "header"}
  /\ \/ Got(1) /\ Is(1, "image", 0)
        /\ at' \in {IF at = "header" THEN "rows" ELSE "captureRows", "identity"}
     \/ Got(1) /\ ~Is(1, "image", 0) /\ at' = "identity"
     \/ TimesOut(1) /\ at' = IF at = "header" THEN "identity" ELSE "captured"
  /\ count' = IF at' \in {"identity", "captured"} THEN 1 ELSE 0
  /\ UNCHANGED <<baud, format, image, values, line, prompt, restarts>>

(* The header of either; without memory for a row no row is read.          *)
HeaderRead ==
  /\ at \in {"captureHeader", "header"}
  /\ \/ Got(1) /\ Is(1, "image", 0)
        /\ at' \in {IF at = "header" THEN "rows" ELSE "captureRows", "identity"}
     \/ Got(1) /\ ~Is(1, "image", 0) /\ at' = "identity"
     \/ TimesOut(1) /\ at' = "identity"
  /\ count' = IF at' = "identity" THEN 1 ELSE 0
  /\ UNCHANGED <<baud, format, image, values, line, prompt, restarts>>

(* analyzer_capture_raw_only: a row is read and written to flash, where    *)
(* writing it, and committing the image behind the last one, may fail.     *)
CaptureRowRead ==
  /\ at = "captureRows" /\ Got(2)
  /\ \/ count < Height - 1 /\ count' = count + 1 /\ UNCHANGED at
     \/ count = Height - 1 /\ count' = 1 /\ at' = "captured"
     \/ count' = 1 /\ at' = "identity"
  /\ UNCHANGED <<baud, format, image, values, line, prompt, restarts>>

(* The capture did not decode, and quirc has found these corners: the UART *)
(* driver is installed anew and run_native_crop_decode begins.             *)
CropBegins ==
  /\ at = "captured"
  /\ rx' = <<>>
  /\ \E corners \in Symbols :
       LET c == Clipped(Box(corners))
       IN IF Croppable(Box(corners))
            THEN /\ crop' = [NoCrop EXCEPT !.x = c.x0, !.y = c.y0,
                               !.width = c.x1 - c.x0 + 1, !.height = c.y1 - c.y0 + 1,
                               !.box = corners]
                 /\ at' \in {"image", "identity"}     \* no memory for the crop
            ELSE crop' = NoCrop /\ at' = "identity"
  /\ UNCHANGED <<count, baud, format, analyses, alone, values, line, prompt, restarts>>

(* The capture did decode, or nothing was found in it.                     *)
CropNotNeeded ==
  /\ at = "captured" /\ at' = "identity"
  /\ \/ UNCHANGED rx                \* decoded before the driver was removed
     \/ rx' = <<>>
  /\ UNCHANGED <<count, baud, format, image, values, line, prompt, restarts>>

InCrop(y) == crop.y <= y /\ y < crop.y + crop.height

StopsAfterCrop ==                    \* faulty: the rows below are left unread
  /\ at = "rows" /\ Got(2)
  /\ crop' = [crop EXCEPT !.rows = IF InCrop(count) THEN Append(@, SubSeq(rx, 1, 2)) ELSE @,
                          !.ok = count = crop.y + crop.height - 1]
  /\ IF count < crop.y + crop.height - 1
       THEN count' = count + 1 /\ UNCHANGED at
       ELSE count' = 1 /\ at' = "identity"
  /\ UNCHANGED <<baud, format, values, analyses, alone, line, prompt, restarts>>

(* receive_image_native_crop: every row is read, those of the crop kept.   *)
RowRead ==
  /\ at = "rows" /\ Got(2)
  /\ crop' = [crop EXCEPT !.rows = IF InCrop(count) THEN Append(@, SubSeq(rx, 1, 2)) ELSE @,
                          !.ok = count = Height - 1]
  /\ IF count < Height - 1
       THEN count' = count + 1 /\ UNCHANGED at
       ELSE count' = 1 /\ at' = "identity"
  /\ UNCHANGED <<baud, format, values, analyses, alone, line, prompt, restarts>>

RowMissing ==
  /\ at \in {"captureRows", "rows"} /\ TimesOut(2)
  /\ at' = "identity" /\ count' = 1
  /\ UNCHANGED <<baud, format, image, values, line, prompt, restarts>>

-----------------------------------------------------------------------------
(* scanner_identity_query, scanner_status_read_string                      *)

QuerySend ==
  /\ at = "identity" /\ at' = "head"
  /\ Send("status", count)
  /\ UNCHANGED <<count, baud, format, image, values, prompt, restarts>>

(* The query ends with value v; the next one, or the end of the report.    *)
QueryEnds(v) ==
  /\ values' = [values EXCEPT ![count] = v]
  /\ IF count < Len(Queries)
       THEN at' = "identity" /\ count' = count + 1
       ELSE at' = "ready" /\ count' = 0

(* An error that flushes the ring, and one that does not.                  *)
Flushed == rx' = <<>> /\ QueryEnds(Error)
Given   == Got(1) /\ QueryEnds(Error)

(* The first byte must be 0x44.                                            *)
HeadRead ==
  /\ at = "head"
  /\ \/ Got(1) /\ Is(1, "status", 1) /\ at' = "pid" /\ UNCHANGED <<count, values>>
     \/ rx # <<>> /\ ~Is(1, "status", 1) /\ Flushed
     \/ TimesOut(1) /\ QueryEnds(Error)
  /\ UNCHANGED <<baud, format, image, line, prompt, restarts>>

(* The second is 0 for what the scanner does not know.                     *)
PidRead ==
  /\ at = "pid"
  /\ \/ Got(1) /\ Is(1, "status", 2) /\ rx[1].val # 0
        /\ at' = "tail" /\ UNCHANGED <<count, values>>
     \/ rx # <<>> /\ Is(1, "status", 2) /\ rx[1].val = 0 /\ Given
     \/ rx # <<>> /\ ~Is(1, "status", 2) /\ Flushed
     \/ TimesOut(1) /\ QueryEnds(Error)
  /\ UNCHANGED <<baud, format, image, line, prompt, restarts>>

TailOfAny ==                         \* faulty: the FID is not compared
  /\ at = "tail"
  /\ \/ Got(1) /\ Is(1, "status", 3) /\ Queries[rx[1].val] = "fits"
        /\ at' = "data" /\ UNCHANGED <<count, values>>
     \/ rx # <<>> /\ Is(1, "status", 3) /\ Queries[rx[1].val] = "empty" /\ Given
     \/ rx # <<>> /\ ~(Is(1, "status", 3) /\ Queries[rx[1].val] \in {"fits", "empty"}) /\ Flushed
     \/ TimesOut(1) /\ QueryEnds(Error)
  /\ UNCHANGED <<baud, format, image, line, prompt, restarts>>

(* Then the FID and a length.                                              *)
TailRead ==
  /\ at = "tail"
  /\ LET own == rx # <<>> /\ Is(1, "status", 3) /\ rx[1].val = count
     IN \/ own /\ Queries[count] = "fits" /\ Got(1)
           /\ at' = "data" /\ UNCHANGED <<count, values>>
        \/ own /\ Queries[count] = "empty" /\ Given
        \/ own /\ Queries[count] = "tooLong" /\ Flushed
        \/ rx # <<>> /\ ~own /\ Flushed
        \/ TimesOut(1) /\ QueryEnds(Error)
  /\ UNCHANGED <<baud, format, image, line, prompt, restarts>>

(* Whatever follows is the value.                                          *)
DataRead ==
  /\ at = "data"
  /\ \/ Got(1) /\ QueryEnds(IF rx[1].of = "status" /\ rx[1].part = 4 THEN rx[1].val ELSE Junk)
     \/ TimesOut(1) /\ QueryEnds(Error)
  /\ UNCHANGED <<baud, format, image, line, prompt, restarts>>

-----------------------------------------------------------------------------
(* The scanner keeps its baud rate and its format without power.           *)
Init ==
  /\ prompt \in BOOLEAN
  /\ scanner \in [baud : {Normal, Fast}, format : {0}, settings : {{}},
                  listening : IF prompt THEN {TRUE} ELSE BOOLEAN, knows : BOOLEAN]
  /\ wanted \in {0, 3}
  /\ at = "ping" /\ count = PingTries /\ baud = Normal /\ rx = <<>>
  /\ writeRid = -1 /\ readback = -1
  /\ crop = NoCrop /\ values = [q \in DOMAIN Queries |-> Unread]
  /\ out = <<>>
  /\ lost = 0 /\ restarts = 0 /\ analyses = 0 /\ alone = TRUE

(* A reset of the firmware alone leaves the scanner, and its replies, as   *)
(* they are; a power failure does not.  The mode may be another one then.  *)
Restart ==
  /\ restarts < MaxRestarts
  /\ restarts' = restarts + 1
  /\ \/ ~prompt /\ UNCHANGED <<scanner, out>>
     \/ /\ scanner' = [scanner EXCEPT !.listening = prompt, !.settings = {}]
        /\ out' = <<>>
  /\ wanted' \in {0, 3}
  /\ at' = "ping" /\ count' = PingTries /\ baud' = Normal /\ rx' = <<>>
  /\ writeRid' = -1 /\ readback' = -1
  /\ crop' = NoCrop /\ values' = [q \in DOMAIN Queries |-> Unread]
  /\ UNCHANGED <<prompt, lost, analyses, alone>>

Line == Arrive \/ Lose \/ Wake

Firmware ==
  \/ PingSend \/ PingAnswered \/ PingFails \/ BaudSend \/ BaudAnswered \/ BaudUnanswered
  \/ Verified \/ ConfigSend \/ ConfigSent
  \/ FormatWrite \/ FormatWritten \/ FormatRead \/ FormatShown
  \/ AnalysisBegins \/ ImageSend \/ HeaderRead \/ CaptureRowRead \/ CropBegins
  \/ CropNotNeeded \/ RowRead \/ RowMissing
  \/ QuerySend \/ HeadRead \/ PidRead \/ TailRead \/ DataRead

Next == Line \/ Firmware \/ Restart

(* The firmware runs and the line delivers; nothing has to be lost.        *)
Spec == Init /\ [][Next]_vars /\ WF_vars(Firmware) /\ WF_vars(Arrive)

-----------------------------------------------------------------------------
(* Properties.                                                             *)

(* qr_scanner_init reports the scanner ready only when both ends use       *)
(* 115200, however late the replies to its many pings and whatever rate    *)
(* the scanner came up with.                                               *)
ReadyAgrees ==
  at \notin {"ping", "pinging", "baud", "bauding", "verify", "verifying", "failed"} =>
    baud = Normal /\ scanner.baud = Normal

(* What the firmware believes about the protocol format, and reports, is   *)
(* so: a readback is the scanner's format and no earlier one, and a write  *)
(* reported successful has set it.                                         *)
FormatKnown ==
  at = "ready" =>
    /\ readback # -1 => readback = scanner.format
    /\ writeRid = 0 => scanner.format = wanted

(* An identity value in the report is the answer to its own query, never   *)
(* a late answer to an earlier one and never a piece of an image that the  *)
(* scanner was still sending: for as long as nothing was lost, and in the  *)
(* first analysis whatever was lost.  (A later analysis has asked the same *)
(* queries before, and a loss can join an old answer to a new one.)        *)
NothingLost   == lost = 0
FirstAnalysis == analyses <= 1

OwnValue ==
  NothingLost \/ FirstAnalysis =>
    \A q \in DOMAIN Queries : values[q] \in {Unread, Error, q}

(* A crop that is decoded holds whole rows of one image, the image asked   *)
(* for and not the one captured before nor one of an earlier analysis, the *)
(* first of them being row crop_y: bytes lost anywhere in the transfer     *)
(* shift the rows behind them, and are noticed.  (Of an analysis that      *)
(* begins while an image of an earlier one is still on its way nothing is  *)
(* said: nothing in an image tells which request it answers.)              *)
CropWhole ==
  alone /\ crop.ok =>
    /\ Len(crop.rows) = crop.height
    /\ \A i \in 1..crop.height :
         \A h \in {1, 2} :
           LET piece == crop.rows[i][h]
           IN /\ piece.of = "image" /\ piece.val = CropImage
              /\ piece.part = 2 * (crop.y + i - 2) + h + 2

(* The crop lies in the image, fits the memory set aside for it and holds  *)
(* every corner that lies in the image.                                    *)
CropCovers ==
  crop.box # {} =>
    /\ crop.x >= 0 /\ crop.x + crop.width <= Width
    /\ crop.y >= 0 /\ crop.y + crop.height <= Height
    /\ crop.width * crop.height <= MaxCropBytes
    /\ \A p \in crop.box :
         p \in (0..Width - 1) \X (0..Height - 1) =>
           /\ crop.x <= p[1] /\ p[1] < crop.x + crop.width
           /\ crop.y <= p[2] /\ p[2] < crop.y + crop.height

(* A boot with a prompt scanner succeeds, whichever of the two rates the   *)
(* scanner kept, and leaves it configured (asked of the last boot: one     *)
(* before it may be cut short by a restart).                               *)
PromptReady ==
  prompt /\ restarts = MaxRestarts /\ at = "ping" ~>
    /\ at = "ready"
    /\ scanner.settings = ToSet(Settings)
    /\ scanner.knows => readback = wanted /\ scanner.format = wanted
=============================================================================
