# QRTransfer (esp32s3-qr-msc): a TLA+ model of the firmware

QRTransfer is an ESP32-S3 device with a QRCode2 scanner module on a UART, one
button, an RGB LED and a USB connector. It shows itself to a PC as a read-only
disk. A tap starts a scan; the scanned payload is committed to a history in
flash, the device detaches from USB, rebuilds the disk (LATEST.TXT, a LOG
directory, in Analyzer mode QRINFO.TXT, LATEST.BMP and DEBUG.TXT) and attaches
again. In Analyzer mode it also fetches the scanner's image and tries to decode
it with ZXing and quirc.

These modules model the parts of it that are hard to test: what flash failures
and power failures leave behind, two tasks that share memory without a lock, a
protocol without end marks, replies that come too late, a helper task that may
outlive its caller, a button sampled by a loop that is often held up, and the
arithmetic of a disk that exists only as formulas.

## 1. The system

| Component | Source | State | Operations | Interacts with |
|---|---|---|---|---|
| QR history ring | `main/flash_store.c` | one header sector and one payload sector per slot; nothing in RAM | `append`, `reset`, `get_recent`, `read_range`, `verify_info` | called by the update (device task) and by the read callback (USB task) |
| RAW and BIN image areas | `main/flash_store.c` | two headers, two images in reserved sectors | `raw_begin/write/commit/available`, `binary_*` | filled by the analysis, read by the decoders and by LATEST.BMP |
| Disk update, USB mass storage | `main/qrtransfer_msc.c` | `device_state`, the cache (FAT, directories, `visible_log`, latest payload), `bcdDevice` | boot of the view, `update_latest_from_qr`, `tud_msc_read10_cb` | history, analysis, the USB host |
| FAT12 volume | `main/qrtransfer_msc.c` | none: computed from the cache and the flash | `rebuild_virtual_fat_metadata`, `virtual_disk_read_sector` | the host's FAT driver |
| Image analysis | `main/analyzer.c` | `s_json`, the UART driver, decode tasks, the device task's notification | `analyzer_process_scan_metadata` and everything below it | image areas, scanner, decoder libraries |
| QR reception, Format 3 | `main/qrtransfer_msc.c` | `qr_buffer`, `qr_receiving`, timestamps, the UART ring | `qr_start_scan`, `qr_poll`, `qr_stop_scan`, the parser | scanner, update |
| Buttons, device loop, LED | `main/qrtransfer_msc.c` | `tap_pending`, `first_tap_ms`, `previous_button`, the LED, the heartbeat timer | `device_task`, `handle_idle_button_press`, `analyzer_activity_*` | reception, update |
| Boot, mode, reset | both | NVS mode key, boot gesture | `app_main`, `boot_gesture_action`, `analyzer_mode_*` | history, scanner |
| Scanner initialisation | `main/qrtransfer_msc.c` | baud rate, protocol format | `qr_scanner_init`, `qr_protocol_format_write_and_readback` | scanner |
| Native crop, identity | `main/analyzer.c` | crop geometry, the values of the report | `run_native_crop_decode`, `scanner_identity_query` | scanner, analysis |
| Breadcrumbs, DEBUG.TXT | `main/analyzer.c` | four NVS keys | `analyzer_diag_*` | boot |
| Binarizers, JSON text, ZXing wrapper | both, `components/` | none that another part reads | | |

The behaviours that make it hard:

* **Failure half-way.** An append is an erase, a payload write and a header
  write; each may fail, and power may go between any two, or inside the header.
  The device continues after a failed append with the disk it had before.
* **Concurrency without locks.** The USB task reads the cache and the flash the
  device task rewrites. A quirc decode task works on an object and on a stack
  frame of the device task.
* **Timeouts.** The end of a scanner answer *is* a timeout; a decode task may
  answer after its own; the scanner's replies to commands, pings at two baud
  rates and identity queries carry little that says which command they answer.
* **Stale samples.** The loop samples the button twice a round, and a round may
  last as long as a scan, an update and an analysis.
* **A host that remembers.** It keys what it caches by `bcdDevice`, which has
  two values.

What makes each component correct: the ring keeps acknowledged records, in
order, and only forgets the oldest; a connected disk shows every record and can
be read; no read overlaps an update; what is accepted is from one whole answer to
the running scan; a press counts once and the LED tells the state; a boot does what
the hold at power-on asked for, whatever was cut before; what the firmware believes
of the scanner is so; a decode task has its memory for as long as it runs; following
the FAT delivers the file.

## 2. Modules

| Module | Models | Extends |
|---|---|---|
| `HistoryLog` | what the history promises: an abstract specification without slots | |
| `FlashStore` | the history ring, one action per flash operation | |
| `FlashStore_proofs` | types, ring order, intact and durable records, distinct numbers, the ring implements `HistoryLog`, no record is missing: proofs | `FlashStore` |
| `MassStorage_proofs` | safety of `MassStorage`, on top of the ring's: proofs | `MassStorage`, `FlashStore_proofs` |
| `DeviceTask_proofs`, `ImageAnalysis_proofs`, `BootMode_proofs`, `QrReceiver_proofs`, `ScannerLink_proofs`, `VirtualDisk_proofs` | safety of these modules: proofs | the module named |
| `MassStorage` | boot, disk update, USB read callback, host, power failures | `FlashStore` |
| `ImageAnalysis` | one scan's image through the areas, decoders and decode tasks | |
| `QrReceiver` | scanner, wire and `qr_poll` in discrete time | |
| `VirtualDisk` | the FAT12 volume and a host reading files through it | |
| `DeviceTask` | the loop of `device_task`: gestures, states, LED, heartbeat timer | |
| `BootMode` | `app_main`, the hold at power-on, mode and breadcrumbs in NVS | |
| `ScannerLink` | commands and replies: initialisation, protocol format, native crop, identity | |
| `MC*` | constants and instances for TLC | |

`MassStorage` composes: it EXTENDS `FlashStore` and each flash step of an append
or a reset is one of its own steps (`Appending`, `BootErases`), so that a read
callback or a power failure can fall between any two.

Definitions whose comment begins with `faulty:` are not part of the model. Each
is a wrong variant of the operator that follows it, a bug a change could
introduce; putting it in the operator's place makes TLC report the property it
is paired with in `PROJECT.json`.

### FlashStore

A header is the number of 32-bit words programmed so far (magic, version, sequence,
number and length, CRC) and the fields being written. `HeaderIsValid` is the
code's test: magic, version and size, and a length that is not too large -- an
erased length field reads 0xFFFF. It does *not* include the CRC, which is
why a header cut off after its length word is a record (`VisibleIntact` says that
this is harmless). `AppendBegin` is the scan, the sort and the placement;
`EraseHeader`, `ErasePayload`, `WritePayload`, `FinishPayload` and one
`ProgramHeader` per word are the flash operations; `AppendReturns` and
`AppendFails` the two ways out. `ResetHeader`/`ResetPayload` walk the partition.
`PowerLoss` keeps the flash and drops the locals. `acked` is a history variable.
The bytes of a payload and the reserved words of a header are abstracted; the erase of
one sector is atomic, a header is written in words and in address order, and reading a
header does not fail.

### MassStorage

`stage` is `device_state` refined by the position inside `update_latest_from_qr`.
`reading` is the interval of a read callback on the USB task. The two delays of
the code appear as what they are for: `BeginAppend` waits until no callback is
in progress (USB_DISCONNECT_MS), `GuardEnds` until the host has enumerated
(RECONNECT_GUARD_MS). Both are assumptions about the outside world, stated at the top of
the module. A history clear happens in boot, before the disk exists.
`refresh_visible_log` may find no memory to scan the ring and then lists nothing
(`RefreshVisibleLog`); `refreshed` remembers whether the list shown is what a scan found.
`cuts`, chosen once, says whether a history clear may fail or lose power half-way.
`MSInit` starts from a new device or from the ring after n successful appends.

### ImageAnalysis

`at` is the position of the device task. An image is the number of its scan, so
that a property can tell a fresh image from a stale one. Every flash erase,
write and commit is a step, every call may fail, and a failed analysis still
writes a report. The device task's notification is a number and is not tied to a
pass: that is how the code works and where `late_decode` comes from. A pass allocates its
quirc object (`Allocate`) and may fail before (`NoQuirc`) or after that (`PassFails`), at
the wait (`WaitTimesOut`) or behind it.

`faults` is chosen once, from `FaultSets`: `"firstErase"` (the erase of the RAW header
sector may fail), `"install"` (`uart_driver_install` may fail after the analysis) and
`"late"` (a decode task may outlast its timeout). The code gives no guarantee of some
properties under some of these, and each such property names its fault. All other
failures may happen in every behaviour.

### QrReceiver

An answer is a sequence of pieces; silence, polling and timeouts are ticks of a
clock that does not run ahead of the polling task (it polls every 5 ms, the
shortest timeout is 40 times that). `steady`, chosen once, separates two questions:
with a wire that pauses, corrupts and interleaves, only what is verified by a Format 3
envelope can be trusted; with a steady one, everything accepted is whole and fresh.
Whether an answer is an envelope is decided by its bytes, as in the code: with Format 3
off a code may hold any bytes, those of an envelope as well (`Counts`). A fragment of
an answer is assumed never to look like an envelope of its own.
A scan cannot begin sooner than `TapTicks` after the last one ended
(DOUBLE_TAP_MS). In the instance that is long enough for the rest of an answer to arrive
and be flushed; section 4 says what the code guarantees of it.

### VirtualDisk

Bytes are abstracted to their origin ("byte 17 of LATEST's payload"); sectors are
sets of extents. The arithmetic -- regions, chains, 12-bit packing, BOM, BMP header
-- is the code's, with the code's constants. The host computes its own geometry
from the boot sector, follows the FAT byte by byte and reads in transfers of any length
in `Transfers`, as `tud_msc_read10_cb` is called: `Chunks` is the loop of
`virtual_disk_read` that cuts a request into pieces of sectors.

Three assumptions say what the constants of the code satisfy. `GeometryAssumption`: they
are positive, and the root directory fills its sectors. `VolumeAssumption`: the fields of
the boot sector are 16 bits wide, a cluster number is below the end mark, `fat_table` has
room for its packed entry, and LATEST.BMP fits `RAW_CLUSTER_COUNT` clusters.
`ViewsAssumption`: what the disk may have to show fits `LOG_MAX_ENTRIES` files and the
clusters set aside for each. TLC evaluates them for the device's geometry.

### DeviceTask

A tick is one round of the loop (5 ms); the longer times are scaled down, with debounce
before double tap before guard, as in the device. `at` is the position in the round, `wait` what is left of a `vTaskDelay`. The
button is external and may change at any time; `SampleEdge` and `SampleLevel` are the
two places where the loop looks at it. A scan and an update hold the round up as they
do in the code. The heartbeat callback chooses a colour and writes it in two steps of
its own. `presses`, `scans`, `toggles` and `pressedIn` are history variables.

### BootMode

`phase` is the position in `app_main`. A press of the hand, a poll that finds the
button held, an NVS write, a part of the erase of the ring and the end of an
initialisation are one step each, and power may fail between any two; NVS and the
ring survive. `nvs_set_*` is taken to be atomic and durable. Each mark writes its
number into the four keys one by one, so that a reader can tell a mixture. The text of
DEBUG.TXT is formatted with the results of `nvs_get_*` ignored: a field that cannot be read
shows 0 (`Shown`).

### ScannerLink

A reply is a sequence of pieces, each of which remembers the command it answers and
the baud rate it was sent with; at another rate it arrives as garbage. Replies arrive
in order but any time later, also after the firmware has flushed its ring, sent the next
command or restarted. `prompt`, chosen once, separates what holds with late replies and losses from
what a working scanner may expect. An image has a header and two pieces a row. A piece
of an image never looks like the header of a reply: of the code this is an assumption
about pixels. An analysis asks for two images, the capture and then the image of which a
crop is kept, and each piece remembers the request it answers. `alone` remembers whether
a piece of an earlier image was still there when the analysis began.

## 3. What TLC checks

| Run | Instance | Shows |
|---|---|---|
| `flash_ring` | 3 slots, 6 appends, numbers up to 3, an empty and a non-empty payload | type, ring order, intact and durable records, distinct numbers, only the oldest is erased, and `FlashStore` implements `HistoryLog` |
| `virtual_disk_update` | 5 slots, LOG of 2, new or full device, one power failure, clears that may be interrupted or may not, one late failure | reads undisturbed, fresh host, LATEST apart from LOG, every acknowledged record shown, the old disk readable if no clear was interrupted, the device reconnects |
| `old_disk_cut_reset` | 4 slots, an interrupted clear | finding 1 |
| `image_analysis` | 3 scans, 2 with special faults, 1 power failure | no torn image, ZXing probes see this scan, report and image of the same scan, memory of decode tasks, no leak, UART installed, the analysis ends |
| `late_decode` | 2 scans, late decodes | finding 2 |
| `receiver` | answers of 2 pieces; 2 scans on a hostile wire, 3 on a steady one; 1 corrupted piece, 2 status packets | verified payloads are whole, accepted ones on a steady wire from the answer to the running scan, scans end, the buffer is never overrun |
| `raw_payload` | the same | finding 3 |
| `fat_volume` | the device's geometry, boundary lengths, up to 500 LOG files, transfers of 300 and 1024 bytes | following the FAT delivers the file; chains end in time and lie in the capacity the host was told |
| `device_loop` | 6 presses, times of 1 to 4 ticks | no press counts twice, none made during an update counts, no tap is forgotten, LED and marker tell the state |
| `boot` | 4 boots, 3 marks, a clear after 2 and a toggle after 4 polls | the gesture is obeyed in spite of earlier cuts, erase only in Normal mode, what DEBUG.TXT may mix, a boot ends |
| `scanner_link` | 2 pings a rate, 5 queries, images of 4 x 5, 1 loss, 1 restart, 1 analysis, 2 late pieces | both ends at one rate, the format known, the crop covers the symbol, a prompt scanner comes up |
| `scanner_again` | 1 ping a rate, 4 queries, images of 4 x 5, 1 loss, 2 analyses, 13 late pieces | identity values and crops are what they say, across images and analyses |

Bounds and why they are enough:

* `SlotCount` 3 with `MaxSequence` 6: the ring wraps twice and `MaxNumber` 3
  makes the numbers wrap while the ring is full. The proofs remove these bounds.
* `LogMax` 2 with 5 slots: SlotCount >= LogMax + 2 leaves one slot over (the device has
  716 slots and 500 LOG files). With one append that fails after its
  length word -- the record exists, the disk does not know -- the margin between the
  LOG and the slot to reuse shrinks by that one. `MaxLateFailures` bounds those, because
  SlotCount - LogMax - 1 of them in one session break the property on the device
  too (215 failed appends without a successful one); SlotCount - LogMax - 2 do not.
* One power failure in `MassStorage`: a boot forgets everything but the flash, and
  `FlashStore` itself allows any number.
* Three scans are enough for an image or a notification of the last scan but one
  to turn up; two pieces are enough for an answer to be cut.
* `MaxStatus` and `MaxNoise` bound what the scanner and the wire may add.
* `device_loop`: six presses are three more than a scan and a toggle use up; `Debounce`,
  `DoubleTap` and `Guard` are in the device's order, `Analysis` is longer than a heartbeat.
* `boot`: four boots let a cut clear be followed by a cut toggle and two whole boots.
* `scanner_link`: `MaxBacklog` 2 lets a reply outlast the read that asked for it and the
  next; each kind of identity answer occurs; the symbols touch two edges, are too large
  for the crop's memory and too small to be cropped.
* `scanner_again`: an image has 11 pieces, so `MaxBacklog` 13 lets a whole image be late, and
  the answers to a query with it. The symbol has rows above and below it.
* `fat_volume` takes every payload length at which a file of BOM and payload changes
  its number of sectors or clusters, for LATEST and LOG, and LOG sizes 0..12, 499, 500.

Deadlock checking is off where the system may stop: the bounds on scans, appends
and power failures end every behaviour, and `fatal_error_loop` never leaves. It is
on for the ring (a power failure is always possible), for the volume and for the loop.

Fairness: weak fairness of the device task (a FreeRTOS task that never blocks for
ever: every wait in it has a timeout), of the read callback's end, of time, and of
the host's enumeration; of the loop, the timer's callback and the clock in `DeviceTask`; of
the processor in `BootMode`; of the firmware and of pieces that are under way in
`ScannerLink`; of a steady wire in `QrReceiver`. Nobody is assumed to scan, press, answer,
corrupt or to lose power, and a decode task is assumed to end only where decodes are in
time.

### Findings

1. **The old disk is not always still valid** (`old_disk_cut_reset`,
   `qrtransfer_msc.c:3592`). A failed append reconnects the old disk; the comment
   there says it is still valid. After an interrupted history clear, the few
   surviving records are all in LOG, among them the one in the slot the append has
   just erased.
2. **A late decode frees the next pass's memory** (`late_decode`,
   `analyzer.c:2536`). The notification of a pass that timed out ends the next
   pass's wait, and `quirc_destroy` runs while that pass's task uses the object.
3. **A raw payload may be unwrapped** (`raw_payload`, `qrtransfer_msc.c:3897`). The README of
   the repository (line 128) says that the raw payload is stored whatever its encoding, and
   a comment in `app_main` that Normal mode has the protocol off and the original payload.
   But every answer is parsed for a Format 3 envelope, in either mode: a code whose content is
   such an envelope is stored without it, or rejected if it announces several barcodes or
   has a wrong CRC.

Weaknesses the code accepts; each is named by a fault, a constant or the wording of a
property, and none contradicts a statement of the repository:

* A failed erase of the RAW header leaves an old image beside a new report
  (`"firstErase"`); a failed driver install is ignored after a decode in pass 1
  (`"install"`); an unconfirmed Format 3 lets a damaged envelope be stored as a payload
  (`VerifiedIntact` speaks of verified payloads).
* A boot that cannot read NVS assumes Normal mode. A clear in such a boot leaves
  Analyzer mode in NVS, a toggle saves the mode that was already there (`readable`).
* An identity value that is too long leaves its tail on the line, and the next query
  reports an error (`OwnValue` allows errors).
* An answer to an identity query of an earlier analysis passes for the answer to the same
  query now, and if its value is lost, what follows is reported as the value. `OwnValue`
  speaks of the first analysis and of all while nothing was lost.
* An image that is so late that the next analysis begins before it has arrived is taken for
  the capture of that analysis, and the image asked for as capture for the crop: nothing
  in an image tells which request it answers. `CropWhole` speaks of analyses that began
  with no image under way (`alone`).
* Without memory to scan the ring, the LOG directory is empty until a later update
  (`AckedShown` speaks of disks that were listed, `refreshed`); no record is lost.
* A code whose content is exactly a three-byte status packet is dropped as one. The model
  gives no code that content.
* A reset of the firmware alone, while the scanner is sending an image, makes every
  ping find image bytes; the boot gives up (`PromptReady` speaks of a prompt scanner).

One comment is inaccurate and of no consequence: the layout above the geometry constants
(`qrtransfer_msc.c:122-124`) gives the FAT sectors 1..8, while FAT_SECTORS is 9; the root
directory is at 10..11 and the data at 12.

## 4. What is proved

### The history ring

Every property of the ring is proved with TLAPS, for every number of slots,
every payload set and every bound that satisfy `StoreAssumption`:

* `TypeCorrect`: `[]TypeOK`;
* `RingOrderHolds`, `VisibleIntactHolds`, `AckedDurableHolds`: the three invariants;
* `OnlyOldestErased`: the action property `AppendErasesOldest`;
* `DistinctNumbersHold`: `[]DistinctNumbers`;
* `RingImplementsHistory`: `FlashStore` refines `HistoryLog`.

The assumptions are those of the code: more than one slot, no more slots than
numbers, an erased length field that is larger than any payload length, three markers
that are not payloads.

`RingOrder` is not inductive: after the erase of its slot, an append in progress
has to know where it is. `RingInv` adds `JobInv`: the job's slot lies ahead of every
other record by exactly the distance of the sequence numbers (`JobAhead`), the job
follows the newest record or starts an empty history (`JobPlaced`), and what it has
done to its slot so far (`JobSlot`). Two lemmas carry the weight: `ScanAfterErase`
(an erase removes exactly one record from a scan) and `ScanAfterProgram` (programming
a word adds a record exactly when it is the length word). `StepRingInv` splits by
action; `RingInvariant` concludes. `StepAckedDurable` then shows that the only
record an append can remove from a scan is SlotCount - 1 sequence numbers behind the
newest one.

`DistinctNumbers` needs a second strengthening, `NumberInv`: the numbers of two
records, counted round from MaxNumber to 0, are as far apart as their sequence
numbers. It is inductive relative to `RingInv`, because the ring spans at most
SlotCount - 1 sequence numbers and MaxNumber is no smaller.

The refinement needs no further invariant. An erase of a slot that holds a record is
`ForgetOldest`, because that record is SlotCount - 1 behind the newest; the length word
of a header is `Commit`; the other words and all payload operations are stutters,
since they happen in a slot that is no record or change nothing a scan reads. A reset
is `BeginClear`, `ClearOne` per record, and `EndClear` however it ends.

### The other components

Each proof module states one inductive invariant `IInv`, which TLC has checked on the
instance of the component's run, and one case per action. Where a theorem assumes more
than the module's named assumption about its constants, its statement says so.

* `DeviceTask_proofs`: `ActionsPaidFor`, `UpdatePressIgnored`, `LightsTellState`.
  `PressesPay` counts what is spoken for -- scans, toggles, a remembered tap, an edge
  being debounced -- and says that a sample of 1 with the button down is worth one press
  more. `HeldIsOld` says why a press from an update is no edge: the guard lasts a tick at
  least, and with it a round with a fresh sample. `BeatOver` says in which states the
  heartbeat's callback may still write.
* `ImageAnalysis_proofs`: `RawWhole`, `ShownImage`, `ProbesThisScan`, `DecodeMemory`,
  `QuircReleased`, `UartReady` -- every safety property of the module, for any number of
  scans and power failures and any set of faults. `RawInv` and `BinInv` give the content
  of each area at each stage; `DecodeInv` says that, with decodes in time, the task of the
  waiting pass is running or has notified once, that a pass has its object until it returns,
  on its error paths too, and that there is no task, object or notification otherwise.
* `BootMode_proofs`: `GestureObeyed`, `EraseInNormal`, `DebugInOrder` (fields that could not
  be read and show 0 included), for any number of boots and marks. `ModeInv` relates mode and history at each place of the boot to what
  the boot found; `MarkInv` says how far a running mark has got.
* `MassStorage_proofs`: `ReadsUndisturbed` and `HostFresh`. Of the flash steps only their
  effect on `pc` is used, so both hold whatever the ring does. `FreshInv` is the argument
  for two values of `bcdDevice`: the guard does not end before the host has enumerated,
  so a host never misses two toggles. What the disk shows is the next section.
* `QrReceiver_proofs`: `TypeOK`, whose bound on the buffer is the point of it, and
  `VerifiedIntact`. Only an answer to a scan is ever wrapped in an envelope (`Good`), and
  `VerifiedAnswer` shows that an envelope that passes is one. `AcceptedFresh` needs a
  hypothesis, see below.

### What the disk shows

`MSSpec` starts from an aged ring: slots filled lap over lap by n appends.
`InitHistory` shows, with lemmas on laps and remainders (`LapOf`, `NextLap`,
`SequenceInSlot`), that it satisfies `HistoryInv`, the invariant of the ring; every step
of `MassStorage` is a step of `FlashStore` or leaves the ring alone (`StepOfRing`). So
`AckedDurable` holds of the composition (`HistoryHolds`), and:

* `LatestApartHolds`, for every ring, number of records, failure and power failure.
  `StageInv` says how far an update has got and whether its append was acknowledged,
  `LatestInv` that the record being published is the newest of all.
* `AckedShownHolds`, equally, of every disk that was listed with memory to scan the ring. The step the code takes on trust is that the newest
  `LogMax` records of a scan include every record that ought to be there. It rests on
  `Unbroken` (`UnbrokenHolds` in `FlashStore_proofs`): between an acknowledged record
  and the newest one no sequence number is missing but those a full lap has
  overtaken, because an append that fails gives its number back. `LogInv` carries it
  from the rebuilding of the metadata to the next one.
* `OldDiskKept`: `UncutDiskValid`, which says that the old disk is valid where no reset is
  cut off -- finding 1 is what happens otherwise. The theorem has one hypothesis:
  `MaxLateFailures` is at most SlotCount - LogMax - 2. The
  code does not bound the appends that fail after their length word; on the device the
  hypothesis allows 214 of them between two successful ones, and the 215th erases a
  record that the old disk still shows. `WithinReach` counts: each such
  failure brings the slot to reuse one record closer to the LOG.

### Accepted payloads

`AcceptedFreshHolds` assumes `TapOutlastsAnswer`: `TapTicks`, the least time between two
scans, is longer than a steady wire takes for the rest of an answer, (Parts - 1) *
(InterByte - 1). `StreamInv` then says which scan each piece in the ring or on the wire
belongs to, and `Lateness` that what is left of an old answer arrives before the next
scan flushes the ring. What is accepted is the payload, or what is inside an envelope that
the code itself contained. The hypothesis is needed: without it TLC finds an accepted
payload of the previous scan. The code guarantees it by a small margin only, for answers
sent without pauses: DOUBLE_TAP_MS (250 ms) and the 20 ms of the stop command against
256 ms for 2953 bytes at 115200 baud. Nothing in it bounds pauses shorter than the
inter-byte timeout, so for an answer with such pauses this is an assumption about
the scanner.

### The scanner link

The argument is about `Stream`: the pieces that have arrived, followed by those under way.
`StreamOrder` says that whatever the line does and the firmware reads, what is left of it
keeps its order; `StreamSends`, that a command adds its own reply at the end, or nothing.
All of it holds for replies that are late by any amount.

* `ReadyAgreesHolds`, always. The scanner never leaves 115200, so a piece sent at 115200,
  wherever it is, proves that the scanner is there; and a reply that is legible was sent
  at the rate the firmware uses (`BaudInv`). This is why an answer to a ping that is
  seconds late does no harm.
* `CropCoversHolds`, for every image and every finite set of corners (`ClippedCovers`).
* `FormatKnownHolds`, until the firmware restarts, whatever is late or lost: there is one
  write and one question then, and behind the head of either reply comes only its second
  piece (`FormatInv`). A restart that leaves the scanner powered can take the reply to a
  question of an earlier boot for that of this one. So after restarts, any number of them,
  the theorem assumes that few pieces are under way: MaxBacklog + 2 * MaxLost <= 10.
  Before a boot comes to the format it sends a ping and four settings. `AgedInv` counts:
  with each of these commands, what stands behind an old reply grows by two pieces, unless
  a loss takes up to two away. When the last setting is over, an old reply would have ten
  pieces behind it, and it has not (`FormatBegins`). That some bound is needed TLC
  shows with `MaxBacklog` 24 and two restarts.
* `OwnValueHolds`, as long as nothing was lost (`ValuesFollow`: behind the FID of a query
  stands its value, whatever analysis asked for it), and in the first analysis whatever
  was lost (`QueryInv`: no query before this one has its FID). In a second
  analysis one loss is enough for a wrong value, even if few pieces are under way: queries
  whose answers did not come in time leave them on the line, the second analysis takes
  the FID of an old answer for that of its own query, and if the value behind it is lost,
  what follows is read as the value.
* `CropWholeHolds`, in every analysis that began with no piece of an image left (`alone`; the
  first one always does), whatever is lost or late in it and however often the
  firmware restarted. The crop's rows are of the image asked for, not of the capture
  before it. An image has no row markers; what makes a loss noticed is that the code reads
  every row of an image, the rows below the crop as well. The invariant says so with
  `Shift`, how far a piece is from where the firmware expects it: it never shrinks along
  the stream, and a complete image has no room for one. A capture that has read all
  its rows has therefore left nothing of its image behind, and one that has not ends the
  analysis before a crop is asked for.

The run `scanner_link` satisfies the condition of `FormatKnownHolds`, with `MaxBacklog` 2 and
one loss. The run `scanner_again` has two analyses, so that neither condition of `OwnValue`
nor `alone` holds throughout.

### The volume

`VirtualDisk_proofs` proves `ReadsFile` and `ChainCovers` for every geometry, every
content of the disk (numbers of LOG files, lengths of payloads, report and text, with or
without image) and transfers of every length that satisfy the assumptions of `VirtualDisk`.
The run `fat_volume` has the device's geometry, two transfer lengths and some dozens of
contents.

The proof follows a byte from the host back to its source, and each part is a lemma:

* a request that starts inside a sector and may span several is cut into chunks of which
  exactly one holds the byte asked for (`ByteOfTransfer`);
* the host's own geometry, computed from 16-bit fields of the boot sector, is the
  device's (`BootSectorIs`, `HostGeometry`), so that the sector it asks for is the one the
  device takes for the same cluster, inside the volume (`SectorOfCluster`);
* the device finds the file of a cluster by comparing it with the regions' borders and
  dividing by the length of a LOG file (`DataSectorIn`), and the sector it builds
  has the byte of BOM, BMP header, payload or padding that belongs there
  (`ByteOfText`, `ByteOfBmp`, `DataByte`);
* a chain lies in its file's region and no two meet (`ChainIs`, `ChainsApart`), so an
  entry of the FAT is written for one file only and gives the next cluster (`FatChain`);
* two entries share a byte. What the host unpacks from two bytes is what was packed
  (`StoredIs`, `HostFatByteIs`, `HostNextIs`), also where an entry straddles two sectors;
  this needs entries of at most 12 bits. `FatTellsChains` sums up what a host finds in
  the FAT, the end marks and the free clusters included.

`VolumeInv` is the inductive invariant, checked by TLC on the instance of the run: before
the end of the chain the host's cluster is
the file's first one plus the number of whole clusters read (`Following`), and what it got
last is `ReadsFile`. `ReadsFile` alone is not inductive, since a next cluster that is
wrong shows up one transfer later.

### Only model-checked

Every safety property of a passing run is proved, as it stands or under the hypothesis
its section names; the instances satisfy these hypotheses. `AcceptedFresh`, `UncutDiskValid`
and `FormatKnown` have one; the conditions of `AckedShown`, `OwnValue` and `CropWhole` are
part of their definitions. Out of the
prover's reach and left to TLC: liveness under fairness (`Reconnects`, `AnalysisEnds`,
`ScanEnds`, `TapActs`, `BootEnds`, `PromptReady`) and ENABLED; induction over data and
RECURSIVE operators do not occur.

## 5. What is not modelled, and why

* Pixels: the thresholds of the binarizers are arithmetic without a state; an image is
  its scan's number, and a crop its geometry and the rows it took.
* The text of the JSON report and of DEBUG.TXT, entry names, dates, the volume label and
  logging: no other part reads them.
* The blinking of the LED during the boot and after a fatal error of the boot.
* ZXing and quirc: third-party code; their verdict is a choice.
* Read errors of the flash: a scan of the ring skips a header it cannot read, and a sector of
  a file that cannot be read makes `read10` fail.
* Memory: of the allocations only those whose failure changes what a later step finds are
  modelled -- the scan of the ring, the disk cache, the quirc object and the row, the crop
  and the report of an analysis.
* Sequence numbers beyond 2^32 appends, which the flash does not live to see.
* The host-side experiment in `tools/`, build files and the partition table.

## 6. Plan

1. `FlashStore`, `HistoryLog` and proofs; `MassStorage`, `ImageAnalysis`, `QrReceiver`,
   `VirtualDisk`; `DeviceTask`, `BootMode`, `ScannerLink` -- done, model-checked.
2. `ScanSession`: reception, update and analysis composed, against an abstract
   specification of a scan.
3. Proofs: done, for the safety properties of every component.
