---------------------------- MODULE MassStorage ----------------------------
(***************************************************************************)
(* The update of the virtual disk (main/qrtransfer_msc.c): the device task *)
(* that stores a QR payload and rebuilds the disk, the USB task that       *)
(* answers the host's reads from the same memory and flash, the host, and  *)
(* power failures.  Extends FlashStore: each flash step of an append is a  *)
(* step of this system too.                                                *)
(*                                                                         *)
(* The two tasks share no lock.  The device task only calls tud_disconnect *)
(* and waits USB_DISCONNECT_MS before it touches the flash or the cache.   *)
(*                                                                         *)
(* Assumptions about what src/ does not contain: a read callback that has  *)
(* begun ends within USB_DISCONNECT_MS; a host that sees the device        *)
(* enumerates it within RECONNECT_GUARD_MS, and keeps its cached view of   *)
(* the disk unless bcdDevice changed; a power cycle makes it forget.       *)
(***************************************************************************)
EXTENDS FlashStore

CONSTANTS
  LogMax,          \* LOG_MAX_ENTRIES (500)
  InitialCounts,   \* how many records the device has stored before Init
  MaxLateFailures, \* bound on lateFailures
  MaxPowerLosses   \* bound on the power failures

ASSUME StorageAssumption ==
  /\ LogMax \in Nat /\ LogMax > 0
  /\ SlotCount >= LogMax + 2
  /\ InitialCounts \subseteq 0..MaxSequence
  /\ MaxLateFailures \in Nat
  /\ MaxPowerLosses \in Nat

VARIABLES
  stage,       \* device_state, refined by the position in update_latest_from_qr
  analyzer,    \* s_mode: Analyzer mode is on
  connected,   \* tud_connect / tud_disconnect
  cache,       \* virtual_disk_cache: "none", "zeroed" or "built"
  current,     \* current_record_sequence
  latest,      \* latest_payload
  visibleLog,  \* visible_log[0 .. visible_log_count - 1]
  newRecord,   \* the sequence of new_record and the payload just received
  bcd,         \* bcdDevice: 0 before the first USB start, then 1 or 2
  disk,        \* the directory the boot, FAT, root and LOG sectors describe
  reading,     \* a read callback is in progress on the USB task
  host,        \* the host: attached, the bcdDevice and directory it knows
  refreshed,   \* visible_log is what a scan found: refresh_visible_log had memory
  lateFailures,\* appends since the last refresh of visible_log that reported
               \* an error although their header was already readable
  losses,      \* number of power failures
  cuts         \* external, for good: a history reset may fail or lose power half-way

device == <<stage, analyzer, connected, cache, current, latest, visibleLog,
            newRecord, bcd, disk>>
observed == <<refreshed, lateFailures, losses, cuts>>
msVars == <<vars, device, reading, host, observed>>

NoRecord  == [sequence |-> 0, data |-> Blank]
NoDisk    == [latest |-> Blank, log |-> {}]

-----------------------------------------------------------------------------
(* Boot: app_main, initialize_virtual_disk_from_flash.                     *)

(* boot_gesture_action: a short hold clears the history and leaves Analyzer *)
(* mode; a long one toggles the mode.                                       *)
BootClears ==
  /\ stage = "boot"
  /\ ResetBegin
  /\ stage' = "reset"
  /\ analyzer' = FALSE
  /\ UNCHANGED <<connected, cache, current, latest, visibleLog, newRecord, bcd,
                 disk, reading, host, observed>>

BootErases ==
  /\ stage = "reset"
  /\ ResetHeader \/ ResetPayload
  /\ UNCHANGED <<device, reading, host, observed>>

BootEraseFails ==
  /\ stage = "reset"
  /\ cuts
  /\ ResetFails
  /\ stage' = "fatal"
  /\ UNCHANGED <<analyzer, connected, cache, current, latest, visibleLog, newRecord,
                 bcd, disk, reading, host, observed>>

(* The mode cannot be saved, the flash, the cache, the scanner or USB       *)
(* cannot be started: fatal_error_loop.                                     *)
BootFails ==
  /\ stage = "boot" \/ (stage = "reset" /\ Idle)
  /\ stage' = "fatal"
  /\ UNCHANGED <<vars, analyzer, connected, cache, current, latest, visibleLog,
                 newRecord, bcd, disk, reading, host, observed>>

(* The list of LOG files is made anew. *)
RefreshVisibleLog(exclude) ==
  /\ visibleLog' \in GetRecent(exclude, LogMax)
  /\ refreshed' = (visibleLog' = Recent(exclude, LogMax))

(* The view after a boot: LATEST is blank, every record belongs to LOG. *)
BootBuilds ==
  /\ stage = "boot" \/ (stage = "reset" /\ Idle)
  /\ stage' = "idle"
  /\ analyzer' \in IF stage = "boot" THEN BOOLEAN ELSE {analyzer}
  /\ connected' = TRUE
  /\ cache' = "built"
  /\ current' = 0
  /\ latest' = Blank
  /\ RefreshVisibleLog(0)
  /\ bcd' = 1
  /\ disk' = [latest |-> latest', log |-> visibleLog']
  /\ UNCHANGED <<vars, newRecord, reading, host, lateFailures, losses, cuts>>

-----------------------------------------------------------------------------
(* update_latest_from_qr.                                                  *)

(* Bound: a further record still gets a sequence number. *)
RoomForAppend == \A s \in Visible : header[s].sequence < MaxSequence

(* A payload has been received: STATE_UPDATING, tud_disconnect. *)
StartUpdate ==
  /\ stage = "idle"
  /\ RoomForAppend
  /\ stage' = "disconnecting"
  /\ connected' = FALSE
  /\ host' = [host EXCEPT !.attached = FALSE]
  /\ UNCHANGED <<vars, analyzer, cache, current, latest, visibleLog, newRecord, bcd,
                 disk, reading, observed>>

BeginAppendAtOnce ==                    \* faulty: no delay after tud_disconnect
  /\ stage = "disconnecting"
  /\ \/ \E data \in Payloads : AppendBegin(data) /\ stage' = "append" /\ UNCHANGED connected
     \/ AppendRefused /\ stage' = "guard" /\ connected' = TRUE
  /\ UNCHANGED <<analyzer, cache, current, latest, visibleLog, newRecord, bcd, disk,
                 reading, host, observed>>

(* The USB_DISCONNECT_MS delay is over, and with it any read callback. *)
BeginAppend ==
  /\ stage = "disconnecting"
  /\ ~reading
  /\ \/ \E data \in Payloads : AppendBegin(data) /\ stage' = "append" /\ UNCHANGED connected
     \/ AppendRefused /\ stage' = "guard" /\ connected' = TRUE
  /\ UNCHANGED <<analyzer, cache, current, latest, visibleLog, newRecord, bcd, disk,
                 reading, host, observed>>

Appending ==
  /\ stage = "append"
  /\ EraseHeader \/ ErasePayload \/ WritePayload \/ FinishPayload \/ ProgramHeader
  /\ UNCHANGED <<device, reading, host, observed>>

AppendSucceeds ==
  /\ stage = "append"
  /\ AppendReturns
  /\ newRecord' = [sequence |-> job.sequence, data |-> job.data]
  /\ stage' = IF analyzer THEN "release" ELSE "publish"
  /\ UNCHANGED <<analyzer, connected, cache, current, latest, visibleLog, bcd, disk,
                 reading, host, observed>>

AppendGivesUpDetached ==                \* faulty: returns without tud_connect
  /\ stage = "append"
  /\ AppendFails
  /\ stage' = "guard"
  /\ UNCHANGED <<analyzer, connected, cache, current, latest, visibleLog, newRecord,
                 bcd, disk, reading, host, observed>>

(* tud_connect with the old disk: "still valid" says the comment. *)
AppendGivesUp ==
  /\ stage = "append"
  /\ AppendFails
  /\ IF pc = "writeHeader" /\ HeaderIsValid(header[job.slot])
       THEN lateFailures < MaxLateFailures /\ lateFailures' = lateFailures + 1
       ELSE UNCHANGED lateFailures
  /\ connected' = TRUE
  /\ stage' = "guard"
  /\ UNCHANGED <<analyzer, cache, current, latest, visibleLog, newRecord, bcd, disk,
                 reading, host, refreshed, losses, cuts>>

(* Analyzer mode: the cache makes room for the image decoder. *)
ReleaseCache ==
  /\ stage = "release"
  /\ cache' = "none"
  /\ stage' = "analyze"
  /\ UNCHANGED <<vars, analyzer, connected, current, latest, visibleLog, newRecord,
                 bcd, disk, reading, host, observed>>

(* analyzer_process_scan_metadata returns; its error is only logged. *)
Analyze ==
  /\ stage = "analyze"
  /\ stage' = "restore"
  /\ UNCHANGED <<vars, analyzer, connected, cache, current, latest, visibleLog,
                 newRecord, bcd, disk, reading, host, observed>>

(* allocate_virtual_disk_cache: zeroed memory, or a fatal error. *)
RestoreCache ==
  /\ stage = "restore"
  /\ \/ cache' = "zeroed" /\ stage' = "publish"
     \/ stage' = "fatal" /\ UNCHANGED cache
  /\ UNCHANGED <<vars, analyzer, connected, current, latest, visibleLog, newRecord,
                 bcd, disk, reading, host, observed>>

Toggled == IF bcd = 1 THEN 2 ELSE 1

PublishKeepingBcd ==                    \* faulty: bcdDevice does not change
  /\ stage = "publish"
  /\ current' = newRecord.sequence
  /\ latest' = newRecord.data
  /\ RefreshVisibleLog(current')
  /\ lateFailures' = 0
  /\ stage' = "rebuild"
  /\ UNCHANGED <<vars, analyzer, connected, cache, newRecord, bcd, disk, reading, host,
                 losses, cuts>>

PublishInLogToo ==                      \* faulty: the new record is not excluded
  /\ stage = "publish"
  /\ current' = newRecord.sequence
  /\ latest' = newRecord.data
  /\ RefreshVisibleLog(0)
  /\ bcd' = Toggled
  /\ lateFailures' = 0
  /\ stage' = "rebuild"
  /\ UNCHANGED <<vars, analyzer, connected, cache, newRecord, disk, reading, host, losses, cuts>>

PublishKeepingLog ==                    \* faulty: refresh_visible_log left out
  /\ stage = "publish"
  /\ current' = newRecord.sequence
  /\ latest' = newRecord.data
  /\ bcd' = Toggled
  /\ refreshed' = TRUE
  /\ lateFailures' = 0
  /\ stage' = "rebuild"
  /\ UNCHANGED <<vars, analyzer, connected, cache, visibleLog, newRecord, disk, reading,
                 host, losses, cuts>>

(* The payload becomes LATEST, the other records LOG; bcdDevice toggles. *)
Publish ==
  /\ stage = "publish"
  /\ current' = newRecord.sequence
  /\ latest' = newRecord.data
  /\ RefreshVisibleLog(current')
  /\ bcd' = Toggled
  /\ lateFailures' = 0
  /\ stage' = "rebuild"
  /\ UNCHANGED <<vars, analyzer, connected, cache, newRecord, disk, reading, host, losses, cuts>>

(* rebuild_virtual_fat_metadata *)
Rebuild ==
  /\ stage = "rebuild"
  /\ disk' = [latest |-> latest, log |-> visibleLog]
  /\ cache' = "built"
  /\ stage' = "connect"
  /\ UNCHANGED <<vars, analyzer, connected, current, latest, visibleLog, newRecord,
                 bcd, reading, host, observed>>

Connect ==
  /\ stage = "connect"
  /\ connected' = TRUE
  /\ stage' = "guard"
  /\ UNCHANGED <<vars, analyzer, cache, current, latest, visibleLog, newRecord, bcd,
                 disk, reading, host, observed>>

(* RECONNECT_GUARD_MS has passed: the host has enumerated the device. *)
GuardEnds ==
  /\ stage = "guard"
  /\ host.attached
  /\ stage' = "idle"
  /\ UNCHANGED <<vars, analyzer, connected, cache, current, latest, visibleLog,
                 newRecord, bcd, disk, reading, host, observed>>

-----------------------------------------------------------------------------
(* The USB task and the host.                                              *)

(* External: the host's view is refreshed when bcdDevice has changed. *)
HostEnumerates ==
  /\ connected /\ ~host.attached
  /\ host' = [attached |-> TRUE, bcd |-> bcd,
              disk |-> IF host.bcd = bcd THEN host.disk ELSE disk]
  /\ UNCHANGED <<vars, device, reading, observed>>

(* tud_msc_read10_cb: it may sleep, or be preempted, until it returns. *)
ReadBegins ==
  /\ host.attached
  /\ ~reading
  /\ reading' = TRUE
  /\ UNCHANGED <<vars, device, host, observed>>

ReadEnds ==
  /\ reading
  /\ reading' = FALSE
  /\ UNCHANGED <<vars, device, host, observed>>

-----------------------------------------------------------------------------
LosePower ==
  /\ losses < MaxPowerLosses
  /\ stage # "reset" \/ cuts
  /\ PowerLoss
  /\ losses' = losses + 1
  /\ lateFailures' = 0
  /\ stage' = "boot"
  /\ connected' = FALSE
  /\ cache' = "none"
  /\ current' = 0
  /\ latest' = Blank
  /\ visibleLog' = {}
  /\ refreshed' = TRUE
  /\ newRecord' = NoRecord
  /\ bcd' = 0
  /\ disk' = NoDisk
  /\ reading' = FALSE
  /\ host' = [attached |-> FALSE, bcd |-> 0, disk |-> NoDisk]
  /\ UNCHANGED <<analyzer, cuts>>

(* The ring after n successful appends. *)
SequenceIn(s, n) ==
  CHOOSE q \in 0..n : /\ q = 0 \/ (q - 1) % SlotCount = s
                      /\ \A r \in 1..n : (r - 1) % SlotCount = s => r <= q

AgedHeader(s, n, data) ==
  LET q == SequenceIn(s, n) IN
  IF q = 0 THEN ErasedHeader
  ELSE [words |-> CrcWord, sequence |-> q, number |-> q % (MaxNumber + 1),
        length |-> PayloadLength[data], crc |-> data]

MSInit ==
  /\ \E n \in InitialCounts, data \in Payloads :
       /\ header = [s \in Slots |-> AgedHeader(s, n, data)]
       /\ payload = [s \in Slots |->
            IF SequenceIn(s, n) = 0 \/ PayloadLength[data] = 0 THEN Blank ELSE data]
       /\ acked = {[sequence |-> q, number |-> q % (MaxNumber + 1), data |-> data] :
                     q \in 1..n}
  /\ pc = "idle" /\ job = NoJob /\ result = "none"
  /\ stage = "boot"
  /\ analyzer \in BOOLEAN
  /\ connected = FALSE
  /\ cache = "none"
  /\ current = 0
  /\ latest = Blank
  /\ visibleLog = {}
  /\ refreshed = TRUE
  /\ newRecord = NoRecord
  /\ bcd = 0
  /\ disk = NoDisk
  /\ reading = FALSE
  /\ host = [attached |-> FALSE, bcd |-> 0, disk |-> NoDisk]
  /\ lateFailures = 0
  /\ losses = 0
  /\ cuts \in BOOLEAN

DeviceStep ==
  \/ BootErases \/ BootBuilds \/ BootFails
  \/ BeginAppend \/ Appending \/ AppendSucceeds
  \/ ReleaseCache \/ Analyze \/ RestoreCache
  \/ Publish \/ Rebuild \/ Connect \/ GuardEnds

MSNext ==
  \/ DeviceStep
  \/ BootClears \/ BootEraseFails
  \/ StartUpdate \/ AppendGivesUp
  \/ HostEnumerates \/ ReadBegins \/ ReadEnds
  \/ LosePower

(* The device task is never starved, callbacks end, the host enumerates.  *)
(* Nobody has to scan, to hold the button or to lose power.               *)
Fairness ==
  /\ WF_msVars(DeviceStep)
  /\ WF_msVars(HostEnumerates)
  /\ WF_msVars(ReadEnds)

MSSpec == MSInit /\ [][MSNext]_msVars /\ Fairness

-----------------------------------------------------------------------------
(* Properties.                                                             *)

(* Every LOG file of a connected disk can be read, also when an append has *)
(* just failed and the old disk was reconnected: "The old virtual disk is  *)
(* still valid because metadata was rebuilt only after a successful Flash  *)
(* commit" (update_latest_from_qr).                                        *)
OldDiskValid == connected => \A i \in visibleLog : Verified(i)

(* It is if no reset was cut off and left gaps, and if at most             *)
(* MaxLateFailures appends since the LOG was listed had written a readable *)
(* header before they failed.                                              *)
UncutDiskValid == ~cuts => OldDiskValid

(* No read callback overlaps an append, the release of the cache or the    *)
(* rebuilding of the metadata: what keeps two tasks without a lock apart   *)
(* is the disconnect and the delay after it.                               *)
ReadsUndisturbed ==
  reading =>
    Idle /\ cache = "built" /\ disk = [latest |-> latest, log |-> visibleLog]

(* A host that caches the directory until bcdDevice changes sees the       *)
(* directory the device serves.                                            *)
HostFresh == host.attached => host.disk = disk

(* LATEST is the newest acknowledged payload of this session and is not a  *)
(* LOG file as well.                                                       *)
LatestApart ==
  connected /\ current # 0 =>
    /\ \A i \in visibleLog : i.sequence # current
    /\ \E r \in acked : r.sequence = current /\ r.data = latest
    /\ \A r \in acked : r.sequence <= current

(* Whatever else fails or loses power, a connected disk shows every        *)
(* acknowledged record, in LATEST or in LOG, unless LogMax newer records   *)
(* have pushed it out -- or unless refresh_visible_log had no memory to    *)
(* scan the ring: the LOG is empty then, until a later update lists it.    *)
AckedShown ==
  connected /\ refreshed =>
    \A r \in acked :
      \/ r.sequence = current
      \/ \E i \in visibleLog : i.sequence = r.sequence /\ ReadRange(i.slot) = r.data
      \/ Cardinality({s \in Visible : /\ header[s].sequence > r.sequence
                                     /\ header[s].sequence # current}) >= LogMax

(* The device does not stay detached, unless it stops in fatal_error_loop. *)
Reconnects == ~connected ~> (connected \/ stage = "fatal")
=============================================================================
