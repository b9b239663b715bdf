----------------------------- MODULE VirtualDisk -----------------------------
(***************************************************************************)
(* The FAT12 volume QRTransfer synthesizes (main/qrtransfer_msc.c): a boot *)
(* sector, a FAT, a root and a LOG directory built by                      *)
(* rebuild_virtual_fat_metadata, and a data area that exists only as the   *)
(* arithmetic of virtual_disk_read_sector.  The two must agree: a host     *)
(* that mounts the volume and follows a chain must get the file's bytes.   *)
(*                                                                         *)
(* The host is external: a FAT12 driver that takes the geometry from the   *)
(* boot sector and reads a cluster in transfers of one length, which       *)
(* TinyUSB's buffer decides.  Bytes are abstracted to their origin: a      *)
(* sector is a set of extents "`amount` bytes of source `of`, from offset  *)
(* `from`, placed at `at`"; all other bytes are zero.                      *)
(* What the disk shows does not change while it is read (see MassStorage). *)
(***************************************************************************)
EXTENDS Integers, FiniteSets

CONSTANTS
  SectorSize, SectorsPerCluster, ReservedSectors, FatSectors,
  RootEntryCount, RootSectors,
  LogMax,            \* LOG_MAX_ENTRIES
  LogDirClusters,    \* LOG_DIR_CLUSTER_COUNT
  FileClusters,      \* FILE_CLUSTER_COUNT: clusters of a LATEST or LOG file
  AnalysisClusters,  \* ANALYSIS_CLUSTER_COUNT
  RawClusters,       \* RAW_CLUSTER_COUNT
  DebugClusters,     \* DEBUG_CLUSTER_COUNT
  BomSize,           \* UTF8_BOM_SIZE
  BmpHeaderSize,     \* RAW_BMP_HEADER_SIZE
  RawBytes,          \* FLASH_STORE_RAW_BYTES
  Transfers,         \* the lengths a transfer may have
  Views              \* what the device may have to show

ClusterSize == SectorSize * SectorsPerCluster
DirEntrySize == 32

VARIABLES
  view,     \* latest_payload_length, the lengths in visible_log, mode, reports
  file,     \* the file the host is reading
  entry,    \* its directory entry
  pos,      \* the position of the next byte to read
  cluster,  \* the cluster it is in, according to the FAT
  transfer, \* the length of a transfer, in bytes
  got,      \* the chunks of the transfer read last
  read      \* its length

vars == <<view, file, entry, pos, cluster, transfer, got, read>>

Least(a, b) == IF a < b THEN a ELSE b
Larger(a, b) == IF a > b THEN a ELSE b
CeilDiv(a, b) == (a + b - 1) \div b

-----------------------------------------------------------------------------
(* Geometry.                                                                *)

FatStart  == ReservedSectors
RootStart == FatStart + FatSectors
DataStart == RootStart + RootSectors

LogDirFirst   == 2
LatestFirst   == LogDirFirst + LogDirClusters
HistoryFirst  == LatestFirst + FileClusters
AnalysisFirst == HistoryFirst + LogMax * FileClusters
RawFirst      == AnalysisFirst + AnalysisClusters
DebugFirst    == RawFirst + RawClusters

DataClusters == LogDirClusters + FileClusters + LogMax * FileClusters
                + AnalysisClusters + RawClusters + DebugClusters
TotalSectors == DataStart + DataClusters * SectorsPerCluster

ASSUME GeometryAssumption ==
  /\ \A n \in {SectorSize, SectorsPerCluster, ReservedSectors, FatSectors,
               RootEntryCount, RootSectors, LogMax, LogDirClusters, FileClusters,
               AnalysisClusters, RawClusters, DebugClusters} : n \in Nat \ {0}
  /\ BomSize \in Nat /\ BmpHeaderSize \in Nat /\ RawBytes \in Nat
  /\ Transfers \subseteq Nat \ {0}
  /\ RootEntryCount * DirEntrySize = RootSectors * SectorSize

(* The boot sector's 16-bit fields and the FAT's 12-bit entries suffice,   *)
(* fat_table has room for every cluster, and RAW_CLUSTER_COUNT is rounded  *)
(* up from the size of LATEST.BMP.                                         *)
ASSUME VolumeAssumption ==
  /\ \A n \in {SectorSize, ReservedSectors, FatSectors, RootEntryCount, TotalSectors} :
       n < 65536
  /\ LET lastCluster == DataClusters + 1 IN
       /\ lastCluster < 4095
       /\ lastCluster + lastCluster \div 2 + 1 < FatSectors * SectorSize
  /\ BmpHeaderSize + RawBytes <= RawClusters * ClusterSize

(* What there may be to show: LOG_MAX_ENTRIES files, payloads of           *)
(* MAX_QR_BYTES, a report of ANALYZER_JSON_MAX and a text of               *)
(* DEBUG_TEXT_MAX, each no longer than the clusters set aside for it.      *)
ASSUME ViewsAssumption ==
  \A v \in Views :
    /\ {v.analyzer, v.raw} \subseteq BOOLEAN
    /\ \E n \in 0..LogMax : DOMAIN v.log = 0..(n - 1)
    /\ \A length \in {v.latest} \cup {v.log[i] : i \in DOMAIN v.log} :
         length \in Nat /\ BomSize + length <= FileClusters * ClusterSize
    /\ v.json \in 0..(AnalysisClusters * ClusterSize)
    /\ v.debug \in 0..(DebugClusters * ClusterSize)

-----------------------------------------------------------------------------
(* Files.                                                                   *)

LogDir   == <<"LOG", -1>>
LogFile(i) == <<"LOG", i>>
Latest   == <<"LATEST.TXT", 0>>
QrInfo   == <<"QRINFO.TXT", 0>>
Bmp      == <<"LATEST.BMP", 0>>
Debug    == <<"DEBUG.TXT", 0>>
NoFile   == <<"", 0>>

(* Other sources of bytes. *)
BootSector    == <<"boot sector", 0>>
FatTable      == <<"fat_table", 0>>
RootDirectory == <<"root directory", 0>>
Bom           == <<"bom", 0>>
BmpHeader     == <<"bmp header", 0>>
RawPixels     == <<"raw pixels", 0>>

LogCount == Cardinality(DOMAIN view.log)       \* visible_log_count
LogFiles == {LogFile(i) : i \in DOMAIN view.log}

ShowsQrInfo == view.analyzer /\ view.json > 0
ShowsBmp    == ShowsQrInfo /\ view.raw
ShowsDebug  == view.analyzer /\ view.debug > 0

RootFiles ==
  {LogDir, Latest} \cup {f \in {QrInfo} : ShowsQrInfo}
    \cup {f \in {Bmp} : ShowsBmp} \cup {f \in {Debug} : ShowsDebug}

HistoryFirstCluster(i) == HistoryFirst + i * FileClusters

FirstCluster(f) ==
  CASE f = LogDir -> LogDirFirst
    [] f = Latest -> LatestFirst
    [] f = QrInfo -> AnalysisFirst
    [] f = Bmp    -> RawFirst
    [] f = Debug  -> DebugFirst
    [] OTHER      -> HistoryFirstCluster(f[2])

(* make_entry: the size a directory entry gives; a directory has none. *)
FileSize(f) ==
  CASE f = LogDir -> 0
    [] f = Latest -> BomSize + view.latest
    [] f = QrInfo -> view.json
    [] f = Bmp    -> BmpHeaderSize + RawBytes
    [] f = Debug  -> view.debug
    [] OTHER      -> BomSize + view.log[f[2]]

DirectoryEntry(f) == [first |-> FirstCluster(f), size |-> FileSize(f)]

-----------------------------------------------------------------------------
(* The FAT.                                                                 *)

RequiredWithoutBom(length) ==                 \* faulty: the BOM is not counted
  Least(Larger(CeilDiv(length, ClusterSize), 1), FileClusters)

RequiredFileClusters(length) ==
  Least(Larger(CeilDiv(BomSize + length, ClusterSize), 1), FileClusters)

(* The length of the chain built for a file. *)
ChainLength(f) ==
  CASE f = LogDir -> LogDirClusters
    [] f = Latest -> RequiredFileClusters(view.latest)
    [] f = QrInfo -> AnalysisClusters
    [] f = Bmp    -> RawClusters
    [] f = Debug  -> DebugClusters
    [] OTHER      -> RequiredFileClusters(view.log[f[2]])

EndOfChain == 4095

(* The value fat12_set was last given for a cluster; chains are disjoint. *)
FatEntry(c) ==
  LET holding == {f \in RootFiles \cup LogFiles :
                    c >= FirstCluster(f) /\ c < FirstCluster(f) + ChainLength(f)}
  IN IF c = 0 THEN 4088
     ELSE IF c = 1 THEN EndOfChain
     ELSE IF holding = {} THEN 0
     ELSE LET f == CHOOSE g \in holding : TRUE
          IN IF c = FirstCluster(f) + ChainLength(f) - 1 THEN EndOfChain ELSE c + 1

(* fat12_set ignores an entry that does not fit into the table. *)
Stored(c) == IF c + c \div 2 + 1 < FatSectors * SectorSize THEN FatEntry(c) ELSE 0

(* Byte o of fat_table: two 12-bit entries share every three bytes. *)
FatByte(o) ==
  LET k == o \div 3 IN
  IF o % 3 = 0 THEN Stored(2 * k) % 256
  ELSE IF o % 3 = 1 THEN Stored(2 * k) \div 256 + 16 * (Stored(2 * k + 1) % 16)
  ELSE Stored(2 * k + 1) \div 16

-----------------------------------------------------------------------------
(* virtual_disk_read_sector.                                                *)

Extent(of, from, at, amount) == [of |-> of, from |-> from, at |-> at, amount |-> amount]

(* A slice of a table kept in memory, or of a text of the given length. *)
Slice(of, offset, length) ==
  IF offset < length
    THEN {Extent(of, offset, 0, Least(SectorSize, length - offset))} ELSE {}

(* read_latest_file_range, read_history_file_range: BOM, then the payload. *)
TextFile(of, offset, length) ==
  LET valid == Least(SectorSize, BomSize + length - offset)
      bom   == IF offset < BomSize THEN Least(valid, BomSize - offset) ELSE 0
  IN IF offset >= BomSize + length THEN {}
     ELSE {x \in {Extent(Bom, offset, 0, bom),
                  Extent(of, offset + bom - BomSize, bom, valid - bom)} : x.amount > 0}

(* The BMP header, the sector it shares with the first pixels, the pixels. *)
BmpSector(offset) ==
  LET head == Least(SectorSize, BmpHeaderSize - offset) IN
  IF offset < BmpHeaderSize
    THEN {x \in {Extent(BmpHeader, offset, 0, head),
                 Extent(RawPixels, 0, head, Least(SectorSize - head, RawBytes))} : x.amount > 0}
    ELSE Slice(RawPixels, offset - BmpHeaderSize, RawBytes)

(* The data area, by the cluster's region. *)
DataSector(c, offsetInCluster) ==
  LET OffsetFrom(first) == (c - first) * ClusterSize + offsetInCluster
      relative == c - HistoryFirst
      index    == relative \div FileClusters
      InRegion(first, count) == c >= first /\ c < first + count
  IN CASE InRegion(LogDirFirst, LogDirClusters) ->
            Slice(LogDir, OffsetFrom(LogDirFirst), LogDirClusters * ClusterSize)
       [] InRegion(LatestFirst, FileClusters) ->
            TextFile(Latest, OffsetFrom(LatestFirst), view.latest)
       [] InRegion(HistoryFirst, LogMax * FileClusters) ->
            IF index >= LogCount THEN {}
            ELSE TextFile(LogFile(index),
                   (relative % FileClusters) * ClusterSize + offsetInCluster, view.log[index])
       [] ShowsQrInfo /\ InRegion(AnalysisFirst, AnalysisClusters) ->
            Slice(QrInfo, OffsetFrom(AnalysisFirst), view.json)
       [] ShowsDebug /\ InRegion(DebugFirst, DebugClusters) ->
            Slice(Debug, OffsetFrom(DebugFirst), view.debug)
       [] ShowsBmp /\ InRegion(RawFirst, RawClusters) -> BmpSector(OffsetFrom(RawFirst))
       [] OTHER -> {}

(* ESP_ERR_INVALID_ARG: the host gets an error instead of bytes. *)
Refused == {Extent(<<"refused", 0>>, 0, 0, SectorSize)}

ReadSector(lba) ==
  IF lba = 0 THEN Slice(BootSector, 0, SectorSize)
  ELSE IF lba >= FatStart /\ lba < FatStart + FatSectors
    THEN Slice(FatTable, (lba - FatStart) * SectorSize, FatSectors * SectorSize)
  ELSE IF lba >= RootStart /\ lba < RootStart + RootSectors
    THEN Slice(RootDirectory, (lba - RootStart) * SectorSize, RootSectors * SectorSize)
  ELSE IF lba >= TotalSectors THEN Refused
  ELSE LET dataSector == lba - DataStart IN
       DataSector(2 + dataSector \div SectorsPerCluster,
                  (dataSector % SectorsPerCluster) * SectorSize)

(* The origin of byte i of a sector. *)
Zero == <<NoFile, 0>>
ByteOf(sector, i) ==
  IF \E x \in sector : i >= x.at /\ i < x.at + x.amount
    THEN LET x == CHOOSE y \in sector : i >= y.at /\ i < y.at + y.amount
         IN <<x.of, x.from + i - x.at>>
    ELSE Zero

(* virtual_disk_read: a request that begins inside a sector or crosses     *)
(* sectors is put together of chunks; `amount` bytes of a sector, from     *)
(* byte `inside`, go to byte `at` of the buffer.                           *)
Chunk(lba, inside, at, count) ==
  [sector |-> ReadSector(lba), inside |-> inside, at |-> at, amount |-> count]

ChunksAtOffset(lba, offset, size) ==          \* faulty: offset in every sector
  {Chunk(lba + k, offset, Larger(k * SectorSize - offset, 0),
     Least(SectorSize, offset + size - k * SectorSize) - (IF k = 0 THEN offset ELSE 0)) :
   k \in 0..(offset + size - 1) \div SectorSize}

(* Only the first chunk may begin inside its sector.                       *)
Chunks(lba, offset, size) ==
  {Chunk(lba + k, IF k = 0 THEN offset ELSE 0, Larger(k * SectorSize - offset, 0),
     Least(SectorSize, offset + size - k * SectorSize) - (IF k = 0 THEN offset ELSE 0)) :
   k \in 0..(offset + size - 1) \div SectorSize}

Read10(lba, offset, size) ==
  IF \/ lba >= TotalSectors \/ offset >= SectorSize
     \/ lba * SectorSize + offset + size > TotalSectors * SectorSize
    THEN {[sector |-> Refused, inside |-> 0, at |-> 0, amount |-> size]}
    ELSE Chunks(lba, offset, size)

(* The origin of byte i of a transfer. *)
ByteRead(chunks, i) ==
  LET c == CHOOSE d \in chunks : i >= d.at /\ i < d.at + d.amount
  IN ByteOf(c.sector, c.inside + i - c.at)

-----------------------------------------------------------------------------
put16(value) == value % 65536

(* The boot sector's parameters.                                            *)
Bpb == [bytesPerSector |-> put16(SectorSize), sectorsPerCluster |-> SectorsPerCluster,
        reserved |-> put16(ReservedSectors), fats |-> 1,
        rootEntries |-> put16(RootEntryCount), totalSectors |-> put16(TotalSectors),
        fatSize |-> put16(FatSectors)]

(* tud_msc_capacity_cb: what READ CAPACITY tells the host.                  *)
Capacity == [blocks |-> TotalSectors, blockSize |-> SectorSize]

(* External: the host's arithmetic. *)
HostFatStart  == Bpb.reserved
HostRootStart == HostFatStart + Bpb.fats * Bpb.fatSize
HostDataStart == HostRootStart + (Bpb.rootEntries * DirEntrySize) \div Bpb.bytesPerSector
HostClusters  == (Bpb.totalSectors - HostDataStart) \div Bpb.sectorsPerCluster
HostSector(c, i) == HostDataStart + (c - 2) * Bpb.sectorsPerCluster + i

(* A byte of the FAT, through the sector it is in. *)
HostFatByte(o) ==
  LET b == ByteRead(Read10(HostFatStart + o \div Bpb.bytesPerSector, 0, Bpb.bytesPerSector),
                    o % Bpb.bytesPerSector)
  IN IF b[1] = FatTable THEN FatByte(b[2]) ELSE 0

HostNext(c) ==
  LET o == c + c \div 2 IN
  IF c % 2 = 0 THEN HostFatByte(o) + 256 * (HostFatByte(o + 1) % 16)
  ELSE HostFatByte(o) \div 16 + 16 * HostFatByte(o + 1)

(* The bytes the host means to read: a directory is as long as its chain.   *)
Length(f, e) == IF f = LogDir THEN LogDirClusters * ClusterSize ELSE e.size

Init ==
  /\ view \in Views
  /\ file = NoFile
  /\ entry = [first |-> 0, size |-> 0]
  /\ pos = 0 /\ cluster = 0 /\ transfer = 0 /\ got = {} /\ read = 0

(* External: open a file found in the root or LOG directory. *)
Open(f) ==
  /\ file = NoFile
  /\ file' = f
  /\ entry' = DirectoryEntry(f)
  /\ pos' = 0
  /\ cluster' = entry'.first
  /\ transfer' \in Transfers
  /\ UNCHANGED <<view, got, read>>

(* External: read on in the cluster, then follow the file's chain.         *)
ReadNext ==
  LET inCluster == pos % ClusterSize IN
  /\ file # NoFile
  /\ pos < Length(file, entry)
  /\ read' = Least(transfer, ClusterSize - inCluster)
  /\ got' = Read10(HostSector(cluster, inCluster \div Bpb.bytesPerSector),
                   inCluster % Bpb.bytesPerSector, read')
  /\ pos' = pos + read'
  /\ cluster' = IF inCluster + read' = ClusterSize THEN HostNext(cluster) ELSE cluster
  /\ UNCHANGED <<view, file, entry, transfer>>

Close ==
  /\ file # NoFile
  /\ pos >= Length(file, entry)
  /\ file' = NoFile
  /\ entry' = [first |-> 0, size |-> 0]
  /\ pos' = 0 /\ cluster' = 0 /\ transfer' = 0 /\ got' = {} /\ read' = 0
  /\ UNCHANGED view

Next ==
  \/ \E f \in RootFiles \cup LogFiles : Open(f)
  \/ ReadNext
  \/ Close

Spec == Init /\ [][Next]_vars

-----------------------------------------------------------------------------
(* Properties.                                                             *)

(* Where byte k of a file comes from: the reference for the arithmetic.    *)
FileByte(f, k) ==
  IF k >= Length(f, entry) THEN Zero
  ELSE IF f = LogDir THEN <<LogDir, k>>
  ELSE IF f = Bmp THEN IF k < BmpHeaderSize THEN <<BmpHeader, k>>
                       ELSE <<RawPixels, k - BmpHeaderSize>>
  ELSE IF f = QrInfo THEN <<QrInfo, k>>
  ELSE IF f = Debug THEN <<Debug, k>>
  ELSE IF k < BomSize THEN <<Bom, k>>
  ELSE <<f, k - BomSize>>

(* Following the FAT from a file's directory entry delivers the bytes of   *)
(* that file, in order, and zeros after its end, in transfers of any       *)
(* length.                                                                 *)
ReadsFile ==
  pos > 0 =>
    \A i \in 0..(read - 1) : ByteRead(got, i) = FileByte(file, pos - read + i)

(* A chain is as long as its file: before the last byte the host is never  *)
(* led to a free cluster, the end mark, a cluster beyond the volume that   *)
(* the boot sector describes, or a sector beyond the capacity that USB     *)
(* reports.                                                                *)
ChainCovers ==
  file # NoFile /\ pos < Length(file, entry) =>
    /\ cluster \in 2..(HostClusters + 1)
    /\ HostSector(cluster, Bpb.sectorsPerCluster - 1) < Capacity.blocks
    /\ Bpb.bytesPerSector = Capacity.blockSize
=============================================================================
