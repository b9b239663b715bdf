------------------------- MODULE VirtualDisk_proofs -------------------------
(***************************************************************************)
(* Machine-checked theorems about the synthesized volume: for every        *)
(* geometry that satisfies the assumptions of VirtualDisk, everything the  *)
(* device may have to show and transfers of every length, a host that      *)
(* follows the FAT from a directory entry gets the file.                   *)
(*                                                                         *)
(* The lemmas follow a byte from the host to the source: the arithmetic of *)
(* clusters, sectors and bytes; the chunks of a transfer; the sectors of   *)
(* the data area; the entries of the FAT and their 12-bit packing.         *)
(***************************************************************************)
EXTENDS VirtualDisk, FiniteSetTheorems, TLAPS

-----------------------------------------------------------------------------
(* Arithmetic.                                                             *)

LEMMA Divided ==
  ASSUME NEW a \in Nat, NEW b \in Nat, b > 0
  PROVE  a \div b \in Nat /\ a % b \in 0..(b - 1) /\ a = b * (a \div b) + (a % b)
OBVIOUS

LEMMA Multiples ==
  ASSUME NEW b \in Nat, b > 0, NEW k \in Int
  PROVE  /\ b * k \in Int
         /\ k >= 0 => b * k >= 0
         /\ k >= 1 => b * k >= b
         /\ k <= -1 => b * k <= -b
         /\ k = 0 => b * k = 0
         /\ k = 1 => b * k = b
OBVIOUS

(* Division with remainder has one result. *)
LEMMA Unique ==
  ASSUME NEW b \in Nat, b > 0, NEW k \in Int, NEW m \in Int,
         NEW r \in 0..(b - 1), NEW t \in 0..(b - 1), b * k + r = b * m + t
  PROVE  k = m /\ r = t
<1>1. b * (k - m) = t - r /\ k - m \in Int
  OBVIOUS
<1>2. k - m = 0
  BY <1>1, Multiples
<1> QED BY <1>1, <1>2

LEMMA Quotient ==
  ASSUME NEW b \in Nat, b > 0, NEW k \in Nat, NEW r \in 0..(b - 1)
  PROVE  (b * k + r) \div b = k /\ (b * k + r) % b = r
<1> DEFINE a == b * k + r
<1>1. a \in Nat
  BY Multiples
<1>2. a \div b \in Nat /\ a % b \in 0..(b - 1) /\ a = b * (a \div b) + (a % b)
  <2> HIDE DEF a
  <2> QED BY <1>1, Divided
<1>3. b * k + r = b * (a \div b) + (a % b)
  BY <1>2
<1>4. a \div b = k /\ a % b = r
  <2> DEFINE q == a \div b
             t == a % b
  <2>1. q \in Int /\ t \in 0..(b - 1) /\ b * k + r = b * q + t
    BY <1>2, <1>3
  <2> HIDE DEF q, t
  <2>2. q = k /\ t = r
    BY <2>1, Unique
  <2> QED BY <2>2 DEF q, t
<1> QED BY <1>4

LEMMA Monotone ==
  ASSUME NEW b \in Nat, b > 0, NEW k \in Int, NEW m \in Int
  PROVE  (b * k <= b * m) <=> (k <= m)
<1>1. b * (m - k) = b * m - b * k /\ m - k \in Int /\ b * m \in Int /\ b * k \in Int
  BY Multiples
<1>2. CASE k <= m
  BY <1>1, <1>2, Multiples
<1>3. CASE k > m
  <2>1. b * (m - k) <= -b
    BY <1>1, <1>3, Multiples
  <2> QED BY <1>1, <1>3, <2>1
<1> QED BY <1>2, <1>3

LEMMA CeilDivBounds ==
  ASSUME NEW a \in Nat, NEW b \in Nat, b > 0
  PROVE  CeilDiv(a, b) \in Nat /\ a <= b * CeilDiv(a, b)
<1>1. a + b - 1 \in Nat
  OBVIOUS
<1> DEFINE n == a + b - 1
<1> HIDE DEF n
<1>2. n \div b \in Nat /\ n % b \in 0..(b - 1) /\ n = b * (n \div b) + (n % b)
  BY <1>1, Divided DEF n
<1>3. b * (n \div b) \in Int
  BY <1>2, Multiples
<1>4. a <= b * (n \div b)
  BY <1>2, <1>3 DEF n
<1> QED BY <1>2, <1>4 DEF CeilDiv, n

(* A cluster is a number of whole sectors. *)
LEMMA ClusterSizeIs ==
  /\ SectorSize \in Nat /\ SectorSize > 0
  /\ SectorsPerCluster \in Nat /\ SectorsPerCluster > 0
  /\ ClusterSize \in Nat /\ ClusterSize > 0
  /\ ClusterSize = SectorSize * SectorsPerCluster
<1>1. /\ SectorSize \in Nat /\ SectorSize > 0
      /\ SectorsPerCluster \in Nat /\ SectorsPerCluster > 0
  BY GeometryAssumption
<1>2. SectorSize * SectorsPerCluster >= SectorSize
  BY <1>1, Multiples
<1> QED BY <1>1, <1>2 DEF ClusterSize

(* Byte r + i of a cluster is in the sector that is as many sectors behind *)
(* that of byte r as byte r % SectorSize + i is behind its start.          *)
LEMMA InCluster ==
  ASSUME NEW r \in Nat, NEW i \in Nat, r + i < ClusterSize
  PROVE  LET s == r \div SectorSize
             o == r % SectorSize
             t == (o + i) \div SectorSize
             j == (o + i) % SectorSize
         IN /\ s \in 0..(SectorsPerCluster - 1) /\ o \in 0..(SectorSize - 1)
            /\ r = SectorSize * s + o
            /\ t \in Nat /\ j \in 0..(SectorSize - 1)
            /\ s + t \in 0..(SectorsPerCluster - 1)
            /\ r + i = SectorSize * (s + t) + j
<1> DEFINE s == r \div SectorSize
           o == r % SectorSize
           t == (o + i) \div SectorSize
           j == (o + i) % SectorSize
<1>1. s \in Nat /\ o \in 0..(SectorSize - 1) /\ r = SectorSize * s + o
  BY ClusterSizeIs, Divided
<1>2. o + i \in Nat
  BY <1>1, ClusterSizeIs
<1>3. t \in Nat /\ j \in 0..(SectorSize - 1) /\ o + i = SectorSize * t + j
  <2> HIDE DEF o
  <2> QED BY <1>2, ClusterSizeIs, Divided
<1> HIDE DEF s, o, t, j
<1>4. r + i = SectorSize * (s + t) + j
  <2>1. SectorSize * (s + t) = SectorSize * s + SectorSize * t
    BY <1>1, <1>3, ClusterSizeIs
  <2>2. SectorSize * s \in Int /\ SectorSize * t \in Int
    BY <1>1, <1>3, ClusterSizeIs, Multiples
  <2> QED BY <1>1, <1>3, <2>1, <2>2, ClusterSizeIs
<1>5. s + t <= SectorsPerCluster - 1
  <2>1. SUFFICES ASSUME s + t >= SectorsPerCluster PROVE FALSE
    BY <1>1, <1>3, ClusterSizeIs
  <2>2. SectorSize * SectorsPerCluster <= SectorSize * (s + t)
    BY <1>1, <1>3, <2>1, ClusterSizeIs, Monotone
  <2>3. SectorSize * (s + t) \in Int
    BY <1>1, <1>3, ClusterSizeIs, Multiples
  <2> QED BY <1>3, <1>4, <2>2, <2>3, ClusterSizeIs
<1>6. s \in 0..(SectorsPerCluster - 1) /\ s + t \in 0..(SectorsPerCluster - 1)
  BY <1>1, <1>3, <1>5, ClusterSizeIs
<1> QED BY <1>1, <1>3, <1>4, <1>6 DEF s, o, t, j

-----------------------------------------------------------------------------
(* A transfer.                                                             *)

(* The sectors of the volume and the clusters of its regions. *)
LEMMA GeometryIs ==
  /\ ReservedSectors \in Nat /\ ReservedSectors > 0
  /\ FatSectors \in Nat /\ FatSectors > 0
  /\ RootSectors \in Nat /\ RootSectors > 0
  /\ RootEntryCount \in Nat /\ RootEntryCount > 0
  /\ LogMax \in Nat /\ LogMax > 0
  /\ LogDirClusters \in Nat /\ LogDirClusters > 0
  /\ FileClusters \in Nat /\ FileClusters > 0
  /\ AnalysisClusters \in Nat /\ AnalysisClusters > 0
  /\ RawClusters \in Nat /\ RawClusters > 0
  /\ DebugClusters \in Nat /\ DebugClusters > 0
  /\ BomSize \in Nat /\ BmpHeaderSize \in Nat /\ RawBytes \in Nat
  /\ LogMax * FileClusters \in Nat
  /\ DataClusters \in Nat /\ DataClusters * SectorsPerCluster \in Nat
  /\ DataStart \in Nat /\ TotalSectors \in Nat
  /\ TotalSectors = DataStart + SectorsPerCluster * DataClusters
<1>1. /\ ReservedSectors \in Nat /\ ReservedSectors > 0
      /\ FatSectors \in Nat /\ FatSectors > 0
      /\ RootSectors \in Nat /\ RootSectors > 0
      /\ RootEntryCount \in Nat /\ RootEntryCount > 0
      /\ LogMax \in Nat /\ LogMax > 0
      /\ LogDirClusters \in Nat /\ LogDirClusters > 0
      /\ FileClusters \in Nat /\ FileClusters > 0
      /\ AnalysisClusters \in Nat /\ AnalysisClusters > 0
      /\ RawClusters \in Nat /\ RawClusters > 0
      /\ DebugClusters \in Nat /\ DebugClusters > 0
  <2>1. /\ ReservedSectors \in Nat \ {0}
        /\ FatSectors \in Nat \ {0}
        /\ RootSectors \in Nat \ {0}
        /\ RootEntryCount \in Nat \ {0}
        /\ LogMax \in Nat \ {0}
        /\ LogDirClusters \in Nat \ {0}
        /\ FileClusters \in Nat \ {0}
        /\ AnalysisClusters \in Nat \ {0}
        /\ RawClusters \in Nat \ {0}
        /\ DebugClusters \in Nat \ {0}
    BY GeometryAssumption, Zenon
  <2> QED BY <2>1
<1>2. BomSize \in Nat /\ BmpHeaderSize \in Nat /\ RawBytes \in Nat
  BY GeometryAssumption
<1>3. LogMax * FileClusters \in Nat
  <2>1. LogMax \in Nat /\ LogMax > 0 /\ FileClusters \in Nat
    BY <1>1
  <2> QED BY <2>1, Multiples
<1>4. DataClusters \in Nat
  BY <1>1, <1>3 DEF DataClusters
<1>5. DataClusters * SectorsPerCluster \in Nat
      /\ DataClusters * SectorsPerCluster = SectorsPerCluster * DataClusters
  BY <1>4, ClusterSizeIs, Multiples
<1>6. DataStart \in Nat
  BY <1>1 DEF DataStart, RootStart, FatStart
<1> QED BY <1>1, <1>2, <1>3, <1>4, <1>5, <1>6 DEF TotalSectors

(* Chunk k of a transfer. *)
ChunkAt(lba, o, size, k) ==
  Chunk(lba + k, IF k = 0 THEN o ELSE 0, Larger(k * SectorSize - o, 0),
        Least(SectorSize, o + size - k * SectorSize) - (IF k = 0 THEN o ELSE 0))

(* The chunk that holds byte i of a transfer is the one of the sector the  *)
(* byte is in, and the byte has its place in that sector.                  *)
LEMMA ChunkHolds ==
  ASSUME NEW lba \in Nat, NEW o \in 0..(SectorSize - 1), NEW size \in Nat,
         NEW i \in 0..(size - 1), NEW k \in 0..((o + size - 1) \div SectorSize),
         NEW d, d = ChunkAt(lba, o, size, k)
  PROVE  /\ (i >= d.at /\ i < d.at + d.amount) <=> k = (o + i) \div SectorSize
         /\ k = (o + i) \div SectorSize =>
              /\ d.sector = ReadSector(lba + k)
              /\ d.inside + i - d.at = (o + i) % SectorSize
<1> DEFINE q == (o + i) \div SectorSize
           j == (o + i) % SectorSize
           ks == SectorSize * k
           qs == SectorSize * q
<1>1. o + i \in Nat /\ o + size - 1 \in Nat /\ o \in Nat
  BY ClusterSizeIs
<1>2. q \in Nat /\ j \in 0..(SectorSize - 1) /\ o + i = qs + j
  <2> DEFINE a == o + i
  <2> HIDE DEF a
  <2>1. a \div SectorSize \in Nat /\ a % SectorSize \in 0..(SectorSize - 1)
        /\ a = SectorSize * (a \div SectorSize) + (a % SectorSize)
    BY <1>1, ClusterSizeIs, Divided DEF a
  <2> QED BY <2>1 DEF a
<1>3. k \in Nat
  BY <1>1, ClusterSizeIs, Divided
<1>4. /\ d.sector = ReadSector(lba + k)
      /\ d.inside = IF k = 0 THEN o ELSE 0
      /\ d.at = Larger(ks - o, 0)
      /\ d.amount = Least(SectorSize, o + size - ks) - (IF k = 0 THEN o ELSE 0)
  <2>1. k * SectorSize = ks
    BY <1>3, ClusterSizeIs
  <2> QED BY <2>1 DEF Chunk, ChunkAt
<1> HIDE DEF q, j
<1>5. ks \in Int /\ qs \in Int /\ (k = 0 => ks = 0) /\ (k > 0 => ks >= SectorSize)
  BY <1>2, <1>3, ClusterSizeIs, Multiples
<1>6. /\ k < q => ks + SectorSize <= qs
      /\ q < k => qs + SectorSize <= ks
      /\ k = q => ks = qs
  <2>1. SectorSize * (k + 1) = ks + SectorSize /\ SectorSize * (q + 1) = qs + SectorSize
    BY <1>2, <1>3, ClusterSizeIs
  <2>2. k < q => SectorSize * (k + 1) <= qs
    BY <1>2, <1>3, ClusterSizeIs, Monotone
  <2>3. q < k => SectorSize * (q + 1) <= ks
    BY <1>2, <1>3, ClusterSizeIs, Monotone
  <2> QED BY <2>1, <2>2, <2>3
<1> HIDE DEF ks, qs
<1>7. (i >= d.at /\ i < d.at + d.amount) <=> k = q
  BY <1>1, <1>2, <1>3, <1>4, <1>5, <1>6, ClusterSizeIs DEF Larger, Least
<1>8. k = q => d.inside + i - d.at = j
  BY <1>1, <1>2, <1>3, <1>4, <1>5, <1>6, ClusterSizeIs DEF Larger
<1> QED BY <1>4, <1>7, <1>8 DEF q, j

(* A transfer delivers the bytes of consecutive sectors. *)
LEMMA ByteOfTransfer ==
  ASSUME NEW lba \in Nat, NEW o \in 0..(SectorSize - 1), NEW size \in Nat,
         lba < TotalSectors,
         lba * SectorSize + o + size <= TotalSectors * SectorSize,
         NEW i \in 0..(size - 1)
  PROVE  ByteRead(Read10(lba, o, size), i) =
           ByteOf(ReadSector(lba + (o + i) \div SectorSize), (o + i) % SectorSize)
<1> DEFINE q == (o + i) \div SectorSize
           last == (o + size - 1) \div SectorSize
           C(k) == ChunkAt(lba, o, size, k)
           Holds(d) == i >= d.at /\ i < d.at + d.amount
<1>1. Read10(lba, o, size) = {C(k) : k \in 0..last}
  <2>1. ~(lba >= TotalSectors) /\ ~(o >= SectorSize)
        /\ ~(lba * SectorSize + o + size > TotalSectors * SectorSize)
    <3>1. TotalSectors \in Int
      BY GeometryIs
    <3>2. lba * SectorSize \in Int /\ TotalSectors * SectorSize \in Int
      BY <3>1, ClusterSizeIs
    <3> QED BY <3>1, <3>2, ClusterSizeIs
  <2> QED BY <2>1 DEF Read10, Chunks, ChunkAt
<1>2. q \in 0..last
  <2> DEFINE a == o + i
             b == o + size - 1
             m == a \div SectorSize
             n == b \div SectorSize
  <2>1. a \in Nat /\ b \in Nat /\ a <= b
    BY ClusterSizeIs
  <2> HIDE DEF a, b
  <2>2. /\ m \in Nat /\ a % SectorSize \in 0..(SectorSize - 1)
        /\ a = SectorSize * m + (a % SectorSize)
        /\ n \in Nat /\ b % SectorSize \in 0..(SectorSize - 1)
        /\ b = SectorSize * n + (b % SectorSize)
    BY <2>1, ClusterSizeIs, Divided
  <2> HIDE DEF m, n
  <2>3. m <= n
    <3>1. SUFFICES ASSUME n + 1 <= m PROVE FALSE
      BY <2>2
    <3>2. SectorSize * (n + 1) <= SectorSize * m
      BY <2>2, <3>1, ClusterSizeIs, Monotone
    <3>3. SectorSize * (n + 1) = SectorSize * n + SectorSize
      BY <2>2, ClusterSizeIs
    <3>4. SectorSize * n \in Int /\ SectorSize * m \in Int
      BY <2>2, ClusterSizeIs, Multiples
    <3> QED BY <2>1, <2>2, <3>2, <3>3, <3>4, ClusterSizeIs
  <2> QED BY <2>2, <2>3 DEF m, n, a, b
<1>3. ASSUME NEW k \in 0..last
      PROVE  /\ Holds(C(k)) <=> k = q
             /\ k = q => C(k).sector = ReadSector(lba + k)
                         /\ C(k).inside + i - C(k).at = (o + i) % SectorSize
  <2> DEFINE d == C(k)
  <2>1. d = ChunkAt(lba, o, size, k)
    OBVIOUS
  <2> HIDE DEF d
  <2>2. /\ (i >= d.at /\ i < d.at + d.amount) <=> k = (o + i) \div SectorSize
        /\ k = (o + i) \div SectorSize =>
             /\ d.sector = ReadSector(lba + k)
             /\ d.inside + i - d.at = (o + i) % SectorSize
    BY <2>1, ChunkHolds
  <2> QED BY <2>2 DEF d
<1>4. /\ C(q).sector = ReadSector(lba + q)
      /\ C(q).inside + i - C(q).at = (o + i) % SectorSize
  BY <1>2, <1>3
<1> HIDE DEF q, last, C
<1> DEFINE c == CHOOSE d \in {C(k) : k \in 0..last} : Holds(d)
<1>5. c = C(q)
  BY <1>2, <1>3
<1>6. ByteRead(Read10(lba, o, size), i) = ByteOf(c.sector, c.inside + i - c.at)
  BY <1>1 DEF ByteRead
<1> QED BY <1>4, <1>5, <1>6 DEF q

-----------------------------------------------------------------------------
(* A sector.                                                               *)

Within(x, j) == j >= x.at /\ j < x.at + x.amount

LEMMA ByteOfExtent ==
  ASSUME NEW sector, NEW j, NEW x \in sector, Within(x, j),
         \A y \in sector : Within(y, j) => y = x
  PROVE  ByteOf(sector, j) = <<x.of, x.from + j - x.at>>
<1>1. (CHOOSE y \in sector : j >= y.at /\ j < y.at + y.amount) = x
  BY DEF Within
<1>2. \E y \in sector : j >= y.at /\ j < y.at + y.amount
  BY DEF Within
<1> QED BY <1>1, <1>2 DEF ByteOf

LEMMA ByteOfNone ==
  ASSUME NEW sector, NEW j, \A y \in sector : ~Within(y, j)
  PROVE  ByteOf(sector, j) = Zero
BY DEF ByteOf, Within

(* Where byte k of a table or text, of a file of BOM and payload, and of   *)
(* the bitmap comes from.                                                  *)
SliceByte(of, length, k) == IF k < length THEN <<of, k>> ELSE Zero

TextByte(of, length, k) ==
  IF k < BomSize THEN <<Bom, k>>
  ELSE IF k < BomSize + length THEN <<of, k - BomSize>> ELSE Zero

BmpByte(k) ==
  IF k < BmpHeaderSize THEN <<BmpHeader, k>>
  ELSE IF k < BmpHeaderSize + RawBytes THEN <<RawPixels, k - BmpHeaderSize>> ELSE Zero

LEMMA ByteOfSlice ==
  ASSUME NEW of, NEW offset \in Nat, NEW length \in Nat, NEW j \in 0..(SectorSize - 1)
  PROVE  ByteOf(Slice(of, offset, length), j) = SliceByte(of, length, offset + j)
<1> DEFINE x == Extent(of, offset, 0, Least(SectorSize, length - offset))
<1>1. x.of = of /\ x.from = offset /\ x.at = 0 /\ x.amount = Least(SectorSize, length - offset)
  BY DEF Extent
<1>2. Slice(of, offset, length) = IF offset < length THEN {x} ELSE {}
  BY DEF Slice
<1> HIDE DEF x
<1>3. CASE offset + j < length
  <2>1. Within(x, j) /\ offset < length
    BY <1>1, <1>3, ClusterSizeIs DEF Within, Least
  <2>2. ByteOf(Slice(of, offset, length), j) = <<x.of, x.from + j - x.at>>
    BY <1>2, <2>1, ByteOfExtent
  <2>3. x.from + j - x.at = offset + j
    BY <1>1, ClusterSizeIs
  <2> QED BY <1>1, <1>3, <2>2, <2>3 DEF SliceByte
<1>4. CASE ~(offset + j < length)
  <2>1. offset < length => ~Within(x, j)
    BY <1>1, <1>4, ClusterSizeIs DEF Within, Least
  <2>2. ByteOf(Slice(of, offset, length), j) = Zero
    BY <1>2, <2>1, ByteOfNone
  <2> QED BY <1>4, <2>2 DEF SliceByte
<1> QED BY <1>3, <1>4

(* Two extents that follow each other: the first begins the sector. *)
LEMMA ByteOfTwo ==
  ASSUME NEW of1, NEW of2, NEW from1 \in Int, NEW from2 \in Int,
         NEW m \in Int, NEW n \in Int, NEW j \in Nat, m >= 0,
         NEW sector,
         sector = {x \in {Extent(of1, from1, 0, m), Extent(of2, from2, m, n)} : x.amount > 0}
  PROVE  ByteOf(sector, j) =
           IF j < m THEN <<of1, from1 + j>>
           ELSE IF j < m + n THEN <<of2, from2 + j - m>> ELSE Zero
<1> DEFINE x == Extent(of1, from1, 0, m)
           y == Extent(of2, from2, m, n)
<1>1. /\ x.of = of1 /\ x.from = from1 /\ x.at = 0 /\ x.amount = m
      /\ y.of = of2 /\ y.from = from2 /\ y.at = m /\ y.amount = n
  BY DEF Extent
<1>2. \A z : z \in sector <=> (z = x \/ z = y) /\ z.amount > 0
  OBVIOUS
<1> HIDE DEF x, y
<1>3. /\ Within(x, j) <=> j < m
      /\ Within(y, j) <=> j >= m /\ j < m + n
  BY <1>1 DEF Within
<1>4. CASE j < m
  <2>1. x \in sector /\ Within(x, j) /\ ~Within(y, j)
    BY <1>1, <1>2, <1>3, <1>4
  <2>2. ByteOf(sector, j) = <<x.of, x.from + j - x.at>>
    BY <1>2, <2>1, ByteOfExtent
  <2>3. x.from + j - x.at = from1 + j
    BY <1>1
  <2> QED BY <1>1, <1>4, <2>2, <2>3
<1>5. CASE j >= m /\ j < m + n
  <2>1. y \in sector /\ Within(y, j) /\ ~Within(x, j)
    BY <1>1, <1>2, <1>3, <1>5
  <2>2. ByteOf(sector, j) = <<y.of, y.from + j - y.at>>
    BY <1>2, <2>1, ByteOfExtent
  <2>3. y.from + j - y.at = from2 + j - m /\ ~(j < m)
    BY <1>1, <1>5
  <2> QED BY <1>1, <1>5, <2>2, <2>3
<1>6. CASE j >= m /\ ~(j < m + n)
  <2>1. \A z \in sector : ~Within(z, j)
    BY <1>2, <1>3, <1>6
  <2> QED BY <1>6, <2>1, ByteOfNone
<1> QED BY <1>4, <1>5, <1>6

LEMMA ByteOfText ==
  ASSUME NEW of, NEW offset \in Nat, NEW length \in Nat, NEW j \in 0..(SectorSize - 1)
  PROVE  ByteOf(TextFile(of, offset, length), j) = TextByte(of, length, offset + j)
<1> DEFINE valid == Least(SectorSize, BomSize + length - offset)
           bom   == IF offset < BomSize THEN Least(valid, BomSize - offset) ELSE 0
           from2 == offset + bom - BomSize
<1>1. j \in Nat /\ BomSize \in Nat
  BY ClusterSizeIs, GeometryIs
<1>2. CASE offset >= BomSize + length
  <2>1. TextFile(of, offset, length) = {}
    BY <1>2 DEF TextFile
  <2>2. ~(offset + j < BomSize + length) /\ ~(offset + j < BomSize)
    BY <1>1, <1>2
  <2> QED BY <2>1, <2>2, ByteOfNone DEF TextByte
<1>3. CASE ~(offset >= BomSize + length)
  <2>1. TextFile(of, offset, length) =
          {x \in {Extent(Bom, offset, 0, bom), Extent(of, from2, bom, valid - bom)} : x.amount > 0}
    BY <1>3 DEF TextFile
  <2>2. /\ valid \in Int /\ bom \in Int /\ bom >= 0 /\ from2 \in Int /\ valid - bom \in Int
        /\ bom + (valid - bom) = valid
    BY <1>1, <1>3, ClusterSizeIs DEF Least
  <2>3. /\ j < bom <=> offset + j < BomSize
        /\ j < valid <=> offset + j < BomSize + length
        /\ ~(j < bom) /\ j < valid => from2 + j - bom = (offset + j) - BomSize
    BY <1>1, <1>3, ClusterSizeIs DEF Least
  <2> HIDE DEF valid, bom, from2
  <2>4. ByteOf(TextFile(of, offset, length), j) =
          IF j < bom THEN <<Bom, offset + j>>
          ELSE IF j < bom + (valid - bom) THEN <<of, from2 + j - bom>> ELSE Zero
    BY <1>1, <2>1, <2>2, ByteOfTwo
  <2>6. CASE j < bom
    BY <2>3, <2>4, <2>6, Zenon DEF TextByte
  <2>7. CASE ~(j < bom) /\ j < valid
    <3> DEFINE k == from2 + j - bom
    <3>3. k = (offset + j) - BomSize /\ j < bom + (valid - bom)
      BY <2>2, <2>3, <2>7
    <3>4. ByteOf(TextFile(of, offset, length), j) = <<of, k>>
      BY <2>4, <2>7, <3>3, Zenon
    <3>1. ByteOf(TextFile(of, offset, length), j) = <<of, (offset + j) - BomSize>>
      <4> HIDE DEF k
      <4> QED BY <3>3, <3>4, Zenon
    <3>2. offset + j < BomSize + length /\ ~(offset + j < BomSize)
      BY <2>3, <2>7
    <3> QED BY <3>1, <3>2, Zenon DEF TextByte
  <2>8. CASE ~(j < bom) /\ ~(j < valid)
    <3>1. ByteOf(TextFile(of, offset, length), j) = Zero
      BY <2>2, <2>4, <2>8, Zenon
    <3> QED BY <2>3, <2>8, <3>1, Zenon DEF TextByte
  <2> QED BY <2>6, <2>7, <2>8
<1> QED BY <1>2, <1>3

LEMMA ByteOfBmp ==
  ASSUME NEW offset \in Nat, NEW j \in 0..(SectorSize - 1)
  PROVE  ByteOf(BmpSector(offset), j) = BmpByte(offset + j)
<1> DEFINE head == Least(SectorSize, BmpHeaderSize - offset)
           rest == Least(SectorSize - head, RawBytes)
<1>1. j \in Nat /\ BmpHeaderSize \in Nat /\ RawBytes \in Nat
  BY ClusterSizeIs, GeometryIs
<1>2. CASE offset < BmpHeaderSize
  <2>1. BmpSector(offset) =
          {x \in {Extent(BmpHeader, offset, 0, head), Extent(RawPixels, 0, head, rest)} :
             x.amount > 0}
    BY <1>2 DEF BmpSector
  <2>2. head \in Int /\ head >= 0 /\ rest \in Int
    BY <1>1, <1>2, ClusterSizeIs DEF Least
  <2>3. /\ j < head <=> offset + j < BmpHeaderSize
        /\ ~(j < head) => 0 + j - head = (offset + j) - BmpHeaderSize
        /\ j < head \/ j < head + rest <=> offset + j < BmpHeaderSize + RawBytes
    BY <1>1, <1>2, ClusterSizeIs DEF Least
  <2> HIDE DEF head, rest
  <2>4. ByteOf(BmpSector(offset), j) =
          IF j < head THEN <<BmpHeader, offset + j>>
          ELSE IF j < head + rest THEN <<RawPixels, 0 + j - head>> ELSE Zero
    BY <1>1, <2>1, <2>2, ByteOfTwo
  <2>5. offset + j < BmpHeaderSize => offset + j < BmpHeaderSize + RawBytes
    BY <1>1
  <2>6. CASE j < head
    BY <2>3, <2>4, <2>6, Zenon DEF BmpByte
  <2>7. CASE ~(j < head) /\ j < head + rest
    <3> DEFINE k == 0 + j - head
    <3>3. k = (offset + j) - BmpHeaderSize
      BY <2>3, <2>7
    <3>4. ByteOf(BmpSector(offset), j) = <<RawPixels, k>>
      BY <2>4, <2>7, Zenon
    <3>1. ByteOf(BmpSector(offset), j) = <<RawPixels, (offset + j) - BmpHeaderSize>>
      <4> HIDE DEF k
      <4> QED BY <3>3, <3>4, Zenon
    <3>2. offset + j < BmpHeaderSize + RawBytes /\ ~(offset + j < BmpHeaderSize)
      BY <2>3, <2>7
    <3> QED BY <3>1, <3>2, Zenon DEF BmpByte
  <2>8. CASE ~(j < head) /\ ~(j < head + rest)
    <3>1. ByteOf(BmpSector(offset), j) = Zero
      BY <2>4, <2>8, Zenon
    <3> QED BY <2>3, <2>8, <3>1, Zenon DEF BmpByte
  <2> QED BY <2>6, <2>7, <2>8
<1>3. CASE ~(offset < BmpHeaderSize)
  <2>1. BmpSector(offset) = Slice(RawPixels, offset - BmpHeaderSize, RawBytes)
    BY <1>3 DEF BmpSector
  <2>2. offset - BmpHeaderSize \in Nat
    BY <1>1, <1>3
  <2>3. ByteOf(BmpSector(offset), j) = SliceByte(RawPixels, RawBytes, offset - BmpHeaderSize + j)
    BY <1>1, <2>1, <2>2, ByteOfSlice
  <2>4. /\ offset - BmpHeaderSize + j = (offset + j) - BmpHeaderSize
        /\ offset - BmpHeaderSize + j < RawBytes <=> offset + j < BmpHeaderSize + RawBytes
        /\ ~(offset + j < BmpHeaderSize)
    BY <1>1, <1>3
  <2> DEFINE k == offset - BmpHeaderSize + j
  <2>5. SliceByte(RawPixels, RawBytes, k) = IF k < RawBytes THEN <<RawPixels, k>> ELSE Zero
    BY DEF SliceByte
  <2>6. k = (offset + j) - BmpHeaderSize
        /\ (k < RawBytes <=> offset + j < BmpHeaderSize + RawBytes)
    BY <2>4
  <2>7. ByteOf(BmpSector(offset), j) = SliceByte(RawPixels, RawBytes, k)
    BY <2>3
  <2> HIDE DEF k
  <2>8. CASE k < RawBytes
    <3>1. ByteOf(BmpSector(offset), j) = <<RawPixels, (offset + j) - BmpHeaderSize>>
      BY <2>5, <2>6, <2>7, <2>8, Zenon
    <3> QED BY <2>4, <2>6, <2>8, <3>1, Zenon DEF BmpByte
  <2>9. CASE ~(k < RawBytes)
    BY <2>4, <2>5, <2>6, <2>7, <2>9, Zenon DEF BmpByte
  <2> QED BY <2>8, <2>9
<1> QED BY <1>2, <1>3

-----------------------------------------------------------------------------
(* The data area.                                                          *)

(* The regions follow each other and fill the data area. *)
LEMMA Regions ==
  /\ LogDirFirst = 2
  /\ LatestFirst = LogDirFirst + LogDirClusters
  /\ HistoryFirst = LatestFirst + FileClusters
  /\ AnalysisFirst = HistoryFirst + LogMax * FileClusters
  /\ RawFirst = AnalysisFirst + AnalysisClusters
  /\ DebugFirst = RawFirst + RawClusters
  /\ DebugFirst + DebugClusters = DataClusters + 2
  /\ {LogDirFirst, LatestFirst, HistoryFirst, AnalysisFirst, RawFirst, DebugFirst} \subseteq Nat
<1>1. /\ LogDirFirst = 2
      /\ LatestFirst = LogDirFirst + LogDirClusters
      /\ HistoryFirst = LatestFirst + FileClusters
      /\ AnalysisFirst = HistoryFirst + LogMax * FileClusters
      /\ RawFirst = AnalysisFirst + AnalysisClusters
      /\ DebugFirst = RawFirst + RawClusters
  BY DEF LogDirFirst, LatestFirst, HistoryFirst, AnalysisFirst, RawFirst, DebugFirst
<1>2. DataClusters = LogDirClusters + FileClusters + LogMax * FileClusters
                     + AnalysisClusters + RawClusters + DebugClusters
  BY DEF DataClusters
<1> QED BY <1>1, <1>2, GeometryIs

(* Each cluster of the data area belongs to the region it lies in. *)
LEMMA DataSectorIn ==
  ASSUME NEW c \in Nat, NEW o
  PROVE  /\ c >= LogDirFirst /\ c < LatestFirst =>
              DataSector(c, o) =
                Slice(LogDir, (c - LogDirFirst) * ClusterSize + o, LogDirClusters * ClusterSize)
         /\ c >= LatestFirst /\ c < HistoryFirst =>
              DataSector(c, o) =
                TextFile(Latest, (c - LatestFirst) * ClusterSize + o, view.latest)
         /\ c >= HistoryFirst /\ c < AnalysisFirst =>
              LET relative == c - HistoryFirst
                  index    == relative \div FileClusters
              IN DataSector(c, o) =
                   IF index >= LogCount THEN {}
                   ELSE TextFile(LogFile(index),
                          (relative % FileClusters) * ClusterSize + o, view.log[index])
         /\ ShowsQrInfo /\ c >= AnalysisFirst /\ c < RawFirst =>
              DataSector(c, o) =
                Slice(QrInfo, (c - AnalysisFirst) * ClusterSize + o, view.json)
         /\ ShowsBmp /\ c >= RawFirst /\ c < DebugFirst =>
              DataSector(c, o) = BmpSector((c - RawFirst) * ClusterSize + o)
         /\ ShowsDebug /\ c >= DebugFirst /\ c < DebugFirst + DebugClusters =>
              DataSector(c, o) =
                Slice(Debug, (c - DebugFirst) * ClusterSize + o, view.debug)
<1> DEFINE InLogDir   == c >= LogDirFirst /\ c < LogDirFirst + LogDirClusters
           InLatest   == c >= LatestFirst /\ c < LatestFirst + FileClusters
           InHistory  == c >= HistoryFirst /\ c < HistoryFirst + LogMax * FileClusters
           InAnalysis == c >= AnalysisFirst /\ c < AnalysisFirst + AnalysisClusters
           InRaw      == c >= RawFirst /\ c < RawFirst + RawClusters
           InDebug    == c >= DebugFirst /\ c < DebugFirst + DebugClusters
           relative   == c - HistoryFirst
           index      == relative \div FileClusters
           A1 == Slice(LogDir, (c - LogDirFirst) * ClusterSize + o, LogDirClusters * ClusterSize)
           A2 == TextFile(Latest, (c - LatestFirst) * ClusterSize + o, view.latest)
           A3 == IF index >= LogCount THEN {}
                 ELSE TextFile(LogFile(index),
                        (relative % FileClusters) * ClusterSize + o, view.log[index])
           A4 == Slice(QrInfo, (c - AnalysisFirst) * ClusterSize + o, view.json)
           A5 == Slice(Debug, (c - DebugFirst) * ClusterSize + o, view.debug)
           A6 == BmpSector((c - RawFirst) * ClusterSize + o)
<1>1. DataSector(c, o) =
        CASE InLogDir -> A1 [] InLatest -> A2 [] InHistory -> A3
          [] ShowsQrInfo /\ InAnalysis -> A4 [] ShowsDebug /\ InDebug -> A5
          [] ShowsBmp /\ InRaw -> A6 [] OTHER -> {}
  BY DEF DataSector
<1>2. /\ InLogDir <=> c >= LogDirFirst /\ c < LatestFirst
      /\ InLatest <=> c >= LatestFirst /\ c < HistoryFirst
      /\ InHistory <=> c >= HistoryFirst /\ c < AnalysisFirst
      /\ InAnalysis <=> c >= AnalysisFirst /\ c < RawFirst
      /\ InRaw <=> c >= RawFirst /\ c < DebugFirst
  BY Regions, Zenon
<1>3. /\ LogDirFirst \in Nat /\ LatestFirst \in Nat /\ HistoryFirst \in Nat
      /\ AnalysisFirst \in Nat /\ RawFirst \in Nat /\ DebugFirst \in Nat
      /\ LogDirFirst <= LatestFirst /\ LatestFirst <= HistoryFirst
      /\ HistoryFirst <= AnalysisFirst /\ AnalysisFirst <= RawFirst /\ RawFirst <= DebugFirst
  BY Regions, GeometryIs
<1>4. InDebug => c >= DebugFirst
  OBVIOUS
<1> DEFINE L == c >= LogDirFirst /\ c < LatestFirst
           T == c >= LatestFirst /\ c < HistoryFirst
           H == c >= HistoryFirst /\ c < AnalysisFirst
           Q == c >= AnalysisFirst /\ c < RawFirst
           R == c >= RawFirst /\ c < DebugFirst
<1>5. /\ L => ~T /\ ~H /\ ~Q /\ ~R /\ ~InDebug
      /\ T => ~L /\ ~H /\ ~Q /\ ~R /\ ~InDebug
      /\ H => ~L /\ ~T /\ ~Q /\ ~R /\ ~InDebug
      /\ Q => ~L /\ ~T /\ ~H /\ ~R /\ ~InDebug
      /\ R => ~L /\ ~T /\ ~H /\ ~Q /\ ~InDebug
      /\ InDebug => ~L /\ ~T /\ ~H /\ ~Q /\ ~R
  BY <1>3, <1>4
<1>6. DataSector(c, o) =
        CASE L -> A1 [] T -> A2 [] H -> A3
          [] ShowsQrInfo /\ Q -> A4 [] ShowsDebug /\ InDebug -> A5
          [] ShowsBmp /\ R -> A6 [] OTHER -> {}
  <2> HIDE DEF A1, A2, A3, A4, A5, A6
  <2> QED BY <1>1, <1>2
<1> HIDE DEF L, T, H, Q, R, InDebug, A1, A2, A3, A4, A5, A6
<1>7. /\ L => DataSector(c, o) = A1
      /\ T => DataSector(c, o) = A2
      /\ H => DataSector(c, o) = A3
      /\ ShowsQrInfo /\ Q => DataSector(c, o) = A4
      /\ ShowsBmp /\ R => DataSector(c, o) = A6
      /\ ShowsDebug /\ InDebug => DataSector(c, o) = A5
  BY <1>5, <1>6
<1> QED BY <1>7 DEF L, T, H, Q, R, InDebug, A1, A2, A3, A4, A5, A6

-----------------------------------------------------------------------------
(* The host's geometry.                                                    *)

(* No parameter of the boot sector is truncated. *)
LEMMA BootSectorIs ==
  /\ Bpb.bytesPerSector = SectorSize /\ Bpb.sectorsPerCluster = SectorsPerCluster
  /\ Bpb.reserved = ReservedSectors /\ Bpb.fats = 1
  /\ Bpb.rootEntries = RootEntryCount /\ Bpb.totalSectors = TotalSectors
  /\ Bpb.fatSize = FatSectors
<1>1. /\ SectorSize < 65536 /\ ReservedSectors < 65536 /\ RootEntryCount < 65536
      /\ TotalSectors < 65536 /\ FatSectors < 65536
  BY VolumeAssumption
<1>2. \A n \in Nat : n < 65536 => put16(n) = n
  BY DEF put16
<1>3. /\ put16(SectorSize) = SectorSize /\ put16(ReservedSectors) = ReservedSectors
      /\ put16(RootEntryCount) = RootEntryCount /\ put16(TotalSectors) = TotalSectors
      /\ put16(FatSectors) = FatSectors
  BY <1>1, <1>2, ClusterSizeIs, GeometryIs
<1> QED BY <1>3 DEF Bpb

(* The host finds the regions where the device has them. *)
LEMMA HostGeometry ==
  /\ HostFatStart = FatStart /\ HostDataStart = DataStart
  /\ HostClusters = DataClusters
<1>1. (RootEntryCount * DirEntrySize) \div SectorSize = RootSectors
  <2>1. RootEntryCount * DirEntrySize = SectorSize * RootSectors + 0
    BY GeometryAssumption, ClusterSizeIs, GeometryIs
  <2>2. (SectorSize * RootSectors + 0) \div SectorSize = RootSectors
    BY ClusterSizeIs, GeometryIs, Quotient
  <2> QED BY <2>1, <2>2
<1>2. HostFatStart = FatStart /\ HostDataStart = DataStart
  BY <1>1, BootSectorIs, GeometryIs
     DEF HostFatStart, HostDataStart, HostRootStart, FatStart, DataStart, RootStart
<1>3. (TotalSectors - DataStart) \div SectorsPerCluster = DataClusters
  <2>1. TotalSectors - DataStart = SectorsPerCluster * DataClusters + 0
    BY GeometryIs, ClusterSizeIs
  <2>2. (SectorsPerCluster * DataClusters + 0) \div SectorsPerCluster = DataClusters
    BY GeometryIs, ClusterSizeIs, Quotient
  <2> QED BY <2>1, <2>2
<1> QED BY <1>2, <1>3, BootSectorIs DEF HostClusters

(* Sector s of a cluster, from its number; all of it is on the disk. *)
LEMMA SectorOfCluster ==
  ASSUME NEW c \in Nat, c >= 2, c < DataClusters + 2,
         NEW s \in 0..(SectorsPerCluster - 1)
  PROVE  /\ HostSector(c, s) \in Nat
         /\ HostSector(c, s) = HostSector(c, 0) + s
         /\ HostSector(c, 0) + SectorsPerCluster <= TotalSectors
         /\ HostSector(c, s) < TotalSectors
         /\ ReadSector(HostSector(c, s)) = DataSector(c, s * SectorSize)
<1> DEFINE p == SectorsPerCluster * (c - 2)
           lba == DataStart + p + s
<1>1. HostSector(c, s) = lba /\ HostSector(c, 0) = DataStart + p
  <2>1. (c - 2) * SectorsPerCluster = p
    BY ClusterSizeIs
  <2> QED BY <2>1, BootSectorIs, HostGeometry, GeometryIs, ClusterSizeIs, Multiples
          DEF HostSector
<1>2. p \in Nat /\ p + SectorsPerCluster <= SectorsPerCluster * DataClusters
  <2>1. SectorsPerCluster * (c - 1) = p + SectorsPerCluster
    BY ClusterSizeIs
  <2>2. SectorsPerCluster * (c - 1) <= SectorsPerCluster * DataClusters
    BY ClusterSizeIs, GeometryIs, Monotone
  <2> QED BY <2>1, <2>2, ClusterSizeIs, Multiples
<1>3. lba \in Nat /\ lba < TotalSectors /\ lba - DataStart = p + s
      /\ DataStart + p + SectorsPerCluster <= TotalSectors
  <2> HIDE DEF p
  <2> QED BY <1>2, GeometryIs, ClusterSizeIs
<1>4. /\ (lba - DataStart) \div SectorsPerCluster = c - 2
      /\ (lba - DataStart) % SectorsPerCluster = s
  <2>1. c - 2 \in Nat
    OBVIOUS
  <2>2. (p + s) \div SectorsPerCluster = c - 2 /\ (p + s) % SectorsPerCluster = s
    BY <2>1, ClusterSizeIs, Quotient
  <2> HIDE DEF p, lba
  <2> QED BY <1>3, <2>2
<1>5. ReadSector(lba) = DataSector(c, s * SectorSize)
  <2>1. /\ lba # 0
        /\ ~(lba >= FatStart /\ lba < FatStart + FatSectors)
        /\ ~(lba >= RootStart /\ lba < RootStart + RootSectors)
        /\ ~(lba >= TotalSectors)
    <3> HIDE DEF p
    <3> QED BY <1>2, <1>3, GeometryIs, ClusterSizeIs DEF FatStart, RootStart, DataStart
  <2>2. 2 + (lba - DataStart) \div SectorsPerCluster = c
    BY <1>4
  <2> HIDE DEF lba
  <2> QED BY <1>4, <2>1, <2>2 DEF ReadSector
<1> QED BY <1>1, <1>3, <1>5

-----------------------------------------------------------------------------
(* Files.                                                                  *)

LEMMA LogIs ==
  ASSUME view \in Views
  PROVE  /\ LogCount \in Nat /\ LogCount <= LogMax
         /\ DOMAIN view.log = 0..(LogCount - 1)
         /\ \A i \in 0..(LogCount - 1) :
              view.log[i] \in Nat /\ BomSize + view.log[i] <= FileClusters * ClusterSize
<1>1. PICK n \in 0..LogMax : DOMAIN view.log = 0..(n - 1)
  BY ViewsAssumption
<1>2. n \in Nat /\ n <= LogMax
  BY <1>1, GeometryIs
<1>3. LogCount = n
  <2>1. Cardinality(0..(n - 1)) = n
    <3>1. Cardinality(0..(n - 1)) = IF 0 > n - 1 THEN 0 ELSE n - 1 - 0 + 1
      BY <1>2, FS_Interval
    <3> QED BY <1>2, <3>1
  <2> QED BY <1>1, <2>1 DEF LogCount
<1>4. \A i \in DOMAIN view.log :
        view.log[i] \in Nat /\ BomSize + view.log[i] <= FileClusters * ClusterSize
  BY ViewsAssumption
<1> QED BY <1>1, <1>2, <1>3, <1>4

Files == RootFiles \cup LogFiles

(* What can be found in the directories. *)
LEMMA FileIs ==
  ASSUME view \in Views, NEW f \in Files
  PROVE  \/ f = LogDir \/ f = Latest
         \/ f = QrInfo /\ ShowsQrInfo
         \/ f = Bmp /\ ShowsBmp
         \/ f = Debug /\ ShowsDebug
         \/ \E i \in 0..(LogCount - 1) : f = LogFile(i)
<1>1. CASE f \in RootFiles
  <2>1. \/ f \in {LogDir, Latest} \/ f \in {g \in {QrInfo} : ShowsQrInfo}
        \/ f \in {g \in {Bmp} : ShowsBmp} \/ f \in {g \in {Debug} : ShowsDebug}
    BY <1>1, Zenon DEF RootFiles
  <2>2. f \in {LogDir, Latest} => f = LogDir \/ f = Latest
    OBVIOUS
  <2>3. f \in {g \in {QrInfo} : ShowsQrInfo} => f = QrInfo /\ ShowsQrInfo
    OBVIOUS
  <2>4. f \in {g \in {Bmp} : ShowsBmp} => f = Bmp /\ ShowsBmp
    OBVIOUS
  <2>5. f \in {g \in {Debug} : ShowsDebug} => f = Debug /\ ShowsDebug
    OBVIOUS
  <2> QED BY <2>1, <2>2, <2>3, <2>4, <2>5
<1>2. CASE f \in LogFiles
  <2>1. PICK i \in DOMAIN view.log : f = LogFile(i)
    BY <1>2 DEF LogFiles
  <2>2. i \in 0..(LogCount - 1)
    BY LogIs
  <2> QED BY <2>1, <2>2
<1> QED BY <1>1, <1>2 DEF Files

LEMMA NamesDiffer ==
  /\ LogDir # Latest /\ LogDir # QrInfo /\ LogDir # Bmp /\ LogDir # Debug
  /\ Latest # QrInfo /\ Latest # Bmp /\ Latest # Debug
  /\ QrInfo # Bmp /\ QrInfo # Debug /\ Bmp # Debug
  /\ \A i \in Nat : /\ LogFile(i) # LogDir /\ LogFile(i) # Latest /\ LogFile(i) # QrInfo
                    /\ LogFile(i) # Bmp /\ LogFile(i) # Debug /\ LogFile(i)[2] = i
  /\ NoFile # LogDir /\ NoFile # Latest /\ NoFile # QrInfo /\ NoFile # Bmp /\ NoFile # Debug
  /\ \A i \in Nat : LogFile(i) # NoFile
BY DEF LogDir, LogFile, Latest, QrInfo, Bmp, Debug, NoFile

(* Where a file begins, how long it is and how long its chain is. *)
LEMMA FileFields ==
  ASSUME view \in Views
  PROVE  /\ FirstCluster(LogDir) = LogDirFirst /\ ChainLength(LogDir) = LogDirClusters
         /\ FirstCluster(Latest) = LatestFirst /\ FileSize(Latest) = BomSize + view.latest
         /\ ChainLength(Latest) = RequiredFileClusters(view.latest)
         /\ FirstCluster(QrInfo) = AnalysisFirst /\ FileSize(QrInfo) = view.json
         /\ ChainLength(QrInfo) = AnalysisClusters
         /\ FirstCluster(Bmp) = RawFirst /\ FileSize(Bmp) = BmpHeaderSize + RawBytes
         /\ ChainLength(Bmp) = RawClusters
         /\ FirstCluster(Debug) = DebugFirst /\ FileSize(Debug) = view.debug
         /\ ChainLength(Debug) = DebugClusters
         /\ \A i \in 0..(LogCount - 1) :
              /\ FirstCluster(LogFile(i)) = HistoryFirst + i * FileClusters
              /\ FileSize(LogFile(i)) = BomSize + view.log[i]
              /\ ChainLength(LogFile(i)) = RequiredFileClusters(view.log[i])
<1>1. /\ FirstCluster(LogDir) = LogDirFirst /\ ChainLength(LogDir) = LogDirClusters
      /\ FirstCluster(Latest) = LatestFirst /\ FileSize(Latest) = BomSize + view.latest
      /\ ChainLength(Latest) = RequiredFileClusters(view.latest)
  BY NamesDiffer DEF FirstCluster, FileSize, ChainLength
<1>2. /\ FirstCluster(QrInfo) = AnalysisFirst /\ FileSize(QrInfo) = view.json
      /\ ChainLength(QrInfo) = AnalysisClusters
      /\ FirstCluster(Bmp) = RawFirst /\ FileSize(Bmp) = BmpHeaderSize + RawBytes
      /\ ChainLength(Bmp) = RawClusters
      /\ FirstCluster(Debug) = DebugFirst /\ FileSize(Debug) = view.debug
      /\ ChainLength(Debug) = DebugClusters
  BY NamesDiffer DEF FirstCluster, FileSize, ChainLength
<1>3. ASSUME NEW i \in 0..(LogCount - 1)
      PROVE  /\ FirstCluster(LogFile(i)) = HistoryFirst + i * FileClusters
             /\ FileSize(LogFile(i)) = BomSize + view.log[i]
             /\ ChainLength(LogFile(i)) = RequiredFileClusters(view.log[i])
  <2>1. i \in Nat
    BY LogIs
  <2> QED BY <2>1, NamesDiffer DEF FirstCluster, FileSize, ChainLength, HistoryFirstCluster
<1> QED BY <1>1, <1>2, <1>3

-----------------------------------------------------------------------------
(* Chains.                                                                 *)

LEMMA RequiredIs ==
  ASSUME NEW length \in Nat, BomSize + length <= FileClusters * ClusterSize
  PROVE  /\ RequiredFileClusters(length) \in Nat
         /\ RequiredFileClusters(length) > 0
         /\ RequiredFileClusters(length) <= FileClusters
         /\ BomSize + length <= ClusterSize * RequiredFileClusters(length)
<1> DEFINE n == CeilDiv(BomSize + length, ClusterSize)
           r == RequiredFileClusters(length)
<1>1. BomSize + length \in Nat
  BY GeometryIs
<1>2. n \in Nat /\ BomSize + length <= ClusterSize * n
  <2> DEFINE a == BomSize + length
  <2> HIDE DEF a
  <2>1. CeilDiv(a, ClusterSize) \in Nat /\ a <= ClusterSize * CeilDiv(a, ClusterSize)
    BY <1>1, ClusterSizeIs, CeilDivBounds DEF a
  <2> QED BY <2>1 DEF a
<1>3. r = Least(Larger(n, 1), FileClusters)
  BY DEF RequiredFileClusters
<1> HIDE DEF n, r
<1>4. r \in Nat /\ r > 0 /\ r <= FileClusters
  BY <1>2, <1>3, GeometryIs DEF Least, Larger
<1>5. CASE r = FileClusters
  <2>1. FileClusters * ClusterSize = ClusterSize * FileClusters
    BY GeometryIs, ClusterSizeIs
  <2> QED BY <1>4, <1>5, <2>1 DEF r
<1>6. CASE r # FileClusters
  <2>1. n <= r
    BY <1>2, <1>3, <1>6, GeometryIs DEF Least, Larger
  <2>2. ClusterSize * n <= ClusterSize * r
    BY <1>2, <1>4, <2>1, ClusterSizeIs, Monotone
  <2>3. ClusterSize * n \in Int /\ ClusterSize * r \in Int
    BY <1>2, <1>4, ClusterSizeIs, Multiples
  <2> QED BY <1>1, <1>2, <1>4, <2>2, <2>3 DEF r
<1> QED BY <1>5, <1>6

(* The chain of a LOG file stays within the clusters set aside for it. *)
LEMMA LogChain ==
  ASSUME view \in Views, NEW i \in 0..(LogCount - 1), NEW q \in Nat,
         q < FileClusters
  PROVE  /\ FirstCluster(LogFile(i)) \in Nat
         /\ FirstCluster(LogFile(i)) >= HistoryFirst
         /\ FirstCluster(LogFile(i)) + FileClusters <= AnalysisFirst
         /\ (FirstCluster(LogFile(i)) + q - HistoryFirst) \div FileClusters = i
         /\ (FirstCluster(LogFile(i)) + q - HistoryFirst) % FileClusters = q
<1>1. i \in Nat /\ i + 1 <= LogMax /\ i * FileClusters = FileClusters * i
      /\ LogMax * FileClusters = FileClusters * LogMax
      /\ FileClusters * (i + 1) = FileClusters * i + FileClusters
  BY LogIs, GeometryIs
<1>2. FirstCluster(LogFile(i)) = HistoryFirst + FileClusters * i
  BY <1>1, FileFields
<1>3. FileClusters * i \in Nat /\ FileClusters * i + FileClusters <= LogMax * FileClusters
  BY <1>1, GeometryIs, Multiples, Monotone
<1>4. (FileClusters * i + q) \div FileClusters = i /\ (FileClusters * i + q) % FileClusters = q
  BY <1>1, GeometryIs, Quotient
<1>5. FirstCluster(LogFile(i)) + q - HistoryFirst = FileClusters * i + q
  BY <1>2, <1>3, Regions
<1> QED BY <1>2, <1>3, <1>4, <1>5, Regions, GeometryIs

(* Each file's chain begins and ends inside the region of its kind. *)
LEMMA ChainIs ==
  ASSUME view \in Views, NEW f \in Files
  PROVE  /\ ChainLength(f) \in Nat /\ ChainLength(f) > 0
         /\ FirstCluster(f) \in Nat /\ FirstCluster(f) >= 2
         /\ FirstCluster(f) + ChainLength(f) <= DataClusters + 2
         /\ Length(f, DirectoryEntry(f)) \in Nat
         /\ Length(f, DirectoryEntry(f)) <= ClusterSize * ChainLength(f)
<1>1. DirectoryEntry(f).size = FileSize(f)
  BY DEF DirectoryEntry
<1>2. CASE f = LogDir
  <2>1. Length(f, DirectoryEntry(f)) = LogDirClusters * ClusterSize
        /\ LogDirClusters * ClusterSize = ClusterSize * LogDirClusters
        /\ ClusterSize * LogDirClusters \in Nat
    BY <1>2, ClusterSizeIs, GeometryIs, Multiples DEF Length
  <2> QED BY <1>2, <2>1, FileFields, Regions, GeometryIs
<1>3. CASE f = Latest
  <2>1. view.latest \in Nat /\ BomSize + view.latest <= FileClusters * ClusterSize
    BY ViewsAssumption
  <2>2. Length(f, DirectoryEntry(f)) = BomSize + view.latest
    BY <1>1, <1>3, NamesDiffer, FileFields DEF Length
  <2> DEFINE r == RequiredFileClusters(view.latest)
  <2>3. ChainLength(f) = r /\ FirstCluster(f) = LatestFirst
    BY <1>3, FileFields
  <2>4. r \in Nat /\ r > 0 /\ r <= FileClusters /\ BomSize + view.latest <= ClusterSize * r
    BY <2>1, RequiredIs
  <2>5. LatestFirst >= 2 /\ LatestFirst \in Nat /\ LatestFirst + FileClusters <= DataClusters + 2
    BY Regions, GeometryIs
  <2> HIDE DEF r
  <2> QED BY <2>1, <2>2, <2>3, <2>4, <2>5, GeometryIs
<1>4. CASE f = QrInfo
  <2>1. view.json \in Nat /\ view.json <= AnalysisClusters * ClusterSize
    BY ViewsAssumption
  <2>2. Length(f, DirectoryEntry(f)) = view.json
    BY <1>1, <1>4, NamesDiffer, FileFields DEF Length
  <2>3. AnalysisClusters * ClusterSize = ClusterSize * AnalysisClusters
    BY ClusterSizeIs, GeometryIs
  <2> QED BY <1>4, <2>1, <2>2, <2>3, FileFields, Regions, GeometryIs
<1>5. CASE f = Bmp
  <2>1. BmpHeaderSize + RawBytes <= RawClusters * ClusterSize
    BY VolumeAssumption
  <2>2. Length(f, DirectoryEntry(f)) = BmpHeaderSize + RawBytes
    BY <1>1, <1>5, NamesDiffer, FileFields DEF Length
  <2>3. RawClusters * ClusterSize = ClusterSize * RawClusters
    BY ClusterSizeIs, GeometryIs
  <2> QED BY <1>5, <2>1, <2>2, <2>3, FileFields, Regions, GeometryIs
<1>6. CASE f = Debug
  <2>1. view.debug \in Nat /\ view.debug <= DebugClusters * ClusterSize
    BY ViewsAssumption
  <2>2. Length(f, DirectoryEntry(f)) = view.debug
    BY <1>1, <1>6, NamesDiffer, FileFields DEF Length
  <2>3. DebugClusters * ClusterSize = ClusterSize * DebugClusters
    BY ClusterSizeIs, GeometryIs
  <2> QED BY <1>6, <2>1, <2>2, <2>3, FileFields, Regions, GeometryIs
<1>7. ASSUME NEW i \in 0..(LogCount - 1), f = LogFile(i)
      PROVE  /\ ChainLength(f) \in Nat /\ ChainLength(f) > 0
             /\ FirstCluster(f) \in Nat /\ FirstCluster(f) >= 2
             /\ FirstCluster(f) + ChainLength(f) <= DataClusters + 2
             /\ Length(f, DirectoryEntry(f)) \in Nat
             /\ Length(f, DirectoryEntry(f)) <= ClusterSize * ChainLength(f)
  <2>1. i \in Nat /\ view.log[i] \in Nat /\ BomSize + view.log[i] <= FileClusters * ClusterSize
    BY LogIs
  <2>2. Length(f, DirectoryEntry(f)) = BomSize + view.log[i]
    BY <1>1, <1>7, <2>1, NamesDiffer, FileFields DEF Length
  <2>3. ChainLength(f) = RequiredFileClusters(view.log[i])
    BY <1>7, FileFields
  <2>4. /\ FirstCluster(f) \in Nat /\ FirstCluster(f) >= HistoryFirst
        /\ FirstCluster(f) + FileClusters <= AnalysisFirst
    BY <1>7, LogChain, GeometryIs
  <2> DEFINE r == RequiredFileClusters(view.log[i])
  <2>5. r \in Nat /\ r > 0 /\ r <= FileClusters /\ BomSize + view.log[i] <= ClusterSize * r
    BY <2>1, RequiredIs
  <2>6. HistoryFirst >= 2 /\ HistoryFirst \in Nat /\ AnalysisFirst \in Nat
        /\ AnalysisFirst <= DataClusters + 2
    BY Regions, GeometryIs
  <2> HIDE DEF r
  <2> QED BY <2>1, <2>2, <2>3, <2>4, <2>5, <2>6, GeometryIs DEF r
<1> QED BY <1>2, <1>3, <1>4, <1>5, <1>6, <1>7, FileIs

(* No cluster belongs to two files: the regions that the _FIRST_CLUSTER    *)
(* constants lay out are disjoint, and rebuild_virtual_fat_metadata keeps every chain in *)
(* its region.                                                             *)
THEOREM ChainsApart ==
  ASSUME view \in Views, NEW f \in Files, NEW g \in Files, NEW c \in Nat,
         c >= FirstCluster(f), c < FirstCluster(f) + ChainLength(f),
         c >= FirstCluster(g), c < FirstCluster(g) + ChainLength(g)
  PROVE  f = g
<1> DEFINE InLog(h) == \E i \in 0..(LogCount - 1) :
                         h = LogFile(i) /\ (c - HistoryFirst) \div FileClusters = i
           Region(h) == \/ h = LogDir /\ c < LatestFirst
                        \/ h = Latest /\ c >= LatestFirst /\ c < HistoryFirst
                        \/ InLog(h) /\ c >= HistoryFirst /\ c < AnalysisFirst
                        \/ h = QrInfo /\ c >= AnalysisFirst /\ c < RawFirst
                        \/ h = Bmp /\ c >= RawFirst /\ c < DebugFirst
                        \/ h = Debug /\ c >= DebugFirst
<1>1. ASSUME NEW h \in Files, c >= FirstCluster(h), c < FirstCluster(h) + ChainLength(h)
      PROVE  Region(h)
  <2>1. CASE h = LogDir
    BY <1>1, <2>1, FileFields, Regions
  <2>2. CASE h = Latest
    <3>1. ChainLength(h) \in Nat /\ ChainLength(h) <= FileClusters
      <4>1. view.latest \in Nat /\ BomSize + view.latest <= FileClusters * ClusterSize
        BY ViewsAssumption
      <4>2. ChainLength(h) = RequiredFileClusters(view.latest)
        BY <2>2, FileFields
      <4> QED BY <4>1, <4>2, RequiredIs
    <3>2. FirstCluster(h) = LatestFirst
      BY <2>2, FileFields
    <3> QED BY <1>1, <2>2, <3>1, <3>2, Regions, GeometryIs
  <2>3. CASE h = QrInfo
    BY <1>1, <2>3, FileFields, Regions
  <2>4. CASE h = Bmp
    BY <1>1, <2>4, FileFields, Regions
  <2>5. CASE h = Debug
    BY <1>1, <2>5, FileFields, Regions
  <2>6. ASSUME NEW i \in 0..(LogCount - 1), h = LogFile(i)
        PROVE  Region(h)
    <3>1. ChainLength(h) \in Nat /\ ChainLength(h) <= FileClusters
      <4>1. view.log[i] \in Nat /\ BomSize + view.log[i] <= FileClusters * ClusterSize
        BY LogIs
      <4>2. ChainLength(h) = RequiredFileClusters(view.log[i])
        BY <2>6, FileFields
      <4> QED BY <4>1, <4>2, RequiredIs
    <3> DEFINE q == c - FirstCluster(h)
    <3>2. FirstCluster(h) \in Nat
      BY ChainIs
    <3>3. q \in Nat /\ q < FileClusters /\ FirstCluster(h) + q = c
      BY <1>1, <3>1, <3>2, GeometryIs
    <3> HIDE DEF q
    <3>4. /\ FirstCluster(h) >= HistoryFirst /\ FirstCluster(h) + FileClusters <= AnalysisFirst
          /\ (FirstCluster(h) + q - HistoryFirst) \div FileClusters = i
      BY <2>6, <3>3, LogChain
    <3>5. FirstCluster(h) + q - HistoryFirst = c - HistoryFirst
      BY <3>2, <3>3, Regions
    <3>6. InLog(h)
      BY <2>6, <3>4, <3>5
    <3>7. c >= HistoryFirst /\ c < AnalysisFirst
      BY <3>2, <3>3, <3>4, Regions, GeometryIs
    <3> QED BY <3>6, <3>7
  <2> QED BY <2>1, <2>2, <2>3, <2>4, <2>5, <2>6, FileIs
<1>2. Region(f) /\ Region(g)
  BY <1>1
<1>3. /\ LatestFirst \in Nat /\ HistoryFirst \in Nat /\ AnalysisFirst \in Nat
      /\ RawFirst \in Nat /\ DebugFirst \in Nat
      /\ LatestFirst <= HistoryFirst /\ HistoryFirst <= AnalysisFirst
      /\ AnalysisFirst <= RawFirst /\ RawFirst <= DebugFirst
  BY Regions, GeometryIs
<1>4. InLog(f) /\ InLog(g) => f = g
  OBVIOUS
<1> HIDE DEF InLog
<1> QED BY <1>2, <1>3, <1>4

-----------------------------------------------------------------------------
(* The bytes of a file.                                                    *)

(* The reference, for each kind of file. *)
LEMMA FileByteIs ==
  ASSUME view \in Views, NEW k \in Nat
  PROVE  /\ entry = DirectoryEntry(LogDir) =>
              FileByte(LogDir, k) = SliceByte(LogDir, LogDirClusters * ClusterSize, k)
         /\ entry = DirectoryEntry(Latest) =>
              FileByte(Latest, k) = TextByte(Latest, view.latest, k)
         /\ entry = DirectoryEntry(QrInfo) =>
              FileByte(QrInfo, k) = SliceByte(QrInfo, view.json, k)
         /\ entry = DirectoryEntry(Debug) =>
              FileByte(Debug, k) = SliceByte(Debug, view.debug, k)
         /\ entry = DirectoryEntry(Bmp) => FileByte(Bmp, k) = BmpByte(k)
         /\ \A i \in 0..(LogCount - 1) :
              entry = DirectoryEntry(LogFile(i)) =>
                FileByte(LogFile(i), k) = TextByte(LogFile(i), view.log[i], k)
<1>1. \A f : DirectoryEntry(f).size = FileSize(f)
  BY DEF DirectoryEntry
<1>2. ASSUME entry = DirectoryEntry(LogDir)
      PROVE  FileByte(LogDir, k) = SliceByte(LogDir, LogDirClusters * ClusterSize, k)
  <2> DEFINE n == LogDirClusters * ClusterSize
  <2>1. Length(LogDir, entry) = n /\ n \in Int
    BY ClusterSizeIs, GeometryIs DEF Length
  <2> HIDE DEF n
  <2>2. k >= n <=> ~(k < n)
    BY <2>1
  <2>3. FileByte(LogDir, k) = IF k >= n THEN Zero ELSE <<LogDir, k>>
    BY <2>1 DEF FileByte
  <2>4. FileByte(LogDir, k) = SliceByte(LogDir, n, k)
    BY <2>2, <2>3 DEF SliceByte
  <2> QED BY <2>4 DEF n
<1>3. ASSUME entry = DirectoryEntry(QrInfo)
      PROVE  FileByte(QrInfo, k) = SliceByte(QrInfo, view.json, k)
  <2>1. Length(QrInfo, entry) = view.json /\ view.json \in Nat
    BY <1>1, <1>3, NamesDiffer, FileFields, ViewsAssumption DEF Length
  <2>2. k >= view.json <=> ~(k < view.json)
    BY <2>1
  <2>3. FileByte(QrInfo, k) = IF k >= view.json THEN Zero ELSE <<QrInfo, k>>
    BY <2>1, NamesDiffer DEF FileByte
  <2> QED BY <2>2, <2>3 DEF SliceByte
<1>4. ASSUME entry = DirectoryEntry(Debug)
      PROVE  FileByte(Debug, k) = SliceByte(Debug, view.debug, k)
  <2>1. Length(Debug, entry) = view.debug /\ view.debug \in Nat
    BY <1>1, <1>4, NamesDiffer, FileFields, ViewsAssumption DEF Length
  <2>2. k >= view.debug <=> ~(k < view.debug)
    BY <2>1
  <2>3. FileByte(Debug, k) = IF k >= view.debug THEN Zero ELSE <<Debug, k>>
    BY <2>1, NamesDiffer DEF FileByte
  <2> QED BY <2>2, <2>3 DEF SliceByte
<1>5. ASSUME entry = DirectoryEntry(Bmp)
      PROVE  FileByte(Bmp, k) = BmpByte(k)
  <2> DEFINE n == BmpHeaderSize + RawBytes
  <2>1. Length(Bmp, entry) = n
    BY <1>1, <1>5, NamesDiffer, FileFields DEF Length
  <2>2. /\ k >= n <=> ~(k < n)
        /\ k < BmpHeaderSize => k < n
    BY GeometryIs
  <2> HIDE DEF n
  <2>3. FileByte(Bmp, k) =
          IF k >= n THEN Zero
          ELSE IF k < BmpHeaderSize THEN <<BmpHeader, k>> ELSE <<RawPixels, k - BmpHeaderSize>>
    BY <2>1, NamesDiffer DEF FileByte
  <2>4. BmpByte(k) =
          IF k < BmpHeaderSize THEN <<BmpHeader, k>>
          ELSE IF k < n THEN <<RawPixels, k - BmpHeaderSize>> ELSE Zero
    BY DEF BmpByte, n
  <2> DEFINE byte == <<RawPixels, k - BmpHeaderSize>>
  <2> HIDE DEF byte
  <2>5. FileByte(Bmp, k) =
          IF k >= n THEN Zero ELSE IF k < BmpHeaderSize THEN <<BmpHeader, k>> ELSE byte
    BY <2>3, Zenon DEF byte
  <2>6. BmpByte(k) =
          IF k < BmpHeaderSize THEN <<BmpHeader, k>> ELSE IF k < n THEN byte ELSE Zero
    BY <2>4, Zenon DEF byte
  <2> QED BY <2>2, <2>5, <2>6
<1>6. ASSUME NEW f, NEW length \in Nat, entry = DirectoryEntry(f),
             FileSize(f) = BomSize + length,
             f # LogDir, f # QrInfo, f # Bmp, f # Debug
      PROVE  FileByte(f, k) = TextByte(f, length, k)
  <2> DEFINE n == BomSize + length
             byte == <<f, k - BomSize>>
  <2>1. Length(f, entry) = n
    BY <1>1, <1>6 DEF Length
  <2>2. /\ k >= n <=> ~(k < n)
        /\ k < BomSize => k < n
    BY GeometryIs
  <2>3. TextByte(f, length, k) =
          IF k < BomSize THEN <<Bom, k>> ELSE IF k < n THEN byte ELSE Zero
    BY DEF TextByte
  <2> HIDE DEF n
  <2>4. FileByte(f, k) =
          IF k >= n THEN Zero ELSE IF k < BomSize THEN <<Bom, k>> ELSE byte
    BY <1>6, <2>1 DEF FileByte
  <2> HIDE DEF byte
  <2> QED BY <2>2, <2>3, <2>4
<1>7. entry = DirectoryEntry(Latest) =>
        FileByte(Latest, k) = TextByte(Latest, view.latest, k)
  <2>1. view.latest \in Nat
    BY ViewsAssumption
  <2>2. FileSize(Latest) = BomSize + view.latest
    BY FileFields
  <2> QED BY <1>6, <2>1, <2>2, NamesDiffer
<1>8. ASSUME NEW i \in 0..(LogCount - 1), entry = DirectoryEntry(LogFile(i))
      PROVE  FileByte(LogFile(i), k) = TextByte(LogFile(i), view.log[i], k)
  <2>1. view.log[i] \in Nat /\ i \in Nat
    BY LogIs
  <2>2. FileSize(LogFile(i)) = BomSize + view.log[i]
    BY FileFields
  <2> QED BY <1>6, <1>8, <2>1, <2>2, NamesDiffer
<1> QED BY <1>2, <1>3, <1>4, <1>5, <1>7, <1>8

(* A byte of a cluster of a chain is the byte of the file at that place. *)
LEMMA DataByte ==
  ASSUME view \in Views, NEW f \in Files, entry = DirectoryEntry(f),
         NEW q \in Nat, q < ChainLength(f),
         NEW s \in 0..(SectorsPerCluster - 1), NEW j \in 0..(SectorSize - 1)
  PROVE  ByteOf(DataSector(FirstCluster(f) + q, s * SectorSize), j) =
           FileByte(f, ClusterSize * q + SectorSize * s + j)
<1> DEFINE o == s * SectorSize
           c == FirstCluster(f) + q
           at == ClusterSize * q + SectorSize * s
           k == at + j
<1>1. /\ s \in Nat /\ o \in Nat /\ o = SectorSize * s /\ j \in Nat
      /\ ClusterSize * q \in Nat /\ q * ClusterSize = ClusterSize * q
  BY ClusterSizeIs, Multiples
<1>2. at \in Nat /\ k \in Nat /\ at = q * ClusterSize + o
  BY <1>1
<1>3. FirstCluster(f) \in Nat /\ c \in Nat /\ c >= FirstCluster(f)
      /\ c < FirstCluster(f) + ChainLength(f) /\ c - FirstCluster(f) = q
  BY ChainIs
<1> HIDE DEF at, c, o
<1>4. CASE f = LogDir
  <2>1. DataSector(c, o) = Slice(LogDir, q * ClusterSize + o, LogDirClusters * ClusterSize)
    <3>1. FirstCluster(f) = LogDirFirst /\ c >= LogDirFirst /\ c < LatestFirst
      BY <1>3, <1>4, FileFields, Regions
    <3> QED BY <1>3, <3>1, DataSectorIn
  <2>2. LogDirClusters * ClusterSize \in Nat
    BY ClusterSizeIs, GeometryIs, Multiples
  <2>3. ByteOf(DataSector(c, o), j) = SliceByte(LogDir, LogDirClusters * ClusterSize, k)
    BY <1>2, <2>1, <2>2, ByteOfSlice
  <2> QED BY <1>2, <1>4, <2>3, FileByteIs DEF at, c, o
<1>5. CASE f = Latest
  <2>1. view.latest \in Nat /\ BomSize + view.latest <= FileClusters * ClusterSize
    BY ViewsAssumption
  <2>2. DataSector(c, o) = TextFile(Latest, q * ClusterSize + o, view.latest)
    <3> DEFINE r == RequiredFileClusters(view.latest)
    <3>1. FirstCluster(f) = LatestFirst /\ ChainLength(f) = r
      BY <1>5, FileFields
    <3>2. r \in Nat /\ r <= FileClusters
      BY <2>1, RequiredIs
    <3> HIDE DEF r
    <3>3. c >= LatestFirst /\ c < HistoryFirst
      BY <1>3, <3>1, <3>2, Regions, GeometryIs
    <3> QED BY <1>3, <3>1, <3>3, DataSectorIn
  <2>3. ByteOf(DataSector(c, o), j) = TextByte(Latest, view.latest, k)
    BY <1>2, <2>1, <2>2, ByteOfText
  <2> QED BY <1>2, <1>5, <2>3, FileByteIs DEF at, c, o
<1>6. CASE f = QrInfo /\ ShowsQrInfo
  <2>1. view.json \in Nat
    BY ViewsAssumption
  <2>2. DataSector(c, o) = Slice(QrInfo, q * ClusterSize + o, view.json)
    <3>1. FirstCluster(f) = AnalysisFirst /\ c >= AnalysisFirst /\ c < RawFirst
      BY <1>3, <1>6, FileFields, Regions
    <3> QED BY <1>3, <1>6, <3>1, DataSectorIn
  <2>3. ByteOf(DataSector(c, o), j) = SliceByte(QrInfo, view.json, k)
    BY <1>2, <2>1, <2>2, ByteOfSlice
  <2> QED BY <1>2, <1>6, <2>3, FileByteIs DEF at, c, o
<1>7. CASE f = Bmp /\ ShowsBmp
  <2>1. DataSector(c, o) = BmpSector(q * ClusterSize + o)
    <3>1. FirstCluster(f) = RawFirst /\ c >= RawFirst /\ c < DebugFirst
      BY <1>3, <1>7, FileFields, Regions
    <3> QED BY <1>3, <1>7, <3>1, DataSectorIn
  <2>2. ByteOf(DataSector(c, o), j) = BmpByte(k)
    BY <1>2, <2>1, ByteOfBmp
  <2> QED BY <1>2, <1>7, <2>2, FileByteIs DEF at, c, o
<1>8. CASE f = Debug /\ ShowsDebug
  <2>1. view.debug \in Nat
    BY ViewsAssumption
  <2>2. DataSector(c, o) = Slice(Debug, q * ClusterSize + o, view.debug)
    <3>1. FirstCluster(f) = DebugFirst /\ c >= DebugFirst /\ c < DebugFirst + DebugClusters
      BY <1>3, <1>8, FileFields, Regions
    <3> QED BY <1>3, <1>8, <3>1, DataSectorIn
  <2>3. ByteOf(DataSector(c, o), j) = SliceByte(Debug, view.debug, k)
    BY <1>2, <2>1, <2>2, ByteOfSlice
  <2> QED BY <1>2, <1>8, <2>3, FileByteIs DEF at, c, o
<1>9. ASSUME NEW i \in 0..(LogCount - 1), f = LogFile(i)
      PROVE  ByteOf(DataSector(FirstCluster(f) + q, s * SectorSize), j) = FileByte(f, k)
  <2>1. i \in Nat /\ view.log[i] \in Nat /\ BomSize + view.log[i] <= FileClusters * ClusterSize
    BY LogIs
  <2>2. q < FileClusters
    <3> DEFINE r == RequiredFileClusters(view.log[i])
    <3>1. ChainLength(f) = r
      BY <1>9, FileFields
    <3>2. r \in Nat /\ r <= FileClusters
      BY <2>1, RequiredIs
    <3> HIDE DEF r
    <3> QED BY <3>1, <3>2, GeometryIs
  <2>3. /\ c >= HistoryFirst /\ c < AnalysisFirst
        /\ (c - HistoryFirst) \div FileClusters = i
        /\ (c - HistoryFirst) % FileClusters = q
    <3>1. /\ FirstCluster(f) >= HistoryFirst /\ FirstCluster(f) + FileClusters <= AnalysisFirst
          /\ (FirstCluster(f) + q - HistoryFirst) \div FileClusters = i
          /\ (FirstCluster(f) + q - HistoryFirst) % FileClusters = q
      BY <1>9, <2>2, LogChain
    <3>2. FirstCluster(f) + q - HistoryFirst = c - HistoryFirst
      BY <1>3, Regions DEF c
    <3>3. c >= HistoryFirst /\ c < AnalysisFirst
      BY <1>3, <2>2, <3>1, Regions, GeometryIs
    <3> QED BY <3>1, <3>2, <3>3
  <2>4. ~(i >= LogCount)
    BY <2>1, LogIs
  <2>5. DataSector(c, o) = TextFile(LogFile(i), q * ClusterSize + o, view.log[i])
    BY <1>3, <2>3, <2>4, DataSectorIn
  <2>6. ByteOf(DataSector(c, o), j) = TextByte(LogFile(i), view.log[i], k)
    BY <1>2, <2>1, <2>5, ByteOfText
  <2> QED BY <1>2, <1>9, <2>6, FileByteIs DEF at, c, o
<1> QED BY <1>4, <1>5, <1>6, <1>7, <1>8, <1>9, FileIs DEF at

-----------------------------------------------------------------------------
(* The FAT.                                                                *)

(* What FatEntry looks up: the files whose chain holds a cluster. *)
Holding(c) == {f \in Files : c >= FirstCluster(f) /\ c < FirstCluster(f) + ChainLength(f)}

LEMMA FatEntryIs ==
  ASSUME NEW c \in Nat, c >= 2
  PROVE  /\ Holding(c) = {} => FatEntry(c) = 0
         /\ \A f \in Files :
              Holding(c) = {f} =>
                FatEntry(c) = IF c = FirstCluster(f) + ChainLength(f) - 1 THEN EndOfChain
                              ELSE c + 1
<1>1. FatEntry(c) =
        IF Holding(c) = {} THEN 0
        ELSE LET f == CHOOSE g \in Holding(c) : TRUE
             IN IF c = FirstCluster(f) + ChainLength(f) - 1 THEN EndOfChain ELSE c + 1
  BY DEF FatEntry, Holding, Files
<1>2. \A f : (CHOOSE g \in {f} : TRUE) = f
  OBVIOUS
<1> QED BY <1>1, <1>2

(* Every entry has twelve bits. *)
LEMMA FatEntryFits ==
  ASSUME view \in Views, NEW c \in Nat
  PROVE  /\ FatEntry(c) \in Nat /\ FatEntry(c) <= 4095
         /\ Stored(c) \in Nat /\ Stored(c) <= 4095
<1>1. FatEntry(c) \in Nat /\ FatEntry(c) <= 4095
  <2>1. CASE c < 2
    BY <2>1 DEF FatEntry, EndOfChain
  <2>2. CASE c >= 2 /\ Holding(c) = {}
    BY <2>2, FatEntryIs
  <2>3. CASE c >= 2 /\ Holding(c) # {}
    <3>1. PICK f \in Files : f \in Holding(c)
      BY <2>3 DEF Holding
    <3>2. c >= FirstCluster(f) /\ c < FirstCluster(f) + ChainLength(f)
      BY <3>1 DEF Holding
    <3>3. \A g \in Holding(c) : g = f
      BY <3>2, ChainsApart DEF Holding
    <3>4. Holding(c) = {f}
      BY <3>1, <3>3
    <3>5. FatEntry(c) = IF c = FirstCluster(f) + ChainLength(f) - 1 THEN EndOfChain ELSE c + 1
      BY <2>3, <3>4, FatEntryIs
    <3>6. c + 1 <= DataClusters + 2 /\ DataClusters + 1 < 4095
      BY <3>2, ChainIs, GeometryIs, VolumeAssumption
    <3> QED BY <3>5, <3>6, GeometryIs DEF EndOfChain
  <2> QED BY <2>1, <2>2, <2>3
<1> QED BY <1>1 DEF Stored

(* Inside a chain an entry gives the next cluster. *)
LEMMA FatChain ==
  ASSUME view \in Views, NEW f \in Files, NEW q \in Nat, q + 1 < ChainLength(f)
  PROVE  FatEntry(FirstCluster(f) + q) = FirstCluster(f) + q + 1
<1> DEFINE c == FirstCluster(f) + q
<1>1. /\ c \in Nat /\ c >= 2 /\ c >= FirstCluster(f)
      /\ c < FirstCluster(f) + ChainLength(f)
      /\ c # FirstCluster(f) + ChainLength(f) - 1
  BY ChainIs
<1> HIDE DEF c
<1>2. \A g \in Holding(c) : g = f
  BY <1>1, ChainsApart DEF Holding
<1>3. Holding(c) = {f}
  BY <1>1, <1>2 DEF Holding
<1>4. FatEntry(c) = c + 1
  BY <1>1, <1>3, FatEntryIs
<1> QED BY <1>4 DEF c

(* fat_table has room for the entry of every cluster. *)
LEMMA StoredIs ==
  ASSUME NEW c \in Nat, c < DataClusters + 2
  PROVE  c + c \div 2 + 1 < FatSectors * SectorSize /\ Stored(c) = FatEntry(c)
<1> DEFINE d == DataClusters + 1
           size == FatSectors * SectorSize
<1>1. d \in Nat /\ c <= d /\ size \in Int
  BY GeometryIs, ClusterSizeIs
<1>2. d + d \div 2 + 1 < size
  BY VolumeAssumption
<1> HIDE DEF d, size
<1>3. c \div 2 <= d \div 2 /\ c \div 2 \in Nat /\ d \div 2 \in Nat
  BY <1>1
<1>4. c + c \div 2 + 1 < size
  BY <1>1, <1>2, <1>3
<1> QED BY <1>4 DEF Stored, size

(* The host reads the bytes of fat_table. *)
LEMMA HostFatByteIs ==
  ASSUME NEW o \in Nat, o < FatSectors * SectorSize
  PROVE  HostFatByte(o) = FatByte(o)
<1> DEFINE t == o \div SectorSize
           i == o % SectorSize
           lba == FatStart + t
           size == FatSectors * SectorSize
<1>1. t \in Nat /\ i \in 0..(SectorSize - 1) /\ i \in Nat /\ o = SectorSize * t + i
  BY Divided, ClusterSizeIs
<1>2. t < FatSectors
  <2>1. SUFFICES ASSUME FatSectors <= t PROVE FALSE
    BY <1>1, GeometryIs
  <2>2. SectorSize * FatSectors <= SectorSize * t
    BY <1>1, <2>1, ClusterSizeIs, GeometryIs, Monotone
  <2>3. SectorSize * FatSectors = FatSectors * SectorSize
        /\ SectorSize * t \in Int /\ SectorSize * FatSectors \in Int
    BY <1>1, ClusterSizeIs, GeometryIs
  <2> QED BY <1>1, <2>2, <2>3
<1> HIDE DEF t, i
<1>3. lba \in Nat /\ lba # 0 /\ lba >= FatStart /\ lba < FatStart + FatSectors
      /\ lba + 1 <= TotalSectors /\ lba - FatStart = t
  BY <1>1, <1>2, GeometryIs, ClusterSizeIs DEF FatStart, DataStart, RootStart
<1>4. ReadSector(lba) = Slice(FatTable, t * SectorSize, size)
  <2> HIDE DEF lba
  <2> QED BY <1>3 DEF ReadSector
<1>5. lba * SectorSize + 0 + SectorSize <= TotalSectors * SectorSize
  <2> HIDE DEF lba
  <2>1. SectorSize * (lba + 1) <= SectorSize * TotalSectors
    BY <1>3, GeometryIs, ClusterSizeIs, Monotone
  <2>2. /\ SectorSize * (lba + 1) = lba * SectorSize + SectorSize
        /\ SectorSize * TotalSectors = TotalSectors * SectorSize
        /\ lba * SectorSize \in Int /\ TotalSectors * SectorSize \in Int
    BY <1>3, GeometryIs, ClusterSizeIs
  <2> QED BY <2>1, <2>2, ClusterSizeIs
<1>6. (0 + i) \div SectorSize = 0 /\ (0 + i) % SectorSize = i
  <2>1. (SectorSize * 0 + i) \div SectorSize = 0 /\ (SectorSize * 0 + i) % SectorSize = i
    BY <1>1, ClusterSizeIs, Quotient
  <2>2. SectorSize * 0 + i = i /\ 0 + i = i
    BY <1>1, ClusterSizeIs
  <2> QED BY <2>1, <2>2
<1>7. ByteRead(Read10(lba, 0, SectorSize), i) = ByteOf(ReadSector(lba), i)
  <2> HIDE DEF lba
  <2>1. ByteRead(Read10(lba, 0, SectorSize), i) =
          ByteOf(ReadSector(lba + (0 + i) \div SectorSize), (0 + i) % SectorSize)
    <3>1. lba < TotalSectors /\ SectorSize \in Nat /\ 0 \in 0..(SectorSize - 1)
      BY <1>3, ClusterSizeIs, GeometryIs
    <3> QED BY <1>1, <1>3, <1>5, <3>1, ByteOfTransfer
  <2>2. lba + 0 = lba
    BY <1>3
  <2> QED BY <1>6, <2>1, <2>2
<1>8. ByteOf(ReadSector(lba), i) = SliceByte(FatTable, size, t * SectorSize + i)
  <2>1. t * SectorSize \in Nat /\ size \in Nat
    BY <1>1, ClusterSizeIs, GeometryIs, Multiples
  <2> HIDE DEF lba, size
  <2> QED BY <1>1, <1>4, <2>1, ByteOfSlice
<1>9. t * SectorSize + i = o
  BY <1>1, ClusterSizeIs
<1>10. ByteRead(Read10(lba, 0, SectorSize), i) = <<FatTable, o>>
  <2> HIDE DEF lba
  <2> QED BY <1>7, <1>8, <1>9 DEF SliceByte
<1>11. HostFatStart + o \div Bpb.bytesPerSector = lba /\ o % Bpb.bytesPerSector = i
       /\ Bpb.bytesPerSector = SectorSize
  BY HostGeometry, BootSectorIs DEF t, i
<1> HIDE DEF lba
<1> QED BY <1>10, <1>11 DEF HostFatByte

(* The host unpacks what fat12_set packed. *)
LEMMA HostNextIs ==
  ASSUME view \in Views, NEW c \in Nat, c >= 2, c < DataClusters + 2
  PROVE  HostNext(c) = FatEntry(c)
<1> DEFINE k == c \div 2
           o == c + k
           x == Stored(2 * k)
           y == Stored(2 * k + 1)
<1>1. k \in Nat /\ o \in Nat /\ (c = 2 * k \/ c = 2 * k + 1)
  OBVIOUS
<1>2. /\ HostFatByte(o) = FatByte(o)
      /\ HostFatByte(o + 1) = FatByte(o + 1)
  <2>1. o + 1 < FatSectors * SectorSize /\ FatSectors * SectorSize \in Int
    BY StoredIs, GeometryIs, ClusterSizeIs
  <2> HIDE DEF k
  <2> QED BY <1>1, <2>1, HostFatByteIs
<1>3. x \in Nat /\ x <= 4095 /\ y \in Nat /\ y <= 4095
  <2>1. 2 * k \in Nat /\ 2 * k + 1 \in Nat
    BY <1>1
  <2> HIDE DEF k
  <2>2. Stored(2 * k) \in Nat /\ Stored(2 * k) <= 4095
    BY <2>1, FatEntryFits
  <2>3. Stored(2 * k + 1) \in Nat /\ Stored(2 * k + 1) <= 4095
    BY <2>1, FatEntryFits
  <2> QED BY <2>2, <2>3
<1>4. Stored(c) = FatEntry(c)
  BY StoredIs
<1>5. HostNext(c) = IF c % 2 = 0 THEN FatByte(o) + 256 * (FatByte(o + 1) % 16)
                    ELSE FatByte(o) \div 16 + 16 * FatByte(o + 1)
  BY <1>2 DEF HostNext
<1>6. CASE c = 2 * k
  <2>1. c % 2 = 0 /\ o = 3 * k
    BY <1>1, <1>6
  <2>2. o % 3 = 0 /\ o \div 3 = k /\ (o + 1) % 3 = 1 /\ (o + 1) \div 3 = k
    BY <1>1, <2>1
  <2>3. FatByte(o) = x % 256 /\ FatByte(o + 1) = x \div 256 + 16 * (y % 16)
    BY <2>2 DEF FatByte
  <2> HIDE DEF x, y
  <2>4. (x % 256) + 256 * ((x \div 256 + 16 * (y % 16)) % 16) = x
    <3>1. x \div 256 \in 0..15 /\ x = 256 * (x \div 256) + (x % 256) /\ y % 16 \in 0..15
      BY <1>3
    <3> DEFINE u == x \div 256
               v == y % 16
    <3>2. (u + 16 * v) % 16 = u
      <4>1. u \in 0..15 /\ v \in 0..15
        BY <3>1
      <4> HIDE DEF u, v
      <4> QED BY <4>1
    <3> QED BY <1>3, <3>1, <3>2
  <2>5. HostNext(c) = x
    BY <1>5, <2>1, <2>3, <2>4
  <2> QED BY <1>4, <1>6, <2>5 DEF x
<1>7. CASE c = 2 * k + 1
  <2>1. c % 2 = 1 /\ o = 3 * k + 1
    BY <1>1, <1>7
  <2>2. o % 3 = 1 /\ o \div 3 = k /\ (o + 1) % 3 = 2 /\ (o + 1) \div 3 = k
    BY <1>1, <2>1
  <2>3. FatByte(o) = x \div 256 + 16 * (y % 16) /\ FatByte(o + 1) = y \div 16
    BY <2>2 DEF FatByte
  <2> HIDE DEF x, y
  <2>4. (x \div 256 + 16 * (y % 16)) \div 16 + 16 * (y \div 16) = y
    <3>1. x \div 256 \in 0..15 /\ y = 16 * (y \div 16) + (y % 16) /\ y % 16 \in 0..15
      <4>1. x \div 256 \in 0..15
        BY <1>3
      <4>2. y \in Nat
        BY <1>3
      <4> QED BY <4>1, <4>2, Divided
    <3> DEFINE u == x \div 256
               v == y % 16
    <3>2. (u + 16 * v) \div 16 = v
      <4>1. u \in 0..15 /\ v \in 0..15
        BY <3>1
      <4> HIDE DEF u, v
      <4> QED BY <4>1
    <3> QED BY <1>3, <3>1, <3>2
  <2>5. HostNext(c) = y
    BY <1>5, <2>1, <2>3, <2>4
  <2> QED BY <1>4, <1>7, <2>5 DEF y
<1> QED BY <1>1, <1>6, <1>7

(* What the host reads in the FAT, after the 12-bit packing of fat12_set:   *)
(* in the chain of a file the next cluster or, at its end, the end mark;    *)
(* outside every chain a free cluster.                                      *)
THEOREM FatTellsChains ==
  ASSUME view \in Views, NEW c \in Nat, c >= 2, c < DataClusters + 2
  PROVE  /\ \A f \in Files :
              c >= FirstCluster(f) /\ c < FirstCluster(f) + ChainLength(f) =>
                HostNext(c) = IF c = FirstCluster(f) + ChainLength(f) - 1 THEN EndOfChain
                              ELSE c + 1
         /\ (\A f \in Files :
               ~(c >= FirstCluster(f) /\ c < FirstCluster(f) + ChainLength(f))) =>
                 HostNext(c) = 0
<1>1. HostNext(c) = FatEntry(c)
  BY HostNextIs
<1>2. ASSUME NEW f \in Files, c >= FirstCluster(f), c < FirstCluster(f) + ChainLength(f)
      PROVE  Holding(c) = {f}
  <2>1. \A g \in Holding(c) : g = f
    BY <1>2, ChainsApart DEF Holding
  <2> QED BY <1>2, <2>1 DEF Holding
<1>3. (\A f \in Files :
         ~(c >= FirstCluster(f) /\ c < FirstCluster(f) + ChainLength(f))) => Holding(c) = {}
  BY DEF Holding
<1> QED BY <1>1, <1>2, <1>3, FatEntryIs

-----------------------------------------------------------------------------
(* The invariant.                                                          *)

(* As long as the host has not read the clusters of the chain to their     *)
(* end, it is in the one the position tells.                               *)
Following ==
  /\ file \in Files
  /\ entry = DirectoryEntry(file)
  /\ pos \in Nat
  /\ transfer \in Transfers
  /\ pos < ClusterSize * ChainLength(file) =>
       cluster = FirstCluster(file) + pos \div ClusterSize

VolumeInv ==
  /\ view \in Views
  /\ (file = NoFile /\ pos = 0) \/ Following
  /\ ReadsFile

(* What the disk shows does not change while it is read. *)
LEMMA ViewKept ==
  ASSUME view' = view
  PROVE  /\ Files' = Files
         /\ \A f : /\ DirectoryEntry(f)' = DirectoryEntry(f)
                   /\ FirstCluster(f)' = FirstCluster(f)
                   /\ ChainLength(f)' = ChainLength(f)
<1>1. Files' = Files
  BY DEF Files, RootFiles, LogFiles, ShowsQrInfo, ShowsBmp, ShowsDebug
<1>2. \A f : FirstCluster(f)' = FirstCluster(f)
  BY DEF FirstCluster
<1>3. \A f : ChainLength(f)' = ChainLength(f)
  BY DEF ChainLength
<1>4. \A f : DirectoryEntry(f)' = DirectoryEntry(f)
  BY <1>2 DEF DirectoryEntry, FileSize
<1> QED BY <1>1, <1>2, <1>3, <1>4

(* Where the host is before it reads: in a cluster of the chain. *)
LEMMA Position ==
  ASSUME view \in Views, Following, pos < Length(file, entry)
  PROVE  LET q == pos \div ClusterSize
             r == pos % ClusterSize
         IN /\ q \in Nat /\ q < ChainLength(file)
            /\ r \in Nat /\ r < ClusterSize /\ pos = ClusterSize * q + r
            /\ cluster = FirstCluster(file) + q
            /\ cluster \in Nat /\ cluster >= 2 /\ cluster < DataClusters + 2
<1> DEFINE q == pos \div ClusterSize
           r == pos % ClusterSize
           n == ChainLength(file)
<1>1. file \in Files /\ entry = DirectoryEntry(file) /\ pos \in Nat
  BY DEF Following
<1>2. /\ n \in Nat /\ FirstCluster(file) \in Nat /\ FirstCluster(file) >= 2
      /\ FirstCluster(file) + n <= DataClusters + 2
      /\ Length(file, entry) \in Nat /\ Length(file, entry) <= ClusterSize * n
  BY <1>1, ChainIs
<1>3. q \in Nat /\ r \in 0..(ClusterSize - 1) /\ pos = ClusterSize * q + r
  BY <1>1, ClusterSizeIs, Divided
<1>4. ClusterSize * n \in Int /\ ClusterSize * q \in Int
  BY <1>2, <1>3, ClusterSizeIs, Multiples
<1>5. pos < ClusterSize * n
  BY <1>1, <1>2, <1>4
<1>6. cluster = FirstCluster(file) + q
  BY <1>5 DEF Following
<1> HIDE DEF q, r, n
<1>7. q < n
  <2>1. SUFFICES ASSUME n <= q PROVE FALSE
    BY <1>2, <1>3
  <2>2. ClusterSize * n <= ClusterSize * q
    BY <1>2, <1>3, <2>1, ClusterSizeIs, Monotone
  <2> QED BY <1>1, <1>3, <1>4, <1>5, <2>2, ClusterSizeIs
<1>8. cluster \in Nat /\ cluster >= 2 /\ cluster < DataClusters + 2
  BY <1>2, <1>3, <1>6, <1>7, GeometryIs
<1> QED BY <1>3, <1>6, <1>7, <1>8, ClusterSizeIs DEF q, r, n

(* A transfer that stays in a cluster of the chain delivers the file. *)
LEMMA TransferDelivers ==
  ASSUME view \in Views, Following, pos < Length(file, entry),
         NEW n \in Nat, (pos % ClusterSize) + n <= ClusterSize,
         NEW i \in 0..(n - 1)
  PROVE  LET r == pos % ClusterSize IN
         ByteRead(Read10(HostSector(cluster, r \div Bpb.bytesPerSector),
                         r % Bpb.bytesPerSector, n), i) = FileByte(file, pos + i)
<1> DEFINE q == pos \div ClusterSize
           r == pos % ClusterSize
           s == r \div SectorSize
           o == r % SectorSize
           t == (o + i) \div SectorSize
           j == (o + i) % SectorSize
           lba == HostSector(cluster, s)
<1>1. /\ q \in Nat /\ q < ChainLength(file)
      /\ r \in Nat /\ r < ClusterSize /\ pos = ClusterSize * q + r
      /\ cluster = FirstCluster(file) + q
      /\ cluster \in Nat /\ cluster >= 2 /\ cluster < DataClusters + 2
  BY Position
<1>2. r + n <= ClusterSize /\ i \in Nat /\ r + i < ClusterSize
  BY <1>1, ClusterSizeIs
<1> HIDE DEF r
<1>3. /\ s \in 0..(SectorsPerCluster - 1) /\ o \in 0..(SectorSize - 1)
      /\ r = SectorSize * s + o
      /\ t \in Nat /\ j \in 0..(SectorSize - 1)
      /\ s + t \in 0..(SectorsPerCluster - 1)
      /\ r + i = SectorSize * (s + t) + j
  BY <1>1, <1>2, InCluster
<1> HIDE DEF s, o, t, j, q
<1>4. /\ lba \in Nat /\ lba = HostSector(cluster, 0) + s
      /\ HostSector(cluster, 0) \in Nat
      /\ HostSector(cluster, 0) + SectorsPerCluster <= TotalSectors
      /\ lba < TotalSectors
  <2>1. 0 \in 0..(SectorsPerCluster - 1)
    BY ClusterSizeIs
  <2> QED BY <1>1, <1>3, <2>1, SectorOfCluster
<1>5. lba * SectorSize + o + n <= TotalSectors * SectorSize
  <2> DEFINE b == HostSector(cluster, 0)
  <2>1. lba = b + s /\ b \in Nat /\ b + SectorsPerCluster <= TotalSectors
    BY <1>4
  <2> HIDE DEF lba, b
  <2>2. SectorSize * (b + SectorsPerCluster) <= SectorSize * TotalSectors
    BY <2>1, ClusterSizeIs, GeometryIs, Monotone
  <2>3. /\ SectorSize * (b + SectorsPerCluster) = SectorSize * b + ClusterSize
        /\ SectorSize * TotalSectors = TotalSectors * SectorSize
        /\ lba * SectorSize = SectorSize * b + SectorSize * s
        /\ SectorSize * b \in Int /\ SectorSize * s \in Int
        /\ TotalSectors * SectorSize \in Int
    BY <1>3, <2>1, ClusterSizeIs, GeometryIs
  <2> QED BY <1>2, <1>3, <2>2, <2>3, ClusterSizeIs
<1>6. ByteRead(Read10(lba, o, n), i) = ByteOf(ReadSector(lba + t), j)
  <2> HIDE DEF lba
  <2> QED BY <1>3, <1>4, <1>5, ByteOfTransfer DEF t, j
<1>7. ReadSector(lba + t) = DataSector(cluster, (s + t) * SectorSize)
  <2>1. /\ HostSector(cluster, s + t) = HostSector(cluster, 0) + (s + t)
        /\ ReadSector(HostSector(cluster, s + t)) = DataSector(cluster, (s + t) * SectorSize)
    BY <1>1, <1>3, SectorOfCluster
  <2>2. HostSector(cluster, s + t) = lba + t
    <3> HIDE DEF lba
    <3> QED BY <1>3, <1>4, <2>1
  <2> QED BY <2>1, <2>2
<1>8. ByteOf(DataSector(cluster, (s + t) * SectorSize), j) =
        FileByte(file, ClusterSize * q + SectorSize * (s + t) + j)
  BY <1>1, <1>3, DataByte DEF Following
<1>9. ClusterSize * q + SectorSize * (s + t) + j = pos + i
  <2>1. ClusterSize * q \in Int /\ SectorSize * (s + t) \in Int
    BY <1>1, <1>3, ClusterSizeIs
  <2> QED BY <1>1, <1>2, <1>3, <2>1, ClusterSizeIs
<1>10. ByteRead(Read10(lba, o, n), i) = FileByte(file, pos + i)
  <2> HIDE DEF lba
  <2> QED BY <1>6, <1>7, <1>8, <1>9
<1> QED BY <1>10, BootSectorIs DEF r, s, o

(* Reading on keeps the host in its chain. *)
LEMMA StepReadNext ==
  ASSUME VolumeInv, ReadNext
  PROVE  VolumeInv'
<1> DEFINE q == pos \div ClusterSize
           r == pos % ClusterSize
           n == read'
<1>1. /\ view \in Views /\ Following /\ pos < Length(file, entry)
      /\ view' = view /\ file' = file /\ entry' = entry /\ transfer' = transfer
      /\ n = Least(transfer, ClusterSize - r)
      /\ got' = Read10(HostSector(cluster, r \div Bpb.bytesPerSector),
                       r % Bpb.bytesPerSector, n)
      /\ pos' = pos + n
      /\ cluster' = IF r + n = ClusterSize THEN HostNext(cluster) ELSE cluster
  BY DEF VolumeInv, ReadNext
<1>2. /\ q \in Nat /\ q < ChainLength(file)
      /\ r \in Nat /\ r < ClusterSize /\ pos = ClusterSize * q + r
      /\ cluster = FirstCluster(file) + q
      /\ cluster \in Nat /\ cluster >= 2 /\ cluster < DataClusters + 2
  BY <1>1, Position
<1>3. file \in Files /\ entry = DirectoryEntry(file) /\ pos \in Nat /\ transfer \in Transfers
  BY <1>1 DEF Following
<1>4. n \in Nat /\ n > 0 /\ r + n <= ClusterSize
  <2>1. transfer \in Nat /\ transfer > 0
    BY <1>3, GeometryAssumption
  <2> HIDE DEF r
  <2> QED BY <1>1, <1>2, <2>1, ClusterSizeIs DEF Least
<1>5. ReadsFile'
  <2>1. ASSUME NEW i \in 0..(n - 1)
        PROVE  ByteRead(got', i) = FileByte(file, pos + i)
    BY <1>1, <1>4, TransferDelivers
  <2>2. ASSUME NEW i \in 0..(n - 1)
        PROVE  ByteRead(got', i) = FileByte(file, pos' - n + i)
    <3>1. pos' - n + i = pos + i
      BY <1>1, <1>3, <1>4
    <3> QED BY <2>1, <3>1
  <2>3. Length(file, entry)' = Length(file, entry)
    BY <1>1 DEF Length
  <2>4. SUFFICES ASSUME NEW i \in 0..(n - 1)
                 PROVE  ByteRead(got', i) = FileByte(file, pos - read + i)'
    BY DEF ReadsFile
  <2>5. ByteRead(got', i) = FileByte(file, pos' - n + i)
    BY <2>2
  <2> QED BY <1>1, <2>3, <2>5 DEF FileByte
<1>6. ASSUME pos' < ClusterSize * ChainLength(file)
      PROVE  cluster' = FirstCluster(file) + pos' \div ClusterSize
  <2> DEFINE m == ChainLength(file)
  <2>1. m \in Nat
    BY <1>1, <1>3, ChainIs
  <2> HIDE DEF q, r, n, m
  <2>2. CASE r + n < ClusterSize
    <3>1. pos' = ClusterSize * q + (r + n) /\ r + n \in 0..(ClusterSize - 1)
      <4>1. ClusterSize * q \in Int
        BY <1>2, ClusterSizeIs, Multiples
      <4> QED BY <1>1, <1>2, <1>4, <2>2, <4>1, ClusterSizeIs
    <3>2. (ClusterSize * q + (r + n)) \div ClusterSize = q
      BY <1>2, <3>1, ClusterSizeIs, Quotient
    <3>3. cluster' = cluster
      BY <1>1, <1>2, <1>4, <2>2, ClusterSizeIs
    <3> QED BY <1>2, <3>1, <3>2, <3>3
  <2>3. CASE r + n = ClusterSize
    <3>1. pos' = ClusterSize * (q + 1) + 0
      <4>1. ClusterSize * (q + 1) = ClusterSize * q + ClusterSize
            /\ ClusterSize * q \in Int
        BY <1>2, ClusterSizeIs, Multiples
      <4> QED BY <1>1, <1>2, <1>4, <2>3, <4>1, ClusterSizeIs
    <3>2. (ClusterSize * (q + 1) + 0) \div ClusterSize = q + 1
      BY <1>2, ClusterSizeIs, Quotient
    <3>3. q + 1 < m
      <4>1. SUFFICES ASSUME m <= q + 1 PROVE FALSE
        BY <1>2, <2>1
      <4>2. ClusterSize * m <= ClusterSize * (q + 1)
        BY <1>2, <2>1, <4>1, ClusterSizeIs, Monotone
      <4>3. ClusterSize * m \in Int /\ ClusterSize * (q + 1) \in Int
        BY <1>2, <2>1, ClusterSizeIs, Multiples
      <4> QED BY <1>6, <3>1, <4>2, <4>3 DEF m
    <3>4. cluster' = FirstCluster(file) + q + 1
      <4>1. HostNext(cluster) = FatEntry(cluster)
        BY <1>1, <1>2, HostNextIs
      <4>2. FatEntry(FirstCluster(file) + q) = FirstCluster(file) + q + 1
        BY <1>1, <1>2, <1>3, <3>3, FatChain DEF m
      <4> QED BY <1>1, <1>2, <2>3, <4>1, <4>2
    <3>5. FirstCluster(file) + q + 1 = FirstCluster(file) + (q + 1)
      BY <1>1, <1>2, <1>3, ChainIs
    <3> QED BY <3>1, <3>2, <3>4, <3>5
  <2> QED BY <1>2, <1>4, <2>2, <2>3, ClusterSizeIs
<1>7. Following'
  <2>1. /\ file' \in Files' /\ entry' = DirectoryEntry(file)' /\ pos' \in Nat
        /\ transfer' \in Transfers
    BY <1>1, <1>3, <1>4, ViewKept
  <2>2. /\ FirstCluster(file)' = FirstCluster(file)
        /\ ChainLength(file)' = ChainLength(file)
    BY <1>1, ViewKept DEF FirstCluster, ChainLength
  <2> QED BY <1>6, <2>1, <2>2 DEF Following
<1> QED BY <1>1, <1>5, <1>7 DEF VolumeInv

LEMMA StepOpen ==
  ASSUME VolumeInv, NEW f \in RootFiles \cup LogFiles, Open(f)
  PROVE  VolumeInv'
<1>1. /\ view' = view /\ file' = f /\ entry' = DirectoryEntry(f) /\ pos' = 0
      /\ cluster' = FirstCluster(f) /\ transfer' \in Transfers
  BY DEF Open, DirectoryEntry
<1>2. view \in Views /\ f \in Files
  BY DEF VolumeInv, Files
<1>3. 0 \div ClusterSize = 0
  <2>1. (ClusterSize * 0 + 0) \div ClusterSize = 0
    BY ClusterSizeIs, Quotient
  <2>2. ClusterSize * 0 + 0 = 0
    BY ClusterSizeIs
  <2> QED BY <2>1, <2>2
<1>4. FirstCluster(f) \in Nat
  BY <1>2, ChainIs
<1>5. Following'
  <2>1. file' \in Files' /\ entry' = DirectoryEntry(file)'
    BY <1>1, <1>2, ViewKept DEF DirectoryEntry, FirstCluster, FileSize
  <2>2. FirstCluster(file)' = FirstCluster(f)
    BY <1>1 DEF FirstCluster
  <2> QED BY <1>1, <1>3, <1>4, <2>1, <2>2 DEF Following
<1>6. ReadsFile'
  BY <1>1 DEF ReadsFile
<1> QED BY <1>1, <1>2, <1>5, <1>6 DEF VolumeInv

LEMMA StepClose ==
  ASSUME VolumeInv, Close
  PROVE  VolumeInv'
BY DEF VolumeInv, Close, ReadsFile

LEMMA InitVolume ==
  Init => VolumeInv
BY DEF Init, VolumeInv, ReadsFile

LEMMA StepVolume ==
  VolumeInv /\ [Next]_vars => VolumeInv'
<1> SUFFICES ASSUME VolumeInv, [Next]_vars PROVE VolumeInv'
  OBVIOUS
<1>1. CASE \E f \in RootFiles \cup LogFiles : Open(f)
  BY <1>1, StepOpen
<1>2. CASE ReadNext
  BY <1>2, StepReadNext
<1>3. CASE Close
  BY <1>3, StepClose
<1>4. CASE UNCHANGED vars
  <2>1. /\ view' = view /\ file' = file /\ entry' = entry /\ pos' = pos /\ cluster' = cluster
        /\ transfer' = transfer /\ got' = got /\ read' = read
    BY <1>4 DEF vars
  <2>2. ReadsFile'
    BY <2>1 DEF VolumeInv, ReadsFile, FileByte, Length
  <2>3. Following => Following'
    <3>1. Files' = Files /\ DirectoryEntry(file)' = DirectoryEntry(file)
          /\ FirstCluster(file)' = FirstCluster(file) /\ ChainLength(file)' = ChainLength(file)
      BY <2>1, ViewKept DEF DirectoryEntry, FirstCluster, FileSize, ChainLength
    <3> QED BY <2>1, <3>1 DEF Following
  <2> QED BY <2>1, <2>2, <2>3 DEF VolumeInv
<1> QED BY <1>1, <1>2, <1>3, <1>4 DEF Next

(* The host is where its position says, whatever it reads. *)
LEMMA VolumeInvariant == Spec => []VolumeInv
<1> QED BY InitVolume, StepVolume, PTL DEF Spec

-----------------------------------------------------------------------------
(* The theorems.                                                           *)

(* Following the FAT from a file's directory entry delivers the bytes of   *)
(* that file, in order, and zeros after its end: read_latest_file_range,   *)
(* read_history_file_range and the regions of virtual_disk_read_sector     *)
(* agree with the chains of rebuild_virtual_fat_metadata, and              *)
(* virtual_disk_read cuts a transfer of any length into the right pieces.  *)
THEOREM ReadsFileHolds == Spec => []ReadsFile
<1>1. VolumeInv => ReadsFile
  BY DEF VolumeInv
<1> QED BY <1>1, VolumeInvariant, PTL

(* Before the last byte of a file the host is never led off its chain, nor *)
(* beyond the volume the boot sector describes, nor beyond the capacity    *)
(* that tud_msc_capacity_cb reports.                                       *)
THEOREM ChainCoversHolds == Spec => []ChainCovers
<1>1. VolumeInv => ChainCovers
  <2> SUFFICES ASSUME VolumeInv, file # NoFile, pos < Length(file, entry)
               PROVE  /\ cluster \in 2..(HostClusters + 1)
                      /\ HostSector(cluster, Bpb.sectorsPerCluster - 1) < Capacity.blocks
                      /\ Bpb.bytesPerSector = Capacity.blockSize
    BY DEF ChainCovers
  <2>1. cluster \in Nat /\ cluster >= 2 /\ cluster < DataClusters + 2
    BY Position DEF VolumeInv
  <2>2. cluster \in 2..(HostClusters + 1)
    BY <2>1, HostGeometry, GeometryIs
  <2>3. HostSector(cluster, SectorsPerCluster - 1) < TotalSectors
    <3>1. SectorsPerCluster - 1 \in 0..(SectorsPerCluster - 1)
      BY ClusterSizeIs
    <3> QED BY <2>1, <3>1, SectorOfCluster
  <2> QED BY <2>2, <2>3, BootSectorIs DEF Capacity
<1> QED BY <1>1, VolumeInvariant, PTL
=============================================================================
