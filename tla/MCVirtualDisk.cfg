SPECIFICATION Spec
CONSTANTS
  SectorSize = 512
  SectorsPerCluster = 2
  ReservedSectors = 1
  FatSectors = 9
  RootEntryCount = 32
  RootSectors = 2
  LogMax = 500
  LogDirClusters = 16
  FileClusters = 5
  AnalysisClusters = 32
  RawClusters = 302
  DebugClusters = 2
  BomSize = 3
  BmpHeaderSize = 1078
  RawBytes = 307200
  Transfers = {300, 1024}
  Views <- MCViews
INVARIANTS
  ReadsFile
  ChainCovers
