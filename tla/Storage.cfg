SPECIFICATION FsSpec
CONSTANTS
  DataPaths <- MCDataPaths
  Folder = Folder
  Batches <- MCBatches
  MaxBoots = 3
  MaxLength = 2
CHECK_DEADLOCK FALSE
INVARIANTS
  TypeOK
  LastLogKept
  NoEmptyFolders
  WrittenWhole
  PastLogReadable
  PastIsPast
