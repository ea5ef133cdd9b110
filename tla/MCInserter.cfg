SPECIFICATION InserterSpec
CONSTANTS
  n1 = n1
  e1 = e1
  ClusterMapSize = 5
  TableSize = 3
  ClusterSize = 2
  Blocks = 1
  Names = {n1}
  RootName = root
  NoName = noname
  JunkName = junk
  Exts = {e1}
  NoExt = noext
  CallerNames = {n1}
  FolderExts = {noext}
  FileSizes = {3}
  ReadSizes = {3}
  ListingSizes = {2}
  DeleteSizes = {0}
  CallerOps = {"write", "delete", "read_directory"}
  PowerFailsAt = {"idle", "alloc", "walk", "flush"}
  ParentArgs = {2, 3}
  TargetSizes = {0, 3}
INVARIANTS InserterTypeOK NamesUnique DriverMatchesInserter
PROPERTIES InsertAddsOneEntry FoldersListedAfterAllocation
