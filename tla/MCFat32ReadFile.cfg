SPECIFICATION Spec
CONSTANTS
  n1 = n1
  e1 = e1
  ClusterMapSize = 5
  TableSize = 3
  ClusterSize = 2
  Blocks = 2
  Names = {n1}
  RootName = root
  NoName = noname
  JunkName = junk
  Exts = {e1}
  NoExt = noext
  CallerNames = {n1}
  FolderExts = {noext}
  FileSizes = {2, 3}
  ReadSizes = {2, 3}
  ListingSizes = {2}
  DeleteSizes = {0}
  CallerOps = {"write", "delete", "read", "read_directory"}
  PowerFailsAt = {}
INVARIANT ReadReturnsTheFile
