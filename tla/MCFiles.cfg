SPECIFICATION FilesSpec
CONSTANTS
  a = a
  b = b
  uwu = uwu
  txt = txt
  ClusterMapSize = 5
  TableSize = 6
  ClusterSize = 2
  Blocks = 1
  Names = {a, b}
  RootName = root
  NoName = noname
  JunkName = junk
  Exts = {uwu, txt}
  NoExt = noext
  CallerNames = {a, b}
  FolderExts = {noext}
  FileSizes = {2}
  ReadSizes = {2}
  ListingSizes = {2}
  DeleteSizes = {0}
  CallerOps = {}
  PowerFailsAt = {}
  CatClusters = 1
  StartFiles <- MCStartFiles
INVARIANTS FilesTypeOK CatWithinBuffer
PROPERTIES CommandEffect CopiesEnd
