SPECIFICATION ShellSpec
CONSTANTS
  a = a
  b = b
  uwu = uwu
  ClusterMapSize = 8
  TableSize = 3
  ClusterSize = 2
  Blocks = 1
  Names = {a, b}
  RootName = root
  NoName = noname
  JunkName = junk
  Exts = {uwu}
  NoExt = noext
  CallerNames = {a, b}
  FolderExts = {noext}
  FileSizes = {2}
  ReadSizes = {2}
  ListingSizes = {2}
  DeleteSizes = {0}
  CallerOps = {}
  PowerFailsAt = {}
  StartFiles <- MCStartFiles
INVARIANTS ShellTypeOK CwdNameListed
PROPERTY CommandsEnd
