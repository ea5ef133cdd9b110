SPECIFICATION NamesSpec
CONSTANTS
  NameSize = 2
  ExtSize = 2
  Letters = {97, 98}
  MaxWord = 6
  Room = 16
  Sizes = {0, 9, 10, 2048, 10240}
INVARIANTS NamesTypeOK LongNamesKeepRequest FolderFoundByName FileFoundByName SizeShown
