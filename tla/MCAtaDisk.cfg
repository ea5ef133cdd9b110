SPECIFICATION FairAtaSpec
CONSTANTS
  x = x
  y = y
  Addresses <- MCAddresses
  Contents = {x, y}
  Junk = junk
  Reads <- MCReads
  Writes <- MCWrites
INVARIANT AtaTypeOK
PROPERTIES StoreImplemented AtaCallsReturn
