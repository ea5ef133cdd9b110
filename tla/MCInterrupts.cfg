SPECIFICATION SystemSpec
CONSTANTS
  VGA_WIDTH = 2
  VGA_HEIGHT = 4
  KEYBOARD_BUFFER_SIZE = 4
  UINT8 = 5
  InputSize = 2
  Glyphs = {}
  Texts <- MCTexts
  FirmwareMasks <- MCFirmwareMasks
  KeysAt <- MCAlways
  QueueSize = 1
INVARIANT SystemTypeOK
PROPERTIES KeysServed BlockedOnlyThere EnterReturnsLine
CHECK_DEADLOCK FALSE
