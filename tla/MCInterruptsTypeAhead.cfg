SPECIFICATION SystemSpec
CONSTANTS
  VGA_WIDTH = 2
  VGA_HEIGHT = 4
  KEYBOARD_BUFFER_SIZE = 4
  UINT8 = 5
  InputSize = 2
  Glyphs = {}
  Texts <- MCTexts
  FirmwareMasks <- MCTimerMasked
  KeysAt <- MCAfterBoot
  QueueSize = 1
PROPERTY ScancodesProcessed
CHECK_DEADLOCK FALSE
