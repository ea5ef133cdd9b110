SPECIFICATION Spec
CONSTANTS
  VGA_WIDTH = 2
  VGA_HEIGHT = 3
  KEYBOARD_BUFFER_SIZE = 3
  UINT8 = 4
  InputSize = 1
  Glyphs = {"a"}
  Texts <- MCTexts
INVARIANT TypeOK
PROPERTIES ShownIsDelivered PromptKept
