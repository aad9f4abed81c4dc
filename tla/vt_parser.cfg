SPECIFICATION ParserSpec
CONSTANTS
  Byte <- MCByte
  terminal_id = 220
  NPARAM = 2
  MaxText = 2
  MaxString = 2
VIEW MCView
PROPERTIES ReadsOwn StringWhole TextInItsSet FunctionsEnd
