SPECIFICATION Spec
CONSTANTS
  Props = {"offset", "minimum_rotation", "motion", "ir_threshold", "color",
           "character_set", "character", "firmware_version", "module_info"}
  Numbers <- MCNumbers
  Ramps = {5, 255}
  Colours = {0, 258, 16777215}
  NotHex = NotHex
  Blank = Blank
  Symbols = {1, 2, 99}
  SymbolCnt = 48
  Checksum <- MCChecksum
  Version <- MCVersion
  None = None
INVARIANTS TypeOK InLimits PostedArrives ShownAsConfigured
PROPERTY RewriteIsSilent
