SPECIFICATION Spec
CONSTANTS
  a = a
  b = b
  Texts = {a, b}
  Blank = blank
  MaxU16 = 2
  DefaultPort = 2
  DefaultWidth = 2
  DefaultHeight = 2
  Malformed = malformed
  None = none
  Entries <- MCEntries
  Settings <- MCSettings
  MaxTargets = 2
PROPERTY OptionsUnused
