SPECIFICATION PSpec
CONSTANTS
  Base = 10
  PrefixLength = 4
  Bytes <- MCBytes
  Units <- MCUnits
  MaxPieces = 5
  Magic <- MCMagic
  Null = null
  SafeInteger = 99999998
  Headers <- MCHeaders
INVARIANT ParsersAgree
INVARIANT DescriptionReads
INVARIANT RoundTrip
\* The data end.
CHECK_DEADLOCK FALSE
