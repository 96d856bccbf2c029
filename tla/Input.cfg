SPECIFICATION FairSpec
CONSTANTS
  Codes <- TwinCodes
  Buttons = {0, 2, 3}
  Points <- MCPoints
  WheelDeltas <- MCDeltas
  Nowhere <- MCNowhere
  Center <- MCCenter
  MaxU16 = 3
  MaxEvents = 4
INVARIANT InputTypeOK
INVARIANT ActionsWhereMade
INVARIANT PointerAgrees
INVARIANT ButtonsAgree
INVARIANT KeysAgree
PROPERTY PointerFollows
\* The user may stop.
CHECK_DEADLOCK FALSE
