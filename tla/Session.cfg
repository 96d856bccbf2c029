SPECIFICATION FairSpec
CONSTANTS
  MaxEvents = 4
  MaxInputs = 2
  MaxJunk = 1
  MaxOutputs = 1
  WireCapacity = 1
INVARIANT SessionTypeOK
INVARIANT EventsConserved
INVARIANT EventsFormPrefix
INVARIANT FailureReported
INVARIANT ErrorIsReal
INVARIANT InputsFormPrefix
PROPERTY LeavingEndsSession
PROPERTY RdpEndEndsSession
PROPERTY EventsRelayed
PROPERTY InputsRelayed
\* A session comes to its end.
CHECK_DEADLOCK FALSE
