SPECIFICATION Spec
CONSTANTS
  Surfaces = {s1, s2}
  Nobody = nobody
  Observed = s1
  QueueLimit = 1
  MaxPackets = 3
INVARIANT DecoderTypeOK
INVARIANT PacketsConserved
INVARIANT NothingRejected
INVARIANT DrainResumes
INVARIANT CloseIsFinal
\* Packets may stop coming.
CHECK_DEADLOCK FALSE
