SPECIFICATION FairSpec
CONSTANTS
  Surfaces = {s1}
  Nobody = nobody
  Observed = s1
  QueueLimit = 2
  MaxPackets = 5
PROPERTY PacketsRelayed
\* Packets may stop coming.
CHECK_DEADLOCK FALSE
