SPECIFICATION FairSpec
CONSTANTS
  Replicas = {r1, r2}
  Reminders = {oil, tires}
  Broken = {tires}
  Window = 2
  MaxCycle = 1
  MaxTroubles = 1
  NoOne = NoOne
  Nothing = Nothing
INVARIANTS
  DuplicatesCostFaults
  AcceptedIsRecorded
PROPERTIES
  OverdueMailed
  ShutdownEnds
