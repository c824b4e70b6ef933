SPECIFICATION FairSpec
CONSTANTS
  Requests = {q1, q2}
  Records = {r1}
  Vehicles = {v1}
  Keys = {k1, k2}
  MaxFiles = 2
  NoKey = NoKey
INVARIANTS
  NoDanglingKey
  DiscardsAreOrphans
  AssetInv
PROPERTIES
  OrphansRemoved
