SPECIFICATION FairRecallSpec
CONSTANTS
  Checkers = {k1}
  Vehicles = {v1, v2}
  Campaigns = {}
  Identities = {A, B}
  Flaky = {B}
  SessionDrops = TRUE
  NoIdentity = NoIdentity
  NoOne = NoOne
  Unmarked = Unmarked
  Baseline = Baseline
PROPERTIES
  DueVehiclesChecked
