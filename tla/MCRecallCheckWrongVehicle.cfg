SPECIFICATION RecallSpec
CONSTANTS
  Checkers = {k1, k2}
  Vehicles = {v1}
  Campaigns = {c1}
  Identities = {A, B}
  Flaky = {}
  SessionDrops = TRUE
  NoIdentity = NoIdentity
  NoOne = NoOne
  Unmarked = Unmarked
  Baseline = Baseline
SYMMETRY CheckerSymmetry
INVARIANTS
  ShownFitsVehicle
