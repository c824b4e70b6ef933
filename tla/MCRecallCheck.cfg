SPECIFICATION RecallSpec
CONSTANTS
  Checkers = {k1, k2}
  Vehicles = {v1}
  Campaigns = {c1, c2}
  Identities = {A, B}
  Flaky = {}
  SessionDrops = FALSE
  NoIdentity = NoIdentity
  NoOne = NoOne
  Unmarked = Unmarked
  Baseline = Baseline
SYMMETRY Symmetry
INVARIANTS
  DismissalsMirrored
  ShownFitsVehicle
PROPERTIES
  BaselineIsSilent
