SPECIFICATION Spec
CONSTANTS
  Visitors = {v1, v2}
  Records = {r1}
  MaxMiles = 2
  MaxDay = 2
  Unknown = Unknown
  NoOne = NoOne
  Nothing = Nothing
SYMMETRY Symmetry
INVARIANTS
  PendingUntilMileage
  NoUnconfirmedDrop
PROPERTIES
  OnlyReleasedLost
  CheckInNeverLowers
  SnapshotFixed
