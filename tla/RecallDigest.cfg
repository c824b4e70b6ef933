SPECIFICATION Spec
CONSTANTS
  Checkers = {k1}
  Vehicles = {v1}
  Campaigns = {c1}
  Identities = {A}
  Flaky = {}
  SessionDrops = TRUE
  NoIdentity = NoIdentity
  NoOne = NoOne
  Unmarked = Unmarked
  Baseline = Baseline
  Runners = {r1}
  Deadlined = {r1}
  Ids = {i1, i2}
  MaxWeek = 2
  FaultyWeeks = {1, 2}
  LostReplies = FALSE
  NoId = NoId
INVARIANTS
  RecallAnnouncedOnce
  DismissedStaysSilent
PROPERTIES
  DigestKept
