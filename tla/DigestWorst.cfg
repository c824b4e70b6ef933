SPECIFICATION Spec
CONSTANTS
  Runners = {r1, r2}
  Deadlined = {r1}
  Recalls = {c1}
  Ids = {i1, i2, i3}
  MaxWeek = 2
  FaultyWeeks = {1, 2}
  LostReplies = TRUE
  NoOne = NoOne
  NoId = NoId
  Unmarked = Unmarked
  Baseline = Baseline
INVARIANTS
  RepeatNeedsRelease
  CompletedWasSent
