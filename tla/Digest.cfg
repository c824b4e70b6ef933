SPECIFICATION FairSpec
CONSTANTS
  Runners = {r1, r2}
  Deadlined = {r1, r2}
  Recalls = {c1}
  Ids = {i1, i2, i3, i4}
  MaxWeek = 3
  FaultyWeeks = {1, 2}
  LostReplies = FALSE
  NoOne = NoOne
  NoId = NoId
  Unmarked = Unmarked
  Baseline = Baseline
INVARIANTS
  ClaimInv
  OncePerWeek
  AnnouncedOnce
  AnnouncedStaysMarked
PROPERTIES
  OnlyUnsentReleased
  KeepsPromise
  NewRecallsAnnounced
