SPECIFICATION MCSpec
CONSTANTS
  MaxInt = 2000
  RecordIds = {1, 2}
  ReminderIds = {1, 2}
  Types = {oil, tires}
  Reminded = {oil}
  Days <- MCDays
  RecordDays <- MCRecordDays
  Times = {1, 2}
  Mileages <- MCMileages
  Intervals <- MCIntervals
  Snoozes <- MCSnoozes
  Nothing = Nothing
  Histories <- MCHistories
  ReadAt <- MCReadAt
  Readings <- MCReadings
  CustomFields <- MCCustomFields
  Ledgers <- MCLedgers
  Warranties <- MCWarranties
INVARIANTS
  OverdueIsReached
  HintComesTrue
  SnoozeDefers
  SpendAgrees
  WarrantyEndsForGood
PROPERTIES
  SnoozeEndsWithPromotion
  OverdueStays
