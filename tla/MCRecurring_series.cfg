SPECIFICATION RecurringSpec
CONSTANTS
  b1 = b1
  b2 = b2
  b3 = b3
  b4 = b4
  c1 = c1
  r1 = r1
  null = null
  Court <- OneCourt
  Slot <- Slots
  Period <- Closing
  BookingId <- FourBookings
  AvailableProvider <- NoProvider
  Ref <- NullOnly
  NoRef = null
  DepositPolicy <- Never
  HoldTicks = 1
  CancelWindow = 2
  MaxTime = 3
  SeriesId <- OneSeries
  NoSeries = null
  Week = 3
  Schedule <- Schedules
SYMMETRY Symmetry
PROPERTIES UpdateTakesWhatIsFree StandingIsNeverDeleted
CHECK_DEADLOCK FALSE
