SPECIFICATION DeskSpec
CONSTANTS
  b1 = b1
  b2 = b2
  c1 = c1
  c2 = c2
  null = null
  none = none
  Court <- TwoCourts
  Slot <- Slots
  Period <- Closing
  BookingId <- OneBooking
  AvailableProvider <- Stripe
  Ref <- NullOnly
  NoRef = null
  DepositPolicy <- Sometimes
  HoldTicks = 1
  CancelWindow = 1
  MaxTime = 3
  Day = 3
  Step = 1
  Zone <- Zones
  Date <- Dates
  VALID_DURATIONS <- Durations
  Settings <- SavedSettings
  FirstCourt = c1
  NoCourt = none
  NewId = b2
INVARIANTS PageIsTrue HoldsOweMoney
CHECK_DEADLOCK FALSE
