SPECIFICATION PFairSpec
CONSTANTS
  b1 = b1
  c1 = c1
  o1 = o1
  o2 = o2
  null = null
  Court <- OneCourt
  Slot <- OneSlot
  Period <- OneSlot
  BookingId <- OneBooking
  AvailableProvider <- BothProviders
  Ref <- TwoSessions
  NoRef = null
  DepositPolicy <- Sometimes
  HoldTicks = 1
  CancelWindow = 2
  MaxTime = 4
INVARIANTS PaidIsCaptured RecordedRefundWasMade
PROPERTIES RefundOnlyForStandingBooking OnlyTimelyPaymentConfirms TimelyPaymentCounts HoldIsDecided DrivesBookings
CHECK_DEADLOCK FALSE
