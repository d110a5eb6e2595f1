SPECIFICATION Spec
CONSTANTS
  b1 = b1
  b2 = b2
  c1 = c1
  c2 = c2
  o1 = o1
  null = null
  Court <- TwoCourts
  Slot <- OverlappingSlots
  Period <- Closing
  BookingId <- TwoBookings
  AvailableProvider <- Stripe
  Ref <- OneRef
  NoRef = null
  DepositPolicy <- Sometimes
  HoldTicks = 1
  CancelWindow = 2
  MaxTime = 3
SYMMETRY Symmetry
INVARIANTS NoDoubleBooking ConfirmedOnlyWhenPaid RefundMeansCancelled OutcomeAfterTheFact
PROPERTIES OnlyPaymentRevives BlackoutKeptFree ImplementsCalendar
CHECK_DEADLOCK FALSE
