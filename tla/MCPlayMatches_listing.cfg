SPECIFICATION ListSpec
CONSTANTS
  b1 = b1
  c1 = c1
  m1 = m1
  m2 = m2
  p1 = p1
  p2 = p2
  p3 = p3
  p4 = p4
  o1 = o1
  null = null
  Court <- OneCourt
  Slot <- OneSlot
  Period <- Closing
  BookingId <- OneBooking
  AvailableProvider <- Stripe
  Ref <- OneRef
  NoRef = null
  DepositPolicy <- Always
  HoldTicks = 1
  CancelWindow = 2
  MaxTime = 4
  Player <- TwoPlayers
  MatchId <- OneMatch
  NoId = null
  PLAY_MATCH_SIZE = 2
PROPERTIES PaidBookingStands
CHECK_DEADLOCK FALSE
