SPECIFICATION NoticesSpec
CONSTANTS
  p1 = p1
  p2 = p2
  m1 = m1
  s1 = s1
  e1 = e1
  w1 = w1
  w2 = w2
  guest = guest
  null = null
  Player <- TwoPlayers
  Rank <- ByRank
  Keen <- TwoPlayers
  Match <- OneMatch
  Start <- InTurn
  Subscriber <- OneSubscriber
  Endpoint <- OneEndpoint
  Worker <- TwoWorkers
  Suits <- AllSuit
  Compatible <- AllCompatible
  Preference <- Choices
  Guest = guest
  None = null
  PLAY_NOTIFICATION_DAILY_CAP = 1
  RecipientLimit <- TwoEach
  MaxRequests = 4
SYMMETRY Symmetry
INVARIANTS DailyCapHeld AlertsNeverClash
CHECK_DEADLOCK FALSE
