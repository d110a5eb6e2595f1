SPECIFICATION AccessSpec
CONSTANTS
  p1 = p1
  p2 = p2
  e1 = e1
  e2 = e2
  k1 = k1
  k2 = k2
  i1 = i1
  l1 = l1
  n1 = n1
  n2 = n2
  f1 = f1
  f2 = f2
  w1 = w1
  w2 = w2
  null = null
  Player <- TwoPlayers
  Email <- TwoEmails
  Challenge <- TwoChallenges
  Invite <- OneInvite
  Link <- OneLink
  Name <- Names
  Phone <- PhoneNumbers
  Profile <- Applicants
  Worker <- TwoWorkers
  Purpose <- AllPurposes
  None = null
  MaxUses = 1
  PLAY_ACCESS_OTP_MAX_ATTEMPTS = 2
  PLAY_ACCESS_OTP_MAX_RESENDS = 1
  MaxRequests = 5
SYMMETRY Symmetry
INVARIANTS EmailsAreProved LinkAdmitsItsUses SessionsAreBounded
PROPERTIES ReopensOnlyWithNewCode VerifiedEmailIsKept
CHECK_DEADLOCK FALSE
