SPECIFICATION FairSpec
CONSTANTS
  r1 = r1
  r2 = r2
  r3 = r3
  c1 = c1
  c2 = c2
  Request <- ThreeRequests
  Court <- TwoCourts
  Slot <- TwoSlots
  Kind <- AllKinds
INVARIANTS NoCommittedOverlap CreationCheckHolds
PROPERTIES SerialAsOne EveryRequestEnds
