SPECIFICATION MCSpec
CONSTANTS
  SweepMin = 1
  SeedAmount = 1
  Tries <- MCTries
  Funds <- MCFunds
  MaxStarts = 3
  Request = {p1, p2, p3}
INVARIANTS
  NoTransferFails
  NoBlindRepeat
  OwnProof
PROPERTIES
  SweepComesBack
  EveryProofEnds
CHECK_DEADLOCK FALSE
