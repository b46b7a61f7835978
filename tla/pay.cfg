SPECIFICATION PaySpec
CONSTANTS
  demo = demo
  user = user
  shop = shop
  lab = lab
  Flow = {1, 2}
  Account = {demo, user}
  Demo = demo
  Dest = {shop, lab}
  Payments <- MCPayments
  CapOf <- MCCapOf
  MembersOf <- MCMembersOf
  Opening <- MCOpening
  Modes = {"relay", "local", "none"}
  NoValue = NoValue
  MaxSwitches = 2
  MaxClock = 2
INVARIANTS
  MixedNeverSent
  TellsTheTruth
  CollisionPaysOnce
  ReceiptIsTrue
CHECK_DEADLOCK FALSE
PROPERTY EveryPaymentEnds
