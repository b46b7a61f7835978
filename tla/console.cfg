SPECIFICATION ConsoleSpec
CONSTANTS
  self = self
  admin = admin
  token = token
  c1 = c1
  c2 = c2
  r1 = r1
  NoRotation = NoRotation
  NoValue = NoValue
  Self = self
  Commitment = {c1, c2}
  Root = {r1}
  Half = {1}
  U32Max = 4
  AmountLimit = 8
  Delay = 1
  TxLife = 1
  MaxClicks = 2
  MaxRivals = 1
  MaxSwitches = 1
  Address <- MCAddress
  CapOf <- MCCapOf
  MembersOf <- MCMembersOf
  DestField <- MCDestField
  ConstructorArgs <- MCConstructorArgs
  Proposals <- MCProposals
  AuthCalls = {}
INVARIANTS
  DoneIsDone
  NeverExecutesInVain
PROPERTY ConsoleComesBack
CHECK_DEADLOCK FALSE
