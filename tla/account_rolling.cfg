SPECIFICATION Spec
CONSTANTS
  self = self
  admin = admin
  token = token
  payee = payee
  half = half
  c1 = c1
  c2 = c2
  r1 = r1
  r2 = r2
  NoRotation = NoRotation
  NoValue = NoValue
  Self = self
  Half = {half}
  Commitment = {c2}
  Root = {r1}
  U32Max = 6
  AmountLimit = 8
  MaxTotal = 8
  Windows = {2}
  Budgets = {2}
  Delays = {1}
  Address <- MCAddress
  CapOf <- MCCapOf
  MembersOf <- MCMembersOf
  DestField <- MCDestField
  ConstructorArgs <- MCConstructorArgs
  AuthCalls <- MCAuthCalls
  Proposals <- MCProposals
INVARIANT RollingBudget
CONSTRAINT BoundedTotal
