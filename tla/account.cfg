SPECIFICATION Spec
CONSTANTS
  self = self
  admin = admin
  token = token
  payee = payee
  half = half
  c1 = c1
  c2 = c2
  r1 = r1
  r2 = r2
  NoRotation = NoRotation
  NoValue = NoValue
  Self = self
  Half = {half}
  Commitment = {c1, c2}
  Root = {r1}
  U32Max = 7
  AmountLimit = 8
  MaxTotal = 10
  Windows = {0, 1, 3}
  Budgets = {0, 2, 8}
  Delays = {0, 1, 3}
  Address <- MCAddress
  CapOf <- MCCapOf
  MembersOf <- MCMembersOf
  DestField <- MCDestField
  ConstructorArgs <- MCConstructorArgs
  AuthCalls <- MCAuthCalls
  Proposals <- MCProposals
INVARIANTS
  TypeOK
  BudgetCounterExact
  TwoBudgetBound
PROPERTIES
  PolicyChangeWasStaged
  ImplementsVault
CONSTRAINT BoundedTotal
