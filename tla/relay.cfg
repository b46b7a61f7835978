SPECIFICATION RelaySpec
CONSTANTS
  self = self
  admin = admin
  token = token
  payee = payee
  c1 = c1
  r1 = r1
  Request = {q1, q2}
  NoRotation = NoRotation
  NoValue = NoValue
  Self = self
  Commitment = {c1}
  Root = {r1}
  U32Max = 3
  AmountLimit = 8
  Opening = 2
  Deposits = {}
  InflowLimit = 0
  Proposals = {}
  Nonce = {1, 2, 3}
  Half = {1, 2, 3}
  Asset = {token}
  UsdcSac = token
  MaxPolls = 2
  TxLife = 1
  Address <- MCAddress
  CapOf <- MCCapOf
  MembersOf <- MCMembersOf
  DestField <- MCDestField
  ConstructorArgs <- MCConstructorArgs
  AuthCalls <- MCAuthCalls
  Entries <- MCEntries
  CallLists <- MCCallLists
  Payload <- MCPayload
  Bodies <- MCBodies
INVARIANTS
  AnswersAreTrue
  OneSuccessPerEntry
  NoProofNoMoney
PROPERTIES
  EveryRequestAnswered
  FinalInTime
