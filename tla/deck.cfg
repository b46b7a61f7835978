SPECIFICATION JoinedSpec
CONSTANTS
  self = self
  admin = admin
  token = token
  xlm = xlm
  payee = payee
  attacker = attacker
  c1 = c1
  c2 = c2
  cwrong = cwrong
  r1 = r1
  NoRotation = NoRotation
  NoValue = NoValue
  Self = self
  UsdcSac = token
  XlmSac = xlm
  Payee = payee
  Attacker = attacker
  Secret <- MCSecret
  WrongCommitment = cwrong
  Commitment = {c1, c2, cwrong}
  Root = {r1}
  Run = {"a"}
  Script = {"s"}
  Replay = {"again"}
  Plan <- MCPlan
  Mode = {"malleability", "noncelift", "oldpolicy", "wrongtoken", "redirect"}
  U32Max = 2
  AmountLimit = 8
  Life = 0
  Opening = 1
  Deposits = {1}
  InflowLimit = 1
  Nonce = {1, 2}
  Asset = {token, xlm}
  Half <- MCHalf
  Address <- MCAddress
  CapOf <- MCCapOf
  MembersOf <- MCMembersOf
  DestField <- MCDestField
  ConstructorArgs <- MCConstructorArgs
  AuthCalls <- MCAuthCalls
  Proposals <- MCProposals
  Entries <- MCEntries
  CallLists <- MCCallLists
  Payload <- MCPayload
  u1 = u1
  u2 = u2
  proxy = proxy
  site = site
  other = other
  Requests <- MCRequests
  OwnOrigins = {site}
  good = good
  bad = bad
  Nothing = Nothing
  Client <- MCClient
  Dest <- MCDest
  Vendors <- MCVendors
  Limit <- MCLimit
  Window = 2
  HitsMax = 1
  MaxRequests = 3
  MaxTime = 2
  MaxRestarts = 1
INVARIANTS
  AttacksNeverPay
  LimiterExact
  AnswersHold
PROPERTIES
  RejectedReplayMeansPaid
  EveryGateHolds
