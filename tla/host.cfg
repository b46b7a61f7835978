SPECIFICATION MCSpec
CONSTANTS
  self = self
  admin = admin
  token = token
  xlm = xlm
  payee = payee
  other = other
  c1 = c1
  c2 = c2
  r1 = r1
  r2 = r2
  NoRotation = NoRotation
  NoValue = NoValue
  Self = self
  Commitment = {c1, c2}
  Root = {r1, r2}
  U32Max = 5
  AmountLimit = 8
  Delay = 1
  EntryLife = 3
  Opening = 1
  Deposits = {1, 2}
  InflowLimit = 3
  Nonce = {1, 2, 3}
  Asset = {token, xlm}
  Half <- MCHalf
  Address <- MCAddress
  CapOf <- MCCapOf
  MembersOf <- MCMembersOf
  DestField <- MCDestField
  ConstructorArgs <- MCConstructorArgs
  AuthCalls <- MCAuthCalls
  Proposals <- MCProposals
  Entries <- MCEntries
  CallLists <- MCCallLists
  Payload <- MCPayload
  Scripts = {"proof", "cycle", "create"}
  Builds <- MCBuilds
  Retries = 3
  NoTx = NoTx
INVARIANTS
  MoneyMatchesBudget
  ProofPaysOnce
  LastWordHolds
  EvidenceIsSound
PROPERTIES
  DebitsAreInPolicy
