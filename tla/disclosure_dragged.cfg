SPECIFICATION MCSpec
CONSTANTS
  Depth = 3
  MaxCreates = 2
  Allowlists <- MCAllowlists
  CapOf <- MCCapOf
  Limits = {1}
  FirstLimit = 2
  MaxVisits = 2
  MaxOldLoads = 1
  NoValue = NoValue
  WordBits = 8
  HalfBits = 4
  LimbBits = 2
  AmountBits = 3
  TopBits = 1
  Order = 193
  Payloads <- MCPayloads
  Recipients <- MCRecipients
  Amounts <- MCAmounts
  Policies <- MCPolicies
  Setup <- MCSetup
  Points <- MCPoints
INVARIANT VerifiedAsShown
CHECK_DEADLOCK FALSE
