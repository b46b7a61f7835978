---------------------------- MODULE NulthAccount ----------------------------
(***************************************************************************)
(* The Soroban custom account of contracts/nulth_account/src/lib.rs: its   *)
(* instance storage, its constructor, its admin (governance) calls and     *)
(* __check_auth, the only authorization a payment of this account has.     *)
(*                                                                         *)
(* One step is one call that succeeds.  A call that panics or returns an   *)
(* AccError is reverted by the host with everything it wrote, so it is not *)
(* a step; the codes it reports, in the order of the source, are           *)
(* ConstructorVerdict, ExecuteVerdict and AuthVerdict.                     *)
(*                                                                         *)
(* Data.  Field elements are Int (amounts, address images) or members of   *)
(* Commitment, Root and Half.  Poseidon(cap, salt) and the Merkle root are *)
(* binding, so CapOf and MembersOf name what a commitment and a root       *)
(* commit to.  Event publication is left out.                              *)
(***************************************************************************)
EXTENDS Integers, Sequences

CONSTANTS
  U32Max,          \* u32::MAX, the last ledger sequence number
  AmountLimit,     \* 1 << AMOUNT_BITS
  Address,         \* addresses of accounts and contracts
  Self,            \* env.current_contract_address()
  Half,            \* 128-bit halves of a signature payload
  Commitment,      \* policy commitments
  Root,            \* allowlist roots
  CapOf,           \* the per-payment cap a commitment binds
  MembersOf,       \* the destination fields a root binds
  DestField,       \* addr_to_field, as a function
  ConstructorArgs, \* constructor arguments that are tried
  Proposals,       \* policies that are proposed
  AuthCalls,       \* __check_auth calls that are tried
  NoRotation,      \* PENDROT absent
  NoValue          \* an argument that is missing or of another type

N_PUBLIC == 6

Ledger == 1..U32Max
Policy == [commitment : Commitment, root : Root]
PendingRotation == [commitment : Commitment, root : Root, unlock_ledger : Ledger]

ConstructorArg ==
  [icLen : Nat, commitment : Commitment, root : Root, token : Address,
   admin : Address, epochLedgers : Nat, epochCap : Int, rotationDelay : Nat]

\* pub_signals by name, how many there are, and whether a, b, c are a proof
\* that the prover made for exactly these signals.
ProofSig ==
  [count : Nat, amount : Int, dest : Int, commitment : Commitment, root : Root,
   hi : Half, lo : Half, genuine : BOOLEAN]

Context ==
  [kind : {"Contract", "CreateContract"}, contract : Address, fn : STRING,
   from : Address \cup {NoValue}, to : Address \cup {NoValue},
   amount : Int \cup {NoValue}]

AuthCall ==
  [payload : [hi : Half, lo : Half], sig : ProofSig, contexts : Seq(Context)]

ASSUME BoundsAssumption ==
  /\ U32Max \in Nat \ {0}
  /\ AmountLimit \in Nat \ {0}

ASSUME DataAssumption ==
  /\ Self \in Address
  /\ CapOf \in [Commitment -> 0..(AmountLimit - 1)]
  /\ MembersOf \in [Root -> SUBSET Int]
  /\ DestField \in [Address -> Int]
  /\ NoRotation \notin PendingRotation
  /\ NoRotation \notin [at : Ledger, by : Address]
  /\ NoRotation \notin [policy : Policy, since : Ledger]
  /\ NoValue \notin Address \cup Int

\* sha256 of distinct addresses, cut to 248 bits, does not collide.
ASSUME DestFieldInjective ==
  \A a, b \in Address : DestField[a] = DestField[b] => a = b

ASSUME InputAssumption ==
  /\ ConstructorArgs \subseteq ConstructorArg
  /\ Proposals \subseteq Policy
  /\ AuthCalls \subseteq AuthCall

-----------------------------------------------------------------------------
VARIABLES
  now,       \* env.ledger().sequence()
  conf,      \* what only the constructor writes: VK, TOKEN, ADMIN, EPOCHLEN,
             \* EPOCHCAP and ROTDELAY
  pol,       \* POL
  root,      \* ROOT
  frozen,    \* FROZEN
  epochAnc,  \* EPOCHANC
  epochSpt,  \* EPOCHSPT
  pendRot,   \* PENDROT
  \* history variables, which no action reads
  total,     \* total[l]: all that was authorized up to the end of ledger l
  staged     \* when, and by whom, the pending rotation was proposed

storage == <<conf, pol, root, frozen, epochAnc, epochSpt, pendRot>>
vars == <<now, storage, total, staged>>

Smaller(x, y) == IF x < y THEN x ELSE y

WrappingAdd(a, b) == a + b                 \* mutant: a sum that leaves u32

\* u32::saturating_add
SatAdd(a, b) == Smaller(a + b, U32Max)

-----------------------------------------------------------------------------
(* Deployment.  The constructor runs inside the deploying transaction.     *)

ConstructorVerdict(a) ==
  IF a.icLen # N_PUBLIC + 1 THEN "MalformedVk"
  ELSE IF \/ a.epochLedgers = 0
          \/ a.epochCap <= 0
          \/ a.epochCap >= AmountLimit
          \/ a.rotationDelay = 0
  THEN "BadEpochConfig"
  ELSE "Ok"

Init ==
  \E a \in ConstructorArgs :
    /\ ConstructorVerdict(a) = "Ok"
    /\ now \in Ledger
    /\ conf = [token |-> a.token, admin |-> a.admin, icLen |-> a.icLen,
               epochLedgers |-> a.epochLedgers, epochCap |-> a.epochCap,
               rotationDelay |-> a.rotationDelay]
    /\ pol = a.commitment
    /\ root = a.root
    /\ frozen = FALSE
    /\ epochAnc = now
    /\ epochSpt = 0
    /\ pendRot = NoRotation
    /\ total = [l \in 0..U32Max |-> 0]
    /\ staged = NoRotation

-----------------------------------------------------------------------------
(* Governance.  `by` is the address whose authorization the call carries.  *)

RequireAdmin(by) == by = conf.admin

ProposeKeepingClock(by, c, r) ==           \* mutant: an overwrite keeps the old clock
  /\ RequireAdmin(by)
  /\ pendRot' = [commitment |-> c, root |-> r,
                 unlock_ledger |-> IF pendRot = NoRotation
                                   THEN SatAdd(now, conf.rotationDelay)
                                   ELSE pendRot.unlock_ledger]
  /\ staged' = [at |-> now, by |-> by]
  /\ UNCHANGED <<now, conf, pol, root, frozen, epochAnc, epochSpt, total>>

ProposeRotation(by, c, r) ==
  /\ RequireAdmin(by)
  /\ pendRot' = [commitment |-> c, root |-> r,
                 unlock_ledger |-> SatAdd(now, conf.rotationDelay)]
  /\ staged' = [at |-> now, by |-> by]
  /\ UNCHANGED <<now, conf, pol, root, frozen, epochAnc, epochSpt, total>>

ExecuteVerdict ==
  IF pendRot = NoRotation THEN "NoPendingRotation"
  ELSE IF now < pendRot.unlock_ledger THEN "RotationLocked"
  ELSE "Ok"

ExecuteRotation(by) ==
  /\ RequireAdmin(by)
  /\ ExecuteVerdict = "Ok"
  /\ pol' = pendRot.commitment
  /\ root' = pendRot.root
  /\ pendRot' = NoRotation
  /\ staged' = NoRotation
  /\ UNCHANGED <<now, conf, frozen, epochAnc, epochSpt, total>>

CancelRotation(by) ==
  /\ RequireAdmin(by)
  /\ pendRot' = NoRotation
  /\ staged' = NoRotation
  /\ UNCHANGED <<now, conf, pol, root, frozen, epochAnc, epochSpt, total>>

SetFrozen(by, f) ==
  /\ RequireAdmin(by)
  /\ frozen' = f
  /\ UNCHANGED <<now, conf, pol, root, epochAnc, epochSpt, pendRot, total, staged>>

Freeze(by) == SetFrozen(by, TRUE)
Unfreeze(by) == SetFrozen(by, FALSE)

-----------------------------------------------------------------------------
(* __check_auth                                                            *)

\* What the circuit proves of the signals (circuits/policy.circom): the amount
\* is at most the committed cap and the destination is a leaf under the root.
PolicyRelation(s) ==
  /\ s.amount \in 0..CapOf[s.commitment]
  /\ s.dest \in MembersOf[s.root]

UncheckedProof(s) ==                       \* mutant: the pairing's result is not used
  /\ s.count + 1 = conf.icLen
  /\ PolicyRelation(s)

\* groth16_verify; the proof system is sound, so a pairing that checks is a
\* proof of these signals and the relation holds of them.
Groth16Verify(s) ==
  /\ s.count + 1 = conf.icLen
  /\ s.genuine
  /\ PolicyRelation(s)

UnboundVerdict(c) ==                       \* mutant: a proof about any policy will do
  IF frozen THEN "AccountFrozen"
  ELSE IF c.sig.count # N_PUBLIC THEN "BadSignalCount"
  ELSE IF c.payload.hi # c.sig.hi \/ c.payload.lo # c.sig.lo THEN "BadSigPayload"
  ELSE IF Len(c.contexts) = 0 THEN "NoContext"
  ELSE IF Len(c.contexts) > 1 THEN "TooManyContexts"
  ELSE "Ok"

LiftedVerdict(c) ==                        \* mutant: a proof serves any signature payload
  IF frozen THEN "AccountFrozen"
  ELSE IF c.sig.count # N_PUBLIC THEN "BadSignalCount"
  ELSE IF c.sig.commitment # pol \/ c.sig.root # root THEN "BadPolicyBinding"
  ELSE IF Len(c.contexts) = 0 THEN "NoContext"
  ELSE IF Len(c.contexts) > 1 THEN "TooManyContexts"
  ELSE "Ok"

\* Gates on the stored state, the signals and the signature payload.
BindingVerdict(c) ==
  IF frozen THEN "AccountFrozen"
  ELSE IF c.sig.count # N_PUBLIC THEN "BadSignalCount"
  ELSE IF c.sig.commitment # pol \/ c.sig.root # root THEN "BadPolicyBinding"
  ELSE IF c.payload.hi # c.sig.hi \/ c.payload.lo # c.sig.lo THEN "BadSigPayload"
  ELSE IF Len(c.contexts) = 0 THEN "NoContext"
  ELSE IF Len(c.contexts) > 1 THEN "TooManyContexts"
  ELSE "Ok"

AnyToken(x) == TRUE                        \* mutant: any token may be moved

TokenPinned(x) == x.contract = conf.token

\* Gates on the one context: SAC transfer(from, to, amount) on the token.
ContextVerdict(x, s) ==
  IF x.kind # "Contract" \/ x.fn # "transfer" THEN "BadContext"
  ELSE IF ~TokenPinned(x) THEN "BadTokenBinding"
  ELSE IF x.from = NoValue THEN "BadContext"
  ELSE IF x.from # Self THEN "BadFromBinding"
  ELSE IF x.to = NoValue \/ x.amount = NoValue THEN "BadContext"
  ELSE IF x.amount < 0 THEN "NegativeAmount"
  ELSE IF x.amount = 0 THEN "ZeroAmount"
  ELSE IF x.amount >= AmountLimit THEN "AmountTooLarge"
  ELSE IF x.amount # s.amount THEN "BadAmountBinding"
  ELSE IF DestField[x.to] # s.dest THEN "BadDestBinding"
  ELSE "Ok"

AlwaysOver == TRUE                         \* mutant: every spend opens a window

\* The window that began at the stored anchor is over.
WindowOver == now >= SatAdd(epochAnc, conf.epochLedgers)

KeptSpent == epochSpt                      \* mutant: the rollover keeps the counter

NextAnchor == IF WindowOver THEN now ELSE epochAnc
SpentSoFar == IF WindowOver THEN 0 ELSE epochSpt

AuthVerdict(c) ==
  IF BindingVerdict(c) # "Ok" THEN BindingVerdict(c)
  ELSE IF ContextVerdict(c.contexts[1], c.sig) # "Ok"
       THEN ContextVerdict(c.contexts[1], c.sig)
  ELSE IF SpentSoFar + c.contexts[1].amount > conf.epochCap THEN "EpochCapExceeded"
  ELSE IF ~Groth16Verify(c.sig) THEN "BadProof"
  ELSE "Ok"

CheckAuth(c) ==
  /\ AuthVerdict(c) = "Ok"
  /\ epochAnc' = NextAnchor
  /\ epochSpt' = SpentSoFar + c.contexts[1].amount
  /\ total' = [total EXCEPT ![now] = @ + c.contexts[1].amount]
  /\ UNCHANGED <<now, conf, pol, root, frozen, pendRot, staged>>

-----------------------------------------------------------------------------
\* The network closes a ledger.
CloseLedger ==
  /\ now < U32Max
  /\ now' = now + 1
  /\ total' = [total EXCEPT ![now + 1] = total[now]]
  /\ UNCHANGED <<storage, staged>>

Next ==
  \/ CloseLedger
  \/ \E by \in Address :
       \/ \E p \in Proposals : ProposeRotation(by, p.commitment, p.root)
       \/ ExecuteRotation(by)
       \/ CancelRotation(by)
       \/ Freeze(by)
       \/ Unfreeze(by)
  \/ \E c \in AuthCalls : CheckAuth(c)

Spec == Init /\ [][Next]_vars

-----------------------------------------------------------------------------
(* Properties                                                              *)

Conf ==
  [token : Address, admin : Address, icLen : {N_PUBLIC + 1},
   epochLedgers : Nat \ {0}, epochCap : 1..(AmountLimit - 1),
   rotationDelay : Nat \ {0}]

\* Every stored value is one its Rust type and the constructor allow; above
\* all, unlock_ledger stays a u32.
TypeOK ==
  /\ now \in Ledger
  /\ conf \in Conf
  /\ pol \in Commitment
  /\ root \in Root
  /\ frozen \in BOOLEAN
  /\ epochAnc \in Ledger
  /\ epochSpt \in Nat
  /\ pendRot \in PendingRotation \cup {NoRotation}
  /\ total \in [0..U32Max -> Nat]
  /\ staged \in [at : Ledger, by : Address] \cup {NoRotation}

\* What was authorized in the ledgers first..last.
SpentIn(first, last) == total[last] - total[first - 1]

\* The last ledger, closed or open, of the epochLedgers ledgers from `first`.
SpanEnd(first) == Smaller(first + conf.epochLedgers - 1, now)

\* The counter (EPOCHANC, EPOCHSPT) is exact and within the budget: all that
\* was authorized since the anchor is epochSpt, and epochSpt is at most the
\* cap.  (At ledger u32::MAX the saturated window end is always reached, and
\* each spend opens a window of its own: lib.rs 459.)
BudgetCounterExact ==
  now < U32Max =>
    /\ SpentIn(epochAnc, now) = epochSpt
    /\ epochSpt <= conf.epochCap

\* However payments, rotations, freezes and ledgers interleave, no epochLedgers
\* consecutive ledgers authorize more than two budgets: the budget is per
\* window, the windows do not slide (lib.rs 452-469).
TwoBudgetBound ==
  \A first \in 1..now :
    SpanEnd(first) < U32Max =>
      SpentIn(first, SpanEnd(first)) <= 2 * conf.epochCap

\* Why TwoBudgetBound holds, as an inductive invariant.  Spending is monotone;
\* the window before the current one left at most one budget in the ledgers a
\* span can share with it; the current window is exact; and nothing is spent in
\* a ledger after the window's end until a spend opens the next window.
BudgetInv ==
  /\ epochAnc <= now
  /\ epochSpt <= conf.epochCap
  /\ \A i, j \in 0..now : i <= j => total[i] <= total[j]
  /\ now < U32Max =>
       /\ SpentIn(epochAnc, now) = epochSpt
       /\ now >= epochAnc + conf.epochLedgers => total[now] = total[now - 1]
       /\ \A first \in 1..epochAnc :
            first + conf.epochLedgers > epochAnc =>
              SpentIn(first, epochAnc - 1) <= conf.epochCap
  /\ TwoBudgetBound

\* Why PolicyChangeWasStaged holds: the stored unlock ledger is always the one
\* of the admin's latest proposal.
RotationInv ==
  /\ pendRot = NoRotation <=> staged = NoRotation
  /\ pendRot # NoRotation =>
       /\ pendRot.unlock_ledger = SatAdd(staged.at, conf.rotationDelay)
       /\ staged.by = conf.admin

\* What "rolling epoch budget" says (lib.rs 130 and 452, create.js 39): any
\* epochLedgers consecutive ledgers stay within one cap.  The code's windows
\* are fixed, so this does not hold.
RollingBudget ==
  \A first \in 1..now :
    SpanEnd(first) < U32Max =>
      SpentIn(first, SpanEnd(first)) <= conf.epochCap

\* The policy in force changes only to the rotation that is pending, which the
\* admin proposed, and which then stood untouched for rotationDelay ledgers
\* (lib.rs 30-33: "publicly observable for rotation_delay ledgers").
PolicyChangeWasStaged ==
  [][<<pol, root>>' # <<pol, root>> =>
       /\ staged # NoRotation
       /\ staged.by = conf.admin
       /\ now >= SatAdd(staged.at, conf.rotationDelay)
       /\ <<pol, root>>' = <<pendRot.commitment, pendRot.root>>]_vars

\* The account keeps the promise of GovernedVault.
Vault == INSTANCE GovernedVault WITH
  EndOfTime <- U32Max,
  Limit <- [p \in Policy |-> CapOf[p.commitment]],
  NoOffer <- NoRotation,
  clock <- now,
  terms <- [window |-> conf.epochLedgers, budget |-> conf.epochCap,
            notice |-> conf.rotationDelay],
  policy <- [commitment |-> pol, root |-> root],
  offer <- IF pendRot = NoRotation THEN NoRotation
           ELSE [policy |-> [commitment |-> pendRot.commitment, root |-> pendRot.root],
                 since |-> staged.at],
  paid <- total

ImplementsVault == Vault!Spec
=============================================================================
