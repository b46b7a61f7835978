---------------------------- MODULE PaymentHost ----------------------------
(***************************************************************************)
(* The Soroban host around the account: transactions that carry a signed   *)
(* auth entry, the one-time nonce and expiration ledger of that entry, the *)
(* signature payload, and the SAC transfer whose from.require_auth() runs  *)
(* __check_auth.  The host is not in src/; it is modelled as src/ relies   *)
(* on it (SECURITY.md 165-185, web/lib/serialize.js, web/lib/chain.js).    *)
(*                                                                         *)
(* A transaction that fails is reverted whole: nonce, epoch budget, money. *)
(***************************************************************************)
EXTENDS NulthAccount

CONSTANTS
  Nonce,
  Asset,             \* the contracts that are SACs
  Entries,           \* signed auth entries for Self that clients may submit
  CallLists,         \* what a transaction may make the token contracts do
  Payload(_, _, _),  \* sha256 of the preimage (nonce, expiration, invocation)
  Opening,           \* what Self holds of every asset at deployment
  Deposits,          \* amounts others may send to Self
  InflowLimit        \* bound: all that others send to Self

AuthEntry ==
  [nonce : Nonce, expires : Ledger, contexts : Seq(Context), sig : ProofSig]

\* What the host hands to __check_auth for an entry.
CallOf(e) ==
  [payload |-> Payload(e.nonce, e.expires, e.contexts), sig |-> e.sig,
   contexts |-> e.contexts]

ASSUME HostAssumption ==
  /\ Asset \subseteq Address
  /\ Self \notin Asset
  /\ Entries \subseteq AuthEntry
  /\ CallLists \subseteq Seq(Context)
  /\ AuthCalls = {CallOf(e) : e \in Entries}
  /\ Opening \in Nat
  /\ InflowLimit \in Nat
  /\ Deposits \subseteq Nat
  \* sha256: what hashes alike has the same nonce.
  /\ \A e, f \in Entries : CallOf(e).payload = CallOf(f).payload => e.nonce = f.nonce

VARIABLES
  balance,   \* balance[t][a]: what a holds of asset t
  consumed,  \* nonces of Self the host has consumed
  \* history variables
  inflow,    \* all that was credited to Self, per asset
  settled    \* how many transfers each proof has paid for

hostVars == <<balance, consumed, inflow, settled>>

HostInit ==
  /\ Init
  /\ balance = [t \in Asset |-> [a \in Address |-> IF a = Self THEN Opening ELSE 0]]
  /\ consumed = {}
  /\ inflow = [t \in Asset |-> 0]
  /\ settled = << >>

-----------------------------------------------------------------------------
\* The token contract can carry out the call (SAC transfer).
Payable(x) == x.contract \in Asset /\ balance[x.contract][x.from] >= x.amount

\* transfer(from, to, amount).
Moved(x) ==
  LET debited == [balance[x.contract] EXCEPT ![x.from] = @ - x.amount]
  IN  [balance EXCEPT ![x.contract] = [debited EXCEPT ![x.to] = @ + x.amount]]

Credited(x) ==
  IF x.to = Self THEN [inflow EXCEPT ![x.contract] = @ + x.amount] ELSE inflow

Counted(proof) ==
  [s \in DOMAIN settled \cup {proof} |->
     (IF s \in DOMAIN settled THEN settled[s] ELSE 0) + (IF s = proof THEN 1 ELSE 0)]

ReplayableVerdict(calls, e) ==             \* mutant: nonces are not looked up
  IF e.contexts # calls THEN "InvalidAction"
  ELSE IF now > e.expires THEN "Expired"
  ELSE AuthVerdict(CallOf(e))

UnmatchedVerdict(calls, e) ==              \* mutant: any call may use the entry
  IF now > e.expires THEN "Expired"
  ELSE IF e.nonce \in consumed THEN "ExistingValue"
  ELSE AuthVerdict(CallOf(e))

\* Host-level checks of the entry, then the account's own.
EntryVerdict(calls, e) ==
  IF e.contexts # calls THEN "InvalidAction"
  ELSE IF now > e.expires THEN "Expired"
  ELSE IF e.nonce \in consumed THEN "ExistingValue"
  ELSE AuthVerdict(CallOf(e))

SubmitKeepingWrites(calls, e) ==           \* mutant: a failed transfer is not reverted
  /\ EntryVerdict(calls, e) = "Ok"
  /\ CheckAuth(CallOf(e))
  /\ consumed' = consumed \cup {e.nonce}
  /\ IF Payable(calls[1])
     THEN /\ balance' = Moved(calls[1])
          /\ inflow' = Credited(calls[1])
          /\ settled' = Counted(e.sig)
     ELSE UNCHANGED <<balance, inflow, settled>>

\* One transaction, when it succeeds.  An authorized entry has one context
\* (lib.rs 396-401), so the transaction makes one token call.
Submit(calls, e) ==
  /\ EntryVerdict(calls, e) = "Ok"
  /\ Payable(calls[1])
  /\ CheckAuth(CallOf(e))
  /\ consumed' = consumed \cup {e.nonce}
  /\ balance' = Moved(calls[1])
  /\ inflow' = Credited(calls[1])
  /\ settled' = Counted(e.sig)

\* Somebody funds the account.
Deposit(t, a) ==
  /\ inflow[t] + a <= InflowLimit
  /\ balance' = [balance EXCEPT ![t][Self] = @ + a]
  /\ inflow' = [inflow EXCEPT ![t] = @ + a]
  /\ UNCHANGED <<vars, consumed, settled>>

Govern ==
  \E by \in Address :
    \/ \E p \in Proposals : ProposeRotation(by, p.commitment, p.root)
    \/ ExecuteRotation(by)
    \/ CancelRotation(by)
    \/ Freeze(by)
    \/ Unfreeze(by)

\* What happens to the account besides payments.
World ==
  \/ (CloseLedger \/ Govern) /\ UNCHANGED hostVars
  \/ \E t \in Asset, a \in Deposits : Deposit(t, a)

HostNext ==
  \/ World
  \/ \E calls \in CallLists, e \in Entries : Submit(calls, e)

HostSpec == HostInit /\ [][HostNext]_<<vars, hostVars>>

-----------------------------------------------------------------------------
(* Properties                                                              *)

HostTypeOK ==
  /\ balance \in [Asset -> [Address -> Int]]
  /\ consumed \subseteq Nonce
  /\ inflow \in [Asset -> Int]

\* The budget counts the money that moved, all of it and nothing else: of the
\* pinned token exactly what __check_auth has authorized left the account, of
\* any other asset nothing did, however transactions fail in between.
MoneyMatchesBudget ==
  \A t \in Asset :
    Opening + inflow[t] - balance[t][Self] = IF t = conf.token THEN total[now] ELSE 0

\* A proof pays once, whatever entry carries it: sig_payload_hash binds it to
\* the digest of one entry, hence to one nonce (lib.rs 385-388, SECURITY.md 165),
\* so neither a replay nor the proof lifted to a fresh nonce pays again.
ProofPaysOnce == \A s \in DOMAIN settled : settled[s] = 1

\* Complete mediation: whatever leaves the account is pinned token, goes to one
\* member of the allowlist in force, within the cap in force, never while frozen.
DebitsAreInPolicy ==
  [][\A t \in Asset :
       LET out == balance[t][Self] - balance'[t][Self]
       IN  out > 0 =>
             /\ t = conf.token
             /\ ~frozen
             /\ out <= CapOf[pol]
             /\ \E a \in Address \ {Self} :
                  /\ DestField[a] \in MembersOf[root]
                  /\ balance'[t] = [balance[t] EXCEPT ![Self] = @ - out, ![a] = @ + out]
    ]_<<vars, hostVars>>
=============================================================================
