----------------------------- MODULE AttackDeck -----------------------------
(***************************************************************************)
(* The Exploitation Deck: runAttack of web/app.js, which crafts one of five *)
(* malformed payments (web/lib/attacks.js), lets the relayer simulate and  *)
(* send it, shows what came of it, and tries once more after any error.    *)
(*                                                                         *)
(* The account is the real one: NulthAccount under its host, with its      *)
(* admin, other people's payments and deposits going on.  How concurrent   *)
(* requests of the relayer share a sequence number is in Relay; here the   *)
(* network takes what was sent at any time, or loses it.                   *)
(***************************************************************************)
EXTENDS PaymentHost, FiniteSets

CONSTANTS
  Run,                \* calls of runAttack
  Mode,               \* the cards that are tried
  UsdcSac, XlmSac,
  Payee, Attacker,    \* demoPayee and demoNonAllowlisted
  Secret,             \* the policy of the reference account's keystore
  WrongCommitment,    \* attackWrongCommitment
  Life                \* ledgers an entry is valid for: 60

Amt == 1

\* SPEC.  expect is the code that is shown when none could be read.
expect ==
  [malleability |-> "BadProof", noncelift |-> "BadSigPayload",
   oldpolicy |-> "BadPolicyBinding", wrongtoken |-> "BadTokenBinding",
   redirect |-> "BadSigPayload"]

\* What an attack is made of: transfers of the account, valid and not.
Transfer(sac, to) ==
  << [kind |-> "Contract", contract |-> sac, fn |-> "transfer", from |-> Self,
      to |-> to, amount |-> Amt] >>

ValidCalls == Transfer(UsdcSac, Payee)

\* The transfer of the attack transaction, made from {sac, to}.
CallsOf(m) ==
  Transfer(IF m = "wrongtoken" THEN XlmSac ELSE UsdcSac,
           IF m = "redirect" THEN Attacker ELSE Payee)

\* The reference account is one of the demo's token, its keystore's policy allows
\* the demo's payment, and nobody made it for or rotates it to the commitment that
\* the old-policy card uses.  The hashes of preimages that differ in the nonce differ.
ASSUME DeckAssumption ==
  /\ Mode \subseteq DOMAIN expect
  /\ {UsdcSac, XlmSac} \subseteq Asset /\ UsdcSac # XlmSac
  /\ {Payee, Attacker} \subseteq Address /\ Payee # Attacker
  /\ Secret \in Policy
  /\ DestField[Payee] \in MembersOf[Secret.root] /\ Amt <= CapOf[Secret.commitment]
  /\ WrongCommitment \in Commitment \ {p.commitment : p \in Proposals \cup {Secret}}
  /\ \A a \in ConstructorArgs : a.token = UsdcSac /\ a.commitment # WrongCommitment
  /\ Life \in Nat
  /\ \A n \in Nonce, until \in Ledger :
       LET p == Payload(n, until, ValidCalls)
           q == Payload(n + 1, until, ValidCalls)
       IN  p.hi # q.hi \/ p.lo # q.lo

VARIABLES
  relay,      \* _relay: "unprobed", "none" or "ok"
  trustline,  \* the attacker's address can receive the token
  deck,       \* state.deck: the status of each card, and what it shows
  pc, mode, attempt, entry,
  measured,   \* what the relayer's simulation said of the attack
  sent,       \* transactions the network holds
  ledger      \* what the ledger says of each run's two attempts

pageVars == <<relay, deck, pc, mode, attempt, entry, measured>>
netVars == <<sent, ledger>>
deckVars == <<vars, hostVars, trustline, pageVars, netVars>>

Idle == [status |-> "idle"]

DeckInit ==
  /\ HostInit
  /\ relay = "unprobed"
  /\ trustline \in BOOLEAN
  /\ deck = [m \in Mode |-> Idle]
  /\ pc = [r \in Run |-> "idle"]
  /\ mode = [r \in Run |-> NoValue]
  /\ attempt = [r \in Run |-> 1]
  /\ entry = [r \in Run |-> NoValue]
  /\ measured = [r \in Run |-> NoValue]
  /\ sent = {}
  /\ ledger = [r \in Run |-> [a \in 1 .. 2 |-> "NOT_FOUND"]]

-----------------------------------------------------------------------------
(* What an attack is made of.                                              *)

Pays(calls) == Payable(calls[1]) /\ (calls[1].to = Attacker => trustline)

\* The calls whose auth entry the deck signs: those of the attack, or when its
\* simulation fails those of a valid payment.
SignedCalls(m) == IF Pays(CallsOf(m)) THEN CallsOf(m) ELSE ValidCalls

\* The entry, with a real proof for a payment to the payee, tampered with.
EntryFor(m, n, until, calls) ==
  LET payload == Payload(n, until, calls)
      sig == [count |-> N_PUBLIC, amount |-> Amt, dest |-> DestField[Payee],
              commitment |-> IF m = "oldpolicy" THEN WrongCommitment ELSE Secret.commitment,
              root |-> Secret.root, hi |-> payload.hi, lo |-> payload.lo,
              genuine |-> m # "malleability"]
  IN  [nonce |-> IF m = "noncelift" THEN n + 1 ELSE n, expires |-> until,
       contexts |-> calls, sig |-> sig]

Crafted(m, n, calls) == EntryFor(m, n, SatAdd(now, Life), calls)

-----------------------------------------------------------------------------
(* The page.                                                               *)

\* The button of a card in breaking(): "Run attack on-chain", none while it
\* runs, "run again" or "reset".
Button(m) ==
  [idle |-> "attack", running |-> "none", rejected |-> "resetDeck", error |-> "resetDeck"]
    [deck[m].status]

GoTo(r, label) == pc' = [pc EXCEPT ![r] = label]

Show(r, card) == deck' = [deck EXCEPT ![mode[r]] = card]

Proceed(r) ==
  IF relay' = "ok"
  THEN deck' = [deck EXCEPT ![mode'[r]] = [status |-> "running"]] /\ GoTo(r, "craft")
  ELSE deck' = [deck EXCEPT ![mode'[r]] = [status |-> "error"]] /\ GoTo(r, "over")

\* runAttack: it awaits the relayer's health check, the first time, before the card
\* is marked as running.
Click(r, m) ==
  /\ pc[r] = "idle" /\ Button(m) = "attack"
  /\ mode' = [mode EXCEPT ![r] = m]
  /\ UNCHANGED relay
  /\ IF relay = "unprobed" THEN GoTo(r, "probe") /\ UNCHANGED deck ELSE Proceed(r)
  /\ UNCHANGED <<vars, hostVars, trustline, attempt, entry, measured, netVars>>

Probed(r) ==
  /\ pc[r] = "probe"
  /\ relay' \in {"none", "ok"}
  /\ UNCHANGED mode
  /\ Proceed(r)
  /\ UNCHANGED <<vars, hostVars, trustline, attempt, entry, measured, netVars>>

Forget(r) == entry' = [entry EXCEPT ![r] = NoValue] /\ measured' = [measured EXCEPT ![r] = NoValue]

\* Anything throws: once more, from nothing, then the error is shown.
Fails(r) ==
  /\ IF attempt[r] = 1
     THEN attempt' = [attempt EXCEPT ![r] = 2] /\ GoTo(r, "craft") /\ UNCHANGED deck
     ELSE GoTo(r, "over") /\ Show(r, [status |-> "error"]) /\ UNCHANGED attempt
  /\ Forget(r)

\* Two simulations, the entry and the proof.  (Without money for a valid
\* payment vsim has no result, and reading its entry throws.)
Craft(r) ==
  /\ pc[r] = "craft"
  /\ IF Pays(ValidCalls)
     THEN /\ \E n \in Nonce :
               entry' = [entry EXCEPT ![r] = Crafted(mode[r], n, SignedCalls(mode[r]))]
          /\ Show(r, [status |-> "running"])
          /\ GoTo(r, "footprint")
          /\ UNCHANGED <<attempt, measured>>
     ELSE Fails(r)
  /\ UNCHANGED <<vars, hostVars, trustline, relay, mode, netVars>>

\* /api/attack borrows the footprint of a valid payment, or answers 502.
Footprint(r) ==
  /\ pc[r] = "footprint"
  /\ IF Pays(ValidCalls)
     THEN GoTo(r, "simulate") /\ UNCHANGED <<attempt, deck, entry, measured>>
     ELSE Fails(r)
  /\ UNCHANGED <<vars, hostVars, trustline, relay, mode, netVars>>

\* It simulates the attack for its code, and goes on whatever that is.
Simulate(r) ==
  /\ pc[r] = "simulate"
  /\ measured' = [measured EXCEPT ![r] = EntryVerdict(CallsOf(mode[r]), entry[r])]
  /\ GoTo(r, "send")
  /\ UNCHANGED <<vars, hostVars, trustline, relay, deck, mode, attempt, entry, netVars>>

Tx(r) == [run |-> r, attempt |-> attempt[r], calls |-> CallsOf(mode[r]), entry |-> entry[r]]

Send(r) ==
  /\ pc[r] = "send"
  /\ sent' \in {sent, sent \cup {Tx(r)}}
  /\ GoTo(r, "settle")
  /\ UNCHANGED <<vars, hostVars, trustline, relay, deck, mode, attempt, entry, measured, ledger>>

\* codeFrom finds a code of the contract, and none of the host's.
IsCode(v) == v \notin {NoValue, "Ok", "InvalidAction", "Expired", "ExistingValue"}

\* The relayer answers with the status, also NOT_FOUND; the card is "rejected".
Settle(r) ==
  /\ pc[r] = "settle"
  /\ Show(r, [status |-> "rejected", run |-> r, attempt |-> attempt[r],
              code |-> IF IsCode(measured[r]) THEN measured[r] ELSE expect[mode[r]],
              txStatus |-> ledger[r][attempt[r]]])
  /\ GoTo(r, "over")
  /\ Forget(r)
  /\ UNCHANGED <<vars, hostVars, trustline, relay, mode, attempt, netVars>>

\* The proof, the fetch or an RPC call of the relayer fails, the last also
\* after the network has the transaction.
Throws(r) ==
  /\ pc[r] \in {"craft", "footprint", "simulate", "send", "settle"}
  /\ sent' \in IF pc[r] = "send" THEN {sent, sent \cup {Tx(r)}} ELSE {sent}
  /\ Fails(r)
  /\ UNCHANGED <<vars, hostVars, trustline, relay, mode, ledger>>

ResetDeck(m) ==
  /\ Button(m) = "resetDeck"
  /\ deck' = [deck EXCEPT ![m] = Idle]
  /\ UNCHANGED <<vars, hostVars, trustline, relay, pc, mode, attempt, entry, measured, netVars>>

RunStep(r) ==
  Probed(r) \/ Craft(r) \/ Footprint(r) \/ Simulate(r) \/ Send(r) \/ Settle(r) \/ Throws(r)

-----------------------------------------------------------------------------
(* The network.                                                            *)

Take(tx) ==
  /\ sent' = sent \ {tx}
  /\ IF EntryVerdict(tx.calls, tx.entry) = "Ok" /\ Pays(tx.calls)
     THEN /\ Submit(tx.calls, tx.entry)
          /\ ledger' = [ledger EXCEPT ![tx.run][tx.attempt] = "SUCCESS"]
     ELSE /\ ledger' = [ledger EXCEPT ![tx.run][tx.attempt] = "FAILED"]
          /\ UNCHANGED <<vars, hostVars>>
  /\ UNCHANGED <<trustline, pageVars>>

Lose(tx) ==
  /\ sent' = sent \ {tx}
  /\ UNCHANGED <<vars, hostVars, trustline, pageVars, ledger>>

DeckNext ==
  \/ HostNext /\ UNCHANGED <<trustline, pageVars, netVars>>
  \/ \E r \in Run : RunStep(r) \/ \E m \in Mode : Click(r, m)
  \/ \E m \in Mode : ResetDeck(m)
  \/ \E tx \in sent : Take(tx) \/ Lose(tx)

DeckSpec == DeckInit /\ [][DeckNext]_deckVars

-----------------------------------------------------------------------------
(* Properties                                                              *)

\* "Attacks always fail (no valid proof), so re-submitting can never move funds"
\* (app.js 184-186): none succeeds, in whatever state governance, payments and
\* deposits bring the account, and however often it is sent.  (Where the attack's
\* simulation fails, the entry that is sent along is one of a valid payment.)
AttackNeverPays == \A r \in Run, a \in 1 .. 2 : ledger[r][a] # "SUCCESS"

\* The reference account is as the deck's payloads assume it.
Healthy ==
  ~frozen /\ [commitment |-> pol, root |-> root] = Secret /\ SpentSoFar + Amt <= conf.epochCap

\* The gate that each payload is made for: its row in SECURITY.md 70-80, for the
\* false proof BadProof.  For the redirect this is not what SPEC expects: the proof
\* is bound to the transfer it is sent with, and BadSigPayload lets it pass
\* (attack_submit.mjs 3-4).
Gate ==
  [malleability |-> "BadProof", noncelift |-> "BadSigPayload",
   oldpolicy |-> "BadPolicyBinding", wrongtoken |-> "BadTokenBinding",
   redirect |-> "BadDestBinding"]

\* What stops it in the state the account is in: the freeze and a rotation come
\* before every gate, and the budget before the pairing.
StoppedBy(m) ==
  IF frozen THEN "AccountFrozen"
  ELSE IF [commitment |-> pol, root |-> root] # Secret THEN "BadPolicyBinding"
  ELSE IF m = "malleability" /\ SpentSoFar + Amt > conf.epochCap THEN "EpochCapExceeded"
  ELSE Gate[m]

\* The host hands the entry to __check_auth.
HostAdmits(calls, e) == e.contexts = calls /\ now <= e.expires /\ e.nonce \notin consumed

Measures(r) == pc[r] = "simulate" /\ pc'[r] = "send"

\* A card meets its own gate whenever it gets as far: an entry that the host admits
\* is stopped by it, or by what comes before it, and otherwise no code is read.
CardIsStopped ==
  \A r \in Run : Measures(r) =>
    IF HostAdmits(CallsOf(mode[r]), entry[r])
    THEN measured'[r] = StoppedBy(mode[r])
    ELSE ~IsCode(measured'[r])

\* "redirect: { sac: 'usdc', to: 'attacker', expect: '#13' }" (attacks.js 23): the
\* codes that SPEC and the cards announce are those that a healthy account answers.
CardsMeetTheirCode ==
  [][\A r \in Run :
       Measures(r) /\ Healthy /\ IsCode(measured'[r]) => measured'[r] = expect[mode[r]]
    ]_deckVars
=============================================================================
