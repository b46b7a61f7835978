# Nulth in TLA+

Nulth is a Soroban *custom account*: its signature is a Groth16 proof that a
payment obeys a hidden policy (a per-payment cap and an allowlist, committed to
on chain). This directory models the account, the host it runs under and the
clients, servers and scripts around it; TLC checks small instances, and TLAPS
proves the main properties for every value of the constants.

Paths are relative to the repository; line numbers are of the commit modelled.
`PROJECT.json` maps every definition to the lines it stands for.

## 1. Inventory

| part | state | operations | talks to |
|---|---|---|---|
| **Account contract** `contracts/nulth_account/src/lib.rs` | instance storage: VK, TOKEN, ADMIN, EPOCHLEN, EPOCHCAP, ROTDELAY (written once); POL, ROOT, FROZEN, EPOCHANC, EPOCHSPT, PENDROT | `__constructor`, `propose_rotation`, `execute_rotation`, `cancel_rotation`, `freeze`, `unfreeze`, `__check_auth`, getters | called by the host |
| **Soroban host, token contract** (not in the repository) | balances, consumed nonces, ledger number | applies a transaction or reverts it whole | calls `__check_auth` from `transfer`'s `require_auth` |
| **Circuits** `circuits/*.circom`, **serialization** `web/lib/serialize.js`, `scripts/lib.mjs`, **verifier** `contracts/bn254_verifier` | none | what a proof proves, and the bytes it travels in | pay flow, disclosure, account |
| **Policy trees** `web/lib/poseidon.js`, `scripts/policy.mjs` | none | sparse and full depth-16 Merkle trees | prover, circuit |
| **Relayer** `server.mjs`, copied in `worker.mjs` | fee payer's account (on the network) | `/api/relay`, `/api/attack` | RPC node, network; called by browsers |
| **Edge services** of the same servers | rate-limit map, waitlist file or KV | limiter, `/api/waitlist`, its export, `/api/agent` | webhook, language model |
| **Demo float** `sweepDemo`, `reseed_demo.mjs`, `seedUsdc`, `create_user.mjs` | `sweeping` flag; two classic keys' balances and sequence numbers | move the demo's USDC back, seed new accounts | network |
| **Pay flow** `chain.js` pay, `app.js` runPay/sendAgent/agentPay, `agent_server.mjs` payTool | `_active` account, `this.pay`, `agent.busy` | read, simulate, prove, simulate, relay or submit, poll | prover, relayer, RPC node |
| **Governance console** `app.js` runAdmin, `chain.js` adminInvoke/adminRotate | `admin.phase`, the unlock ledger in a local | freeze, unfreeze, rotate = propose, wait, execute | RPC node, network |
| **Prover** `web/lib/prover.js`, `prover-worker.js` | `_worker`, `_workerBroken`, `_seq`, active keystore | fullProve in a Web Worker or inline | pay flow, disclosure, attacks |
| **Account session** `app.js` runCreate, switching, import, reload, disclosure; `create.js` | keystores in localStorage, sessionStorage and files; `this.create`, `this.live`, `this.disc` | create, deploy, seal, save, unlock, import, restore, disclose | network, wallet, verifier |
| **Attack deck** `app.js` runAttack, `web/lib/attacks.js` | `state.deck` | craft one of five malformed payments, simulate, send, show, retry | relayer, RPC node |
| **Payment scripts** `pay_p1`, `pay_usdc`, `attack_probe`, `attack_submit`, `replay_same`, `create_user`, `agent_server`, `sdk/zkpay.mjs` | files under `build/` | pay, tamper, replay | RPC node, network |
| **Operator scripts** `gov_proof`, `gov_rotate_cycle`, `create_user` | the steps logged so far | sequences of governance calls, payments and deployments | RPC node, network |
| View, wallet adapter, bundled Buffer, measuring and browser-driving scripts | none of their own | rendering, screenshots, timings | |

What is hard to get right here, and what makes each part correct:

- *Contract.* Money leaves only in policy; the epoch budget is exact and bounds
  what any run of calls spends; the policy changes only after a full, public
  delay; nothing is paid while frozen. The order of spends, rollovers, overwritten
  proposals and saturating ledger arithmetic is where this could fail.
- *Host.* `__check_auth` writes storage before the transfer it authorizes can
  still fail; the counter, the nonce and the money must be reverted together.
- *Numbers.* The circuits compare modulo the field's order, the contract compares
  words as they are, the pairing reads them modulo the order again, and bytes are
  written by two copies of the serializer.
- *Relayer.* Concurrent handlers share one account's sequence number; each
  acts on a simulation that is two awaits old; the network may drop a
  transaction or settle it after the handler gave up.
- *Pay flow.* `pay()` reads the active account anew after each of its awaits; two
  payments may draw one nonce; NOT_FOUND is not a refusal; the receipt is made
  from fields that the user may have changed.
- *Console.* A click that ended in NOT_FOUND leaves its transaction with the
  network; another tab or script holds the same key; a rotation waits in a loop
  without a bound, and reads the active account anew after it.
- *Prover.* Proofs share one worker, and one slow proof terminates it.
- *Session.* A creation is deployed before it is saved, each of its stores may
  fail, and loads of an earlier account come back late.
- *Edge.* The limiter filters and prunes; the waitlist answers before its webhook;
  the model's words must not replace the destination that was typed.
- *Float.* Four jobs that know nothing of each other share two sequence numbers,
  read a balance before they spend it, and one of them retries.
- *Deck and scripts.* Whatever is crafted, retried or replayed must not pay, also
  while the account is governed and paid from.
- *Operator scripts.* A step that was given up may still land after a later one.

Every such hazard is listed in `PROJECT.json` at its line, with the properties
that are about it.

## 2. Modules

| module | models | extends |
|---|---|---|
| `GovernedVault` | the abstract promise of an account: pays under the policy in force, two budgets per window's length, changes policy only to an offer open for the whole notice | |
| `NulthAccount` | the contract | |
| `PaymentHost` | the host: transactions, nonces, expiry, revert, balances | `NulthAccount` |
| `Relay` | `/api/relay` and `/api/attack` handlers and the network | `PaymentHost` |
| `AttackDeck` | the exploitation deck against the account in its host | `PaymentHost` |
| `PaymentScripts` | the command-line payments, attacks and replays | `AttackDeck` |
| `GovernanceConsole` | the browser's admin console and the network | `NulthAccount` |
| `ProverWorker` | the browser's prover and its worker | |
| `PayFlow` | payments of the form, the agent chat and the agent server | |
| `PolicyTree` | both allowlist trees and the circuit's path check | |
| `AccountSession` | accounts, keystores, what the page shows, disclosure | `PolicyTree` |
| `ProofEncoding` | range checks, bytes and words, and both verifiers' reading | |
| `EdgeServices` | limiter, waitlist, intent translation | |
| `DemoFloat` | the jobs that move the demo's money | |
| `OperatorScripts` | three scripts as sequences of transactions | |
| `NulthAccountProofs`, `GovernanceConsoleProofs`, `PayFlowProofs`, `PaymentScriptsProofs` | theorems of the module in the name (the last: also of `AttackDeck`) | that module, TLAPS |
| `HostProofs` | theorems of `PaymentHost` and `Relay` | |
| `CircuitProofs` | theorems of `PolicyTree` and `ProofEncoding` | |
| `BrowserProofs` | theorems of `AccountSession` and `ProverWorker` | `CircuitProofs` |
| `ServerProofs` | theorems of `DemoFloat`, `EdgeServices` and `OperatorScripts` | |
| `MC...` | small instances for TLC | |

**`NulthAccount`.** Each variable is one storage key (`conf` groups those that
only the constructor writes). One step is one successful call: a call that
panics or returns an `AccError` is reverted by the host and changes nothing, so
the gates are the operators `ConstructorVerdict`, `ExecuteVerdict` and
`AuthVerdict`, which give the error code in the order of the source. Data is
abstract: `CapOf` and `MembersOf` name what a commitment and a root bind
(Poseidon and the tree are binding), `DestField` is an injective function
(`addr_to_field` is a truncated sha256), and a proof is the record of its public
signals with `genuine`, so a proof that verifies satisfies the circuit's relation
(`PolicyRelation`): soundness of Groth16 is assumed, not modelled. `total` and
`staged` are history: what was authorized up to each ledger, and when and by whom
the pending rotation was proposed. No guard reads them.

**`PaymentHost`.** External: the host is modelled as `serialize.js` (the payload
covers nonce, expiration and invocation), `chain.js` and SECURITY.md rely on it.
A hash is an operator `Payload`, of which `HostAssumption` takes one thing: entries
with the same payload have the same nonce. `settled` is history: for each proof, how
many transfers it has paid for.

**`Relay`.** One action per await of the handler, then one poll at a time. The
network's pool takes a transaction when its sequence number is next and its time
bound has not passed, and may lose any; every RPC call may throw, `sendTransaction`
also after the network has the transaction. An attack takes its own route: it
simulates an unsigned transfer for the footprint and sends whatever the proof is.
`told` is history: the ledger at which a client had its answer.
Address syntax checks and an attack on XLM are left out (the deck has the latter).

**`GovernanceConsole`.** One console, `MaxClicks` clicks, over the contract. A
transaction is its sequence number, function, argument, time bound and maker,
which is what its hash covers. A *rival* is another holder of the admin key: it
reads the number, builds and sends a transaction of its own, between any two
steps of the console. A *switch* makes another account active: of it only what
the console reads is modelled. Two history variables say of what the console can make
no promise, and no guard reads them. `overruled`: since the click a rival's transaction
was taken that is of the kind to undo it (`Overrules`: an unfreeze under a freeze and the
reverse, a proposal or an execution under a rotation); a freeze under a rotation or a
rotation under a freeze is none. `strayed`: the click acted on the other account after a
switch. A rotation that strayed is still promised its proposal, which stays pending.

**`ProverWorker`.** `_workerBroken` is never reset, so there is at most one worker
in a page's life, and `worker` is its state. Timers are set for the same 120 s
and so fire in order.

**`PayFlow`.** One action per await of `pay()`, in the order of the source, with
the reads of `_active.account` (`Acct`) at each place the code reads it: the
transfer (`Build`, `BuildSigned`), the entry that is signed (`SignEntry`) and the
keystore that proves (`StartProof`, `Load`) may be of different accounts. A
payment is made by the form, the agent chat or a script (which always pays from
the demo account and submits by itself). The chain is
abstracted to what `PaymentHost` establishes: `Authorizes` says that an entry
pays if transfer, entry and proof are of one account and in its policy, the nonce
is unspent and the funds are there; and a transaction may fail for other reasons.

**`PolicyTree`.** `LevelsOf` is the sparse tree of `poseidon.js`, whose missing
nodes are the zero hashes; `FullRoot` pads to 2^Depth leaves as `policy.mjs`
does; `Provable` is the circuit's walk up a path. The hash is pairing, which is
injective: equality of the values is equality of the trees.

**`AccountSession`.** One tab. `CreateClick`, `DeployThrows`, `DeploySend`,
`DeployPolled` and `SaveKeystore` are the awaits of `runCreate`: the keystore is sealed,
stored in localStorage, downloaded and stored opened in sessionStorage, in that order,
and either store may refuse, which `SaveKeystore` has as alternatives that leave undone
what comes after. `Activate` is what switching, importing, entering and restoring have
in common; `Visit` is a reload of the page, with the browser's storage kept or cleared.
`loadChain` is three steps: the prover's secret is read and then acct() (`LoadReads`),
balance and policy are shown (`LoadShows`), and the payments are listed afterwards
(`LoadActivity`); a load that a switch overtook ends as `OldLoadEnds`, which writes into
the view of its own. A new view keeps the old one's secret (`KeptView`) until its own is
read. `LateRead` and `LateWrite` are the reads that have no such guard:
`refreshBalances` (`app.js` 88) looks `this.live` up after its await and writes to the
view that is there by then, while `this.live.policy = await ...` of `runAdmin` (`app.js`
212) takes the object before its await, so after a switch it writes to a view that
nothing shows (`LateLeft`). Disclosure is three steps, with the slider moved between any
of them. `Dashboard`, `PolicyScreen`, `ActivityScreen` and `VerifyScreen` are what the
page makes of its state, and what the properties are about; a screen that offers no
button is a guard (`CreateScreen`).

**`ProofEncoding`.** Two little state machines over numbers with their widths as
constants. One tries every pair of inputs in a circuit (`TryPayment`,
`TryDisclosure`: the comparison is `(a + 2^n - (b + 1)) % Order < 2^n`, as
circomlib computes it). The other proves a payment, alters the proof or the way
it is written (`Sign`: bit flips, swapped points, a missing signal, a signal plus
the order, the other coordinate order) and presents it to the account with any
payload, destination and amount, or to the standalone verifier. A byte string is a
sequence of bits: `Bits` writes a number (`Shifts` are its quotients by powers of two),
`Reads` reads one bit by bit, and a word travels as four limbs. The pairing is
abstracted to the scalars and points it is about, reduced modulo the order.

**`EdgeServices`.** A request is what arrives behind the proxies: the address that the
outer proxy tells (`external`), the hops of X-Forwarded-For, of which a client may
invent all but the last, the socket, the origin, and the route. `ClientIp`,
`OriginAllowed` and `Handler` are what the server makes of them. `Asked` is
`rateLimited`: filter, append, prune, compare, in that order; `log` is history.
`PostWaitlist` writes the sink and awaits the webhook, which answers, fails or throws
later. `FallbackIntent` and `GroqIntent` are the two ways to read an instruction; the
language model answers anything.

**`DemoFloat`.** Each job reads, builds, simulates, sends and polls; `Tries` is 1
or the four of `create_user`. The network takes a transaction whose number is
next, `held` are balances in USDC. `doubts` counts attempts that ended without a
definite outcome.

**`OperatorScripts`.** A script is a sequence of steps, each a call that is built,
sent and settled by its signer; `gov_rotate_cycle` has its retries, its `catch`
and its `finally` (`Raise`, `Guarded`, `Finally`). `Builds` is what the account
exports: both scripts call `rotate_policy`, which `lib.rs` no longer has.

**`AttackDeck`.** `Crafted` makes each card's entry as `attacks.js` does; the run
probes the relayer, crafts, asks for the footprint, simulates, sends, settles,
and begins once more after any error. Where the attack's own simulation cannot
give an entry, the entry of a valid payment is signed instead (`SignedCalls`).
`Gate` is the gate that each payload is made for, `StoppedBy` what stops it in the state
that the account is in: its own gate, or one that comes before it.
`DeckAssumption` assumes that nobody rotates the account to the commitment that
the old-policy card is made for.

**`PaymentScripts`.** Each script is a *plan*, a sequence of steps: `pay` of
`pay_p1.mjs`, `file` of `pay_usdc.mjs` and the SDK, `payFrom` of `create_user.mjs`,
`tool`, `attempt` and `backstop` of the agent server, `probe`, `submit` and
`replay`. A step rehearses (a simulation without the entry), signs, simulates and
sends, as far as its script does; `lastAuth` is the file that `replay_same.mjs`
reads. `FromFile` is the payment whose proof was made in
advance: its public signals are those of the file, whatever is asked for.

## 3. Runs

| run | instance | shows |
|---|---|---|
| `account` | ledgers 1..7, u32::MAX = 7, windows {0,1,3}, caps {0,2,8}, delays {0,1,3}, two policies, payments 0..3, vk with 6 or 7 ic | `TypeOK`, `BudgetCounterExact`, `TwoBudgetBound`, `PolicyChangeWasStaged`, `ImplementsVault` |
| `host` | 5 ledgers, two assets, 18 entries: valid, replayed nonce, lifted, expired, over the cap, off the list, wrong token, wrong function, two contexts, none, ...; three scripts, two builds of the account, three attempts | `MoneyMatchesBudget`, `ProofPaysOnce`, `DebitsAreInPolicy`, `LastWordHolds`, `EvidenceIsSound` |
| `relay` | two requests, payments or attacks; three ledgers, two polls, time bound 1 | `AnswersAreTrue`, `OneSuccessPerEntry`, `FinalInTime`, `NoProofNoMoney`, `EveryRequestAnswered` |
| `console` | two clicks, one transaction of a rival, one switch, four ledgers, delay 1, time bound 1 | `DoneIsDone`, `NeverExecutesInVain`, `ConsoleComesBack` |
| `pay` | two payments of any kind, two accounts and destinations, three fee modes, two switches, two milliseconds | `MixedNeverSent`, `TellsTheTruth`, `CollisionPaysOnce`, `ReceiptIsTrue`, `EveryPaymentEnds` |
| `session` | two creations, two visits, one old load, depth 3; words of 8 bits, halves of 4, limbs of 2, amounts of 3, order 193 | `ActiveKeystoreFits`, `ReportedMeansRecoverable`, `TreesAgree`, `LoadsStayInTheirView`, `VerdictStaysTrue`, `CircuitIsExact`, `AcceptedExactly` |
| `jobs` | four jobs, two tries of `create_user`, three starts; three proofs | `NoTransferFails`, `NoBlindRepeat`, `SweepComesBack`, `OwnProof`, `EveryProofEnds` |
| `deck` | five cards, one run with its retry; one script and one replay; one act of the admin, one payment, one deposit, two ledgers; two clients that claim to be each other, behind either proxy or none, limits 2 and 1, window 2, pruning above 1 address, three requests, one restart | `AttacksNeverPay`, `RejectedReplayMeansPaid`, `EveryGateHolds`, `LimiterExact`, `AnswersHold` |
| `account_rolling` | violation | the budget is not rolling |
| `pay_unchanged` | violation | an error under a transaction does not mean that the balances are unchanged |
| `disclosure_dragged` | violation | the verdict is shown over a limit that was not proved |
| `deck_codes` | violation | the redirect meets another code than its card says |

**Parts of a run.** `host`, `session`, `jobs` and `deck` each hold specifications of
which one moves while the others rest in their initial state: the host and the
operator's scripts; the page and the encoding; the float and the prover; the deck, the
payment scripts and the servers' request handling. Where they share no variable, the
states of the product that are left out say nothing new, and each part is explored
completely. The deck and the payment scripts share the account and the host, and the run
does not interleave a card with a script: two that are under way at once differ from one
with the other payments of the host between its steps (`HostNext`) only in the fee
payer's sequence number, which `relay` is about.

**Bounds, and why they are enough.** `U32Max` is the last ledger: in `account`, 7 leaves
room for two whole windows of 3 with a ledger on each side, and lets unlock ledgers and
window ends saturate. `MaxTotal` (a state constraint) bounds what is spent: in the very
last ledger the saturated window end is always reached, each spend opens a window of its
own and the sum has no end; 10 is more than what the ledgers before it can spend within
two budgets. `AmountLimit` = 8 stands for 2^100 and exceeds every amount but one cap,
which the constructor must refuse. `InflowLimit` bounds deposits; in `host`, 3 is enough
for a transfer to fail, be funded and be retried. `MaxPolls` = 2 (30 and 20 in the code)
gives a poll that throws or finds nothing and one that does not. `TxLife` = 1 ledger
lets a transaction expire in the pool. Two requests are the smallest number that race
for a sequence number, and two clicks that race with a late transaction; `MaxRivals` and
`MaxSwitches` = 1 put either anywhere between them. `MaxSwitches` = 2 in `pay` lets the
page go to another account and back within one payment. Two milliseconds (`MaxClock`)
give payments with one nonce and with two. `MaxCreates` = 2 gives an account that is
entered while another is created; `MaxVisits` = 2 a reload. `Resting` keeps apart what
writes different parts of the state and reads nothing of the other: a creation under
way, a load left over by a switch, a list of payments, and a disclosure (which late
reads do overlap, until it has its proof). Each of them still meets every switch,
import, reload and load; the theorems have no such bound. A tree of depth 3 has levels
with odd and even numbers of nodes under lists of one and of five members. The widths of
`session` keep the relations between 256, 128, 64, 100 and the order of the scalar field
that `EncodingAssumption` states; 193 is a prime below 2^8 with room for one alias of a
small word. `MaxRequests` = 3 exceeds both limits, `HitsMax` = 1 makes two clients prune
the map. `Retries` = 3 (4 in the code) has an attempt that is neither the first nor the
last. `MaxStarts` = 3 gives two jobs in a race and one after them. Three proofs give one
that times out, one stranded by it and one that starts afterwards. `Life` = 0 and
`U32Max` = 2 in `deck` let an entry expire between two steps. `OneAdminAct` lets the
admin freeze or rotate once; the general case is the contract's own run.

**Deadlock.** It is checked in `account`, `host`, `deck` and `relay`, where the account's
governance is always possible; a script of `host` that has ended and the requests of
`deck`, which end by their bounds alone, stutter. In the other runs every click, call or
job may be over, so they do not check it.

**Fairness.** `Relay` assumes that a handler whose await has returned or thrown
runs on (`WF` of each handler's steps): the event loop of Node guarantees that.
It assumes nothing of the network. `PayFlow` assumes the same of each payment, and
that its awaits end, because a request to the relay is answered
(`EveryRequestAnswered`), a proof ends (`EveryProofEnds`) and RPC calls return or
throw. `GovernanceConsole` assumes that ledgers close and that the console's awaits
end; an RPC call that *might* throw is no reason for a wait to end, so `RpcThrows`
is not part of the fair action. `ProverWorker` assumes that timers fire and inline
proving ends, and nothing of the worker. `DemoFloat` assumes that each job runs on.
The other modules have no liveness: what they promise is safety.

**Findings.**

1. *The budget is per fixed window* (`account_rolling`). `lib.rs` 459 starts a new
   window with a zero counter at the first spend after the old one is over.
   "Rolling epoch budget" (`lib.rs` 130 and 452, SECURITY.md 246) suggests that any
   `epoch_ledgers` ledgers stay within one cap. Two caps fit; `TwoBudgets` proves
   never more.
2. *An error does not mean that nothing was paid* (`pay_unchanged`). `app.js` 106
   makes every status but SUCCESS an error, also the NOT_FOUND with which `pay()`
   gives up while the transaction is still valid, and `app.js` 600 says under it that
   "the transfer was not authorized; balances unchanged".
3. *A dragged slider changes what was verified* (`disclosure_dragged`). The input
   handler of `app.js` 864 writes the limit and leaves the verdict; until the
   release, any render shows "VERIFIED ON-CHAIN" with a limit nobody proved.
4. *The redirect is stopped by #6, not by #13* (`deck_codes`). Its proof is made for the
   payee and bound to the payload of the entry that is sent, so `BadSigPayload` lets it
   pass, and `__check_auth` refuses the attacker's transfer with `BadDestBinding` (#6).
   `attacks.js` 23 expects "#13", the card (`app.js` 685) and SECURITY.md 330 say #13;
   SECURITY.md 77 and `attack_submit.mjs` 3-4 say #6. The account does what the latter
   say. On the page the difference is hidden where the attack's own simulation gives no
   entry, because the attacker cannot receive the token: then the entry of a valid
   payment is sent, the host refuses it before `__check_auth`, no code is read and the
   card shows the "#13" of its own `SPEC`. `EveryGateHolds` therefore has #6 for the
   redirect where the host admits the entry, and no code where it does not.

Not worth a run, but seen while modelling:

- The contract writes per-spend state (EPOCHANC, EPOCHSPT); `docs/PROTOCOL.md` 73
  and 76 say that it does not. The text predates the budget.
- A worker whose script fails to load costs the proof in flight 120 s and an error
  (`prover.js` 48), while `prover-worker.js` 3-4 says that an unavailable worker "can
  never make things worse". Later proofs run inline.
- `lib.rs` 463 says `spent` is in `[0, epoch_cap)`; it can equal the cap, which changes
  nothing there (`BudgetCounterExact` states `<=`).
- `gov_proof.mjs` 2 and `gov_rotate_cycle.mjs` 3 say in which state they leave the
  account; with an RPC node that throws, the first may end frozen and the second with
  the bogus policy. Both call `rotate_policy`, which `lib.rs` does not have.
- `attacks.js` 3 and 17 and `app.js` 699 say that each card meets its code. Apart from
  the redirect, that holds of a healthy account where the attack's own simulation gives an
  entry; on one that is frozen, rotated or out of budget an earlier gate answers
  (`StoppedBy`), and a card that is sent with the entry of a valid payment is refused
  by the host, without a code.
- `replay_same.mjs` prints "EXPECTED: replay rejected by host" also for NOT_FOUND, and
  "nonce already consumed" for every error of the simulation: also of an account that is
  frozen or has no money, and of an entry that has expired. `RejectedReplayMeansPaid`
  says what the line shows once those are excluded.
- Two payments of the form can overlap: the page offers the button until `runPay` has
  read the balances (`app.js` 99-100), and again once the other's error was dismissed.
  `this.pay` is shared, and the receipt of one may then name the payee and amount of the
  other, or after a switch another payer. `ReceiptIsTrue` says only of payments that
  were not `crossed` whose they are, and of all that a receipt is for a transfer that
  settled.
- `refreshBalances` may write the balance of the account that was active before a switch
  into the view of the one that is active now; `LoadsStayInTheirView` says that it is the
  only read that does.
- `create_user.mjs` seeds again after an attempt that ended in doubt, and the first may
  have settled (`NoBlindRepeat` bounds it by the doubts).
- `adminRotate` reads `_active` anew for its second call (`chain.js` 214, 240): after a
  switch it executes the other account's rotation, if that one has one pending, and
  reports the click as done. `DoneIsDone` says what is then left of the account it was
  clicked for. A rival's rotation under the console's is likewise not told from its own.
- The button that imports a keystore is below the list of the browser's accounts
  (`app.js` 832), so it is not there when that list is empty, after the site's data were
  cleared or on another device, when `app.js` 842 and
  `gitbook/guides/create-and-fund.md` 31 suggest to import.
- `friendbotFund` (`chain.js` 263) reads any HTTP 400 as "already funded".
- `agent_server.mjs` 129 says that no transaction formed for whatever the tool's error was.

## 4. Proofs

All are for arbitrary constants that satisfy the named assumptions
(`BoundsAssumption`, `DataAssumption`, `DestFieldInjective`, `InputAssumption`,
`HostAssumption`, `RelayAssumption`, `ConsoleAssumption`, `PayFlowAssumption`,
`SessionAssumption`, `TreeAssumption`, `EncodingAssumption`, `FloatAssumption`,
`EdgeAssumption`, `DeckAssumption` and the two modules' `ScriptAssumption`), which TLC
evaluates in the runs.

- **Types** (`TypeCorrect`). `SatAddBounds` is what keeps `unlock_ledger` a u32.
  `AuthorizedCall` collects what a call that passed all gates satisfies; every
  later proof about a payment cites it.
- **Budget** (`BudgetInvariant`).
  `TwoBudgetBound` is not inductive: a span of `epochLedgers` ledgers that ends now
  may begin before the current window, and the counter says nothing of what was
  spent there. `BudgetInv` adds that (a) `total` is monotone; (b) the counter is
  what was spent since the anchor; (c) after the window's end nothing is spent
  until a spend opens the next window; (d) any span that reaches into the current
  window spent at most one budget *before* its anchor. When a spend opens a
  window, (b) and (c) of the old window give (d) of the new one
  (`BeforeTheWindow`), and (b) and (d) give the bound (`InTheWindow`). The last
  ledger is excluded where saturation makes every spend a new window.
- **Timelock** (`RotationInvariant`, `TimelockHolds`): the stored unlock ledger is
  always that of the admin's latest proposal, so execution implies that this
  proposal stood for the whole delay.
- **Refinement** (`VaultRefinement`): each contract step is a step of
  `GovernedVault` or a stutter. `Pay` of the abstract module needs the two-budget
  bound after the step, which is where `BudgetInv` is used.
- **Host** (`HostImplementsAccount`): a host step is an account step or leaves the
  account alone, so the bounds above carry over.
  `MoneyAndBudgetAgree` and `DebitsMediated` are proved from the types and
  `AuthorizedCall`. `ProofsPayOnce`: a proof that has settled stands for a consumed nonce
  (`SettledInv`), the contract lets a proof pass for the payload in its signals only
  (`BadSigPayload`), and payloads that are equal have equal nonces; so the second entry
  that carries the proof has a nonce that is consumed. Without the contract's
  comparison a proof could be lifted into an entry with a fresh nonce.
- **Relayer** (`RelayImplementsHost`, `RelayAnswersAreTrue`, `RelayPaysOnce`,
  `RelayNoProofNoMoney`): under any number of concurrent requests the host does what
  it does without them, so the account's theorems hold behind the relayer. `AnswerInv`
  ties a handler's place to what the network can hold of it; `PaidInv` says that a
  request reported as SUCCESS has consumed its entry's nonce, which excludes a second.
  `RelayFinalInTime`: a transaction is bounded by the ledger it was built in, the answer
  comes later, and after the bound the network takes it no more (`TimeInv`); the places of
  a handler (`AnswerInv`) give which answers can still be followed by anything.
- **Console** (`ConsoleImplementsAccount`, `ConsoleInvariant`, then `ConsoleDoneIsDone`
  and `ConsoleNeverExecutesInVain`). What makes an old transaction harmless is its
  number: `ConsoleInv` says that everything the network holds was built on the next
  number and so dies when one of them is taken (`SeqOK`), and that the console's
  transaction, once taken, has its effect (`TakenOK`), where the click stands between its
  calls (`JobOK`), that a proposal stays pending from the read-back to the execution, also
  if it is the other account's that is executed (`RotateOK`), that the wait is for it
  (`UnlockOK`), and what is so afterwards (`DoneOK`). What rivals may do under a click
  leaves its effect alone (`HarmlessRivals`, from `AppliedEffects`); everything else sets
  `overruled`.
- **Pay flow** (`PayTypes`, `PayLedger`, then `PayMixedNeverSent`, `PayTellsTheTruth`,
  `PayCollisionPaysOnce`; `PayHeld`, `PayReceiptIsTrue`). `LedgerInv` says of each
  payment that what is with the network passed the simulation with transfer, entry and
  proof of one account, and that a success has spent its nonce. `ReceiptInv` follows the
  one form payment that is not `crossed` from the click to the receipt: until an account
  switch or a second click, what it built is of the active account.
- **Session** (`SessionKeystoreFits`, `SessionRecoverable`, `SessionLoads`,
  `SessionVerdictStaysTrue`, `SessionTreesAgree`): a creation has saved its keystore
  before it says so and only after the deployment settled (`SavedInv`); a load is of the
  view it began in, and once past its first await shows the secret that proofs are made
  with (`LoadInv`); the policy and the payments shown are the active account's, and so
  is the policy that an admin call is still to write (`ShownInv`); every policy that was
  built is one that `BuiltPolicyIsRight` speaks of (`BuiltInv`).
- **Policy trees** (`BuiltPolicyIsRight`, `ScriptPolicyIsRight`), for every depth and
  every allowlist that fits. Rows of both trees are recursive functions of the height.
  For each of them one lemma shows that a function with its recursion equation exists
  (`LevelsExists`, ...), a second takes the equation from `CHOOSE` (`LevelsSteps`, ...).
  Then, height by height: the sparse row is the front of the full row and everything
  behind it is the zero hash (`FullLevelsAgree`), hence the same root (`SameRoot`); and
  the sibling that `PathOf` takes leads from a node to its parent (`LiftLeadsToParent`,
  `PathsLead`). That only the member's own leaf is led there is injectivity of the hash.
- **Encoding** (`CircuitsAreExact`, `AcceptsExactly`), for all widths and orders that
  `EncodingAssumption` allows. `CircuitsAreExact`: with both sides ranged, the difference
  cannot wrap around. `AcceptsExactly` is a chain of readings: `ReadsWhatWasWritten` (the
  bits of a number read as the number), `LimbsRead` (four limbs by Horner's rule),
  `HalvesTellApart` and `AddressesTellApart` (what differs in bits differs as numbers),
  then `G1Read`, `G2Read`, `WordsSent`. `Verdict` puts them together: a signal raised by
  the order is the same scalar to the pairing, but every signal is compared as a word
  with one below the order, so it fails at the gate of that signal. The induction
  invariant (`EncodingInv`) only says that what is deployed, claimed and signed was made
  by the operations.
- **Float** (`FloatNoTransferFails`, `FloatNoBlindRepeat`). `CoveredInv`: a transaction
  whose number is next is covered by its owner's balance, since whatever spent from
  that key since it was built has used that number. `ChanceInv` counts, for each job,
  the transfers made and the transactions that can still be taken against its starts
  and doubts.
- **Edge** (`LimiterIsExact`, `AnswersAreSo`). The map's times of an address are among
  those of the log, and what is missing is older than the window (`PrunedKeepsRecent`,
  `AskedKeepsLimiter`), so counting either gives the same; that the map's address is the
  client's is `ClientIsKnown`, from what `EdgeAssumption` says of the proxies.
- **Operator scripts** (`ScriptInvariant`, then `LastWordAlwaysHolds` and
  `EvidenceIsAlwaysSound`). `ScriptInv` says at each step of each script what the
  network can hold of whom, and so what a logged success can still be overtaken by.
- **Deck and scripts** (`PaymentsInvariant`, then `AttacksPayNothing`,
  `RefusedReplaysWerePaid`, `GatesHold`). What was signed for an attack is `Crafted`:
  wherever it is on its way, it carries what was tampered with, and `GateOfAttack` gives
  `StoppedBy` as the verdict in every state of the account, frozen, rotated or spent
  (`WorldOK` is what `DeckAssumption` gives of the account's policy); an entry that the
  host does not admit meets no gate. For the replays, an entry that a script left behind
  was made for a valid payment, and such an entry passes every gate of an account that
  `WouldPay` (`PaymentPasses`): if it is refused, what remains is its nonce.
- **Prover** (`PoolTypes`, `PostedInvariant`): a call that has not started has no id and
  no outcome, ids are never reassigned, and a call settles under the id it has, so
  a caller gets its own proof; `Request` is any set.

**Recursion without an induction theorem.** The provers cannot instantiate a theorem that
takes an operator, so induction is over sets of numbers (`SetInduction`, from the least
element of a nonempty set): the set of those heights, lengths or widths for which the
statement holds contains 0 and with each number the next. `RECURSIVE` is not used in a
module with theorems.

**Only model-checked** is liveness, which is out of the prover's reach:
`EveryRequestAnswered`, `ConsoleComesBack`, `EveryPaymentEnds`, `SweepComesBack` and
`EveryProofEnds`. Every other property of a passing run is a theorem. Proved and not run:
`HeldByAPayment` (the form and the agent are busy only while a payment is).

## 5. Not modelled

- *Poseidon, the pairing and field arithmetic* are assumed sound and binding; their
  widths and the order's effect are in `ProofEncoding`.
- `check_auth_direct` and the contract's tests repeat `__check_auth` with other inputs;
  `init_account.mjs` calls an `init` that `lib.rs` does not have.
- *The view*: rendering, formatting and wording beyond what the screens' operators say,
  `web/app.js`'s event wiring, the Freighter adapter, and `web/lib/buffer.bundle.js`, a
  third-party bundle.
- *Funding*: friendbot and trustlines of fresh wallets, which a creation may await
  before it deploys; they change nothing that the account relies on.
- *HTTP*: static files and the waitlist export's dump change no state;
  syntax checks of addresses decide only whether a request is handled.
- *Scripts that measure, take screenshots or drive the page* go through the operations
  modelled here.
- *The worker's copy* of the server runs many isolates, each with a limiter of its own,
  over one KV store; `EdgeServices` is one process, and a restart stands for a new
  isolate.

## 6. What could follow

1. A card of the deck and a script at once, in one state space, with the relayer's
   sequence number in it: `AttackDeck` over `Relay`.
2. Several isolates of `worker.mjs` over one store, which may read stale values, and the
   limiter that each of them has for itself.
3. Two tabs over one localStorage: `saveLocal` reads, changes and writes back the whole
   map of keystores.
