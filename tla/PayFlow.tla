------------------------------ MODULE PayFlow ------------------------------
(***************************************************************************)
(* Payments as clients make them: pay() of web/lib/chain.js under the Pay  *)
(* form (runPay) and the agent (sendAgent, agentPay) of one browser page,  *)
(* and its copy in scripts (payTool of agent_server.mjs), which always     *)
(* pays from the demo account.                                             *)
(*                                                                         *)
(* A page has one active account, which pay() reads anew after each of its *)
(* awaits; the user may switch it at any time.  The chain is abstracted to *)
(* what PaymentHost establishes: an entry authorizes one transfer, of the  *)
(* account it was signed for, with a proof under that account's policy.    *)
(***************************************************************************)
EXTENDS Naturals, FiniteSets

CONSTANTS
  Flow,         \* payments, numbered in the order in which they are asked for
  Account,      \* Nulth accounts the page can make active
  Demo,         \* C.account
  Dest,         \* destinations
  Payments,     \* what may be asked for: [dest, amount in stroops]
  CapOf,        \* cap of each account's policy
  MembersOf,    \* allowlist of each account's policy
  Opening,      \* opening balance of each account
  Modes,        \* of "relay", "local" and "none": who pays the fee
  NoValue,
  MaxSwitches,  \* bound: how often the active account is switched
  MaxClock      \* bound: milliseconds that Date.now() goes through

ASSUME PayFlowAssumption ==
  /\ Flow \subseteq Nat
  /\ Demo \in Account
  /\ Modes \subseteq {"relay", "local", "none"}
  /\ Payments \subseteq [dest : Dest, amount : Nat \ {0}]
  /\ CapOf \in [Account -> Nat]
  /\ MembersOf \in [Account -> SUBSET Dest]
  /\ Opening \in [Account -> Nat]
  /\ {MaxSwitches, MaxClock} \subseteq Nat
  /\ NoValue \notin Account \cup Dest \cup Flow

VARIABLES
  mode,       \* _relay and feePayerSecret(), for the life of the page
  active,     \* _active
  demoReady,  \* _demo # null: the demo policy has been fetched
  clock,      \* Date.now() when it was last read
  switches,
  pc,         \* where each payment is
  ask,        \* who asked for it, and for what
  job,        \* the accounts and the nonce it was put together from
  answer,     \* what pay() returned or threw
  page,       \* this.pay: the Pay form
  busy,       \* this.agent.busy
  crossed,    \* form payments that saw another one, or a switch (history)
  pool,       \* payments whose transaction the network holds
  result,     \* what the ledger says of the transaction
  spent,      \* nonces consumed, per account
  funds       \* balances of the accounts

flowVars == <<pc, ask, job, answer>>
pageVars == <<page, busy, crossed>>
sessionVars == <<mode, active, demoReady, clock, switches>>
ledgerVars == <<pool, result, spent, funds>>
payVars == <<sessionVars, flowVars, pageVars, ledgerVars>>

PayInit ==
  /\ mode \in Modes
  /\ active \in Account
  /\ demoReady = FALSE /\ clock = 1 /\ switches = 0
  /\ pc = [f \in Flow |-> "idle"]
  /\ ask = [f \in Flow |-> NoValue]
  /\ job = [f \in Flow |-> [op |-> NoValue, entry |-> NoValue, proof |-> NoValue, nonce |-> 0]]
  /\ answer = [f \in Flow |-> "none"]
  /\ page = [phase |-> "idle", dest |-> NoValue, amount |-> NoValue, of |-> NoValue]
  /\ busy = FALSE /\ crossed = {}
  /\ pool = {} /\ result = [f \in Flow |-> "NOT_FOUND"]
  /\ spent = {} /\ funds = Opening

-----------------------------------------------------------------------------
(* What the screens offer.                                                 *)

\* pay_screen: the form's button, and those in the panel of the phase.
PayScreen ==
  {b \in {"pay", "payreset", "copyreceipt"} :
     CASE b = "pay" -> mode # "none" /\ page.phase # "running"
       [] b = "payreset" -> page.phase \in {"done", "refused", "error"}
       [] b = "copyreceipt" -> page.phase = "done"}

\* agentScreen: the field, its button and the chips are there for one message at
\* a time.
AgentScreen == IF busy THEN {} ELSE {"agentsend", "agentchip"}

-----------------------------------------------------------------------------
(* One payment.                                                            *)

Kind(f) == ask[f].kind

\* The account a payment reads now: _active, or the one a script is made for.
Acct(f) == IF Kind(f) = "script" THEN Demo ELSE active

Relayed(f) == Kind(f) # "script" /\ mode = "relay"

Underway(f) == pc[f] \notin {"idle", "done"}

Upcoming(f) == pc[f] = "idle" /\ \A g \in Flow : g < f => pc[g] # "idle"

GoTo(f, label) == pc' = [pc EXCEPT ![f] = label]

\* precheck: the keystore that is current decides.
Precheck(f) ==
  /\ ask[f].dest \in MembersOf[Acct(f)]
  /\ ask[f].amount <= CapOf[Acct(f)]

\* __check_auth and the transfer after it, if account a is debited: the entry
\* is a's and unused, its proof is under a's policy, and the money is there.
Authorizes(a, f) ==
  /\ job[f].entry = a
  /\ job[f].proof = a
  /\ <<a, job[f].nonce>> \notin spent
  /\ funds[a] >= ask[f].amount

\* The status or error is back with runPay's await or catch, or agentPay's.
Ends(f, outcome) ==
  /\ GoTo(f, "done")
  /\ answer' = [answer EXCEPT ![f] = outcome]
  /\ page' = IF Kind(f) # "form" THEN page
             ELSE [page EXCEPT !.phase = IF outcome = "refused" THEN "refused" ELSE "error"]
  /\ busy' = (busy /\ Kind(f) # "agent")
  /\ UNCHANGED crossed

\* runPay up to its first await.  The page shows that it is running only from
\* Begin on, and offers the button until then.
ClickPay(f, p) ==
  /\ Upcoming(f)
  /\ "pay" \in PayScreen
  /\ ask' = [ask EXCEPT ![f] = [kind |-> "form", dest |-> p.dest, amount |-> p.amount]]
  /\ GoTo(f, "before")
  /\ LET others == {g \in Flow : Underway(g) /\ Kind(g) = "form"}
     IN  crossed' = crossed \cup IF others = {} THEN {} ELSE others \cup {f}
  /\ UNCHANGED <<sessionVars, ledgerVars, job, answer, page, busy>>

BeginSilently(f) ==                        \* mutant: the form's values are not recorded
  /\ pc[f] = "before"
  /\ page' = [page EXCEPT !.phase = "running", !.of = NoValue]
  /\ GoTo(f, "destField")
  /\ UNCHANGED <<sessionVars, ledgerVars, ask, job, answer, busy, crossed>>

\* The balances before the payment are read; the page shows that it is running.
Begin(f) ==
  /\ pc[f] = "before"
  /\ page' = [phase |-> "running", dest |-> ask[f].dest, amount |-> ask[f].amount,
              of |-> NoValue]
  /\ GoTo(f, "destField")
  /\ UNCHANGED <<sessionVars, ledgerVars, ask, job, answer, busy, crossed>>

\* A message to the agent; its answer may ask for any payment, or for none.
SendAgent(f, p) ==
  /\ Upcoming(f)
  /\ AgentScreen # {}
  /\ busy' = TRUE
  /\ ask' = [ask EXCEPT ![f] = [kind |-> "agent", dest |-> p.dest, amount |-> p.amount]]
  /\ GoTo(f, "intent")
  /\ UNCHANGED <<sessionVars, ledgerVars, job, answer, page, crossed>>

Intent(f) ==
  /\ pc[f] = "intent"
  /\ \/ Ends(f, "chat")
     \/ mode = "none" /\ Ends(f, "error")
     \/ mode # "none" /\ GoTo(f, "destField") /\ UNCHANGED <<answer, pageVars>>
  /\ UNCHANGED <<sessionVars, ledgerVars, ask, job>>

\* A script calls payTool.
RunScript(f, p) ==
  /\ Upcoming(f)
  /\ ask' = [ask EXCEPT ![f] = [kind |-> "script", dest |-> p.dest, amount |-> p.amount]]
  /\ GoTo(f, "destField")
  /\ UNCHANGED <<sessionVars, ledgerVars, job, answer, pageVars>>

\* The destination's field is read and load() is back: refuse before any
\* transaction forms.
DestField(f) ==
  /\ pc[f] = "destField"
  /\ demoReady' = (demoReady \/ Acct(f) = Demo)
  /\ IF Precheck(f)
     THEN GoTo(f, "build") /\ UNCHANGED <<answer, pageVars>>
     ELSE Ends(f, "refused")
  /\ UNCHANGED <<mode, active, clock, switches, ledgerVars, ask, job>>

\* The account that a transfer built now debits.
transferOp(f) == Acct(f)

\* getAccount is back: transferOp reads the active account.
Build(f) ==
  /\ pc[f] = "build"
  /\ job' = [job EXCEPT ![f].op = transferOp(f)]
  /\ GoTo(f, "sim1")
  /\ UNCHANGED <<sessionVars, ledgerVars, ask, answer, pageVars>>

\* prove() past its load(): precheck again, and pick the secret to prove with.
StartProof(f) ==
  IF Precheck(f)
  THEN /\ GoTo(f, "proving")
       /\ clock' \in clock .. MaxClock
       /\ job' = [job EXCEPT ![f] = [op |-> @.op, entry |-> @.op, proof |-> Acct(f), nonce |-> clock']]
       /\ UNCHANGED <<answer, pageVars>>
  ELSE Ends(f, "refused") /\ UNCHANGED <<clock, job>>

\* The simulation recorded an entry for the transfer's account, but pay() looks
\* for one of the account that is active now.  load() comes back at once unless
\* the demo policy has still to be fetched.
SignEntry(f) ==
  /\ pc[f] = "sim1"
  /\ IF funds[job[f].op] < ask[f].amount \/ job[f].op # Acct(f)
     THEN Ends(f, "error") /\ UNCHANGED <<clock, job>>
     ELSE IF Acct(f) = Demo /\ ~demoReady
     THEN GoTo(f, "load") /\ UNCHANGED <<clock, job, answer, pageVars>>
     ELSE StartProof(f)
  /\ UNCHANGED <<mode, active, demoReady, switches, ledgerVars, ask>>

Load(f) ==
  /\ pc[f] = "load"
  /\ demoReady' = TRUE
  /\ StartProof(f)
  /\ UNCHANGED <<mode, active, switches, ledgerVars, ask>>

\* The proof is there, or has failed; getAccount is back, and transferOp reads
\* the active account again.
BuildSigned(f) ==
  /\ pc[f] = "proving"
  /\ \/ Ends(f, "error") /\ UNCHANGED job
     \/ /\ job' = [job EXCEPT ![f].op = transferOp(f)]
        /\ GoTo(f, "sim2")
        /\ UNCHANGED <<answer, pageVars>>
  /\ UNCHANGED <<sessionVars, ledgerVars, ask>>

SimulateBlindly(f) ==                      \* mutant: the second simulation's error is ignored
  /\ pc[f] = "sim2"
  /\ GoTo(f, "submit")
  /\ job' = IF Relayed(f) THEN [job EXCEPT ![f].op = Acct(f)] ELSE job
  /\ UNCHANGED <<sessionVars, ledgerVars, ask, answer, pageVars>>

\* The signed transfer is simulated.  What is handed to the relay names the
\* account that is active when the simulation is back.
SimulateSigned(f) ==
  /\ pc[f] = "sim2"
  /\ IF Authorizes(job[f].op, f)
     THEN /\ GoTo(f, "submit")
          /\ job' = IF Relayed(f) THEN [job EXCEPT ![f].op = Acct(f)] ELSE job
          /\ UNCHANGED <<answer, pageVars>>
     ELSE Ends(f, "error") /\ UNCHANGED job
  /\ UNCHANGED <<sessionVars, ledgerVars, ask>>

SubmitTrusting(f) ==                       \* mutant: the relay's refusal is read off any error
  /\ pc[f] = "submit"
  /\ pool' \in {pool, pool \cup {f}}
  /\ \/ GoTo(f, "settle") /\ UNCHANGED <<answer, pageVars>>
     \/ Ends(f, "rejected")
  /\ UNCHANGED <<sessionVars, ask, job, result, spent, funds>>

\* The relay simulates what it was handed and refuses it, also for reasons that
\* are not modelled here (a freeze, the budget); or it, or the page, sends it.
Submit(f) ==
  /\ pc[f] = "submit"
  /\ \/ Relayed(f) /\ Ends(f, "rejected") /\ UNCHANGED pool
     \/ /\ Relayed(f) => Authorizes(job[f].op, f)
        /\ pool' \in {pool, pool \cup {f}}
        /\ GoTo(f, "settle")
        /\ UNCHANGED <<answer, pageVars>>
  /\ UNCHANGED <<sessionVars, ask, job, result, spent, funds>>

\* The status of a payment is in: pay() returns it.
Returns(f, status) ==
  IF Kind(f) = "form"
  THEN /\ GoTo(f, "balances")
       /\ answer' = [answer EXCEPT ![f] = status]
       /\ UNCHANGED pageVars
  ELSE Ends(f, status)

SettleUntilFinal(f) ==                     \* mutant: polls without a bound
  /\ pc[f] = "settle"
  /\ result[f] # "NOT_FOUND"
  /\ Returns(f, result[f])
  /\ UNCHANGED <<sessionVars, ledgerVars, ask, job>>

\* The last poll, the page's or the relay's: a result, or 30 polls without one.
Settle(f) ==
  /\ pc[f] = "settle"
  /\ Returns(f, result[f])
  /\ UNCHANGED <<sessionVars, ledgerVars, ask, job>>

\* runPay after its last balance: what this.pay is by now, with a result.
ShowResult(f) ==
  /\ pc[f] = "balances"
  /\ GoTo(f, "done")
  /\ page' = [page EXCEPT !.phase = IF answer[f] = "SUCCESS" THEN "done" ELSE "error", !.of = f]
  /\ UNCHANGED <<sessionVars, ledgerVars, ask, job, answer, busy, crossed>>

\* An RPC call or a fetch throws, also after it did its work.
Throws(f) ==
  /\ pc[f] \in {"destField", "build", "sim1", "load", "proving", "sim2", "submit", "settle"}
  /\ pool' \in IF pc[f] = "submit" /\ (Relayed(f) => Authorizes(job[f].op, f))
               THEN {pool, pool \cup {f}} ELSE {pool}
  /\ Ends(f, "error")
  /\ UNCHANGED <<sessionVars, ask, job, result, spent, funds>>

\* A payment goes on.
Step(f) ==
  \/ Begin(f)
  \/ Intent(f)
  \/ DestField(f)
  \/ Build(f)
  \/ SignEntry(f)
  \/ Load(f)
  \/ BuildSigned(f)
  \/ SimulateSigned(f)
  \/ Submit(f)
  \/ Settle(f)
  \/ ShowResult(f)

-----------------------------------------------------------------------------
(* The user and the network.                                               *)

\* switchAccount, enterCreatedAccount: this.pay stays what it was.
SetActive(a) ==
  /\ switches < MaxSwitches
  /\ a # active
  /\ active' = a
  /\ switches' = switches + 1
  /\ crossed' = crossed \cup {f \in Flow : pc[f] # "idle" /\ Kind(f) = "form"}
  /\ UNCHANGED <<mode, demoReady, clock, flowVars, page, busy, ledgerVars>>

\* "Send another", or "Dismiss".
PayReset ==
  /\ "payreset" \in PayScreen
  /\ page' = [phase |-> "idle", dest |-> NoValue, amount |-> NoValue, of |-> NoValue]
  /\ UNCHANGED <<sessionVars, flowVars, ledgerVars, busy, crossed>>

TakeReusing(f) ==                          \* mutant: the nonce is not consumed
  /\ f \in pool
  /\ pool' = pool \ {f}
  /\ Authorizes(job[f].op, f)
  /\ result' = [result EXCEPT ![f] = "SUCCESS"]
  /\ funds' = [funds EXCEPT ![job[f].op] = @ - ask[f].amount]
  /\ UNCHANGED <<sessionVars, flowVars, pageVars, spent>>

\* The ledger applies a transaction, which fails also for reasons that are not
\* modelled here.
Take(f) ==
  /\ f \in pool
  /\ pool' = pool \ {f}
  /\ \/ /\ Authorizes(job[f].op, f)
        /\ result' = [result EXCEPT ![f] = "SUCCESS"]
        /\ spent' = spent \cup {<<job[f].op, job[f].nonce>>}
        /\ funds' = [funds EXCEPT ![job[f].op] = @ - ask[f].amount]
     \/ /\ result' = [result EXCEPT ![f] = "FAILED"]
        /\ UNCHANGED <<spent, funds>>
  /\ UNCHANGED <<sessionVars, flowVars, pageVars>>

Lose(f) ==
  /\ f \in pool
  /\ pool' = pool \ {f}
  /\ UNCHANGED <<sessionVars, flowVars, pageVars, result, spent, funds>>

PayNext ==
  \/ \E f \in Flow, p \in Payments : ClickPay(f, p) \/ SendAgent(f, p) \/ RunScript(f, p)
  \/ \E f \in Flow : Step(f) \/ Throws(f) \/ Take(f) \/ Lose(f)
  \/ \E a \in Account : SetActive(a)
  \/ PayReset

\* The event loop runs a payment whose await is back, and each comes back: the
\* relay answers (Relay!EveryRequestAnswered), a proof ends (ProverWorker).
PaySpec == PayInit /\ [][PayNext]_payVars /\ \A f \in Flow : WF_payVars(Step(f))

-----------------------------------------------------------------------------
(* Properties                                                              *)

\* However often the account is switched between the awaits of pay(), a payment
\* that mixes one account's transfer with another's entry or proof never reaches
\* the network: it dies in the browser's or the relay's simulation.
MixedNeverSent ==
  \A f \in Flow :
    f \in pool \/ result[f] # "NOT_FOUND" =>
      job[f].op = job[f].entry /\ job[f].entry = job[f].proof

\* What a payer is told is so, and stays so: a status is the ledger's word on
\* this payment, and a refusal, the browser's or the relay's, means that nothing
\* was sent and nothing ever will be.
TellsTheTruth ==
  \A f \in Flow :
    /\ answer[f] \in {"SUCCESS", "FAILED"} => result[f] = answer[f]
    /\ answer[f] \in {"refused", "rejected"} => result[f] = "NOT_FOUND" /\ f \notin pool

\* Two payments of one account may draw the same nonce from Date.now(): one of
\* them settles at most, and the other is not reported as paid.
CollisionPaysOnce ==
  \A f, g \in Flow :
    /\ f # g /\ job[f].nonce # 0 /\ job[f].nonce = job[g].nonce /\ job[f].entry = job[g].entry
    /\ result[f] = "SUCCESS"
    => result[g] # "SUCCESS" /\ answer[g] # "SUCCESS"

\* What copyReceipt puts on the clipboard.
Receipt == [from |-> active, to |-> page.dest, amount |-> page.amount]

\* A receipt is for a transaction that settled, also when two form payments overlap
\* and each writes into the other's panel, or the account is switched.  It names the
\* payer, the payee and the amount of that payment, unless it was crossed: then
\* this.pay and _active are those of the other one, and so is what the receipt names.
ReceiptIsTrue ==
  "copyreceipt" \in PayScreen =>
    /\ result[page.of] = "SUCCESS"
    /\ page.of \notin crossed =>
         Receipt = [from |-> job[page.of].op, to |-> ask[page.of].dest,
                    amount |-> ask[page.of].amount]

\* The form and the agent are only held by a payment that is underway.
HeldByAPayment ==
  /\ page.phase = "running" => \E f \in Flow : Underway(f) /\ Kind(f) = "form"
  /\ busy => \E f \in Flow : Underway(f) /\ Kind(f) = "agent"

\* Every payment comes to an end, whatever the network does.
EveryPaymentEnds == <>[](\A f \in Flow : ~Underway(f))

\* What the page says under an error that has a transaction: "the transfer was
\* not authorized; balances unchanged" (app.js 600).
ErrorMeansUnchanged ==
  page.phase = "error" /\ page.of # NoValue => result[page.of] # "SUCCESS"
=============================================================================
