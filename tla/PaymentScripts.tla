--------------------------- MODULE PaymentScripts ---------------------------
(***************************************************************************)
(* The command line beside the page: the scripts that pay from the          *)
(* reference account or attack it, each a sequence of steps.                *)
(*   pay_p1.mjs        a payment, honest or tampered with                   *)
(*   pay_usdc.mjs, sdk/zkpay.mjs   a payment with a proof read from a file  *)
(*   create_user.mjs, payFrom      an honest payment                        *)
(*   agent_server.mjs  payments a language model asks for, and a backstop   *)
(*   attack_probe.mjs  five attacks, only simulated                         *)
(*   attack_submit.mjs an attack sent past its simulation                   *)
(*   replay_same.mjs   the signed entry of pay_p1.mjs once more             *)
(* The account, its world and what attacks are made of are AttackDeck's.    *)
(***************************************************************************)
EXTENDS AttackDeck

CONSTANTS
  Script,   \* processes that run one of the scripts
  Replay,   \* processes that run replay_same.mjs
  Plan      \* bound: the plans that are run


VARIABLES
  plan,      \* the steps a process has left; the first is under way
  phase,     \* where it is in that step
  auth,      \* the signed entry of that step
  said,      \* how its last step ended
  lastAuth,  \* build/last_auth.xdr
  posted,    \* transactions of scripts that the network holds
  results    \* what came of those it took

procVars == <<plan, phase, auth, said, lastAuth>>
scriptVars == <<procVars, posted, results>>

Process == Script \cup Replay

ScriptInit ==
  /\ plan = [s \in Process |-> << >>]
  /\ phase = [s \in Process |-> "idle"]
  /\ auth = [s \in Process |-> NoValue]
  /\ said = [s \in Process |-> NoValue]
  /\ lastAuth = NoValue
  /\ posted = {}
  /\ results = {}

-----------------------------------------------------------------------------
(* What the scripts do.                                                    *)

Step(act, m) == [act |-> act, mode |-> m]

\* The card of the deck that a mode of the scripts amounts to.
Card ==
  [valid |-> "valid", overcap |-> "valid", bitflip |-> "malleability",
   swap_ac |-> "malleability", fresh_nonce |-> "noncelift",
   wrong_policy |-> "oldpolicy", wrong_token |-> "wrongtoken", redirect |-> "redirect"]

\* pay_p1.mjs; redirect is TO_OVERRIDE.
PayPlans ==
  {<<Step("pay", m)>> :
     m \in {"valid", "fresh_nonce", "wrong_policy", "bitflip", "swap_ac", "redirect"}}

\* attack_probe.mjs
ProbePlan ==
  <<Step("probe", "swap_ac"), Step("probe", "fresh_nonce"), Step("probe", "wrong_policy"),
    Step("probe", "wrong_token"), Step("probe", "redirect")>>

\* runAgent: the model buys from the service, or not; with the jailbreak it
\* then asks for what the injection says, or is made to; then the backstop.
AgentPlans ==
  LET bought == {<<Step("tool", m)>> : m \in {"valid", "overcap"}}
      asked == {<<Step("attempt", m), Step("backstop", "redirect")>> :
                  m \in {"valid", "overcap", "redirect"}}
  IN  bought \cup asked \cup {b \o a : b \in bought, a \in asked}

Plans ==
  PayPlans \cup AgentPlans \cup
  {ProbePlan, <<Step("submit", "redirect")>>, <<Step("file", "valid")>>,
   <<Step("payFrom", "valid")>>}

ASSUME ScriptAssumption ==
  /\ Script \cap Replay = {}
  /\ Plan \subseteq Plans

\* The transfer of a step's transaction.
CallsMade(step) == CallsOf(Card[step.mode])

Borrows(step) == step.act \in {"submit", "backstop"}

\* The transfer that is simulated for an entry, before anything is signed.
Rehearsed(step) == IF Borrows(step) THEN ValidCalls ELSE CallsMade(step)

\* The transfer that the entry of a step is made for.
Signed(step) ==
  CASE step.act = "backstop" -> ValidCalls
    [] step.act = "submit" -> SignedCalls("redirect")
    [] OTHER -> CallsMade(step)

\* A proof from a file: of an older circuit, or for an entry that is past.
FromFile(n) ==
  LET made == Crafted("valid", n, ValidCalls)
      olds == {[made.sig EXCEPT !.count = N_PUBLIC - 2]}
              \cup {Crafted("valid", k, ValidCalls).sig : k \in Nonce \ {n}}
  IN  {[made EXCEPT !.sig = old] : old \in olds}

Entered(step, n) ==
  IF step.act = "file" THEN FromFile(n)
  ELSE {Crafted(Card[step.mode], n, Signed(step))}

-----------------------------------------------------------------------------

Enter(s, where) == phase' = [phase EXCEPT ![s] = where]

Begin(s, p) ==
  /\ phase[s] = "idle"
  /\ plan' = [plan EXCEPT ![s] = p]
  /\ Enter(s, "rehearse")
  /\ UNCHANGED <<auth, said, lastAuth, posted, results>>

\* AUTH_XDR: what pay_p1.mjs has written.
BeginReplay(s) ==
  /\ phase[s] = "idle"
  /\ lastAuth # NoValue
  /\ plan' = [plan EXCEPT ![s] = <<Step("replay", "valid")>>]
  /\ auth' = [auth EXCEPT ![s] = lastAuth]
  /\ Enter(s, "simulate")
  /\ UNCHANGED <<said, lastAuth, posted, results>>

\* An error ends the program, except in the attempt that runAgent catches; a
\* tool that refuses throws as well.
Ends(step, word) ==
  \/ word = "threw" /\ step.act # "attempt"
  \/ word \in {"refused", "no entry", "rejected"} /\ step.act = "tool"

EndStep(s, word) ==
  LET rest == IF Ends(Head(plan[s]), word) THEN << >> ELSE Tail(plan[s])
  IN  /\ said' = [said EXCEPT ![s] = word]
      /\ plan' = [plan EXCEPT ![s] = rest]
      /\ auth' = [auth EXCEPT ![s] = NoValue]
      /\ Enter(s, IF rest = << >> THEN "over" ELSE "rehearse")

\* How a step ends whose first simulation fails: there is no entry to sign, or no
\* footprint to borrow, which throws.
WithoutEntry(step) == IF Borrows(step) THEN "threw" ELSE "no entry"

\* payTool's own checks; then a simulation, the entry and the proof.
Rehearse(s) ==
  LET step == Head(plan[s])
  IN  /\ phase[s] = "rehearse"
      /\ \/ /\ step.act \in {"tool", "attempt"} /\ step.mode # "valid"
            /\ EndStep(s, "refused")
         \/ /\ step.act \notin {"tool", "attempt"} \/ step.mode = "valid"
            /\ ~Pays(Rehearsed(step))
            /\ EndStep(s, WithoutEntry(step))
         \/ /\ step.act \notin {"tool", "attempt"} \/ step.mode = "valid"
            /\ Pays(Rehearsed(step))
            /\ \E n \in Nonce : \E e \in Entered(step, n) :
                 auth' = [auth EXCEPT ![s] = e]
            /\ said' = [said EXCEPT ![s] = NoValue]
            /\ Enter(s, IF Borrows(step) THEN "send" ELSE "simulate")
            /\ UNCHANGED plan
      /\ UNCHANGED <<lastAuth, posted, results>>

\* What a simulation says of the signed transfer, which is all that attack_probe.mjs asks.
Simulated(step, signed) == EntryVerdict(CallsMade(step), signed)

SimulateSignedEager(s) ==                  \* mutant: last_auth.xdr is written before the verdict
  LET step == Head(plan[s])
      verdict == Simulated(step, auth[s])
      fine == verdict = "Ok" /\ Pays(CallsMade(step))
  IN  /\ phase[s] = "simulate"
      /\ lastAuth' = IF step.act = "pay" THEN auth[s] ELSE lastAuth
      /\ \/ step.act = "probe" /\ EndStep(s, verdict)
         \/ step.act # "probe" /\ ~fine /\ EndStep(s, "rejected")
         \/ step.act = "pay" /\ fine /\ EndStep(s, "SEND=no")
         \/ step.act # "probe" /\ fine /\ Enter(s, "send") /\ UNCHANGED <<plan, auth, said>>
      /\ UNCHANGED <<posted, results>>

\* The second simulation, with the signed entry.
SimulateSigned(s) ==
  LET step == Head(plan[s])
      verdict == Simulated(step, auth[s])
      fine == verdict = "Ok" /\ Pays(CallsMade(step))
  IN  /\ phase[s] = "simulate"
      /\ \/ step.act = "probe" /\ EndStep(s, verdict) /\ UNCHANGED lastAuth
         \/ step.act # "probe" /\ ~fine /\ EndStep(s, "rejected") /\ UNCHANGED lastAuth
         \/ step.act = "pay" /\ fine /\ EndStep(s, "SEND=no") /\ UNCHANGED lastAuth
         \/ /\ step.act # "probe" /\ fine
            /\ lastAuth' = IF step.act = "pay" THEN auth[s] ELSE lastAuth
            /\ Enter(s, "send")
            /\ UNCHANGED <<plan, auth, said>>
      /\ UNCHANGED <<posted, results>>

ScriptTx(s) ==
  [by |-> s, left |-> Len(plan[s]), mode |-> Head(plan[s]).mode,
   calls |-> CallsMade(Head(plan[s])), entry |-> auth[s]]

\* The network may refuse a transaction; the script polls all the same.
SendScript(s) ==
  /\ phase[s] = "send"
  /\ posted' \in {posted, posted \cup {ScriptTx(s)}}
  /\ Enter(s, "poll")
  /\ UNCHANGED <<plan, auth, said, lastAuth, results>>

StatusOf(tx) ==
  IF \E r \in results : r.tx = tx
  THEN (CHOOSE r \in results : r.tx = tx).status ELSE "NOT_FOUND"

\* The polls are over, with a status or without.
Poll(s) ==
  /\ phase[s] = "poll"
  /\ EndStep(s, StatusOf(ScriptTx(s)))
  /\ UNCHANGED <<lastAuth, posted, results>>

\* Any call of the RPC server throws, or proving does.
Crashes(s) ==
  /\ phase[s] \in {"rehearse", "simulate", "send", "poll"}
  /\ posted' \in IF phase[s] = "send" THEN {posted, posted \cup {ScriptTx(s)}} ELSE {posted}
  /\ EndStep(s, "threw")
  /\ UNCHANGED <<lastAuth, results>>

ProcessStep(s) ==
  Rehearse(s) \/ SimulateSigned(s) \/ SendScript(s) \/ Poll(s) \/ Crashes(s)

-----------------------------------------------------------------------------
(* The network.                                                            *)

TakeScript(tx) ==
  /\ posted' = posted \ {tx}
  /\ IF EntryVerdict(tx.calls, tx.entry) = "Ok" /\ Pays(tx.calls)
     THEN /\ Submit(tx.calls, tx.entry)
          /\ results' = results \cup {[tx |-> tx, status |-> "SUCCESS"]}
     ELSE /\ results' = results \cup {[tx |-> tx, status |-> "FAILED"]}
          /\ UNCHANGED <<vars, hostVars>>

LoseScript(tx) ==
  /\ posted' = posted \ {tx}
  /\ UNCHANGED <<vars, hostVars, results>>

ScriptNext ==
  \/ /\ \/ \E s \in Script, p \in Plan : Begin(s, p)
        \/ \E s \in Replay : BeginReplay(s)
        \/ \E s \in Process : ProcessStep(s)
     /\ UNCHANGED <<vars, hostVars>>
  \/ (\E tx \in posted : TakeScript(tx) \/ LoseScript(tx)) /\ UNCHANGED procVars
  \/ HostNext /\ UNCHANGED scriptVars

\* The page's deck and the scripts, against the same account.
DeckStep == DeckNext /\ UNCHANGED scriptVars
ScriptsStep == ScriptNext /\ UNCHANGED <<trustline, pageVars, netVars>>

PaymentsInit == DeckInit /\ ScriptInit

PaymentsSpec == PaymentsInit /\ [][DeckStep \/ ScriptsStep]_<<deckVars, scriptVars>>

-----------------------------------------------------------------------------
(* Properties                                                              *)

\* What is tampered with, redirected, proved for something else or sent past its
\* simulation never pays, by a card of the deck or by a script, whatever governance,
\* other payments and deposits do meanwhile: "chain rejected" is what the agent
\* prints of its backstop before it knows (agent_server.mjs 135).
AttacksNeverPay ==
  /\ AttackNeverPays
  /\ \A r \in results :
       r.status = "SUCCESS" => r.tx.mode = "valid" /\ r.tx.calls = ValidCalls

\* The payment of an entry would go through: the account is as its keystore assumes,
\* the money is there, and the entry has not expired.
WouldPay(e) == Healthy /\ Pays(ValidCalls) /\ now <= e.expires

\* "REPLAY rejected at SIMULATION (nonce already consumed)" (replay_same.mjs 20): if
\* nothing else speaks against the payment, then a replay that is refused shows that
\* it has been made.  One that FAILED, or was lost, leaves its entry good for the
\* retry (SECURITY.md 174-183), and pay_p1.mjs leaves behind no entry that never was.
RejectedReplayMeansPaid ==
  [][/\ \A s \in Replay :
          /\ phase[s] = "simulate" /\ phase'[s] = "over" /\ said'[s] = "rejected"
          /\ WouldPay(auth[s])
          => auth[s].nonce \in consumed
     /\ \A r \in results' \ results :
          /\ r.tx.by \in Replay /\ r.status = "FAILED"
          /\ WouldPay(r.tx.entry)
          => r.tx.entry.nonce \in consumed
    ]_<<deckVars, scriptVars>>

\* Each gate stops what it is there for, whether a card or attack_probe.mjs tries, in
\* whatever state governance and other payments have left the account: "Lock the
\* per-attack on-chain code mapping" (attack_probe.mjs 1).
EveryGateHolds ==
  [][/\ CardIsStopped
     /\ \A s \in Script :
          LET step == Head(plan[s])
          IN  /\ phase[s] = "simulate" /\ step.act = "probe"
              /\ said'[s] \notin {"threw", said[s]}
              => IF HostAdmits(CallsMade(step), auth[s])
                 THEN said'[s] = StoppedBy(Card[step.mode])
                 ELSE ~IsCode(said'[s])
    ]_<<deckVars, scriptVars>>
=============================================================================
