--------------------------- MODULE PayFlowProofs ---------------------------
(***************************************************************************)
(* What holds of payments for any number of them, any accounts and         *)
(* policies, and however often the active account is switched.             *)
(***************************************************************************)
EXTENDS PayFlow, TLAPS

Request == [kind : {"form", "agent", "script"}, dest : Dest, amount : Nat]
Party == Account \cup {NoValue}
Job == [op : Party, entry : Party, proof : Party, nonce : Nat]
Status == {"SUCCESS", "FAILED", "NOT_FOUND"}
Answer == Status \cup {"none", "refused", "rejected", "error", "chat"}
Page == [phase : {"idle", "running", "done", "refused", "error"},
         dest : Dest \cup {NoValue}, amount : Nat \cup {NoValue}, of : Flow \cup {NoValue}]
Label == {"idle", "before", "intent", "destField", "build", "sim1", "load", "proving", "sim2",
          "submit", "settle", "balances", "done"}

\* A payment that is asked for is a request, of the kind its place is for.
PayTypeOK ==
  /\ mode \in Modes /\ active \in Account /\ clock \in Nat
  /\ pc \in [Flow -> Label]
  /\ job \in [Flow -> Job]
  /\ answer \in [Flow -> Answer]
  /\ result \in [Flow -> Status]
  /\ page \in Page
  /\ crossed \subseteq Flow /\ pool \subseteq Flow

AskOK ==
  /\ ask \in [Flow -> Request \cup {NoValue}]
  /\ \A f \in Flow : pc[f] # "idle" => ask[f] \in Request
  /\ \A f \in Flow :
       /\ pc[f] \in {"before", "balances"} => ask[f].kind = "form"
       /\ pc[f] = "intent" => ask[f].kind = "agent"


LEMMA AcctType == ASSUME PayTypeOK, NEW f \in Flow PROVE Acct(f) \in Party
  BY PayFlowAssumption DEF PayTypeOK, Acct, Party

LEMMA GoToTypes ==
  ASSUME PayTypeOK, NEW f \in Flow, NEW label \in Label, GoTo(f, label)
  PROVE  pc' \in [Flow -> Label] /\ pc'[f] = label /\ \A g \in Flow \ {f} : pc'[g] = pc[g]
  BY DEF PayTypeOK, GoTo, Label

\* The part of the state that Ends writes.
LEMMA EndsTypes ==
  ASSUME PayTypeOK, NEW f \in Flow, NEW outcome \in Answer, Ends(f, outcome)
  PROVE  /\ pc' \in [Flow -> Label] /\ pc'[f] = "done" /\ \A g \in Flow \ {f} : pc'[g] = pc[g]
         /\ answer' \in [Flow -> Answer] /\ answer'[f] = outcome
         /\ \A g \in Flow \ {f} : answer'[g] = answer[g]
         /\ page' \in Page /\ crossed' = crossed
         /\ page'.dest = page.dest /\ page'.amount = page.amount /\ page'.of = page.of
         /\ IF Kind(f) = "form" THEN page'.phase \in {"refused", "error"}
            ELSE page'.phase = page.phase
<1>1. "done" \in Label
  BY DEF Label
<1>2. pc' \in [Flow -> Label] /\ pc'[f] = "done" /\ \A g \in Flow \ {f} : pc'[g] = pc[g]
  BY <1>1, GoToTypes DEF Ends
<1>3. page' = page \/ page' = [page EXCEPT !.phase = "refused"] \/ page' = [page EXCEPT !.phase = "error"]
  BY DEF Ends
<1>4. Kind(f) = "form" => page' = [page EXCEPT !.phase = "refused"] \/ page' = [page EXCEPT !.phase = "error"]
  BY DEF Ends
<1>5. Kind(f) # "form" => page' = page
  BY DEF Ends
<1>6. /\ page' \in Page
      /\ page'.dest = page.dest /\ page'.amount = page.amount /\ page'.of = page.of
  BY <1>3 DEF PayTypeOK, Page
<1>7. IF Kind(f) = "form" THEN page'.phase \in {"refused", "error"} ELSE page'.phase = page.phase
  BY <1>4, <1>5 DEF PayTypeOK, Page
<1>8. answer' = [answer EXCEPT ![f] = outcome] /\ crossed' = crossed
  BY DEF Ends
<1> QED
  BY <1>2, <1>6, <1>7, <1>8 DEF PayTypeOK

\* What prove() makes of a job, or refuses to.
LEMMA StartProofTypes ==
  ASSUME PayTypeOK, NEW f \in Flow, StartProof(f)
  PROVE  \/ /\ GoTo(f, "proving") /\ clock' \in Nat
            /\ job' \in [Flow -> Job]
            /\ job'[f].op = job[f].op /\ job'[f].entry = job[f].op
            /\ \A g \in Flow \ {f} : job'[g] = job[g]
            /\ UNCHANGED <<answer, pageVars>>
         \/ Ends(f, "refused") /\ UNCHANGED <<clock, job>>
<1>1. CASE ~Precheck(f)
  BY <1>1 DEF StartProof
<1>2. CASE Precheck(f)
  <2>1. clock' \in Nat
    BY <1>2, PayFlowAssumption DEF StartProof, PayTypeOK
  <2> DEFINE j == [op |-> job[f].op, entry |-> job[f].op, proof |-> Acct(f), nonce |-> clock']
  <2>2. job' = [job EXCEPT ![f] = j]
    BY <1>2 DEF StartProof
  <2>3. j \in Job
    BY <2>1, AcctType DEF PayTypeOK, Job
  <2> QED
    BY <1>2, <2>1, <2>2, <2>3 DEF StartProof, PayTypeOK
<1> QED
  BY <1>1, <1>2

\* Any step keeps the types of everything that it writes.
LEMMA PayTypesStep == PayTypeOK /\ AskOK /\ [PayNext]_payVars => PayTypeOK'
<1> SUFFICES ASSUME PayTypeOK, AskOK, [PayNext]_payVars PROVE PayTypeOK'
  OBVIOUS
<1> USE DEF flowVars, pageVars, sessionVars, ledgerVars
<1>1. \A f \in Flow, p \in Payments : ClickPay(f, p) \/ SendAgent(f, p) \/ RunScript(f, p) => PayTypeOK'
  BY DEF ClickPay, SendAgent, RunScript, GoTo, PayTypeOK, Label
<1>2. \A f \in Flow : Begin(f) => PayTypeOK'
  <2> SUFFICES ASSUME NEW f \in Flow, Begin(f), ask[f] \in Request PROVE PayTypeOK'
    BY DEF Begin, AskOK
  <2> QED
    BY DEF Begin, GoTo, PayTypeOK, Label, Page, Request
<1>3. \A f \in Flow : Intent(f) => PayTypeOK'
  <2> SUFFICES ASSUME NEW f \in Flow, Intent(f) PROVE PayTypeOK'
    OBVIOUS
  <2>1. CASE GoTo(f, "destField") /\ UNCHANGED <<answer, pageVars>>
    BY <2>1 DEF Intent, GoTo, PayTypeOK, Label
  <2>2. CASE Ends(f, "chat") \/ Ends(f, "error")
    BY <2>2, EndsTypes DEF Intent, PayTypeOK, Answer
  <2> QED
    BY <2>1, <2>2 DEF Intent
<1>4. \A f \in Flow : DestField(f) => PayTypeOK'
  <2> SUFFICES ASSUME NEW f \in Flow, DestField(f) PROVE PayTypeOK'
    OBVIOUS
  <2>1. CASE GoTo(f, "build") /\ UNCHANGED <<answer, pageVars>>
    BY <2>1 DEF DestField, GoTo, PayTypeOK, Label
  <2>2. CASE Ends(f, "refused")
    BY <2>2, EndsTypes DEF DestField, PayTypeOK, Answer
  <2> QED
    BY <2>1, <2>2 DEF DestField
<1>5. \A f \in Flow : Build(f) => PayTypeOK'
  BY AcctType DEF Build, transferOp, GoTo, PayTypeOK, Label, Job
<1>6. \A f \in Flow : StartProof(f) /\ UNCHANGED <<mode, active, ledgerVars>> => PayTypeOK'
  BY StartProofTypes, EndsTypes DEF GoTo, PayTypeOK, Label, Answer
<1>7. \A f \in Flow : SignEntry(f) => PayTypeOK'
  <2> SUFFICES ASSUME NEW f \in Flow, SignEntry(f), ~StartProof(f) PROVE PayTypeOK'
    BY <1>6 DEF SignEntry
  <2>1. CASE GoTo(f, "load") /\ UNCHANGED <<clock, job, answer, pageVars>>
    BY <2>1 DEF SignEntry, GoTo, PayTypeOK, Label
  <2>2. CASE Ends(f, "error") /\ UNCHANGED <<clock, job>>
    BY <2>2, EndsTypes DEF SignEntry, PayTypeOK, Answer
  <2> QED
    BY <2>1, <2>2 DEF SignEntry
<1>8. \A f \in Flow : Load(f) => PayTypeOK'
  BY <1>6 DEF Load
<1>9. \A f \in Flow : BuildSigned(f) \/ SimulateSigned(f) => PayTypeOK'
  <2> SUFFICES ASSUME NEW f \in Flow, BuildSigned(f) \/ SimulateSigned(f) PROVE PayTypeOK'
    OBVIOUS
  <2>1. \/ Ends(f, "error") /\ UNCHANGED <<job, sessionVars, ledgerVars>>
        \/ /\ GoTo(f, "sim2") \/ GoTo(f, "submit")
           /\ job' = job \/ job' = [job EXCEPT ![f].op = Acct(f)]
           /\ UNCHANGED <<answer, pageVars, sessionVars, ledgerVars>>
    BY DEF BuildSigned, transferOp, SimulateSigned
  <2>2. CASE Ends(f, "error") /\ UNCHANGED <<job, sessionVars, ledgerVars>>
    BY <2>2, EndsTypes DEF PayTypeOK, Answer
  <2>3. CASE (GoTo(f, "sim2") \/ GoTo(f, "submit")) /\ UNCHANGED <<answer, pageVars, sessionVars, ledgerVars>>
    <3>1. pc' \in [Flow -> Label]
      BY <2>3 DEF GoTo, PayTypeOK, Label
    <3>2. job' \in [Flow -> Job]
      BY <2>1, EndsTypes, AcctType DEF PayTypeOK, Job, Answer, Ends
    <3> QED
      BY <2>3, <3>1, <3>2 DEF PayTypeOK
  <2> QED
    BY <2>1, <2>2, <2>3
<1>10. \A f \in Flow : Submit(f) \/ Throws(f) => PayTypeOK'
  <2> SUFFICES ASSUME NEW f \in Flow, Submit(f) \/ Throws(f) PROVE PayTypeOK'
    OBVIOUS
  <2>1. pool' \in SUBSET Flow /\ UNCHANGED <<sessionVars, job, result>>
    BY DEF Submit, Throws, PayTypeOK
  <2>2. CASE GoTo(f, "settle") /\ UNCHANGED <<answer, pageVars>>
    BY <2>1, <2>2 DEF GoTo, PayTypeOK, Label
  <2>3. CASE Ends(f, "rejected") \/ Ends(f, "error")
    BY <2>1, <2>3, EndsTypes DEF PayTypeOK, Answer
  <2> QED
    BY <2>2, <2>3 DEF Submit, Throws
<1>11. \A f \in Flow : Settle(f) => PayTypeOK'
  <2> SUFFICES ASSUME NEW f \in Flow, Settle(f) PROVE PayTypeOK'
    OBVIOUS
  <2>1. result[f] \in Answer
    BY DEF PayTypeOK, Answer
  <2>2. CASE Ends(f, result[f])
    BY <2>1, <2>2, EndsTypes DEF Settle, PayTypeOK
  <2>3. CASE ~Ends(f, result[f])
    BY <2>1, <2>3 DEF Settle, Returns, GoTo, PayTypeOK, Label
  <2> QED
    BY <2>2, <2>3
<1>12. \A f \in Flow : ShowResult(f) => PayTypeOK'
  <2> SUFFICES ASSUME NEW f \in Flow, ShowResult(f) PROVE PayTypeOK'
    OBVIOUS
  <2>1. page' \in Page
    BY DEF ShowResult, PayTypeOK, Page
  <2> QED
    BY <2>1 DEF ShowResult, GoTo, PayTypeOK, Label
<1>13. \A f \in Flow : Take(f) \/ Lose(f) => PayTypeOK'
  BY DEF Take, Lose, PayTypeOK, Status
<1>14. \A a \in Account : SetActive(a) => PayTypeOK'
  BY DEF SetActive, PayTypeOK
<1>15. PayReset => PayTypeOK'
  BY DEF PayReset, PayTypeOK, Page
<1>16. UNCHANGED payVars => PayTypeOK'
  BY DEF payVars, PayTypeOK
<1> QED
  BY <1>1, <1>2, <1>3, <1>4, <1>5, <1>7, <1>8, <1>9, <1>10, <1>11, <1>12, <1>13, <1>14, <1>15,
     <1>16 DEF PayNext, Step

\* A payment is asked for once, by the one whom its place is for.
LEMMA AskStep == PayTypeOK /\ AskOK /\ [PayNext]_payVars => AskOK'
<1> SUFFICES ASSUME PayTypeOK, AskOK, [PayNext]_payVars PROVE AskOK'
  OBVIOUS
<1> USE DEF AskOK, flowVars, pageVars, sessionVars, ledgerVars
<1>1. ASSUME NEW f \in Flow, NEW p \in Payments, ClickPay(f, p) \/ SendAgent(f, p) \/ RunScript(f, p)
      PROVE  AskOK'
  <2> DEFINE r(kind) == [kind |-> kind, dest |-> p.dest, amount |-> p.amount]
  <2>1. \A kind \in {"form", "agent", "script"} : r(kind) \in Request /\ r(kind).kind = kind
    BY PayFlowAssumption DEF Request
  <2>2. PICK kind \in {"form", "agent", "script"} :
          /\ ask' = [ask EXCEPT ![f] = r(kind)]
          /\ GoTo(f, IF kind = "form" THEN "before" ELSE IF kind = "agent" THEN "intent" ELSE "destField")
    BY <1>1 DEF ClickPay, SendAgent, RunScript
  <2> HIDE DEF r
  <2> QED
    BY <2>1, <2>2 DEF PayTypeOK, GoTo
<1>2. ASSUME NEW f \in Flow, pc[f] # "idle", ask' = ask, pc'[f] \notin {"before", "balances", "intent"},
             \A g \in Flow \ {f} : pc'[g] = pc[g]
      PROVE  AskOK'
  BY <1>2
<1>3. ASSUME NEW f \in Flow, Step(f) \/ Throws(f), ~Settle(f) PROVE AskOK'
  <2>1. pc[f] # "idle" /\ ask' = ask
    BY <1>3 DEF Step, Throws, Begin, Intent, DestField, Build, SignEntry, Load, BuildSigned,
                SimulateSigned, Submit, Settle, ShowResult
  <2>2. pc'[f] \notin {"before", "balances", "intent"} /\ \A g \in Flow \ {f} : pc'[g] = pc[g]
    BY <1>3 DEF Step, Throws, Begin, Intent, DestField, Build, SignEntry, StartProof, Load,
                BuildSigned, SimulateSigned, Submit, ShowResult, Ends, GoTo, PayTypeOK
  <2> QED
    BY <1>2, <2>1, <2>2
<1>4. ASSUME NEW f \in Flow, Settle(f) PROVE AskOK'
  BY <1>4 DEF Settle, Returns, Ends, GoTo, Kind, PayTypeOK
<1>5. CASE UNCHANGED <<pc, ask>>
  BY <1>5
<1>6. /\ \A f \in Flow : Take(f) \/ Lose(f) => UNCHANGED <<pc, ask>>
      /\ \A a \in Account : SetActive(a) => UNCHANGED <<pc, ask>>
      /\ PayReset \/ UNCHANGED payVars => UNCHANGED <<pc, ask>>
  BY DEF Take, Lose, SetActive, PayReset, payVars
<1> QED
  BY <1>1, <1>3, <1>4, <1>5, <1>6 DEF PayNext

-----------------------------------------------------------------------------
(* What the ledger makes of payments, and what payers are told.            *)

OneAccount(f) == job[f].op = job[f].entry /\ job[f].entry = job[f].proof

Sent(f) == f \in pool \/ result[f] # "NOT_FOUND"

LedgerInv ==
  /\ \A f \in Flow :
       /\ f \in pool => result[f] = "NOT_FOUND"
       /\ Sent(f) => pc[f] \in {"settle", "balances", "done"} /\ OneAccount(f)
       /\ pc[f] = "submit" /\ ~Relayed(f) => OneAccount(f)
       /\ answer[f] # "none" => pc[f] \in {"balances", "done"}
       /\ answer[f] \in {"SUCCESS", "FAILED"} => result[f] = answer[f]
       /\ answer[f] \in {"refused", "rejected"} => ~Sent(f)
       /\ result[f] = "SUCCESS" => <<job[f].op, job[f].nonce>> \in spent
  /\ \A f, g \in Flow :
       f # g /\ result[f] = "SUCCESS" /\ result[g] = "SUCCESS"
         => <<job[f].op, job[f].nonce>> # <<job[g].op, job[g].nonce>>

\* A payment that has not been sent touches nothing that was.
LEMMA UnsentStep ==
  ASSUME LedgerInv, NEW f \in Flow, pc[f] \notin {"settle", "balances", "done"},
         UNCHANGED <<mode, pool, result, spent>>,
         \A g \in Flow \ {f} : /\ pc'[g] = pc[g] /\ job'[g] = job[g]
                               /\ ask'[g] = ask[g] /\ answer'[g] = answer[g],
         pc'[f] = "submit" /\ ~Relayed(f)' => OneAccount(f)',
         answer'[f] = answer[f] \/ (pc'[f] = "done" /\ answer'[f] \in {"refused", "rejected", "error", "chat"})
  PROVE  LedgerInv'
<1>1. ~Sent(f)' /\ answer[f] = "none"
  BY DEF LedgerInv, Sent
<1>2. \A g \in Flow \ {f} : /\ Sent(g)' <=> Sent(g)
                            /\ OneAccount(g)' <=> OneAccount(g)
                            /\ Relayed(g)' <=> Relayed(g)
  BY DEF Sent, OneAccount, Relayed, Kind
<1>3. ASSUME NEW g \in Flow
      PROVE  /\ g \in pool' => result'[g] = "NOT_FOUND"
             /\ Sent(g)' => pc'[g] \in {"settle", "balances", "done"} /\ OneAccount(g)'
             /\ pc'[g] = "submit" /\ ~Relayed(g)' => OneAccount(g)'
             /\ answer'[g] # "none" => pc'[g] \in {"balances", "done"}
             /\ answer'[g] \in {"SUCCESS", "FAILED"} => result'[g] = answer'[g]
             /\ answer'[g] \in {"refused", "rejected"} => ~Sent(g)'
             /\ result'[g] = "SUCCESS" => <<job'[g].op, job'[g].nonce>> \in spent'
  <2>1. CASE g = f
    BY <1>1, <2>1 DEF LedgerInv, Sent
  <2>2. CASE g # f
    BY <1>2, <2>2 DEF LedgerInv
  <2> QED
    BY <2>1, <2>2
<1>4. \A g, h \in Flow :
        g # h /\ result'[g] = "SUCCESS" /\ result'[h] = "SUCCESS"
          => <<job'[g].op, job'[g].nonce>> # <<job'[h].op, job'[h].nonce>>
  BY <1>1 DEF LedgerInv, Sent
<1> QED
  BY <1>3, <1>4 DEF LedgerInv

LEMMA LedgerStep == PayTypeOK /\ AskOK /\ LedgerInv /\ [PayNext]_payVars => LedgerInv'
<1> SUFFICES ASSUME PayTypeOK, AskOK, LedgerInv, [PayNext]_payVars PROVE LedgerInv'
  OBVIOUS
<1> USE DEF flowVars, pageVars, sessionVars, ledgerVars
<1>1. ASSUME NEW f \in Flow, NEW p \in Payments, ClickPay(f, p) \/ SendAgent(f, p) \/ RunScript(f, p)
      PROVE  LedgerInv'
  <2>1. pc[f] = "idle" /\ pc'[f] \in {"before", "intent", "destField"}
    BY <1>1 DEF ClickPay, SendAgent, RunScript, Upcoming, GoTo, PayTypeOK
  <2>2. /\ UNCHANGED <<mode, pool, result, spent, job, answer>>
        /\ \A g \in Flow \ {f} : pc'[g] = pc[g] /\ ask'[g] = ask[g]
    BY <1>1 DEF ClickPay, SendAgent, RunScript, GoTo, PayTypeOK, AskOK
  <2> QED
    BY <2>1, <2>2, UnsentStep
\* Ends, for a payment that is not sent.
<1>2. ASSUME NEW f \in Flow, NEW outcome \in {"refused", "rejected", "error", "chat"},
             Ends(f, outcome), pc[f] \notin {"settle", "balances", "done"},
             UNCHANGED <<mode, ask, job, pool, result, spent>>
      PROVE  LedgerInv'
  BY <1>2, EndsTypes, UnsentStep DEF Answer
\* GoTo, for a payment that is not sent yet.
<1>3. ASSUME NEW f \in Flow, NEW label \in Label \ {"submit"}, GoTo(f, label),
             pc[f] \notin {"settle", "balances", "done"},
             UNCHANGED <<mode, ask, answer, pool, result, spent>>,
             \A g \in Flow \ {f} : job'[g] = job[g]
      PROVE  LedgerInv'
  BY <1>3, GoToTypes, UnsentStep
<1>4. ASSUME NEW f \in Flow, Begin(f) \/ Intent(f) \/ DestField(f) \/ Build(f) PROVE LedgerInv'
  <2>1. /\ UNCHANGED <<mode, ask, pool, result, spent>>
        /\ pc[f] \notin {"settle", "balances", "done"}
        /\ \A g \in Flow \ {f} : job'[g] = job[g]
    BY <1>4 DEF Begin, Intent, DestField, Build, PayTypeOK
  <2>2. CASE (Ends(f, "refused") \/ Ends(f, "error") \/ Ends(f, "chat")) /\ job' = job
    BY <1>2, <2>1, <2>2
  <2>3. CASE (GoTo(f, "destField") \/ GoTo(f, "build") \/ GoTo(f, "sim1")) /\ answer' = answer
    BY <1>3, <2>1, <2>3 DEF Label
  <2> QED
    BY <1>4, <2>2, <2>3 DEF Begin, Intent, DestField, Build
<1>5. ASSUME NEW f \in Flow, pc[f] \notin {"settle", "balances", "done"}, StartProof(f),
             UNCHANGED <<mode, ask, pool, result, spent>>
      PROVE  LedgerInv'
  BY <1>2, <1>3, <1>5, StartProofTypes DEF Label
<1>6. ASSUME NEW f \in Flow, SignEntry(f) \/ Load(f) PROVE LedgerInv'
  <2>1. UNCHANGED <<mode, ask, pool, result, spent>> /\ pc[f] \notin {"settle", "balances", "done"}
    BY <1>6 DEF SignEntry, Load
  <2>2. CASE Ends(f, "error") /\ job' = job
    BY <1>2, <2>1, <2>2
  <2>3. CASE GoTo(f, "load") /\ UNCHANGED <<job, answer>>
    BY <1>3, <2>1, <2>3 DEF Label
  <2> QED
    BY <1>5, <1>6, <2>1, <2>2, <2>3 DEF SignEntry, Load
<1>7. ASSUME NEW f \in Flow, BuildSigned(f) PROVE LedgerInv'
  <2>1. UNCHANGED <<mode, ask, pool, result, spent>> /\ pc[f] \notin {"settle", "balances", "done"}
    BY <1>7 DEF BuildSigned
  <2>2. CASE Ends(f, "error") /\ job' = job
    BY <1>2, <2>1, <2>2
  <2>3. CASE GoTo(f, "sim2") /\ UNCHANGED answer
    BY <1>3, <1>7, <2>1, <2>3 DEF BuildSigned, Label, PayTypeOK
  <2> QED
    BY <1>7, <2>2, <2>3 DEF BuildSigned
<1>8. ASSUME NEW f \in Flow, SimulateSigned(f) PROVE LedgerInv'
  <2>1. UNCHANGED <<mode, ask, pool, result, spent>> /\ pc[f] \notin {"settle", "balances", "done"}
    BY <1>8 DEF SimulateSigned
  <2>2. CASE ~Authorizes(job[f].op, f)
    BY <1>2, <1>8, <2>1, <2>2 DEF SimulateSigned
  <2>3. CASE Authorizes(job[f].op, f)
    <3>1. /\ pc'[f] = "submit" /\ answer' = answer
          /\ \A g \in Flow \ {f} : pc'[g] = pc[g] /\ job'[g] = job[g]
      BY <1>8, <2>3 DEF SimulateSigned, GoTo, PayTypeOK
    <3>2. ~Relayed(f)' => job' = job
      BY <1>8, <2>1, <2>3 DEF SimulateSigned, Relayed, Kind
    <3>3. ~Relayed(f)' => OneAccount(f)'
      BY <2>3, <3>2 DEF Authorizes, OneAccount
    <3> QED
      BY <2>1, <3>1, <3>3, UnsentStep
  <2> QED
    BY <2>2, <2>3
\* A transaction is handed on: it is put together from one account.
<1>9. ASSUME NEW f \in Flow, pc[f] = "submit", Relayed(f) => Authorizes(job[f].op, f),
             pool' = pool \cup {f}, UNCHANGED <<mode, ask, job, result, spent>>,
             \/ pc'[f] = "settle" /\ answer'[f] = answer[f]
             \/ pc'[f] = "done" /\ answer'[f] = "error",
             \A g \in Flow \ {f} : pc'[g] = pc[g] /\ answer'[g] = answer[g]
      PROVE  LedgerInv'
  <2>1. OneAccount(f)
    BY <1>9 DEF LedgerInv, Authorizes, OneAccount
  <2>2. ~Sent(f) /\ answer[f] = "none"
    BY <1>9 DEF LedgerInv, Sent
  <2>3. \A g \in Flow : (OneAccount(g)' <=> OneAccount(g)) /\ (Relayed(g)' <=> Relayed(g))
    BY <1>9 DEF OneAccount, Relayed, Kind
  <2>4. \A g \in Flow \ {f} : Sent(g)' <=> Sent(g)
    BY <1>9 DEF Sent
  <2>5. \A g \in Flow \ {f} :
          /\ g \in pool' => result'[g] = "NOT_FOUND"
          /\ Sent(g)' => pc'[g] \in {"settle", "balances", "done"} /\ OneAccount(g)'
          /\ pc'[g] = "submit" /\ ~Relayed(g)' => OneAccount(g)'
          /\ answer'[g] # "none" => pc'[g] \in {"balances", "done"}
          /\ answer'[g] \in {"SUCCESS", "FAILED"} => result'[g] = answer'[g]
          /\ answer'[g] \in {"refused", "rejected"} => ~Sent(g)'
    BY <1>9, <2>3, <2>4 DEF LedgerInv
  <2>6. /\ result'[f] = "NOT_FOUND"
        /\ pc'[f] \in {"settle", "balances", "done"} /\ OneAccount(f)'
        /\ answer'[f] # "none" => pc'[f] \in {"balances", "done"}
        /\ answer'[f] \in {"none", "error"}
    BY <1>9, <2>1, <2>2, <2>3 DEF Sent
  <2> QED
    BY <1>9, <2>5, <2>6 DEF LedgerInv
<1>10. ASSUME NEW f \in Flow, Submit(f) PROVE LedgerInv'
  <2>1. pc[f] = "submit" /\ UNCHANGED <<mode, ask, job, result, spent>>
    BY <1>10 DEF Submit
  <2>2. CASE Ends(f, "rejected") /\ pool' = pool
    BY <1>2, <2>1, <2>2
  <2>3. CASE /\ Relayed(f) => Authorizes(job[f].op, f)
             /\ pool' \in {pool, pool \cup {f}}
             /\ GoTo(f, "settle")
             /\ UNCHANGED <<answer, pageVars>>
    <3>1. CASE pool' = pool
      BY <1>3, <2>1, <2>3, <3>1 DEF Label
    <3>2. CASE pool' = pool \cup {f}
      BY <1>9, <2>1, <2>3, <3>2, GoToTypes DEF Label
    <3> QED
      BY <2>3, <3>1, <3>2
  <2> QED
    BY <1>10, <2>2, <2>3 DEF Submit
<1>11. ASSUME NEW f \in Flow, Throws(f) PROVE LedgerInv'
  <2>1. UNCHANGED <<mode, ask, job, result, spent>> /\ Ends(f, "error")
    BY <1>11 DEF Throws
  <2>2. CASE pool' = pool /\ pc[f] # "settle"
    BY <1>2, <1>11, <2>1, <2>2 DEF Throws
  <2>3. CASE pool' = pool /\ pc[f] = "settle"
    <3>1. /\ pc'[f] = "done" /\ answer'[f] = "error"
          /\ \A g \in Flow \ {f} : pc'[g] = pc[g] /\ answer'[g] = answer[g]
      BY <2>1, EndsTypes DEF Answer
    <3> QED
      BY <2>1, <2>3, <3>1 DEF LedgerInv, Sent, OneAccount, Relayed, Kind
  <2>4. CASE pool' # pool
    <3>1. pc[f] = "submit" /\ (Relayed(f) => Authorizes(job[f].op, f)) /\ pool' = pool \cup {f}
      BY <1>11, <2>4 DEF Throws
    <3> QED
      BY <1>9, <2>1, <3>1, EndsTypes DEF Answer
  <2> QED
    BY <2>2, <2>3, <2>4
<1>12. ASSUME NEW f \in Flow, Settle(f) \/ ShowResult(f) PROVE LedgerInv'
  <2>1. /\ UNCHANGED <<mode, ask, job, pool, result, spent>>
        /\ pc[f] \in {"settle", "balances"} /\ pc'[f] \in {"balances", "done"}
        /\ \A g \in Flow \ {f} : pc'[g] = pc[g] /\ answer'[g] = answer[g]
        /\ answer'[f] = answer[f] \/ answer'[f] = result[f]
    BY <1>12 DEF Settle, ShowResult, Returns, Ends, GoTo, PayTypeOK
  <2>2. result[f] \in Status
    BY DEF PayTypeOK
  <2> QED
    BY <2>1, <2>2 DEF LedgerInv, Sent, OneAccount, Relayed, Kind, Status
<1>13. ASSUME NEW f \in Flow, Take(f) PROVE LedgerInv'
  <2>1. /\ UNCHANGED <<mode, ask, pc, job, answer>>
        /\ f \in pool /\ pool' = pool \ {f}
        /\ \A g \in Flow \ {f} : result'[g] = result[g]
    BY <1>13 DEF Take, PayTypeOK
  <2>2. \/ /\ Authorizes(job[f].op, f) /\ result'[f] = "SUCCESS"
           /\ spent' = spent \cup {<<job[f].op, job[f].nonce>>}
        \/ result'[f] = "FAILED" /\ spent' = spent
    BY <1>13 DEF Take, PayTypeOK
  <2>3. result[f] = "NOT_FOUND" /\ Sent(f) /\ answer[f] \notin {"SUCCESS", "FAILED", "refused", "rejected"}
    BY <2>1 DEF LedgerInv, Sent
  <2>4. \A g \in Flow : (OneAccount(g)' <=> OneAccount(g)) /\ (Relayed(g)' <=> Relayed(g))
    BY <2>1 DEF OneAccount, Relayed, Kind
  <2>5. ASSUME NEW g \in Flow
        PROVE  /\ g \in pool' => result'[g] = "NOT_FOUND"
               /\ Sent(g)' => pc'[g] \in {"settle", "balances", "done"} /\ OneAccount(g)'
               /\ pc'[g] = "submit" /\ ~Relayed(g)' => OneAccount(g)'
               /\ answer'[g] # "none" => pc'[g] \in {"balances", "done"}
               /\ answer'[g] \in {"SUCCESS", "FAILED"} => result'[g] = answer'[g]
               /\ answer'[g] \in {"refused", "rejected"} => ~Sent(g)'
    BY <2>1, <2>3, <2>4 DEF LedgerInv, Sent
  <2>6. \A g \in Flow : result'[g] = "SUCCESS" => <<job'[g].op, job'[g].nonce>> \in spent'
    BY <2>1, <2>2 DEF LedgerInv
  <2>7. \A g, h \in Flow :
          g # h /\ result'[g] = "SUCCESS" /\ result'[h] = "SUCCESS"
            => <<job'[g].op, job'[g].nonce>> # <<job'[h].op, job'[h].nonce>>
    BY <2>1, <2>2 DEF LedgerInv, Authorizes
  <2> QED
    BY <2>5, <2>6, <2>7 DEF LedgerInv
<1>14. ASSUME UNCHANGED <<mode, ask, pc, job, answer, result, spent>>, pool' \subseteq pool PROVE LedgerInv'
  BY <1>14 DEF LedgerInv, Sent, OneAccount, Relayed, Kind
<1>15. /\ \A f \in Flow : Lose(f) => UNCHANGED <<mode, ask, pc, job, answer, result, spent>> /\ pool' \subseteq pool
       /\ \A a \in Account : SetActive(a) => UNCHANGED <<mode, ask, pc, job, answer, result, spent, pool>>
       /\ PayReset \/ UNCHANGED payVars => UNCHANGED <<mode, ask, pc, job, answer, result, spent, pool>>
  BY DEF Lose, SetActive, PayReset, payVars
<1> QED
  BY <1>1, <1>4, <1>6, <1>7, <1>8, <1>10, <1>11, <1>12, <1>13, <1>14, <1>15 DEF PayNext, Step

-----------------------------------------------------------------------------
(* What the page is busy with, and what it shows.                          *)

\* A payment that ends gives the agent free, if it was the agent's.
LEMMA EndsFrees ==
  ASSUME NEW f \in Flow, NEW outcome, Ends(f, outcome), busy'
  PROVE  busy /\ Kind(f) # "agent"
  BY Zenon DEF Ends

\* Payments that stay underway go on holding what they held.
LEMMA StillHeld ==
  ASSUME HeldByAPayment,
         \A g \in Flow : Underway(g) => Underway(g)' /\ ask'[g] = ask[g],
         page'.phase = "running" => page.phase = "running",
         busy' => busy
  PROVE  HeldByAPayment'
  BY Zenon DEF HeldByAPayment, Kind

LEMMA EndsHolds ==
  ASSUME PayTypeOK, HeldByAPayment, NEW f \in Flow, NEW outcome \in Answer, Ends(f, outcome), ask' = ask
  PROVE  HeldByAPayment'
<1>1. \A g \in Flow \ {f} : (Underway(g)' <=> Underway(g)) /\ Kind(g)' = Kind(g)
  BY EndsTypes DEF Underway, Kind
<1>2. page'.phase = "running" => page.phase = "running" /\ Kind(f) # "form"
  BY EndsTypes
<1>3. page'.phase = "running" => \E g \in Flow : Underway(g)' /\ Kind(g)' = "form"
  BY <1>1, <1>2 DEF HeldByAPayment
<1>4. busy' => busy /\ Kind(f) # "agent"
  BY EndsFrees
<1>5. busy' => \E g \in Flow : Underway(g)' /\ Kind(g)' = "agent"
  BY <1>1, <1>4, Zenon DEF HeldByAPayment
<1> QED
  BY <1>3, <1>5, Zenon DEF HeldByAPayment

LEMMA HeldStep == PayTypeOK /\ AskOK /\ HeldByAPayment /\ [PayNext]_payVars => HeldByAPayment'
<1> SUFFICES ASSUME PayTypeOK, AskOK, HeldByAPayment, [PayNext]_payVars PROVE HeldByAPayment'
  OBVIOUS
<1> USE DEF flowVars, pageVars, sessionVars, ledgerVars
<1>1. ASSUME NEW f \in Flow, NEW p \in Payments, ClickPay(f, p) \/ RunScript(f, p) PROVE HeldByAPayment'
  <2>1. \A g \in Flow : Underway(g) => Underway(g)' /\ ask'[g] = ask[g]
    BY <1>1 DEF ClickPay, RunScript, Upcoming, Underway, GoTo, PayTypeOK, AskOK
  <2>2. page' = page /\ busy' = busy
    BY <1>1 DEF ClickPay, RunScript
  <2> QED
    BY <2>1, <2>2, StillHeld
<1>2. ASSUME NEW f \in Flow, NEW p \in Payments, SendAgent(f, p) PROVE HeldByAPayment'
  <2>1. \A g \in Flow : Underway(g) => Underway(g)' /\ ask'[g] = ask[g]
    BY <1>2 DEF SendAgent, Upcoming, Underway, GoTo, PayTypeOK, AskOK
  <2>2. page' = page /\ Underway(f)' /\ Kind(f)' = "agent"
    BY <1>2 DEF SendAgent, Underway, Kind, GoTo, PayTypeOK, AskOK
  <2>3. page'.phase = "running" => \E g \in Flow : Underway(g)' /\ Kind(g)' = "form"
    BY <2>1, <2>2 DEF HeldByAPayment, Kind
  <2> QED
    BY <2>2, <2>3, Zenon DEF HeldByAPayment
<1>3. ASSUME NEW f \in Flow, Begin(f) PROVE HeldByAPayment'
  <2>1. \A g \in Flow : Underway(g) => Underway(g)' /\ ask'[g] = ask[g]
    BY <1>3 DEF Begin, Underway, GoTo, PayTypeOK
  <2>2. Underway(f)' /\ Kind(f)' = "form" /\ busy' = busy
    BY <1>3 DEF Begin, Underway, Kind, GoTo, PayTypeOK, AskOK
  <2>3. busy' => \E g \in Flow : Underway(g)' /\ Kind(g)' = "agent"
    BY <2>1, <2>2, Zenon DEF HeldByAPayment, Kind
  <2> QED
    BY <2>2, <2>3, Zenon DEF HeldByAPayment
\* A payment goes on, with the page as it is.
<1>4. ASSUME NEW f \in Flow, NEW label \in Label \ {"idle", "done"}, GoTo(f, label), ask' = ask,
             UNCHANGED pageVars
      PROVE  HeldByAPayment'
  <2>1. \A g \in Flow : Underway(g) => Underway(g)' /\ ask'[g] = ask[g]
    BY <1>4, GoToTypes DEF Underway
  <2> QED
    BY <1>4, <2>1, StillHeld
<1>5. ASSUME NEW f \in Flow, NEW outcome \in Answer, Ends(f, outcome), ask' = ask PROVE HeldByAPayment'
  BY <1>5, EndsHolds
<1>6. ASSUME NEW f \in Flow, Step(f) \/ Throws(f), ~Begin(f), ~ShowResult(f) PROVE HeldByAPayment'
  <2>1. ask' = ask /\ result[f] \in Answer
    BY <1>6 DEF Step, Throws, Intent, DestField, Build, SignEntry, Load, BuildSigned,
                SimulateSigned, Submit, Settle, PayTypeOK, Answer
  <2>2. \/ \E outcome \in Answer : Ends(f, outcome)
        \/ \E label \in Label \ {"idle", "done"} : GoTo(f, label) /\ UNCHANGED pageVars
    <3> USE DEF Answer, Label
    <3>1. Intent(f) \/ DestField(f) \/ Build(f) => <2>2!1 \/ <2>2!2
      BY DEF Intent, DestField, Build
    <3>2. StartProof(f) => <2>2!1 \/ <2>2!2
      BY DEF StartProof
    <3>3. SignEntry(f) \/ Load(f) \/ BuildSigned(f) \/ SimulateSigned(f) => <2>2!1 \/ <2>2!2
      BY <3>2 DEF SignEntry, Load, BuildSigned, SimulateSigned
    <3>4. Submit(f) \/ Settle(f) \/ Throws(f) => <2>2!1 \/ <2>2!2
      BY <2>1 DEF Submit, Settle, Returns, Throws
    <3> QED
      BY <1>6, <3>1, <3>3, <3>4 DEF Step
  <2> QED
    BY <1>4, <1>5, <2>1, <2>2
<1>7. ASSUME NEW f \in Flow, ShowResult(f) PROVE HeldByAPayment'
  <2>1. page'.phase # "running" /\ busy' = busy
    BY <1>7 DEF ShowResult, PayTypeOK, Page
  <2>2. \A g \in Flow : Underway(g) /\ Kind(g) = "agent" => Underway(g)' /\ Kind(g)' = "agent"
    BY <1>7 DEF ShowResult, Underway, Kind, GoTo, PayTypeOK, AskOK
  <2> QED
    BY <2>1, <2>2, Zenon DEF HeldByAPayment
<1>8. ASSUME UNCHANGED <<pc, ask, busy>>, page'.phase = "running" => page.phase = "running" PROVE HeldByAPayment'
  BY <1>8, StillHeld DEF Underway
<1>9. /\ \A f \in Flow : Take(f) \/ Lose(f) => UNCHANGED <<pc, ask, busy, page>>
      /\ \A a \in Account : SetActive(a) => UNCHANGED <<pc, ask, busy, page>>
      /\ UNCHANGED payVars => UNCHANGED <<pc, ask, busy, page>>
      /\ PayReset => UNCHANGED <<pc, ask, busy>> /\ page'.phase = "idle"
  BY DEF Take, Lose, SetActive, PayReset, payVars
<1> QED
  BY <1>1, <1>2, <1>3, <1>6, <1>7, <1>8, <1>9 DEF PayNext, Step

-----------------------------------------------------------------------------
(* Receipts.                                                               *)

Form(f) == pc[f] # "idle" /\ ask[f].kind = "form"

Built == {"sim1", "load", "proving", "sim2", "submit", "settle", "balances"}

\* The page shows what f is about.
Shows(f) == page.dest = ask[f].dest /\ page.amount = ask[f].amount

\* A form payment that was not crossed is the only one, the page is about it, and
\* the account it was built for is still active.
AloneOK(f) ==
  /\ \A g \in Flow \ {f} : Form(g) => ~Underway(g)
  /\ pc[f] # "before" => page.phase = "running" /\ Shows(f)
  /\ pc[f] \in Built => job[f].op = active

\* A result that is shown is that of a payment that has settled.
ShownOK ==
  page.phase = "done" =>
    /\ page.of \in Flow /\ Form(page.of) /\ pc[page.of] = "done"
    /\ result[page.of] = "SUCCESS"
    /\ page.of \notin crossed => Shows(page.of) /\ job[page.of].op = active

ReceiptInv ==
  /\ \A f \in Flow : Form(f) /\ Underway(f) /\ f \notin crossed => AloneOK(f)
  /\ ShownOK

\* A payment goes on with the page as it is, or with the account active now.
LEMMA GoesOn ==
  ASSUME PayTypeOK, ReceiptInv, NEW f \in Flow, NEW label \in Label \ {"idle", "done", "before"},
         GoTo(f, label), pc[f] \notin {"idle", "done", "before"},
         UNCHANGED <<active, ask, page, crossed>>,
         \A g \in Flow : result[g] = "SUCCESS" => result'[g] = "SUCCESS",
         \A g \in Flow \ {f} : job'[g] = job[g],
         Form(f) /\ label \in Built => job'[f].op = active \/ (pc[f] \in Built /\ job'[f].op = job[f].op)
  PROVE  ReceiptInv'
<1>1. /\ pc'[f] = label
      /\ \A g \in Flow : (Form(g)' <=> Form(g)) /\ (Underway(g)' <=> Underway(g)) /\ (Shows(g)' <=> Shows(g))
      /\ \A g \in Flow \ {f} : pc'[g] = pc[g]
  BY GoToTypes DEF Form, Underway, Shows
<1>2. ASSUME NEW g \in Flow, Form(g)', Underway(g)', g \notin crossed' PROVE AloneOK(g)'
  <2>1. AloneOK(g)
    BY <1>1, <1>2 DEF ReceiptInv
  <2>2. CASE g = f
    BY <1>1, <1>2, <2>1, <2>2 DEF AloneOK
  <2>3. CASE g # f
    BY <1>1, <2>1, <2>3 DEF AloneOK
  <2> QED
    BY <2>2, <2>3
<1>3. ShownOK'
  BY <1>1 DEF ReceiptInv, ShownOK
<1> QED
  BY <1>2, <1>3 DEF ReceiptInv

\* A payment ends: if it is the form's, what is shown is no result.
LEMMA EndsShows ==
  ASSUME PayTypeOK, ReceiptInv, NEW f \in Flow, NEW outcome \in Answer, Ends(f, outcome),
         Underway(f), UNCHANGED <<active, ask, job>>,
         \A g \in Flow : result[g] = "SUCCESS" => result'[g] = "SUCCESS"
  PROVE  ReceiptInv'
<1>1. /\ \A g \in Flow \ {f} : /\ pc'[g] = pc[g] /\ (Form(g)' <=> Form(g))
                               /\ (Underway(g)' <=> Underway(g))
      /\ ~Underway(f)' /\ (Form(f)' <=> Form(f)) /\ crossed' = crossed
      /\ \A g \in Flow : Shows(g)' <=> Shows(g)
      /\ page'.of = page.of
  BY EndsTypes DEF Form, Underway, Shows
<1>2. IF Form(f) THEN page'.phase # "done" ELSE page'.phase = page.phase
  BY EndsTypes DEF Form, Kind, Underway
<1>3. ASSUME NEW g \in Flow, Form(g)', Underway(g)', g \notin crossed' PROVE AloneOK(g)'
  <2>1. g # f /\ AloneOK(g) /\ ~Form(f)
    BY <1>1, <1>3 DEF ReceiptInv, AloneOK
  <2> QED
    BY <1>1, <1>2, <2>1 DEF AloneOK
<1>4. ShownOK'
  <2> SUFFICES ASSUME page'.phase = "done" PROVE ShownOK'
    BY DEF ShownOK
  <2>1. ~Form(f) /\ page.phase = "done"
    BY <1>2
  <2>2. page.of \in Flow \ {f}
    BY <2>1 DEF ReceiptInv, ShownOK, Underway
  <2> QED
    BY <1>1, <2>1, <2>2 DEF ReceiptInv, ShownOK
<1> QED
  BY <1>3, <1>4 DEF ReceiptInv

LEMMA ReceiptStep == PayTypeOK /\ AskOK /\ LedgerInv /\ ReceiptInv /\ [PayNext]_payVars => ReceiptInv'
<1> SUFFICES ASSUME PayTypeOK, AskOK, LedgerInv, ReceiptInv, [PayNext]_payVars PROVE ReceiptInv'
  OBVIOUS
<1> USE DEF flowVars, pageVars, sessionVars, ledgerVars
<1>1. ASSUME NEW f \in Flow, NEW p \in Payments, ClickPay(f, p) PROVE ReceiptInv'
  <2> DEFINE others == {g \in Flow : Underway(g) /\ Kind(g) = "form"}
  <2>1. /\ pc[f] = "idle" /\ pc'[f] = "before" /\ ask'[f].kind = "form"
        /\ \A g \in Flow \ {f} : pc'[g] = pc[g] /\ ask'[g] = ask[g]
        /\ UNCHANGED <<active, page, job, result>>
        /\ crossed' = crossed \cup IF others = {} THEN {} ELSE others \cup {f}
    BY <1>1 DEF ClickPay, Upcoming, GoTo, PayTypeOK, AskOK
  <2>2. \A g \in Flow \ {f} : (Form(g)' <=> Form(g)) /\ (Underway(g)' <=> Underway(g)) /\ (Shows(g)' <=> Shows(g))
    BY <2>1 DEF Form, Underway, Shows
  <2>3. ASSUME NEW g \in Flow, Form(g)', Underway(g)', g \notin crossed' PROVE AloneOK(g)'
    <3>1. CASE g = f
      <4>1. others = {}
        BY <2>1, <2>3, <3>1
      <4>2. \A h \in Flow \ {f} : Form(h) => ~Underway(h)
        BY <4>1 DEF Form, Kind
      <4> QED
        BY <2>1, <2>2, <3>1, <4>2 DEF AloneOK, Built
    <3>2. CASE g # f
      BY <2>1, <2>2, <2>3, <3>2 DEF Form, Kind
    <3> QED
      BY <3>1, <3>2
  <2>4. ShownOK'
    BY <2>1, <2>2 DEF ReceiptInv, ShownOK, Form
  <2> QED
    BY <2>3, <2>4 DEF ReceiptInv
<1>2. ASSUME NEW f \in Flow, NEW p \in Payments, SendAgent(f, p) \/ RunScript(f, p) PROVE ReceiptInv'
  <2>1. /\ pc[f] = "idle" /\ pc'[f] # "idle" /\ ask'[f].kind # "form"
        /\ \A g \in Flow \ {f} : pc'[g] = pc[g] /\ ask'[g] = ask[g]
        /\ UNCHANGED <<active, page, job, result, crossed>>
    BY <1>2 DEF SendAgent, RunScript, Upcoming, GoTo, PayTypeOK, AskOK
  <2>2. /\ ~Form(f)'
        /\ \A g \in Flow \ {f} : (Form(g)' <=> Form(g)) /\ (Underway(g)' <=> Underway(g)) /\ (Shows(g)' <=> Shows(g))
    BY <2>1 DEF Form, Underway, Shows
  <2>3. ASSUME NEW g \in Flow, Form(g)', Underway(g)', g \notin crossed' PROVE AloneOK(g)'
    BY <2>1, <2>2, <2>3 DEF ReceiptInv, AloneOK
  <2>4. ShownOK'
    BY <2>1, <2>2 DEF ReceiptInv, ShownOK, Form
  <2> QED
    BY <2>3, <2>4 DEF ReceiptInv
<1>3. ASSUME NEW f \in Flow, Begin(f) PROVE ReceiptInv'
  <2>1. /\ pc[f] = "before" /\ pc'[f] = "destField"
        /\ \A g \in Flow \ {f} : pc'[g] = pc[g]
        /\ UNCHANGED <<active, ask, job, result, crossed>>
        /\ page'.phase = "running" /\ page'.dest = ask[f].dest /\ page'.amount = ask[f].amount
    BY <1>3 DEF Begin, GoTo, PayTypeOK
  <2>2. Form(f) /\ Underway(f) /\ \A g \in Flow : (Form(g)' <=> Form(g)) /\ (Underway(g)' <=> Underway(g))
    BY <2>1 DEF Form, Underway, AskOK
  <2>3. ASSUME NEW g \in Flow, Form(g)', Underway(g)', g \notin crossed' PROVE AloneOK(g)'
    <3>1. AloneOK(g)
      BY <2>1, <2>2, <2>3 DEF ReceiptInv
    <3>2. g = f
      BY <2>2, <3>1 DEF AloneOK
    <3> QED
      BY <2>1, <2>2, <3>1, <3>2 DEF AloneOK, Shows, Built
  <2> QED
    BY <2>1, <2>3 DEF ReceiptInv, ShownOK
<1>4. ASSUME NEW f \in Flow, Intent(f) \/ DestField(f) \/ Build(f) PROVE ReceiptInv'
  <2>1. UNCHANGED <<active, ask, result>> /\ pc[f] \in {"intent", "destField", "build"}
    BY <1>4 DEF Intent, DestField, Build
  <2>2. CASE (Ends(f, "chat") \/ Ends(f, "error") \/ Ends(f, "refused")) /\ job' = job
    BY <2>1, <2>2, EndsShows DEF Underway, Answer
  <2>3. CASE (GoTo(f, "destField") \/ GoTo(f, "build")) /\ UNCHANGED <<job, pageVars>>
    BY <2>1, <2>3, GoesOn DEF Label, Built
  <2>4. CASE Build(f)
    <3>1. Form(f) => Acct(f) = active
      BY DEF Acct, Kind, Form
    <3>2. job'[f].op = Acct(f) /\ \A g \in Flow \ {f} : job'[g] = job[g]
      BY <2>4, AcctType DEF Build, transferOp, PayTypeOK, Job
    <3> QED
      BY <2>1, <2>4, <3>1, <3>2, GoesOn DEF Build, Label, Built
  <2> QED
    BY <1>4, <2>2, <2>3, <2>4 DEF Intent, DestField
\* What is handed to the network goes out for the account that is active now, or
\* for the one that the payment was built for.
<1>5. ASSUME NEW f \in Flow, SignEntry(f) \/ Load(f) PROVE ReceiptInv'
  <2>1. UNCHANGED <<active, ask, result>> /\ pc[f] \in {"sim1", "load"}
    BY <1>5 DEF SignEntry, Load
  <2>2. CASE (Ends(f, "error") \/ Ends(f, "refused")) /\ job' = job
    BY <2>1, <2>2, EndsShows DEF Underway, Answer
  <2>3. CASE GoTo(f, "load") /\ UNCHANGED <<job, pageVars>>
    BY <2>1, <2>3, GoesOn DEF Label, Built
  <2>4. CASE GoTo(f, "proving") /\ StartProof(f)
    <3>1. UNCHANGED pageVars /\ job'[f].op = job[f].op /\ \A g \in Flow \ {f} : job'[g] = job[g]
      <4>1. pc'[f] = "proving"
        BY <2>4 DEF GoTo, PayTypeOK
      <4>2. ~Ends(f, "refused")
        BY <4>1, EndsTypes DEF Answer
      <4> QED
        BY <2>4, <4>2, StartProofTypes
    <3> QED
      BY <2>1, <2>4, <3>1, GoesOn DEF Label, Built
  <2>5. StartProof(f) => GoTo(f, "proving") \/ (Ends(f, "refused") /\ job' = job)
    BY DEF StartProof
  <2> QED
    BY <1>5, <2>2, <2>3, <2>4, <2>5 DEF SignEntry, Load
<1>6. ASSUME NEW f \in Flow, BuildSigned(f) \/ SimulateSigned(f) PROVE ReceiptInv'
  <2>1. UNCHANGED <<active, ask, result>> /\ pc[f] \in {"proving", "sim2"}
    BY <1>6 DEF BuildSigned, SimulateSigned
  <2>2. CASE Ends(f, "error") /\ job' = job
    BY <2>1, <2>2, EndsShows DEF Underway, Answer
  <2>3. CASE /\ GoTo(f, "sim2") \/ GoTo(f, "submit")
             /\ job' = job \/ job' = [job EXCEPT ![f].op = Acct(f)]
             /\ UNCHANGED pageVars
    <3>1. Form(f) => Acct(f) = active
      BY DEF Acct, Kind, Form
    <3>2. job' = job \/ job'[f].op = Acct(f)
      BY <2>3 DEF PayTypeOK, Job
    <3>3. \A g \in Flow \ {f} : job'[g] = job[g]
      BY <2>3 DEF PayTypeOK
    <3> QED
      BY <2>1, <2>3, <3>1, <3>2, <3>3, GoesOn DEF Label, Built
  <2> QED
    BY <1>6, <2>2, <2>3 DEF BuildSigned, transferOp, SimulateSigned
<1>7. ASSUME NEW f \in Flow, Submit(f) \/ Throws(f) PROVE ReceiptInv'
  <2>1. UNCHANGED <<active, ask, job, result>> /\ pc[f] \notin {"idle", "done", "before"}
    BY <1>7 DEF Submit, Throws
  <2>2. CASE Ends(f, "error") \/ Ends(f, "rejected")
    BY <2>1, <2>2, EndsShows DEF Underway, Answer
  <2>3. CASE pc[f] = "submit" /\ GoTo(f, "settle") /\ UNCHANGED pageVars
    BY <2>1, <2>3, GoesOn DEF Label, Built
  <2> QED
    BY <1>7, <2>2, <2>3 DEF Submit, Throws
<1>8. ASSUME NEW f \in Flow, Settle(f) PROVE ReceiptInv'
  <2>1. UNCHANGED <<active, ask, job, result>> /\ pc[f] = "settle" /\ result[f] \in Answer
    BY <1>8 DEF Settle, PayTypeOK, Answer
  <2>2. CASE Ends(f, result[f])
    BY <2>1, <2>2, EndsShows DEF Underway
  <2>3. CASE GoTo(f, "balances") /\ UNCHANGED pageVars
    BY <2>1, <2>3, GoesOn DEF Label, Built
  <2> QED
    BY <1>8, <2>2, <2>3 DEF Settle, Returns
\* What a payment shows at its end is the ledger's answer to it.
<1>9. ASSUME NEW f \in Flow, ShowResult(f) PROVE ReceiptInv'
  <2>1. /\ pc[f] = "balances" /\ pc'[f] = "done" /\ \A g \in Flow \ {f} : pc'[g] = pc[g]
        /\ UNCHANGED <<active, ask, job, result, crossed>>
        /\ page'.of = f /\ page'.dest = page.dest /\ page'.amount = page.amount
        /\ page'.phase = IF answer[f] = "SUCCESS" THEN "done" ELSE "error"
    BY <1>9 DEF ShowResult, GoTo, PayTypeOK, Page
  <2>2. /\ Form(f) /\ Underway(f)
        /\ \A g \in Flow : (Form(g)' <=> Form(g)) /\ (Shows(g)' <=> Shows(g))
        /\ \A g \in Flow : Underway(g)' => Underway(g) /\ g # f
    BY <2>1 DEF Form, Underway, Shows, AskOK
  <2>3. ASSUME NEW g \in Flow, Form(g)', Underway(g)', g \notin crossed' PROVE AloneOK(g)'
    BY <2>1, <2>2, <2>3 DEF ReceiptInv, AloneOK
  <2>4. f \notin crossed => Shows(f) /\ job[f].op = active
    BY <2>1, <2>2 DEF ReceiptInv, AloneOK, Built
  <2>5. answer[f] = "SUCCESS" => result[f] = "SUCCESS"
    BY DEF LedgerInv
  <2>6. ShownOK'
    BY <2>1, <2>2, <2>4, <2>5 DEF ShownOK
  <2> QED
    BY <2>3, <2>6 DEF ReceiptInv
\* What the network does leaves the page alone, and a success a success.
<1>10. ASSUME UNCHANGED <<pc, ask, job, active, page, crossed>>,
              \A g \in Flow : result[g] = "SUCCESS" => result'[g] = "SUCCESS"
       PROVE  ReceiptInv'
  <2>1. \A g \in Flow : /\ (Form(g)' <=> Form(g)) /\ (Underway(g)' <=> Underway(g))
                        /\ (Shows(g)' <=> Shows(g)) /\ (AloneOK(g)' <=> AloneOK(g))
    BY <1>10 DEF Form, Underway, Shows, AloneOK
  <2>2. ShownOK'
    BY <1>10, <2>1 DEF ReceiptInv, ShownOK
  <2> QED
    BY <1>10, <2>1, <2>2 DEF ReceiptInv
<1>11. ASSUME NEW f \in Flow, Take(f) \/ Lose(f) PROVE ReceiptInv'
  <2>1. UNCHANGED <<pc, ask, job, active, page, crossed>> /\ f \in pool
    BY <1>11 DEF Take, Lose
  <2>2. result[f] = "NOT_FOUND" /\ \A g \in Flow \ {f} : result'[g] = result[g]
    BY <1>11, <2>1 DEF Take, Lose, LedgerInv, PayTypeOK
  <2> QED
    BY <1>10, <2>1, <2>2
\* After a switch every form payment counts as crossed.
<1>12. ASSUME NEW a \in Account, SetActive(a) PROVE ReceiptInv'
  <2>1. /\ UNCHANGED <<pc, ask, job, page, result>>
        /\ crossed' = crossed \cup {f \in Flow : pc[f] # "idle" /\ Kind(f) = "form"}
    BY <1>12 DEF SetActive
  <2>2. \A f \in Flow : (Form(f)' <=> Form(f)) /\ (Form(f) => f \in crossed')
    BY <2>1 DEF Form, Kind
  <2> QED
    BY <2>1, <2>2 DEF ReceiptInv, ShownOK
<1>13. ASSUME PayReset PROVE ReceiptInv'
  <2>1. /\ UNCHANGED <<pc, ask, job, active, crossed>>
        /\ page.phase # "running" /\ page'.phase = "idle"
    BY <1>13 DEF PayReset, PayScreen
  <2>2. \A f \in Flow : (Form(f)' <=> Form(f)) /\ (Underway(f)' <=> Underway(f))
    BY <2>1 DEF Form, Underway
  <2>3. ASSUME NEW f \in Flow, Form(f)', Underway(f)', f \notin crossed' PROVE AloneOK(f)'
    BY <2>1, <2>2, <2>3 DEF ReceiptInv, AloneOK, Built
  <2> QED
    BY <2>1, <2>3 DEF ReceiptInv, ShownOK
<1>14. CASE UNCHANGED payVars
  BY <1>10, <1>14 DEF payVars
<1> QED
  BY <1>1, <1>2, <1>3, <1>4, <1>5, <1>6, <1>7, <1>8, <1>9, <1>11, <1>12, <1>13, <1>14 DEF PayNext, Step

-----------------------------------------------------------------------------
(* Theorems.                                                               *)

LEMMA PayInits ==
  PayInit => PayTypeOK /\ AskOK /\ LedgerInv /\ HeldByAPayment /\ ReceiptInv
<1> SUFFICES ASSUME PayInit PROVE PayTypeOK /\ AskOK /\ LedgerInv /\ HeldByAPayment /\ ReceiptInv
  OBVIOUS
<1>1. PayTypeOK
  BY DEF PayInit, PayTypeOK, Label, Job, Party, Status, Answer, Page
<1>2. AskOK
  BY DEF PayInit, AskOK
<1>3. LedgerInv
  BY DEF PayInit, LedgerInv, Sent
<1>4. HeldByAPayment
  BY DEF PayInit, HeldByAPayment
<1>5. ReceiptInv
  BY DEF PayInit, ReceiptInv, ShownOK, Form
<1> QED
  BY <1>1, <1>2, <1>3, <1>4, <1>5

\* Whatever is asked for, by the form (app.js runPay), by the agent (sendAgent)
\* or by a script (payTool): a payment is a request of the right kind at every
\* one of its awaits.
THEOREM PayTypes == PaySpec => [](PayTypeOK /\ AskOK)
<1>1. PayInit => PayTypeOK /\ AskOK
  BY PayInits
<1>2. PayTypeOK /\ AskOK /\ [PayNext]_payVars => PayTypeOK' /\ AskOK'
  BY PayTypesStep, AskStep
<1> QED
  BY <1>1, <1>2, PTL DEF PaySpec

\* The inductive invariant of pay() (chain.js 119-184) and the ledger: where a
\* payment is tells what can have been sent, and what it was sent for.
THEOREM PayLedger == PaySpec => []LedgerInv
<1>1. PayInit => LedgerInv
  BY PayInits
<1>2. PayTypeOK /\ AskOK /\ LedgerInv /\ [PayNext]_payVars => LedgerInv'
  BY LedgerStep
<1> QED
  BY <1>1, <1>2, PayTypes, PTL DEF PaySpec

\* With any number of accounts, payments and switches between the awaits of
\* pay() (chain.js 119-184), nothing that mixes two accounts reaches the network.
THEOREM PayMixedNeverSent == PaySpec => []MixedNeverSent
<1>1. LedgerInv => MixedNeverSent
  BY DEF LedgerInv, MixedNeverSent, Sent, OneAccount
<1> QED
  BY <1>1, PayLedger, PTL

\* Statuses and refusals that pay() and the relay report are true, and stay so.
THEOREM PayTellsTheTruth == PaySpec => []TellsTheTruth
<1>1. LedgerInv => TellsTheTruth
  BY DEF LedgerInv, TellsTheTruth, Sent
<1> QED
  BY <1>1, PayLedger, PTL

\* Of the payments of an account that drew one nonce from Date.now() (chain.js
\* 151) one settles at most, and no other is reported as paid.
THEOREM PayCollisionPaysOnce == PaySpec => []CollisionPaysOnce
<1>1. ASSUME LedgerInv, NEW f \in Flow, NEW g \in Flow, f # g, job[f].nonce = job[g].nonce,
             job[f].entry = job[g].entry, result[f] = "SUCCESS"
      PROVE  result[g] # "SUCCESS"
  <2> SUFFICES ASSUME result[g] = "SUCCESS" PROVE FALSE
    OBVIOUS
  <2>1. job[f].op = job[f].entry /\ job[g].op = job[g].entry
    BY <1>1 DEF LedgerInv, Sent, OneAccount
  <2>2. <<job[f].op, job[f].nonce>> = <<job[g].op, job[g].nonce>>
    BY <1>1, <2>1
  <2> QED
    BY <1>1, <2>2 DEF LedgerInv
<1>2. LedgerInv => \A g \in Flow : answer[g] = "SUCCESS" => result[g] = "SUCCESS"
  BY DEF LedgerInv
<1>3. LedgerInv => CollisionPaysOnce
  BY <1>1, <1>2 DEF CollisionPaysOnce
<1> QED
  BY <1>3, PayLedger, PTL

\* The form's "running" and the agent's busy flag (app.js 91-115, 148-176) are
\* only ever held by a payment that is underway.
THEOREM PayHeld == PaySpec => []HeldByAPayment
<1>1. PayInit => HeldByAPayment
  BY PayInits
<1>2. PayTypeOK /\ AskOK /\ HeldByAPayment /\ [PayNext]_payVars => HeldByAPayment'
  BY HeldStep
<1> QED
  BY <1>1, <1>2, PayTypes, PTL DEF PaySpec

\* A receipt (app.js copyReceipt) is for a payment that settled, and when no other
\* form payment and no switch crossed it, names its payer, payee and amount.
THEOREM PayReceiptIsTrue == PaySpec => []ReceiptIsTrue
<1>1. PayInit => ReceiptInv
  BY PayInits
<1>2. PayTypeOK /\ AskOK /\ LedgerInv /\ ReceiptInv /\ [PayNext]_payVars => ReceiptInv'
  BY ReceiptStep
<1>3. ReceiptInv => ReceiptIsTrue
  BY DEF ReceiptInv, ShownOK, ReceiptIsTrue, Receipt, Shows, PayScreen
<1> QED
  BY <1>1, <1>2, <1>3, PayTypes, PayLedger, PTL DEF PaySpec
=============================================================================
