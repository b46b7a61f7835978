----------------------- MODULE GovernanceConsoleProofs -----------------------
(***************************************************************************)
(* The console's calls are the account's own steps; and what it reports of *)
(* them is so, for any delay, any number of clicks, of transactions that   *)
(* earlier clicks left with the network, and of other holders of the key.  *)
(***************************************************************************)
EXTENDS GovernanceConsole, NulthAccountProofs

BuiltPlace == {"simulate", "send", "confirm"}
ConsolePlace == {"idle", "account", "readBack", "wait"} \cup BuiltPlace

AdminTx ==
  {t \in [seq : Nat \ {0}, fn : {"freeze", "unfreeze", "propose", "execute"},
          policy : Proposals \cup {NoValue}, until : Nat, by : {"console", "rival"}] :
     t.fn = "propose" => t.policy \in Proposals}

ConsoleTypeOK ==
  /\ pc \in ConsolePlace
  /\ active \in {"this", "other"}
  /\ fn \in {"none", "freeze", "unfreeze", "propose", "execute"}
  /\ unlock \in Nat
  /\ want \in Proposals \cup {NoValue}
  /\ pc # "idle" => fn # "none" /\ (fn = "propose" => want \in Proposals)
  /\ pc \in BuiltPlace => tx \in AdminTx
  /\ adminSeq \in Nat /\ pool \subseteq AdminTx
  /\ taken \in Seq([tx : AdminTx, outcome : {"SUCCESS", "FAILED"}])
  /\ Len(taken) = adminSeq

\* Steps of the console and its user, who leave the ledger alone.
Local ==
  \/ \E j \in {"freeze", "unfreeze"} : Click(j, NoValue)
  \/ \E p \in Proposals : Click("rotate", p)
  \/ Console \/ RpcThrows \/ Switch

LEMMA LocalLeaves == Local => UNCHANGED <<vars, overruled, adminSeq, taken>> \/ \E j, p : Click(j, p)
  BY DEF Local, Console, Build, Simulate, Send, Sent, Confirm, ReadBack, WaitOver, Execute, RpcThrows, Switch,
         worldVars, rivalVars, netVars

\* A transaction of the admin's is a step of the account, or none.
LEMMA AppliedSteps ==
  ASSUME TypeOK, NEW t \in AdminTx, Applied(t)
  PROVE  Next
<1>1. conf.admin \in Address
  BY DEF TypeOK, Conf
<1>2. t.fn \in {"freeze", "unfreeze", "propose", "execute"} /\ (t.fn = "propose" => t.policy \in Proposals)
  BY DEF AdminTx
<1>3. CASE t.fn = "freeze"
  BY <1>1, <1>3 DEF Applied, Next
<1>4. CASE t.fn = "unfreeze"
  BY <1>1, <1>4 DEF Applied, Next
<1>5. CASE t.fn = "propose"
  BY <1>1, <1>2, <1>5 DEF Applied, Next
<1>6. CASE t.fn = "execute"
  BY <1>1, <1>6 DEF Applied, Next
<1> QED
  BY <1>2, <1>3, <1>4, <1>5, <1>6

LEMMA BuildTypes ==
  ASSUME TypeOK, ConsoleTypeOK, Build
  PROVE  tx' \in AdminTx /\ tx'.seq = adminSeq + 1 /\ tx'.fn = fn /\ tx'.policy = want /\ tx'.by = "console"
<1>1. now \in Nat /\ now + TxLife \in Nat
  BY ConsoleAssumption, BoundsAssumption DEF TypeOK, Ledger
<1>2. tx' = [seq |-> adminSeq + 1, fn |-> fn, policy |-> want, until |-> now + TxLife, by |-> "console"]
  BY DEF Build
<1> QED
  BY <1>1, <1>2 DEF Build, ConsoleTypeOK, AdminTx

LEMMA RivalTypes ==
  ASSUME TypeOK, ConsoleTypeOK, NEW f \in {"freeze", "unfreeze", "execute", "propose"},
         NEW p \in Proposals \cup {NoValue}, f = "propose" => p \in Proposals, Rival(f, p)
  PROVE  \E t \in AdminTx : t.seq = adminSeq + 1 /\ t.by = "rival" /\ pool' = pool \cup {t}
<1> DEFINE t == [seq |-> adminSeq + 1, fn |-> f, policy |-> p, until |-> now + TxLife, by |-> "rival"]
<1>1. now + TxLife \in Nat
  BY ConsoleAssumption, BoundsAssumption DEF TypeOK, Ledger
<1>2. t \in AdminTx /\ t.seq = adminSeq + 1 /\ t.by = "rival"
  BY <1>1 DEF ConsoleTypeOK, AdminTx
<1> QED
  BY <1>2 DEF Rival

\* The steps of other holders of the key.
Rivals ==
  \/ \E f \in {"freeze", "unfreeze", "execute"} : Rival(f, NoValue)
  \/ \E p \in Proposals : Rival("propose", p)

LEMMA RivalsSteps ==
  ASSUME TypeOK, ConsoleTypeOK, Rivals
  PROVE  /\ \E t \in AdminTx : t.seq = adminSeq + 1 /\ t.by = "rival" /\ pool' = pool \cup {t}
         /\ UNCHANGED <<vars, consoleVars, activeVars, overruled, adminSeq, taken>>
<1>1. ASSUME NEW f \in {"freeze", "unfreeze", "execute"}, Rival(f, NoValue)
      PROVE  \E t \in AdminTx : t.seq = adminSeq + 1 /\ t.by = "rival" /\ pool' = pool \cup {t}
  BY <1>1, RivalTypes
<1>2. ASSUME NEW p \in Proposals, Rival("propose", p)
      PROVE  \E t \in AdminTx : t.seq = adminSeq + 1 /\ t.by = "rival" /\ pool' = pool \cup {t}
  BY <1>2, RivalTypes
<1>3. UNCHANGED <<vars, consoleVars, activeVars, overruled, adminSeq, taken>>
  BY DEF Rivals, Rival
<1> QED
  BY <1>1, <1>2, <1>3 DEF Rivals

LEMMA ConsoleSteps ==
  ConsoleNext => Local \/ Rivals \/ (\E t \in pool : Take(t)) \/ LedgerCloses
  BY DEF ConsoleNext, Local, Rivals

\* What the network makes of a transaction.
LEMMA TakeSteps ==
  ASSUME ConsoleTypeOK, NEW t \in pool, Take(t)
  PROVE  /\ t \in AdminTx /\ t.seq = adminSeq + 1 /\ adminSeq' = t.seq
         /\ pool' = {u \in pool : u.seq > t.seq}
         /\ taken' \in Seq([tx : AdminTx, outcome : {"SUCCESS", "FAILED"}])
         /\ Len(taken') = adminSeq' /\ taken'[adminSeq'].tx = t
         /\ taken'[adminSeq'].outcome = IF Refused(t.fn) THEN "FAILED" ELSE "SUCCESS"
         /\ IF Refused(t.fn) THEN UNCHANGED vars ELSE Applied(t)
         /\ \A i \in 1 .. adminSeq : taken'[i] = taken[i]
         /\ ~overruled' => ~overruled /\ ~Overrules(t)
         /\ UNCHANGED <<consoleVars, activeVars>>
<1>1. t \in AdminTx /\ t.seq = adminSeq + 1 /\ adminSeq' = t.seq /\ pool' = {u \in pool : u.seq > t.seq}
  BY DEF Take, ConsoleTypeOK
<1>2. /\ IF Refused(t.fn) THEN UNCHANGED vars ELSE Applied(t)
      /\ UNCHANGED <<consoleVars, activeVars>>
  BY DEF Take
<1>3. ~overruled' => ~overruled /\ ~Overrules(t)
  <2>1. overruled' = (overruled \/ Overrules(t))
    BY DEF Take
  <2> QED
    BY <2>1, Zenon
<1>4. PICK o \in {"SUCCESS", "FAILED"} :
        taken' = Append(taken, [tx |-> t, outcome |-> o]) /\ o = IF Refused(t.fn) THEN "FAILED" ELSE "SUCCESS"
  BY DEF Take
<1>5. /\ taken' \in Seq([tx : AdminTx, outcome : {"SUCCESS", "FAILED"}])
      /\ Len(taken') = Len(taken) + 1 /\ taken'[Len(taken) + 1] = [tx |-> t, outcome |-> o]
      /\ \A i \in 1 .. Len(taken) : taken'[i] = taken[i]
  BY <1>1, <1>4 DEF ConsoleTypeOK
<1> QED
  BY <1>1, <1>2, <1>3, <1>4, <1>5 DEF ConsoleTypeOK

LEMMA ConsoleTypesStep ==
  ASSUME TypeOK, ConsoleTypeOK, [ConsoleNext]_allVars
  PROVE  ConsoleTypeOK'
<1>1. ASSUME NEW j \in {"freeze", "unfreeze"}, Click(j, NoValue)
      PROVE  ConsoleTypeOK'
  BY <1>1 DEF Click, ConsoleTypeOK, ConsolePlace, BuiltPlace, vars, storage, activeVars, netVars
<1>2. ASSUME NEW p \in Proposals, Click("rotate", p)
      PROVE  ConsoleTypeOK'
  BY <1>2 DEF Click, ConsoleTypeOK, ConsolePlace, BuiltPlace, activeVars, netVars
<1>3. CASE Build
  BY <1>3, BuildTypes
  DEF Build, GoTo, ConsoleTypeOK, ConsolePlace, BuiltPlace, worldVars, activeVars, netVars, clickVars
<1>4. CASE Simulate
  BY <1>4 DEF Simulate, GoTo, Finish, ConsoleTypeOK, ConsolePlace, BuiltPlace, worldVars, activeVars, netVars,
              clickVars, localVars
<1>5. CASE Send
  BY <1>5 DEF Send, Sent, GoTo, ConsoleTypeOK, ConsolePlace, BuiltPlace, activeVars, clickVars, localVars
<1>6. CASE Confirm
  BY <1>6 DEF Confirm, Returned, GoTo, Finish, ConsoleTypeOK, ConsolePlace, BuiltPlace, worldVars, activeVars,
              netVars, clickVars, localVars
<1>7. CASE ReadBack
  <2>1. U32Max \in Nat /\ now \in Nat /\ (pendRot = NoRotation \/ pendRot.unlock_ledger \in Nat)
    BY <1>7, BoundsAssumption DEF TypeOK, Ledger, PendingRotation
  <2>2. \A u \in Pending : u \in Nat
    BY <2>1 DEF Pending
  <2>3. UNCHANGED <<active, want, adminSeq, pool, taken>>
    BY <1>7 DEF ReadBack, worldVars, activeVars, netVars
  <2>4. \/ pc' = "idle" /\ fn' = "none" /\ unlock' = 0
        \/ pc = "readBack" /\ pc' = "wait" /\ unlock' \in Pending /\ UNCHANGED fn
    BY <1>7 DEF ReadBack, GoTo, Finish
  <2> QED
    BY <1>7, <2>2, <2>3, <2>4 DEF ConsoleTypeOK, ConsolePlace, BuiltPlace
<1>8. CASE WaitOver
  BY <1>8 DEF WaitOver, Execute, GoTo, ConsoleTypeOK, ConsolePlace, BuiltPlace, worldVars, activeVars, netVars
<1>9. CASE RpcThrows
  BY <1>9 DEF RpcThrows, Sent, Finish, ConsoleTypeOK, ConsolePlace, BuiltPlace, activeVars, clickVars
<1>10. CASE Switch
  BY <1>10 DEF Switch, ConsoleTypeOK, ConsolePlace, BuiltPlace, consoleVars, clickVars, localVars, netVars
<1>11. CASE Rivals
  BY <1>11, RivalsSteps DEF ConsoleTypeOK, consoleVars, clickVars, localVars, activeVars
<1>12. ASSUME NEW t \in pool, Take(t)
       PROVE  ConsoleTypeOK'
  BY <1>12, TakeSteps DEF ConsoleTypeOK, consoleVars, clickVars, localVars, activeVars, AdminTx
<1>13. CASE LedgerCloses
  BY <1>13 DEF LedgerCloses, ConsoleTypeOK, consoleVars, clickVars, localVars, activeVars
<1>14. CASE UNCHANGED allVars
  BY <1>14 DEF allVars, ConsoleTypeOK, consoleVars, clickVars, localVars, activeVars, netVars
<1> QED
  BY <1>1, <1>2, <1>3, <1>4, <1>5, <1>6, <1>7, <1>8, <1>9, <1>10, <1>11, <1>12, <1>13, <1>14, ConsoleSteps
  DEF Local, Console

\* Whatever the console, its user and other holders of the key do, what happens
\* to the account are calls of the account's own (chain.js 213-229 invokes the
\* contract's functions and writes nothing else).
THEOREM ConsoleImplementsAccount == ConsoleSpec => Spec
<1>1. ConsoleInit => Init /\ ConsoleTypeOK
  BY DEF ConsoleInit, ConsoleTypeOK, ConsolePlace, BuiltPlace
<1>2. Init => TypeOK
  BY TypeCorrectInit
<1>3. TypeOK /\ ConsoleTypeOK /\ [ConsoleNext]_allVars => [Next]_vars /\ ConsoleTypeOK'
  <2> SUFFICES ASSUME TypeOK, ConsoleTypeOK, [ConsoleNext]_allVars
               PROVE  [Next]_vars
    BY ConsoleTypesStep
  <2>1. ASSUME NEW j, NEW p, Click(j, p)
        PROVE  UNCHANGED vars
    BY <2>1 DEF Click
  <2>2. CASE Local
    BY <2>1, <2>2, LocalLeaves
  <2>3. CASE Rivals
    BY <2>3, RivalsSteps
  <2>4. ASSUME NEW t \in pool, Take(t)
        PROVE  [Next]_vars
    BY <2>4, TakeSteps, AppliedSteps
  <2>5. CASE LedgerCloses
    BY <2>5 DEF LedgerCloses, Next
  <2>6. CASE UNCHANGED allVars
    BY <2>6 DEF allVars
  <2> QED
    BY <2>2, <2>3, <2>4, <2>5, <2>6, ConsoleSteps
<1>4. TypeOK /\ [Next]_vars => TypeOK'
  BY TypeStep
<1> QED
  BY <1>1, <1>2, <1>3, <1>4, PTL DEF ConsoleSpec, Spec

\* The types of both, of every state.
THEOREM ConsoleTypes == ConsoleSpec => [](TypeOK /\ ConsoleTypeOK)
<1>1. ConsoleInit => ConsoleTypeOK
  BY DEF ConsoleInit, ConsoleTypeOK, ConsolePlace, BuiltPlace
<1>2. TypeOK /\ ConsoleTypeOK /\ [ConsoleNext]_allVars => ConsoleTypeOK'
  BY ConsoleTypesStep
<1> QED
  BY <1>1, <1>2, ConsoleImplementsAccount, TypeCorrect, PTL DEF ConsoleSpec

-----------------------------------------------------------------------------
(* Why the console's reports are so.  A transaction of the console's that  *)
(* is still with the network was built on the ledger's number; when one is *)
(* taken, the others are dead.                                             *)

NoConsole == \A t \in pool : t.by # "console"

SeqOK ==
  /\ \A t \in pool : t.seq = adminSeq + 1
  /\ pc \in BuiltPlace =>
       /\ tx.seq <= adminSeq + 1 /\ tx.fn = fn /\ tx.policy = want /\ tx.by = "console"
       /\ NoConsole \/ tx.seq = adminSeq + 1

\* Which function is invoked for which button, and of which account.
JobOK ==
  /\ pc # "idle" => report = "none"
  /\ pc \in {"account"} \cup BuiltPlace =>
       \/ fn \in {"freeze", "unfreeze"} /\ job = fn /\ target = "this"
       \/ fn = "propose" /\ job = "rotate" /\ target = "this"
       \/ fn = "execute" /\ job = "rotate" /\ (strayed \/ target = "this")
  /\ pc = "readBack" => job = "rotate" /\ fn = "propose" /\ target = "this"
  /\ pc = "wait" => job = "rotate"

\* From the read-back to the execution the proposal stays pending, also when it is
\* the other account's that is executed, and nothing of the console's that could
\* overtake it is with the network.  Unless the click strayed, the wait is for it.
RotateOK ==
  ~overruled /\ job = "rotate" =>
    /\ pc \in {"readBack", "wait"} => StillProposed /\ NoConsole
    /\ fn = "execute" /\ pc \in {"account", "simulate", "send"} => StillProposed /\ NoConsole
    /\ fn = "execute" /\ pc = "confirm" =>
         /\ StillProposed \/ Rotated
         /\ \A t \in pool : t.by = "console" => t = tx
         /\ tx.seq > adminSeq => StillProposed
         /\ target # "this" => NoConsole /\ StillProposed
    /\ report = "done" => StillProposed \/ Rotated

UnlockOK ==
  ~overruled /\ job = "rotate" /\ ~strayed =>
    /\ pc = "wait" => unlock = pendRot.unlock_ledger
    /\ fn = "execute" /\ pc \in {"account", "simulate", "send"} => now >= pendRot.unlock_ledger

\* What the invocation was for.
Effect ==
  /\ fn = "freeze" => frozen = TRUE
  /\ fn = "unfreeze" => frozen = FALSE
  /\ fn = "propose" => StillProposed
  /\ fn = "execute" => Rotated

\* A transaction that was taken has its effect, whatever was taken after it.
TakenOK ==
  pc \in BuiltPlace /\ target = "this" /\ ~overruled /\ tx.seq <= adminSeq
      /\ taken[tx.seq].tx = tx /\ taken[tx.seq].outcome = "SUCCESS" => Effect

DoneOK ==
  /\ DoneIsDone
  /\ report = "done" /\ ~overruled => NoConsole

ConsoleInv == SeqOK /\ JobOK /\ RotateOK /\ UnlockOK /\ TakenOK /\ DoneOK

LEMMA ClickKeeps ==
  ASSUME ConsoleTypeOK, ConsoleInv, NEW j \in {"freeze", "unfreeze", "rotate"}, NEW p, Click(j, p)
  PROVE  ConsoleInv'
<1>1. /\ pc' = "account" /\ report' = "none" /\ job' = j /\ target' = "this"
      /\ fn' = IF j = "rotate" THEN "propose" ELSE j
      /\ UNCHANGED <<adminSeq, pool>>
  BY DEF Click, netVars
<1>2. SeqOK' /\ JobOK'
  BY <1>1 DEF ConsoleInv, SeqOK, JobOK, BuiltPlace
<1>3. RotateOK' /\ UnlockOK' /\ TakenOK' /\ DoneOK'
  BY <1>1 DEF RotateOK, UnlockOK, TakenOK, DoneOK, DoneIsDone, BuiltPlace
<1> QED
  BY <1>2, <1>3 DEF ConsoleInv

\* A call that ends without "done" leaves nothing to keep but the numbers.
LEMMA ErrorKeeps ==
  ASSUME ConsoleTypeOK, ConsoleInv, Finish("error"), UNCHANGED adminSeq,
         \A t \in pool' : t \in pool \/ t.seq = adminSeq + 1
  PROVE  ConsoleInv'
<1>1. pc' = "idle" /\ report' = "error"
  BY DEF Finish
<1>2. SeqOK' /\ JobOK' /\ RotateOK' /\ UnlockOK' /\ TakenOK' /\ DoneOK'
  BY <1>1 DEF ConsoleInv, SeqOK, JobOK, RotateOK, UnlockOK, TakenOK, DoneOK, DoneIsDone, BuiltPlace
<1> QED
  BY <1>2 DEF ConsoleInv

LEMMA BuildKeeps ==
  ASSUME TypeOK, ConsoleTypeOK, ConsoleInv, Build
  PROVE  ConsoleInv'
<1>1. /\ pc = "account" /\ pc' = "simulate"
      /\ UNCHANGED <<vars, activeVars, overruled, netVars, job, want, strayed, report, fn, unlock, target>>
  BY DEF Build, GoTo, worldVars, rivalVars, clickVars
<1>2. tx'.seq = adminSeq + 1 /\ tx'.fn = fn /\ tx'.policy = want /\ tx'.by = "console" /\ adminSeq \in Nat
  BY BuildTypes DEF ConsoleTypeOK
<1>3. SeqOK'
  BY <1>1, <1>2 DEF ConsoleInv, SeqOK, NoConsole, netVars
<1>4. JobOK'
  BY <1>1 DEF ConsoleInv, JobOK, BuiltPlace
<1>5. RotateOK' /\ UnlockOK'
  BY <1>1 DEF ConsoleInv, JobOK, RotateOK, UnlockOK, StillProposed, NoConsole, vars, storage, netVars
<1>6. TakenOK'
  BY <1>1, <1>2 DEF TakenOK, netVars
<1>7. DoneOK'
  BY <1>1 DEF ConsoleInv, JobOK, DoneOK, DoneIsDone
<1> QED
  BY <1>3, <1>4, <1>5, <1>6, <1>7 DEF ConsoleInv

LEMMA SimulateKeeps ==
  ASSUME ConsoleTypeOK, ConsoleInv, Simulate
  PROVE  ConsoleInv'
<1>1. /\ pc = "simulate"
      /\ UNCHANGED <<vars, activeVars, overruled, netVars, job, want, strayed>>
  BY DEF Simulate, worldVars, rivalVars, clickVars
<1>2. CASE Finish("error")
  BY <1>1, <1>2, ErrorKeeps DEF netVars
<1>3. CASE pc' = "send" /\ UNCHANGED <<report, localVars>>
  <2>1. SeqOK' /\ JobOK'
    BY <1>1, <1>3 DEF ConsoleInv, SeqOK, NoConsole, JobOK, BuiltPlace, netVars, localVars
  <2>2. RotateOK' /\ UnlockOK'
    BY <1>1, <1>3 DEF ConsoleInv, JobOK, RotateOK, UnlockOK, StillProposed, NoConsole, vars, storage, netVars, localVars
  <2>3. TakenOK'
    BY <1>1, <1>3 DEF ConsoleInv, TakenOK, Effect, Rotated, StillProposed, BuiltPlace, vars, storage, netVars, localVars
  <2>4. DoneOK'
    BY <1>1, <1>3 DEF ConsoleInv, JobOK, DoneOK, DoneIsDone
  <2> QED
    BY <2>1, <2>2, <2>3, <2>4 DEF ConsoleInv
<1> QED
  BY <1>2, <1>3 DEF Simulate, GoTo

LEMMA SendKeeps ==
  ASSUME ConsoleTypeOK, ConsoleInv, Send
  PROVE  ConsoleInv'
<1>1. /\ pc = "send" /\ pc' = "confirm"
      /\ UNCHANGED <<vars, activeVars, overruled, adminSeq, taken, job, want, strayed, report, localVars>>
  BY DEF Send, GoTo, rivalVars, clickVars
<1>2. pool' = pool \/ (pool' = pool \cup {tx} /\ tx.seq > adminSeq /\ target = "this")
  BY DEF Send, Sent
<1>3. tx \in AdminTx /\ tx.seq \in Nat /\ adminSeq \in Nat
  BY <1>1 DEF ConsoleTypeOK, BuiltPlace, AdminTx
<1>4. SeqOK'
  BY <1>1, <1>2, <1>3 DEF ConsoleInv, SeqOK, NoConsole, BuiltPlace, localVars
<1>5. JobOK'
  BY <1>1 DEF ConsoleInv, JobOK, BuiltPlace, localVars
<1>6. RotateOK' /\ UnlockOK'
  BY <1>1, <1>2 DEF ConsoleInv, JobOK, RotateOK, UnlockOK, StillProposed, NoConsole, vars, storage, localVars
<1>7. TakenOK'
  BY <1>1 DEF ConsoleInv, TakenOK, Effect, Rotated, StillProposed, BuiltPlace, vars, storage, localVars
<1>8. DoneOK'
  BY <1>1 DEF ConsoleInv, JobOK, DoneOK, DoneIsDone
<1> QED
  BY <1>4, <1>5, <1>6, <1>7, <1>8 DEF ConsoleInv

\* A status that says SUCCESS of this account's transaction says that its
\* effect is there and that no other of the console's is on its way.
LEMMA SuccessIsSo ==
  ASSUME ConsoleTypeOK, ConsoleInv, pc = "confirm", target = "this", "SUCCESS" \in StatusesOf(tx)
  PROVE  NoConsole /\ (~overruled => Effect)
<1>1. tx \in AdminTx /\ tx.seq \in Nat /\ adminSeq \in Nat /\ DOMAIN taken = 1..adminSeq
  BY DEF ConsoleTypeOK, BuiltPlace, AdminTx
<1>2. tx.seq \in DOMAIN taken /\ taken[tx.seq].tx = tx /\ taken[tx.seq].outcome = "SUCCESS"
  BY DEF StatusesOf
<1>3. tx.seq <= adminSeq
  BY <1>1, <1>2
<1>4. NoConsole
  BY <1>1, <1>3 DEF ConsoleInv, SeqOK, BuiltPlace
<1>5. ~overruled => Effect
  BY <1>2, <1>3 DEF ConsoleInv, TakenOK, BuiltPlace
<1> QED
  BY <1>4, <1>5

LEMMA ConfirmKeeps ==
  ASSUME TypeOK, ConsoleTypeOK, ConsoleInv, Confirm
  PROVE  ConsoleInv'
<1>1. /\ pc = "confirm"
      /\ UNCHANGED <<vars, activeVars, overruled, netVars, job, want, strayed>>
  BY DEF Confirm, worldVars, rivalVars, clickVars
<1>2. PICK status \in StatusesOf(tx) : Returned(status)
  BY DEF Confirm
<1>3. CASE status = "SUCCESS" /\ fn = "propose"
  <2>1. pc' = "readBack" /\ UNCHANGED <<report, localVars>>
    BY <1>2, <1>3 DEF Returned, GoTo
  <2>2. target = "this" /\ job = "rotate" /\ report = "none"
    BY <1>1, <1>3 DEF ConsoleInv, JobOK, BuiltPlace
  <2>3. NoConsole /\ (~overruled => StillProposed)
    BY <1>1, <1>2, <1>3, <2>2, SuccessIsSo DEF Effect
  <2>4. SeqOK' /\ JobOK'
    BY <1>1, <1>3, <2>1, <2>2 DEF ConsoleInv, SeqOK, JobOK, BuiltPlace, netVars, localVars
  <2>5. RotateOK' /\ UnlockOK'
    BY <1>1, <2>1, <2>2, <2>3 DEF RotateOK, UnlockOK, StillProposed, NoConsole, vars, storage, netVars, localVars
  <2>6. TakenOK' /\ DoneOK'
    BY <1>1, <2>1, <2>2 DEF TakenOK, DoneOK, DoneIsDone, BuiltPlace
  <2> QED
    BY <2>4, <2>5, <2>6 DEF ConsoleInv
<1>4. CASE Finish("error")
  BY <1>1, <1>4, ErrorKeeps DEF netVars
<1>5. CASE status = "SUCCESS" /\ fn # "propose" /\ Finish("done")
  <2>1. pc' = "idle" /\ report' = "done"
    BY <1>5 DEF Finish
  <2>2. \/ fn \in {"freeze", "unfreeze"} /\ job = fn /\ target = "this"
        \/ fn = "execute" /\ job = "rotate" /\ (strayed \/ target = "this")
    BY <1>1, <1>5 DEF ConsoleInv, JobOK, BuiltPlace
  <2>3. SeqOK' /\ JobOK' /\ UnlockOK' /\ TakenOK'
    BY <1>1, <2>1 DEF ConsoleInv, SeqOK, JobOK, UnlockOK, TakenOK, BuiltPlace, netVars
  <2>4. target = "this" => NoConsole /\ (~overruled => Effect)
    BY <1>1, <1>2, <1>5, SuccessIsSo
  <2>5. target # "this" => job = "rotate" /\ strayed /\ (~overruled => NoConsole /\ StillProposed)
    BY <1>1, <2>2 DEF ConsoleInv, RotateOK
  <2>6. job = "rotate" /\ ~overruled => Rotated \/ (strayed /\ StillProposed)
    BY <2>2, <2>4, <2>5 DEF Effect
  <2>7. RotateOK'
    BY <1>1, <2>1, <2>6 DEF RotateOK, Rotated, StillProposed, vars, storage
  <2>8. ~overruled => (job = "freeze" => frozen) /\ (job = "unfreeze" => ~frozen)
    BY <2>2, <2>4 DEF Effect, TypeOK
  <2>9. DoneOK'
    <3>1. DoneIsDone'
      BY <1>1, <2>6, <2>8 DEF DoneIsDone, Rotated, StillProposed, vars, storage
    <3>2. ~overruled => NoConsole
      BY <2>4, <2>5
    <3> QED
      BY <1>1, <3>1, <3>2 DEF DoneOK, NoConsole, netVars
  <2> QED
    BY <2>3, <2>7, <2>9 DEF ConsoleInv
<1> QED
  BY <1>2, <1>3, <1>4, <1>5 DEF Returned

LEMMA ReadBackKeeps ==
  ASSUME ConsoleTypeOK, ConsoleInv, ReadBack
  PROVE  ConsoleInv'
<1>1. /\ pc = "readBack"
      /\ UNCHANGED <<vars, activeVars, overruled, netVars, job, want>>
  BY DEF ReadBack, worldVars, rivalVars
<1>2. strayed' = (strayed \/ active # "this")
  BY DEF ReadBack
<1>3. CASE Finish("error")
  BY <1>1, <1>3, ErrorKeeps DEF netVars
<1>4. CASE unlock' \in Pending /\ pc' = "wait" /\ UNCHANGED <<report, fn, tx, target>>
  <2>1. SeqOK' /\ JobOK'
    BY <1>1, <1>4 DEF ConsoleInv, SeqOK, JobOK, BuiltPlace, netVars
  <2>2. RotateOK'
    BY <1>1, <1>4 DEF ConsoleInv, JobOK, RotateOK, StillProposed, NoConsole, vars, storage, netVars
  <2>3. ASSUME ~overruled', job' = "rotate", ~strayed'
        PROVE  unlock' = pendRot.unlock_ledger
    <3>1. ~strayed /\ active = "this"
      BY <1>2, <2>3, Zenon
    <3>2. StillProposed
      BY <1>1, <2>3, <3>1 DEF ConsoleInv, RotateOK
    <3> QED
      BY <1>4, <3>1, <3>2 DEF Pending, StillProposed
  <2>4. UnlockOK'
    BY <1>1, <1>4, <2>3 DEF UnlockOK, vars, storage
  <2>5. TakenOK' /\ DoneOK'
    BY <1>1, <1>4 DEF ConsoleInv, JobOK, TakenOK, DoneOK, DoneIsDone, BuiltPlace
  <2> QED
    BY <2>1, <2>2, <2>4, <2>5 DEF ConsoleInv
<1> QED
  BY <1>3, <1>4 DEF ReadBack, GoTo

LEMMA WaitOverKeeps ==
  ASSUME TypeOK, ConsoleTypeOK, ConsoleInv, WaitOver
  PROVE  ConsoleInv'
<1>1. /\ pc = "wait" /\ now > unlock
      /\ pc' = "account" /\ fn' = "execute" /\ target' = active
      /\ UNCHANGED <<vars, activeVars, overruled, netVars, job, want, report>>
  BY DEF WaitOver, Execute, GoTo, worldVars, rivalVars
<1>2. strayed' = (strayed \/ active # "this")
  BY DEF WaitOver, Execute
<1>3. strayed' \/ target' = "this"
  BY <1>1, <1>2, Zenon
<1>4. SeqOK' /\ JobOK'
  BY <1>1, <1>3 DEF ConsoleInv, SeqOK, JobOK, BuiltPlace, netVars
<1>5. RotateOK'
  BY <1>1 DEF ConsoleInv, JobOK, RotateOK, StillProposed, NoConsole, vars, storage, netVars
<1>6. UnlockOK'
  <2>1. ~strayed' => ~strayed
    BY <1>2, Zenon
  <2>2. now \in Nat /\ unlock \in Nat
    BY BoundsAssumption DEF TypeOK, ConsoleTypeOK, Ledger
  <2> QED
    BY <1>1, <2>1, <2>2 DEF ConsoleInv, UnlockOK, vars, storage
<1>7. TakenOK' /\ DoneOK'
  BY <1>1 DEF ConsoleInv, JobOK, TakenOK, DoneOK, DoneIsDone, BuiltPlace
<1> QED
  BY <1>4, <1>5, <1>6, <1>7 DEF ConsoleInv

LEMMA RpcThrowsKeeps ==
  ASSUME ConsoleTypeOK, ConsoleInv, RpcThrows
  PROVE  ConsoleInv'
<1>1. Finish("error") /\ UNCHANGED adminSeq
  BY DEF RpcThrows
<1>2. \A t \in pool' : t \in pool \/ t.seq = adminSeq + 1
  <2>1. CASE UNCHANGED pool
    BY <2>1
  <2>2. CASE pc = "send" /\ Sent
    <3>1. tx \in AdminTx /\ tx.seq \in Nat /\ adminSeq \in Nat
      BY <2>2 DEF ConsoleTypeOK, BuiltPlace, AdminTx
    <3>2. tx.seq <= adminSeq + 1
      BY <2>2 DEF ConsoleInv, SeqOK, BuiltPlace
    <3> QED
      BY <2>2, <3>1, <3>2 DEF Sent
  <2> QED
    BY <2>1, <2>2 DEF RpcThrows
<1> QED
  BY <1>1, <1>2, ErrorKeeps

\* Nothing that the invariant speaks of changes.
LEMMA StutterKeeps ==
  ASSUME ConsoleInv, UNCHANGED <<vars, consoleVars, overruled, netVars>>
  PROVE  ConsoleInv'
<1>1. SeqOK' /\ JobOK'
  BY DEF ConsoleInv, SeqOK, NoConsole, JobOK, BuiltPlace, consoleVars, clickVars, localVars, netVars
<1>2. RotateOK' /\ UnlockOK'
  BY DEF ConsoleInv, RotateOK, UnlockOK, Rotated, StillProposed, NoConsole,
         consoleVars, clickVars, localVars, netVars, vars, storage
<1>3. TakenOK'
  BY DEF ConsoleInv, TakenOK, Effect, Rotated, StillProposed, BuiltPlace,
         consoleVars, clickVars, localVars, netVars, vars, storage
<1>4. DoneOK'
  BY DEF ConsoleInv, DoneOK, DoneIsDone, Rotated, StillProposed, NoConsole,
         consoleVars, clickVars, netVars, vars, storage
<1> QED
  BY <1>1, <1>2, <1>3, <1>4 DEF ConsoleInv

LEMMA SwitchKeeps ==
  ASSUME ConsoleInv, Switch
  PROVE  ConsoleInv'
<1>1. UNCHANGED <<vars, consoleVars, overruled, netVars>>
  BY DEF Switch, rivalVars
<1> QED
  BY <1>1, StutterKeeps

LEMMA RivalsKeep ==
  ASSUME TypeOK, ConsoleTypeOK, ConsoleInv, Rivals
  PROVE  ConsoleInv'
<1>1. PICK t \in AdminTx : t.seq = adminSeq + 1 /\ t.by = "rival" /\ pool' = pool \cup {t}
  BY RivalsSteps
<1>2. UNCHANGED <<vars, consoleVars, overruled, adminSeq, taken>>
  BY RivalsSteps
<1>3. /\ NoConsole' <=> NoConsole
      /\ \A u \in pool' : u.by = "console" => u \in pool
  BY <1>1 DEF NoConsole
<1>4. SeqOK' /\ JobOK'
  BY <1>1, <1>2, <1>3 DEF ConsoleInv, SeqOK, JobOK, BuiltPlace, consoleVars, clickVars, localVars
<1>5. RotateOK' /\ UnlockOK'
  BY <1>2, <1>3 DEF ConsoleInv, RotateOK, UnlockOK, Rotated, StillProposed,
                    consoleVars, clickVars, localVars, vars, storage
<1>6. TakenOK'
  BY <1>2 DEF ConsoleInv, TakenOK, Effect, Rotated, StillProposed, BuiltPlace,
              consoleVars, clickVars, localVars, vars, storage
<1>7. DoneOK'
  BY <1>2, <1>3 DEF ConsoleInv, DoneOK, DoneIsDone, Rotated, StillProposed,
                    consoleVars, clickVars, vars, storage
<1> QED
  BY <1>4, <1>5, <1>6, <1>7 DEF ConsoleInv

LEMMA LedgerClosesKeeps ==
  ASSUME TypeOK, ConsoleTypeOK, ConsoleInv, LedgerCloses
  PROVE  ConsoleInv'
<1>1. /\ now' = now + 1 /\ pool' \subseteq pool
      /\ UNCHANGED <<storage, consoleVars, overruled, adminSeq, taken>>
  BY DEF LedgerCloses, CloseLedger, rivalVars
<1>2. NoConsole => NoConsole'
  BY <1>1 DEF NoConsole
<1>3. SeqOK' /\ JobOK'
  BY <1>1, <1>2 DEF ConsoleInv, SeqOK, JobOK, BuiltPlace, consoleVars, clickVars, localVars
<1>4. RotateOK'
  BY <1>1, <1>2 DEF ConsoleInv, RotateOK, Rotated, StillProposed, consoleVars, clickVars, localVars, storage
<1>5. UnlockOK'
  <2>1. now \in Nat /\ (pendRot = NoRotation \/ pendRot.unlock_ledger \in Nat)
    BY BoundsAssumption DEF TypeOK, Ledger, PendingRotation
  <2>2. ~overruled /\ job = "rotate" /\ fn = "execute" /\ pc \in {"account", "simulate", "send"}
          => pendRot # NoRotation
    BY DEF ConsoleInv, RotateOK, StillProposed
  <2> QED
    BY <1>1, <2>1, <2>2 DEF ConsoleInv, UnlockOK, consoleVars, clickVars, localVars, storage
<1>6. TakenOK'
  BY <1>1 DEF ConsoleInv, TakenOK, Effect, Rotated, StillProposed, BuiltPlace,
              consoleVars, clickVars, localVars, storage
<1>7. DoneOK'
  BY <1>1, <1>2 DEF ConsoleInv, DoneOK, DoneIsDone, Rotated, StillProposed, consoleVars, clickVars, storage
<1> QED
  BY <1>3, <1>4, <1>5, <1>6, <1>7 DEF ConsoleInv

\* What the four functions leave behind.
LEMMA AppliedEffects ==
  ASSUME TypeOK, NEW t \in AdminTx, Applied(t)
  PROVE  /\ t.fn = "freeze" => frozen' = TRUE
         /\ t.fn = "unfreeze" => frozen' = FALSE
         /\ t.fn = "propose" => /\ pendRot' # NoRotation
                                /\ pendRot'.commitment = t.policy.commitment
                                /\ pendRot'.root = t.policy.root
         /\ t.fn = "execute" => /\ pendRot' = NoRotation
                                /\ pol' = pendRot.commitment /\ root' = pendRot.root
<1>1. CASE t.fn = "freeze"
  BY <1>1 DEF Applied, Freeze, SetFrozen
<1>2. CASE t.fn = "unfreeze"
  BY <1>2 DEF Applied, Unfreeze, SetFrozen
<1>3. CASE t.fn = "propose"
  <2>1. t.policy \in Policy
    BY <1>3, InputAssumption DEF AdminTx
  <2>2. SatAdd(now, conf.rotationDelay) \in Ledger
    BY SatAddBounds DEF TypeOK, Conf
  <2>3. pendRot' = [commitment |-> t.policy.commitment, root |-> t.policy.root,
                    unlock_ledger |-> SatAdd(now, conf.rotationDelay)]
    BY <1>3 DEF Applied, ProposeRotation
  <2>4. pendRot' \in PendingRotation
    BY <2>1, <2>2, <2>3 DEF PendingRotation, Policy
  <2> QED
    BY <1>3, <2>3, <2>4, DataAssumption
<1>4. CASE t.fn = "execute"
  BY <1>4 DEF Applied, ExecuteRotation
<1> QED
  BY <1>1, <1>2, <1>3, <1>4 DEF AdminTx

\* A transaction of another holder that does not overrule the click leaves alone
\* what the click is about.
LEMMA HarmlessRivals ==
  ASSUME TypeOK, NEW t \in AdminTx, t.by = "rival", ~Overrules(t),
         IF Refused(t.fn) THEN UNCHANGED vars ELSE Applied(t)
  PROVE  /\ job = "freeze" /\ frozen = TRUE => frozen' = TRUE
         /\ job = "unfreeze" /\ frozen = FALSE => frozen' = FALSE
         /\ job = "rotate" => UNCHANGED <<pol, root, pendRot, now>>
<1>1. t.fn \notin Rivalling[job] /\ t.fn \in {"freeze", "unfreeze", "propose", "execute"}
  BY DEF Overrules, AdminTx
<1>2. CASE UNCHANGED vars
  BY <1>2 DEF vars, storage
<1>3. CASE Applied(t)
  <2>1. ASSUME t.fn \in {"propose", "execute"} PROVE UNCHANGED frozen
    BY <1>3, <2>1 DEF Applied, ProposeRotation, ExecuteRotation
  <2>2. ASSUME t.fn \in {"freeze", "unfreeze"} PROVE UNCHANGED <<pol, root, pendRot, now>>
    BY <1>3, <2>2 DEF Applied, Freeze, Unfreeze, SetFrozen
  <2>3. job = "freeze" => t.fn # "unfreeze"
    BY <1>1 DEF Rivalling
  <2>4. job = "unfreeze" => t.fn # "freeze"
    BY <1>1 DEF Rivalling
  <2>5. job = "rotate" => t.fn \in {"freeze", "unfreeze"}
    BY <1>1 DEF Rivalling
  <2> QED
    BY <1>1, <1>3, <2>1, <2>2, <2>3, <2>4, <2>5, AppliedEffects
<1> QED
  BY <1>2, <1>3

LEMMA TakeKeeps ==
  ASSUME TypeOK, ConsoleTypeOK, ConsoleInv, NEW t \in pool, Take(t)
  PROVE  ConsoleInv'
<1>1. /\ t \in AdminTx /\ t.seq = adminSeq + 1 /\ adminSeq' = adminSeq + 1
      /\ ~overruled' => ~overruled /\ ~Overrules(t)
      /\ IF Refused(t.fn) THEN UNCHANGED vars ELSE Applied(t)
      /\ UNCHANGED <<consoleVars, activeVars>>
  BY TakeSteps
<1>2. pool' = {}
  BY <1>1, TakeSteps DEF ConsoleInv, SeqOK, ConsoleTypeOK, AdminTx
<1>3. adminSeq \in Nat /\ (pc \in BuiltPlace => tx \in AdminTx /\ tx.seq \in Nat)
  BY DEF ConsoleTypeOK, AdminTx
<1>4. /\ UNCHANGED <<pc, job, want, fn, tx, unlock, target, strayed, report>>
      /\ NoConsole'
  BY <1>1, <1>2 DEF consoleVars, clickVars, localVars, NoConsole
<1>5. SeqOK'
  BY <1>1, <1>2, <1>3, <1>4 DEF ConsoleInv, SeqOK, BuiltPlace
<1>6. JobOK'
  BY <1>1, <1>4 DEF ConsoleInv, JobOK, BuiltPlace
<1>7. t.by \in {"console", "rival"} /\ (t.by = "console" => ~NoConsole)
  BY <1>1 DEF AdminTx, NoConsole
<1>8. ASSUME t.by = "rival", ~overruled'
      PROVE  ConsoleInv'
  <2>1. /\ ~overruled
        /\ job = "freeze" /\ frozen = TRUE => frozen' = TRUE
        /\ job = "unfreeze" /\ frozen = FALSE => frozen' = FALSE
        /\ job = "rotate" => UNCHANGED <<pol, root, pendRot, now>>
    BY <1>1, <1>8, HarmlessRivals
  <2>2. RotateOK'
    BY <1>1, <1>2, <1>3, <1>4, <2>1 DEF ConsoleInv, RotateOK, Rotated, StillProposed, BuiltPlace
  <2>3. UnlockOK'
    BY <1>4, <2>1 DEF ConsoleInv, UnlockOK
  <2>4. TakenOK'
    <3> SUFFICES ASSUME pc \in BuiltPlace, target = "this", tx.seq <= adminSeq + 1,
                        taken'[tx.seq].tx = tx, taken'[tx.seq].outcome = "SUCCESS"
                 PROVE  Effect'
      BY <1>1, <1>4 DEF TakenOK
    <3>1. tx.seq # adminSeq + 1
      BY <1>1, <1>8, TakeSteps DEF ConsoleInv, SeqOK
    <3>2. tx.seq \in 1 .. adminSeq
      BY <1>3, <3>1 DEF AdminTx, ConsoleInv, SeqOK, ConsoleTypeOK
    <3>3. Effect
      BY <2>1, <3>2, TakeSteps DEF ConsoleInv, TakenOK
    <3>4. \/ fn \in {"freeze", "unfreeze"} /\ job = fn
          \/ fn \in {"propose", "execute"} /\ job = "rotate"
      BY <1>3 DEF ConsoleInv, JobOK, BuiltPlace
    <3> QED
      BY <1>4, <2>1, <3>3, <3>4 DEF Effect, Rotated, StillProposed
  <2>5. DoneOK'
    BY <1>4, <2>1 DEF ConsoleInv, DoneOK, DoneIsDone, Rotated, StillProposed, TypeOK
  <2> QED
    BY <1>5, <1>6, <2>2, <2>3, <2>4, <2>5 DEF ConsoleInv
<1>9. ASSUME t.by = "console", ~overruled'
      PROVE  ConsoleInv'
  <2>1. ~overruled /\ ~NoConsole /\ report # "done"
    BY <1>1, <1>7, <1>9 DEF ConsoleInv, DoneOK
  <2>2. /\ t.fn = "freeze" /\ ~Refused(t.fn) => frozen' = TRUE
        /\ t.fn = "unfreeze" /\ ~Refused(t.fn) => frozen' = FALSE
        /\ t.fn = "propose" /\ ~Refused(t.fn) =>
             pendRot' # NoRotation /\ pendRot'.commitment = t.policy.commitment
                                   /\ pendRot'.root = t.policy.root
        /\ t.fn = "execute" /\ ~Refused(t.fn) =>
             pendRot' = NoRotation /\ pol' = pendRot.commitment /\ root' = pendRot.root
    BY <1>1, AppliedEffects
  <2>3. ASSUME job = "rotate", fn = "execute", pc = "confirm"
        PROVE  /\ t = tx /\ target = "this" /\ StillProposed
               /\ (StillProposed \/ Rotated)'
               /\ ~Refused(t.fn) => Rotated'
    <3>1. t = tx /\ target = "this"
      BY <1>9, <2>1, <2>3 DEF ConsoleInv, RotateOK
    <3>2. tx.seq > adminSeq /\ tx.fn = "execute"
      BY <1>1, <1>3, <2>3, <3>1 DEF ConsoleInv, SeqOK, BuiltPlace
    <3>3. StillProposed
      BY <2>1, <2>3, <3>2 DEF ConsoleInv, RotateOK
    <3>4. ~Refused(t.fn) => Rotated'
      BY <1>4, <2>2, <3>1, <3>2, <3>3 DEF Rotated, StillProposed
    <3>5. Refused(t.fn) => StillProposed'
      BY <1>1, <1>4, <3>3 DEF StillProposed, vars, storage
    <3> QED
      BY <3>1, <3>3, <3>4, <3>5
  <2>4. RotateOK'
    <3>1. SUFFICES ASSUME job = "rotate"
                   PROVE  RotateOK'
      BY <1>4 DEF RotateOK
    <3>2. ~(pc \in {"readBack", "wait"}) /\ ~(fn = "execute" /\ pc \in {"account", "simulate", "send"})
      BY <2>1, <3>1 DEF ConsoleInv, RotateOK
    <3>3. pc = "confirm" => ~(tx'.seq > adminSeq')
      BY <1>1, <1>3, <1>4 DEF ConsoleInv, SeqOK, BuiltPlace
    <3> QED
      BY <1>2, <1>4, <2>1, <2>3, <3>1, <3>2, <3>3 DEF RotateOK
  <2>5. UnlockOK'
    BY <1>4, <2>1 DEF ConsoleInv, RotateOK, UnlockOK
  <2>6. TakenOK'
    <3> SUFFICES ASSUME pc \in BuiltPlace, target = "this", tx.seq <= adminSeq + 1,
                        taken'[tx.seq].tx = tx, taken'[tx.seq].outcome = "SUCCESS"
                 PROVE  Effect'
      BY <1>1, <1>4 DEF TakenOK
    <3>1. tx.seq = adminSeq + 1 /\ tx.fn = fn /\ tx.policy = want
      BY <2>1 DEF ConsoleInv, SeqOK
    <3>2. t = tx /\ ~Refused(t.fn)
      BY <1>1, <3>1, TakeSteps
    <3>3. fn = "execute" => Rotated'
      <4>1. SUFFICES ASSUME fn = "execute"
                     PROVE  Rotated'
        OBVIOUS
      <4>2. job = "rotate"
        BY <4>1 DEF ConsoleInv, JobOK
      <4>3. pc = "confirm"
        BY <2>1, <4>1, <4>2 DEF ConsoleInv, RotateOK, BuiltPlace
      <4> QED
        BY <2>3, <3>2, <4>1, <4>2, <4>3
    <3> QED
      BY <1>4, <2>2, <3>1, <3>2, <3>3 DEF Effect, StillProposed
  <2>7. DoneOK'
    BY <1>4, <2>1 DEF DoneOK, DoneIsDone
  <2> QED
    BY <1>5, <1>6, <2>4, <2>5, <2>6, <2>7 DEF ConsoleInv
<1>10. CASE overruled'
  <2>1. RotateOK' /\ UnlockOK' /\ TakenOK' /\ DoneOK'
    BY <1>10, Zenon DEF RotateOK, UnlockOK, TakenOK, DoneOK, DoneIsDone
  <2> QED
    BY <1>5, <1>6, <2>1 DEF ConsoleInv
<1> QED
  BY <1>7, <1>8, <1>9, <1>10

\* The invariant that says why the console's reports are so.
THEOREM ConsoleInvariant == ConsoleSpec => []ConsoleInv
<1>1. ConsoleInit => ConsoleInv
  BY DEF ConsoleInit, ConsoleInv, SeqOK, NoConsole, JobOK, RotateOK, UnlockOK, TakenOK, DoneOK, DoneIsDone, BuiltPlace
<1>2. TypeOK /\ ConsoleTypeOK /\ ConsoleInv /\ [ConsoleNext]_allVars => ConsoleInv'
  <2> SUFFICES ASSUME TypeOK, ConsoleTypeOK, ConsoleInv, [ConsoleNext]_allVars
               PROVE  ConsoleInv'
    OBVIOUS
  <2>1. CASE Local
    BY <2>1, ClickKeeps, BuildKeeps, SimulateKeeps, SendKeeps, ConfirmKeeps, ReadBackKeeps, WaitOverKeeps,
       RpcThrowsKeeps, SwitchKeeps DEF Local, Console
  <2>2. CASE Rivals
    BY <2>2, RivalsKeep
  <2>3. ASSUME NEW t \in pool, Take(t)
        PROVE  ConsoleInv'
    BY <2>3, TakeKeeps
  <2>4. CASE LedgerCloses
    BY <2>4, LedgerClosesKeeps
  <2>5. CASE UNCHANGED allVars
    <3>1. UNCHANGED <<vars, consoleVars, overruled, netVars>>
      BY <2>5 DEF allVars, rivalVars
    <3> QED
      BY <3>1, StutterKeeps
  <2> QED
    BY <2>1, <2>2, <2>3, <2>4, <2>5, ConsoleSteps
<1> QED
  BY <1>1, <1>2, ConsoleTypes, PTL DEF ConsoleSpec

\* What the console reports as done is done, for any delay and any number of
\* clicks, of other holders' transactions and of switches (chain.js 213-248,
\* app.js 197-219).
THEOREM ConsoleDoneIsDone == ConsoleSpec => []DoneIsDone
<1>1. ConsoleInv => DoneIsDone
  BY DEF ConsoleInv, DoneOK
<1> QED
  BY <1>1, ConsoleInvariant, PTL

\* The execution that adminRotate asks for after its wait is not refused
\* (chain.js 241-247).
THEOREM ConsoleNeverExecutesInVain == ConsoleSpec => []NeverExecutesInVain
<1>1. TypeOK /\ ConsoleInv => NeverExecutesInVain
  <2> SUFFICES ASSUME TypeOK, ConsoleInv, pc = "simulate", fn = "execute", ~overruled, ~strayed
               PROVE  ExecuteVerdict = "Ok"
    BY DEF NeverExecutesInVain
  <2>0. job = "rotate"
    BY DEF ConsoleInv, JobOK, BuiltPlace
  <2>1. pendRot # NoRotation /\ now >= pendRot.unlock_ledger
    BY <2>0 DEF ConsoleInv, RotateOK, UnlockOK, StillProposed
  <2>2. now \in Nat /\ pendRot.unlock_ledger \in Nat
    BY <2>1, BoundsAssumption DEF TypeOK, Ledger, PendingRotation
  <2> QED
    BY <2>1, <2>2 DEF ExecuteVerdict
<1> QED
  BY <1>1, ConsoleInvariant, ConsoleTypes, PTL

\* What the account promises of its policy holds under the console as well.
COROLLARY ConsoleKeepsTimelock == ConsoleSpec => PolicyChangeWasStaged
  BY ConsoleImplementsAccount, TimelockHolds
=============================================================================
