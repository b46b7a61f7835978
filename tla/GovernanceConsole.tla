------------------------- MODULE GovernanceConsole -------------------------
(***************************************************************************)
(* The browser's admin console over the account: runAdmin of web/app.js    *)
(* and adminInvoke, adminFreeze, adminUnfreeze and adminRotate of          *)
(* web/lib/chain.js.  One console, one click at a time; but a click that   *)
(* ends in NOT_FOUND leaves its transaction with the network, which may    *)
(* still take it after the next click; another holder of the admin key (a  *)
(* second tab, scripts/gov_proof.mjs) sends transactions of its own; and   *)
(* the user may make another account active while a click is going on.     *)
(* The other account has an admin key of its own: of it only what the      *)
(* console reads is modelled, and clicks are those on this account.        *)
(*                                                                         *)
(* A transaction is its sequence number, function, argument, time bound    *)
(* and maker (two of them alike have one hash and are one transaction).    *)
(***************************************************************************)
EXTENDS NulthAccount

CONSTANTS
  TxLife,     \* setTimeout(120), in ledgers
  MaxClicks,  \* bound: how often the operator clicks
  MaxRivals,  \* bound: transactions of other holders of the admin key
  MaxSwitches \* bound: how often another account is made active

ASSUME ConsoleAssumption == {TxLife, MaxClicks, MaxRivals, MaxSwitches} \subseteq Nat

VARIABLES
  pc,        \* where the console is; "idle" when admin.phase # 'running'
  job,       \* the button: what the click asked for
  want,      \* the policy the click asked to rotate to
  fn,        \* the contract function being invoked
  tx,        \* the transaction that was built for it
  unlock,    \* pending.unlock_ledger, as read back
  report,    \* what the console shows of the last click
  clicks,
  active,    \* _active: this account, or another
  target,    \* the account the invocation is for
  strayed,   \* the click has acted on another account
  overruled, \* one of another holder's that undoes the click was taken since (history)
  rivals,
  switches,
  adminSeq,  \* the admin's sequence number on the ledger
  pool,      \* transactions the network holds
  taken      \* taken[n]: the transaction with number n and its outcome

activeVars == <<active, switches>>
clickVars == <<job, want, clicks, strayed>>
localVars == <<fn, tx, unlock, target>>
consoleVars == <<pc, report, clickVars, localVars>>
rivalVars == <<overruled, rivals>>
netVars == <<adminSeq, pool, taken>>
allVars == <<vars, consoleVars, activeVars, rivalVars, netVars>>
worldVars == <<vars, activeVars, rivalVars, netVars>>

ConsoleInit ==
  /\ Init
  /\ pc = "idle" /\ job = "none" /\ want = NoValue /\ fn = "none"
  /\ tx = NoValue /\ unlock = 0 /\ report = "none" /\ clicks = 0
  /\ active = "this" /\ target = "none" /\ strayed = FALSE /\ switches = 0
  /\ overruled = FALSE /\ rivals = 0
  /\ adminSeq = 0 /\ pool = {} /\ taken = << >>

-----------------------------------------------------------------------------
(* The console.                                                            *)

\* The console shows the outcome and can be clicked again; the call's locals are gone.
Finish(outcome) ==
  /\ pc' = "idle"
  /\ report' = outcome
  /\ fn' = "none" /\ target' = "none" /\ tx' = NoValue /\ unlock' = 0

\* The call goes on at another await; which locals it sets, the action says.
GoTo(label) == pc' = label /\ UNCHANGED report

\* The buttons of account(), which are disabled while a click is going on.  Of
\* freeze and unfreeze it has the one that fits the policy that was last read,
\* which may be an old one: either may be there.
AdminScreen == IF pc = "idle" THEN {"freeze", "unfreeze", "rotate"} ELSE {}

\* The button; adminInvoke takes the account that is active.
Click(j, p) ==
  /\ j \in AdminScreen /\ active = "this"
  /\ clicks < MaxClicks
  /\ clicks' = clicks + 1
  /\ job' = j
  /\ want' = p
  /\ fn' = IF j = "rotate" THEN "propose" ELSE j
  /\ target' = active
  /\ strayed' = FALSE /\ overruled' = FALSE
  /\ pc' = "account"
  /\ report' = "none"
  /\ UNCHANGED <<vars, activeVars, rivals, netVars, tx, unlock>>

\* getAccount, and the transaction built on the sequence number it returned.
Build ==
  /\ pc = "account"
  /\ tx' = [seq |-> adminSeq + 1, fn |-> fn, policy |-> want, until |-> now + TxLife,
            by |-> "console"]
  /\ GoTo("simulate")
  /\ UNCHANGED <<worldVars, clickVars, fn, unlock, target>>

\* Of the admin's calls only execute_rotation can be refused.
Refused(f) == f = "execute" /\ ExecuteVerdict # "Ok"

Simulate ==
  /\ pc = "simulate"
  /\ \/ /\ target = "this" => ~Refused(fn)
        /\ GoTo("send") /\ UNCHANGED localVars
     \/ /\ target = "this" => Refused(fn)
        /\ Finish("error")
  /\ UNCHANGED <<worldVars, clickVars>>

\* The network has the transaction, if it can still be taken.
Sent ==
  pool' = IF target = "this" /\ tx.seq > adminSeq /\ now <= tx.until
          THEN pool \cup {tx} ELSE pool

Send ==
  /\ pc = "send"
  /\ Sent
  /\ GoTo("confirm")
  /\ UNCHANGED <<vars, activeVars, rivalVars, clickVars, localVars, adminSeq, taken>>

\* getTransaction, by hash; of another account's transaction it may be anything.
StatusesOf(t) ==
  IF target # "this" THEN {"SUCCESS", "FAILED", "NOT_FOUND"}
  ELSE IF t.seq \in DOMAIN taken /\ taken[t.seq].tx = t THEN {taken[t.seq].outcome}
  ELSE {"NOT_FOUND"}

ReturnedUnchecked(status) ==               \* mutant: propose's status is not looked at
  IF fn = "propose"
  THEN GoTo("readBack") /\ UNCHANGED localVars
  ELSE Finish(IF status = "SUCCESS" THEN "done" ELSE "error")

\* An operation of adminInvoke came back with a status.
Returned(status) ==
  IF status = "SUCCESS" /\ fn = "propose"
  THEN GoTo("readBack") /\ UNCHANGED localVars
  ELSE Finish(IF status = "SUCCESS" THEN "done" ELSE "error")

ConfirmUntilSettled ==                     \* mutant: polls without a bound
  /\ pc = "confirm"
  /\ \E status \in StatusesOf(tx) \ {"NOT_FOUND"} : Returned(status)
  /\ UNCHANGED <<worldVars, clickVars>>

\* The last poll: the transaction has a result, or 30 polls went by without one.
Confirm ==
  /\ pc = "confirm"
  /\ \E status \in StatusesOf(tx) : Returned(status)
  /\ UNCHANGED <<worldVars, clickVars>>

\* Any RPC call of the console may throw; runAdmin catches.
RpcThrows ==
  /\ pc # "idle"
  /\ UNCHANGED pool \/ (pc = "send" /\ Sent)
  /\ Finish("error")
  /\ UNCHANGED <<vars, activeVars, rivalVars, clickVars, adminSeq, taken>>

\* The pending_rotation of the account that is active now: an unlock ledger or none.
Pending ==
  IF active = "this" THEN (IF pendRot = NoRotation THEN {} ELSE {pendRot.unlock_ledger})
  ELSE now .. U32Max

\* adminRotate reads it back for the ledger to wait for.
ReadBack ==
  /\ pc = "readBack"
  /\ strayed' = (strayed \/ active # "this")
  /\ \/ /\ active = "this" => pendRot = NoRotation
        /\ Finish("error")
     \/ unlock' \in Pending /\ GoTo("wait") /\ UNCHANGED <<fn, tx, target>>
  /\ UNCHANGED <<worldVars, job, want, clicks>>

\* adminInvoke once more, of the account that is active by now.
Execute ==
  /\ fn' = "execute"
  /\ target' = active
  /\ strayed' = (strayed \/ active # "this")
  /\ GoTo("account")
  /\ UNCHANGED <<worldVars, job, want, clicks, tx, unlock>>

WaitTooShort ==                            \* mutant: waits for the ledger before
  pc = "wait" /\ now + 1 >= unlock /\ Execute

\* The loop over getLatestLedger is over.
WaitOver == pc = "wait" /\ now > unlock /\ Execute

\* The console goes on.
Console ==
  \/ Build
  \/ Simulate
  \/ Send
  \/ Confirm
  \/ ReadBack
  \/ WaitOver

\* switchAccount, while the console is at work or not.
Switch ==
  /\ switches < MaxSwitches
  /\ switches' = switches + 1
  /\ active' = IF active = "this" THEN "other" ELSE "this"
  /\ UNCHANGED <<vars, consoleVars, rivalVars, netVars>>

-----------------------------------------------------------------------------
(* The network.  It drops a transaction that it can take no more; one that *)
(* it loses is one that it never takes.                                    *)

\* Another holder of the admin key sends a transaction.
Rival(f, p) ==
  /\ rivals < MaxRivals
  /\ rivals' = rivals + 1
  /\ pool' = pool \cup {[seq |-> adminSeq + 1, fn |-> f, policy |-> p, until |-> now + TxLife,
                          by |-> "rival"]}
  /\ UNCHANGED <<vars, consoleVars, activeVars, overruled, adminSeq, taken>>

\* What the contract does with an admin call.
Applied(t) ==
  CASE t.fn = "freeze"   -> Freeze(conf.admin)
    [] t.fn = "unfreeze" -> Unfreeze(conf.admin)
    [] t.fn = "propose"  -> ProposeRotation(conf.admin, t.policy.commitment, t.policy.root)
    [] t.fn = "execute"  -> ExecuteRotation(conf.admin)

\* The calls of another holder that undo what a button is for, or do it first.
Rivalling ==
  [none |-> {}, freeze |-> {"unfreeze"}, unfreeze |-> {"freeze"}, rotate |-> {"propose", "execute"}]

Overrules(t) == t.by = "rival" /\ t.fn \in Rivalling[job]

Take(t) ==
  /\ t \in pool
  /\ t.seq = adminSeq + 1
  /\ adminSeq' = t.seq
  /\ pool' = {u \in pool : u.seq > t.seq}
  /\ overruled' = (overruled \/ Overrules(t))
  /\ IF Refused(t.fn)
     THEN taken' = Append(taken, [tx |-> t, outcome |-> "FAILED"]) /\ UNCHANGED vars
     ELSE taken' = Append(taken, [tx |-> t, outcome |-> "SUCCESS"]) /\ Applied(t)
  /\ UNCHANGED <<consoleVars, activeVars, rivals>>

LedgerCloses ==
  /\ CloseLedger
  /\ pool' = {t \in pool : now' <= t.until}
  /\ UNCHANGED <<consoleVars, activeVars, rivalVars, adminSeq, taken>>

ConsoleNext ==
  \/ \E j \in {"freeze", "unfreeze"} : Click(j, NoValue)
  \/ \E p \in Proposals : Click("rotate", p)
  \/ Console
  \/ RpcThrows
  \/ Switch
  \/ \E f \in {"freeze", "unfreeze", "execute"} : Rival(f, NoValue)
  \/ \E p \in Proposals : Rival("propose", p)
  \/ \E t \in pool : Take(t)
  \/ LedgerCloses

\* Ledgers close, and an await of the console returns or throws; a loop that
\* waits for a ledger is not rescued by an RPC call that might throw.
ConsoleSpec ==
  /\ ConsoleInit /\ [][ConsoleNext]_allVars
  /\ WF_allVars(LedgerCloses)
  /\ WF_allVars(Console)

-----------------------------------------------------------------------------
(* Properties                                                              *)

\* The active policy is the one the click asked for; or its proposal is pending.
Rotated == pol = want.commitment /\ root = want.root /\ pendRot = NoRotation
StillProposed ==
  pendRot # NoRotation /\ pendRot.commitment = want.commitment /\ pendRot.root = want.root

\* What the console reports as done is done to the account it was clicked for, and
\* stays so until the next click, although transactions of earlier clicks, reported
\* NOT_FOUND, may still be with the network (they were built on a number that is now
\* taken), and other holders of the key freeze what is being rotated, or rotate what
\* is being frozen.  A rotation that was reported while the user had gone to another
\* account may have executed that one's (chain.js 214, 240): then the proposal is
\* still pending here, neither lost nor replaced by the other account's.
DoneIsDone ==
  report = "done" /\ ~overruled =>
    /\ job = "freeze" => frozen
    /\ job = "unfreeze" => ~frozen
    /\ job = "rotate" => Rotated \/ (strayed /\ StillProposed)

\* adminRotate waits long enough: the execution it then asks for is not refused
\* with RotationLocked, nor with NoPendingRotation (chain.js 235-248), also when
\* another holder has frozen or unfrozen the account while it waited.
NeverExecutesInVain ==
  pc = "simulate" /\ fn = "execute" /\ ~overruled /\ ~strayed => ExecuteVerdict = "Ok"

\* A click comes back, also a rotation's, whose loop over getLatestLedger has no
\* bound (chain.js 242-246): it ends because ledgers close, unless the unlock
\* ledger has saturated at u32::MAX, which no ledger exceeds.
ConsoleComesBack ==
  pc # "idle" ~> pc = "idle" \/ (pc = "wait" /\ unlock = U32Max)
=============================================================================
