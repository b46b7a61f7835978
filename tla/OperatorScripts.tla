-------------------------- MODULE OperatorScripts --------------------------
(***************************************************************************)
(* Three scripts of the operator that send one transaction after another:  *)
(* gov_proof.mjs freezes and rotates a live account and attempts a payment  *)
(* after each, gov_rotate_cycle.mjs rotates away and back with retries and *)
(* a finally block, and create_user.mjs makes, funds and uses an account.   *)
(* They sign with several keys, over a network that may lose transactions  *)
(* and through an RPC node that may throw at any call.                     *)
(*                                                                         *)
(* The governance scripts call rotate_policy, which the contract they were *)
(* written for exports and lib.rs does not; Builds holds what the account   *)
(* they are run against may export.                                        *)
(***************************************************************************)
EXTENDS Integers, Sequences, FiniteSets

CONSTANTS
  Scripts,   \* the scripts that are run, of "proof", "cycle" and "create"
  Builds,    \* what the account may export of the admin's functions
  Retries,   \* n of retry: 4
  NoTx

ASSUME ScriptAssumption ==
  /\ Scripts \subseteq {"proof", "cycle", "create"}
  /\ Retries \in Nat \ {0}

VARIABLES
  script, exports,
  pc,        \* the step that runs, and where in it
  stage,
  attempts,  \* of the step so far
  read,      \* the sequence number that was read for it
  status,    \* what the network says of the transaction that is awaited
  raising,   \* the finally block runs because of a throw
  ended,     \* "running", "done" or "threw"
  steps,     \* out.steps: the status each step was logged with
  acct,      \* what the ledger has of the account
  numbers,   \* sequence numbers
  inflight   \* the transaction of each key that the network holds

scriptLocals == <<pc, stage, attempts, read, status, raising, ended, steps>>
chainVars == <<acct, numbers, inflight>>
scriptVars == <<script, exports, scriptLocals, chainVars>>

Signer == {"admin", "op", "payee"}

\* What the steps of a script do: reads, payments that carry a proof for the
\* real policy, and calls of the admin.  The second step of gov_proof tries to
\* freeze the account without the admin's signature.
Reads == [signer |-> "op", does |-> "read"]
Pay == [signer |-> "op", does |-> "pay"]
Steal == [signer |-> "op", does |-> "steal"]
Admin(fn) == [signer |-> "admin", does |-> fn]

GovProof ==
  <<Reads, Steal, Admin("freeze"), Pay, Admin("unfreeze"),
    Admin("bogus"), Pay, Admin("real"), Pay, Reads>>

GovRotateCycle == <<Reads, Admin("bogus"), Pay, Admin("real"), Pay, Reads>>

\* The new user is the admin of the new account, and pays the fee of its first
\* payment; the operator funds it.
CreateUser ==
  <<[signer |-> "payee", does |-> "trust"], Admin("deploy"), Reads,
    [signer |-> "op", does |-> "fund"], Reads, Admin("pay"), Reads>>

StepsOf == [proof |-> GovProof, cycle |-> GovRotateCycle, create |-> CreateUser]
StepOf(i) == StepsOf[script][i]
Length == Len(StepsOf[script])
Here == StepOf(pc)

\* The steps inside try, and the one in finally, of gov_rotate_cycle.
Guarded == IF script = "cycle" THEN {2, 3} ELSE {}
Finally == 4

\* The steps that retry wraps: adminInvoke and attemptPayment of
\* gov_rotate_cycle, submitClassic and submit of create_user.
Retried ==
  \/ script = "cycle" /\ Here.does # "read"
  \/ script = "create" /\ Here.does \in {"trust", "deploy", "fund"}

ScriptInit ==
  /\ script \in Scripts
  /\ exports \in Builds
  /\ pc = 1 /\ stage = "call" /\ attempts = 1 /\ read = 0 /\ status = "NOT_FOUND"
  /\ raising = FALSE /\ ended = "running"
  /\ steps = [i \in 1 .. Length |-> "none"]
  /\ acct = [frozen |-> FALSE, policy |-> "real",
             has |-> IF script = "create" THEN {} ELSE {"deploy", "trust", "fund"}]
  /\ numbers = [k \in Signer |-> 0]
  /\ inflight = [k \in Signer |-> NoTx]

-----------------------------------------------------------------------------
(* The scripts.                                                            *)

\* The next step starts, or the script is over.
Finish(how) ==
  /\ steps' = [steps EXCEPT ![pc] = how]
  /\ IF raising THEN ended' = "threw" /\ UNCHANGED pc
     ELSE IF pc = Length THEN ended' = "done" /\ UNCHANGED pc
     ELSE pc' = pc + 1 /\ UNCHANGED ended
  /\ stage' = "call" /\ attempts' = 1
  /\ UNCHANGED raising

RaiseAsFailure == Finish("FAILED")         \* mutant: what throws is logged as a failed call

\* A call throws: retry, then the finally block, then the end.
Raise ==
  IF Retried /\ attempts < Retries
  THEN attempts' = attempts + 1 /\ stage' = "call" /\ UNCHANGED <<pc, raising, ended, steps>>
  ELSE IF pc \in Guarded
  THEN /\ pc' = Finally /\ raising' = TRUE /\ attempts' = 1 /\ stage' = "call"
       /\ UNCHANGED <<ended, steps>>
  ELSE ended' = "threw" /\ UNCHANGED <<pc, stage, attempts, raising, steps>>

\* captureValidFootprint, chk and the balances.
ReadStep ==
  /\ stage = "call" /\ Here.does = "read"
  /\ IF "deploy" \in acct.has THEN Finish("read") ELSE Raise
  /\ UNCHANGED <<read, status, chainVars>>

\* What a payment, and the other calls, need to succeed.  Only the admin can
\* freeze; an address is deployed to once.
Succeeds(does) ==
  /\ does = "pay" =>
       acct.has = {"deploy", "trust", "fund"} /\ ~acct.frozen /\ acct.policy = "real"
  /\ does = "deploy" => does \notin acct.has
  /\ does \in {"bogus", "real"} => "rotate_policy" \in exports
  /\ does # "steal"

\* The simulation is an error that the script throws.  attemptPayment and
\* nonAdminFreeze go on whatever theirs says; changeTrust is not simulated.
Rejects(step) ==
  /\ step.does # "trust" /\ ~Succeeds(step.does)
  /\ script = "create" \/ step.signer = "admin"

\* getAccount and the simulation.
BuildCall ==
  /\ stage = "call" /\ Here.does # "read"
  /\ IF Rejects(Here)
     THEN Raise /\ UNCHANGED read
     ELSE /\ read' = numbers[Here.signer]
          /\ stage' = "send"
          /\ UNCHANGED <<pc, attempts, raising, ended, steps>>
  /\ UNCHANGED <<status, chainVars>>

\* The network takes one transaction per key, with the next sequence number.
Accepted ==
  IF inflight[Here.signer] = NoTx /\ read = numbers[Here.signer]
  THEN [inflight EXCEPT ![Here.signer] = [does |-> Here.does, pc |-> pc, try |-> attempts]]
  ELSE inflight

\* sendTransaction; the status it answers is not looked at.
SendCall ==
  /\ stage = "send"
  /\ inflight' = Accepted
  /\ stage' = "settle" /\ status' = "NOT_FOUND"
  /\ UNCHANGED <<pc, attempts, read, raising, ended, steps, acct, numbers>>

SettleOptimistic ==                        \* mutant: what was sent is taken to be applied
  /\ stage = "settle"
  /\ Finish("SUCCESS")
  /\ UNCHANGED <<read, status, chainVars>>

\* settle: the status, or NOT_FOUND when thirty polls are over.
Settle ==
  /\ stage = "settle"
  /\ Finish(status)
  /\ UNCHANGED <<read, status, chainVars>>

\* The RPC node throws: at a read or a simulation, at the send, which may have
\* gone through, or at a poll, unless the script catches that.  nonAdminFreeze
\* catches all but its first calls.
RpcThrows ==
  /\ \/ stage = "call" /\ Raise /\ UNCHANGED inflight
     \/ /\ stage = "send" /\ inflight' \in {inflight, Accepted}
        /\ IF Here.does = "steal" THEN Finish("none") ELSE Raise
     \/ /\ stage = "settle" /\ script = "proof" /\ UNCHANGED inflight
        /\ IF Here.does = "steal" THEN Finish("none") ELSE Raise
  /\ UNCHANGED <<read, status, acct, numbers>>

ScriptStep ==
  /\ ended = "running"
  /\ ReadStep \/ BuildCall \/ SendCall \/ Settle \/ RpcThrows
  /\ UNCHANGED <<script, exports>>

-----------------------------------------------------------------------------
(* The network.                                                            *)

After(does) ==
  [frozen |-> IF does \in {"freeze", "unfreeze"} THEN does = "freeze" ELSE acct.frozen,
   policy |-> IF does \in {"bogus", "real"} THEN does ELSE acct.policy,
   has |-> IF does \in {"deploy", "trust", "fund"} THEN acct.has \cup {does} ELSE acct.has]

TakeTx(k) ==
  /\ inflight[k] # NoTx
  /\ LET call == inflight[k]
         how == IF Succeeds(call.does) THEN "SUCCESS" ELSE "FAILED"
     IN  /\ acct' = IF how = "SUCCESS" THEN After(call.does) ELSE acct
         /\ status' = IF stage = "settle" /\ call.pc = pc /\ call.try = attempts THEN how ELSE status
  /\ numbers' = [numbers EXCEPT ![k] = @ + 1]
  /\ inflight' = [inflight EXCEPT ![k] = NoTx]
  /\ UNCHANGED <<script, exports, pc, stage, attempts, read, raising, ended, steps>>

\* A transaction that is not taken within its 120 s is dropped.
LoseTx(k) ==
  /\ inflight[k] # NoTx
  /\ inflight' = [inflight EXCEPT ![k] = NoTx]
  /\ UNCHANGED <<script, exports, scriptLocals, acct, numbers>>

ScriptNext == ScriptStep \/ \E k \in Signer : TakeTx(k) \/ LoseTx(k)

ScriptSpec == ScriptInit /\ [][ScriptNext]_scriptVars

-----------------------------------------------------------------------------
(* Properties                                                              *)

\* The part of the account's state that a call is about, and whether it is as
\* the call leaves it.
About(does) ==
  IF does \in {"freeze", "unfreeze"} THEN "frozen"
  ELSE IF does \in {"bogus", "real"} THEN "policy" ELSE does

Holds(does) ==
  CASE About(does) = "frozen" -> acct.frozen = (does = "freeze")
    [] About(does) = "policy" -> acct.policy = does
    [] does \in {"deploy", "trust", "fund"} -> does \in acct.has
    [] OTHER -> TRUE

Admins(i) == StepOf(i).does \notin {"read", "pay", "steal"}

\* A governance call, a deployment or a funding that was logged as SUCCESS says
\* how the account is from then on, until a later step is about the same thing:
\* no earlier transaction that was given up, or sent by an attempt that threw,
\* overtakes it.
LastWordHolds ==
  \A i \in 1 .. Length :
    /\ Admins(i) /\ steps[i] = "SUCCESS"
    /\ \A j \in i + 1 .. Length :
         Admins(j) /\ About(StepOf(j).does) = About(StepOf(i).does) => steps[j] = "none" /\ j > pc
    => Holds(StepOf(i).does)

\* The evidence is sound: when the calls before a payment all succeeded, a
\* payment that landed was rejected exactly when the last of them froze the
\* account or rotated its policy away.
EvidenceIsSound ==
  \A i \in 1 .. Length :
    /\ StepOf(i).does = "pay" /\ steps[i] \in {"SUCCESS", "FAILED"}
    /\ \A j \in 1 .. i - 1 : Admins(j) => steps[j] = "SUCCESS"
    => (steps[i] = "FAILED" <=> StepOf(i - 1).does \in {"freeze", "bogus"})
=============================================================================
