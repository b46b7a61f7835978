------------------------------- MODULE Relay -------------------------------
(***************************************************************************)
(* POST /api/relay of server.mjs (and its copy in worker.mjs) over the     *)
(* Soroban host: concurrent handlers that share one fee payer.  Each reads *)
(* the fee payer's sequence number, simulates, signs and sends a transfer  *)
(* that carries the client's auth entry, then polls for its result.        *)
(*                                                                         *)
(* The network holds sent transactions in a pool, takes one whose sequence *)
(* number is next, and may lose any.  An RPC call may throw, also after it *)
(* did its work.  /api/attack shares the fee payer; it simulates a valid   *)
(* transfer only to borrow its footprint, and submits whatever the         *)
(* simulation of its own says.                                             *)
(***************************************************************************)
EXTENDS PaymentHost

CONSTANTS
  Request,     \* HTTP requests
  Bodies,      \* what a request may ask for
  UsdcSac,     \* USDC_SAC, the only token the relayer builds transfers of
  MaxPolls,    \* polls of settle (30, or 20 in the worker)
  TxLife       \* setTimeout(120), in ledgers

Body ==
  [attack : BOOLEAN, to : Address, amount : Int, entry : Entries]

ASSUME RelayAssumption ==
  /\ Bodies \subseteq Body
  /\ \A e \in Entries : e.contexts \in CallLists
  /\ UsdcSac \in Asset
  /\ MaxPolls \in Nat \ {0}
  /\ TxLife \in Nat

Answer == {"400", "422", "500", "502", "SUCCESS", "FAILED", "NOT_FOUND", "UNKNOWN"}

VARIABLES
  pc,       \* where each handler is
  body,     \* the body of each request, once received
  seqOf,    \* the sequence number its transaction was built with
  until,    \* the last ledger its transaction is valid in
  polls,    \* polls of settle so far
  seen,     \* f.status of settle, or "UNKNOWN" before a poll returned
  answer,   \* what the client was told, or "none"
  told,     \* history variable: the ledger in which it was told
  seqNum,   \* the fee payer's sequence number on the ledger
  pool,     \* requests whose transaction the network holds
  result    \* what the ledger says of the transaction: what getTransaction returns

answerVars == <<answer, told>>
handlerVars == <<pc, body, seqOf, until, polls, seen, answerVars>>
chainVars == <<seqNum, pool, result>>
relayVars == <<vars, hostVars, handlerVars, chainVars>>

\* The operation the relayer builds from the body.
CallsOf(r) ==
  << [kind |-> "Contract", contract |-> UsdcSac, fn |-> "transfer", from |-> Self,
      to |-> body[r].to, amount |-> body[r].amount] >>

RelayInit ==
  /\ HostInit
  /\ pc = [r \in Request |-> "idle"]
  /\ body = [r \in Request |-> NoValue]
  /\ seqOf = [r \in Request |-> 0]
  /\ until = [r \in Request |-> 0]
  /\ polls = [r \in Request |-> 0]
  /\ seen = [r \in Request |-> "UNKNOWN"]
  /\ answer = [r \in Request |-> "none"]
  /\ told = [r \in Request |-> 0]
  /\ seqNum = 0
  /\ pool = {}
  /\ result = [r \in Request |-> "NOT_FOUND"]

-----------------------------------------------------------------------------
(* The handler.  Every step but the first ends in an await.                *)

GoTo(r, label) == pc' = [pc EXCEPT ![r] = label]

Reply(r, a) ==
  /\ GoTo(r, "done")
  /\ answer' = [answer EXCEPT ![r] = a]
  /\ told' = [told EXCEPT ![r] = now]

Passes(r) ==
  /\ EntryVerdict(CallsOf(r), body[r].entry) = "Ok"
  /\ Payable(CallsOf(r)[1])

Receive(r, b) ==
  /\ pc[r] = "idle"
  /\ body' = [body EXCEPT ![r] = b]
  /\ IF b.amount <= 0 \/ b.amount >= AmountLimit
     THEN Reply(r, "400")
     ELSE GoTo(r, IF b.attack THEN "footprint" ELSE "getAccount") /\ UNCHANGED answerVars
  /\ UNCHANGED <<vars, hostVars, chainVars, seqOf, until, polls, seen>>

\* An attack's footprint comes from an unsigned transfer of the same amount,
\* which the simulation authorizes by itself: only the money must be there.
Footprint(r) ==
  /\ pc[r] = "footprint"
  /\ IF Payable(CallsOf(r)[1])
     THEN GoTo(r, "getAccount") /\ UNCHANGED answerVars
     ELSE Reply(r, "502")
  /\ UNCHANGED <<vars, hostVars, chainVars, body, seqOf, until, polls, seen>>

GetAccountUntimed(r) ==                    \* mutant: the transaction is given no timeout
  /\ pc[r] = "getAccount"
  /\ seqOf' = [seqOf EXCEPT ![r] = seqNum + 1]
  /\ until' = [until EXCEPT ![r] = U32Max]
  /\ GoTo(r, IF body[r].attack THEN "send" ELSE "simulate")
  /\ UNCHANGED <<vars, hostVars, chainVars, body, polls, seen, answerVars>>

GetAccount(r) ==
  /\ pc[r] = "getAccount"
  /\ seqOf' = [seqOf EXCEPT ![r] = seqNum + 1]
  /\ until' = [until EXCEPT ![r] = now + TxLife]
  /\ GoTo(r, IF body[r].attack THEN "send" ELSE "simulate")
  /\ UNCHANGED <<vars, hostVars, chainVars, body, polls, seen, answerVars>>

Simulate(r) ==
  /\ pc[r] = "simulate"
  /\ IF Passes(r)
     THEN GoTo(r, "send") /\ UNCHANGED answerVars
     ELSE Reply(r, "422")
  /\ UNCHANGED <<vars, hostVars, chainVars, body, seqOf, until, polls, seen>>

\* sendTransaction returns a hash whether or not the network took the
\* transaction; the handler does not look at its status.
Send(r) ==
  /\ pc[r] = "send"
  /\ pool' \in {pool, pool \cup {r}}
  /\ GoTo(r, "settle")
  /\ UNCHANGED <<vars, hostVars, body, seqOf, until, polls, seen, answerVars, seqNum, result>>

\* An RPC call throws before settle: the handler answers 500.  The
\* transaction may have been taken all the same.
RpcThrows(r) ==
  /\ pc[r] \in {"footprint", "getAccount", "simulate", "send"}
  /\ pool' \in IF pc[r] = "send" THEN {pool, pool \cup {r}} ELSE {pool}
  /\ Reply(r, "500")
  /\ UNCHANGED <<vars, hostVars, body, seqOf, until, polls, seen, seqNum, result>>

PollUncounted(r) ==                        \* mutant: polls go on while there is no result
  /\ pc[r] = "settle"
  /\ seen' = [seen EXCEPT ![r] = result[r]]
  /\ IF result[r] = "NOT_FOUND" THEN UNCHANGED pc ELSE GoTo(r, "reply")
  /\ UNCHANGED <<vars, hostVars, chainVars, body, seqOf, until, polls, answerVars>>

\* One poll of settle; getTransaction may throw, which settle ignores.
Poll(r) ==
  /\ pc[r] = "settle"
  /\ polls[r] < MaxPolls
  /\ polls' = [polls EXCEPT ![r] = @ + 1]
  /\ \/ UNCHANGED <<pc, seen>>
     \/ /\ seen' = [seen EXCEPT ![r] = result[r]]
        /\ IF result[r] = "NOT_FOUND" THEN UNCHANGED pc ELSE GoTo(r, "reply")
  /\ UNCHANGED <<vars, hostVars, chainVars, body, seqOf, until, answerVars>>

ReplyOptimistic(r) ==                      \* mutant: what passed simulation has succeeded
  /\ pc[r] = "reply" \/ (pc[r] = "settle" /\ polls[r] = MaxPolls)
  /\ Reply(r, IF seen[r] = "NOT_FOUND" THEN "SUCCESS" ELSE seen[r])
  /\ UNCHANGED <<vars, hostVars, chainVars, body, seqOf, until, polls, seen>>

\* settle returned a final status, or ran out of polls.
ReplySettled(r) ==
  /\ pc[r] = "reply" \/ (pc[r] = "settle" /\ polls[r] = MaxPolls)
  /\ Reply(r, seen[r])
  /\ UNCHANGED <<vars, hostVars, chainVars, body, seqOf, until, polls, seen>>

\* A handler whose request has arrived takes its next step.
Handler(r) ==
  \/ Footprint(r)
  \/ GetAccount(r)
  \/ Simulate(r)
  \/ Send(r)
  \/ RpcThrows(r)
  \/ Poll(r)
  \/ ReplySettled(r)

-----------------------------------------------------------------------------
(* The network.                                                            *)

Take(r) ==
  /\ r \in pool
  /\ seqOf[r] = seqNum + 1
  /\ now <= until[r]
  /\ seqNum' = seqNum + 1
  /\ pool' = pool \ {r}
  /\ IF Passes(r)
     THEN /\ Submit(CallsOf(r), body[r].entry)
          /\ result' = [result EXCEPT ![r] = "SUCCESS"]
     ELSE /\ result' = [result EXCEPT ![r] = "FAILED"]
          /\ UNCHANGED <<vars, hostVars>>
  /\ UNCHANGED handlerVars

Lose(r) ==
  /\ r \in pool
  /\ pool' = pool \ {r}
  /\ UNCHANGED <<vars, hostVars, handlerVars, seqNum, result>>

Network ==
  \/ World /\ UNCHANGED <<handlerVars, chainVars>>
  \/ \E r \in Request : Take(r) \/ Lose(r)

RelayNext ==
  \/ Network
  \/ \E r \in Request, b \in Bodies : Receive(r, b)
  \/ \E r \in Request : Handler(r)

\* The event loop runs a handler whose await has returned, and every await of
\* a handler returns or throws.  Nothing is assumed of clients or the network.
RelayFairness == \A r \in Request : WF_relayVars(Handler(r))

RelaySpec == RelayInit /\ [][RelayNext]_relayVars /\ RelayFairness

-----------------------------------------------------------------------------
(* Properties                                                              *)

\* A definite answer is what the ledger says, now and for good: SUCCESS and
\* FAILED are the result of this request's own transaction, and a refusal (400,
\* 422, 502) means that none was, or will be, sent.
AnswersAreTrue ==
  \A r \in Request :
    /\ answer[r] \in {"SUCCESS", "FAILED"} => result[r] = answer[r]
    /\ answer[r] \in {"400", "422", "502"} => result[r] = "NOT_FOUND" /\ r \notin pool

\* A client that repeats a request (its answer was lost, or was NOT_FOUND) pays
\* once: of all transactions that carry one auth entry, at most one succeeds.
OneSuccessPerEntry ==
  \A r, s \in Request :
    r # s /\ pc[r] # "idle" /\ pc[s] # "idle" /\ body[r].entry = body[s].entry =>
      ~(result[r] = "SUCCESS" /\ result[s] = "SUCCESS")

\* A client may be told 500, NOT_FOUND or UNKNOWN and its transfer settle behind
\* its back, but only while the transaction is valid (setTimeout, server.mjs 125):
\* TxLife ledgers after the answer, what the ledger says of the request is final,
\* and one that looks then, or repeats the request then, knows what it has paid.
FinalInTime ==
  [][\A r \in Request :
       answer[r] # "none" /\ result'[r] # result[r] =>
         answer[r] \in {"500", "NOT_FOUND", "UNKNOWN"} /\ now <= told[r] + TxLife
    ]_relayVars

\* "Attacks always fail (no valid proof), so re-submitting can never move funds"
\* (app.js 184): also past the simulation, and among payments that are valid.
NoProofNoMoney ==
  \A r \in Request :
    pc[r] # "idle" /\ ~body[r].entry.sig.genuine => result[r] # "SUCCESS"

\* Every request is answered, whatever the network and the RPC node do.
EveryRequestAnswered ==
  \A r \in Request : pc[r] # "idle" ~> pc[r] = "done"
=============================================================================
