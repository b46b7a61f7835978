----------------------------- MODULE DemoFloat -----------------------------
(***************************************************************************)
(* Money that classic keys move: the server's sweep of what the demo       *)
(* account paid out (sweepDemo), the same by hand (reseed_demo.mjs), and   *)
(* the seeding of new accounts by the browser (seedUsdc, runSeed) and by   *)
(* create_user.mjs, which retries.  They share keys, hence sequence        *)
(* numbers, and none knows of the others.                                  *)
(***************************************************************************)
EXTENDS Integers, FiniteSets

CONSTANTS
  SweepMin,    \* SWEEP_MIN, from which the payee's balance is recycled
  SeedAmount,  \* what a new account is given
  Tries,       \* attempts of each job: 4 for create_user, 1 for the others
  Funds,       \* what each owner holds at the beginning
  MaxStarts    \* bound: how often a job is started

Job == {"sweep", "reseed", "seed", "create"}
Sweeps(j) == j \in {"sweep", "reseed"}
Owner == {"payee", "operator", "demo"}

\* The key a job signs with, which is also the owner of what it sends.
KeyOf(j) == IF Sweeps(j) THEN "payee" ELSE "operator"

ASSUME FloatAssumption ==
  /\ {SweepMin, SeedAmount} \subseteq Nat \ {0}
  /\ Tries \in [Job -> Nat \ {0}]
  /\ Funds \in [Owner -> Nat]
  /\ MaxStarts \in Nat

VARIABLES
  step,      \* where each job is
  amount,    \* what it is going to send
  tx,        \* the transaction it built
  tries,     \* attempts left
  starts,    \* how often it was started
  sweeping,  \* the server's flag
  held,      \* USDC of each owner
  number,    \* sequence number of each key
  pool,      \* transactions the network holds
  results,   \* outcome of the transactions the ledger has taken
  applied,   \* transfers of each job that were made
  doubts     \* its attempts that ended without an outcome

jobVars == <<step, amount, tx, tries, starts, sweeping, doubts>>
ledgerVars == <<held, number, results, applied>>
floatVars == <<jobVars, ledgerVars, pool>>

FloatInit ==
  /\ step = [j \in Job |-> "idle"]
  /\ amount = [j \in Job |-> 0]
  /\ tx = [j \in Job |-> {}]
  /\ tries = [j \in Job |-> 0]
  /\ starts = [j \in Job |-> 0]
  /\ sweeping = FALSE
  /\ held = Funds
  /\ number = [k \in {"payee", "operator"} |-> 0]
  /\ pool = {} /\ results = {}
  /\ applied = [j \in Job |-> 0]
  /\ doubts = [j \in Job |-> 0]

GoTo(j, s) == step' = [step EXCEPT ![j] = s]

\* A job is over; sweepDemo's finally clears the flag on every way out.
Over(j) ==
  /\ GoTo(j, "idle")
  /\ tx' = [tx EXCEPT ![j] = {}]
  /\ amount' = [amount EXCEPT ![j] = 0]
  /\ tries' = [tries EXCEPT ![j] = 0]
  /\ sweeping' = IF j = "sweep" THEN FALSE ELSE sweeping

\* The timer fires, a script is run, or the button is clicked.
StartJob(j) ==
  /\ step[j] = "idle"
  /\ starts["sweep"] + starts["reseed"] + starts["seed"] + starts["create"] < MaxStarts
  /\ starts' = [starts EXCEPT ![j] = @ + 1]
  /\ tries' = [tries EXCEPT ![j] = Tries[j]]
  /\ j = "sweep" => ~sweeping
  /\ sweeping' = (sweeping \/ j = "sweep")
  /\ amount' = [amount EXCEPT ![j] = SeedAmount]
  /\ GoTo(j, IF Sweeps(j) THEN "balance" ELSE "account")
  /\ UNCHANGED <<tx, doubts, ledgerVars, pool>>

\* What the token holds of an owner (balanceOf, in the script).
sacBalance(owner) == held[owner]

ReadBalanceReturning(j) ==                 \* mutant: returns without clearing the flag
  /\ step[j] = "balance"
  /\ GoTo(j, IF held["payee"] < (IF j = "sweep" THEN SweepMin ELSE 1) THEN "returned"
             ELSE "account")
  /\ amount' = [amount EXCEPT ![j] = held["payee"]]
  /\ UNCHANGED <<tx, tries, starts, sweeping, doubts, ledgerVars, pool>>

\* The payee's whole balance, if it is worth sending.
ReadBalance(j) ==
  /\ step[j] = "balance"
  /\ IF sacBalance("payee") < (IF j = "sweep" THEN SweepMin ELSE 1)
     THEN Over(j)
     ELSE /\ GoTo(j, "account")
          /\ amount' = [amount EXCEPT ![j] = sacBalance("payee")]
          /\ UNCHANGED <<tx, tries, sweeping>>
  /\ UNCHANGED <<starts, doubts, ledgerVars, pool>>

\* getAccount, and the transaction built on its sequence number.
Build(j) ==
  /\ step[j] = "account"
  /\ tx' = [tx EXCEPT ![j] = {[job |-> j, key |-> KeyOf(j), number |-> number[KeyOf(j)] + 1,
                               amount |-> amount[j], try |-> <<starts[j], tries[j]>>]}]
  /\ GoTo(j, "simulate")
  /\ UNCHANGED <<amount, tries, starts, sweeping, doubts, ledgerVars, pool>>

\* An attempt ended with an exception: retry starts it again, if any are left.
Throws(j) ==
  IF tries[j] > 1
  THEN /\ GoTo(j, "account")
       /\ tries' = [tries EXCEPT ![j] = @ - 1]
       /\ UNCHANGED <<amount, tx, sweeping>>
  ELSE Over(j)

SimulateNothing(j) ==                      \* mutant: the simulation's error is not looked at
  /\ step[j] = "simulate"
  /\ GoTo(j, "send")
  /\ UNCHANGED <<amount, tx, tries, starts, sweeping, doubts, ledgerVars, pool>>

Simulate(j) ==
  /\ step[j] = "simulate"
  /\ IF held[KeyOf(j)] >= amount[j]
     THEN GoTo(j, "send") /\ UNCHANGED <<amount, tx, tries, sweeping>>
     ELSE Throws(j)
  /\ UNCHANGED <<starts, doubts, ledgerVars, pool>>

\* The sweep does not wait for its transaction.
Send(j) ==
  /\ step[j] = "send"
  /\ pool' \in {pool, pool \cup tx[j]}
  /\ IF j = "sweep"
     THEN Over(j) /\ doubts' = [doubts EXCEPT ![j] = @ + 1]
     ELSE GoTo(j, "poll") /\ UNCHANGED <<amount, tx, tries, sweeping, doubts>>
  /\ UNCHANGED <<starts, ledgerVars>>

\* sendTransaction throws, whether or not the network has it.
SendThrows(j) ==
  /\ step[j] = "send"
  /\ pool' \in {pool, pool \cup tx[j]}
  /\ doubts' = [doubts EXCEPT ![j] = @ + 1]
  /\ Throws(j)
  /\ UNCHANGED <<starts, ledgerVars>>

\* Any call before it throws.
ReadThrows(j) ==
  /\ step[j] \in {"balance", "account", "simulate"}
  /\ Throws(j)
  /\ UNCHANGED <<starts, doubts, ledgerVars, pool>>

Taken(j) == \E o \in results : o.tx \in tx[j]

PollRetries(j) ==                          \* mutant: the loop goes on after an outcome
  /\ step[j] = "poll"
  /\ doubts' = IF Taken(j) THEN doubts ELSE [doubts EXCEPT ![j] = @ + 1]
  /\ Throws(j)
  /\ UNCHANGED <<starts, ledgerVars, pool>>

\* The last poll, with an outcome or without one.  create_user's settle does
\* not throw, and what it returns is not looked at.
Poll(j) ==
  /\ step[j] = "poll"
  /\ doubts' = IF Taken(j) THEN doubts ELSE [doubts EXCEPT ![j] = @ + 1]
  /\ Over(j)
  /\ UNCHANGED <<starts, ledgerVars, pool>>

JobStep(j) ==
  ReadBalance(j) \/ Build(j) \/ Simulate(j) \/ Send(j) \/ SendThrows(j) \/ ReadThrows(j) \/ Poll(j)

-----------------------------------------------------------------------------
(* The network.                                                            *)

\* A payment of the demo account to its payee, through the relayer.
Payout ==
  /\ held["demo"] > 0
  /\ held' = [held EXCEPT !["demo"] = @ - 1, !["payee"] = @ + 1]
  /\ UNCHANGED <<jobVars, number, results, applied, pool>>

Take(t) ==
  /\ t \in pool
  /\ t.number = number[t.key] + 1
  /\ number' = [number EXCEPT ![t.key] = @ + 1]
  /\ pool' = pool \ {t}
  /\ IF held[t.key] >= t.amount
     THEN /\ held' = [held EXCEPT ![t.key] = @ - t.amount,
                                  !["demo"] = IF t.key = "payee" THEN @ + t.amount ELSE @]
          /\ applied' = [applied EXCEPT ![t.job] = @ + 1]
          /\ results' = results \cup {[tx |-> t, status |-> "SUCCESS"]}
     ELSE /\ results' = results \cup {[tx |-> t, status |-> "FAILED"]}
          /\ UNCHANGED <<held, applied>>
  /\ UNCHANGED jobVars

Lose(t) ==
  /\ t \in pool
  /\ pool' = pool \ {t}
  /\ UNCHANGED <<jobVars, ledgerVars>>

FloatNext ==
  \/ \E j \in Job : StartJob(j) \/ JobStep(j)
  \/ Payout
  \/ \E t \in pool : Take(t) \/ Lose(t)

\* Every call of a job returns or throws.
FloatFairness == \A j \in Job : WF_floatVars(JobStep(j))

FloatSpec == FloatInit /\ [][FloatNext]_floatVars /\ FloatFairness

-----------------------------------------------------------------------------
(* Properties                                                              *)

\* No transfer fails on the ledger, although balances are read, and simulated
\* against, before it and other jobs spend from the same key: whatever they
\* spent has used the number that the transfer was built on.
NoTransferFails == \A o \in results : o.status = "SUCCESS"

\* A job pays again only for an attempt whose outcome it could not know: each
\* is made at most once for every start and every such attempt.
NoBlindRepeat == \A j \in Job : applied[j] <= starts[j] + doubts[j]

\* The flag does not stay set: the next timer can sweep (server.mjs 299-317).
SweepComesBack == sweeping ~> ~sweeping
=============================================================================
