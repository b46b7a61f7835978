--------------------------- MODULE ServerProofs ----------------------------
(***************************************************************************)
(* What runs with classic keys around the accounts, for any amounts, any   *)
(* number of requests and attempts, and whatever the network loses: the    *)
(* jobs that move the demo float, the server's limiter, waitlist and       *)
(* agent, and the operator's scripts.                                      *)
(***************************************************************************)
EXTENDS DemoFloat, EdgeServices, OperatorScripts, FiniteSetTheorems, FunctionTheorems, TLAPS

(***************************************************************************)
(* The demo float.                                                         *)
(***************************************************************************)

Key == {"payee", "operator"}
Tx == [job : Job, key : Key, number : Nat, amount : Nat, try : Nat \X Nat]
Steps == {"idle", "balance", "account", "simulate", "send", "poll"}

FloatTypeOK ==
  /\ step \in [Job -> Steps]
  /\ {amount, tries, starts, applied, doubts} \subseteq [Job -> Nat]
  /\ held \in [Owner -> Nat]
  /\ number \in [Key -> Nat]
  /\ tx \in [Job -> SUBSET Tx]
  /\ pool \subseteq Tx /\ IsFiniteSet(pool)

\* A job that has built a transaction has one, for what it is going to send.
BuiltOK ==
  \A j \in Job : step[j] \in {"simulate", "send", "poll"} =>
    \E t \in Tx : tx[j] = {t} /\ t.job = j /\ t.key = KeyOf(j) /\ t.amount = amount[j]

LEMMA KeyTypes == /\ \A j \in Job : KeyOf(j) \in Key
                  /\ Key \subseteq Owner /\ "demo" \notin Key /\ "demo" \in Owner
  BY DEF Key, Owner, KeyOf, Sweeps, Job

\* What the end of a job and of an attempt write.
LEMMA OverTypes ==
  ASSUME FloatTypeOK, NEW j \in Job, Over(j)
  PROVE  /\ step' \in [Job -> Steps] /\ step'[j] = "idle"
         /\ amount' \in [Job -> Nat] /\ tries' \in [Job -> Nat] /\ tx' \in [Job -> SUBSET Tx]
         /\ \A i \in Job \ {j} : step'[i] = step[i] /\ amount'[i] = amount[i] /\ tx'[i] = tx[i]
  BY DEF Over, GoTo, FloatTypeOK, Steps

LEMMA ThrowsTypes ==
  ASSUME FloatTypeOK, NEW j \in Job, Throws(j)
  PROVE  /\ step' \in [Job -> Steps] /\ step'[j] \in {"idle", "account"}
         /\ amount' \in [Job -> Nat] /\ tries' \in [Job -> Nat] /\ tx' \in [Job -> SUBSET Tx]
         /\ \A i \in Job \ {j} : step'[i] = step[i] /\ amount'[i] = amount[i] /\ tx'[i] = tx[i]
<1>1. CASE tries[j] > 1
  <2>1. tries[j] \in Nat /\ tries[j] - 1 \in Nat
    BY <1>1 DEF FloatTypeOK
  <2> QED
    BY <1>1, <2>1 DEF Throws, GoTo, FloatTypeOK, Steps
<1>2. CASE ~(tries[j] > 1)
  BY <1>2, OverTypes DEF Throws
<1> QED
  BY <1>1, <1>2

\* A job goes to a step without writing anything else.
LEMMA GoToTypes ==
  ASSUME FloatTypeOK, NEW j \in Job, NEW s \in Steps, GoTo(j, s)
  PROVE  step' \in [Job -> Steps] /\ step'[j] = s /\ \A i \in Job \ {j} : step'[i] = step[i]
  BY DEF GoTo, FloatTypeOK

LEMMA FloatTypesStep == FloatTypeOK /\ BuiltOK /\ [FloatNext]_floatVars => FloatTypeOK' /\ BuiltOK'
<1> SUFFICES ASSUME FloatTypeOK, BuiltOK, [FloatNext]_floatVars PROVE FloatTypeOK' /\ BuiltOK'
  OBVIOUS
<1> USE DEF jobVars, ledgerVars
<1>1. ASSUME NEW j \in Job, StartJob(j) PROVE FloatTypeOK' /\ BuiltOK'
  <2>1. Tries[j] \in Nat /\ SeedAmount \in Nat
    BY FloatAssumption
  <2>2. starts' \in [Job -> Nat] /\ tries' \in [Job -> Nat] /\ amount' \in [Job -> Nat]
    BY <1>1, <2>1 DEF StartJob, FloatTypeOK
  <2>3. step' \in [Job -> Steps] /\ step'[j] \in {"balance", "account"}
    BY <1>1 DEF StartJob, GoTo, FloatTypeOK, Steps
  <2>4. \A i \in Job \ {j} : step'[i] = step[i] /\ amount'[i] = amount[i] /\ tx'[i] = tx[i]
    BY <1>1 DEF StartJob, GoTo, FloatTypeOK
  <2> QED
    BY <1>1, <2>2, <2>3, <2>4 DEF StartJob, FloatTypeOK, BuiltOK
\* An attempt or a job ends.
<1>2. ASSUME NEW j \in Job, Over(j) \/ Throws(j), UNCHANGED <<starts, ledgerVars>>,
             pool' \subseteq pool \cup tx[j], step[j] # "send" => pool' = pool,
             doubts' \in [Job -> Nat]
      PROVE  FloatTypeOK' /\ BuiltOK'
  <2>1. /\ step' \in [Job -> Steps] /\ step'[j] \in {"idle", "account"}
        /\ amount' \in [Job -> Nat] /\ tries' \in [Job -> Nat] /\ tx' \in [Job -> SUBSET Tx]
        /\ \A i \in Job \ {j} : step'[i] = step[i] /\ amount'[i] = amount[i] /\ tx'[i] = tx[i]
    BY <1>2, OverTypes, ThrowsTypes
  <2>2. pool' \subseteq Tx
    BY <1>2 DEF FloatTypeOK
  <2>3. IsFiniteSet(pool')
    <3>1. CASE step[j] # "send"
      BY <1>2, <3>1 DEF FloatTypeOK
    <3>2. CASE step[j] = "send"
      <4>1. PICK t : tx[j] = {t}
        BY <3>2 DEF BuiltOK
      <4>2. IsFiniteSet(pool \cup {t})
        BY FS_AddElement DEF FloatTypeOK
      <4> QED
        BY <1>2, <4>1, <4>2, FS_Subset
    <3> QED
      BY <3>1, <3>2
  <2> QED
    BY <1>2, <2>1, <2>2, <2>3 DEF FloatTypeOK, BuiltOK
<1>3. ASSUME NEW j \in Job, ReadBalance(j) PROVE FloatTypeOK' /\ BuiltOK'
  <2>1. CASE Over(j)
    BY <1>2, <1>3, <2>1 DEF ReadBalance, sacBalance, FloatTypeOK
  <2>2. CASE ~Over(j)
    <3>1. held["payee"] \in Nat
      BY DEF FloatTypeOK, Owner
    <3>2. amount' \in [Job -> Nat] /\ \A i \in Job \ {j} : amount'[i] = amount[i]
      BY <1>3, <2>2, <3>1 DEF ReadBalance, sacBalance, FloatTypeOK
    <3>3. step' \in [Job -> Steps] /\ step'[j] = "account" /\ \A i \in Job \ {j} : step'[i] = step[i]
      BY <1>3, <2>2, GoToTypes DEF ReadBalance, sacBalance, Steps
    <3> QED
      BY <1>3, <2>2, <3>2, <3>3 DEF ReadBalance, sacBalance, FloatTypeOK, BuiltOK
  <2> QED
    BY <2>1, <2>2
<1>4. ASSUME NEW j \in Job, Build(j) PROVE FloatTypeOK' /\ BuiltOK'
  <2> DEFINE t == [job |-> j, key |-> KeyOf(j), number |-> number[KeyOf(j)] + 1,
                   amount |-> amount[j], try |-> <<starts[j], tries[j]>>]
  <2>1. t \in Tx /\ t.job = j /\ t.key = KeyOf(j) /\ t.amount = amount[j]
    BY KeyTypes DEF FloatTypeOK, Tx
  <2>2. tx' = [tx EXCEPT ![j] = {t}]
    BY <1>4 DEF Build
  <2> HIDE DEF t
  <2>3. tx' \in [Job -> SUBSET Tx] /\ tx'[j] = {t} /\ \A i \in Job \ {j} : tx'[i] = tx[i]
    BY <2>1, <2>2 DEF FloatTypeOK
  <2>4. step' \in [Job -> Steps] /\ step'[j] = "simulate" /\ \A i \in Job \ {j} : step'[i] = step[i]
    BY <1>4, GoToTypes DEF Build, Steps
  <2> QED
    BY <1>4, <2>1, <2>3, <2>4 DEF Build, FloatTypeOK, BuiltOK
<1>5. ASSUME NEW j \in Job, Simulate(j) PROVE FloatTypeOK' /\ BuiltOK'
  <2>1. CASE Throws(j)
    BY <1>2, <1>5, <2>1 DEF Simulate, FloatTypeOK
  <2>2. CASE GoTo(j, "send") /\ UNCHANGED <<amount, tx, tries, sweeping>>
    BY <1>5, <2>2, GoToTypes DEF Simulate, FloatTypeOK, BuiltOK, Steps
  <2> QED
    BY <1>5, <2>1, <2>2 DEF Simulate
<1>6. ASSUME NEW j \in Job, Send(j) PROVE FloatTypeOK' /\ BuiltOK'
  <2>1. PICK t \in Tx : tx[j] = {t}
    BY <1>6 DEF Send, BuiltOK
  <2>2. pool' \subseteq pool \cup {t} /\ IsFiniteSet(pool')
    BY <1>6, <2>1, FS_AddElement DEF Send, FloatTypeOK
  <2>3. CASE j = "sweep"
    <3>1. doubts' \in [Job -> Nat]
      BY <1>6, <2>3 DEF Send, FloatTypeOK
    <3> QED
      BY <1>2, <1>6, <2>1, <2>2, <2>3, <3>1 DEF Send
  <2>4. CASE j # "sweep"
    BY <1>6, <2>1, <2>2, <2>4, GoToTypes DEF Send, FloatTypeOK, BuiltOK, Steps
  <2> QED
    BY <2>3, <2>4
<1>7. ASSUME NEW j \in Job, SendThrows(j) \/ ReadThrows(j) \/ Poll(j) PROVE FloatTypeOK' /\ BuiltOK'
  <2>1. doubts' \in [Job -> Nat]
    BY <1>7 DEF SendThrows, ReadThrows, Poll, FloatTypeOK
  <2>2. pool' \subseteq pool \cup tx[j] /\ (step[j] # "send" => pool' = pool)
    BY <1>7 DEF SendThrows, ReadThrows, Poll
  <2> QED
    BY <1>2, <1>7, <2>1, <2>2 DEF SendThrows, ReadThrows, Poll
<1>8. CASE Payout
  <2>1. held' \in [Owner -> Nat]
    BY <1>8 DEF Payout, FloatTypeOK, Owner
  <2> QED
    BY <1>8, <2>1 DEF Payout, FloatTypeOK, BuiltOK
<1>9. ASSUME NEW t \in pool, Take(t) PROVE FloatTypeOK' /\ BuiltOK'
  <2>1. t \in Tx /\ t.key \in Key /\ t.job \in Job /\ t.amount \in Nat
    BY DEF FloatTypeOK, Tx
  <2>2. pool' \subseteq Tx /\ IsFiniteSet(pool')
    BY <1>9, FS_Subset DEF Take, FloatTypeOK
  <2>3. number' \in [Key -> Nat] /\ applied' \in [Job -> Nat]
    BY <1>9, <2>1 DEF Take, FloatTypeOK
  <2>4. held' \in [Owner -> Nat]
    <3>1. CASE held' = held
      BY <3>1 DEF FloatTypeOK
    <3>2. CASE held[t.key] >= t.amount
      <4>1. held' = [held EXCEPT ![t.key] = @ - t.amount,
                                 !["demo"] = IF t.key = "payee" THEN @ + t.amount ELSE @]
        BY <1>9, <3>2 DEF Take
      <4>2. held[t.key] - t.amount \in Nat
        BY <2>1, <3>2, KeyTypes DEF FloatTypeOK
      <4> QED
        BY <2>1, <4>1, <4>2, KeyTypes DEF FloatTypeOK
    <3> QED
      BY <1>9, <3>1, <3>2 DEF Take
  <2> QED
    BY <1>9, <2>2, <2>3, <2>4 DEF Take, FloatTypeOK, BuiltOK
<1>10. ASSUME NEW t \in pool, Lose(t) PROVE FloatTypeOK' /\ BuiltOK'
  BY <1>10, FS_Subset DEF Lose, FloatTypeOK, BuiltOK
<1>11. CASE UNCHANGED floatVars
  BY <1>11 DEF floatVars, FloatTypeOK, BuiltOK
<1> QED
  BY <1>1, <1>3, <1>4, <1>5, <1>6, <1>7, <1>8, <1>9, <1>10, <1>11 DEF FloatNext, JobStep

-----------------------------------------------------------------------------
(* Transfers that the ledger takes are covered.                            *)

\* A transaction that can be the next of its key is covered by what the key
\* holds: only another transaction of the key could spend it, and that one
\* would take its number.
Covered(t) ==
  /\ t.number <= number[t.key] + 1
  /\ t.number = number[t.key] + 1 => t.amount <= held[t.key]

CoveredInv ==
  /\ \A t \in pool : Covered(t)
  /\ \A j \in Job : step[j] \in {"simulate", "send"} => \A t \in tx[j] : t.number <= number[t.key] + 1
  /\ \A j \in Job : step[j] = "send" => \A t \in tx[j] : Covered(t)
  /\ NoTransferFails

LEMMA CoveredStep ==
  FloatTypeOK /\ BuiltOK /\ CoveredInv /\ [FloatNext]_floatVars => CoveredInv'
<1> SUFFICES ASSUME FloatTypeOK, BuiltOK, CoveredInv, [FloatNext]_floatVars PROVE CoveredInv'
  OBVIOUS
<1> USE DEF jobVars, ledgerVars
\* A job moves, without building and without coming to its send.
<1>1. ASSUME NEW j \in Job, UNCHANGED <<held, number, results>>, step'[j] \notin {"simulate", "send"},
             \A i \in Job \ {j} : step'[i] = step[i] /\ tx'[i] = tx[i],
             pool' \subseteq pool \cup tx[j], step[j] # "send" => pool' = pool
      PROVE  CoveredInv'
  <2>1. \A t \in pool' : Covered(t)
    BY <1>1 DEF CoveredInv
  <2>2. \A t : Covered(t)' <=> Covered(t)
    BY <1>1 DEF Covered
  <2> QED
    BY <1>1, <2>1, <2>2 DEF CoveredInv, NoTransferFails
<1>2. ASSUME NEW j \in Job, StartJob(j) PROVE CoveredInv'
  <2>1. step'[j] \notin {"simulate", "send"} /\ \A i \in Job \ {j} : step'[i] = step[i]
    BY <1>2 DEF StartJob, GoTo, FloatTypeOK
  <2> QED
    BY <1>1, <1>2, <2>1 DEF StartJob
<1>3. ASSUME NEW j \in Job, Over(j) \/ Throws(j), UNCHANGED ledgerVars,
             pool' \subseteq pool \cup tx[j], step[j] # "send" => pool' = pool
      PROVE  CoveredInv'
  <2>1. step'[j] \in {"idle", "account"} /\ \A i \in Job \ {j} : step'[i] = step[i] /\ tx'[i] = tx[i]
    BY <1>3, OverTypes, ThrowsTypes
  <2> QED
    BY <1>1, <1>3, <2>1
<1>4. ASSUME NEW j \in Job, ReadBalance(j) PROVE CoveredInv'
  <2>1. CASE Over(j)
    BY <1>3, <1>4, <2>1 DEF ReadBalance, sacBalance
  <2>2. CASE GoTo(j, "account") /\ tx' = tx
    <3>1. step'[j] = "account" /\ \A i \in Job \ {j} : step'[i] = step[i]
      BY <2>2, GoToTypes DEF Steps
    <3> QED
      BY <1>1, <1>4, <2>2, <3>1 DEF ReadBalance, sacBalance
  <2> QED
    BY <1>4, <2>1, <2>2 DEF ReadBalance, sacBalance
<1>5. ASSUME NEW j \in Job, Build(j) PROVE CoveredInv'
  <2>1. step'[j] = "simulate" /\ \A i \in Job \ {j} : step'[i] = step[i]
    BY <1>5, GoToTypes DEF Build, Steps
  <2>2. /\ \A i \in Job \ {j} : tx'[i] = tx[i]
        /\ \A t \in tx'[j] : t.key = KeyOf(j) /\ t.number = number[KeyOf(j)] + 1
    BY <1>5 DEF Build, FloatTypeOK
  <2>3. UNCHANGED <<held, number, results, pool>>
    BY <1>5 DEF Build
  <2>4. \A t \in tx'[j] : t.number <= number[t.key] + 1
    BY <2>2, KeyTypes DEF FloatTypeOK
  <2>5. \A t : Covered(t)' <=> Covered(t)
    BY <2>3 DEF Covered
  <2> QED
    BY <2>1, <2>2, <2>3, <2>4, <2>5 DEF CoveredInv, NoTransferFails
\* The simulation looks at what the key holds now.
<1>6. ASSUME NEW j \in Job, Simulate(j) PROVE CoveredInv'
  <2>1. CASE Throws(j)
    BY <1>3, <1>6, <2>1 DEF Simulate
  <2>2. CASE GoTo(j, "send") /\ tx' = tx /\ held[KeyOf(j)] >= amount[j]
    <3>1. step'[j] = "send" /\ \A i \in Job \ {j} : step'[i] = step[i]
      BY <2>2, GoToTypes DEF Steps
    <3>2. step[j] = "simulate" /\ UNCHANGED <<held, number, results, pool>>
      BY <1>6 DEF Simulate
    <3>3. \A t : Covered(t)' <=> Covered(t)
      BY <3>2 DEF Covered
    <3>4. ASSUME NEW t \in tx[j] PROVE Covered(t)
      <4>1. t.key = KeyOf(j) /\ t.amount = amount[j]
        BY <3>2, <3>4 DEF BuiltOK
      <4>2. t.number <= number[t.key] + 1
        BY <3>2, <3>4 DEF CoveredInv
      <4>3. amount[j] \in Nat /\ held[KeyOf(j)] \in Nat
        BY KeyTypes DEF FloatTypeOK
      <4> QED
        BY <2>2, <4>1, <4>2, <4>3 DEF Covered
    <3> QED
      BY <2>2, <3>1, <3>2, <3>3, <3>4 DEF CoveredInv, NoTransferFails
  <2> QED
    BY <1>6, <2>1, <2>2 DEF Simulate
<1>7. ASSUME NEW j \in Job, Send(j) PROVE CoveredInv'
  <2>1. pool' \subseteq pool \cup tx[j] /\ UNCHANGED ledgerVars
    BY <1>7 DEF Send
  <2>2. CASE Over(j)
    BY <1>3, <1>7, <2>1, <2>2 DEF Send
  <2>3. CASE GoTo(j, "poll") /\ tx' = tx
    <3>1. step'[j] = "poll" /\ \A i \in Job \ {j} : step'[i] = step[i]
      BY <2>3, GoToTypes DEF Steps
    <3> QED
      BY <1>1, <1>7, <2>1, <2>3, <3>1 DEF Send
  <2> QED
    BY <1>7, <2>2, <2>3 DEF Send
<1>8. ASSUME NEW j \in Job, SendThrows(j) \/ ReadThrows(j) \/ Poll(j) PROVE CoveredInv'
  <2>1. /\ pool' \subseteq pool \cup tx[j] /\ (step[j] # "send" => pool' = pool)
        /\ UNCHANGED ledgerVars /\ (Over(j) \/ Throws(j))
    BY <1>8 DEF SendThrows, ReadThrows, Poll
  <2> QED
    BY <1>3, <2>1
<1>9. CASE Payout
  <2>0. held \in [Owner -> Nat] /\ held' \in [Owner -> Nat]
    BY <1>9 DEF Payout, FloatTypeOK, Owner
  <2>1. /\ \A k \in Key : held[k] <= held'[k]
        /\ UNCHANGED <<step, tx, number, results, pool>>
    BY <1>9, KeyTypes DEF Payout, FloatTypeOK, Owner, Key
  <2>2. \A t \in Tx : Covered(t) => Covered(t)'
    <3> SUFFICES ASSUME NEW t \in Tx, Covered(t) PROVE Covered(t)'
      OBVIOUS
    <3>1. t.key \in Key /\ t.amount \in Nat /\ t.number \in Nat
      BY DEF Tx
    <3>2. held[t.key] \in Nat /\ held'[t.key] \in Nat /\ held[t.key] <= held'[t.key]
      BY <2>0, <2>1, <3>1, KeyTypes
    <3>3. t.number = number[t.key] + 1 => t.amount <= held'[t.key]
      BY <3>1, <3>2 DEF Covered
    <3>4. number' = number
      BY <2>1
    <3> QED
      BY <3>3, <3>4 DEF Covered
  <2>3. pool \subseteq Tx /\ \A j \in Job : tx[j] \subseteq Tx
    BY DEF FloatTypeOK
  <2> QED
    BY <2>1, <2>2, <2>3 DEF CoveredInv, NoTransferFails
\* What a key spends, it spends under a number that no other can use again.
<1>10. ASSUME NEW t \in pool, Take(t) PROVE CoveredInv'
  <2>1. /\ t \in Tx /\ t.key \in Key /\ t.amount \in Nat /\ t.number = number[t.key] + 1
        /\ UNCHANGED <<step, tx>> /\ pool' = pool \ {t}
    BY <1>10 DEF Take, FloatTypeOK, Tx
  <2>2. t.amount <= held[t.key]
    BY <2>1 DEF CoveredInv, Covered
  <2>3. held[t.key] >= t.amount
    BY <2>1, <2>2, KeyTypes DEF FloatTypeOK
  <2>4. /\ results' = results \cup {[tx |-> t, status |-> "SUCCESS"]}
        /\ held' = [held EXCEPT ![t.key] = @ - t.amount,
                                !["demo"] = IF t.key = "payee" THEN @ + t.amount ELSE @]
        /\ number' = [number EXCEPT ![t.key] = @ + 1]
    BY <1>10, <2>3 DEF Take
  <2>5. \A k \in Key \ {t.key} : held'[k] = held[k] /\ number'[k] = number[k]
    BY <2>1, <2>4, KeyTypes DEF FloatTypeOK
  <2>6. number'[t.key] = number[t.key] + 1 /\ number[t.key] \in Nat
    BY <2>1, <2>4 DEF FloatTypeOK
  <2>7. \A u \in Tx : u.number <= number[u.key] + 1 /\ Covered(u) => Covered(u)'
    <3> SUFFICES ASSUME NEW u \in Tx, u.number <= number[u.key] + 1, Covered(u) PROVE Covered(u)'
      OBVIOUS
    <3>1. u.key \in Key /\ u.number \in Nat
      BY DEF Tx
    <3>2. CASE u.key = t.key
      BY <2>6, <3>1, <3>2 DEF Covered
    <3>3. CASE u.key # t.key
      BY <2>5, <3>1, <3>3 DEF Covered
    <3> QED
      BY <3>2, <3>3
  <2>8. \A u \in Tx : u.number <= number[u.key] + 1 => u.number <= number'[u.key] + 1
    <3> SUFFICES ASSUME NEW u \in Tx, u.number <= number[u.key] + 1 PROVE u.number <= number'[u.key] + 1
      OBVIOUS
    <3>1. u.key \in Key /\ u.number \in Nat
      BY DEF Tx
    <3> QED
      BY <2>5, <2>6, <3>1
  <2>9. pool \subseteq Tx /\ \A j \in Job : tx[j] \subseteq Tx
    BY DEF FloatTypeOK
  <2>10. NoTransferFails'
    BY <2>4 DEF CoveredInv, NoTransferFails
  <2>11. \A u \in pool' : Covered(u)'
    BY <2>1, <2>7, <2>9 DEF CoveredInv, Covered
  <2>12. \A j \in Job : step[j] = "send" => \A u \in tx[j] : Covered(u)'
    BY <2>7, <2>9 DEF CoveredInv, Covered
  <2>13. \A j \in Job : step[j] \in {"simulate", "send"} => \A u \in tx[j] : u.number <= number'[u.key] + 1
    BY <2>8, <2>9 DEF CoveredInv
  <2> QED
    BY <2>1, <2>10, <2>11, <2>12, <2>13 DEF CoveredInv
<1>11. ASSUME NEW t \in pool, Lose(t) PROVE CoveredInv'
  <2>1. UNCHANGED <<step, tx, held, number, results>> /\ pool' \subseteq pool
    BY <1>11 DEF Lose
  <2> QED
    BY <2>1 DEF CoveredInv, Covered, NoTransferFails
<1>12. CASE UNCHANGED floatVars
  BY <1>12 DEF floatVars, CoveredInv, Covered, NoTransferFails
<1> QED
  BY <1>2, <1>4, <1>5, <1>6, <1>7, <1>8, <1>9, <1>10, <1>11, <1>12 DEF FloatNext, JobStep

-----------------------------------------------------------------------------
(* Transfers that a job makes are paid for by its starts and its doubts.   *)

PoolOf(j) == {t \in pool : t.job = j}

\* Transfers of a job that were made or that the network may still make.
Chances(j) == applied[j] + Cardinality(PoolOf(j))

\* A job that has not sent since it was started has not used that start.
Unsent(j) == step[j] \in {"balance", "account", "simulate", "send"}

ChanceInv ==
  \A j \in Job : Chances(j) + (IF Unsent(j) THEN 1 ELSE 0) <= starts[j] + doubts[j]

LEMMA PoolOfFinite == ASSUME FloatTypeOK, NEW j \in Job
                      PROVE  IsFiniteSet(PoolOf(j)) /\ Cardinality(PoolOf(j)) \in Nat
<1>1. IsFiniteSet(PoolOf(j))
  BY FS_Subset DEF FloatTypeOK, PoolOf
<1> QED
  BY <1>1, FS_CardinalityType

\* What a job does to its own chances: a transaction that it sends is one more.
LEMMA SentChances ==
  ASSUME FloatTypeOK, BuiltOK, NEW j \in Job, step[j] \in {"simulate", "send", "poll"},
         pool' \in {pool, pool \cup tx[j]}
  PROVE  /\ Cardinality(PoolOf(j)') \in Nat
         /\ Cardinality(PoolOf(j)') <= Cardinality(PoolOf(j)) + 1
         /\ \A i \in Job \ {j} : PoolOf(i)' = PoolOf(i)
<1>1. PICK t \in Tx : tx[j] = {t} /\ t.job = j
  BY DEF BuiltOK
<1>2. PoolOf(j)' = PoolOf(j) \/ PoolOf(j)' = PoolOf(j) \cup {t}
  BY <1>1 DEF PoolOf
<1>3. \A i \in Job \ {j} : PoolOf(i)' = PoolOf(i)
  BY <1>1 DEF PoolOf
<1> HIDE DEF PoolOf
<1>4. /\ Cardinality(PoolOf(j)') \in Nat
      /\ Cardinality(PoolOf(j)') <= Cardinality(PoolOf(j)) + 1
  <2>1. CASE PoolOf(j)' = PoolOf(j)
    BY <2>1, PoolOfFinite
  <2>2. CASE PoolOf(j)' = PoolOf(j) \cup {t}
    <3>1. /\ Cardinality(PoolOf(j) \cup {t}) = IF t \in PoolOf(j) THEN Cardinality(PoolOf(j))
                                               ELSE Cardinality(PoolOf(j)) + 1
          /\ IsFiniteSet(PoolOf(j) \cup {t})
      BY PoolOfFinite, FS_AddElement
    <3> QED
      BY <2>2, <3>1, PoolOfFinite
  <2> QED
    BY <1>2, <2>1, <2>2
<1> QED
  BY <1>3, <1>4

LEMMA ChanceStep ==
  FloatTypeOK /\ BuiltOK /\ ChanceInv /\ [FloatNext]_floatVars => ChanceInv'
<1> SUFFICES ASSUME FloatTypeOK, BuiltOK, ChanceInv, [FloatNext]_floatVars PROVE ChanceInv'
  OBVIOUS
<1> USE DEF jobVars, ledgerVars
<1>0. \A j \in Job : /\ Cardinality(PoolOf(j)) \in Nat /\ applied[j] \in Nat
                     /\ starts[j] \in Nat /\ doubts[j] \in Nat
  BY PoolOfFinite DEF FloatTypeOK
\* One job has as many chances as before, or fewer.
<1>1. ASSUME NEW j \in Job, UNCHANGED <<applied, pool, starts>>,
             \A i \in Job \ {j} : step'[i] = step[i] /\ doubts'[i] = doubts[i],
             doubts'[j] = doubts[j] \/ doubts'[j] = doubts[j] + 1,
             Unsent(j)' => Unsent(j)
      PROVE  ChanceInv'
  <2>1. \A i \in Job : PoolOf(i)' = PoolOf(i) /\ Chances(i)' = Chances(i)
    BY <1>1 DEF PoolOf, Chances
  <2>2. \A i \in Job : Chances(i) \in Nat
    BY <1>0 DEF Chances
  <2>3. \A i \in Job \ {j} : Unsent(i)' <=> Unsent(i)
    BY <1>1 DEF Unsent
  <2> QED
    BY <1>0, <1>1, <2>1, <2>2, <2>3 DEF ChanceInv
\* It sends, and has used its start or is in doubt.
<1>2. ASSUME NEW j \in Job, step[j] = "send", UNCHANGED <<applied, starts>>,
             pool' \in {pool, pool \cup tx[j]},
             \A i \in Job \ {j} : step'[i] = step[i] /\ doubts'[i] = doubts[i],
             \/ doubts'[j] = doubts[j] + 1
             \/ doubts'[j] = doubts[j] /\ ~Unsent(j)'
      PROVE  ChanceInv'
  <2>1. /\ Cardinality(PoolOf(j)') \in Nat
        /\ Cardinality(PoolOf(j)') <= Cardinality(PoolOf(j)) + 1
        /\ \A i \in Job \ {j} : PoolOf(i)' = PoolOf(i)
    BY <1>2, SentChances
  <2>2. \A i \in Job \ {j} : Chances(i)' = Chances(i) /\ (Unsent(i)' <=> Unsent(i))
    BY <1>2, <2>1 DEF Chances, Unsent
  <2>3. Unsent(j)
    BY <1>2 DEF Unsent
  <2>4. Chances(j) \in Nat /\ Chances(j)' \in Nat /\ Chances(j)' <= Chances(j) + 1
    BY <1>0, <1>2, <2>1 DEF Chances
  <2>5. Chances(j)' + (IF Unsent(j)' THEN 1 ELSE 0) <= starts'[j] + doubts'[j]
    BY <1>0, <1>2, <2>3, <2>4 DEF ChanceInv
  <2> QED
    BY <1>2, <2>2, <2>5 DEF ChanceInv
<1>3. ASSUME NEW j \in Job, StartJob(j) PROVE ChanceInv'
  <2>1. /\ UNCHANGED <<applied, pool, doubts>>
        /\ starts'[j] = starts[j] + 1 /\ \A i \in Job \ {j} : starts'[i] = starts[i]
        /\ step[j] = "idle" /\ \A i \in Job \ {j} : step'[i] = step[i]
    BY <1>3 DEF StartJob, GoTo, FloatTypeOK
  <2>2. \A i \in Job : PoolOf(i)' = PoolOf(i) /\ Chances(i)' = Chances(i) /\ Chances(i) \in Nat
    BY <1>0, <2>1 DEF PoolOf, Chances
  <2>3. ~Unsent(j) /\ \A i \in Job \ {j} : Unsent(i)' <=> Unsent(i)
    BY <2>1 DEF Unsent
  <2> QED
    BY <1>0, <2>1, <2>2, <2>3 DEF ChanceInv
<1>4. ASSUME NEW j \in Job, NEW s \in Steps, GoTo(j, s), Unsent(j), UNCHANGED <<applied, pool, starts, doubts>>
      PROVE  ChanceInv'
  BY <1>1, <1>4, GoToTypes
<1>5. ASSUME NEW j \in Job, Over(j) \/ Throws(j), UNCHANGED <<applied, pool, starts, doubts>>, Unsent(j)
      PROVE  ChanceInv'
  BY <1>1, <1>5, OverTypes, ThrowsTypes
<1>6. ASSUME NEW j \in Job, ReadBalance(j) \/ Build(j) \/ Simulate(j) \/ ReadThrows(j) PROVE ChanceInv'
  <2>1. UNCHANGED <<applied, pool, starts, doubts>> /\ Unsent(j)
    BY <1>6 DEF ReadBalance, sacBalance, Build, Simulate, ReadThrows, Unsent
  <2>2. Over(j) \/ Throws(j) \/ \E s \in Steps : GoTo(j, s)
    BY <1>6 DEF ReadBalance, sacBalance, Build, Simulate, ReadThrows, Steps
  <2> QED
    BY <1>4, <1>5, <2>1, <2>2
<1>7. ASSUME NEW j \in Job, Send(j) PROVE ChanceInv'
  <2>1. step[j] = "send" /\ UNCHANGED <<applied, starts>> /\ pool' \in {pool, pool \cup tx[j]}
    BY <1>7 DEF Send
  <2>2. CASE j = "sweep"
    <3>1. \A i \in Job \ {j} : step'[i] = step[i]
      BY <1>7, <2>2, OverTypes DEF Send
    <3>2. doubts'[j] = doubts[j] + 1 /\ \A i \in Job \ {j} : doubts'[i] = doubts[i]
      BY <1>7, <2>2 DEF Send, FloatTypeOK
    <3> QED
      BY <1>2, <2>1, <3>1, <3>2
  <2>3. CASE j # "sweep"
    <3>1. step'[j] = "poll" /\ \A i \in Job \ {j} : step'[i] = step[i]
      BY <1>7, <2>3, GoToTypes DEF Send, Steps
    <3>2. doubts' = doubts
      BY <1>7, <2>3 DEF Send
    <3> QED
      BY <1>2, <2>1, <3>1, <3>2 DEF Unsent
  <2> QED
    BY <2>2, <2>3
<1>8. ASSUME NEW j \in Job, SendThrows(j) PROVE ChanceInv'
  <2>1. \A i \in Job \ {j} : step'[i] = step[i]
    BY <1>8, ThrowsTypes DEF SendThrows
  <2>2. doubts'[j] = doubts[j] + 1 /\ \A i \in Job \ {j} : doubts'[i] = doubts[i]
    BY <1>8 DEF SendThrows, FloatTypeOK
  <2> QED
    BY <1>2, <1>8, <2>1, <2>2 DEF SendThrows
<1>9. ASSUME NEW j \in Job, Poll(j) PROVE ChanceInv'
  <2>1. step'[j] = "idle" /\ \A i \in Job \ {j} : step'[i] = step[i]
    BY <1>9, OverTypes DEF Poll
  <2>2. /\ doubts'[j] = doubts[j] \/ doubts'[j] = doubts[j] + 1
        /\ \A i \in Job \ {j} : doubts'[i] = doubts[i]
    BY <1>9 DEF Poll, FloatTypeOK
  <2> QED
    BY <1>1, <1>9, <2>1, <2>2 DEF Poll, Unsent
\* The network takes a chance, or takes one away.
<1>10. ASSUME NEW t \in pool, Take(t) \/ Lose(t) PROVE ChanceInv'
  <2>1. t \in Tx /\ t.job \in Job /\ pool' = pool \ {t} /\ UNCHANGED jobVars
    BY <1>10 DEF Take, Lose, FloatTypeOK, Tx
  <2> DEFINE j == t.job
  <2>2. /\ applied'[j] = applied[j] \/ applied'[j] = applied[j] + 1
        /\ \A i \in Job \ {j} : applied'[i] = applied[i]
    BY <1>10, <2>1 DEF Take, Lose, FloatTypeOK
  <2>3. /\ t \in PoolOf(j) /\ PoolOf(j)' = PoolOf(j) \ {t}
        /\ \A i \in Job \ {j} : PoolOf(i)' = PoolOf(i)
    BY <2>1 DEF PoolOf
  <2>4. Cardinality(PoolOf(j)') = Cardinality(PoolOf(j)) - 1
    BY <2>1, <2>3, PoolOfFinite, FS_RemoveElement
  <2>5. Chances(j)' <= Chances(j) /\ Chances(j) \in Nat /\ Chances(j)' \in Int
    BY <1>0, <2>1, <2>2, <2>4 DEF Chances
  <2>6. \A i \in Job : Unsent(i)' <=> Unsent(i)
    BY <2>1 DEF Unsent
  <2>7. \A i \in Job \ {j} : Chances(i)' = Chances(i)
    BY <2>2, <2>3 DEF Chances
  <2>8. ASSUME NEW i \in Job
        PROVE  Chances(i)' + (IF Unsent(i)' THEN 1 ELSE 0) <= starts'[i] + doubts'[i]
    <3>1. Chances(i) + (IF Unsent(i) THEN 1 ELSE 0) <= starts[i] + doubts[i]
      BY DEF ChanceInv
    <3>2. CASE i = j
      BY <1>0, <2>1, <2>5, <2>6, <3>1, <3>2
    <3>3. CASE i # j
      BY <2>1, <2>6, <2>7, <3>1, <3>3
    <3> QED
      BY <3>2, <3>3
  <2> QED
    BY <2>8 DEF ChanceInv
<1>11. CASE UNCHANGED <<jobVars, applied, pool>>
  BY <1>11 DEF ChanceInv, Chances, PoolOf, Unsent
<1>12. Payout \/ UNCHANGED floatVars => UNCHANGED <<jobVars, applied, pool>>
  BY DEF Payout, floatVars
<1> QED
  BY <1>3, <1>6, <1>7, <1>8, <1>9, <1>10, <1>11, <1>12 DEF FloatNext, JobStep

-----------------------------------------------------------------------------
(* Theorems.                                                               *)

LEMMA FloatInits == FloatInit => FloatTypeOK /\ BuiltOK /\ CoveredInv /\ ChanceInv
<1> SUFFICES ASSUME FloatInit PROVE FloatTypeOK /\ BuiltOK /\ CoveredInv /\ ChanceInv
  OBVIOUS
<1>1. FloatTypeOK
  BY FloatAssumption, FS_EmptySet DEF FloatInit, FloatTypeOK, Steps, Key
<1>2. BuiltOK /\ CoveredInv
  BY DEF FloatInit, BuiltOK, CoveredInv, NoTransferFails
<1>3. ASSUME NEW j \in Job PROVE PoolOf(j) = {} /\ applied[j] = 0 /\ starts[j] = 0 /\ doubts[j] = 0 /\ ~Unsent(j)
  BY DEF FloatInit, PoolOf, Unsent
<1>4. ChanceInv
  BY <1>3, FS_EmptySet DEF ChanceInv, Chances
<1> QED
  BY <1>1, <1>2, <1>4

\* The jobs' transactions are what their places say: one each, signed by the
\* key of the job, for the amount it read or was given.
THEOREM FloatTypes == FloatSpec => [](FloatTypeOK /\ BuiltOK)
<1> QED
  BY FloatInits, FloatTypesStep, PTL DEF FloatSpec

\* No transfer of the sweep, the reseed and the two ways of seeding fails on the
\* ledger (server.mjs 299-318, chain.js 274-292, create_user.mjs): a balance
\* that was simulated against is spent by a later number only.
THEOREM FloatNoTransferFails == FloatSpec => []NoTransferFails
<1>1. CoveredInv => NoTransferFails
  BY DEF CoveredInv
<1> QED
  BY <1>1, FloatInits, CoveredStep, FloatTypes, PTL DEF FloatSpec

\* With any number of attempts (retry, create_user.mjs 36), a job pays once
\* for each start, and once more at most for each attempt that ended in doubt.
THEOREM FloatNoBlindRepeat == FloatSpec => []NoBlindRepeat
<1>1. FloatTypeOK /\ ChanceInv => NoBlindRepeat
  <2> SUFFICES ASSUME FloatTypeOK, ChanceInv, NEW j \in Job PROVE applied[j] <= starts[j] + doubts[j]
    BY DEF NoBlindRepeat
  <2>1. /\ Cardinality(PoolOf(j)) \in Nat /\ applied[j] \in Nat
        /\ starts[j] \in Nat /\ doubts[j] \in Nat
    BY PoolOfFinite DEF FloatTypeOK
  <2>2. Chances(j) + (IF Unsent(j) THEN 1 ELSE 0) <= starts[j] + doubts[j]
    BY DEF ChanceInv
  <2> QED
    BY <2>1, <2>2 DEF Chances
<1> QED
  BY <1>1, FloatInits, ChanceStep, FloatTypes, PTL DEF FloatSpec

-----------------------------------------------------------------------------
(***************************************************************************)
(* The rate limiter, the waitlist and the agent.                           *)
(***************************************************************************)

Stamp(q) == [at |-> q.at, n |-> q.n]

Request == [client : Client, endpoint : Endpoint, at : Nat, n : Nat, refused : BOOLEAN]

EdgeTypes ==
  /\ clock \in Nat /\ asked \in Nat
  /\ log \subseteq Request /\ IsFiniteSet(log)
  /\ waiting \subseteq [client : Client, persisted : BOOLEAN]
  /\ DOMAIN shown = Client

\* Requests are numbered as they come, and none is of the future.
InOrder ==
  /\ \A q \in log : q.n < asked /\ q.at <= clock
  /\ \A p, q \in log : p.n = q.n => p = q

\* The map holds times of real requests, and of each request that is still in
\* the window: what was filtered and pruned has left it.
Remembered ==
  /\ \A c \in DOMAIN hits : \A t \in hits[c] : \E p \in log : p.client = c /\ t = Stamp(p)
  /\ \A p \in log : clock - p.at < Window =>
       p.client \in DOMAIN hits /\ Stamp(p) \in hits[p.client]

LimiterInv == EdgeTypes /\ InOrder /\ Remembered /\ LimiterExact

\* A waitlist request that awaits the webhook after a write that worked is kept.
WaitingKept == \A w \in waiting : w.persisted => w.client \in sink

\* What the property counts for the request q.
Counted(S, q) == {p \in S : p.client = q.client /\ p.n <= q.n /\ q.at - p.at < Window}

\* As many times as requests: a number belongs to one request only.
LEMMA StampsCount ==
  ASSUME NEW P, IsFiniteSet(P), \A p, q \in P : p.n = q.n => p = q
  PROVE  Cardinality({Stamp(p) : p \in P}) = Cardinality(P)
  <1> DEFINE T == {Stamp(p) : p \in P}
             f == [p \in P |-> Stamp(p)]
  <1>1. f \in Bijection(P, T)
    <2>1. f \in [P -> T]
      OBVIOUS
    <2>2. \A p, q \in P : f[p] = f[q] => p = q
      BY DEF Stamp
    <2>3. \A t \in T : \E p \in P : f[p] = t
      OBVIOUS
    <2> QED BY <2>1, <2>2, <2>3, Fun_IsBij
  <1>2. ExistsBijection(P, T)
    BY <1>1 DEF ExistsBijection
  <1> QED BY <1>2, FS_Bijection

\* Whatever a client claims to be, the limiter counts its requests as its own.
LEMMA ClientIsKnown ==
  ASSUME EdgeAssumption, NEW r \in Requests
  PROVE  r.from \in Client /\ ClientIp(r) = r.from
  BY DEF EdgeAssumption, ClientIp, LastHop

\* What pruning keeps of an address is what it would keep by itself.
LEMMA PrunedKeepsRecent ==
  ASSUME NEW c
  PROVE  /\ DOMAIN Pruned(hits) \subseteq DOMAIN hits
         /\ \A a \in DOMAIN Pruned(hits) : Pruned(hits)[a] = hits[a]
         /\ \A a \in DOMAIN hits : Recent(hits[a]) # {} => a \in DOMAIN Pruned(hits)
  <1>1. CASE Cardinality(DOMAIN hits) <= HitsMax
    BY <1>1 DEF Pruned
  <1>2. CASE ~(Cardinality(DOMAIN hits) <= HitsMax)
    BY <1>2 DEF Pruned
  <1> QED BY <1>1, <1>2

\* A request: the times it is counted with are those of the requests of its
\* address in the window that ends with it.
LEMMA AskedKeepsLimiter ==
  ASSUME EdgeAssumption, LimiterInv, NEW r \in Requests, Handler(r) \in Endpoint, Asked(r),
         waiting' \subseteq [client : Client, persisted : BOOLEAN], DOMAIN shown' = Client
  PROVE  LimiterInv'
  <1> DEFINE c == ClientIp(r)
             e == Handler(r)
             kept == Pruned(hits)
             arr == (IF c \in DOMAIN kept THEN Recent(kept[c]) ELSE {})
                      \cup {[at |-> clock, n |-> asked]}
             new == [client |-> c, endpoint |-> e, at |-> clock, n |-> asked,
                     refused |-> Cardinality(arr) > Limit[e]]
             P == Counted(log', new)
  <1>0. c \in Client /\ e \in Endpoint /\ c = r.from
    BY ClientIsKnown
  <1>1. /\ asked' = asked + 1 /\ clock' = clock
        /\ hits' = [a \in DOMAIN kept \cup {c} |-> IF a = c THEN arr ELSE kept[a]]
        /\ log' = log \cup {new}
    BY <1>0 DEF Asked
  <1> HIDE DEF c, e
  <1>2. /\ DOMAIN kept \subseteq DOMAIN hits
        /\ \A a \in DOMAIN kept : kept[a] = hits[a]
        /\ \A a \in DOMAIN hits : Recent(hits[a]) # {} => a \in DOMAIN kept
    BY PrunedKeepsRecent
  <1>3. new \in Request
    BY <1>0 DEF LimiterInv, EdgeTypes, Request
  <1>4. EdgeTypes'
    <2>1. IsFiniteSet(log')
      BY <1>1, FS_AddElement DEF LimiterInv, EdgeTypes
    <2>2. log' \subseteq Request
      BY <1>1, <1>3 DEF LimiterInv, EdgeTypes
    <2>3. clock' \in Nat /\ asked' \in Nat
      BY <1>1 DEF LimiterInv, EdgeTypes
    <2> QED BY <2>1, <2>2, <2>3 DEF EdgeTypes
  <1>5. InOrder'
    <2>1. \A q \in log : q \in Request /\ q.n < asked /\ q.at <= clock
      BY DEF LimiterInv, EdgeTypes, InOrder
    <2>2. \A q \in log' : q.n < asked' /\ q.at <= clock'
      BY <1>1, <2>1 DEF LimiterInv, EdgeTypes, Request
    <2>3. \A p, q \in log' : p.n = q.n => p = q
      BY <1>1, <2>1 DEF LimiterInv, InOrder, EdgeTypes, Request
    <2> QED BY <2>2, <2>3 DEF InOrder
  <1> HIDE DEF kept
  <1>6. arr = {Stamp(p) : p \in P}
    <2>1. ASSUME NEW t \in arr PROVE \E p \in P : t = Stamp(p)
      <3>1. CASE t = [at |-> clock, n |-> asked]
        <4>1. new \in P
          BY <1>1 DEF Counted, LimiterInv, EdgeTypes, EdgeAssumption
        <4> QED BY <3>1, <4>1 DEF Stamp
      <3>2. CASE t # [at |-> clock, n |-> asked]
        <4>1. c \in DOMAIN hits /\ t \in hits[c] /\ clock - t.at < Window
          BY <3>2, <1>2 DEF Recent
        <4>2. PICK p \in log : p.client = c /\ t = Stamp(p)
          BY <4>1 DEF LimiterInv, Remembered
        <4>3. p \in P
          BY <4>1, <4>2, <1>1 DEF Counted, Stamp, LimiterInv, InOrder, EdgeTypes, Request
        <4> QED BY <4>2, <4>3
      <3> QED BY <3>1, <3>2
    <2>2. ASSUME NEW p \in P PROVE Stamp(p) \in arr
      <3>1. p \in log' /\ p.client = c /\ clock - p.at < Window
        BY DEF Counted
      <3>2. CASE p = new
        BY <3>2 DEF Stamp
      <3>3. CASE p # new
        <4>1. p \in log
          BY <3>1, <3>3, <1>1
        <4>2. c \in DOMAIN hits /\ Stamp(p) \in hits[c]
          BY <4>1, <3>1 DEF LimiterInv, Remembered
        <4>3. Stamp(p) \in Recent(hits[c])
          BY <4>2, <3>1 DEF Recent, Stamp
        <4> QED BY <4>2, <4>3, <1>2
      <3> QED BY <3>2, <3>3
    <2> QED BY <2>1, <2>2
  <1>7. Cardinality(arr) = Cardinality(P)
    <2>1. IsFiniteSet(P)
      BY <1>4, FS_Subset DEF EdgeTypes, Counted
    <2>2. \A p, q \in P : p.n = q.n => p = q
      BY <1>5 DEF InOrder, Counted
    <2> HIDE DEF arr, P
    <2> QED BY <2>1, <2>2, <1>6, StampsCount
  <1>8. Remembered'
    <2>1. ASSUME NEW a \in DOMAIN hits', NEW t \in hits'[a]
          PROVE  \E p \in log' : p.client = a /\ t = Stamp(p)
      <3>1. CASE a = c
        BY <3>1, <1>1, <1>6 DEF Counted
      <3>2. CASE a # c
        BY <3>2, <1>1, <1>2 DEF LimiterInv, Remembered
      <3> QED BY <3>1, <3>2
    <2>2. ASSUME NEW p \in log', clock' - p.at < Window
          PROVE  p.client \in DOMAIN hits' /\ Stamp(p) \in hits'[p.client]
      <3>1. CASE p.client = c
        <4>1. p \in P
          <5>1. p.n \in Nat /\ asked \in Nat /\ p.n < asked + 1
            BY <1>1, <1>5, <1>4 DEF InOrder, EdgeTypes, Request, LimiterInv
          <5> QED BY <5>1, <2>2, <3>1, <1>1 DEF Counted
        <4> QED BY <4>1, <3>1, <1>1, <1>6
      <3>2. CASE p.client # c
        <4>1. p \in log
          BY <3>2, <1>1
        <4>2. p.client \in DOMAIN hits /\ Stamp(p) \in hits[p.client]
          BY <4>1, <2>2, <1>1 DEF LimiterInv, Remembered
        <4>3. Stamp(p) \in Recent(hits[p.client])
          BY <4>2, <2>2, <1>1 DEF Recent, Stamp
        <4> QED BY <4>2, <4>3, <3>2, <1>1, <1>2
      <3> QED BY <3>1, <3>2
    <2> QED BY <2>1, <2>2 DEF Remembered
  <1>9. LimiterExact'
    <2>1. ASSUME NEW q \in log'
          PROVE  q.refused <=> Cardinality(Counted(log', q)) > Limit[q.endpoint]
      <3>1. CASE q = new
        BY <3>1, <1>7
      <3>2. CASE q # new
        <4>1. q \in log
          BY <3>2, <1>1
        <4>2. Counted(log', q) = Counted(log, q)
          BY <4>1, <1>1 DEF Counted, LimiterInv, InOrder, EdgeTypes, Request
        <4> QED BY <4>1, <4>2 DEF LimiterInv, LimiterExact, Counted
      <3> QED BY <3>1, <3>2
    <2> QED BY <2>1 DEF LimiterExact, Counted
  <1> QED BY <1>4, <1>5, <1>8, <1>9 DEF LimiterInv

LEMMA EdgeStepKeepsLimiter ==
  ASSUME EdgeAssumption, LimiterInv, [EdgeNext]_edgeVars
  PROVE  LimiterInv'
  <1> USE DEF limiterVars, waitlistVars
  <1>1. ASSUME NEW r \in Requests, Ask(r)
        PROVE  LimiterInv'
    <2>1. Handler(r) \in Endpoint /\ Asked(r) /\ waiting' = waiting /\ shown' = shown
      BY <1>1 DEF Ask, Endpoint
    <2> QED BY <2>1, AskedKeepsLimiter DEF LimiterInv, EdgeTypes
  <1>2. ASSUME NEW r \in Requests, PostWaitlist(r)
        PROVE  LimiterInv'
    <2>1. Handler(r) \in Endpoint /\ Asked(r)
      BY <1>2 DEF PostWaitlist, Endpoint
    <2>2. waiting' \subseteq [client : Client, persisted : BOOLEAN] /\ DOMAIN shown' = Client
      BY <1>2, ClientIsKnown DEF PostWaitlist, Answered, SubmitWaitlist, LimiterInv, EdgeTypes
    <2> QED BY <2>1, <2>2, AskedKeepsLimiter
  <1>3. ASSUME NEW w \in waiting, WebhookDone(w)
        PROVE  LimiterInv'
    <2>1. UNCHANGED <<clock, hits, log, asked>> /\ waiting' \subseteq waiting /\ DOMAIN shown' = DOMAIN shown
      BY <1>3 DEF WebhookDone, Answered, SubmitWaitlist
    <2> QED BY <2>1 DEF LimiterInv, EdgeTypes, InOrder, Remembered, LimiterExact
  <1>4. ASSUME NEW r \in Requests, NEW m \in Message, NEW v \in Vendors, PostAgent(r, m, v)
        PROVE  LimiterInv'
    <2>1. Handler(r) \in Endpoint /\ Asked(r) /\ waiting' = waiting /\ shown' = shown
      BY <1>4 DEF PostAgent, Endpoint
    <2> QED BY <2>1, AskedKeepsLimiter DEF LimiterInv, EdgeTypes
  <1>5. CASE Tick
    <2>1. clock' = clock + 1 /\ UNCHANGED <<hits, log, asked, waiting, shown>>
      BY <1>5 DEF Tick
    <2>2. EdgeTypes' /\ InOrder' /\ LimiterExact'
      BY <2>1 DEF LimiterInv, EdgeTypes, InOrder, LimiterExact, Request
    <2>3. \A p \in log : clock' - p.at < Window => clock - p.at < Window
      BY <2>1 DEF LimiterInv, EdgeTypes, Request, EdgeAssumption
    <2>4. Remembered'
      BY <2>1, <2>3 DEF LimiterInv, Remembered
    <2> QED BY <2>2, <2>4 DEF LimiterInv
  <1>6. CASE Restart
    <2>1. log' = {} /\ DOMAIN hits' = {} /\ UNCHANGED <<clock, asked>>
      BY <1>6 DEF Restart, NoHits
    <2>2. waiting' = {} /\ DOMAIN shown' = Client
      BY <1>6 DEF Restart
    <2> QED BY <2>1, <2>2, FS_EmptySet
            DEF LimiterInv, EdgeTypes, InOrder, Remembered, LimiterExact
  <1>7. CASE UNCHANGED edgeVars
    BY <1>7 DEF edgeVars, LimiterInv, EdgeTypes, InOrder, Remembered, LimiterExact
  <1> QED BY <1>1, <1>2, <1>3, <1>4, <1>5, <1>6, <1>7 DEF EdgeNext

\* The map of the limiter, which is filtered at each request and pruned when it
\* has grown, refuses exactly whom the whole history of requests says.
THEOREM LimiterIsExact == EdgeSpec => []LimiterExact
  <1>1. EdgeInit => LimiterInv
    BY FS_EmptySet DEF EdgeInit, NoHits, LimiterInv, EdgeTypes, InOrder, Remembered, LimiterExact
  <1>2. LimiterInv /\ [EdgeNext]_edgeVars => LimiterInv'
    BY EdgeAssumption, EdgeStepKeepsLimiter
  <1>3. LimiterInv => LimiterExact
    BY DEF LimiterInv
  <1> QED BY <1>1, <1>2, <1>3, PTL DEF EdgeSpec

\* "You're on the list" is said of addresses that are kept only, and an address
\* that was typed is the one an intent pays.
THEOREM AnswersAreSo == EdgeSpec => []AnswersHold
  <1> DEFINE Inv == DOMAIN shown = Client /\ WaitingKept /\ AnswersHold
  <1> USE DEF limiterVars, waitlistVars
  <1>1. EdgeInit => Inv
    BY DEF EdgeInit, WaitingKept, AnswersHold
  <1>2. Inv /\ [EdgeNext]_edgeVars => Inv'
    <2> SUFFICES ASSUME Inv, [EdgeNext]_edgeVars PROVE Inv'
      OBVIOUS
    <2>1. ASSUME NEW r \in Requests, Ask(r)
          PROVE  Inv'
      BY <2>1 DEF Ask, WaitingKept, AnswersHold
    <2>2. ASSUME NEW r \in Requests, PostWaitlist(r)
          PROVE  Inv'
      BY <2>2 DEF PostWaitlist, Answered, SubmitWaitlist, WaitingKept, AnswersHold
    <2>3. ASSUME NEW w \in waiting, WebhookDone(w)
          PROVE  Inv'
      BY <2>3 DEF WebhookDone, Answered, SubmitWaitlist, WaitingKept, AnswersHold
    <2>4. ASSUME NEW r \in Requests, NEW m \in Message, NEW v \in Vendors, PostAgent(r, m, v)
          PROVE  Inv'
      <3>1. UNCHANGED <<waiting, sink, hooked, shown>>
        BY <2>4 DEF PostAgent
      <3>2. intent' # Nothing /\ intent'.answer.action = "pay" /\ intent'.typed # Nothing
              => intent'.answer.to = intent'.typed
        BY <2>4 DEF PostAgent, GroqIntent, FallbackIntent
      <3> QED BY <3>1, <3>2 DEF WaitingKept, AnswersHold
    <2>5. CASE Tick
      BY <2>5 DEF Tick, WaitingKept, AnswersHold
    <2>6. CASE Restart
      BY <2>6 DEF Restart, WaitingKept, AnswersHold
    <2>7. CASE UNCHANGED edgeVars
      BY <2>7 DEF edgeVars, WaitingKept, AnswersHold
    <2> QED BY <2>1, <2>2, <2>3, <2>4, <2>5, <2>6, <2>7 DEF EdgeNext
  <1>3. Inv => AnswersHold
    OBVIOUS
  <1> QED BY <1>1, <1>2, <1>3, PTL DEF EdgeSpec

-----------------------------------------------------------------------------
(***************************************************************************)
(* The operator's scripts.                                                 *)
(***************************************************************************)

Logged == {"none", "read", "NOT_FOUND", "SUCCESS", "FAILED"}
Ready == {"deploy", "trust", "fund"}
Governance == {"freeze", "unfreeze", "bogus", "real"}

ScriptTypes ==
  /\ script \in {"proof", "cycle", "create"}
  /\ pc \in 1 .. Length
  /\ steps \in [1 .. Length -> Logged]
  /\ status \in {"NOT_FOUND", "SUCCESS", "FAILED"}
  /\ acct \in [frozen : BOOLEAN, policy : {"real", "bogus"}, has : SUBSET Ready]
  /\ DOMAIN inflight = Signer

\* A transaction the network holds is of a step that was reached.
Tagged ==
  \A k \in Signer : inflight[k] # NoTx =>
    /\ inflight[k].pc \in 1 .. pc
    /\ StepOf(inflight[k].pc).signer = k
    /\ StepOf(inflight[k].pc).does = inflight[k].does

\* Only gov_proof freezes, only the governance scripts rotate, and only a new
\* account has yet to be made.
Untouched ==
  /\ script # "proof" => ~acct.frozen
  /\ script = "create" => acct.policy = "real"
  /\ script # "create" => acct.has = Ready

\* What lies ahead of a script that runs has not been logged.
Unwritten == ended = "running" => \A i \in pc .. Length : steps[i] = "none"

\* Once a call of a key succeeded, the network holds no earlier one of that key.
NotOvertaken ==
  \A i \in 1 .. Length : Admins(i) /\ steps[i] = "SUCCESS" =>
    LET k == StepOf(i).signer IN inflight[k] # NoTx => inflight[k].pc > i

Polling == ended = "running" /\ stage = "settle"

\* The same of the call that is awaited, which is not logged yet.
AwaitedHolds ==
  Polling /\ status = "SUCCESS" =>
    /\ inflight[Here.signer] = NoTx
    /\ Admins(pc) => Holds(Here.does)

\* The evidence of the payment that is awaited.
AwaitedIsSound ==
  /\ Polling /\ Here.does = "pay" /\ status \in {"SUCCESS", "FAILED"}
  /\ \A j \in 1 .. pc - 1 : Admins(j) => steps[j] = "SUCCESS"
  => (status = "FAILED" <=> StepOf(pc - 1).does \in {"freeze", "bogus"})

ScriptInv ==
  /\ ScriptTypes /\ Tagged /\ Untouched /\ Unwritten
  /\ NotOvertaken /\ AwaitedHolds /\ AwaitedIsSound
  /\ LastWordHolds /\ EvidenceIsSound

-----------------------------------------------------------------------------
(* What the three scripts consist of.                                      *)

LEMMA StepsOfProof ==
  ASSUME script = "proof"
  PROVE  /\ Length = 10
         /\ StepOf(1) = Reads /\ StepOf(2) = Steal /\ StepOf(3) = Admin("freeze")
         /\ StepOf(4) = Pay /\ StepOf(5) = Admin("unfreeze") /\ StepOf(6) = Admin("bogus")
         /\ StepOf(7) = Pay /\ StepOf(8) = Admin("real") /\ StepOf(9) = Pay /\ StepOf(10) = Reads
  BY DEF Length, StepOf, StepsOf, GovProof

LEMMA StepsOfCycle ==
  ASSUME script = "cycle"
  PROVE  /\ Length = 6
         /\ StepOf(1) = Reads /\ StepOf(2) = Admin("bogus") /\ StepOf(3) = Pay
         /\ StepOf(4) = Admin("real") /\ StepOf(5) = Pay /\ StepOf(6) = Reads
  BY DEF Length, StepOf, StepsOf, GovRotateCycle

LEMMA StepsOfCreate ==
  ASSUME script = "create"
  PROVE  /\ Length = 7
         /\ StepOf(1) = [signer |-> "payee", does |-> "trust"] /\ StepOf(2) = Admin("deploy")
         /\ StepOf(3) = Reads /\ StepOf(4) = [signer |-> "op", does |-> "fund"]
         /\ StepOf(5) = Reads /\ StepOf(6) = Admin("pay") /\ StepOf(7) = Reads
  BY DEF Length, StepOf, StepsOf, CreateUser

\* Who signs what.  Governance calls are signed by one key, the admin's.
LEMMA StepsAreSigned ==
  ASSUME script \in {"proof", "cycle", "create"}, NEW i \in 1 .. Length
  PROVE  /\ StepOf(i).signer \in Signer
         /\ StepOf(i).does \in Governance \cup Ready \cup {"read", "pay", "steal"}
         /\ StepOf(i).does \in Governance => StepOf(i).signer = "admin"
         /\ script # "proof" => StepOf(i).does # "freeze"
         /\ script = "create" => StepOf(i).does # "bogus"
  <1> USE DEF Signer, Governance, Ready, Reads, Steal, Pay, Admin
  <1>1. CASE script = "proof"
    <2>1. i \in 1 .. 10
      BY <1>1, StepsOfProof
    <2> QED BY <2>1, <1>1, StepsOfProof
  <1>2. CASE script = "cycle"
    <2>1. i \in 1 .. 6
      BY <1>2, StepsOfCycle
    <2> QED BY <2>1, <1>2, StepsOfCycle
  <1>3. CASE script = "create"
    <2>1. i \in 1 .. 7
      BY <1>3, StepsOfCreate
    <2> QED BY <2>1, <1>3, StepsOfCreate
  <1> QED BY <1>1, <1>2, <1>3

LEMMA PaymentsPlaces ==
  ASSUME script \in {"proof", "cycle", "create"}, NEW i \in 1 .. Length, StepOf(i).does = "pay"
  PROVE  \/ script = "proof" /\ i \in {4, 7, 9}
         \/ script = "cycle" /\ i \in {3, 5}
         \/ script = "create" /\ i = 6
  <1> USE DEF Reads, Steal, Pay, Admin
  <1>1. CASE script = "proof"
    <2>1. i \in 1 .. 10
      BY <1>1, StepsOfProof
    <2> QED BY <2>1, <1>1, StepsOfProof
  <1>2. CASE script = "cycle"
    <2>1. i \in 1 .. 6
      BY <1>2, StepsOfCycle
    <2> QED BY <2>1, <1>2, StepsOfCycle
  <1>3. CASE script = "create"
    <2>1. i \in 1 .. 7
      BY <1>3, StepsOfCreate
    <2> QED BY <2>1, <1>3, StepsOfCreate
  <1> QED BY <1>1, <1>2, <1>3

\* Holds, of an account that need not be the present one.
HoldsOf(a, does) ==
  CASE About(does) = "frozen" -> a.frozen = (does = "freeze")
    [] About(does) = "policy" -> a.policy = does
    [] does \in Ready -> does \in a.has
    [] OTHER -> TRUE

LEMMA SameScript ==
  ASSUME script' = script
  PROVE  /\ Length' = Length
         /\ \A i : StepOf(i)' = StepOf(i) /\ (Admins(i)' <=> Admins(i))
  BY DEF Length, StepOf, Admins

-----------------------------------------------------------------------------
(* Steps of the scripts.                                                   *)

\* What a step of a script has in common with every other: it goes forward, it
\* logs at most its own status, and it sends at most its own call.
Moves(how) ==
  \/ steps' = steps
  \/ steps' = [steps EXCEPT ![pc] = how] /\ (ended' = "running" => pc' > pc)

LEMMA FinishMoves ==
  ASSUME ScriptTypes, NEW how \in Logged, Finish(how)
  PROVE  pc' \in pc .. Length /\ Moves(how) /\ stage' = "call"
  BY DEF ScriptTypes, Finish, Moves, Length, StepsOf

LEMMA RaiseMoves ==
  ASSUME ScriptTypes, Raise
  PROVE  /\ pc' \in pc .. Length /\ steps' = steps
         /\ ended' = "running" => stage' = "call"
  <1>1. Guarded # {} => Guarded = {2, 3} /\ Length = 6 
    BY StepsOfCycle DEF Guarded
  <1> QED BY <1>1 DEF ScriptTypes, Raise, Finally, Guarded

LEMMA ScriptStepMoves ==
  ASSUME ScriptTypes, ScriptStep
  PROVE  /\ script' = script /\ acct' = acct /\ ended = "running"
         /\ pc' \in pc .. Length
         /\ \E how \in Logged :
              /\ Moves(how)
              /\ how \in {"SUCCESS", "FAILED"} =>
                   stage = "settle" /\ how = status /\ inflight' = inflight
         /\ inflight' = inflight \/ inflight' = Accepted
         /\ status' \in {status, "NOT_FOUND"}
         /\ ended' = "running" /\ stage' = "settle" => status' = "NOT_FOUND"
  <1> USE DEF chainVars
  <1>0. script' = script /\ ended = "running"
    BY DEF ScriptStep
  <1>1. CASE ReadStep
    <2>1. CASE Finish("read")
      BY <1>0, <1>1, <2>1, FinishMoves DEF ReadStep, Logged
    <2>2. CASE Raise
      BY <1>0, <1>1, <2>2, RaiseMoves DEF ReadStep, Moves, Logged
    <2> QED BY <1>1, <2>1, <2>2 DEF ReadStep
  <1>2. CASE BuildCall
    <2>1. CASE Raise
      BY <1>0, <1>2, <2>1, RaiseMoves DEF BuildCall, Moves, Logged
    <2>2. CASE ~Raise
      BY <1>0, <1>2, <2>2 DEF BuildCall, Moves, Logged, ScriptTypes
    <2> QED BY <2>1, <2>2
  <1>3. CASE SendCall
    BY <1>0, <1>3 DEF SendCall, Moves, Logged, ScriptTypes
  <1>4. CASE Settle
    <2>1. Finish(status) /\ status \in Logged
      BY <1>4 DEF Settle, ScriptTypes, Logged
    <2> QED BY <1>0, <1>4, <2>1, FinishMoves DEF Settle
  <1>5. CASE RpcThrows
    <2>1. CASE Finish("none")
      BY <1>0, <1>5, <2>1, FinishMoves DEF RpcThrows, Logged
    <2>2. CASE Raise
      BY <1>0, <1>5, <2>2, RaiseMoves DEF RpcThrows, Moves, Logged
    <2> QED BY <1>5, <2>1, <2>2 DEF RpcThrows
  <1> QED BY <1>1, <1>2, <1>3, <1>4, <1>5 DEF ScriptStep

LEMMA ScriptStepKeeps ==
  ASSUME ScriptInv, ScriptStep
  PROVE  ScriptInv'
  <1>1. /\ script' = script /\ acct' = acct /\ ended = "running"
        /\ pc' \in pc .. Length
        /\ inflight' = inflight \/ inflight' = Accepted
        /\ status' \in {status, "NOT_FOUND"}
        /\ ended' = "running" /\ stage' = "settle" => status' = "NOT_FOUND"
    BY ScriptStepMoves DEF ScriptInv
  <1>2. PICK how \in Logged :
          /\ Moves(how)
          /\ how \in {"SUCCESS", "FAILED"} =>
               stage = "settle" /\ how = status /\ inflight' = inflight
    BY ScriptStepMoves DEF ScriptInv
  <1>3. /\ Length' = Length
        /\ \A i : StepOf(i)' = StepOf(i) /\ (Admins(i)' <=> Admins(i))
    BY <1>1, SameScript
  <1>4. pc \in 1 .. Length /\ pc' \in 1 .. Length /\ Length \in Nat
    BY <1>1 DEF ScriptInv, ScriptTypes, Length, StepsOf
  <1>5. \A i \in 1 .. Length : steps'[i] = IF steps' # steps /\ i = pc THEN how ELSE steps[i]
    BY <1>2, <1>4 DEF Moves, ScriptInv, ScriptTypes
  <1>6. \A i \in pc .. Length : steps[i] = "none"
    BY <1>1 DEF ScriptInv, Unwritten
  <1>7. ScriptTypes'
    BY <1>1, <1>2, <1>3, <1>4 DEF ScriptInv, ScriptTypes, Moves, Accepted
  <1>8. Tagged'
    <2>1. ASSUME NEW k \in Signer, inflight'[k] # NoTx
          PROVE  /\ inflight'[k].pc \in 1 .. pc'
                 /\ StepOf(inflight'[k].pc).signer = k
                 /\ StepOf(inflight'[k].pc).does = inflight'[k].does
      <3>1. CASE inflight'[k] = inflight[k]
        BY <2>1, <3>1, <1>1, <1>4 DEF ScriptInv, Tagged
      <3>2. CASE inflight'[k] # inflight[k]
        BY <2>1, <3>2, <1>1, <1>4 DEF Accepted, Here, ScriptInv, ScriptTypes
      <3> QED BY <3>1, <3>2
    <2> QED BY <2>1, <1>3 DEF Tagged
  <1>9. Untouched'
    BY <1>1 DEF ScriptInv, Untouched
  <1>10. Unwritten'
    <2>1. ASSUME ended' = "running", NEW i \in pc' .. Length PROVE steps'[i] = "none"
      BY <2>1, <1>1, <1>2, <1>4, <1>5, <1>6 DEF Moves
    <2> QED BY <2>1, <1>3 DEF Unwritten
  <1>11. NotOvertaken'
    <2>1. ASSUME NEW i \in 1 .. Length, Admins(i), steps'[i] = "SUCCESS",
                 inflight'[StepOf(i).signer] # NoTx
          PROVE  inflight'[StepOf(i).signer].pc > i
      <3>1. StepOf(i).signer \in Signer
        BY StepsAreSigned DEF ScriptInv, ScriptTypes
      <3>2. CASE steps[i] = "SUCCESS"
        <4>1. i < pc
          BY <3>2, <1>4, <1>6
        <4>2. CASE inflight'[StepOf(i).signer] = inflight[StepOf(i).signer]
          BY <2>1, <3>2, <4>2 DEF ScriptInv, NotOvertaken
        <4>3. CASE inflight'[StepOf(i).signer] # inflight[StepOf(i).signer]
          BY <3>1, <4>1, <4>3, <1>1 DEF Accepted, ScriptInv, ScriptTypes
        <4> QED BY <4>2, <4>3
      <3>3. CASE steps[i] # "SUCCESS"
        <4>1. i = pc /\ how = "SUCCESS"
          BY <2>1, <3>3, <1>5
        <4> QED BY <2>1, <4>1, <1>1, <1>2 DEF ScriptInv, AwaitedHolds, Polling, Here
      <3> QED BY <3>2, <3>3
    <2> QED BY <2>1, <1>3 DEF NotOvertaken
  <1>12. AwaitedHolds' /\ AwaitedIsSound'
    BY <1>1 DEF AwaitedHolds, AwaitedIsSound, Polling
  <1>13. LastWordHolds'
    <2>1. ASSUME NEW i \in 1 .. Length, Admins(i), steps'[i] = "SUCCESS",
                 \A j \in i + 1 .. Length :
                   Admins(j) /\ About(StepOf(j).does) = About(StepOf(i).does)
                     => steps'[j] = "none" /\ j > pc'
          PROVE  Holds(StepOf(i).does)
      <3>1. CASE steps[i] = "SUCCESS"
        <4>1. \A j \in i + 1 .. Length :
                steps'[j] = "none" /\ j > pc' => steps[j] = "none" /\ j > pc
          BY <1>1, <1>4, <1>5
        <4> QED BY <2>1, <3>1, <4>1 DEF ScriptInv, LastWordHolds
      <3>2. CASE steps[i] # "SUCCESS"
        <4>1. i = pc /\ how = "SUCCESS"
          BY <2>1, <3>2, <1>5
        <4> QED BY <2>1, <4>1, <1>1, <1>2 DEF ScriptInv, AwaitedHolds, Polling, Here
      <3> QED BY <3>1, <3>2
    <2>2. \A i : Holds(StepOf(i).does)' = Holds(StepOf(i).does)
      BY <1>1, <1>3 DEF Holds
    <2> QED BY <2>1, <2>2, <1>3 DEF LastWordHolds, About
  <1>14. EvidenceIsSound'
    <2>1. ASSUME NEW i \in 1 .. Length, StepOf(i).does = "pay",
                 steps'[i] \in {"SUCCESS", "FAILED"},
                 \A j \in 1 .. i - 1 : Admins(j) => steps'[j] = "SUCCESS"
          PROVE  steps'[i] = "FAILED" <=> StepOf(i - 1).does \in {"freeze", "bogus"}
      <3>1. i <= pc
        BY <2>1, <1>4, <1>5, <1>6
      <3>2. \A j \in 1 .. i - 1 : steps'[j] = steps[j]
        BY <3>1, <1>4, <1>5
      <3>3. CASE steps'[i] = steps[i]
        BY <2>1, <3>2, <3>3 DEF ScriptInv, EvidenceIsSound
      <3>4. CASE steps'[i] # steps[i]
        <4>1. i = pc /\ steps'[i] = how
          BY <3>4, <1>5
        <4> QED BY <2>1, <3>2, <4>1, <1>1, <1>2 DEF ScriptInv, AwaitedIsSound, Polling, Here
      <3> QED BY <3>3, <3>4
    <2> QED BY <2>1, <1>3 DEF EvidenceIsSound
  <1> QED BY <1>7, <1>8, <1>9, <1>10, <1>11, <1>12, <1>13, <1>14 DEF ScriptInv

-----------------------------------------------------------------------------
(* Steps of the network.                                                   *)

\* A payment is taken as the calls before it have left the account.
LEMMA PaymentsOutcome ==
  ASSUME ScriptInv, Polling, Here.does = "pay",
         \A j \in 1 .. pc - 1 : Admins(j) => steps[j] = "SUCCESS"
  PROVE  Succeeds("pay") <=> StepOf(pc - 1).does \notin {"freeze", "bogus"}
  <1> USE DEF Admin, Pay, Reads, Steal
  <1>1. pc \in 1 .. Length /\ Length \in Nat /\ StepOf(pc).does = "pay"
        /\ \A j \in pc .. Length : steps[j] = "none"
    BY StepsOfProof, StepsOfCycle, StepsOfCreate
    DEF ScriptInv, ScriptTypes, Here, Unwritten, Polling
  <1>2. \/ script = "proof" /\ pc \in {4, 7, 9}
        \/ script = "cycle" /\ pc \in {3, 5}
        \/ script = "create" /\ pc = 6
    BY <1>1, PaymentsPlaces DEF ScriptInv, ScriptTypes
  <1>3. ASSUME NEW i \in 1 .. pc - 1, Admins(i),
               \A j \in i + 1 .. pc : Admins(j) => About(StepOf(j).does) # About(StepOf(i).does)
        PROVE  Holds(StepOf(i).does)
    <2>1. i \in 1 .. Length /\ steps[i] = "SUCCESS"
      BY <1>1, <1>3
    <2>2. \A j \in i + 1 .. Length :
            Admins(j) /\ About(StepOf(j).does) = About(StepOf(i).does) => steps[j] = "none" /\ j > pc
      BY <1>1, <1>3
    <2> QED BY <1>3, <2>1, <2>2 DEF ScriptInv, LastWordHolds
  <1>4. CASE script = "proof" /\ pc = 4
    BY <1>4, <1>3, StepsOfProof DEF Admins, About, Holds, Succeeds, ScriptInv, ScriptTypes
  <1>5. CASE script = "proof" /\ pc = 7
    BY <1>5, <1>3, StepsOfProof DEF Admins, About, Holds, Succeeds, ScriptInv, ScriptTypes
  <1>6. CASE script = "proof" /\ pc = 9
    <2>1. Holds("unfreeze") /\ Holds("real")
      BY <1>6, <1>3, StepsOfProof DEF Admins, About
    <2> QED BY <1>6, <2>1, StepsOfProof
            DEF About, Holds, Succeeds, ScriptInv, ScriptTypes, Untouched, Ready
  <1>7. CASE script = "cycle" /\ pc = 3
    BY <1>7, <1>3, StepsOfCycle DEF Admins, About, Holds, Succeeds, ScriptInv, ScriptTypes
  <1>8. CASE script = "cycle" /\ pc = 5
    <2>1. Holds("real")
      BY <1>8, <1>3, StepsOfCycle DEF Admins, About
    <2> QED BY <1>8, <2>1, StepsOfCycle
            DEF About, Holds, Succeeds, ScriptInv, ScriptTypes, Untouched, Ready
  <1>9. CASE script = "create" /\ pc = 6
    <2>1. Holds("trust") /\ Holds("deploy") /\ Holds("fund")
      BY <1>9, <1>3, StepsOfCreate DEF Admins, About
    <2>2. acct.has = {"deploy", "trust", "fund"}
      BY <2>1 DEF Holds, About, ScriptInv, ScriptTypes, Ready
    <2> QED BY <1>9, <2>2, StepsOfCreate DEF Succeeds, ScriptInv, Untouched
  <1> QED BY <1>2, <1>4, <1>5, <1>6, <1>7, <1>8, <1>9

LEMMA TakeTxKeeps ==
  ASSUME ScriptInv, NEW k \in Signer, TakeTx(k)
  PROVE  ScriptInv'
  <1> DEFINE call == inflight[k]
             how == IF Succeeds(call.does) THEN "SUCCESS" ELSE "FAILED"
             own == stage = "settle" /\ call.pc = pc /\ call.try = attempts
  <1>1. /\ call # NoTx
        /\ acct' = IF Succeeds(call.does) THEN After(call.does) ELSE acct
        /\ status' = IF own THEN how ELSE status
        /\ inflight' = [inflight EXCEPT ![k] = NoTx]
        /\ UNCHANGED <<script, exports, pc, stage, attempts, read, raising, ended, steps>>
    BY DEF TakeTx
  <1>2. /\ Length' = Length
        /\ \A i : StepOf(i)' = StepOf(i) /\ (Admins(i)' <=> Admins(i))
    BY <1>1, SameScript
  <1>3. /\ call.pc \in 1 .. pc /\ call.pc \in 1 .. Length
        /\ StepOf(call.pc).signer = k /\ StepOf(call.pc).does = call.does
    BY <1>1 DEF ScriptInv, ScriptTypes, Tagged, Length, StepsOf
  <1>4. /\ call.does \in Governance \cup Ready \cup {"read", "pay", "steal"}
        /\ call.does \in Governance => k = "admin"
        /\ script # "proof" => call.does # "freeze"
        /\ script = "create" => call.does # "bogus"
    BY <1>3, StepsAreSigned DEF ScriptInv, ScriptTypes
  <1>5. \A q \in Signer : inflight'[q] = IF q = k THEN NoTx ELSE inflight[q]
    BY <1>1 DEF ScriptInv, ScriptTypes
  <1> HIDE DEF call
  <1>6. ScriptTypes'
    BY <1>1, <1>2, <1>4 DEF ScriptInv, ScriptTypes, After, Ready, Governance
  <1>7. Tagged'
    BY <1>1, <1>2, <1>5 DEF ScriptInv, Tagged
  <1>8. Untouched'
    BY <1>1, <1>4 DEF ScriptInv, ScriptTypes, Untouched, After, Ready, Governance
  <1>9. Unwritten'
    BY <1>1, <1>2 DEF ScriptInv, Unwritten
  <1>10. NotOvertaken'
    <2>1. ASSUME NEW i \in 1 .. Length, Admins(i), steps[i] = "SUCCESS",
                 inflight'[StepOf(i).signer] # NoTx
          PROVE  inflight'[StepOf(i).signer].pc > i
      <3>1. StepOf(i).signer \in Signer
        BY StepsAreSigned DEF ScriptInv, ScriptTypes
      <3> QED BY <2>1, <3>1, <1>5 DEF ScriptInv, NotOvertaken
    <2> QED BY <2>1, <1>1, <1>2 DEF NotOvertaken
  \* The call changes what it is about only, and only governance undoes anything.
  <1>11. ASSUME NEW d \in Governance \cup Ready, Holds(d),
                ~(call.does \in Governance /\ About(call.does) = About(d))
         PROVE  HoldsOf(acct', d)
    BY <1>1, <1>4, <1>11 DEF Holds, HoldsOf, About, After, Governance, Ready, ScriptInv, ScriptTypes
  <1>12. Succeeds(call.does) /\ call.does \in Governance \cup Ready => HoldsOf(acct', call.does)
    BY <1>1 DEF HoldsOf, About, After, Governance, Ready, ScriptInv, ScriptTypes
  <1>18. \A i \in 1 .. Length : Holds(StepOf(i).does)' = HoldsOf(acct', StepOf(i).does)
    BY <1>2 DEF Holds, HoldsOf, About, Ready
  <1>13. ASSUME NEW i \in 1 .. Length, Admins(i)
         PROVE  StepOf(i).does \in Governance \cup Ready
    BY <1>13, StepsAreSigned DEF ScriptInv, ScriptTypes, Admins
  <1>14. AwaitedHolds'
    <2>1. SUFFICES ASSUME Polling, status' = "SUCCESS"
                   PROVE  /\ inflight'[Here.signer] = NoTx
                          /\ Admins(pc) => HoldsOf(acct', Here.does)
      <3>1. Here' = Here /\ Holds(Here.does)' = HoldsOf(acct', Here.does)
        BY <1>1, <1>2 DEF Here, Holds, HoldsOf, About, Ready
      <3> QED BY <3>1, <1>1, <1>2 DEF AwaitedHolds, Polling
    <2>2. Here.signer \in Signer /\ pc \in 1 .. Length
      BY StepsAreSigned DEF Here, ScriptInv, ScriptTypes
    <2>3. CASE own
      BY <2>1, <2>2, <2>3, <1>1, <1>3, <1>5, <1>12, <1>13 DEF Here
    <2>4. CASE ~own
      <3>1. inflight[Here.signer] = NoTx /\ (Admins(pc) => Holds(Here.does))
        BY <2>1, <2>4, <1>1 DEF ScriptInv, AwaitedHolds
      <3>2. k # Here.signer
        BY <3>1, <1>1 DEF call
      <3>3. Admins(pc) => Here.does \in Governance \cup Ready
        BY <2>2, <1>13 DEF Here
      <3>4. Here.does \in Governance => Here.signer = "admin"
        BY <2>2, StepsAreSigned DEF Here, ScriptInv, ScriptTypes
      <3>5. Admins(pc) => ~(call.does \in Governance /\ About(call.does) = About(Here.does))
        BY <3>2, <3>3, <3>4, <1>4 DEF About, Governance, Ready
      <3> QED BY <2>2, <3>1, <3>2, <3>3, <3>5, <1>5, <1>11
    <2> QED BY <2>3, <2>4
  <1>15. AwaitedIsSound'
    <2>1. SUFFICES ASSUME Polling, Here.does = "pay", status' \in {"SUCCESS", "FAILED"},
                          \A j \in 1 .. pc - 1 : Admins(j) => steps[j] = "SUCCESS"
                   PROVE  status' = "FAILED" <=> StepOf(pc - 1).does \in {"freeze", "bogus"}
      BY <1>1, <1>2 DEF AwaitedIsSound, Polling, Here
    <2>2. CASE own
      <3>1. call.does = "pay"
        BY <2>1, <2>2, <1>3 DEF Here
      <3> QED BY <2>1, <2>2, <3>1, <1>1, PaymentsOutcome
    <2>3. CASE ~own
      BY <2>1, <2>3, <1>1 DEF ScriptInv, AwaitedIsSound
    <2> QED BY <2>2, <2>3
  <1>16. LastWordHolds'
    <2>1. ASSUME NEW i \in 1 .. Length, Admins(i), steps[i] = "SUCCESS",
                 \A j \in i + 1 .. Length :
                   Admins(j) /\ About(StepOf(j).does) = About(StepOf(i).does)
                     => steps[j] = "none" /\ j > pc
          PROVE  HoldsOf(acct', StepOf(i).does)
      <3>1. Holds(StepOf(i).does)
        BY <2>1 DEF ScriptInv, LastWordHolds
      <3>2. StepOf(i).does \in Governance \cup Ready
        BY <2>1, <1>13
      <3>3. ASSUME call.does \in Governance, About(call.does) = About(StepOf(i).does)
            PROVE  FALSE
        <4>1. StepOf(i).does \in Governance
          BY <3>2, <3>3 DEF Governance, Ready, About
        <4>2. StepOf(i).signer = k
          BY <4>1, <3>3, <1>4, StepsAreSigned DEF ScriptInv, ScriptTypes
        <4>3. call.pc > i
          BY <4>2, <2>1, <1>1 DEF ScriptInv, NotOvertaken, call
        <4>4. Admins(call.pc)
          BY <3>3, <1>3 DEF Admins, Governance
        <4> QED BY <4>3, <4>4, <2>1, <3>3, <1>3 DEF ScriptInv, ScriptTypes
      <3> QED BY <3>1, <3>2, <3>3, <1>11
    <2>2. ASSUME NEW i \in 1 .. Length, HoldsOf(acct', StepOf(i).does)
          PROVE  Holds(StepOf(i).does)'
      BY <2>2, <1>18
    <2> QED BY <2>1, <2>2, <1>1, <1>2 DEF LastWordHolds, About
  <1>17. EvidenceIsSound'
    BY <1>1, <1>2 DEF ScriptInv, EvidenceIsSound
  <1> QED BY <1>6, <1>7, <1>8, <1>9, <1>10, <1>14, <1>15, <1>16, <1>17 DEF ScriptInv

LEMMA LoseTxKeeps ==
  ASSUME ScriptInv, NEW k \in Signer, LoseTx(k)
  PROVE  ScriptInv'
  <1>1. /\ inflight' = [inflight EXCEPT ![k] = NoTx]
        /\ UNCHANGED <<script, pc, stage, status, ended, steps, acct>>
    BY DEF LoseTx, scriptLocals
  <1>2. /\ Length' = Length
        /\ \A i : StepOf(i)' = StepOf(i) /\ (Admins(i)' <=> Admins(i))
    BY <1>1, SameScript
  <1>3. \A q \in Signer : inflight'[q] = IF q = k THEN NoTx ELSE inflight[q]
    BY <1>1 DEF ScriptInv, ScriptTypes
  <1>4. \A i \in 1 .. Length : StepOf(i).signer \in Signer
    BY StepsAreSigned DEF ScriptInv, ScriptTypes
  <1>5. \A d : Holds(d)' = Holds(d)
    BY <1>1 DEF Holds
  <1>6. ScriptTypes' /\ Tagged' /\ Untouched' /\ Unwritten'
    BY <1>1, <1>2, <1>3 DEF ScriptInv, ScriptTypes, Tagged, Untouched, Unwritten
  <1>7. NotOvertaken'
    BY <1>1, <1>2, <1>3, <1>4 DEF ScriptInv, NotOvertaken
  <1>8. AwaitedHolds' /\ AwaitedIsSound'
    BY <1>1, <1>2, <1>3, <1>4, <1>5
    DEF ScriptInv, ScriptTypes, AwaitedHolds, AwaitedIsSound, Polling, Here
  <1>9. LastWordHolds' /\ EvidenceIsSound'
    BY <1>1, <1>2, <1>5 DEF ScriptInv, LastWordHolds, EvidenceIsSound, About
  <1> QED BY <1>6, <1>7, <1>8, <1>9 DEF ScriptInv

\* The invariant that the two theorems on the operator scripts rest on: what a
\* script has logged, what it is polling for and what can still be taken agree
\* with how the account is (gov_proof.mjs, gov_rotate_cycle.mjs, create_user.mjs).
THEOREM ScriptInvariant == ScriptSpec => []ScriptInv
  <1>1. ScriptInit => ScriptInv
    <2> SUFFICES ASSUME ScriptInit PROVE ScriptInv
      OBVIOUS
    <2>1. script \in {"proof", "cycle", "create"}
      BY ScriptAssumption DEF ScriptInit
    <2>2. Length \in Nat /\ 1 \in 1 .. Length
      BY <2>1, StepsOfProof, StepsOfCycle, StepsOfCreate
    <2>3. ScriptTypes
      BY <2>1, <2>2 DEF ScriptInit, ScriptTypes, Logged, Ready
    <2>4. \A i \in 1 .. Length : steps[i] = "none"
      BY DEF ScriptInit
    <2>5. \A k \in Signer : inflight[k] = NoTx
      BY DEF ScriptInit
    <2>6. /\ Tagged /\ Untouched /\ Unwritten /\ NotOvertaken
          /\ AwaitedHolds /\ AwaitedIsSound
      BY <2>2, <2>4, <2>5 DEF ScriptInit, Tagged, Untouched, Unwritten, NotOvertaken,
            AwaitedHolds, AwaitedIsSound, Polling, Ready
    <2>7. LastWordHolds /\ EvidenceIsSound
      BY <2>4 DEF LastWordHolds, EvidenceIsSound
    <2> QED BY <2>3, <2>6, <2>7 DEF ScriptInv
  <1>2. ScriptInv /\ [ScriptNext]_scriptVars => ScriptInv'
    <2> SUFFICES ASSUME ScriptInv, [ScriptNext]_scriptVars PROVE ScriptInv'
      OBVIOUS
    <2>1. CASE ScriptStep
      BY <2>1, ScriptStepKeeps
    <2>2. ASSUME NEW k \in Signer, TakeTx(k) \/ LoseTx(k) PROVE ScriptInv'
      BY <2>2, TakeTxKeeps, LoseTxKeeps
    <2>3. CASE UNCHANGED scriptVars
      BY <2>3 DEF scriptVars, scriptLocals, chainVars, ScriptInv, ScriptTypes, Tagged, Untouched,
            Unwritten, NotOvertaken, AwaitedHolds, AwaitedIsSound, LastWordHolds, EvidenceIsSound,
            Polling, Here, StepOf, Length, Admins, Holds, About
    <2> QED BY <2>1, <2>2, <2>3 DEF ScriptNext
  <1> QED BY <1>1, <1>2, PTL DEF ScriptSpec

\* A governance call, deployment or funding that a script logged as SUCCESS says how
\* the account is from then on: retries, losses and throws leave nothing that could
\* overtake it (gov_proof.mjs, gov_rotate_cycle.mjs, create_user.mjs).
THEOREM LastWordAlwaysHolds == ScriptSpec => []LastWordHolds
  <1>1. ScriptInv => LastWordHolds
    BY DEF ScriptInv
  <1> QED BY <1>1, ScriptInvariant, PTL

\* A payment that landed was rejected exactly when the call before it froze the
\* account or rotated its policy away: what the scripts print is evidence.
THEOREM EvidenceIsAlwaysSound == ScriptSpec => []EvidenceIsSound
  <1>1. ScriptInv => EvidenceIsSound
    BY DEF ScriptInv
  <1> QED BY <1>1, ScriptInvariant, PTL
=============================================================================
