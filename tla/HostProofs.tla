----------------------------- MODULE HostProofs -----------------------------
(***************************************************************************)
(* The host only makes the account take its own steps, so what is proved   *)
(* of the account holds under it, and the account's budget counts exactly  *)
(* the money that leaves; and what the answers of the relayer in front of  *)
(* it are worth, for any number of concurrent requests.                    *)
(***************************************************************************)
EXTENDS Relay, NulthAccountProofs

\* Under the host, too, the account only takes its own steps: every theorem of
\* NulthAccountProofs holds of the deployed account.
THEOREM HostImplementsAccount == HostSpec => Spec
<1>1. HostInit => Init
  BY DEF HostInit
<1>2. [HostNext]_<<vars, hostVars>> => [Next]_vars
  <2> SUFFICES ASSUME [HostNext]_<<vars, hostVars>>
               PROVE  [Next]_vars
    OBVIOUS
  <2>1. CASE CloseLedger \/ Govern
    BY <2>1 DEF Next, Govern
  <2>2. ASSUME NEW t \in Asset, NEW a \in Deposits, Deposit(t, a)
        PROVE  UNCHANGED vars
    BY <2>2 DEF Deposit
  <2>3. ASSUME NEW calls \in CallLists, NEW e \in Entries, Submit(calls, e)
        PROVE  Next
    <3>1. CallOf(e) \in AuthCalls
      BY HostAssumption
    <3> QED
      BY <2>3, <3>1 DEF Submit, Next
  <2>4. CASE UNCHANGED <<vars, hostVars>>
    BY <2>4
  <2> QED
    BY <2>1, <2>2, <2>3, <2>4 DEF HostNext, World
<1> QED
  BY <1>1, <1>2, PTL DEF HostSpec, Spec

\* The two-budget bound holds of the account in its host, whatever transactions
\* fail, expire or are replayed around it.
COROLLARY HostTwoBudgets == HostSpec => []TwoBudgetBound
  BY HostImplementsAccount, TwoBudgets, PTL

\* So does the timelock: no payment, settled or reverted, shortens the wait.
COROLLARY HostTimelock == HostSpec => PolicyChangeWasStaged
  BY HostImplementsAccount, TimelockHolds, PTL

-----------------------------------------------------------------------------
\* A transaction that succeeds is one transfer of the pinned token.
LEMMA SubmittedCall ==
  ASSUME TypeOK, NEW calls \in CallLists, NEW e \in Entries, Submit(calls, e)
  PROVE  /\ calls[1].contract = conf.token
         /\ calls[1].from = Self
         /\ calls[1].to \in Address
         /\ calls[1].amount \in Nat \ {0}
         /\ calls[1].amount <= CapOf[pol]
         /\ DestField[calls[1].to] \in MembersOf[root]
         /\ ~frozen
         /\ e.nonce \notin consumed
         /\ total' = [total EXCEPT ![now] = @ + calls[1].amount]
         /\ UNCHANGED <<now, conf>>
<1>1. /\ e.contexts = calls
      /\ e.nonce \notin consumed
      /\ AuthVerdict(CallOf(e)) = "Ok"
  BY DEF Submit, EntryVerdict
<1>2. CallOf(e) \in AuthCalls /\ CallOf(e).contexts = calls
  BY <1>1, HostAssumption DEF CallOf
<1>3. /\ ~frozen
      /\ calls[1].contract = conf.token
      /\ calls[1].from = Self
      /\ calls[1].to \in Address
      /\ DestField[calls[1].to] \in MembersOf[root]
      /\ calls[1].amount \in 1..CapOf[pol]
  BY <1>1, <1>2, AuthorizedCall
<1>4. CapOf[pol] \in Nat
  BY BoundsAssumption, DataAssumption DEF TypeOK
<1>5. calls[1].amount \in Nat \ {0} /\ calls[1].amount <= CapOf[pol]
  BY <1>3, <1>4
<1>6. /\ total' = [total EXCEPT ![now] = @ + calls[1].amount]
      /\ UNCHANGED <<now, conf>>
  BY <1>2 DEF Submit, CheckAuth
<1> QED
  BY <1>1, <1>3, <1>5, <1>6

\* A step of the host keeps the types of its own state.
LEMMA HostTypeStep ==
  ASSUME TypeOK, HostTypeOK, [HostNext]_<<vars, hostVars>>
  PROVE  HostTypeOK'
<1>1. CASE UNCHANGED hostVars
  BY <1>1 DEF hostVars, HostTypeOK
<1>2. ASSUME NEW t \in Asset, NEW a \in Deposits, Deposit(t, a)
      PROVE  HostTypeOK'
  <2>1. a \in Int /\ Self \in Address
    BY HostAssumption, DataAssumption
  <2>2. balance[t][Self] \in Int /\ inflow[t] \in Int
    BY <2>1 DEF HostTypeOK
  <2>3. balance' \in [Asset -> [Address -> Int]]
    BY <1>2, <2>1, <2>2 DEF Deposit, HostTypeOK
  <2>4. inflow' \in [Asset -> Int]
    BY <1>2, <2>1, <2>2 DEF Deposit, HostTypeOK
  <2> QED
    BY <1>2, <2>3, <2>4 DEF Deposit, HostTypeOK
<1>3. ASSUME NEW calls \in CallLists, NEW e \in Entries, Submit(calls, e)
      PROVE  HostTypeOK'
  <2> DEFINE x == calls[1]
  <2>1. x.amount \in Int /\ x.from \in Address /\ x.to \in Address
    BY <1>3, SubmittedCall, DataAssumption
  <2>2. x.contract \in Asset
    BY <1>3 DEF Submit, Payable
  <2>3. e.nonce \in Nonce
    BY HostAssumption DEF AuthEntry
  <2>4. balance' \in [Asset -> [Address -> Int]]
    BY <1>3, <2>1, <2>2 DEF Submit, Moved, HostTypeOK
  <2>5. inflow' \in [Asset -> Int]
    BY <1>3, <2>1, <2>2 DEF Submit, Credited, HostTypeOK
  <2> QED
    BY <1>3, <2>3, <2>4, <2>5 DEF Submit, HostTypeOK
<1>4. CASE UNCHANGED <<vars, hostVars>>
  BY <1>1, <1>4
<1> QED
  BY <1>1, <1>2, <1>3, <1>4 DEF HostNext, World

\* Holdings are numbers and nonces are nonces (the host's type invariant).
THEOREM HostTypeCorrect == HostSpec => []HostTypeOK
<1>1. HostInit => HostTypeOK
  BY HostAssumption DEF HostInit, HostTypeOK
<1>2. TypeOK /\ HostTypeOK /\ [HostNext]_<<vars, hostVars>> => HostTypeOK'
  BY HostTypeStep
<1> QED
  BY <1>1, <1>2, HostImplementsAccount, TypeCorrect, PTL DEF HostSpec

-----------------------------------------------------------------------------
\* What a transfer changes of the account's own holdings.
LEMMA OwnHolding ==
  ASSUME TypeOK, HostTypeOK, NEW calls \in CallLists, NEW e \in Entries,
         Submit(calls, e), NEW t \in Asset
  PROVE  inflow'[t] - balance'[t][Self] =
           inflow[t] - balance[t][Self]
             + (IF t = conf.token THEN calls[1].amount ELSE 0)
<1> DEFINE x == calls[1]
<1>1. /\ x.contract = conf.token /\ x.from = Self /\ x.to \in Address
      /\ x.amount \in Int
  BY SubmittedCall
<1>2. x.contract \in Asset /\ balance' = Moved(x) /\ inflow' = Credited(x)
  BY DEF Submit, Payable
<1>3. /\ balance[t] \in [Address -> Int] /\ balance[t][Self] \in Int
      /\ inflow[t] \in Int
  BY DataAssumption DEF HostTypeOK
<1>4. CASE t # conf.token
  <2>1. balance'[t] = balance[t] /\ inflow'[t] = inflow[t]
    BY <1>1, <1>2, <1>4 DEF Moved, Credited, HostTypeOK
  <2> QED
    BY <1>3, <1>4, <2>1
<1>5. CASE t = conf.token /\ x.to = Self
  <2>1. balance'[t][Self] = balance[t][Self] - x.amount + x.amount
    BY <1>1, <1>2, <1>5, DataAssumption DEF Moved, HostTypeOK
  <2>2. inflow'[t] = inflow[t] + x.amount
    BY <1>1, <1>2, <1>5 DEF Credited, HostTypeOK
  <2> QED
    BY <1>1, <1>3, <1>5, <2>1, <2>2
<1>6. CASE t = conf.token /\ x.to # Self
  <2>1. balance'[t][Self] = balance[t][Self] - x.amount
    BY <1>1, <1>2, <1>6, DataAssumption DEF Moved, HostTypeOK
  <2>2. inflow'[t] = inflow[t]
    BY <1>1, <1>2, <1>6 DEF Credited, HostTypeOK
  <2> QED
    BY <1>1, <1>3, <1>6, <2>1, <2>2
<1> QED
  BY <1>4, <1>5, <1>6

\* The budget counts the money that left, all of it and nothing else.
THEOREM MoneyAndBudgetAgree == HostSpec => []MoneyMatchesBudget
<1>1. HostInit => MoneyMatchesBudget
  <2> SUFFICES ASSUME HostInit, NEW t \in Asset
               PROVE  Opening + inflow[t] - balance[t][Self] =
                        IF t = conf.token THEN total[now] ELSE 0
    BY DEF MoneyMatchesBudget
  <2>1. inflow[t] = 0 /\ balance[t][Self] = Opening /\ Opening \in Nat
    BY HostAssumption, DataAssumption DEF HostInit
  <2>2. total[now] = 0
    BY DEF HostInit, Init, Ledger
  <2> QED
    BY <2>1, <2>2
<1>2. TypeOK /\ HostTypeOK /\ MoneyMatchesBudget /\ [HostNext]_<<vars, hostVars>>
        => MoneyMatchesBudget'
  <2> SUFFICES ASSUME TypeOK, HostTypeOK, MoneyMatchesBudget,
                      [HostNext]_<<vars, hostVars>>
               PROVE  MoneyMatchesBudget'
    OBVIOUS
  <2>1. ASSUME UNCHANGED hostVars, UNCHANGED conf, total'[now'] = total[now]
        PROVE  MoneyMatchesBudget'
    BY <2>1 DEF MoneyMatchesBudget, hostVars
  <2>2. ASSUME UNCHANGED hostVars, CloseLedger
        PROVE  MoneyMatchesBudget'
    <3>1. total'[now'] = total[now] /\ conf' = conf
      BY <2>2, BoundsAssumption DEF CloseLedger, storage, TypeOK, Ledger
    <3> QED
      BY <2>1, <2>2, <3>1
  <2>3. ASSUME UNCHANGED hostVars, Govern
        PROVE  MoneyMatchesBudget'
    <3>1. UNCHANGED <<now, conf, total>>
      BY <2>3 DEF Govern, ProposeRotation, ExecuteRotation, CancelRotation,
                  Freeze, Unfreeze, SetFrozen
    <3> QED
      BY <2>1, <2>3, <3>1
  <2>4. ASSUME NEW u \in Asset, NEW a \in Deposits, Deposit(u, a)
        PROVE  MoneyMatchesBudget'
    <3> SUFFICES ASSUME NEW t \in Asset
                 PROVE  Opening + inflow'[t] - balance'[t][Self] =
                          Opening + inflow[t] - balance[t][Self]
      BY <2>4 DEF MoneyMatchesBudget, Deposit, vars, storage
    <3>1. a \in Int /\ Self \in Address /\ Opening \in Int
      BY HostAssumption, DataAssumption
    <3>2. /\ balance[t] \in [Address -> Int] /\ balance[t][Self] \in Int
          /\ inflow[t] \in Int
      BY <3>1 DEF HostTypeOK
    <3>3. CASE t = u
      <4>1. /\ balance'[t][Self] = balance[t][Self] + a
            /\ inflow'[t] = inflow[t] + a
        BY <2>4, <3>1, <3>2, <3>3 DEF Deposit, HostTypeOK
      <4> QED
        BY <3>1, <3>2, <4>1
    <3>4. CASE t # u
      BY <2>4, <3>4 DEF Deposit, HostTypeOK
    <3> QED
      BY <3>3, <3>4
  <2>5. ASSUME NEW calls \in CallLists, NEW e \in Entries, Submit(calls, e)
        PROVE  MoneyMatchesBudget'
    <3>1. /\ conf' = conf /\ now' = now
          /\ total' = [total EXCEPT ![now] = @ + calls[1].amount]
          /\ calls[1].amount \in Int
      BY <2>5, SubmittedCall
    <3>2. total[now] \in Int /\ total'[now] = total[now] + calls[1].amount
      BY <3>1 DEF TypeOK, Ledger
    <3> SUFFICES ASSUME NEW t \in Asset
                 PROVE  Opening + inflow'[t] - balance'[t][Self] =
                          IF t = conf.token THEN total'[now] ELSE 0
      BY <3>1 DEF MoneyMatchesBudget
    <3>3. Opening + inflow[t] - balance[t][Self] =
            IF t = conf.token THEN total[now] ELSE 0
      BY DEF MoneyMatchesBudget
    <3>4. inflow'[t] - balance'[t][Self] =
            inflow[t] - balance[t][Self]
              + (IF t = conf.token THEN calls[1].amount ELSE 0)
      BY <2>5, OwnHolding
    <3>5. HostTypeOK'
      BY HostTypeStep
    <3>6. /\ Opening \in Int
          /\ inflow[t] \in Int /\ balance[t][Self] \in Int
          /\ inflow'[t] \in Int /\ balance'[t][Self] \in Int
      BY <3>5, HostAssumption, DataAssumption DEF HostTypeOK
    <3> QED
      BY <3>1, <3>2, <3>3, <3>4, <3>6
  <2>6. CASE UNCHANGED <<vars, hostVars>>
    BY <2>1, <2>6 DEF vars, storage
  <2> QED
    BY <2>2, <2>3, <2>4, <2>5, <2>6 DEF HostNext, World
<1> QED
  BY <1>1, <1>2, HostImplementsAccount, TypeCorrect, HostTypeCorrect, PTL DEF HostSpec

\* Behind a proof that has settled stands an entry whose digest it was made for,
\* and whose nonce is consumed.
SettledInv ==
  \A s \in DOMAIN settled :
    /\ settled[s] = 1
    /\ \E e \in Entries :
         e.nonce \in consumed /\ CallOf(e).payload.hi = s.hi /\ CallOf(e).payload.lo = s.lo

\* A proof is bound to one digest (BadSigPayload, lib.rs 385-388), equal digests
\* have equal nonces, and a settled transaction consumes the nonce: no proof pays
\* twice, whatever entries it is put into.
THEOREM ProofsPayOnce == HostSpec => []ProofPaysOnce
<1>1. HostInit => SettledInv
  BY DEF HostInit, SettledInv
<1>2. SettledInv /\ [HostNext]_<<vars, hostVars>> => SettledInv'
  <2> SUFFICES ASSUME SettledInv, [HostNext]_<<vars, hostVars>>
               PROVE  SettledInv'
    OBVIOUS
  <2>1. ASSUME UNCHANGED <<consumed, settled>>
        PROVE  SettledInv'
    BY <2>1 DEF SettledInv
  <2>2. ASSUME NEW calls \in CallLists, NEW e \in Entries, Submit(calls, e)
        PROVE  SettledInv'
    <3>1. e.nonce \notin consumed /\ AuthVerdict(CallOf(e)) = "Ok"
      BY <2>2 DEF Submit, EntryVerdict
    <3>2. CallOf(e).payload.hi = e.sig.hi /\ CallOf(e).payload.lo = e.sig.lo
      BY <3>1 DEF AuthVerdict, BindingVerdict, CallOf
    <3>3. e.sig \notin DOMAIN settled
      <4> SUFFICES ASSUME e.sig \in DOMAIN settled
                   PROVE  FALSE
        OBVIOUS
      <4>1. PICK f \in Entries :
              /\ f.nonce \in consumed
              /\ CallOf(f).payload.hi = e.sig.hi /\ CallOf(f).payload.lo = e.sig.lo
        BY DEF SettledInv
      <4>2. CallOf(e).payload \in [hi : Half, lo : Half] /\ CallOf(f).payload \in [hi : Half, lo : Half]
        BY HostAssumption, InputAssumption DEF AuthCall
      <4>3. CallOf(e).payload = CallOf(f).payload
        BY <3>2, <4>1, <4>2
      <4>4. e.nonce = f.nonce
        BY <4>3, HostAssumption
      <4> QED
        BY <3>1, <4>1, <4>4
    <3>4. consumed' = consumed \cup {e.nonce} /\ settled' = Counted(e.sig)
      BY <2>2 DEF Submit
    <3>5. ASSUME NEW s \in DOMAIN settled'
          PROVE  /\ settled'[s] = 1
                 /\ \E f \in Entries :
                      f.nonce \in consumed' /\ CallOf(f).payload.hi = s.hi /\ CallOf(f).payload.lo = s.lo
      <4>1. CASE s = e.sig
        <5>1. settled'[s] = 1
          BY <3>3, <3>4, <4>1 DEF Counted
        <5> QED
          BY <3>2, <3>4, <4>1, <5>1
      <4>2. CASE s # e.sig
        <5>1. s \in DOMAIN settled /\ settled'[s] = settled[s] + 0
          BY <3>4, <4>2 DEF Counted
        <5>2. settled[s] = 1
          BY <5>1 DEF SettledInv
        <5>3. PICK f \in Entries :
                f.nonce \in consumed /\ CallOf(f).payload.hi = s.hi /\ CallOf(f).payload.lo = s.lo
          BY <5>1 DEF SettledInv
        <5> QED
          BY <3>4, <5>1, <5>2, <5>3
      <4> QED
        BY <4>1, <4>2
    <3> QED
      BY <3>5 DEF SettledInv
  <2> QED
    BY <2>1, <2>2 DEF HostNext, World, Deposit, hostVars
<1>3. SettledInv => ProofPaysOnce
  BY DEF SettledInv, ProofPaysOnce
<1> QED
  BY <1>1, <1>2, <1>3, PTL DEF HostSpec

-----------------------------------------------------------------------------
\* Complete mediation, with the money in view: what leaves the account is the
\* pinned token, within the cap in force, to one member of the list in force.
THEOREM DebitsMediated == HostSpec => DebitsAreInPolicy
<1> DEFINE Out(t) == balance[t][Self] - balance'[t][Self]
           ToMember(t) ==
             /\ t = conf.token
             /\ ~frozen
             /\ Out(t) <= CapOf[pol]
             /\ \E a \in Address \ {Self} :
                  /\ DestField[a] \in MembersOf[root]
                  /\ balance'[t] = [balance[t] EXCEPT ![Self] = @ - Out(t),
                                                     ![a] = @ + Out(t)]
           InPolicy == \A t \in Asset : Out(t) > 0 => ToMember(t)
<1>1. ASSUME TypeOK, HostTypeOK, [HostNext]_<<vars, hostVars>>
      PROVE  InPolicy
  <2>1. ASSUME UNCHANGED balance
        PROVE  InPolicy
    <3>1. \A t \in Asset : balance[t][Self] \in Int
      BY <1>1, DataAssumption DEF HostTypeOK
    <3> QED
      BY <2>1, <3>1
  <2>2. ASSUME NEW u \in Asset, NEW a \in Deposits, Deposit(u, a)
        PROVE  InPolicy
    <3>1. a \in Nat /\ Self \in Address
      BY HostAssumption, DataAssumption
    <3>2. ASSUME NEW t \in Asset
          PROVE  ~(Out(t) > 0)
      <4>1. balance[t][Self] \in Int
        BY <1>1, <3>1 DEF HostTypeOK
      <4>2. \/ balance'[t][Self] = balance[t][Self] + a
            \/ balance'[t][Self] = balance[t][Self]
        BY <1>1, <2>2, <3>1 DEF Deposit, HostTypeOK
      <4> QED
        BY <3>1, <4>1, <4>2
    <3> QED
      BY <3>2
  <2>3. ASSUME NEW calls \in CallLists, NEW e \in Entries, Submit(calls, e),
               NEW t \in Asset, Out(t) > 0
        PROVE  ToMember(t)
    <3> DEFINE x == calls[1]
    <3>1. /\ x.contract = conf.token /\ x.from = Self /\ x.to \in Address
          /\ x.amount \in Nat \ {0} /\ x.amount <= CapOf[pol]
          /\ DestField[x.to] \in MembersOf[root]
          /\ ~frozen
      BY <1>1, <2>3, SubmittedCall
    <3>2. balance' = Moved(x)
      BY <2>3 DEF Submit
    <3>3. /\ balance[t] \in [Address -> Int] /\ balance[t][Self] \in Int
          /\ Self \in Address
      BY <1>1, DataAssumption DEF HostTypeOK
    <3>4. t = conf.token
      <4>1. t # conf.token => balance'[t] = balance[t]
        BY <1>1, <3>1, <3>2 DEF Moved, HostTypeOK
      <4> QED
        BY <2>3, <3>3, <4>1
    <3>5. balance'[t] = [[balance[t] EXCEPT ![Self] = @ - x.amount]
                           EXCEPT ![x.to] = @ + x.amount]
      BY <1>1, <3>1, <3>2, <3>4 DEF Moved, HostTypeOK
    <3>6. x.to # Self
      <4>1. x.to = Self => balance'[t][Self] = balance[t][Self] - x.amount + x.amount
        BY <3>1, <3>3, <3>5
      <4> QED
        BY <2>3, <3>1, <3>3, <4>1
    <3>7. Out(t) = x.amount
      <4>1. balance'[t][Self] = balance[t][Self] - x.amount
        BY <3>1, <3>3, <3>5, <3>6
      <4> QED
        BY <3>1, <3>3, <4>1
    <3>8. balance'[t] = [balance[t] EXCEPT ![Self] = @ - x.amount,
                                           ![x.to] = @ + x.amount]
      BY <3>5
    <3>9. x.to \in Address \ {Self}
      BY <3>1, <3>6
    <3> HIDE DEF x
    <3> QED
      BY <3>1, <3>4, <3>7, <3>8, <3>9
  <2> QED
    BY <1>1, <2>1, <2>2, <2>3 DEF HostNext, World, hostVars
<1> QED
  BY <1>1, HostImplementsAccount, TypeCorrect, HostTypeCorrect, PTL
     DEF HostSpec, DebitsAreInPolicy

(***************************************************************************)
(* The relayer.                                                            *)
(***************************************************************************)

Place == {"idle", "footprint", "getAccount", "simulate", "send", "settle", "reply", "done"}
Outcome == {"SUCCESS", "FAILED", "NOT_FOUND"}

RelayTypeOK ==
  /\ pc \in [Request -> Place]
  /\ body \in [Request -> Bodies \cup {NoValue}]
  /\ \A r \in Request : pc[r] # "idle" => body[r] \in Bodies
  /\ answer \in [Request -> Answer \cup {"none"}]
  /\ seen \in [Request -> Outcome \cup {"UNKNOWN"}]
  /\ result \in [Request -> Outcome]
  /\ pool \subseteq Request

LEMMA GoToPlaces ==
  ASSUME RelayTypeOK, NEW r \in Request, NEW place \in Place, GoTo(r, place)
  PROVE  pc' \in [Request -> Place] /\ pc'[r] = place /\ \A s \in Request \ {r} : pc'[s] = pc[s]
  BY DEF RelayTypeOK, GoTo

LEMMA ReplyPlaces ==
  ASSUME RelayTypeOK, NEW r \in Request, NEW a \in Answer, Reply(r, a)
  PROVE  /\ pc' \in [Request -> Place] /\ pc'[r] = "done"
         /\ answer' \in [Request -> Answer \cup {"none"}] /\ answer'[r] = a
         /\ \A s \in Request \ {r} : pc'[s] = pc[s] /\ answer'[s] = answer[s]
  BY DEF RelayTypeOK, Reply, GoTo, Place

\* The steps of a handler before its settle: it goes on or answers.
Early(r) == Footprint(r) \/ GetAccount(r) \/ Simulate(r) \/ Send(r) \/ RpcThrows(r)

LEMMA EarlySteps ==
  ASSUME RelayTypeOK, NEW r \in Request, Early(r)
  PROVE  /\ pc[r] \in {"footprint", "getAccount", "simulate", "send"}
         /\ UNCHANGED <<vars, hostVars, body, seen, result>>
         /\ pool' \subseteq pool \cup {r} /\ pool \subseteq pool'
         /\ r \in pool' => r \in pool \/ pc'[r] = "settle" \/ answer'[r] = "500"
         /\ pc' \in [Request -> Place] /\ pc'[r] # "idle"
         /\ answer' \in [Request -> Answer \cup {"none"}]
         /\ \A s \in Request \ {r} : pc'[s] = pc[s] /\ answer'[s] = answer[s]
         /\ pc'[r] = "done" \/ answer'[r] = answer[r]
         /\ pc'[r] = "done" => answer'[r] \in {"422", "502", "500"}
<1>1. /\ pc[r] \in {"footprint", "getAccount", "simulate", "send"}
      /\ UNCHANGED <<vars, hostVars, body, seen, result>>
  BY DEF Early, Footprint, GetAccount, Simulate, Send, RpcThrows, chainVars
<1>2. \/ \E place \in {"getAccount", "simulate", "send"} : GoTo(r, place) /\ UNCHANGED <<answer, pool>>
      \/ GoTo(r, "settle") /\ UNCHANGED answer /\ pool' \in {pool, pool \cup {r}}
      \/ \E a \in {"422", "502"} : Reply(r, a) /\ UNCHANGED pool
      \/ Reply(r, "500") /\ pool' \in {pool, pool \cup {r}}
  BY DEF Early, Footprint, GetAccount, Simulate, Send, RpcThrows, chainVars, answerVars
<1>3. ASSUME NEW place \in {"getAccount", "simulate", "send", "settle"}, GoTo(r, place), UNCHANGED answer
      PROVE  /\ pc' \in [Request -> Place] /\ pc'[r] = place
             /\ answer' \in [Request -> Answer \cup {"none"}]
             /\ \A s \in Request \ {r} : pc'[s] = pc[s] /\ answer'[s] = answer[s]
  BY <1>3, GoToPlaces DEF RelayTypeOK, Place
<1>4. ASSUME NEW a \in {"422", "502", "500"}, Reply(r, a)
      PROVE  /\ pc' \in [Request -> Place] /\ pc'[r] = "done"
             /\ answer' \in [Request -> Answer \cup {"none"}] /\ answer'[r] = a
             /\ \A s \in Request \ {r} : pc'[s] = pc[s] /\ answer'[s] = answer[s]
  BY <1>4, ReplyPlaces DEF Answer
<1> QED
  BY <1>1, <1>2, <1>3, <1>4

\* And those of settle.
Late(r) == Poll(r) \/ ReplySettled(r)

LEMMA LateSteps ==
  ASSUME RelayTypeOK, NEW r \in Request, Late(r)
  PROVE  /\ pc[r] \in {"settle", "reply"}
         /\ UNCHANGED <<vars, hostVars, body, result, pool>>
         /\ pc' \in [Request -> Place] /\ pc'[r] \in {"settle", "reply", "done"}
         /\ answer' \in [Request -> Answer \cup {"none"}]
         /\ seen' \in [Request -> Outcome \cup {"UNKNOWN"}]
         /\ \A s \in Request \ {r} : pc'[s] = pc[s] /\ answer'[s] = answer[s] /\ seen'[s] = seen[s]
         /\ seen'[r] = seen[r] \/ (pc'[r] # "done" /\ seen'[r] = result[r])
         /\ IF pc'[r] = "done" THEN answer'[r] = seen[r] ELSE answer'[r] = answer[r]
<1>1. /\ pc[r] \in {"settle", "reply"}
      /\ UNCHANGED <<vars, hostVars, body, result, pool>>
  BY DEF Late, Poll, ReplySettled, chainVars
<1>2. CASE Poll(r)
  <2>1. answer' = answer /\ (pc' = pc \/ GoTo(r, "reply")) /\ pc[r] = "settle"
    BY <1>2 DEF Poll, answerVars
  <2>2. pc' \in [Request -> Place] /\ pc'[r] \in {"settle", "reply"} /\ \A s \in Request \ {r} : pc'[s] = pc[s]
    BY <2>1, GoToPlaces DEF RelayTypeOK, Place
  <2>3. seen' = seen \/ seen' = [seen EXCEPT ![r] = result[r]]
    BY <1>2 DEF Poll, answerVars
  <2>4. /\ seen' \in [Request -> Outcome \cup {"UNKNOWN"}]
        /\ \A s \in Request \ {r} : seen'[s] = seen[s]
        /\ seen'[r] = seen[r] \/ seen'[r] = result[r]
    BY <2>3 DEF RelayTypeOK
  <2> QED
    BY <1>1, <2>1, <2>2, <2>4 DEF RelayTypeOK
<1>3. CASE ReplySettled(r)
  <2>1. seen[r] \in Answer /\ Reply(r, seen[r]) /\ seen' = seen
    BY <1>3 DEF ReplySettled, RelayTypeOK, Answer, Outcome
  <2> QED
    BY <1>1, <2>1, ReplyPlaces DEF RelayTypeOK
<1> QED
  BY <1>2, <1>3 DEF Late

LEMMA HandlerSteps == \A r \in Request : Handler(r) => Early(r) \/ Late(r)
  BY DEF Handler, Early, Late

\* A request arrives.
LEMMA ReceiveSteps ==
  ASSUME RelayTypeOK, NEW r \in Request, NEW b \in Bodies, Receive(r, b)
  PROVE  /\ pc[r] = "idle" /\ pc' \in [Request -> Place] /\ pc'[r] \in {"footprint", "getAccount", "done"}
         /\ body' \in [Request -> Bodies \cup {NoValue}] /\ body'[r] = b
         /\ answer' \in [Request -> Answer \cup {"none"}]
         /\ \A s \in Request \ {r} : pc'[s] = pc[s] /\ answer'[s] = answer[s] /\ body'[s] = body[s]
         /\ IF pc'[r] = "done" THEN answer'[r] = "400" ELSE answer'[r] = answer[r]
         /\ UNCHANGED <<vars, hostVars, seen, result, pool>>
<1>1. body' \in [Request -> Bodies \cup {NoValue}] /\ body'[r] = b /\ \A s \in Request \ {r} : body'[s] = body[s]
  BY DEF Receive, RelayTypeOK
<1>2. \/ Reply(r, "400")
      \/ (GoTo(r, "footprint") \/ GoTo(r, "getAccount")) /\ answer' = answer
  BY DEF Receive, answerVars
<1>3. pc[r] = "idle" /\ UNCHANGED <<vars, hostVars, seen, result, pool>>
  BY DEF Receive, chainVars
<1>4. CASE Reply(r, "400")
  BY <1>1, <1>3, <1>4, ReplyPlaces DEF Answer
<1>5. CASE (GoTo(r, "footprint") \/ GoTo(r, "getAccount")) /\ answer' = answer
  BY <1>1, <1>3, <1>5, GoToPlaces DEF Place, RelayTypeOK
<1> QED
  BY <1>2, <1>4, <1>5

LEMMA RelayTypesStep == RelayTypeOK /\ [RelayNext]_relayVars => RelayTypeOK'
<1> SUFFICES ASSUME RelayTypeOK, [RelayNext]_relayVars PROVE RelayTypeOK'
  OBVIOUS
<1>1. ASSUME NEW r \in Request, NEW b \in Bodies, Receive(r, b) PROVE RelayTypeOK'
  BY <1>1, ReceiveSteps DEF RelayTypeOK
<1>2. ASSUME NEW r \in Request, Early(r) PROVE RelayTypeOK'
  BY <1>2, EarlySteps DEF RelayTypeOK
<1>3. ASSUME NEW r \in Request, Late(r) PROVE RelayTypeOK'
  BY <1>3, LateSteps DEF RelayTypeOK
<1>4. ASSUME NEW r \in Request, Take(r) \/ Lose(r) PROVE RelayTypeOK'
  BY <1>4 DEF Take, Lose, handlerVars, answerVars, RelayTypeOK, Outcome
<1>5. CASE UNCHANGED <<handlerVars, chainVars>>
  BY <1>5 DEF handlerVars, answerVars, chainVars, RelayTypeOK
<1> QED
  BY <1>1, <1>2, <1>3, <1>4, <1>5, HandlerSteps DEF RelayNext, Network, relayVars

-----------------------------------------------------------------------------
(* Answers.                                                                *)

AnswerInv ==
  \A r \in Request :
    /\ r \in pool => result[r] = "NOT_FOUND"
    /\ r \in pool \/ result[r] # "NOT_FOUND" =>
         pc[r] \in {"settle", "reply"} \/ (pc[r] = "done" /\ answer[r] \notin {"400", "422", "502"})
    /\ pc[r] # "done" => answer[r] = "none"
    /\ seen[r] \in {"SUCCESS", "FAILED"} => result[r] = seen[r]
    /\ answer[r] \in {"SUCCESS", "FAILED"} => result[r] = answer[r]

LEMMA AnswerStep == RelayTypeOK /\ AnswerInv /\ [RelayNext]_relayVars => AnswerInv'
<1> SUFFICES ASSUME RelayTypeOK, AnswerInv, [RelayNext]_relayVars PROVE AnswerInv'
  OBVIOUS
<1>1. ASSUME NEW r \in Request, NEW b \in Bodies, Receive(r, b) PROVE AnswerInv'
  BY <1>1, ReceiveSteps DEF AnswerInv
<1>2. ASSUME NEW r \in Request, Early(r) PROVE AnswerInv'
  <2>1. r \notin pool /\ result[r] = "NOT_FOUND" /\ answer[r] = "none" /\ seen[r] \notin {"SUCCESS", "FAILED"}
    BY <1>2, EarlySteps DEF AnswerInv
  <2> QED
    BY <1>2, <2>1, EarlySteps DEF AnswerInv
<1>3. ASSUME NEW r \in Request, Late(r) PROVE AnswerInv'
  <2>1. seen[r] \in Outcome \cup {"UNKNOWN"}
    BY DEF RelayTypeOK
  <2> QED
    BY <1>3, <2>1, LateSteps DEF AnswerInv, Outcome
<1>4. ASSUME NEW r \in Request, Take(r) \/ Lose(r) PROVE AnswerInv'
  <2>1. /\ UNCHANGED <<pc, seen, answer>> /\ r \in pool /\ pool' = pool \ {r}
        /\ \A s \in Request \ {r} : result'[s] = result[s]
    BY <1>4 DEF Take, Lose, handlerVars, answerVars, RelayTypeOK
  <2> QED
    BY <2>1 DEF AnswerInv
<1>5. CASE UNCHANGED <<handlerVars, chainVars>>
  BY <1>5 DEF handlerVars, answerVars, chainVars, AnswerInv
<1> QED
  BY <1>1, <1>2, <1>3, <1>4, <1>5, HandlerSteps DEF RelayNext, Network, relayVars

-----------------------------------------------------------------------------
(* Entries.                                                                *)

\* A transfer that succeeded used up the nonce of its entry and had a proof.
PaidInv ==
  /\ \A r \in Request : result[r] = "SUCCESS" =>
       pc[r] # "idle" /\ body[r].entry.nonce \in consumed /\ body[r].entry.sig.genuine
  /\ OneSuccessPerEntry

LEMMA WorldKeeps == World => consumed' = consumed
  BY DEF World, Deposit, hostVars

LEMMA PaidStep == RelayTypeOK /\ AnswerInv /\ PaidInv /\ [RelayNext]_relayVars => PaidInv'
<1> SUFFICES ASSUME RelayTypeOK, AnswerInv, PaidInv, [RelayNext]_relayVars PROVE PaidInv'
  OBVIOUS
\* Requests that are not idle stay what they ask for.
<1>1. ASSUME UNCHANGED <<result, consumed>>,
             \A r \in Request : result[r] = "SUCCESS" => pc'[r] # "idle" /\ body'[r] = body[r]
      PROVE  PaidInv'
  BY <1>1 DEF PaidInv, OneSuccessPerEntry
<1>2. ASSUME NEW r \in Request, NEW b \in Bodies, Receive(r, b) PROVE PaidInv'
  <2>1. result[r] # "SUCCESS"
    BY <1>2, ReceiveSteps DEF PaidInv
  <2> QED
    BY <1>1, <1>2, <2>1, ReceiveSteps DEF PaidInv, hostVars
<1>3. ASSUME NEW r \in Request, Early(r) \/ Late(r) PROVE PaidInv'
  <2>1. UNCHANGED <<result, consumed, body>>
    BY <1>3, EarlySteps, LateSteps DEF hostVars
  <2>2. pc'[r] # "idle" /\ \A s \in Request \ {r} : pc'[s] = pc[s]
    BY <1>3, EarlySteps, LateSteps
  <2> QED
    BY <1>1, <2>1, <2>2 DEF PaidInv
<1>4. ASSUME NEW r \in Request, Take(r) PROVE PaidInv'
  <2>1. UNCHANGED <<pc, body>> /\ pc[r] # "idle" /\ r \in pool
    BY <1>4 DEF Take, handlerVars, AnswerInv
  <2>2. CASE ~Passes(r)
    <3>1. consumed' = consumed /\ result' = [result EXCEPT ![r] = "FAILED"]
      BY <1>4, <2>2 DEF Take, hostVars
    <3>2. \A s \in Request : result'[s] = "SUCCESS" => result[s] = "SUCCESS"
      BY <3>1 DEF RelayTypeOK
    <3> QED
      BY <2>1, <3>1, <3>2 DEF PaidInv, OneSuccessPerEntry
  <2>3. CASE Passes(r)
    <3> DEFINE e == body[r].entry
    <3>1. e.nonce \notin consumed /\ AuthVerdict(CallOf(e)) = "Ok"
      BY <2>3 DEF Passes, EntryVerdict
    <3>2. e.sig.genuine
      BY <3>1 DEF AuthVerdict, Groth16Verify, CallOf
    <3>3. consumed' = consumed \cup {e.nonce} /\ result' = [result EXCEPT ![r] = "SUCCESS"]
      BY <1>4, <2>3 DEF Take, Submit
    <3>4. result'[r] = "SUCCESS" /\ \A s \in Request \ {r} : result'[s] = result[s]
      BY <3>3 DEF RelayTypeOK
    <3>5. \A s \in Request \ {r} : result[s] = "SUCCESS" => body[s].entry # e
      BY <3>1 DEF PaidInv
    <3>6. OneSuccessPerEntry'
      BY <2>1, <3>4, <3>5 DEF PaidInv, OneSuccessPerEntry
    <3> QED
      BY <2>1, <3>2, <3>3, <3>4, <3>6 DEF PaidInv
  <2> QED
    BY <2>2, <2>3
<1>5. \A r \in Request : Lose(r) => UNCHANGED <<result, consumed, body, pc>>
  BY DEF Lose, hostVars, handlerVars
<1>6. World /\ UNCHANGED <<handlerVars, chainVars>> => UNCHANGED <<result, consumed, body, pc>>
  BY WorldKeeps DEF handlerVars, chainVars
<1>7. UNCHANGED relayVars => UNCHANGED <<result, consumed, body, pc>>
  BY DEF relayVars, handlerVars, chainVars, hostVars
<1>8. CASE UNCHANGED <<result, consumed, body, pc>>
  BY <1>8 DEF PaidInv, OneSuccessPerEntry
<1> QED
  BY <1>2, <1>3, <1>4, <1>5, <1>6, <1>7, <1>8, HandlerSteps DEF RelayNext, Network

-----------------------------------------------------------------------------
(* Theorems.                                                               *)

LEMMA RelayInits == RelayInit => RelayTypeOK /\ AnswerInv /\ PaidInv
<1> SUFFICES ASSUME RelayInit PROVE RelayTypeOK /\ AnswerInv /\ PaidInv
  OBVIOUS
<1>1. RelayTypeOK
  BY DEF RelayInit, RelayTypeOK, Place, Outcome
<1>2. AnswerInv
  BY DEF RelayInit, AnswerInv
<1>3. PaidInv
  BY DEF RelayInit, PaidInv, OneSuccessPerEntry
<1> QED
  BY <1>1, <1>2, <1>3

\* Handlers of /api/relay and /api/attack (server.mjs 102-190) are where they can
\* be, with a body that was received.
THEOREM RelayTypes == RelaySpec => []RelayTypeOK
<1> QED
  BY RelayInits, RelayTypesStep, PTL DEF RelaySpec

\* However many handlers share the fee payer: a definite answer is the ledger's
\* word on the request's own transaction (server.mjs settle), and a refusal means
\* that none was, or will be, sent.
THEOREM RelayAnswersAreTrue == RelaySpec => []AnswersAreTrue
<1>1. RelaySpec => []AnswerInv
  BY RelayInits, AnswerStep, RelayTypes, PTL DEF RelaySpec
<1>2. AnswerInv /\ RelayTypeOK => AnswersAreTrue
  BY DEF AnswerInv, AnswersAreTrue, RelayTypeOK
<1> QED
  BY <1>1, <1>2, RelayTypes, PTL

LEMMA RelayPaid == RelaySpec => []PaidInv
<1>1. RelaySpec => []AnswerInv
  BY RelayInits, AnswerStep, RelayTypes, PTL DEF RelaySpec
<1> QED
  BY <1>1, RelayInits, PaidStep, RelayTypes, PTL DEF RelaySpec

\* A client may repeat an entry in any number of requests, at once or later: one
\* transaction with it succeeds at most (the host's nonce, chain.js 149-153).
THEOREM RelayPaysOnce == RelaySpec => []OneSuccessPerEntry
<1>1. PaidInv => OneSuccessPerEntry
  BY DEF PaidInv
<1> QED
  BY <1>1, RelayPaid, PTL

\* A transfer without a valid proof never succeeds, although /api/attack submits
\* past a simulation that fails (server.mjs 180-186).
THEOREM RelayNoProofNoMoney == RelaySpec => []NoProofNoMoney
<1>1. PaidInv => NoProofNoMoney
  BY DEF PaidInv, NoProofNoMoney
<1> QED
  BY <1>1, RelayPaid, PTL

\* Whatever handlers race, throw or poll for, the account and its host only take
\* the steps of PaymentHost: every theorem about them holds behind the relayer.
THEOREM RelayImplementsHost == RelaySpec => HostSpec
<1>1. RelayInit => HostInit
  BY DEF RelayInit
<1>2. RelayTypeOK /\ AnswerInv /\ [RelayNext]_relayVars => [HostNext]_<<vars, hostVars>>
  <2> SUFFICES ASSUME RelayTypeOK, AnswerInv, [RelayNext]_relayVars PROVE [HostNext]_<<vars, hostVars>>
    OBVIOUS
  <2>1. ASSUME NEW r \in Request, Take(r) PROVE [HostNext]_<<vars, hostVars>>
    <3>1. body[r] \in Bodies
      BY <2>1 DEF Take, AnswerInv, RelayTypeOK
    <3>2. body[r].entry \in Entries
      BY <3>1, RelayAssumption DEF Body
    <3>3. CASE Passes(r)
      <4>1. body[r].entry.contexts = CallsOf(r)
        BY <3>3 DEF Passes, EntryVerdict
      <4>2. CallsOf(r) \in CallLists
        BY <3>2, <4>1, RelayAssumption
      <4>3. Submit(CallsOf(r), body[r].entry)
        BY <2>1, <3>3 DEF Take
      <4> QED
        BY <3>2, <4>2, <4>3 DEF HostNext
    <3>4. CASE ~Passes(r)
      BY <2>1, <3>4 DEF Take
    <3> QED
      BY <3>3, <3>4
  <2>2. \A r \in Request : Lose(r) => UNCHANGED <<vars, hostVars>>
    BY DEF Lose
  <2>3. World => HostNext
    BY DEF HostNext
  <2>4. \A r \in Request, b \in Bodies : Receive(r, b) => UNCHANGED <<vars, hostVars>>
    BY DEF Receive
  <2>5. \A r \in Request : Early(r) \/ Late(r) => UNCHANGED <<vars, hostVars>>
    BY EarlySteps, LateSteps
  <2>6. UNCHANGED relayVars => UNCHANGED <<vars, hostVars>>
    BY DEF relayVars
  <2> QED
    BY <2>1, <2>2, <2>3, <2>4, <2>5, <2>6, HandlerSteps DEF RelayNext, Network
<1>3. RelaySpec => []AnswerInv
  BY RelayInits, AnswerStep, RelayTypes, PTL DEF RelaySpec
<1> QED
  BY <1>1, <1>2, <1>3, RelayTypes, PTL DEF RelaySpec, HostSpec

\* So the budget of the account and its timelock are not the relayer's concern:
\* they hold behind any races of its handlers, as they do without it.
COROLLARY RelayTwoBudgets == RelaySpec => []TwoBudgetBound
  BY RelayImplementsHost, HostTwoBudgets, PTL

COROLLARY RelayDebitsMediated == RelaySpec => DebitsAreInPolicy
  BY RelayImplementsHost, DebitsMediated, PTL

-----------------------------------------------------------------------------
(* Time.                                                                   *)

\* No transaction outlives the ledger it was built in by more than TxLife, and so
\* none outlives the answer to its client by more.
TimeInv ==
  /\ until \in [Request -> Int]
  /\ told \in [Request -> Int]
  /\ \A r \in Request :
       /\ pc[r] \in {"simulate", "send", "settle", "reply"} => until[r] <= now + TxLife
       /\ r \in pool /\ answer[r] # "none" => until[r] <= told[r] + TxLife

\* The steps that do not build a transaction; those that answer note when.
LEMMA Clocks ==
  ASSUME RelayTypeOK, NEW r \in Request,
         (\E b \in Bodies : Receive(r, b)) \/ (Handler(r) /\ ~GetAccount(r))
  PROVE  /\ until' = until
         /\ UNCHANGED <<answer, told>> \/ (pc'[r] = "done" /\ told' = [told EXCEPT ![r] = now])
         /\ pc'[r] \in {"footprint", "getAccount", "done"}
              \/ pc[r] \in {"simulate", "send", "settle", "reply"}
         /\ pc[r] = "send" \/ pool' = pool
<1>1. /\ until' = until
      /\ UNCHANGED <<answer, told>> \/ \E a \in Answer : Reply(r, a)
      /\ pc[r] \in {"idle", "footprint", "simulate", "send", "settle", "reply"} \/ \E a \in Answer : Reply(r, a)
      /\ pc[r] = "send" \/ pool' = pool
  BY DEF Receive, Handler, Footprint, Simulate, Send, RpcThrows, Poll, ReplySettled, answerVars,
         chainVars, Answer, RelayTypeOK, Outcome
<1>2. ASSUME NEW a \in Answer, Reply(r, a)
      PROVE  pc'[r] = "done" /\ told' = [told EXCEPT ![r] = now]
  BY <1>2, ReplyPlaces DEF Reply
<1>3. pc[r] \in {"idle", "footprint"} => pc'[r] \in {"footprint", "getAccount", "done"}
  BY <1>2, GoToPlaces DEF Receive, Handler, Footprint, Simulate, Send, RpcThrows, Poll,
     ReplySettled, GetAccount, Answer, Place
<1> QED
  BY <1>1, <1>2, <1>3

LEMMA TimeStep ==
  ASSUME TypeOK, RelayTypeOK, AnswerInv, TimeInv, [RelayNext]_relayVars
  PROVE  TimeInv'
<1>1. now \in Int /\ TxLife \in Int
  BY RelayAssumption, Numbers
<1>2. ASSUME NEW r \in Request, NEW b \in Bodies, Receive(r, b) PROVE TimeInv'
  <2>1. r \notin pool' /\ now' = now
    BY <1>2, ReceiveSteps DEF AnswerInv, vars
  <2> QED
    BY <1>1, <1>2, <2>1, Clocks, ReceiveSteps DEF TimeInv
<1>3. ASSUME NEW r \in Request, GetAccount(r) PROVE TimeInv'
  <2>1. /\ until' = [until EXCEPT ![r] = now + TxLife] /\ UNCHANGED <<now, told, answer, pool>>
        /\ r \notin pool
    BY <1>3 DEF GetAccount, AnswerInv, vars, chainVars, answerVars
  <2>2. \A s \in Request \ {r} : pc'[s] = pc[s]
    BY <1>3, EarlySteps DEF Early
  <2> QED
    BY <1>1, <2>1, <2>2 DEF TimeInv
<1>4. ASSUME NEW r \in Request, Handler(r), ~GetAccount(r) PROVE TimeInv'
  <2>1. /\ now' = now /\ pool' \subseteq pool \cup {r}
        /\ \A s \in Request \ {r} : pc'[s] = pc[s] /\ answer'[s] = answer[s]
    BY <1>4, HandlerSteps, EarlySteps, LateSteps DEF vars
  <2>2. pc[r] # "done" /\ answer[r] = "none" /\ (r \in pool => pc[r] \in {"settle", "reply"})
    BY <1>4, HandlerSteps, EarlySteps, LateSteps DEF AnswerInv
  <2>3. /\ until' = until
        /\ UNCHANGED <<answer, told>> \/ (pc'[r] = "done" /\ told' = [told EXCEPT ![r] = now])
        /\ pc'[r] \in {"footprint", "getAccount", "done"}
             \/ pc[r] \in {"simulate", "send", "settle", "reply"}
        /\ pc[r] = "send" \/ pool' = pool
    BY <1>4, Clocks
  <2>4. until[r] \in Int /\ told' \in [Request -> Int] /\ \A s \in Request \ {r} : told'[s] = told[s]
    BY <1>1, <2>3 DEF TimeInv
  <2>5. pc'[r] \in {"simulate", "send", "settle", "reply"} => until'[r] <= now' + TxLife
    BY <2>1, <2>3 DEF TimeInv
  <2>6. r \in pool' /\ answer'[r] # "none" => until'[r] <= told'[r] + TxLife
    <3> SUFFICES ASSUME r \in pool', answer'[r] # "none" PROVE until'[r] <= told'[r] + TxLife
      OBVIOUS
    <3>1. told'[r] = now
      BY <2>2, <2>3 DEF TimeInv
    <3>2. pc[r] \in {"send", "settle", "reply"}
      BY <2>2, <2>3
    <3> QED
      BY <2>3, <3>1, <3>2 DEF TimeInv
  <2>7. ASSUME NEW s \in Request \ {r}
        PROVE  /\ pc'[s] \in {"simulate", "send", "settle", "reply"} => until'[s] <= now' + TxLife
               /\ s \in pool' /\ answer'[s] # "none" => until'[s] <= told'[s] + TxLife
    BY <2>1, <2>3, <2>4 DEF TimeInv
  <2> QED
    BY <2>3, <2>4, <2>5, <2>6, <2>7 DEF TimeInv
\* The network closes ledgers and drops transactions from its pool.
<1>5. ASSUME UNCHANGED <<pc, until, told, answer>>, pool' \subseteq pool, now' \in Int, now <= now'
      PROVE  TimeInv'
  BY <1>1, <1>5 DEF TimeInv
<1>6. ASSUME NEW r \in Request, Take(r) \/ Lose(r) PROVE TimeInv'
  <2>1. UNCHANGED <<pc, until, told, answer>> /\ pool' \subseteq pool
    BY <1>6 DEF Take, Lose, handlerVars, answerVars
  <2>2. now' = now
    <3>1. CASE Take(r) /\ Passes(r)
      BY <3>1 DEF Take, Submit, CheckAuth
    <3>2. CASE Lose(r) \/ (Take(r) /\ ~Passes(r))
      BY <3>2 DEF Take, Lose, vars
    <3> QED
      BY <1>6, <3>1, <3>2
  <2> QED
    BY <1>1, <1>5, <2>1, <2>2
<1>7. CASE World /\ UNCHANGED <<handlerVars, chainVars>>
  <2>1. now' \in {now, now + 1}
    BY <1>7 DEF World, CloseLedger, Govern, ProposeRotation, ExecuteRotation, CancelRotation,
                Freeze, Unfreeze, SetFrozen, Deposit, vars
  <2> QED
    BY <1>1, <1>5, <1>7, <2>1 DEF handlerVars, answerVars, chainVars
<1>8. CASE UNCHANGED relayVars
  BY <1>1, <1>5, <1>8 DEF relayVars, vars, handlerVars, answerVars, chainVars
<1> QED
  BY <1>2, <1>3, <1>4, <1>6, <1>7, <1>8 DEF RelayNext, Network

\* A client whose answer was not definite need not wait for ever: TxLife ledgers
\* after it (setTimeout(120), server.mjs 125) its transaction can settle no more,
\* however late the network took it; and after a definite answer it never does.
THEOREM RelayFinalInTime == RelaySpec => FinalInTime
<1>1. RelaySpec => []AnswerInv
  BY RelayInits, AnswerStep, RelayTypes, PTL DEF RelaySpec
<1>2. RelaySpec => []TypeOK
  BY RelayImplementsHost, HostImplementsAccount, TypeCorrect, PTL
<1>3. RelayInit => TimeInv
  BY DEF RelayInit, TimeInv
<1>4. RelaySpec => []TimeInv
  BY <1>1, <1>2, <1>3, RelayTypes, TimeStep, PTL DEF RelaySpec
<1>5. ASSUME TypeOK, RelayTypeOK, AnswerInv, TimeInv, [RelayNext]_relayVars,
             NEW r \in Request, answer[r] # "none", result'[r] # result[r]
      PROVE  answer[r] \in {"500", "NOT_FOUND", "UNKNOWN"} /\ now <= told[r] + TxLife
  <2>1. r \in pool /\ now <= until[r]
    <3>1. \A s \in Request, b \in Bodies : Receive(s, b) => result' = result
      BY DEF Receive, chainVars
    <3>2. \A s \in Request : Early(s) \/ Late(s) \/ Lose(s) => result' = result
      BY <1>5, EarlySteps, LateSteps DEF Lose
    <3>3. \A s \in Request \ {r} : Take(s) => result'[r] = result[r]
      BY <1>5 DEF Take, RelayTypeOK
    <3>4. Take(r)
      BY <1>5, <3>1, <3>2, <3>3, HandlerSteps DEF RelayNext, Network, relayVars, chainVars
    <3> QED
      BY <3>4 DEF Take
  <2>2. answer[r] \in Answer /\ answer[r] \notin {"400", "422", "502", "SUCCESS", "FAILED"}
    BY <1>5, <2>1 DEF AnswerInv, RelayTypeOK
  <2>3. until[r] \in Int /\ told[r] \in Int /\ now \in Int /\ TxLife \in Int
    BY <1>5, RelayAssumption, Numbers DEF TimeInv
  <2> QED
    BY <1>5, <2>1, <2>2, <2>3 DEF TimeInv, Answer
<1>6. TypeOK /\ RelayTypeOK /\ AnswerInv /\ TimeInv /\ [RelayNext]_relayVars
        => [\A r \in Request :
              answer[r] # "none" /\ result'[r] # result[r] =>
                answer[r] \in {"500", "NOT_FOUND", "UNKNOWN"} /\ now <= told[r] + TxLife]_relayVars
  BY <1>5
<1> QED
  BY <1>1, <1>2, <1>4, <1>6, RelayTypes, PTL DEF RelaySpec, FinalInTime
=============================================================================
