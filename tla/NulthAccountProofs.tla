-------------------------- MODULE NulthAccountProofs ------------------------
(***************************************************************************)
(* Theorems about NulthAccount, for every u32 width, every set of          *)
(* constructor arguments and every set of __check_auth calls.              *)
(***************************************************************************)
EXTENDS NulthAccount, TLAPS

-----------------------------------------------------------------------------
(* Lemmas                                                                  *)

\* saturating_add stays a u32, and saturates only at the last ledger.
LEMMA SatAddBounds ==
  ASSUME NEW a \in Ledger, NEW b \in Nat \ {0}
  PROVE  /\ SatAdd(a, b) \in Ledger
         /\ SatAdd(a, b) = a + b \/ SatAdd(a, b) = U32Max
         /\ \A n \in Ledger : n < U32Max => (n >= SatAdd(a, b) <=> n >= a + b)
  BY BoundsAssumption DEF SatAdd, Smaller, Ledger

\* Everything an authorized call has passed (lib.rs 356-478): one transfer of
\* the account's own pinned token, within the cap and to a member of the policy
\* in force, within the budget of the window.
LEMMA AuthorizedCall ==
  ASSUME TypeOK, NEW c \in AuthCalls, AuthVerdict(c) = "Ok"
  PROVE  /\ ~frozen
         /\ Len(c.contexts) = 1
         /\ c.contexts[1].contract = conf.token
         /\ c.contexts[1].from = Self
         /\ c.contexts[1].to \in Address
         /\ DestField[c.contexts[1].to] \in MembersOf[root]
         /\ c.contexts[1].amount \in 1..CapOf[pol]
         /\ SpentSoFar + c.contexts[1].amount <= conf.epochCap
<1> DEFINE x == c.contexts[1]
<1>1. BindingVerdict(c) = "Ok" /\ ContextVerdict(x, c.sig) = "Ok"
  BY DEF AuthVerdict
<1>2. /\ ~(SpentSoFar + x.amount > conf.epochCap)
      /\ Groth16Verify(c.sig)
  BY <1>1 DEF AuthVerdict
<1>3. /\ ~frozen
      /\ c.sig.commitment = pol
      /\ c.sig.root = root
  BY <1>1 DEF BindingVerdict
<1>4. c \in AuthCall
  BY InputAssumption
<1>5. c.contexts \in Seq(Context)
  BY <1>4 DEF AuthCall
<1>6. Len(c.contexts) = 1 /\ x \in Context
  <2>1. Len(c.contexts) \in Nat
    BY <1>5
  <2>2. Len(c.contexts) # 0 /\ ~(Len(c.contexts) > 1)
    BY <1>1 DEF BindingVerdict
  <2>3. \A n \in Nat : n # 0 /\ ~(n > 1) => n = 1
    OBVIOUS
  <2>4. Len(c.contexts) = 1
    BY <2>1, <2>2, <2>3
  <2> QED
    BY <1>5, <2>4
<1>7. /\ x.contract = conf.token
      /\ x.from = Self
      /\ x.to # NoValue /\ x.amount # NoValue
      /\ ~(x.amount < 0) /\ x.amount # 0
      /\ x.amount = c.sig.amount
      /\ DestField[x.to] = c.sig.dest
  BY <1>1 DEF ContextVerdict, TokenPinned
<1>8. x.to \in Address /\ x.amount \in Int
  BY <1>6, <1>7 DEF Context
<1>9. /\ c.sig.amount \in 0..CapOf[pol]
      /\ c.sig.dest \in MembersOf[root]
  BY <1>2, <1>3 DEF Groth16Verify, PolicyRelation
<1>10. conf.epochCap \in Int /\ SpentSoFar \in Int
  BY DEF TypeOK, Conf, SpentSoFar
<1>11. CapOf[pol] \in Int
  BY BoundsAssumption, DataAssumption DEF TypeOK
<1> QED
  BY <1>2, <1>3, <1>6, <1>7, <1>8, <1>9, <1>10, <1>11

-----------------------------------------------------------------------------
(* Type correctness                                                        *)

\* An account the constructor accepts starts well-typed.
LEMMA TypeCorrectInit == Init => TypeOK
<1> SUFFICES ASSUME Init
             PROVE  TypeOK
  OBVIOUS
<1>1. PICK a \in ConstructorArgs : Init!(a)
  BY DEF Init
<1>2. a \in ConstructorArg
  BY InputAssumption
<1>3. /\ a.icLen = N_PUBLIC + 1
      /\ a.epochLedgers # 0
      /\ a.epochCap > 0
      /\ a.epochCap < AmountLimit
      /\ a.rotationDelay # 0
  BY <1>1, <1>2, BoundsAssumption DEF ConstructorVerdict, ConstructorArg
<1>4. conf \in Conf
  BY <1>1, <1>2, <1>3, BoundsAssumption DEF ConstructorArg, Conf
<1> QED
  BY <1>1, <1>2, <1>4, BoundsAssumption DEF ConstructorArg, TypeOK

LEMMA TypeStep == TypeOK /\ [Next]_vars => TypeOK'
<1> SUFFICES ASSUME TypeOK, [Next]_vars
             PROVE  TypeOK'
  OBVIOUS
<1> USE DEF TypeOK
<1>1. CASE CloseLedger
  BY <1>1, BoundsAssumption DEF CloseLedger, storage, Ledger
<1>2. ASSUME NEW by \in Address, NEW c \in Commitment, NEW r \in Root,
             ProposeRotation(by, c, r)
      PROVE  TypeOK'
  <2>1. SatAdd(now, conf.rotationDelay) \in Ledger
    BY SatAddBounds DEF Conf
  <2> QED
    BY <1>2, <2>1 DEF ProposeRotation, PendingRotation
<1>3. ASSUME NEW by \in Address, ExecuteRotation(by)
      PROVE  TypeOK'
  BY <1>3 DEF ExecuteRotation, ExecuteVerdict, PendingRotation
<1>4. ASSUME NEW by \in Address, CancelRotation(by)
      PROVE  TypeOK'
  BY <1>4 DEF CancelRotation
<1>5. ASSUME NEW by \in Address, Freeze(by) \/ Unfreeze(by)
      PROVE  TypeOK'
  BY <1>5 DEF Freeze, Unfreeze, SetFrozen
<1>6. ASSUME NEW c \in AuthCalls, CheckAuth(c)
      PROVE  TypeOK'
  <2>1. c.contexts[1].amount \in Nat
    <3>1. c.contexts[1].amount \in 1..CapOf[pol] /\ CapOf[pol] \in Nat
      BY <1>6, AuthorizedCall, BoundsAssumption, DataAssumption DEF CheckAuth
    <3> QED
      BY <3>1
  <2>2. NextAnchor \in Ledger /\ SpentSoFar \in Nat
    BY DEF NextAnchor, SpentSoFar
  <2>3. total' \in [0..U32Max -> Nat]
    BY <1>6, <2>1 DEF CheckAuth, Ledger
  <2>4. /\ UNCHANGED <<now, conf, pol, root, frozen, pendRot, staged>>
        /\ epochAnc' = NextAnchor
        /\ epochSpt' = SpentSoFar + c.contexts[1].amount
    BY <1>6 DEF CheckAuth
  <2> QED
    BY <2>1, <2>2, <2>3, <2>4
<1>7. CASE UNCHANGED vars
  BY <1>7 DEF vars, storage
<1> QED
  BY <1>1, <1>2, <1>3, <1>4, <1>5, <1>6, <1>7, InputAssumption DEF Next, Policy

\* The storage always holds values of its declared types (the type invariant).
THEOREM TypeCorrect == Spec => []TypeOK
  BY TypeCorrectInit, TypeStep, PTL DEF Spec

-----------------------------------------------------------------------------
(* The spending budget                                                     *)

\* The numbers the arithmetic below is about.
LEMMA Numbers ==
  ASSUME TypeOK
  PROVE  /\ U32Max \in Nat /\ now \in Nat /\ epochAnc \in Nat /\ epochSpt \in Nat
         /\ 1 <= now /\ now <= U32Max /\ 1 <= epochAnc
         /\ conf.epochLedgers \in Nat /\ 1 <= conf.epochLedgers
         /\ conf.epochCap \in Nat
  BY BoundsAssumption DEF TypeOK, Conf, Ledger

\* The history is a number for every ledger up to now.
LEMMA History ==
  ASSUME TypeOK
  PROVE  /\ total \in [0..U32Max -> Nat]
         /\ \A i \in 0..now : total[i] \in Nat
<1>1. \A i \in 0..now : i \in 0..U32Max
  BY Numbers
<1> QED
  BY <1>1 DEF TypeOK

\* Before the last ledger the saturated comparison is the exact one.
LEMMA WindowOverMeaning ==
  ASSUME TypeOK, now < U32Max
  PROVE  WindowOver <=> now >= epochAnc + conf.epochLedgers
<1>1. /\ epochAnc \in Ledger /\ now \in Ledger
      /\ conf.epochLedgers \in Nat \ {0}
  BY DEF TypeOK, Conf
<1>2. now >= SatAdd(epochAnc, conf.epochLedgers) <=> now >= epochAnc + conf.epochLedgers
  BY <1>1, SatAddBounds
<1> QED
  BY <1>2 DEF WindowOver

\* A span that starts by now also ends by now, at now if it is long enough.
LEMMA SpanBounds ==
  ASSUME TypeOK, NEW first \in 1..now
  PROVE  /\ SpanEnd(first) \in 0..now
         /\ first - 1 \in 0..now
         /\ first + conf.epochLedgers > now => SpanEnd(first) = now
         /\ first + conf.epochLedgers <= now =>
              /\ SpanEnd(first) = first + conf.epochLedgers - 1
              /\ SpanEnd(first) \in 0..(now - 1)
              /\ first - 1 \in 0..(now - 1)
  BY Numbers DEF SpanEnd, Smaller

\* A step that leaves the clock, the terms, the counter and the history alone
\* leaves the budget invariant alone.
LEMMA BudgetFrame ==
  ASSUME BudgetInv, UNCHANGED <<now, conf, epochAnc, epochSpt, total>>
  PROVE  BudgetInv'
  BY DEF BudgetInv, TwoBudgetBound, SpentIn, SpanEnd, Smaller

\* Closing a ledger authorizes nothing.
LEMMA BudgetCloseLedger ==
  ASSUME TypeOK, BudgetInv, CloseLedger
  PROVE  BudgetInv'
<1>1. /\ now < U32Max
      /\ now' = now + 1
      /\ total' = [total EXCEPT ![now + 1] = total[now]]
      /\ conf' = conf /\ epochAnc' = epochAnc /\ epochSpt' = epochSpt
  BY DEF CloseLedger, storage
<1>2. /\ \A i \in 0..now : total'[i] = total[i]
      /\ total'[now + 1] = total[now]
  <2>1. \A i \in 0..now : i \in 0..U32Max /\ i # now + 1
    BY Numbers
  <2>2. now + 1 \in 0..U32Max
    BY <1>1, Numbers
  <2> QED
    BY <1>1, <2>1, <2>2, History
<1>3. epochAnc' <= now' /\ epochSpt' <= conf'.epochCap
  BY <1>1, Numbers DEF BudgetInv
<1>4. \A i, j \in 0..now' : i <= j => total'[i] <= total'[j]
  <2> SUFFICES ASSUME NEW i \in 0..now', NEW j \in 0..now', i <= j
               PROVE  total'[i] <= total'[j]
    OBVIOUS
  <2>1. CASE j = now + 1
    <3>1. now \in 0..now /\ (i \in 0..now \/ i = now + 1)
      BY <1>1, Numbers
    <3>2. total[now] \in Nat
      BY <3>1, History
    <3>3. i \in 0..now => total[i] <= total[now]
      BY <3>1 DEF BudgetInv
    <3> QED
      BY <1>2, <2>1, <3>1, <3>2, <3>3
  <2>2. CASE j # now + 1
    <3>1. i \in 0..now /\ j \in 0..now
      BY <1>1, <2>2, Numbers
    <3> QED
      BY <1>2, <3>1 DEF BudgetInv
  <2> QED
    BY <2>1, <2>2
<1>5. /\ SpentIn(epochAnc, now)' = epochSpt'
      /\ total'[now'] = total'[now' - 1]
      /\ \A first \in 1..epochAnc' :
           first + conf'.epochLedgers > epochAnc' =>
             SpentIn(first, epochAnc - 1)' <= conf'.epochCap
  <2>1. /\ epochAnc - 1 \in 0..now
        /\ \A first \in 1..epochAnc : first - 1 \in 0..now
    BY Numbers DEF BudgetInv
  <2>2. now' - 1 = now
    BY <1>1, Numbers
  <2>3. now \in 0..now
    BY Numbers
  <2> QED
    BY <1>1, <1>2, <2>1, <2>2, <2>3 DEF BudgetInv, SpentIn
<1>6. TwoBudgetBound'
  <2> SUFFICES ASSUME NEW first \in 1..now', SpanEnd(first)' < U32Max
               PROVE  SpentIn(first, SpanEnd(first))' <= 2 * conf'.epochCap
    BY DEF TwoBudgetBound
  <2>1. CASE first = now + 1
    <3>1. SpanEnd(first)' = now + 1 /\ first - 1 = now
      BY <1>1, <2>1, Numbers DEF SpanEnd, Smaller
    <3>2. now \in 0..now /\ total[now] \in Nat
      BY Numbers, History
    <3>3. total'[now] = total[now]
      BY <1>2, <3>2
    <3>4. SpentIn(first, SpanEnd(first))' = 0
      BY <1>2, <3>1, <3>2, <3>3 DEF SpentIn
    <3> QED
      BY <1>1, <3>4, Numbers
  <2>2. CASE first # now + 1
    <3>1. first \in 1..now
      BY <1>1, <2>2, Numbers
    <3>2. /\ SpanEnd(first) \in 0..now /\ first - 1 \in 0..now
          /\ \/ SpanEnd(first)' = SpanEnd(first)
             \/ SpanEnd(first) = now /\ SpanEnd(first)' = now + 1
      BY <1>1, <3>1, Numbers DEF SpanEnd, Smaller
    <3>3. SpanEnd(first) < U32Max
      BY <1>1, <3>2
    <3>4. SpentIn(first, SpanEnd(first))' = SpentIn(first, SpanEnd(first))
      BY <1>2, <3>2 DEF SpentIn
    <3>5. SpentIn(first, SpanEnd(first)) <= 2 * conf.epochCap
      BY <3>1, <3>3 DEF BudgetInv, TwoBudgetBound
    <3> QED
      BY <1>1, <3>4, <3>5
  <2> QED
    BY <2>1, <2>2
<1> QED
  BY <1>3, <1>4, <1>5, <1>6 DEF BudgetInv

\* What was spent before the current ledger that a span ending in it can still
\* see, once the payment has chosen its window: at most one budget.
LEMMA BeforeTheWindow ==
  ASSUME TypeOK, BudgetInv, now < U32Max,
         NEW first \in 1..NextAnchor, first + conf.epochLedgers > NextAnchor
  PROVE  total[NextAnchor - 1] - total[first - 1] <= conf.epochCap
<1>1. CASE ~WindowOver
  BY <1>1 DEF NextAnchor, BudgetInv, SpentIn
<1>2. CASE WindowOver
  <2>1. NextAnchor = now /\ now >= epochAnc + conf.epochLedgers
    BY <1>2, WindowOverMeaning DEF NextAnchor
  <2>2. first > epochAnc /\ first <= now
    BY <2>1, Numbers
  <2>3. /\ epochAnc - 1 \in 0..now /\ first - 1 \in 0..now
        /\ now - 1 \in 0..now /\ now \in 0..now
        /\ epochAnc - 1 <= first - 1 /\ now - 1 <= now
    BY <2>1, <2>2, Numbers
  <2>4. /\ total[epochAnc - 1] <= total[first - 1]
        /\ total[now - 1] <= total[now]
    BY <2>3 DEF BudgetInv
  <2>5. total[now] - total[epochAnc - 1] = epochSpt /\ epochSpt <= conf.epochCap
    BY DEF BudgetInv, SpentIn
  <2>6. /\ total[epochAnc - 1] \in Nat /\ total[first - 1] \in Nat
        /\ total[now - 1] \in Nat /\ total[now] \in Nat
    BY <2>3, History
  <2> QED
    BY <2>1, <2>4, <2>5, <2>6, Numbers
<1> QED
  BY <1>1, <1>2

\* The counter carried into the payment is what its window has seen so far.
LEMMA InTheWindow ==
  ASSUME TypeOK, BudgetInv, now < U32Max
  PROVE  /\ total[now] - total[NextAnchor - 1] = SpentSoFar
         /\ NextAnchor \in 1..now
         /\ NextAnchor + conf.epochLedgers > now
         /\ SpentSoFar \in Nat
<1>1. CASE ~WindowOver
  BY <1>1, WindowOverMeaning, Numbers DEF NextAnchor, SpentSoFar, BudgetInv, SpentIn
<1>2. CASE WindowOver
  <2>1. NextAnchor = now /\ SpentSoFar = 0 /\ now >= epochAnc + conf.epochLedgers
    BY <1>2, WindowOverMeaning DEF NextAnchor, SpentSoFar
  <2>2. total[now] = total[now - 1]
    BY <2>1 DEF BudgetInv
  <2>3. now \in 0..now
    BY Numbers
  <2>4. total[now] \in Nat
    BY <2>3, History
  <2> QED
    BY <2>1, <2>2, <2>4, Numbers
<1> QED
  BY <1>1, <1>2

\* A payment keeps the invariant, in the window that is open or in a new one.
LEMMA BudgetCheckAuth ==
  ASSUME TypeOK, BudgetInv, NEW c \in AuthCalls, CheckAuth(c)
  PROVE  BudgetInv'
<1> DEFINE a == c.contexts[1].amount
<1>1. /\ now' = now /\ conf' = conf
      /\ epochAnc' = NextAnchor
      /\ epochSpt' = SpentSoFar + a
      /\ total' = [total EXCEPT ![now] = @ + a]
  BY DEF CheckAuth
<1>2. a \in Nat /\ SpentSoFar + a <= conf.epochCap
  <2>1. a \in 1..CapOf[pol] /\ CapOf[pol] \in Nat
    BY AuthorizedCall, BoundsAssumption, DataAssumption DEF CheckAuth, TypeOK
  <2>2. SpentSoFar + a <= conf.epochCap
    BY AuthorizedCall DEF CheckAuth
  <2> QED
    BY <2>1, <2>2
<1> HIDE DEF a
<1>3. /\ \A i \in 0..(now - 1) : total'[i] = total[i]
      /\ total'[now] = total[now] + a
      /\ total[now] \in Nat
  <2>1. \A i \in 0..(now - 1) : i \in 0..U32Max /\ i # now
    BY Numbers
  <2>2. now \in 0..U32Max /\ now \in 0..now
    BY Numbers
  <2> QED
    BY <1>1, <2>1, <2>2, History
<1>4. epochAnc' <= now' /\ epochSpt' <= conf'.epochCap
  BY <1>1, <1>2, Numbers DEF BudgetInv, NextAnchor
<1>5. \A i, j \in 0..now' : i <= j => total'[i] <= total'[j]
  <2> SUFFICES ASSUME NEW i \in 0..now, NEW j \in 0..now, i <= j
               PROVE  total'[i] <= total'[j]
    BY <1>1
  <2>1. /\ i = now => j = now
        /\ i # now => i \in 0..(now - 1)
        /\ j # now => j \in 0..(now - 1)
    BY Numbers
  <2>2. total[i] \in Nat /\ total[j] \in Nat /\ total[i] <= total[j]
    BY History DEF BudgetInv
  <2> QED
    BY <1>2, <1>3, <2>1, <2>2
\* A span that ended before this ledger is what it was.
<1>6. ASSUME NEW first \in 1..now, first + conf.epochLedgers <= now
      PROVE  SpentIn(first, SpanEnd(first))' <= 2 * conf.epochCap
  <2>1. /\ SpanEnd(first) = first + conf.epochLedgers - 1
        /\ SpanEnd(first) \in 0..(now - 1)
        /\ first - 1 \in 0..(now - 1)
    BY <1>6, SpanBounds
  <2>2. SpanEnd(first)' = SpanEnd(first)
    BY <1>1 DEF SpanEnd
  <2>3. SpentIn(first, SpanEnd(first))' = SpentIn(first, SpanEnd(first))
    BY <1>3, <2>1, <2>2 DEF SpentIn
  <2>4. SpanEnd(first) < U32Max
    BY <2>1, Numbers
  <2>5. SpentIn(first, SpanEnd(first)) <= 2 * conf.epochCap
    BY <2>4 DEF BudgetInv, TwoBudgetBound
  <2> QED
    BY <2>3, <2>5
\* A span that ends in it saw one budget before the window and one in it.
<1>7. ASSUME now < U32Max, NEW first \in 1..now, first + conf.epochLedgers > now
      PROVE  SpentIn(first, SpanEnd(first))' <= 2 * conf.epochCap
  <2>1. SpanEnd(first)' = now
    <3>1. SpanEnd(first)' = SpanEnd(first)
      BY <1>1 DEF SpanEnd
    <3> QED
      BY <1>7, <3>1, SpanBounds
  <2>2. first - 1 \in 0..(now - 1) /\ first - 1 \in 0..now
    BY Numbers
  <2>3. SpentIn(first, SpanEnd(first))' = (total[now] + a) - total[first - 1]
    <3>1. SpentIn(first, SpanEnd(first))' = total'[now] - total'[first - 1]
      BY <2>1 DEF SpentIn
    <3>2. total'[first - 1] = total[first - 1]
      BY <1>3, <2>2
    <3> QED
      BY <1>3, <3>1, <3>2
  <2>4. /\ total[now] - total[NextAnchor - 1] = SpentSoFar
        /\ NextAnchor \in 1..now /\ SpentSoFar \in Nat
    BY <1>7, InTheWindow
  <2>5. NextAnchor - 1 \in 0..now
    BY <2>4, Numbers
  <2>6. total[NextAnchor - 1] \in Nat /\ total[first - 1] \in Nat
    BY <2>2, <2>5, History
  <2>7. CASE first <= NextAnchor
    <3>1. first \in 1..NextAnchor /\ first + conf.epochLedgers > NextAnchor
      BY <1>7, <2>4, <2>7, Numbers
    <3>2. total[NextAnchor - 1] - total[first - 1] <= conf.epochCap
      BY <1>7, <3>1, BeforeTheWindow
    <3> QED
      BY <1>2, <1>3, <2>3, <2>4, <2>6, <3>2, Numbers
  <2>8. CASE first > NextAnchor
    <3>1. NextAnchor - 1 <= first - 1
      BY <2>4, <2>8, Numbers
    <3>2. total[NextAnchor - 1] <= total[first - 1]
      BY <2>2, <2>5, <3>1 DEF BudgetInv
    <3> QED
      BY <1>2, <1>3, <2>3, <2>4, <2>6, <3>2, Numbers
  <2> QED
    BY <2>4, <2>7, <2>8
<1>8. TwoBudgetBound'
  <2> SUFFICES ASSUME NEW first \in 1..now, SpanEnd(first)' < U32Max
               PROVE  SpentIn(first, SpanEnd(first))' <= 2 * conf.epochCap
    BY <1>1 DEF TwoBudgetBound
  <2>1. CASE first + conf.epochLedgers <= now
    BY <1>6, <2>1
  <2>2. CASE first + conf.epochLedgers > now
    <3>1. SpanEnd(first)' = SpanEnd(first)
      BY <1>1 DEF SpanEnd
    <3>2. now < U32Max
      BY <2>2, <3>1, SpanBounds
    <3> QED
      BY <1>7, <2>2, <3>2
  <2> QED
    BY <2>1, <2>2, Numbers
<1>9. ASSUME now < U32Max
      PROVE  /\ SpentIn(epochAnc, now)' = epochSpt'
             /\ ~(now >= epochAnc' + conf.epochLedgers)
             /\ \A first \in 1..epochAnc' :
                  first + conf.epochLedgers > epochAnc' =>
                    SpentIn(first, epochAnc - 1)' <= conf.epochCap
  <2>1. /\ total[now] - total[NextAnchor - 1] = SpentSoFar
        /\ NextAnchor \in 1..now /\ SpentSoFar \in Nat
        /\ NextAnchor + conf.epochLedgers > now
    BY <1>9, InTheWindow
  <2>2. NextAnchor - 1 \in 0..(now - 1) /\ NextAnchor - 1 \in 0..now
    BY <2>1, Numbers
  <2>3. total[NextAnchor - 1] \in Nat
    BY <2>2, History
  <2>4. SpentIn(epochAnc, now)' = epochSpt'
    BY <1>1, <1>2, <1>3, <2>1, <2>2, <2>3 DEF SpentIn
  <2>5. ~(now >= epochAnc' + conf.epochLedgers)
    BY <1>1, <2>1, Numbers
  <2>6. ASSUME NEW first \in 1..NextAnchor, first + conf.epochLedgers > NextAnchor
        PROVE  SpentIn(first, epochAnc - 1)' <= conf.epochCap
    <3>1. first - 1 \in 0..(now - 1)
      BY <2>1, Numbers
    <3>2. SpentIn(first, epochAnc - 1)' = total[NextAnchor - 1] - total[first - 1]
      BY <1>1, <1>3, <2>2, <3>1 DEF SpentIn
    <3> QED
      BY <1>9, <2>6, <3>2, BeforeTheWindow
  <2> QED
    BY <1>1, <2>4, <2>5, <2>6
<1> QED
  BY <1>1, <1>4, <1>5, <1>8, <1>9 DEF BudgetInv

(***************************************************************************)
(* The epoch budget of lib.rs 452-481 as one inductive invariant: what the *)
(* counter holds, what the window before it left, and the two-budget bound *)
(* that follows.                                                           *)
(***************************************************************************)
THEOREM BudgetInvariant == Spec => []BudgetInv
<1>1. Init => BudgetInv
  <2> SUFFICES ASSUME Init
               PROVE  BudgetInv
    OBVIOUS
  <2>1. TypeOK
    BY TypeCorrectInit
  <2>2. /\ epochAnc = now /\ epochSpt = 0
        /\ total = [l \in 0..U32Max |-> 0]
    BY DEF Init
  <2>3. \A i \in 0..now : total[i] = 0
    BY <2>1, <2>2, Numbers
  <2>4. TwoBudgetBound
    <3> SUFFICES ASSUME NEW first \in 1..now
                 PROVE  SpentIn(first, SpanEnd(first)) <= 2 * conf.epochCap
      BY DEF TwoBudgetBound
    <3>1. SpanEnd(first) \in 0..now /\ first - 1 \in 0..now
      BY <2>1, Numbers DEF SpanEnd, Smaller
    <3> QED
      BY <2>1, <2>3, <3>1, Numbers DEF SpentIn
  <2> QED
    BY <2>1, <2>2, <2>3, <2>4, Numbers DEF BudgetInv, SpentIn
<1>2. TypeOK /\ BudgetInv /\ [Next]_vars => BudgetInv'
  <2> SUFFICES ASSUME TypeOK, BudgetInv, [Next]_vars
               PROVE  BudgetInv'
    OBVIOUS
  <2>1. CASE CloseLedger
    BY <2>1, BudgetCloseLedger
  <2>2. ASSUME NEW by \in Address, NEW c \in Commitment, NEW r \in Root,
               ProposeRotation(by, c, r)
        PROVE  BudgetInv'
    BY <2>2, BudgetFrame DEF ProposeRotation
  <2>3. ASSUME NEW by \in Address,
               ExecuteRotation(by) \/ CancelRotation(by) \/ Freeze(by) \/ Unfreeze(by)
        PROVE  BudgetInv'
    BY <2>3, BudgetFrame DEF ExecuteRotation, CancelRotation, Freeze, Unfreeze, SetFrozen
  <2>4. ASSUME NEW c \in AuthCalls, CheckAuth(c)
        PROVE  BudgetInv'
    BY <2>4, BudgetCheckAuth
  <2>5. CASE UNCHANGED vars
    BY <2>5, BudgetFrame DEF vars, storage
  <2> QED
    BY <2>1, <2>2, <2>3, <2>4, <2>5, InputAssumption DEF Next, Policy
<1> QED
  BY <1>1, <1>2, TypeCorrect, PTL DEF Spec

\* The counter is exact and within the budget, in every reachable state.
COROLLARY BudgetCounter == Spec => []BudgetCounterExact
<1>1. BudgetInv => BudgetCounterExact
  BY DEF BudgetInv, BudgetCounterExact
<1> QED
  BY <1>1, BudgetInvariant, PTL

\* No epochLedgers consecutive ledgers authorize more than two budgets.
COROLLARY TwoBudgets == Spec => []TwoBudgetBound
<1>1. BudgetInv => TwoBudgetBound
  BY DEF BudgetInv
<1> QED
  BY <1>1, BudgetInvariant, PTL

-----------------------------------------------------------------------------
(* The rotation timelock                                                   *)

\* The pending rotation always carries the unlock ledger of its own proposal.
THEOREM RotationInvariant == Spec => []RotationInv
<1>1. Init => RotationInv
  BY DEF Init, RotationInv
<1>2. TypeOK /\ RotationInv /\ [Next]_vars => RotationInv'
  <2> SUFFICES ASSUME TypeOK, RotationInv, [Next]_vars
               PROVE  RotationInv'
    OBVIOUS
  <2>1. CASE CloseLedger
    BY <2>1 DEF CloseLedger, storage, RotationInv
  <2>2. ASSUME NEW by \in Address, NEW c \in Commitment, NEW r \in Root,
               ProposeRotation(by, c, r)
        PROVE  RotationInv'
    <3> DEFINE rot == [commitment |-> c, root |-> r,
                       unlock_ledger |-> SatAdd(now, conf.rotationDelay)]
               stage == [at |-> now, by |-> by]
    <3>1. SatAdd(now, conf.rotationDelay) \in Ledger
      BY SatAddBounds DEF TypeOK, Conf
    <3>2. /\ pendRot' = rot /\ staged' = stage /\ conf' = conf
          /\ by = conf.admin
      BY <2>2 DEF ProposeRotation, RequireAdmin
    <3>3. rot # NoRotation
      BY <3>1, DataAssumption DEF PendingRotation
    <3>4. stage # NoRotation
      BY DataAssumption DEF TypeOK
    <3> QED
      BY <3>2, <3>3, <3>4 DEF RotationInv, SatAdd
  <2>3. ASSUME NEW by \in Address, ExecuteRotation(by) \/ CancelRotation(by)
        PROVE  RotationInv'
    BY <2>3 DEF ExecuteRotation, CancelRotation, RotationInv
  <2>4. ASSUME NEW by \in Address, Freeze(by) \/ Unfreeze(by)
        PROVE  RotationInv'
    BY <2>4 DEF Freeze, Unfreeze, SetFrozen, RotationInv
  <2>5. ASSUME NEW c \in AuthCalls, CheckAuth(c)
        PROVE  RotationInv'
    BY <2>5 DEF CheckAuth, RotationInv
  <2>6. CASE UNCHANGED vars
    BY <2>6 DEF vars, storage, RotationInv
  <2> QED
    BY <2>1, <2>2, <2>3, <2>4, <2>5, <2>6, InputAssumption DEF Next, Policy
<1> QED
  BY <1>1, <1>2, TypeCorrect, PTL DEF Spec

\* The policy in force changes only to what the admin proposed at least
\* rotationDelay ledgers ago and has not touched since.
THEOREM TimelockHolds == Spec => PolicyChangeWasStaged
<1> DEFINE Staged ==
      <<pol, root>>' # <<pol, root>> =>
        /\ staged # NoRotation
        /\ staged.by = conf.admin
        /\ now >= SatAdd(staged.at, conf.rotationDelay)
        /\ <<pol, root>>' = <<pendRot.commitment, pendRot.root>>
<1>1. TypeOK /\ RotationInv /\ [Next]_vars => [Staged]_vars
  <2> SUFFICES ASSUME TypeOK, RotationInv, [Next]_vars
               PROVE  Staged
    OBVIOUS
  <2>1. ASSUME NEW by \in Address, ExecuteRotation(by)
        PROVE  Staged
    <3>1. /\ pendRot # NoRotation
          /\ ~(now < pendRot.unlock_ledger)
          /\ pol' = pendRot.commitment /\ root' = pendRot.root
      BY <2>1 DEF ExecuteRotation, ExecuteVerdict
    <3>2. pendRot.unlock_ledger \in Int /\ now \in Int
      BY <3>1, BoundsAssumption DEF TypeOK, PendingRotation, Ledger
    <3> QED
      BY <3>1, <3>2 DEF RotationInv
  <2>2. ASSUME UNCHANGED <<pol, root>>
        PROVE  Staged
    BY <2>2
  <2>3. CASE CloseLedger
    BY <2>2, <2>3 DEF CloseLedger, storage
  <2>4. ASSUME NEW by \in Address, NEW c \in Commitment, NEW r \in Root,
               ProposeRotation(by, c, r)
        PROVE  Staged
    BY <2>2, <2>4 DEF ProposeRotation
  <2>5. ASSUME NEW by \in Address, CancelRotation(by) \/ Freeze(by) \/ Unfreeze(by)
        PROVE  Staged
    BY <2>2, <2>5 DEF CancelRotation, Freeze, Unfreeze, SetFrozen
  <2>6. ASSUME NEW c \in AuthCalls, CheckAuth(c)
        PROVE  Staged
    BY <2>2, <2>6 DEF CheckAuth
  <2>7. CASE UNCHANGED vars
    BY <2>2, <2>7 DEF vars, storage
  <2> QED
    BY <2>1, <2>3, <2>4, <2>5, <2>6, <2>7, InputAssumption DEF Next, Policy
<1> QED
  BY <1>1, TypeCorrect, RotationInvariant, PTL DEF Spec, PolicyChangeWasStaged

-----------------------------------------------------------------------------
(* The account implements the governed vault                               *)

\* Every step of the account is a step of the vault, or leaves it unchanged.
LEMMA VaultStep ==
  ASSUME TypeOK, TypeOK', BudgetInv, BudgetInv', RotationInv, RotationInv', [Next]_vars
  PROVE  [Vault!Next]_(Vault!vars)
<1> DEFINE limit == [p \in Policy |-> CapOf[p.commitment]]
           inForce == [commitment |-> pol, root |-> root]
<1>1. CASE CloseLedger
  <2>1. Vault!Pass
    BY <1>1 DEF CloseLedger, storage, Vault!Pass
  <2> QED
    BY <2>1 DEF Vault!Next
<1>2. ASSUME NEW by \in Address, NEW c \in Commitment, NEW r \in Root,
             ProposeRotation(by, c, r)
      PROVE  Vault!Next
  <2> DEFINE p == [commitment |-> c, root |-> r]
  <2>1. p \in Policy
    BY DEF Policy
  <2>2. /\ pendRot' # NoRotation
        /\ pendRot'.commitment = c /\ pendRot'.root = r
        /\ staged'.at = now
        /\ UNCHANGED <<now, conf, pol, root, frozen, total>>
    <3>1. staged' # NoRotation /\ staged'.at = now
      BY <1>2, DataAssumption DEF ProposeRotation, TypeOK
    <3> QED
      BY <1>2, <3>1 DEF ProposeRotation, RotationInv
  <2>3. Vault!Offer(p)
    BY <2>2 DEF Vault!Offer
  <2> QED
    BY <2>1, <2>3 DEF Vault!Next
<1>3. ASSUME NEW by \in Address, ExecuteRotation(by)
      PROVE  Vault!Next
  <2>1. /\ pendRot # NoRotation
        /\ ~(now < pendRot.unlock_ledger)
        /\ pol' = pendRot.commitment /\ root' = pendRot.root
        /\ pendRot' = NoRotation
        /\ UNCHANGED <<now, conf, frozen, total>>
    BY <1>3 DEF ExecuteRotation, ExecuteVerdict
  <2>2. now >= Vault!Earlier(staged.at + conf.rotationDelay, U32Max)
    <3>1. pendRot.unlock_ledger = SatAdd(staged.at, conf.rotationDelay)
      BY <2>1 DEF RotationInv
    <3>2. pendRot.unlock_ledger \in Int /\ now \in Int
      BY <2>1, BoundsAssumption DEF TypeOK, PendingRotation, Ledger
    <3>3. now >= SatAdd(staged.at, conf.rotationDelay)
      BY <2>1, <3>1, <3>2
    <3> QED
      BY <3>3 DEF SatAdd, Smaller, Vault!Earlier
  <2>3. [policy |-> [commitment |-> pendRot.commitment, root |-> pendRot.root],
         since |-> staged.at] # NoRotation
    <3>1. staged \in [at : Ledger, by : Address] /\ pendRot \in PendingRotation
      BY <2>1 DEF RotationInv, TypeOK
    <3>2. /\ staged.at \in Ledger
          /\ [commitment |-> pendRot.commitment, root |-> pendRot.root] \in Policy
      BY <3>1 DEF PendingRotation, Policy
    <3> QED
      BY <3>2, DataAssumption
  <2>4. Vault!Adopt
    BY <2>1, <2>2, <2>3 DEF Vault!Adopt
  <2> QED
    BY <2>4 DEF Vault!Next
<1>4. ASSUME NEW by \in Address, CancelRotation(by)
      PROVE  Vault!Next
  <2>1. Vault!Withdraw
    BY <1>4 DEF CancelRotation, Vault!Withdraw
  <2> QED
    BY <2>1 DEF Vault!Next
<1>5. ASSUME NEW by \in Address, Freeze(by) \/ Unfreeze(by)
      PROVE  Vault!Next
  <2>1. Vault!SetFrozen(TRUE) \/ Vault!SetFrozen(FALSE)
    BY <1>5 DEF Freeze, Unfreeze, SetFrozen, Vault!SetFrozen
  <2> QED
    BY <2>1 DEF Vault!Next
<1>6. ASSUME NEW c \in AuthCalls, CheckAuth(c)
      PROVE  Vault!Next
  <2> DEFINE a == c.contexts[1].amount
  <2>1. /\ ~frozen
        /\ a \in 1..CapOf[pol]
        /\ SpentSoFar + a <= conf.epochCap
    BY <1>6, AuthorizedCall DEF CheckAuth
  <2>2. /\ total' = [total EXCEPT ![now] = @ + a]
        /\ UNCHANGED <<now, conf, pol, root, frozen, pendRot, staged>>
    BY <1>6 DEF CheckAuth
  <2>3. a \in Int /\ a <= conf.epochCap
    <3>1. SpentSoFar \in Nat /\ CapOf[pol] \in Nat /\ conf.epochCap \in Nat
      BY Numbers, BoundsAssumption, DataAssumption DEF TypeOK, SpentSoFar
    <3> QED
      BY <2>1, <3>1
  <2>4. Vault!WithinTwoBudgets(total')
    <3> SUFFICES ASSUME now < U32Max,
                        NEW first \in 1..now, first + conf.epochLedgers > now
                 PROVE  total'[now] - total'[first - 1] <= 2 * conf.epochCap
      BY DEF Vault!WithinTwoBudgets
    <3>1. SpanEnd(first)' = now
      BY <2>2, SpanBounds DEF SpanEnd
    <3>2. first \in 1..now' /\ SpanEnd(first)' < U32Max
      BY <2>2, <3>1
    <3>3. SpentIn(first, SpanEnd(first))' <= 2 * conf'.epochCap
      BY <3>2 DEF BudgetInv, TwoBudgetBound
    <3> QED
      BY <2>2, <3>1, <3>3 DEF SpentIn
  <2>5. limit[inForce] = CapOf[pol]
    BY DEF TypeOK, Policy
  <2>6. Vault!Pay(a)
    BY <2>1, <2>2, <2>3, <2>4 DEF Vault!Pay
  <2>7. a \in 1..limit[inForce]
    BY <2>1, <2>5
  <2> QED
    BY <2>6, <2>7 DEF Vault!Next
<1>7. CASE UNCHANGED vars
  BY <1>7 DEF vars, storage, Vault!vars
<1> QED
  BY <1>1, <1>2, <1>3, <1>4, <1>5, <1>6, <1>7, InputAssumption DEF Next, Policy

\* The account implements the vault: whatever its callers do, nobody can tell
\* it from a vault with two budgets per window and a notice period.
THEOREM VaultRefinement == Spec => ImplementsVault
<1>1. Init => Vault!Init
  <2> SUFFICES ASSUME Init
               PROVE  Vault!Init
    OBVIOUS
  <2>1. TypeOK
    BY TypeCorrectInit
  <2>2. /\ frozen = FALSE /\ pendRot = NoRotation
        /\ total = [l \in 0..U32Max |-> 0]
    BY DEF Init
  <2>3. /\ conf.epochLedgers > 0 /\ conf.epochCap > 0 /\ conf.rotationDelay > 0
    BY <2>1, BoundsAssumption DEF TypeOK, Conf
  <2>4. [commitment |-> pol, root |-> root] \in Policy
    BY <2>1 DEF TypeOK, Policy
  <2> QED
    BY <2>1, <2>2, <2>3, <2>4 DEF Vault!Init, TypeOK, Ledger
<1>2. /\ TypeOK /\ TypeOK' /\ BudgetInv /\ BudgetInv' /\ RotationInv /\ RotationInv'
      /\ [Next]_vars
      => [Vault!Next]_(Vault!vars)
  BY VaultStep
<1> QED
  BY <1>1, <1>2, TypeCorrect, BudgetInvariant, RotationInvariant, PTL
     DEF Spec, ImplementsVault, Vault!Spec
=============================================================================
