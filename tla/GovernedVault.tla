---------------------------- MODULE GovernedVault ---------------------------
(***************************************************************************)
(* What the Nulth account promises, without saying how.  Money leaves only *)
(* under the policy in force and at most two budgets of it in any window's *)
(* length of consecutive ledgers; the policy changes only to an offer that *)
(* has been open for the whole notice period; a frozen vault pays nothing. *)
(* There is no anchor, counter, stored unlock ledger or error here.        *)
(***************************************************************************)
EXTENDS Integers

CONSTANTS
  EndOfTime,   \* the last ledger number
  Policy,      \* the policies that may be committed
  Limit,       \* Limit[p]: the most that one payment may move under p
  NoOffer

VARIABLES
  clock,       \* the open ledger
  terms,       \* [window, budget, notice], fixed for the vault's life
  policy,      \* the policy in force
  offer,       \* the policy on offer and since when, or NoOffer
  frozen,
  paid         \* paid[l]: all that was paid up to the end of ledger l

vars == <<clock, terms, policy, offer, frozen, paid>>

Earlier(x, y) == IF x < y THEN x ELSE y

Init ==
  /\ clock \in 1..EndOfTime
  /\ terms.window > 0 /\ terms.budget > 0 /\ terms.notice > 0
  /\ policy \in Policy
  /\ offer = NoOffer
  /\ frozen = FALSE
  /\ paid = [l \in 0..EndOfTime |-> 0]

Pass ==
  /\ clock' = clock + 1
  /\ paid' = [paid EXCEPT ![clock + 1] = paid[clock]]
  /\ UNCHANGED <<terms, policy, offer, frozen>>

Offer(p) ==
  /\ offer' = [policy |-> p, since |-> clock]
  /\ UNCHANGED <<clock, terms, policy, frozen, paid>>

Withdraw ==
  /\ offer' = NoOffer
  /\ UNCHANGED <<clock, terms, policy, frozen, paid>>

\* Notice that would run past the end of time ends there.
Adopt ==
  /\ offer # NoOffer
  /\ clock >= Earlier(offer.since + terms.notice, EndOfTime)
  /\ policy' = offer.policy
  /\ offer' = NoOffer
  /\ UNCHANGED <<clock, terms, frozen, paid>>

SetFrozen(f) ==
  /\ frozen' = f
  /\ UNCHANGED <<clock, terms, policy, offer, paid>>

\* Nothing but the budget of a single payment is promised in the last ledger.
WithinTwoBudgets(p) ==
  clock < EndOfTime =>
    \A first \in 1..clock :
      first + terms.window > clock => p[clock] - p[first - 1] <= 2 * terms.budget

Pay(a) ==
  /\ ~frozen
  /\ a <= terms.budget
  /\ paid' = [paid EXCEPT ![clock] = @ + a]
  /\ WithinTwoBudgets(paid')
  /\ UNCHANGED <<clock, terms, policy, offer, frozen>>

Next ==
  \/ Pass
  \/ \E p \in Policy : Offer(p)
  \/ Withdraw
  \/ Adopt
  \/ \E f \in BOOLEAN : SetFrozen(f)
  \/ \E a \in 1..Limit[policy] : Pay(a)

Spec == Init /\ [][Next]_vars
=============================================================================
