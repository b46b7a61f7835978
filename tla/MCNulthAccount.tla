--------------------------- MODULE MCNulthAccount ---------------------------
(***************************************************************************)
(* Small instances of NulthAccount for TLC: four addresses, of which only  *)
(* `payee` is under a root; commitment c1 binds cap 1 and c2 binds cap 2.  *)
(***************************************************************************)
EXTENDS NulthAccount, TLC

CONSTANTS self, admin, token, payee, half, c1, c2, r1, r2, Windows, Budgets, Delays, MaxTotal

MCAddress == {self, admin, token, payee}
MCDestField == self :> 11 @@ admin :> 12 @@ token :> 13 @@ payee :> 14
MCCapOf == [c \in Commitment |-> IF c = c1 THEN 1 ELSE 2]
MCMembersOf == [r \in Root |-> IF r = r1 THEN {14} ELSE {14, 12}]

\* Degenerate arguments are among them: the constructor must refuse them.
MCConstructorArgs ==
  [icLen : {N_PUBLIC, N_PUBLIC + 1}, commitment : Commitment, root : {r1}, token : {token},
   admin : {admin}, epochLedgers : Windows, epochCap : Budgets, rotationDelay : Delays]

\* A payment of a to `payee`, with a proof under any policy: one that exceeds
\* the cap it claims, or is about a policy no longer in force, is refused.
Payment(a, c, r) ==
  [payload |-> [hi |-> half, lo |-> half],
   sig |-> [count |-> N_PUBLIC, amount |-> a, dest |-> MCDestField[payee],
            commitment |-> c, root |-> r, hi |-> half, lo |-> half, genuine |-> TRUE],
   contexts |-> << [kind |-> "Contract", contract |-> token, fn |-> "transfer",
                    from |-> self, to |-> payee, amount |-> a] >>]

MCAuthCalls == {Payment(a, c, r) : a \in 0..3, c \in Commitment, r \in Root}

MCProposals == Policy

\* In the last ledger every spend opens a window of its own (lib.rs 459), so
\* what is authorized there has no end.
BoundedTotal == total[now] <= MaxTotal
=============================================================================
