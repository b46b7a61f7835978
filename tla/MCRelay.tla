------------------------------ MODULE MCRelay ------------------------------
(***************************************************************************)
(* Requests that carry the same signed entry or another, that ask for no   *)
(* amount at all, or that skip the simulation with a proof that does not   *)
(* verify.                                                                 *)
(***************************************************************************)
EXTENDS Relay, TLC

CONSTANTS self, admin, token, payee, c1, r1

MCAddress == {self, admin, token, payee}
MCDestField == self :> 11 @@ admin :> 12 @@ token :> 13 @@ payee :> 14
MCCapOf == c1 :> 1
MCMembersOf == r1 :> {14}

MCConstructorArgs ==
  [icLen : {N_PUBLIC + 1}, commitment : {c1}, root : {r1}, token : {token},
   admin : {admin}, epochLedgers : {1}, epochCap : {1}, rotationDelay : {3}]

MCPayload(n, x, c) == [hi |-> n, lo |-> n]

\* An entry that pays 1 to payee, with or without a proof.
Signed(n, g) ==
  [nonce |-> n, expires |-> U32Max - 1,
   contexts |-> << [kind |-> "Contract", contract |-> token, fn |-> "transfer",
                    from |-> self, to |-> payee, amount |-> 1] >>,
   sig |-> [count |-> N_PUBLIC, amount |-> 1, dest |-> MCDestField[payee],
            commitment |-> c1, root |-> r1, hi |-> n, lo |-> n, genuine |-> g]]

First == Signed(1, TRUE)
Second == Signed(2, TRUE)
Forged == Signed(3, FALSE)

MCEntries == {First, Second, Forged}
MCAuthCalls == {CallOf(e) : e \in MCEntries}
MCCallLists == {e.contexts : e \in MCEntries}

MCBodies ==
  { [attack |-> FALSE, to |-> payee, amount |-> 1, entry |-> First],
    [attack |-> FALSE, to |-> payee, amount |-> 0, entry |-> First],
    [attack |-> FALSE, to |-> payee, amount |-> 1, entry |-> Second],
    [attack |-> TRUE, to |-> payee, amount |-> 1, entry |-> Forged] }
=============================================================================
