----------------------------- MODULE MCPayFlow -----------------------------
(***************************************************************************)
(* The demo account and a user's account, with different allowlists and    *)
(* caps, and two payments.                                                 *)
(***************************************************************************)
EXTENDS PayFlow, TLC

CONSTANTS demo, user, shop, lab

MCCapOf == demo :> 1 @@ user :> 2
MCMembersOf == demo :> {shop} @@ user :> {shop, lab}
MCOpening == demo :> 1 @@ user :> 2

\* One that both policies allow, one that only the user's does.
MCPayments == {[dest |-> shop, amount |-> 1], [dest |-> lab, amount |-> 2]}
=============================================================================
