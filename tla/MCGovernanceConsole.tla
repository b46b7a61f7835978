------------------------ MODULE MCGovernanceConsole ------------------------
(***************************************************************************)
(* One account and its admin; the payments are left to the other models.   *)
(***************************************************************************)
EXTENDS GovernanceConsole, TLC

CONSTANTS self, admin, token, c1, c2, r1, Delay

MCAddress == {self, admin, token}
MCDestField == self :> 11 @@ admin :> 12 @@ token :> 13
MCCapOf == c1 :> 1 @@ c2 :> 2
MCMembersOf == r1 :> {12}

MCConstructorArgs ==
  [icLen : {N_PUBLIC + 1}, commitment : {c1}, root : {r1}, token : {token},
   admin : {admin}, epochLedgers : {1}, epochCap : {1}, rotationDelay : {Delay}]

MCProposals == Policy
=============================================================================
