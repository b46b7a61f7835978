---------------------------- MODULE MCPaymentHost ----------------------------
(***************************************************************************)
(* An account with two assets, a payee under r1, another payee that only   *)
(* r2 admits, and one auth entry for each way a payment is made or goes    *)
(* wrong; and, sharing no state with them, the operator's scripts, against *)
(* the contract the governance scripts were written for and against the    *)
(* one of lib.rs, which has no rotate_policy.  Each of the two moves while *)
(* the other rests.                                                        *)
(***************************************************************************)
EXTENDS PaymentHost, OperatorScripts, TLC

CONSTANTS self, admin, token, xlm, payee, other, c1, c2, r1, r2, Delay, EntryLife

MCAddress == {self, admin, token, xlm, payee, other}
MCDestField ==
  self :> 11 @@ admin :> 12 @@ token :> 13 @@ xlm :> 14 @@ payee :> 15 @@ other :> 16
MCCapOf == c1 :> 1 @@ c2 :> 2
MCMembersOf == r1 :> {15} @@ r2 :> {15, 16, 11}

MCConstructorArgs ==
  [icLen : {N_PUBLIC + 1}, commitment : {c1}, root : {r1}, token : {token},
   admin : {admin}, epochLedgers : {2}, epochCap : {2}, rotationDelay : {Delay}]

MCPayload(n, x, c) == [hi |-> <<n, x, c>>, lo |-> <<n, x, c>>]

Call(t, f, from, to, a) ==
  [kind |-> "Contract", contract |-> t, fn |-> f, from |-> from, to |-> to, amount |-> a]

\* An entry for `contexts`, with a proof for amount a to d under (c, r).
Signed(n, x, contexts, a, d, c, r) ==
  [nonce |-> n, expires |-> x, contexts |-> contexts,
   sig |-> [count |-> N_PUBLIC, amount |-> a, dest |-> MCDestField[d], commitment |-> c,
            root |-> r, hi |-> <<n, x, contexts>>, lo |-> <<n, x, contexts>>,
            genuine |-> TRUE]]

Payment(n, x, to, a, c, r) ==
  Signed(n, x, <<Call(token, "transfer", self, to, a)>>, a, to, c, r)

Plain == Payment(1, EntryLife, payee, 1, c1, r1)

MCEntries ==
  { Plain,
    Payment(1, U32Max, payee, 2, c2, r2),        \* the same nonce, used again
    Payment(2, U32Max, payee, 1, c1, r1),
    Payment(2, U32Max, other, 2, c2, r2),        \* in policy after the rotation
    Payment(3, U32Max, self, 1, c2, r2),         \* to the account itself
    Payment(3, U32Max, payee, 2, c1, r1),        \* over the cap
    Payment(3, U32Max, other, 1, c1, r1),        \* not on the list
    [Plain EXCEPT !.nonce = 3],                  \* lifted to another nonce
    [Plain EXCEPT !.sig.genuine = FALSE],
    [Plain EXCEPT !.sig.count = 5],
    Signed(3, U32Max, <<Call(xlm, "transfer", self, payee, 1)>>, 1, payee, c1, r1),
    Signed(3, U32Max, <<Call(token, "burn", self, NoValue, 1)>>, 1, payee, c1, r1),
    Signed(3, U32Max, <<Call(token, "transfer", other, payee, 1)>>, 1, payee, c1, r1),
    Signed(3, U32Max, <<Call(token, "transfer", self, payee, 0)>>, 0, payee, c1, r1),
    Signed(3, U32Max, <<Call(token, "transfer", self, other, 1)>>, 1, payee, c1, r1),
    Signed(3, U32Max, <<Call(token, "transfer", self, payee, 2)>>, 1, payee, c1, r1),
    Signed(3, U32Max, << >>, 1, payee, c1, r1),
    Signed(3, U32Max, <<Call(token, "transfer", self, payee, 1),
                        Call(token, "transfer", self, payee, 1)>>, 1, payee, c1, r1) }

MCProposals == Policy

MCHalf == {e.sig.hi : e \in MCEntries}
             \cup {<<e.nonce, e.expires, e.contexts>> : e \in MCEntries}
MCAuthCalls == {CallOf(e) : e \in MCEntries}
MCCallLists == {e.contexts : e \in MCEntries}

MCBuilds == {{"freeze", "unfreeze", "rotate_policy"}, {"freeze", "unfreeze"}}

-----------------------------------------------------------------------------
HostRests ==
  /\ now = 1 /\ ~frozen /\ pendRot = NoRotation /\ settled = << >>
  /\ \A t \in Asset : inflow[t] = 0

\* Which script it is that rests does not matter to the account.
ScriptRests ==
  /\ script = "create" /\ "rotate_policy" \in exports
  /\ pc = 1 /\ stage = "call" /\ attempts = 1 /\ ended = "running"
  /\ \A k \in Signer : numbers[k] = 0 /\ inflight[k] = NoTx

\* A script comes to its end, which is no deadlock.
MCNext ==
  \/ ScriptRests /\ HostNext /\ UNCHANGED scriptVars
  \/ HostRests /\ ScriptNext /\ UNCHANGED <<vars, hostVars>>
  \/ ended # "running" /\ UNCHANGED <<vars, hostVars, scriptVars>>

MCInit == HostInit /\ ScriptInit /\ (HostRests \/ ScriptRests)

MCSpec == MCInit /\ [][MCNext]_<<vars, hostVars, scriptVars>>
=============================================================================
