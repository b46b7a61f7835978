---------------------------- MODULE MCAttackDeck ----------------------------
(***************************************************************************)
(* The deck, or the payment scripts, against a reference account that      *)
(* others use as well; and, sharing no state with them, the server's       *)
(* request handling that the deck's calls pass.  Each of the three moves   *)
(* while the others rest.                                                  *)
(***************************************************************************)
EXTENDS PaymentScripts, EdgeServices, TLC

CONSTANTS self, admin, token, xlm, payee, attacker, c1, c2, cwrong, r1

MCAddress == {self, admin, token, xlm, payee, attacker}
MCDestField ==
  self :> 11 @@ admin :> 12 @@ token :> 13 @@ xlm :> 14 @@ payee :> 15 @@ attacker :> 16
MCCapOf == c1 :> 1 @@ c2 :> 2 @@ cwrong :> 1
MCMembersOf == r1 :> {15}
MCSecret == [commitment |-> c1, root |-> r1]
MCProposals == {[commitment |-> c2, root |-> r1]}

MCConstructorArgs ==
  [icLen : {N_PUBLIC + 1}, commitment : {c1}, root : {r1}, token : {token},
   admin : {admin}, epochLedgers : {2}, epochCap : {2}, rotationDelay : {1}]

MCPayload(n, x, c) == [hi |-> <<n, x, c>>, lo |-> <<n, x, c>>]

\* Somebody else's payment, from the same keystore.
Payment ==
  LET p == MCPayload(1, U32Max, ValidCalls)
  IN  [nonce |-> 1, expires |-> U32Max, contexts |-> ValidCalls,
       sig |-> [count |-> N_PUBLIC, amount |-> Amt, dest |-> MCDestField[payee],
                commitment |-> c1, root |-> r1, hi |-> p.hi, lo |-> p.lo, genuine |-> TRUE]]

MCEntries == {Payment}
MCAuthCalls == {CallOf(Payment)}
MCCallLists == {ValidCalls}
MCHalf ==
  {<<n, x, c>> : n \in Nonce, x \in Ledger,
                 c \in {ValidCalls} \cup {CallsOf(m) : m \in Mode}}

\* Of the agent's longest plans the one of its demonstration.
MCPlan ==
  Plans \ {p \in AgentPlans : Len(p) = 3 /\ (p[1].mode = "overcap" \/ p[2].mode # "redirect")}

CONSTANTS u1, u2, good, bad, proxy, site, other

MCClient == {u1, u2}
MCDest == {good, bad}
MCVendors == {<<good>>}
MCLimit == [e \in {"relay", "attack", "agent"} |-> 2] @@ [e \in {"waitlist", "export"} |-> 1]

\* Each client claims to be the other, behind either proxy; u1 also opens a page
\* of another site, and u2 reaches a server that has no proxy.
MCRequests ==
  LET page(path) == [from |-> u1, external |-> u1, hops |-> <<u2>>, socket |-> proxy,
                     origin |-> site, host |-> site, method |-> "POST", path |-> path]
      program(path) == [from |-> u2, external |-> Nothing, hops |-> <<u1, u2>>, socket |-> proxy,
                        origin |-> Nothing, host |-> site, method |-> "POST", path |-> path]
  IN  {page("waitlist"), [page("waitlist") EXCEPT !.origin = other],
       [page("export") EXCEPT !.method = "GET"], program("agent"), program("waitlist"),
       [program("relay") EXCEPT !.hops = << >>, !.socket = u2]}

-----------------------------------------------------------------------------
DeckRests == relay = "unprobed" /\ \A r \in Run : pc[r] = "idle"
ScriptsRest == \A s \in Process : phase[s] = "idle"
\* The requests come to an end by their bounds alone, which is no deadlock.
EdgeRests == clock = 0 /\ asked = 0 /\ restarts = 0 /\ ~webhook
AccountRests ==
  /\ now = 1 /\ ~frozen /\ pendRot = NoRotation /\ settled = << >> /\ trustline
  /\ \A t \in Asset : inflow[t] = 0

\* Bound: the admin freezes the account or rotates it, once.
OneAdminAct ==
  /\ frozen => pendRot = NoRotation /\ pol = c1
  /\ pol # c1 => pendRot = NoRotation

JoinedNext ==
  \/ EdgeRests /\ ScriptsRest /\ DeckStep /\ OneAdminAct' /\ UNCHANGED edgeVars
  \/ EdgeRests /\ DeckRests /\ ScriptsStep /\ OneAdminAct' /\ UNCHANGED edgeVars
  \/ /\ AccountRests /\ DeckRests /\ ScriptsRest
     /\ EdgeNext /\ UNCHANGED <<deckVars, scriptVars>>
  \/ ~EdgeRests /\ UNCHANGED <<deckVars, scriptVars, edgeVars>>

JoinedInit == PaymentsInit /\ now = 1 /\ EdgeInit

JoinedSpec == JoinedInit /\ [][JoinedNext]_<<deckVars, scriptVars, edgeVars>>
=============================================================================
