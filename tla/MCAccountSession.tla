-------------------------- MODULE MCAccountSession --------------------------
(***************************************************************************)
(* Two creations, with allowlists of one member and of a number that is    *)
(* odd on more than one level of the tree; and, sharing no state with      *)
(* them, the encoding of proofs, with words of eight bits and a scalar     *)
(* field of 193 elements, which lets signals be raised by the order.  The  *)
(* run explores each of the two while the other rests.                     *)
(***************************************************************************)
EXTENDS AccountSession, ProofEncoding, TLC

MCCapOf == 0 :> 1 @@ 1 :> 2 @@ 2 :> 3

Leaf(i) == <<i>>
MCAllowlists == {<<Leaf(1)>>, <<Leaf(1), Leaf(2), Leaf(3), Leaf(4), Leaf(5)>>}

\* Payloads that differ in the high half, the low half and the order of the
\* two; two addresses that differ in the top bit only, and one that does not.
MCPayloads == {Bits(v, WordBits) : v \in {0, 18, 33, 146}}
MCRecipients == {Bits(v, WordBits) : v \in {5, 68, 133}}
MCAmounts == {-1, 0, 1, 5, 8}
MCPolicies ==
  {[commitment |-> 20, root |-> 30, cap |-> 5], [commitment |-> 20, root |-> 31, cap |-> 2]}

\* Points whose coordinates are all different.
G1(k) == <<k, 255 - k>>
G2(k) == << <<k, k + 7>>, <<200 - k, k + 50>> >>
MCSetup ==
  [alpha |-> G1(3), beta |-> G2(10), gamma |-> G2(20), delta |-> G2(30),
   ic |-> [i \in 1 .. N + 1 |-> G1(100 + i)]]
MCPoints == [a |-> G1(41), b |-> G2(42), c |-> G1(43)]

\* What shares no state rests in turn, to keep the run small: no read and no
\* disclosure overlaps the making of an account, nor does a list of payments; a
\* disclosure is overlapped by late reads alone, until it has its proof, and
\* payments are listed while there is neither.
Listed == load.listed \/ view.activity # NoValue

Resting ==
  /\ at # "idle" \/ pool # {} =>
       disc.phase = "idle" /\ late = NoValue /\ oldLoads = {} /\ ~Listed
  /\ oldLoads # {} => disc.phase = "idle" /\ late = NoValue
  /\ late # NoValue => disc.phase \in {"idle", "proving"}
  /\ Listed => disc.phase = "idle" /\ late = NoValue /\ oldLoads = {}

SessionRests ==
  ~wallet /\ visits = 1 /\ view = FreshView /\ load = NoLoad /\ late = NoValue /\ disc = NoDisc
EncodingRests ==
  circuit = NoWitness /\ claim = NoClaim /\ account.root = U256ScVal(30)

MCNext ==
  \/ EncodingRests /\ SessionNext /\ Resting' /\ UNCHANGED encodingVars
  \/ SessionRests /\ EncodingRests /\ CircuitNext /\ UNCHANGED sessionVars
  \/ SessionRests /\ circuit = NoWitness /\ PaymentNext /\ UNCHANGED sessionVars

MCInit == SessionInit /\ EncodingInit

MCSpec == MCInit /\ [][MCNext]_<<sessionVars, encodingVars>>
=============================================================================
