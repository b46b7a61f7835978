--------------------------- MODULE ProofEncoding ---------------------------
(***************************************************************************)
(* From the numbers of a payment to the contract's verdict on its proof:   *)
(* the range checks of the circuits, which compute modulo the order of the *)
(* scalar field; the bytes and words that serialize.js and lib.mjs make of *)
(* proofs, keys, payloads and addresses; and how the account and the       *)
(* standalone verifier read them back, comparing words as they are and     *)
(* pairing modulo the order.                                               *)
(*                                                                         *)
(* The widths are parameters, so that they can be small.  A word is a      *)
(* number; a byte string is a sequence of bits, the highest first.         *)
(***************************************************************************)
EXTENDS Integers, Sequences

CONSTANTS
  WordBits,      \* 256, of a word, a hash and a coordinate
  HalfBits,      \* 128
  LimbBits,      \* 64
  AmountBits,    \* 100
  TopBits,       \* 8: the byte of an address's hash that is zeroed
  Order,         \* r, of the scalar field
  Payloads,      \* signature payloads, which are hashes
  Recipients,    \* addresses, by their hashes
  Amounts,       \* amounts of a transfer, which are signed
  Policies,      \* what an account may be committed to: commitment, root, cap
  Setup,         \* the verification key
  Points         \* the points of a proof

N == 6

\* The powers of two.
Two[n \in 0 .. WordBits] == IF n = 0 THEN 1 ELSE 2 * Two[n - 1]

Word == 0 .. Two[WordBits] - 1

IsG1(p) == p \in Word \X Word
IsG2(p) == p \in (Word \X Word) \X (Word \X Word)

ASSUME EncodingAssumption ==
  /\ HalfBits \in Nat /\ LimbBits \in Nat \ {0} /\ TopBits \in Nat /\ AmountBits \in Nat
  /\ WordBits = 2 * HalfBits /\ WordBits = 4 * LimbBits
  /\ TopBits < WordBits /\ AmountBits < WordBits
  /\ Order \in Nat /\ Order < Two[WordBits]
  /\ Two[WordBits - TopBits] <= Order /\ Two[HalfBits] <= Order
  /\ 4 * Two[AmountBits] < Order
  /\ Payloads \cup Recipients \subseteq [1 .. WordBits -> {0, 1}]
  \* Amounts are i128s.
  /\ \A a \in Amounts : a \in Int /\ Two[AmountBits] - Order <= a /\ a < Order
  /\ \A p \in Policies : {p.commitment, p.root, p.cap} \subseteq 0 .. Order - 1
  /\ IsG1(Setup.alpha) /\ IsG2(Setup.beta) /\ IsG2(Setup.gamma) /\ IsG2(Setup.delta)
  /\ DOMAIN Setup.ic = 1 .. N + 1 /\ \A i \in 1 .. N + 1 : IsG1(Setup.ic[i])
  /\ Points = [a |-> Points.a, b |-> Points.b, c |-> Points.c]
  /\ IsG1(Points.a) /\ IsG2(Points.b) /\ IsG1(Points.c)
  \* What the scripts alter is altered by it.
  /\ Points.a # Points.c /\ Points.b[1][1] # Points.b[1][2]

Field == 0 .. Order - 1

VARIABLES
  circuit,  \* the inputs of a circuit, and whether they have a witness
  account,  \* the deployed account: its key and its policy, as they are stored
  claim,    \* what a proof is made for
  sig,      \* the signature that is sent with it
  answer    \* what it was presented with, and whether it was accepted

encodingVars == <<circuit, account, claim, sig, answer>>

-----------------------------------------------------------------------------
(* Encoding.                                                               *)

\* A number, shifted right by 0 to n bits.
Shifts(v, n) ==
  LET s[k \in 0 .. n] == IF k = 0 THEN v ELSE s[k - 1] \div 2
  IN  s

Bits(v, n) ==
  LET s == Shifts(v, n)
  IN  [i \in 1 .. n |-> s[n - i] % 2]

\* What the first bits of a byte string stand for, by their number.
Reads(b) ==
  LET v[i \in 0 .. Len(b)] == IF i = 0 THEN 0 ELSE 2 * v[i - 1] + b[i]
  IN  v

FromBits(b) == Reads(b)[Len(b)]

DecToBe32(v) == Bits(v, WordBits)

G1Bytes(p) == DecToBe32(p[1]) \o DecToBe32(p[2])

\* A coordinate of a G2 point is a pair c0, c1; the host wants c1 first.
G2Bytes(p, order) ==
  IF order = "c1c0"
  THEN DecToBe32(p[1][2]) \o DecToBe32(p[1][1]) \o DecToBe32(p[2][2]) \o DecToBe32(p[2][1])
  ELSE DecToBe32(p[1][1]) \o DecToBe32(p[1][2]) \o DecToBe32(p[2][1]) \o DecToBe32(p[2][2])

\* Four limbs, hiHi first; what is above a word is cut off.
U256ScVal(v) ==
  LET limb == Two[LimbBits]
      v1 == v \div limb
      v2 == v1 \div limb
      v3 == v2 \div limb
  IN  <<v3 % limb, v2 % limb, v1 % limb, v % limb>>

PubVecScVal(pub) == [i \in DOMAIN pub |-> U256ScVal(pub[i])]

ProofScVal(proof, order) ==
  [a |-> G1Bytes(proof.a), b |-> G2Bytes(proof.b, order), c |-> G1Bytes(proof.c)]

ProofSigScVal(proof, pub, order) ==
  [proof |-> ProofScVal(proof, order), pub_signals |-> PubVecScVal(pub)]

VkScVal(vk, order) ==
  [alpha |-> G1Bytes(vk.alpha), beta |-> G2Bytes(vk.beta, order),
   delta |-> G2Bytes(vk.delta, order), gamma |-> G2Bytes(vk.gamma, order),
   ic |-> [i \in DOMAIN vk.ic |-> G1Bytes(vk.ic[i])]]

\* The same as the CLI takes it, in hexadecimal.
VkCliHex(vk, order) ==
  [alpha |-> G1Bytes(vk.alpha), beta |-> G2Bytes(vk.beta, order),
   gamma |-> G2Bytes(vk.gamma, order), delta |-> G2Bytes(vk.delta, order),
   ic |-> [i \in DOMAIN vk.ic |-> G1Bytes(vk.ic[i])]]

\* The two halves of a signature payload, for the circuit's inputs.
PayloadHalves(h) ==
  [hi |-> FromBits(SubSeq(h, 1, HalfBits)), lo |-> FromBits(SubSeq(h, HalfBits + 1, WordBits))]

\* An address as a field element, computed by who pays it.
AddrToField(h) == FromBits([i \in 1 .. WordBits |-> IF i <= TopBits THEN 0 ELSE h[i]])

-----------------------------------------------------------------------------
(* The circuits.                                                           *)

Num2Bits(n, x) == x < Two[n]

\* circomlib: bit n of a - (b + 1) + 2^n, which must have no bits above it.
LessEqThan(n, a, b) == (a + Two[n] - (b + 1)) % Order < Two[n]

UnrangedAmount(amount, cap) ==             \* mutant: the amount's range check is left out
  Num2Bits(AmountBits, cap) /\ LessEqThan(AmountBits, amount, cap)

\* The amount and the cap of PaymentPolicy (its Merkle path is in PolicyTree).
AmountInCap(amount, cap) ==
  /\ Num2Bits(AmountBits, amount) /\ Num2Bits(AmountBits, cap)
  /\ LessEqThan(AmountBits, amount, cap)

CapDisclosure(cap, regulatoryMax) ==
  /\ Num2Bits(AmountBits, cap) /\ Num2Bits(AmountBits, regulatoryMax)
  /\ LessEqThan(AmountBits, cap, regulatoryMax)

-----------------------------------------------------------------------------
(* The contracts.                                                          *)

U256(limbs) ==
  LET limb == Two[LimbBits]
  IN  ((limbs[1] * limb + limbs[2]) * limb + limbs[3]) * limb + limbs[4]

\* The host reads points from bytes, c1 first.
Coordinate(bytes, k) == FromBits(SubSeq(bytes, (k - 1) * WordBits + 1, k * WordBits))
G1Point(bytes) == <<Coordinate(bytes, 1), Coordinate(bytes, 2)>>
G2Point(bytes) ==
  << <<Coordinate(bytes, 2), Coordinate(bytes, 1)>>, <<Coordinate(bytes, 4), Coordinate(bytes, 3)>> >>

\* The pairing product is one for the points of the proof, with the key of the
\* setup and the scalars the proof was made for.
PairingCheck(vk, proof, scalars) ==
  /\ G1Point(vk.alpha) = Setup.alpha /\ G2Point(vk.beta) = Setup.beta
  /\ G2Point(vk.gamma) = Setup.gamma /\ G2Point(vk.delta) = Setup.delta
  /\ \A i \in DOMAIN vk.ic : G1Point(vk.ic[i]) = Setup.ic[i]
  /\ G1Point(proof.a) = Points.a /\ G2Point(proof.b) = Points.b /\ G1Point(proof.c) = Points.c
  /\ scalars = claim.signals

\* verify_proof of the standalone verifier, and groth16_verify of the account.
VerifyProof(vk, proof, pub) ==
  /\ Len(pub) + 1 = Len(vk.ic)
  /\ PairingCheck(vk, proof, [i \in DOMAIN pub |-> U256(pub[i]) % Order])

addr_to_field(h) == FromBits([i \in 1 .. WordBits |-> IF i <= TopBits THEN 0 ELSE h[i]])

\* Each half is put into the low bytes of a word.
split_payload(h) ==
  LET zeros == [i \in 1 .. HalfBits |-> 0]
  IN  [hi |-> FromBits(zeros \o SubSeq(h, 1, HalfBits)),
       lo |-> FromBits(zeros \o SubSeq(h, HalfBits + 1, WordBits))]

SignalReduced(s, i) == U256(s.pub_signals[i]) % Order   \* mutant: words are compared as scalars

Signal(s, i) == U256(s.pub_signals[i])

\* The gates of __check_auth that read signals, and the pairing.
Accepts(s, with) ==
  /\ Len(s.pub_signals) = N
  /\ Signal(s, 3) = U256(account.commitment) /\ Signal(s, 4) = U256(account.root)
  /\ Signal(s, 5) = split_payload(with.payload).hi
  /\ Signal(s, 6) = split_payload(with.payload).lo
  /\ with.amount > 0 /\ with.amount < Two[AmountBits]
  /\ with.amount = Signal(s, 1)
  /\ addr_to_field(with.to) = Signal(s, 2)
  /\ VerifyProof(account.vk, s.proof, s.pub_signals)

-----------------------------------------------------------------------------
(* From a payment to a verdict.                                            *)

NoWitness == [of |-> "none"]
NoClaim == [signals |-> << >>]
NoSig == [alter |-> "unsigned"]
NoAnswer == [of |-> "none"]

\* The constructor's arguments, from the page (create.js) or the CLI (setup_p1),
\* for one of the policies.
EncodingInit ==
  /\ circuit = NoWitness
  /\ \E vk \in {VkScVal(Setup, "c1c0"), VkCliHex(Setup, "c1c0")}, p \in Policies :
       account = [vk |-> vk, commitment |-> U256ScVal(p.commitment),
                  root |-> U256ScVal(p.root)]
  /\ claim = NoClaim /\ sig = NoSig /\ answer = NoAnswer

\* Anybody runs a circuit on any inputs.
TryPayment(amount, cap) ==
  /\ circuit' = [of |-> "payment", amount |-> amount, cap |-> cap,
                 witness |-> AmountInCap(amount, cap)]
  /\ UNCHANGED <<account, claim, sig, answer>>

TryDisclosure(cap, regulatoryMax) ==
  /\ circuit' = [of |-> "disclosure", cap |-> cap, max |-> regulatoryMax,
                 witness |-> CapDisclosure(cap, regulatoryMax)]
  /\ UNCHANGED <<account, claim, sig, answer>>

\* A proof for a payment, with the amount as a field element.
Prove(payload, to, amount, p) ==
  /\ AmountInCap(amount % Order, p.cap)
  /\ claim' = [payload |-> payload, to |-> to, amount |-> amount, policy |-> p,
               signals |-> <<amount % Order, AddrToField(to), p.commitment, p.root,
                             PayloadHalves(payload).hi, PayloadHalves(payload).lo>>]
  /\ UNCHANGED <<circuit, account, sig, answer>>

\* What becomes of the proof before it is sent: nothing, a mangled coordinate
\* or a swap (pay_p1.mjs), points in the other order (check_verifier.mjs), a
\* signal too few, or one raised by the order.
Alterations ==
  [how : {"none", "bitflip", "swap_ac", "c0c1", "short"}] \cup [how : {"alias"}, at : 1 .. N]

Altered(alter) ==
  CASE alter.how = "bitflip" -> [Points EXCEPT !.a[1] = IF @ % 2 = 0 THEN @ + 1 ELSE @ - 1]
    [] alter.how = "swap_ac" -> [Points EXCEPT !.a = Points.c, !.c = Points.a]
    [] OTHER -> Points

Sign(alter) ==
  /\ claim # NoClaim /\ sig = NoSig
  /\ LET pub == CASE alter.how = "short" -> SubSeq(claim.signals, 1, N - 1)
                  [] alter.how = "alias" -> [claim.signals EXCEPT ![alter.at] = @ + Order]
                  [] OTHER -> claim.signals
         order == IF alter.how = "c0c1" THEN "c0c1" ELSE "c1c0"
     IN  sig' = [alter |-> alter.how, sent |-> ProofSigScVal(Altered(alter), pub, order)]
  /\ UNCHANGED <<circuit, account, claim, answer>>

\* The host calls __check_auth with the payload and the transfer there are.
Present(with) ==
  /\ sig # NoSig
  /\ answer' = [of |-> "account", with |-> with, accepted |-> Accepts(sig.sent, with)]
  /\ UNCHANGED <<circuit, account, claim, sig>>

\* check_verifier.mjs: the standalone verifier, with either order.
AskVerifier(order) ==
  /\ claim # NoClaim /\ sig = NoSig /\ answer = NoAnswer
  /\ answer' = [of |-> "verifier", order |-> order,
                accepted |-> VerifyProof(VkScVal(Setup, order), ProofScVal(Points, order),
                                         PubVecScVal(claim.signals))]
  /\ UNCHANGED <<circuit, account, claim, sig>>

Transfers == [payload : Payloads, to : Recipients, amount : Amounts]

CircuitNext ==
  circuit = NoWitness /\ \E x, y \in Field : TryPayment(x, y) \/ TryDisclosure(x, y)

PaymentNext ==
  \/ claim = NoClaim /\ \E t \in Transfers, p \in Policies : Prove(t.payload, t.to, t.amount, p)
  \/ \E alter \in Alterations : Sign(alter)
  \/ answer = NoAnswer /\ \E t \in Transfers : Present(t)
  \/ \E order \in {"c1c0", "c0c1"} : AskVerifier(order)

EncodingNext == CircuitNext \/ PaymentNext

EncodingSpec == EncodingInit /\ [][EncodingNext]_encodingVars

-----------------------------------------------------------------------------
(* Properties                                                              *)

\* Modulo the order, the circuits have a witness for just the inputs that are in
\* range and in order as numbers (policy.circom 52-60, disclosure.circom 24-34):
\* no difference that wraps around passes for a small amount or cap.
CircuitIsExact ==
  /\ circuit.of = "payment" =>
       (circuit.witness <=> circuit.amount <= circuit.cap /\ circuit.cap < Two[AmountBits])
  /\ circuit.of = "disclosure" =>
       (circuit.witness <=> circuit.cap <= circuit.max /\ circuit.max < Two[AmountBits])

\* The account accepts exactly the payment that was proved: bytes, limbs, halves
\* and address fields read back as what was written, and no other payload,
\* destination, amount or policy passes, nor any other form of a signal that the
\* pairing takes for the same scalar (REPORT_P1.md 132).  Addresses are told
\* apart by all but the top byte of their hash.
AcceptedExactly ==
  /\ answer.of = "account" =>
       LET with == answer.with
       IN  answer.accepted <=>
             /\ sig.alter = "none"
             /\ with.payload = claim.payload
             /\ SubSeq(with.to, TopBits + 1, WordBits) = SubSeq(claim.to, TopBits + 1, WordBits)
             /\ with.amount = claim.amount /\ claim.amount > 0
             /\ account.commitment = U256ScVal(claim.policy.commitment)
             /\ account.root = U256ScVal(claim.policy.root)
  /\ answer.of = "verifier" => (answer.accepted <=> answer.order = "c1c0")
=============================================================================
