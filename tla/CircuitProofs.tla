--------------------------- MODULE CircuitProofs ---------------------------
(***************************************************************************)
(* For trees of any depth and lists of any length: the sparse tree of the  *)
(* browser has the root of the full tree, and a path leads to it from its  *)
(* own leaf only.  For words of any width: the circuits compare numbers,   *)
(* and the account accepts just the payment that was proved.  By induction *)
(* on the levels, and on the bits.                                         *)
(***************************************************************************)
EXTENDS PolicyTree, ProofEncoding, WellFoundedInduction, SequenceTheorems, TLAPS

\* Induction on sets of numbers, from the order's being well founded.
LEMMA LeastNumber ==
  ASSUME NEW T \in SUBSET Nat, T # {}
  PROVE  \E x \in T : \A y \in T : x <= y
<1>1. IsWellFoundedOn(OpToRel(<, Nat), Nat)
  BY NatLessThanWellFounded
<1>2. PICK x \in T : \A y \in T : <<y, x>> \notin OpToRel(<, Nat)
  BY <1>1, WFMin
<1>3. \A y \in T : ~(y < x)
  BY <1>2 DEF OpToRel
<1> QED
  BY <1>3

\* A set with 0 and the successors of its numbers has all of them.
LEMMA SetInduction ==
  ASSUME NEW S, 0 \in S, \A n \in Nat : n \in S => n + 1 \in S
  PROVE  Nat \subseteq S
<1> SUFFICES ASSUME ~(Nat \subseteq S) PROVE FALSE
  OBVIOUS
<1>1. PICK x \in Nat \ S : \A y \in Nat \ S : x <= y
  BY LeastNumber
<1>2. x # 0 /\ x - 1 \in Nat
  BY <1>1
<1>3. x - 1 \in S
  BY <1>1, <1>2
<1> QED
  BY <1>1, <1>2, <1>3

-----------------------------------------------------------------------------
(* The recursive functions of the tree: that such functions exist, and     *)
(* their equations.                                                        *)

\* The widths of the levels.
WidthIs(g, n) ==
  g = [l \in 0 .. n |-> IF l = 0 THEN 1 ELSE 2 * g[l - 1]]

LEMMA WidthExists ==
  \A n \in Nat : \E g : WidthIs(g, n)
<1> DEFINE S == {n \in Nat : \E g : WidthIs(g, n)}
<1>1. 0 \in S
  <2> DEFINE g == [l \in 0 .. 0 |-> 1]
  <2>1. WidthIs(g, 0)
    BY DEF WidthIs
  <2> HIDE DEF g
  <2> QED
    BY <2>1
<1>2. ASSUME NEW n \in Nat, n \in S PROVE n + 1 \in S
  <2>1. PICK g : WidthIs(g, n)
    BY <1>2
  <2>2. \A l \in 0 .. n : g[l] = IF l = 0 THEN 1 ELSE 2 * g[l - 1]
    BY <2>1 DEF WidthIs
  <2> DEFINE h == [l \in 0 .. n + 1 |-> IF l = 0 THEN 1 ELSE 2 * g[l - 1]]
  <2>3. /\ h = [l \in 0 .. n + 1 |-> h[l]]
        /\ \A l \in 0 .. n + 1 : h[l] = IF l = 0 THEN 1 ELSE 2 * g[l - 1]
    OBVIOUS
  <2> HIDE DEF h
  <2>4. \A l \in 0 .. n : h[l] = g[l]
    BY <2>2, <2>3
  <2>5. \A l \in 0 .. n + 1 : l # 0 => h[l - 1] = g[l - 1]
    BY <2>4
  <2>6. \A l \in 0 .. n + 1 : h[l] = IF l = 0 THEN 1 ELSE 2 * h[l - 1]
    BY <2>3, <2>5
  <2>7. WidthIs(h, n + 1)
    BY <2>3, <2>6 DEF WidthIs
  <2> QED
    BY <2>7
<1> HIDE DEF S
<1>3. Nat \subseteq S
  BY <1>1, <1>2, SetInduction
<1> QED
  BY <1>3 DEF S

LEMMA WidthSteps ==
  /\ Width[0] = 1
  /\ \A l \in 1 .. Depth : Width[l] = 2 * Width[l - 1]
<1> DEFINE F == Width
<1>1. \E g : WidthIs(g, Depth)
  BY WidthExists, TreeAssumption
<1>2. F = CHOOSE g : WidthIs(g, Depth)
  BY DEF Width, WidthIs
<1> HIDE DEF F
<1>3. WidthIs(F, Depth)
  BY <1>1, <1>2
<1>4. \A l \in 0 .. Depth : F[l] = IF l = 0 THEN 1 ELSE 2 * F[l - 1]
  BY <1>3 DEF WidthIs
<1>5. 0 \in 0 .. Depth /\ \A l \in 1 .. Depth : l \in 0 .. Depth /\ l # 0
  BY TreeAssumption
<1> QED
  BY <1>4, <1>5 DEF F

\* The hashes of empty subtrees.
ZeroHashesIs(g, n) ==
  g = [l \in 0 .. n |-> IF l = 0 THEN Zero ELSE Hash(g[l - 1], g[l - 1])]

LEMMA ZeroHashesExists ==
  \A n \in Nat : \E g : ZeroHashesIs(g, n)
<1> DEFINE S == {n \in Nat : \E g : ZeroHashesIs(g, n)}
<1>1. 0 \in S
  <2> DEFINE g == [l \in 0 .. 0 |-> Zero]
  <2>1. ZeroHashesIs(g, 0)
    BY DEF ZeroHashesIs
  <2> HIDE DEF g
  <2> QED
    BY <2>1
<1>2. ASSUME NEW n \in Nat, n \in S PROVE n + 1 \in S
  <2>1. PICK g : ZeroHashesIs(g, n)
    BY <1>2
  <2>2. \A l \in 0 .. n : g[l] = IF l = 0 THEN Zero ELSE Hash(g[l - 1], g[l - 1])
    BY <2>1 DEF ZeroHashesIs
  <2> DEFINE h == [l \in 0 .. n + 1 |-> IF l = 0 THEN Zero ELSE Hash(g[l - 1], g[l - 1])]
  <2>3. /\ h = [l \in 0 .. n + 1 |-> h[l]]
        /\ \A l \in 0 .. n + 1 : h[l] = IF l = 0 THEN Zero ELSE Hash(g[l - 1], g[l - 1])
    OBVIOUS
  <2> HIDE DEF h
  <2>4. \A l \in 0 .. n : h[l] = g[l]
    BY <2>2, <2>3
  <2>5. \A l \in 0 .. n + 1 : l # 0 => h[l - 1] = g[l - 1]
    BY <2>4
  <2>6. \A l \in 0 .. n + 1 : h[l] = IF l = 0 THEN Zero ELSE Hash(h[l - 1], h[l - 1])
    BY <2>3, <2>5
  <2>7. ZeroHashesIs(h, n + 1)
    BY <2>3, <2>6 DEF ZeroHashesIs
  <2> QED
    BY <2>7
<1> HIDE DEF S
<1>3. Nat \subseteq S
  BY <1>1, <1>2, SetInduction
<1> QED
  BY <1>3 DEF S

LEMMA ZeroHashesSteps ==
  /\ zeroHashes[0] = Zero
  /\ \A l \in 1 .. Depth : zeroHashes[l] = Hash(zeroHashes[l - 1], zeroHashes[l - 1])
<1> DEFINE F == zeroHashes
<1>1. \E g : ZeroHashesIs(g, Depth)
  BY ZeroHashesExists, TreeAssumption
<1>2. F = CHOOSE g : ZeroHashesIs(g, Depth)
  BY DEF zeroHashes, ZeroHashesIs
<1> HIDE DEF F
<1>3. ZeroHashesIs(F, Depth)
  BY <1>1, <1>2
<1>4. \A l \in 0 .. Depth : F[l] = IF l = 0 THEN Zero ELSE Hash(F[l - 1], F[l - 1])
  BY <1>3 DEF ZeroHashesIs
<1>5. 0 \in 0 .. Depth /\ \A l \in 1 .. Depth : l \in 0 .. Depth /\ l # 0
  BY TreeAssumption
<1> QED
  BY <1>4, <1>5 DEF F

\* The levels of the sparse tree.
LevelsIs(g, n, leaves) ==
  g = [l \in 0 .. n |-> IF l = 0 THEN leaves ELSE NextLevel(g[l - 1], zeroHashes[l - 1])]

LEMMA LevelsExists ==
  ASSUME NEW leaves
  PROVE  \A n \in Nat : \E g : LevelsIs(g, n, leaves)
<1> DEFINE S == {n \in Nat : \E g : LevelsIs(g, n, leaves)}
<1>1. 0 \in S
  <2> DEFINE g == [l \in 0 .. 0 |-> leaves]
  <2>1. LevelsIs(g, 0, leaves)
    BY DEF LevelsIs
  <2> HIDE DEF g
  <2> QED
    BY <2>1
<1>2. ASSUME NEW n \in Nat, n \in S PROVE n + 1 \in S
  <2>1. PICK g : LevelsIs(g, n, leaves)
    BY <1>2
  <2>2. \A l \in 0 .. n : g[l] = IF l = 0 THEN leaves ELSE NextLevel(g[l - 1], zeroHashes[l - 1])
    BY <2>1 DEF LevelsIs
  <2> DEFINE h == [l \in 0 .. n + 1 |-> IF l = 0 THEN leaves ELSE NextLevel(g[l - 1], zeroHashes[l - 1])]
  <2>3. /\ h = [l \in 0 .. n + 1 |-> h[l]]
        /\ \A l \in 0 .. n + 1 : h[l] = IF l = 0 THEN leaves ELSE NextLevel(g[l - 1], zeroHashes[l - 1])
    OBVIOUS
  <2> HIDE DEF h
  <2>4. \A l \in 0 .. n : h[l] = g[l]
    BY <2>2, <2>3
  <2>5. \A l \in 0 .. n + 1 : l # 0 => h[l - 1] = g[l - 1]
    BY <2>4
  <2>6. \A l \in 0 .. n + 1 : h[l] = IF l = 0 THEN leaves ELSE NextLevel(h[l - 1], zeroHashes[l - 1])
    BY <2>3, <2>5
  <2>7. LevelsIs(h, n + 1, leaves)
    BY <2>3, <2>6 DEF LevelsIs
  <2> QED
    BY <2>7
<1> HIDE DEF S
<1>3. Nat \subseteq S
  BY <1>1, <1>2, SetInduction
<1> QED
  BY <1>3 DEF S

LEMMA LevelsSteps ==
  ASSUME NEW leaves
  PROVE  /\ LevelsOf(leaves)[0] = leaves
         /\ \A l \in 1 .. Depth : LevelsOf(leaves)[l] = NextLevel(LevelsOf(leaves)[l - 1], zeroHashes[l - 1])
<1> DEFINE F == LevelsOf(leaves)
<1>1. \E g : LevelsIs(g, Depth, leaves)
  BY LevelsExists, TreeAssumption
<1>2. F = CHOOSE g : LevelsIs(g, Depth, leaves)
  BY DEF LevelsOf, LevelsIs
<1> HIDE DEF F
<1>3. LevelsIs(F, Depth, leaves)
  BY <1>1, <1>2
<1>4. \A l \in 0 .. Depth : F[l] = IF l = 0 THEN leaves ELSE NextLevel(F[l - 1], zeroHashes[l - 1])
  BY <1>3 DEF LevelsIs
<1>5. 0 \in 0 .. Depth /\ \A l \in 1 .. Depth : l \in 0 .. Depth /\ l # 0
  BY TreeAssumption
<1> QED
  BY <1>4, <1>5 DEF F

\* The nodes above a leaf.
AboveIs(g, n, idx) ==
  g = [l \in 0 .. n |-> IF l = 0 THEN idx ELSE g[l - 1] \div 2]

LEMMA AboveExists ==
  ASSUME NEW idx
  PROVE  \A n \in Nat : \E g : AboveIs(g, n, idx)
<1> DEFINE S == {n \in Nat : \E g : AboveIs(g, n, idx)}
<1>1. 0 \in S
  <2> DEFINE g == [l \in 0 .. 0 |-> idx]
  <2>1. AboveIs(g, 0, idx)
    BY DEF AboveIs
  <2> HIDE DEF g
  <2> QED
    BY <2>1
<1>2. ASSUME NEW n \in Nat, n \in S PROVE n + 1 \in S
  <2>1. PICK g : AboveIs(g, n, idx)
    BY <1>2
  <2>2. \A l \in 0 .. n : g[l] = IF l = 0 THEN idx ELSE g[l - 1] \div 2
    BY <2>1 DEF AboveIs
  <2> DEFINE h == [l \in 0 .. n + 1 |-> IF l = 0 THEN idx ELSE g[l - 1] \div 2]
  <2>3. /\ h = [l \in 0 .. n + 1 |-> h[l]]
        /\ \A l \in 0 .. n + 1 : h[l] = IF l = 0 THEN idx ELSE g[l - 1] \div 2
    OBVIOUS
  <2> HIDE DEF h
  <2>4. \A l \in 0 .. n : h[l] = g[l]
    BY <2>2, <2>3
  <2>5. \A l \in 0 .. n + 1 : l # 0 => h[l - 1] = g[l - 1]
    BY <2>4
  <2>6. \A l \in 0 .. n + 1 : h[l] = IF l = 0 THEN idx ELSE h[l - 1] \div 2
    BY <2>3, <2>5
  <2>7. AboveIs(h, n + 1, idx)
    BY <2>3, <2>6 DEF AboveIs
  <2> QED
    BY <2>7
<1> HIDE DEF S
<1>3. Nat \subseteq S
  BY <1>1, <1>2, SetInduction
<1> QED
  BY <1>3 DEF S

LEMMA AboveSteps ==
  ASSUME NEW idx
  PROVE  /\ Above(idx)[0] = idx
         /\ \A l \in 1 .. Depth : Above(idx)[l] = Above(idx)[l - 1] \div 2
<1> DEFINE F == Above(idx)
<1>1. \E g : AboveIs(g, Depth, idx)
  BY AboveExists, TreeAssumption
<1>2. F = CHOOSE g : AboveIs(g, Depth, idx)
  BY DEF Above, AboveIs
<1> HIDE DEF F
<1>3. AboveIs(F, Depth, idx)
  BY <1>1, <1>2
<1>4. \A l \in 0 .. Depth : F[l] = IF l = 0 THEN idx ELSE F[l - 1] \div 2
  BY <1>3 DEF AboveIs
<1>5. 0 \in 0 .. Depth /\ \A l \in 1 .. Depth : l \in 0 .. Depth /\ l # 0
  BY TreeAssumption
<1> QED
  BY <1>4, <1>5 DEF F

\* What a path makes of a leaf.
ClimbIs(g, n, leaf, path) ==
  g = [l \in 0 .. n |-> IF l = 0 THEN leaf ELSE Lift(g[l - 1], path[l - 1])]

LEMMA ClimbExists ==
  ASSUME NEW leaf, NEW path
  PROVE  \A n \in Nat : \E g : ClimbIs(g, n, leaf, path)
<1> DEFINE S == {n \in Nat : \E g : ClimbIs(g, n, leaf, path)}
<1>1. 0 \in S
  <2> DEFINE g == [l \in 0 .. 0 |-> leaf]
  <2>1. ClimbIs(g, 0, leaf, path)
    BY DEF ClimbIs
  <2> HIDE DEF g
  <2> QED
    BY <2>1
<1>2. ASSUME NEW n \in Nat, n \in S PROVE n + 1 \in S
  <2>1. PICK g : ClimbIs(g, n, leaf, path)
    BY <1>2
  <2>2. \A l \in 0 .. n : g[l] = IF l = 0 THEN leaf ELSE Lift(g[l - 1], path[l - 1])
    BY <2>1 DEF ClimbIs
  <2> DEFINE h == [l \in 0 .. n + 1 |-> IF l = 0 THEN leaf ELSE Lift(g[l - 1], path[l - 1])]
  <2>3. /\ h = [l \in 0 .. n + 1 |-> h[l]]
        /\ \A l \in 0 .. n + 1 : h[l] = IF l = 0 THEN leaf ELSE Lift(g[l - 1], path[l - 1])
    OBVIOUS
  <2> HIDE DEF h
  <2>4. \A l \in 0 .. n : h[l] = g[l]
    BY <2>2, <2>3
  <2>5. \A l \in 0 .. n + 1 : l # 0 => h[l - 1] = g[l - 1]
    BY <2>4
  <2>6. \A l \in 0 .. n + 1 : h[l] = IF l = 0 THEN leaf ELSE Lift(h[l - 1], path[l - 1])
    BY <2>3, <2>5
  <2>7. ClimbIs(h, n + 1, leaf, path)
    BY <2>3, <2>6 DEF ClimbIs
  <2> QED
    BY <2>7
<1> HIDE DEF S
<1>3. Nat \subseteq S
  BY <1>1, <1>2, SetInduction
<1> QED
  BY <1>3 DEF S

LEMMA ClimbSteps ==
  ASSUME NEW leaf, NEW path
  PROVE  /\ Climb(leaf, path)[0] = leaf
         /\ \A l \in 1 .. Depth : Climb(leaf, path)[l] = Lift(Climb(leaf, path)[l - 1], path[l - 1])
<1> DEFINE F == Climb(leaf, path)
<1>1. \E g : ClimbIs(g, Depth, leaf, path)
  BY ClimbExists, TreeAssumption
<1>2. F = CHOOSE g : ClimbIs(g, Depth, leaf, path)
  BY DEF Climb, ClimbIs
<1> HIDE DEF F
<1>3. ClimbIs(F, Depth, leaf, path)
  BY <1>1, <1>2
<1>4. \A l \in 0 .. Depth : F[l] = IF l = 0 THEN leaf ELSE Lift(F[l - 1], path[l - 1])
  BY <1>3 DEF ClimbIs
<1>5. 0 \in 0 .. Depth /\ \A l \in 1 .. Depth : l \in 0 .. Depth /\ l # 0
  BY TreeAssumption
<1> QED
  BY <1>4, <1>5 DEF F

\* The levels of the full tree.
FullLevelsIs(g, n, leaves) ==
  g = [l \in 0 .. n |-> IF l = 0 THEN Bottom(leaves) ELSE Pairs(g[l - 1], l)]

LEMMA FullLevelsExists ==
  ASSUME NEW leaves
  PROVE  \A n \in Nat : \E g : FullLevelsIs(g, n, leaves)
<1> DEFINE S == {n \in Nat : \E g : FullLevelsIs(g, n, leaves)}
<1>1. 0 \in S
  <2> DEFINE g == [l \in 0 .. 0 |-> Bottom(leaves)]
  <2>1. FullLevelsIs(g, 0, leaves)
    BY DEF FullLevelsIs
  <2> HIDE DEF g
  <2> QED
    BY <2>1
<1>2. ASSUME NEW n \in Nat, n \in S PROVE n + 1 \in S
  <2>1. PICK g : FullLevelsIs(g, n, leaves)
    BY <1>2
  <2>2. \A l \in 0 .. n : g[l] = IF l = 0 THEN Bottom(leaves) ELSE Pairs(g[l - 1], l)
    BY <2>1 DEF FullLevelsIs
  <2> DEFINE h == [l \in 0 .. n + 1 |-> IF l = 0 THEN Bottom(leaves) ELSE Pairs(g[l - 1], l)]
  <2>3. /\ h = [l \in 0 .. n + 1 |-> h[l]]
        /\ \A l \in 0 .. n + 1 : h[l] = IF l = 0 THEN Bottom(leaves) ELSE Pairs(g[l - 1], l)
    OBVIOUS
  <2> HIDE DEF h
  <2>4. \A l \in 0 .. n : h[l] = g[l]
    BY <2>2, <2>3
  <2>5. \A l \in 0 .. n + 1 : l # 0 => h[l - 1] = g[l - 1]
    BY <2>4
  <2>6. \A l \in 0 .. n + 1 : h[l] = IF l = 0 THEN Bottom(leaves) ELSE Pairs(h[l - 1], l)
    BY <2>3, <2>5
  <2>7. FullLevelsIs(h, n + 1, leaves)
    BY <2>3, <2>6 DEF FullLevelsIs
  <2> QED
    BY <2>7
<1> HIDE DEF S
<1>3. Nat \subseteq S
  BY <1>1, <1>2, SetInduction
<1> QED
  BY <1>3 DEF S

LEMMA FullLevelsSteps ==
  ASSUME NEW leaves
  PROVE  /\ FullLevels(leaves)[0] = Bottom(leaves)
         /\ \A l \in 1 .. Depth : FullLevels(leaves)[l] = Pairs(FullLevels(leaves)[l - 1], l)
<1> DEFINE F == FullLevels(leaves)
<1>1. \E g : FullLevelsIs(g, Depth, leaves)
  BY FullLevelsExists, TreeAssumption
<1>2. F = CHOOSE g : FullLevelsIs(g, Depth, leaves)
  BY DEF FullLevels, FullLevelsIs
<1> HIDE DEF F
<1>3. FullLevelsIs(F, Depth, leaves)
  BY <1>1, <1>2
<1>4. \A l \in 0 .. Depth : F[l] = IF l = 0 THEN Bottom(leaves) ELSE Pairs(F[l - 1], l)
  BY <1>3 DEF FullLevelsIs
<1>5. 0 \in 0 .. Depth /\ \A l \in 1 .. Depth : l \in 0 .. Depth /\ l # 0
  BY TreeAssumption
<1> QED
  BY <1>4, <1>5 DEF F

-----------------------------------------------------------------------------
(* The tree of a list of leaves.                                           *)

LEMMA WidthsArePositive == \A h \in 0 .. Depth : Width[h] \in Nat \ {0}
<1> DEFINE S == {n \in Nat : n <= Depth => Width[n] \in Nat \ {0}}
<1>1. 0 \in S
  BY WidthSteps
<1>2. ASSUME NEW n \in Nat, n \in S PROVE n + 1 \in S
  <2> SUFFICES ASSUME n + 1 <= Depth PROVE Width[n + 1] \in Nat \ {0}
    OBVIOUS
  <2>1. n + 1 \in 1 .. Depth /\ n <= Depth /\ (n + 1) - 1 = n
    BY TreeAssumption
  <2>2. Width[n + 1] = 2 * Width[n]
    BY <2>1, WidthSteps
  <2> QED
    BY <1>2, <2>1, <2>2
<1> HIDE DEF S
<1>3. Nat \subseteq S
  BY <1>1, <1>2, SetInduction
<1> QED
  BY <1>3, TreeAssumption DEF S

\* A sequence of some nodes, at most so many; and one of leaves, that fit.
IsRow(row, most) == row = [i \in 1 .. Len(row) |-> row[i]] /\ Len(row) \in 1 .. most

IsList(leaves) == IsRow(leaves, Leaves)

LEMMA LenOfRow ==
  ASSUME NEW n \in Nat, NEW f, DOMAIN f = 1 .. n
  PROVE  Len(f) = n
OBVIOUS

\* The node over nodes 2 i and 2 i + 1 of a level.
ParentOf(row, pad, i) ==
  Hash(row[2 * i + 1], IF 2 * i + 2 <= Len(row) THEN row[2 * i + 2] ELSE pad)

LEMMA NextRow ==
  ASSUME NEW row, NEW pad, NEW w \in Nat, IsRow(row, 2 * w)
  PROVE  /\ IsRow(NextLevel(row, pad), w)
         /\ Len(NextLevel(row, pad)) = (Len(row) + 1) \div 2
         /\ \A i \in 0 .. ((Len(row) + 1) \div 2) - 1 :
              NextLevel(row, pad)[i + 1] = ParentOf(row, pad, i)
<1> DEFINE n == (Len(row) + 1) \div 2
           up == NextLevel(row, pad)
<1>1. n \in 1 .. w
  BY DEF IsRow
<1>2. up = [i \in 1 .. n |-> Hash(row[2 * i - 1], IF 2 * i <= Len(row) THEN row[2 * i] ELSE pad)]
  BY DEF NextLevel
<1>3. DOMAIN up = 1 .. n /\ n \in Nat
  BY <1>1, <1>2
<1>4. Len(up) = n
  BY <1>3, LenOfRow
<1>5. up = [i \in 1 .. n |-> up[i]]
  BY <1>2
<1>6. ASSUME NEW i \in 0 .. n - 1 PROVE up[i + 1] = ParentOf(row, pad, i)
  <2>1. i + 1 \in 1 .. n /\ 2 * (i + 1) - 1 = 2 * i + 1 /\ 2 * (i + 1) = 2 * i + 2
    BY <1>1
  <2> QED
    BY <2>1, <1>2 DEF ParentOf
<1> HIDE DEF up
<1> QED
  BY <1>1, <1>4, <1>5, <1>6 DEF IsRow, up

\* Every level is a row of nodes that fits its place in the tree.
LEMMA LevelsAreRows ==
  ASSUME NEW leaves, IsList(leaves)
  PROVE  \A l \in 0 .. Depth : IsRow(LevelsOf(leaves)[l], Width[Depth - l])
<1> DEFINE level == LevelsOf(leaves)
           S == {n \in Nat : n <= Depth => IsRow(level[n], Width[Depth - n])}
<1>0. level[0] = leaves /\ \A l \in 1 .. Depth : level[l] = NextLevel(level[l - 1], zeroHashes[l - 1])
  BY LevelsSteps
<1> HIDE DEF level
<1>1. 0 \in S
  <2>1. Depth - 0 = Depth
    BY TreeAssumption
  <2> QED
    BY <1>0, <2>1 DEF IsList, Leaves
<1>2. ASSUME NEW n \in Nat, n \in S PROVE n + 1 \in S
  <2> SUFFICES ASSUME n + 1 <= Depth PROVE IsRow(level[n + 1], Width[Depth - (n + 1)])
    OBVIOUS
  <2>1. n + 1 \in 1 .. Depth /\ n <= Depth /\ (n + 1) - 1 = n
    BY TreeAssumption
  <2>2. /\ Depth - n \in 1 .. Depth /\ (Depth - n) - 1 = Depth - (n + 1)
        /\ Depth - (n + 1) \in 0 .. Depth
    BY <2>1, TreeAssumption
  <2>3. Width[Depth - n] = 2 * Width[Depth - (n + 1)]
    BY <2>2, WidthSteps
  <2>4. Width[Depth - (n + 1)] \in Nat
    BY <2>2, WidthsArePositive
  <2>5. IsRow(level[n], 2 * Width[Depth - (n + 1)])
    BY <1>2, <2>1, <2>3
  <2>6. level[n + 1] = NextLevel(level[n], zeroHashes[n])
    BY <1>0, <2>1
  <2> QED
    BY <2>4, <2>5, <2>6, NextRow
<1> HIDE DEF S
<1>3. Nat \subseteq S
  BY <1>1, <1>2, SetInduction
<1> QED
  BY <1>3, TreeAssumption DEF S, level

\* A level from the one below it.
LEMMA LevelAbove ==
  ASSUME NEW leaves, IsList(leaves), NEW l \in 1 .. Depth
  PROVE  LET row == LevelsOf(leaves)[l - 1]
             up == LevelsOf(leaves)[l]
         IN  /\ IsRow(row, 2 * Width[Depth - l]) /\ IsRow(up, Width[Depth - l])
             /\ Width[Depth - l] \in Nat \ {0}
             /\ Width[Depth - (l - 1)] = 2 * Width[Depth - l]
             /\ Len(up) = (Len(row) + 1) \div 2
             /\ \A i \in 0 .. Len(up) - 1 : up[i + 1] = ParentOf(row, zeroHashes[l - 1], i)
<1> DEFINE row == LevelsOf(leaves)[l - 1]
           up == LevelsOf(leaves)[l]
<1>1. /\ l - 1 \in 0 .. Depth /\ l \in 0 .. Depth
      /\ Depth - (l - 1) \in 1 .. Depth /\ (Depth - (l - 1)) - 1 = Depth - l
      /\ Depth - l \in 0 .. Depth
  BY TreeAssumption
<1>2. Width[Depth - (l - 1)] = 2 * Width[Depth - l] /\ Width[Depth - l] \in Nat \ {0}
  BY <1>1, WidthSteps, WidthsArePositive
<1>3. IsRow(row, Width[Depth - (l - 1)]) /\ IsRow(up, Width[Depth - l])
  BY <1>1, LevelsAreRows
<1>4. up = NextLevel(row, zeroHashes[l - 1])
  BY LevelsSteps
<1>5. IsRow(row, 2 * Width[Depth - l])
  BY <1>2, <1>3
<1> HIDE DEF row, up
<1>6. /\ Len(up) = (Len(row) + 1) \div 2
      /\ \A i \in 0 .. ((Len(row) + 1) \div 2) - 1 :
           up[i + 1] = ParentOf(row, zeroHashes[l - 1], i)
  BY <1>2, <1>4, <1>5, NextRow
<1> QED
  BY <1>2, <1>3, <1>5, <1>6 DEF row, up

-----------------------------------------------------------------------------
(* A path leads to the root from its own leaf only.                        *)

LEMMA HalfIsBelow ==
  ASSUME NEW n \in Nat, NEW a \in 0 .. n - 1
  PROVE  a \div 2 \in 0 .. ((n + 1) \div 2) - 1
OBVIOUS

LEMMA AboveIsInRow ==
  ASSUME NEW leaves, IsList(leaves), NEW idx \in 0 .. Len(leaves) - 1
  PROVE  \A l \in 0 .. Depth : Above(idx)[l] \in 0 .. Len(LevelsOf(leaves)[l]) - 1
<1> DEFINE level == LevelsOf(leaves)
           above == Above(idx)
           S == {n \in Nat : n <= Depth => above[n] \in 0 .. Len(level[n]) - 1}
<1>0. above[0] = idx /\ \A l \in 1 .. Depth : above[l] = above[l - 1] \div 2
  BY AboveSteps
<1>1. level[0] = leaves
  BY LevelsSteps
<1>2. \A l \in 1 .. Depth : Len(level[l]) = (Len(level[l - 1]) + 1) \div 2
  BY LevelAbove
<1>3. \A l \in 0 .. Depth : Len(level[l]) \in Nat
  BY LevelsAreRows, WidthsArePositive, TreeAssumption DEF IsRow
<1> HIDE DEF level, above
<1>4. 0 \in S
  BY <1>0, <1>1
<1>5. ASSUME NEW n \in Nat, n \in S PROVE n + 1 \in S
  <2> SUFFICES ASSUME n + 1 <= Depth PROVE above[n + 1] \in 0 .. Len(level[n + 1]) - 1
    OBVIOUS
  <2>1. n + 1 \in 1 .. Depth /\ n \in 0 .. Depth /\ (n + 1) - 1 = n
    BY TreeAssumption
  <2>2. above[n + 1] = above[n] \div 2 /\ Len(level[n + 1]) = (Len(level[n]) + 1) \div 2
    BY <1>0, <1>2, <2>1
  <2>3. above[n] \in 0 .. Len(level[n]) - 1 /\ Len(level[n]) \in Nat
    BY <1>3, <1>5, <2>1
  <2>4. above[n] \div 2 \in 0 .. ((Len(level[n]) + 1) \div 2) - 1
    BY <2>3, HalfIsBelow
  <2> QED
    BY <2>2, <2>4
<1> HIDE DEF S
<1>6. Nat \subseteq S
  BY <1>4, <1>5, SetInduction
<1> QED
  BY <1>6, TreeAssumption DEF S, level, above

\* One level of a climb: it is at the parent if it was at the node.
LEMMA LiftLeadsToParent ==
  ASSUME NEW row, NEW w \in Nat, IsRow(row, w), NEW a \in 0 .. Len(row) - 1, NEW pad, NEW c
  PROVE  Lift(c, PathStep(row, pad, a)) = ParentOf(row, pad, a \div 2) <=> c = row[a + 1]
<1> DEFINE sib == PathStep(row, pad, a).sib
<1>1. Len(row) \in Nat /\ a \in Nat /\ PathStep(row, pad, a).bit = a % 2
  BY DEF IsRow, PathStep
<1>2. sib = IF Sibling(a) < Len(row) THEN row[Sibling(a) + 1] ELSE pad
  BY DEF PathStep
<1> HIDE DEF sib
<1>3. Lift(c, PathStep(row, pad, a)) = IF a % 2 = 0 THEN Hash(c, sib) ELSE Hash(sib, c)
  BY <1>1 DEF Lift, sib
<1>4. CASE a % 2 = 0
  <2>1. 2 * (a \div 2) = a /\ Sibling(a) = a + 1
    BY <1>1, <1>4 DEF Sibling
  <2>2. sib = IF a + 2 <= Len(row) THEN row[a + 2] ELSE pad
    BY <1>1, <1>2, <2>1
  <2>3. ParentOf(row, pad, a \div 2) = Hash(row[a + 1], sib)
    BY <1>1, <2>1, <2>2 DEF ParentOf
  <2> QED
    BY <1>3, <1>4, <2>3 DEF Hash
<1>5. CASE a % 2 # 0
  <2>1. 2 * (a \div 2) = a - 1 /\ Sibling(a) = a - 1
    BY <1>1, <1>5 DEF Sibling
  <2>2. sib = row[a]
    BY <1>1, <1>2, <2>1
  <2>3. ParentOf(row, pad, a \div 2) = Hash(sib, row[a + 1])
    BY <1>1, <2>1, <2>2 DEF ParentOf
  <2> QED
    BY <1>3, <1>5, <2>3 DEF Hash
<1> QED
  BY <1>4, <1>5

LEMMA PathsLead ==
  ASSUME NEW leaves, IsList(leaves), NEW idx \in 0 .. Len(leaves) - 1, NEW leaf
  PROVE  VerifyMember(LevelsOf(leaves)[Depth][1], leaf, PathOf(LevelsOf(leaves), idx))
           <=> leaf = leaves[idx + 1]
<1> DEFINE level == LevelsOf(leaves)
           above == Above(idx)
           path == PathOf(level, idx)
           climb == Climb(leaf, path)
           S == {n \in Nat : n <= Depth =>
                   (climb[n] = level[n][above[n] + 1] <=> leaf = leaves[idx + 1])}
<1>1. climb[0] = leaf /\ \A l \in 1 .. Depth : climb[l] = Lift(climb[l - 1], path[l - 1])
  BY ClimbSteps
<1>2. \A l \in 0 .. Depth - 1 : path[l] = PathStep(level[l], zeroHashes[l], above[l])
  BY DEF PathOf
<1>3. above[0] = idx /\ \A l \in 1 .. Depth : above[l] = above[l - 1] \div 2
  BY AboveSteps
<1>4. \A l \in 0 .. Depth : above[l] \in 0 .. Len(level[l]) - 1
  BY AboveIsInRow
<1>5. level[0] = leaves
  BY LevelsSteps
<1>6. \A l \in 1 .. Depth :
        /\ IsRow(level[l - 1], 2 * Width[Depth - l]) /\ Width[Depth - l] \in Nat
        /\ \A i \in 0 .. Len(level[l]) - 1 :
             level[l][i + 1] = ParentOf(level[l - 1], zeroHashes[l - 1], i)
  BY LevelAbove
<1>7. IsRow(level[Depth], Width[Depth - Depth])
  BY LevelsAreRows, TreeAssumption
<1>8. VerifyMember(level[Depth][1], leaf, path) <=> climb[Depth] = level[Depth][1]
  BY DEF VerifyMember
<1> HIDE DEF level, above, path, climb
<1>9. 0 \in S
  BY <1>1, <1>3, <1>5
<1>10. ASSUME NEW n \in Nat, n \in S PROVE n + 1 \in S
  <2> SUFFICES ASSUME n + 1 <= Depth
               PROVE  climb[n + 1] = level[n + 1][above[n + 1] + 1] <=> leaf = leaves[idx + 1]
    OBVIOUS
  <2>1. /\ n + 1 \in 1 .. Depth /\ n + 1 \in 0 .. Depth /\ n \in 0 .. Depth
        /\ n \in 0 .. Depth - 1 /\ (n + 1) - 1 = n
    BY TreeAssumption
  <2>2. /\ above[n] \in 0 .. Len(level[n]) - 1
        /\ above[n + 1] \in 0 .. Len(level[n + 1]) - 1
    BY <1>4, <2>1
  <2>3. above[n + 1] = above[n] \div 2
    BY <1>3, <2>1
  <2>4. IsRow(level[n], 2 * Width[Depth - (n + 1)]) /\ 2 * Width[Depth - (n + 1)] \in Nat
    BY <1>6, <2>1
  <2>5. level[n + 1][above[n + 1] + 1] = ParentOf(level[n], zeroHashes[n], above[n] \div 2)
    BY <1>6, <2>1, <2>2, <2>3
  <2>6. climb[n + 1] = Lift(climb[n], PathStep(level[n], zeroHashes[n], above[n]))
    BY <1>1, <1>2, <2>1
  <2>7. climb[n] = level[n][above[n] + 1] <=> leaf = leaves[idx + 1]
    BY <1>10, <2>1
  <2> DEFINE row == level[n]
             w == 2 * Width[Depth - (n + 1)]
             a == above[n]
             z == zeroHashes[n]
  <2>8. w \in Nat /\ IsRow(row, w) /\ a \in 0 .. Len(row) - 1
    BY <2>2, <2>4
  <2> HIDE DEF row, w, a, z
  <2>9. Lift(climb[n], PathStep(row, z, a)) = ParentOf(row, z, a \div 2) <=> climb[n] = row[a + 1]
    BY <2>8, LiftLeadsToParent
  <2> QED
    BY <2>5, <2>6, <2>7, <2>9 DEF row, a, z
<1> HIDE DEF S
<1>11. Nat \subseteq S
  BY <1>9, <1>10, SetInduction
<1>12. climb[Depth] = level[Depth][above[Depth] + 1] <=> leaf = leaves[idx + 1]
  BY <1>11, TreeAssumption DEF S
<1>13. Len(level[Depth]) = 1
  <2>1. Depth - Depth = 0 /\ Width[0] = 1
    BY TreeAssumption, WidthSteps
  <2>2. IsRow(level[Depth], 1)
    BY <1>7, <2>1
  <2> QED
    BY <2>2 DEF IsRow
<1>14. above[Depth] = 0
  <2>1. above[Depth] \in 0 .. Len(level[Depth]) - 1
    BY <1>4, TreeAssumption
  <2> QED
    BY <2>1, <1>13
<1> QED
  BY <1>8, <1>12, <1>14 DEF level, path

-----------------------------------------------------------------------------
(* The sparse tree holds what the full tree has.                           *)

\* Node i of a level of the full tree, from the sparse one.
FullNode(row, pad, i) == IF i < Len(row) THEN row[i + 1] ELSE pad

LEMMA FullParent ==
  ASSUME NEW row, NEW w \in Nat, IsRow(row, 2 * w), NEW pad, NEW i \in 0 .. w - 1,
         NEW up, Len(up) = (Len(row) + 1) \div 2,
         \A k \in 0 .. Len(up) - 1 : up[k + 1] = ParentOf(row, pad, k)
  PROVE  Hash(FullNode(row, pad, 2 * i), FullNode(row, pad, 2 * i + 1))
           = FullNode(up, Hash(pad, pad), i)
<1>1. Len(row) \in Nat /\ i \in Nat
  BY DEF IsRow
<1>2. CASE i < (Len(row) + 1) \div 2
  <2>1. i \in 0 .. Len(up) - 1 /\ 2 * i < Len(row)
    BY <1>1, <1>2
  <2>2. FullNode(up, Hash(pad, pad), i) = ParentOf(row, pad, i)
    BY <2>1 DEF FullNode
  <2>3. FullNode(row, pad, 2 * i) = row[2 * i + 1]
    BY <1>1, <2>1 DEF FullNode
  <2>4. FullNode(row, pad, 2 * i + 1) = IF 2 * i + 2 <= Len(row) THEN row[2 * i + 2] ELSE pad
    <3>1. 2 * i + 1 < Len(row) <=> 2 * i + 2 <= Len(row)
      BY <1>1
    <3>2. (2 * i + 1) + 1 = 2 * i + 2
      BY <1>1
    <3> QED
      BY <3>1, <3>2 DEF FullNode
  <2> QED
    BY <2>2, <2>3, <2>4 DEF ParentOf
<1>3. CASE ~(i < (Len(row) + 1) \div 2)
  <2>1. ~(i < Len(up)) /\ ~(2 * i < Len(row)) /\ ~(2 * i + 1 < Len(row))
    BY <1>1, <1>3
  <2> QED
    BY <2>1 DEF FullNode
<1> QED
  BY <1>2, <1>3

LEMMA FullLevelsAgree ==
  ASSUME NEW leaves, IsList(leaves)
  PROVE  \A l \in 0 .. Depth : \A i \in 0 .. Width[Depth - l] - 1 :
           FullLevels(leaves)[l][i] = FullNode(LevelsOf(leaves)[l], zeroHashes[l], i)
<1> DEFINE level == LevelsOf(leaves)
           full == FullLevels(leaves)
           Agree(n) == \A i \in 0 .. Width[Depth - n] - 1 :
                         full[n][i] = FullNode(level[n], zeroHashes[n], i)
           S == {n \in Nat : n <= Depth => Agree(n)}
<1>1. full[0] = Bottom(leaves) /\ \A l \in 1 .. Depth : full[l] = Pairs(full[l - 1], l)
  BY FullLevelsSteps
<1>2. level[0] = leaves /\ zeroHashes[0] = Zero
  BY LevelsSteps, ZeroHashesSteps
<1>3. \A l \in 1 .. Depth : zeroHashes[l] = Hash(zeroHashes[l - 1], zeroHashes[l - 1])
  BY ZeroHashesSteps
<1>4. \A l \in 1 .. Depth :
        /\ IsRow(level[l - 1], 2 * Width[Depth - l]) /\ Width[Depth - l] \in Nat
        /\ Width[Depth - (l - 1)] = 2 * Width[Depth - l]
        /\ Len(level[l]) = (Len(level[l - 1]) + 1) \div 2
        /\ \A i \in 0 .. Len(level[l]) - 1 :
             level[l][i + 1] = ParentOf(level[l - 1], zeroHashes[l - 1], i)
  BY LevelAbove
<1> HIDE DEF level, full
<1>5. 0 \in S
  <2>1. Depth - 0 = Depth
    BY TreeAssumption
  <2> QED
    BY <1>1, <1>2, <2>1 DEF Bottom, Leaves, FullNode
<1>6. ASSUME NEW n \in Nat, n \in S PROVE n + 1 \in S
  <2> SUFFICES ASSUME n + 1 <= Depth, NEW i \in 0 .. Width[Depth - (n + 1)] - 1
               PROVE  full[n + 1][i] = FullNode(level[n + 1], zeroHashes[n + 1], i)
    OBVIOUS
  <2>1. n + 1 \in 1 .. Depth /\ n <= Depth /\ (n + 1) - 1 = n
    BY TreeAssumption
  <2> DEFINE w == Width[Depth - (n + 1)]
             row == level[n]
             up == level[n + 1]
             z == zeroHashes[n]
  <2>2. IsRow(row, 2 * w) /\ w \in Nat /\ Width[Depth - n] = 2 * w
    BY <1>4, <2>1
  <2>3. Len(up) = (Len(row) + 1) \div 2 /\ \A k \in 0 .. Len(up) - 1 : up[k + 1] = ParentOf(row, z, k)
    BY <1>4, <2>1
  <2>4. \A k \in 0 .. 2 * w - 1 : full[n][k] = FullNode(row, z, k)
    BY <1>6, <2>1, <2>2
  <2>5. full[n + 1][i] = Hash(full[n][2 * i], full[n][2 * i + 1])
    <3>1. full[n + 1] = Pairs(full[n], n + 1)
      BY <1>1, <2>1
    <3> QED
      BY <3>1 DEF Pairs
  <2>6. zeroHashes[n + 1] = Hash(z, z)
    BY <1>3, <2>1
  <2>7. i \in 0 .. w - 1
    OBVIOUS
  <2> HIDE DEF w, row, up, z
  <2>8. 2 * i \in 0 .. 2 * w - 1 /\ 2 * i + 1 \in 0 .. 2 * w - 1
    BY <2>2, <2>7
  <2>9. full[n + 1][i] = Hash(FullNode(row, z, 2 * i), FullNode(row, z, 2 * i + 1))
    BY <2>4, <2>5, <2>8
  <2>10. Hash(FullNode(row, z, 2 * i), FullNode(row, z, 2 * i + 1)) = FullNode(up, Hash(z, z), i)
    BY <2>2, <2>3, <2>7, FullParent
  <2> QED
    BY <2>6, <2>9, <2>10 DEF up
<1> HIDE DEF S
<1>7. Nat \subseteq S
  BY <1>5, <1>6, SetInduction
<1> QED
  BY <1>7, TreeAssumption DEF S, level, full

\* The root by definition is the root of the sparse tree.
LEMMA SameRoot ==
  ASSUME NEW leaves, IsList(leaves)
  PROVE  LevelsOf(leaves)[Depth][1] = FullRoot(leaves)
<1> DEFINE level == LevelsOf(leaves)
<1>1. Depth \in 0 .. Depth /\ Depth - Depth = 0 /\ Width[0] = 1
  BY TreeAssumption, WidthSteps
<1>2. IsRow(level[Depth], 1)
  BY <1>1, LevelsAreRows
<1>3. Len(level[Depth]) = 1
  BY <1>2 DEF IsRow
<1>4. 0 \in 0 .. Width[Depth - Depth] - 1
  BY <1>1
<1>5. FullLevels(leaves)[Depth][0] = FullNode(level[Depth], zeroHashes[Depth], 0)
  BY <1>1, <1>4, FullLevelsAgree
<1> HIDE DEF level
<1> QED
  BY <1>3, <1>5 DEF FullNode, FullRoot, level

\* The browser's policy: the root, and every member's path.
THEOREM BuiltPolicyIsRight ==
  ASSUME NEW list, IsList(list)
  PROVE  BuildPolicy(list).root = FullRoot(list) /\ Provable(BuildPolicy(list))
<1> DEFINE policy == BuildPolicy(list)
           Slots == 1 .. Len(list)
<1>1. policy.root = LevelsOf(list)[Depth][1]
  BY DEF BuildPolicy
<1>2. policy.members = [i \in Slots |-> [destLeaf |-> list[i], path |-> PathOf(LevelsOf(list), i - 1)]]
  BY DEF BuildPolicy
<1>3. Len(list) \in Nat
  BY DEF IsList, IsRow
<1>4. DOMAIN policy.members = Slots
  BY <1>2
<1>5. Len(policy.members) = Len(list)
  BY <1>3, <1>4, LenOfRow
<1>6. ASSUME NEW i \in Slots, NEW j \in Slots
      PROVE  VerifyMember(policy.root, policy.members[j].destLeaf, policy.members[i].path)
               <=> policy.members[i].destLeaf = policy.members[j].destLeaf
  <2>1. i - 1 \in 0 .. Len(list) - 1 /\ (i - 1) + 1 = i
    BY <1>3
  <2>2. /\ policy.members[j].destLeaf = list[j] /\ policy.members[i].destLeaf = list[i]
        /\ policy.members[i].path = PathOf(LevelsOf(list), i - 1)
    BY <1>2
  <2> HIDE DEF policy
  <2>3. VerifyMember(LevelsOf(list)[Depth][1], list[j], PathOf(LevelsOf(list), i - 1))
          <=> list[j] = list[(i - 1) + 1]
    BY <2>1, PathsLead
  <2> QED
    BY <1>1, <2>1, <2>2, <2>3
<1>7. policy.root = FullRoot(list)
  BY <1>1, SameRoot
<1> HIDE DEF policy
<1> QED
  BY <1>5, <1>6, <1>7 DEF Provable, policy

\* The scripts' policy: the one member's path, wherever the member is put.
THEOREM ScriptPolicyIsRight ==
  ASSUME NEW destLeaf, NEW destIndex \in 0 .. Leaves - 1
  PROVE  Provable(ComputePolicy(destLeaf, destIndex))
<1> DEFINE leaves == [i \in 1 .. Leaves |-> IF i = destIndex + 1 THEN destLeaf ELSE Filler(i - 1)]
           policy == ComputePolicy(destLeaf, destIndex)
<1>1. Leaves \in Nat \ {0}
  BY WidthsArePositive, TreeAssumption DEF Leaves
<1>2. DOMAIN leaves = 1 .. Leaves
  OBVIOUS
<1>3. Len(leaves) = Leaves
  BY <1>1, <1>2, LenOfRow
<1>4. IsList(leaves)
  BY <1>1, <1>3 DEF IsList, IsRow
<1>5. leaves[destIndex + 1] = destLeaf
  BY <1>1
<1>6. /\ policy.root = LevelsOf(leaves)[Depth][1]
      /\ policy.members = <<[destLeaf |-> destLeaf, path |-> PathOf(LevelsOf(leaves), destIndex)]>>
  BY DEF ComputePolicy
<1> HIDE DEF leaves, policy
<1>7. /\ Len(policy.members) = 1 /\ policy.members[1].destLeaf = destLeaf
      /\ policy.members[1].path = PathOf(LevelsOf(leaves), destIndex)
  BY <1>6
<1>8. VerifyMember(policy.root, destLeaf, PathOf(LevelsOf(leaves), destIndex))
  BY <1>3, <1>4, <1>5, <1>6, PathsLead
<1>9. \A i \in 1 .. 1 : i = 1
  OBVIOUS
<1> QED
  BY <1>7, <1>8, <1>9 DEF Provable, policy

-----------------------------------------------------------------------------
(***************************************************************************)
(* The encoding of proofs.                                                 *)
(***************************************************************************)

LEMMA Widths ==
  /\ WordBits \in Nat \ {0} /\ HalfBits \in 0 .. WordBits /\ LimbBits \in 1 .. WordBits
  /\ TopBits \in 0 .. WordBits /\ AmountBits \in 0 .. WordBits
  BY EncodingAssumption

LEMMA TwoSteps ==
  /\ Two[0] = 1
  /\ \A l \in 1 .. WordBits : Two[l] = 2 * Two[l - 1]
<1> DEFINE F == Two
<1>1. \E g : WidthIs(g, WordBits)
  BY WidthExists, Widths
<1>2. F = CHOOSE g : WidthIs(g, WordBits)
  BY DEF Two, WidthIs
<1> HIDE DEF F
<1>3. WidthIs(F, WordBits)
  BY <1>1, <1>2
<1>4. \A l \in 0 .. WordBits : F[l] = IF l = 0 THEN 1 ELSE 2 * F[l - 1]
  BY <1>3 DEF WidthIs
<1>5. 0 \in 0 .. WordBits /\ \A l \in 1 .. WordBits : l \in 0 .. WordBits /\ l # 0
  BY Widths
<1> QED
  BY <1>4, <1>5 DEF F

LEMMA ShiftsSteps ==
  ASSUME NEW v, NEW n \in Nat
  PROVE  /\ Shifts(v, n)[0] = v
         /\ \A l \in 1 .. n : Shifts(v, n)[l] = Shifts(v, n)[l - 1] \div 2
<1> DEFINE F == Shifts(v, n)
<1>1. \E g : AboveIs(g, n, v)
  BY AboveExists
<1>2. F = CHOOSE g : AboveIs(g, n, v)
  BY DEF Shifts, AboveIs
<1> HIDE DEF F
<1>3. AboveIs(F, n, v)
  BY <1>1, <1>2
<1>4. \A l \in 0 .. n : F[l] = IF l = 0 THEN v ELSE F[l - 1] \div 2
  BY <1>3 DEF AboveIs
<1>5. 0 \in 0 .. n /\ \A l \in 1 .. n : l \in 0 .. n /\ l # 0
  OBVIOUS
<1> QED
  BY <1>4, <1>5 DEF F

\* What is read of a byte string.
ReadsIs(g, n, b) ==
  g = [l \in 0 .. n |-> IF l = 0 THEN 0 ELSE 2 * g[l - 1] + b[l]]

LEMMA ReadsExists ==
  ASSUME NEW b
  PROVE  \A n \in Nat : \E g : ReadsIs(g, n, b)
<1> DEFINE S == {n \in Nat : \E g : ReadsIs(g, n, b)}
<1>1. 0 \in S
  <2> DEFINE g == [l \in 0 .. 0 |-> 0]
  <2>1. ReadsIs(g, 0, b)
    BY DEF ReadsIs
  <2> HIDE DEF g
  <2> QED
    BY <2>1
<1>2. ASSUME NEW n \in Nat, n \in S PROVE n + 1 \in S
  <2>1. PICK g : ReadsIs(g, n, b)
    BY <1>2
  <2>2. \A l \in 0 .. n : g[l] = IF l = 0 THEN 0 ELSE 2 * g[l - 1] + b[l]
    BY <2>1 DEF ReadsIs
  <2> DEFINE h == [l \in 0 .. n + 1 |-> IF l = 0 THEN 0 ELSE 2 * g[l - 1] + b[l]]
  <2>3. /\ h = [l \in 0 .. n + 1 |-> h[l]]
        /\ \A l \in 0 .. n + 1 : h[l] = IF l = 0 THEN 0 ELSE 2 * g[l - 1] + b[l]
    OBVIOUS
  <2> HIDE DEF h
  <2>4. \A l \in 0 .. n : h[l] = g[l]
    BY <2>2, <2>3
  <2>5. \A l \in 0 .. n + 1 : l # 0 => h[l - 1] = g[l - 1]
    BY <2>4
  <2>6. \A l \in 0 .. n + 1 : h[l] = IF l = 0 THEN 0 ELSE 2 * h[l - 1] + b[l]
    BY <2>3, <2>5
  <2>7. ReadsIs(h, n + 1, b)
    BY <2>3, <2>6 DEF ReadsIs
  <2> QED
    BY <2>7
<1> HIDE DEF S
<1>3. Nat \subseteq S
  BY <1>1, <1>2, SetInduction
<1> QED
  BY <1>3 DEF S

LEMMA ReadsSteps ==
  ASSUME NEW b, Len(b) \in Nat
  PROVE  /\ Reads(b)[0] = 0
         /\ \A l \in 1 .. Len(b) : Reads(b)[l] = 2 * Reads(b)[l - 1] + b[l]
<1> DEFINE F == Reads(b)
<1>1. \E g : ReadsIs(g, Len(b), b)
  BY ReadsExists
<1>2. F = CHOOSE g : ReadsIs(g, Len(b), b)
  BY DEF Reads, ReadsIs
<1> HIDE DEF F
<1>3. ReadsIs(F, Len(b), b)
  BY <1>1, <1>2
<1>4. \A l \in 0 .. Len(b) : F[l] = IF l = 0 THEN 0 ELSE 2 * F[l - 1] + b[l]
  BY <1>3 DEF ReadsIs
<1>5. 0 \in 0 .. Len(b) /\ \A l \in 1 .. Len(b) : l \in 0 .. Len(b) /\ l # 0
  OBVIOUS
<1> QED
  BY <1>4, <1>5 DEF F

-----------------------------------------------------------------------------
(* Powers of two.                                                          *)

LEMMA TwosArePositive == \A l \in 0 .. WordBits : Two[l] \in Nat \ {0}
<1> DEFINE S == {n \in Nat : n <= WordBits => Two[n] \in Nat \ {0}}
<1>1. 0 \in S
  BY TwoSteps
<1>2. ASSUME NEW n \in Nat, n \in S PROVE n + 1 \in S
  <2> SUFFICES ASSUME n + 1 <= WordBits PROVE Two[n + 1] \in Nat \ {0}
    OBVIOUS
  <2>1. n + 1 \in 1 .. WordBits /\ n <= WordBits /\ (n + 1) - 1 = n
    BY Widths
  <2>2. Two[n + 1] = 2 * Two[n]
    BY <2>1, TwoSteps
  <2> QED
    BY <1>2, <2>1, <2>2
<1> HIDE DEF S
<1>3. Nat \subseteq S
  BY <1>1, <1>2, SetInduction
<1> QED
  BY <1>3, Widths DEF S

LEMMA DoubleProduct ==
  ASSUME NEW a \in Nat, NEW b \in Nat
  PROVE  2 * (a * b) = a * (2 * b)
OBVIOUS

LEMMA TwosMultiply ==
  ASSUME NEW m \in 0 .. WordBits
  PROVE  \A n \in 0 .. WordBits - m : Two[m + n] = Two[m] * Two[n]
<1> DEFINE S == {n \in Nat : m + n <= WordBits => Two[m + n] = Two[m] * Two[n]}
<1>1. 0 \in S
  <2>1. Two[m] \in Nat /\ m + 0 = m
    BY TwosArePositive
  <2> QED
    BY <2>1, TwoSteps
<1>2. ASSUME NEW n \in Nat, n \in S PROVE n + 1 \in S
  <2> SUFFICES ASSUME m + (n + 1) <= WordBits PROVE Two[m + (n + 1)] = Two[m] * Two[n + 1]
    OBVIOUS
  <2>1. /\ m + (n + 1) \in 1 .. WordBits /\ (m + (n + 1)) - 1 = m + n /\ m + n <= WordBits
        /\ n + 1 \in 1 .. WordBits /\ (n + 1) - 1 = n /\ n \in 0 .. WordBits
    BY Widths
  <2>2. Two[m + (n + 1)] = 2 * Two[m + n] /\ Two[n + 1] = 2 * Two[n]
    BY <2>1, TwoSteps
  <2>3. Two[m + n] = Two[m] * Two[n]
    BY <1>2, <2>1
  <2>4. Two[m] \in Nat /\ Two[n] \in Nat
    BY <2>1, TwosArePositive
  <2>5. 2 * (Two[m] * Two[n]) = Two[m] * (2 * Two[n])
    BY <2>4, DoubleProduct
  <2> QED
    BY <2>2, <2>3, <2>5
<1> HIDE DEF S
<1>3. Nat \subseteq S
  BY <1>1, <1>2, SetInduction
<1>4. \A n \in 0 .. WordBits - m : n \in Nat /\ m + n <= WordBits
  BY Widths
<1> QED
  BY <1>3, <1>4 DEF S

-----------------------------------------------------------------------------
(* Bits.                                                                   *)

AreBits(b, n) == b \in [1 .. n -> {0, 1}]

LEMMA SameBits ==
  ASSUME NEW n \in Nat, NEW b, AreBits(b, n), NEW c, AreBits(c, n), \A i \in 1 .. n : b[i] = c[i]
  PROVE  b = c
  BY DEF AreBits

LEMMA LenOfBits ==
  ASSUME NEW n \in Nat, NEW b, AreBits(b, n)
  PROVE  Len(b) = n
<1>1. DOMAIN b = 1 .. n
  BY DEF AreBits
<1> QED
  BY <1>1, LenOfRow

LEMMA ReadsNumbers ==
  ASSUME NEW n \in Nat, NEW b, AreBits(b, n)
  PROVE  /\ FromBits(b) = Reads(b)[n]
         /\ Reads(b)[0] = 0
         /\ \A i \in 1 .. n : Reads(b)[i] = 2 * Reads(b)[i - 1] + b[i] /\ b[i] \in {0, 1}
         /\ \A i \in 0 .. n : Reads(b)[i] \in Nat
<1> DEFINE read == Reads(b)
           S == {i \in Nat : i <= n => read[i] \in Nat}
<1>1. Len(b) = n
  BY LenOfBits
<1>2. read[0] = 0 /\ \A i \in 1 .. n : read[i] = 2 * read[i - 1] + b[i]
  BY <1>1, ReadsSteps
<1>3. \A i \in 1 .. n : b[i] \in {0, 1}
  BY DEF AreBits
<1>4. FromBits(b) = read[n]
  BY <1>1 DEF FromBits
<1> HIDE DEF read
<1>5. 0 \in S
  BY <1>2
<1>6. ASSUME NEW i \in Nat, i \in S PROVE i + 1 \in S
  <2> SUFFICES ASSUME i + 1 <= n PROVE read[i + 1] \in Nat
    OBVIOUS
  <2>1. i + 1 \in 1 .. n /\ (i + 1) - 1 = i /\ i <= n
    OBVIOUS
  <2>2. read[i] \in Nat /\ b[i + 1] \in {0, 1}
    BY <1>3, <1>6, <2>1
  <2>3. read[i + 1] = 2 * read[i] + b[i + 1]
    BY <1>2, <2>1
  <2> QED
    BY <2>2, <2>3
<1> HIDE DEF S
<1>7. Nat \subseteq S
  BY <1>5, <1>6, SetInduction
<1>8. \A i \in 0 .. n : i \in Nat /\ i <= n
  OBVIOUS
<1>9. \A i \in 0 .. n : read[i] \in Nat
  BY <1>7, <1>8 DEF S
<1> QED
  BY <1>2, <1>3, <1>4, <1>9 DEF read

\* n bits make less than the power of two.
LEMMA ReadsAreBounded ==
  ASSUME NEW n \in 0 .. WordBits, NEW b, AreBits(b, n)
  PROVE  FromBits(b) \in 0 .. Two[n] - 1
<1> DEFINE read == Reads(b)
           S == {i \in Nat : i <= n => read[i] < Two[i]}
<1>0. n \in Nat
  BY Widths
<1>1. /\ FromBits(b) = read[n] /\ read[0] = 0 /\ \A i \in 0 .. n : read[i] \in Nat
      /\ \A i \in 1 .. n : read[i] = 2 * read[i - 1] + b[i] /\ b[i] \in {0, 1}
  BY <1>0, ReadsNumbers
<1>2. \A i \in 0 .. n : Two[i] \in Nat
  BY TwosArePositive, Widths
<1> HIDE DEF read
<1>3. 0 \in S
  BY <1>1, TwoSteps
<1>4. ASSUME NEW i \in Nat, i \in S PROVE i + 1 \in S
  <2> SUFFICES ASSUME i + 1 <= n PROVE read[i + 1] < Two[i + 1]
    OBVIOUS
  <2>1. /\ i + 1 \in 1 .. n /\ (i + 1) - 1 = i /\ i \in 0 .. n
        /\ i + 1 \in 1 .. WordBits
    BY Widths
  <2>2. Two[i + 1] = 2 * Two[i]
    BY <2>1, TwoSteps
  <2>3. read[i + 1] = 2 * read[i] + b[i + 1] /\ b[i + 1] \in {0, 1}
    BY <1>1, <2>1
  <2>4. read[i] \in Nat /\ Two[i] \in Nat /\ read[i] < Two[i]
    BY <1>1, <1>2, <1>4, <2>1
  <2> QED
    BY <2>2, <2>3, <2>4
<1> HIDE DEF S
<1>5. Nat \subseteq S
  BY <1>3, <1>4, SetInduction
<1>6. n \in S /\ n \in 0 .. n
  BY <1>0, <1>5
<1>7. read[n] < Two[n] /\ read[n] \in Nat /\ Two[n] \in Nat
  BY <1>1, <1>2, <1>6 DEF S
<1> QED
  BY <1>1, <1>7

LEMMA LastBit ==
  ASSUME NEW x \in Nat, NEW y \in Nat, NEW b \in {0, 1}, NEW c \in {0, 1}, 2 * x + b = 2 * y + c
  PROVE  x = y /\ b = c
<1>1. CASE b = 0 /\ c = 0
  BY <1>1
<1>2. CASE b = 1 /\ c = 1
  BY <1>2
<1>3. CASE b # c
  BY <1>3
<1> QED
  BY <1>1, <1>2, <1>3

\* Different bits make different numbers.
LEMMA ReadsTellApart ==
  ASSUME NEW n \in Nat, NEW b, AreBits(b, n), NEW c, AreBits(c, n), FromBits(b) = FromBits(c)
  PROVE  b = c
<1> DEFINE rb == Reads(b)
           rc == Reads(c)
           S == {i \in Nat : i <= n /\ rb[i] = rc[i] => \A k \in 1 .. i : b[k] = c[k]}
<1>1. /\ FromBits(b) = rb[n] /\ \A i \in 0 .. n : rb[i] \in Nat
      /\ \A i \in 1 .. n : rb[i] = 2 * rb[i - 1] + b[i] /\ b[i] \in {0, 1}
  BY ReadsNumbers
<1>2. /\ FromBits(c) = rc[n] /\ \A i \in 0 .. n : rc[i] \in Nat
      /\ \A i \in 1 .. n : rc[i] = 2 * rc[i - 1] + c[i] /\ c[i] \in {0, 1}
  BY ReadsNumbers
<1> HIDE DEF rb, rc
<1>3. 0 \in S
  OBVIOUS
<1>4. ASSUME NEW i \in Nat, i \in S PROVE i + 1 \in S
  <2> SUFFICES ASSUME i + 1 <= n, rb[i + 1] = rc[i + 1]
               PROVE  \A k \in 1 .. i + 1 : b[k] = c[k]
    OBVIOUS
  <2>1. i + 1 \in 1 .. n /\ (i + 1) - 1 = i /\ i \in 0 .. n
    OBVIOUS
  <2>2. /\ rb[i + 1] = 2 * rb[i] + b[i + 1] /\ b[i + 1] \in {0, 1} /\ rb[i] \in Nat
        /\ rc[i + 1] = 2 * rc[i] + c[i + 1] /\ c[i + 1] \in {0, 1} /\ rc[i] \in Nat
    BY <1>1, <1>2, <2>1
  <2>3. rb[i] = rc[i] /\ b[i + 1] = c[i + 1]
    <3> DEFINE x == rb[i]
               y == rc[i]
               p == b[i + 1]
               q == c[i + 1]
    <3>1. x \in Nat /\ y \in Nat /\ p \in {0, 1} /\ q \in {0, 1}
      BY <2>2
    <3>2. 2 * x + p = 2 * y + q
      BY <2>2
    <3> HIDE DEF x, y, p, q
    <3>3. x = y /\ p = q
      BY <3>1, <3>2, LastBit
    <3> QED
      BY <3>3 DEF x, y, p, q
  <2>4. \A k \in 1 .. i : b[k] = c[k]
    BY <1>4, <2>1, <2>3
  <2>5. \A k \in 1 .. i + 1 : k \in 1 .. i \/ k = i + 1
    OBVIOUS
  <2> QED
    BY <2>3, <2>4, <2>5
<1> HIDE DEF S
<1>5. n \in S
  BY <1>3, <1>4, SetInduction
<1>6. n <= n /\ rb[n] = rc[n] => \A k \in 1 .. n : b[k] = c[k]
  BY <1>5 DEF S
<1>7. rb[n] = FromBits(b) /\ rc[n] = FromBits(c)
  BY <1>1, <1>2
<1>8. \A k \in 1 .. n : b[k] = c[k]
  BY <1>6, <1>7
<1> QED
  BY <1>8 DEF AreBits

\* Zeros in front change nothing.
LEMMA ReadsPastZeros ==
  ASSUME NEW n \in Nat, NEW k \in 0 .. n, NEW b, AreBits(b, n), NEW s, AreBits(s, n - k),
         \A i \in 1 .. k : b[i] = 0, \A i \in 1 .. n - k : b[k + i] = s[i]
  PROVE  FromBits(b) = FromBits(s)
<1> DEFINE rb == Reads(b)
           rs == Reads(s)
           Z == {i \in Nat : i <= k => rb[i] = 0}
           S == {i \in Nat : i <= n - k => rb[k + i] = rs[i]}
<1>0. n - k \in Nat
  OBVIOUS
<1>1. /\ FromBits(b) = rb[n] /\ rb[0] = 0
      /\ \A i \in 1 .. n : rb[i] = 2 * rb[i - 1] + b[i]
  BY ReadsNumbers
<1>2. /\ FromBits(s) = rs[n - k] /\ rs[0] = 0
      /\ \A i \in 1 .. n - k : rs[i] = 2 * rs[i - 1] + s[i]
  BY <1>0, ReadsNumbers
<1> HIDE DEF rb, rs
<1>3. 0 \in Z
  BY <1>1
<1>4. ASSUME NEW i \in Nat, i \in Z PROVE i + 1 \in Z
  <2> SUFFICES ASSUME i + 1 <= k PROVE rb[i + 1] = 0
    OBVIOUS
  <2>1. i + 1 \in 1 .. n /\ i + 1 \in 1 .. k /\ (i + 1) - 1 = i /\ i <= k
    OBVIOUS
  <2>2. rb[i + 1] = 2 * rb[i] + b[i + 1] /\ b[i + 1] = 0 /\ rb[i] = 0
    BY <1>1, <1>4, <2>1
  <2> QED
    BY <2>2
<1>5. rb[k] = 0
  <2> HIDE DEF Z
  <2>1. k \in Z
    BY <1>3, <1>4, SetInduction
  <2>2. k <= k
    OBVIOUS
  <2> QED
    BY <2>1, <2>2 DEF Z
<1>6. 0 \in S
  <2>1. k + 0 = k
    OBVIOUS
  <2> QED
    BY <1>2, <1>5, <2>1
<1>7. ASSUME NEW i \in Nat, i \in S PROVE i + 1 \in S
  <2> SUFFICES ASSUME i + 1 <= n - k PROVE rb[k + (i + 1)] = rs[i + 1]
    OBVIOUS
  <2>1. /\ i + 1 \in 1 .. n - k /\ (i + 1) - 1 = i /\ i <= n - k
        /\ k + (i + 1) \in 1 .. n /\ (k + (i + 1)) - 1 = k + i
    OBVIOUS
  <2>2. rb[k + (i + 1)] = 2 * rb[k + i] + b[k + (i + 1)] /\ b[k + (i + 1)] = s[i + 1]
    BY <1>1, <2>1
  <2>3. rs[i + 1] = 2 * rs[i] + s[i + 1] /\ rb[k + i] = rs[i]
    BY <1>2, <1>7, <2>1
  <2> QED
    BY <2>2, <2>3
<1>8. rb[n] = rs[n - k]
  <2> HIDE DEF S
  <2>1. n - k \in S
    BY <1>0, <1>6, <1>7, SetInduction
  <2>2. n - k <= n - k /\ k + (n - k) = n
    OBVIOUS
  <2> QED
    BY <2>1, <2>2 DEF S
<1> QED
  BY <1>1, <1>2, <1>8

\* What was written is read back.
LEMMA BitsAreBits ==
  ASSUME NEW n \in 0 .. WordBits, NEW v \in 0 .. Two[n] - 1
  PROVE  /\ \A k \in 0 .. n : Shifts(v, n)[k] \in 0 .. Two[n - k] - 1
         /\ AreBits(Bits(v, n), n)
         /\ \A i \in 1 .. n : Bits(v, n)[i] = Shifts(v, n)[n - i] % 2
<1> DEFINE s == Shifts(v, n)
           S == {k \in Nat : k <= n => s[k] \in 0 .. Two[n - k] - 1}
<1>0. n \in Nat
  BY Widths
<1>1. s[0] = v /\ \A k \in 1 .. n : s[k] = s[k - 1] \div 2
  BY <1>0, ShiftsSteps
<1>2. Bits(v, n) = [i \in 1 .. n |-> s[n - i] % 2]
  BY DEF Bits
<1> HIDE DEF s
<1>3. 0 \in S
  <2>1. n - 0 = n
    BY <1>0
  <2> QED
    BY <1>1, <2>1
<1>4. ASSUME NEW k \in Nat, k \in S PROVE k + 1 \in S
  <2> SUFFICES ASSUME k + 1 <= n PROVE s[k + 1] \in 0 .. Two[n - (k + 1)] - 1
    OBVIOUS
  <2>1. /\ k + 1 \in 1 .. n /\ (k + 1) - 1 = k /\ k <= n
        /\ n - k \in 1 .. WordBits /\ (n - k) - 1 = n - (k + 1)
        /\ n - (k + 1) \in 0 .. WordBits
    BY <1>0, Widths
  <2>2. Two[n - k] = 2 * Two[n - (k + 1)] /\ Two[n - (k + 1)] \in Nat
    BY <2>1, TwoSteps, TwosArePositive
  <2>3. s[k + 1] = s[k] \div 2 /\ s[k] \in 0 .. Two[n - k] - 1
    BY <1>1, <1>4, <2>1
  <2> QED
    BY <2>2, <2>3
<1> HIDE DEF S
<1>5. Nat \subseteq S
  BY <1>3, <1>4, SetInduction
<1>6. \A k \in 0 .. n : k \in Nat /\ k <= n /\ n - k \in 0 .. WordBits
  BY <1>0, Widths
<1>7. \A k \in 0 .. n : s[k] \in 0 .. Two[n - k] - 1
  BY <1>5, <1>6 DEF S
<1>8. ASSUME NEW i \in 1 .. n PROVE s[n - i] % 2 \in {0, 1}
  <2>1. n - i \in 0 .. n /\ n - (n - i) \in 0 .. WordBits
    BY <1>0, Widths
  <2>2. s[n - i] \in Nat
    BY <1>7, <2>1, TwosArePositive
  <2> QED
    BY <2>2
<1> QED
  BY <1>2, <1>7, <1>8 DEF AreBits, s

LEMMA ReadsWhatWasWritten ==
  ASSUME NEW n \in 0 .. WordBits, NEW v \in 0 .. Two[n] - 1
  PROVE  FromBits(Bits(v, n)) = v
<1> DEFINE s == Shifts(v, n)
           b == Bits(v, n)
           r == Reads(b)
           S == {i \in Nat : i <= n => r[i] = s[n - i]}
<1>0. n \in Nat
  BY Widths
<1>1. s[0] = v /\ \A k \in 1 .. n : s[k] = s[k - 1] \div 2
  BY <1>0, ShiftsSteps
<1>2. /\ \A k \in 0 .. n : s[k] \in 0 .. Two[n - k] - 1
      /\ \A i \in 1 .. n : b[i] = s[n - i] % 2
  BY BitsAreBits
<1>3. FromBits(b) = r[n] /\ r[0] = 0 /\ \A i \in 1 .. n : r[i] = 2 * r[i - 1] + b[i]
  BY <1>0, BitsAreBits, ReadsNumbers
<1> HIDE DEF s, b, r
<1>4. 0 \in S
  <2>1. n \in 0 .. n /\ n - n = 0 /\ n - 0 = n
    BY <1>0
  <2>2. s[n] \in 0 .. Two[0] - 1 /\ Two[0] = 1
    BY <1>2, <2>1, TwoSteps
  <2> QED
    BY <1>3, <2>1, <2>2
<1>5. ASSUME NEW i \in Nat, i \in S PROVE i + 1 \in S
  <2> SUFFICES ASSUME i + 1 <= n PROVE r[i + 1] = s[n - (i + 1)]
    OBVIOUS
  <2>1. /\ i + 1 \in 1 .. n /\ (i + 1) - 1 = i /\ i <= n
        /\ n - i \in 1 .. n /\ (n - i) - 1 = n - (i + 1) /\ n - (i + 1) \in 0 .. n
        /\ n - (n - (i + 1)) \in 0 .. WordBits
    BY <1>0, Widths
  <2> DEFINE x == s[n - (i + 1)]
  <2>2. x \in Nat
    BY <1>2, <2>1, TwosArePositive
  <2>3. r[i + 1] = 2 * r[i] + (x % 2)
    BY <1>2, <1>3, <2>1
  <2>4. r[i] = x \div 2
    BY <1>1, <1>5, <2>1
  <2> HIDE DEF x
  <2>5. r[i + 1] = x
    BY <2>2, <2>3, <2>4
  <2> QED
    BY <2>5 DEF x
<1> HIDE DEF S
<1>6. n \in S
  BY <1>0, <1>4, <1>5, SetInduction
<1>7. n <= n /\ n - n = 0
  BY <1>0
<1> QED
  BY <1>1, <1>3, <1>6, <1>7 DEF S, b

-----------------------------------------------------------------------------
(* Points.                                                                 *)

LEMMA WordsAreBits ==
  ASSUME NEW v \in Word
  PROVE  AreBits(DecToBe32(v), WordBits) /\ FromBits(DecToBe32(v)) = v
<1>1. WordBits \in 0 .. WordBits
  BY Widths
<1> QED
  BY <1>1, BitsAreBits, ReadsWhatWasWritten DEF Word, DecToBe32

\* Byte strings one after the other.
Joined(a, b) == a \o b

\* In c, m bits a are followed by n bits b.
Follows(c, a, m, b, n) ==
  /\ AreBits(c, m + n)
  /\ \A i \in 1 .. m : c[i] = a[i]
  /\ \A i \in 1 .. n : c[m + i] = b[i]

LEMMA Concatenation ==
  ASSUME NEW m \in Nat, NEW n \in Nat, NEW a, AreBits(a, m), NEW b, AreBits(b, n)
  PROVE  Follows(Joined(a, b), a, m, b, n)
<1>1. Len(a) = m /\ Len(b) = n
  BY LenOfBits
<1>2. a \in Seq({0, 1}) /\ b \in Seq({0, 1})
  BY DEF AreBits
<1> DEFINE ab == Joined(a, b)
<1>3. /\ ab \in Seq({0, 1}) /\ Len(ab) = m + n
      /\ \A i \in 1 .. m + n : ab[i] = IF i <= m THEN a[i] ELSE b[i - m]
  BY <1>1, <1>2, ConcatProperties DEF Joined
<1> HIDE DEF ab
<1>4. AreBits(ab, m + n)
  BY <1>3, LenProperties DEF AreBits
<1>5. \A i \in 1 .. m : i \in 1 .. m + n /\ i <= m
  OBVIOUS
<1>6. \A i \in 1 .. n : m + i \in 1 .. m + n /\ ~(m + i <= m) /\ (m + i) - m = i
  OBVIOUS
<1>7. (\A i \in 1 .. m : ab[i] = a[i]) /\ \A i \in 1 .. n : ab[m + i] = b[i]
  BY <1>3, <1>5, <1>6
<1> QED
  BY <1>4, <1>7 DEF ab, Follows

LEMMA Part ==
  ASSUME NEW n \in Nat, NEW b, AreBits(b, n), NEW k \in 0 .. n, NEW m \in 0 .. n - k
  PROVE  /\ AreBits(SubSeq(b, k + 1, k + m), m)
         /\ \A i \in 1 .. m : SubSeq(b, k + 1, k + m)[i] = b[k + i]
<1>1. b \in Seq({0, 1}) /\ Len(b) = n
  BY LenOfBits DEF AreBits
<1>2. SubSeq(b, k + 1, k + m) = [i \in 1 .. m |-> b[k + i]]
  BY <1>1
<1>3. \A i \in 1 .. m : k + i \in 1 .. n
  OBVIOUS
<1> QED
  BY <1>2, <1>3 DEF AreBits

\* A word that stands in a byte string is read there.
LEMMA WordAt ==
  ASSUME NEW n \in Nat, NEW b, AreBits(b, n), NEW k \in 0 .. n, k + WordBits <= n, NEW v \in Word,
         \A i \in 1 .. WordBits : b[k + i] = DecToBe32(v)[i]
  PROVE  FromBits(SubSeq(b, k + 1, k + WordBits)) = v
<1> DEFINE part == SubSeq(b, k + 1, k + WordBits)
           w == DecToBe32(v)
<1>1. AreBits(w, WordBits) /\ FromBits(w) = v
  BY WordsAreBits
<1>2. WordBits \in 0 .. n - k
  BY Widths
<1>3. AreBits(part, WordBits) /\ \A i \in 1 .. WordBits : part[i] = b[k + i]
  BY <1>2, Part
<1>4. \A i \in 1 .. WordBits : part[i] = w[i]
  BY <1>3
<1> HIDE DEF part, w
<1>5. part = w
  BY <1>1, <1>3, <1>4, Widths, SameBits
<1> QED
  BY <1>1, <1>5 DEF part

LEMMA TwoWords ==
  ASSUME NEW v1 \in Word, NEW v2 \in Word
  PROVE  LET b == DecToBe32(v1) \o DecToBe32(v2)
         IN  Coordinate(b, 1) = v1 /\ Coordinate(b, 2) = v2
<1> DEFINE W == WordBits
           w1 == DecToBe32(v1)
           w2 == DecToBe32(v2)
           b == Joined(w1, w2)
<1>1. W \in Nat
  BY Widths
<1>2. AreBits(w1, W) /\ AreBits(w2, W)
  BY WordsAreBits
<1>3. /\ AreBits(b, W + W)
      /\ \A i \in 1 .. W : b[i] = w1[i]
      /\ \A i \in 1 .. W : b[W + i] = w2[i]
  <2> HIDE DEF W, w1, w2
  <2>1. Follows(Joined(w1, w2), w1, W, w2, W)
    BY <1>1, <1>2, Concatenation
  <2> QED
    BY <2>1 DEF Follows
<1>4. W + W \in Nat /\ 0 \in 0 .. W + W /\ W \in 0 .. W + W /\ \A i \in 1 .. W : 0 + i = i
  BY <1>1
<1>5. \A i \in 1 .. W : b[0 + i] = w1[i]
  BY <1>3, <1>4
<1>6. FromBits(SubSeq(b, 0 + 1, 0 + W)) = v1 /\ FromBits(SubSeq(b, W + 1, W + W)) = v2
  <2> HIDE DEF b
  <2> QED
    BY <1>1, <1>3, <1>4, <1>5, WordAt
<1>7. (1 - 1) * W + 1 = 0 + 1 /\ 1 * W = 0 + W /\ (2 - 1) * W + 1 = W + 1 /\ 2 * W = W + W
  BY <1>1
<1> HIDE DEF b
<1>8. Coordinate(b, 1) = v1 /\ Coordinate(b, 2) = v2
  BY <1>6, <1>7 DEF Coordinate
<1> QED
  BY <1>8 DEF b, Joined

LEMMA FourWords ==
  ASSUME NEW v1 \in Word, NEW v2 \in Word, NEW v3 \in Word, NEW v4 \in Word
  PROVE  LET b == DecToBe32(v1) \o DecToBe32(v2) \o DecToBe32(v3) \o DecToBe32(v4)
         IN  /\ Coordinate(b, 1) = v1 /\ Coordinate(b, 2) = v2
             /\ Coordinate(b, 3) = v3 /\ Coordinate(b, 4) = v4
<1> DEFINE W == WordBits
           w1 == DecToBe32(v1)
           w2 == DecToBe32(v2)
           w3 == DecToBe32(v3)
           w4 == DecToBe32(v4)
           b2 == Joined(w1, w2)
           b3 == Joined(b2, w3)
           b == Joined(b3, w4)
           W2 == W + W
           W3 == W2 + W
           W4 == W3 + W
<1>1. W \in Nat /\ W2 \in Nat /\ W3 \in Nat /\ W4 \in Nat
  BY Widths
<1>2. AreBits(w1, W) /\ AreBits(w2, W) /\ AreBits(w3, W) /\ AreBits(w4, W)
  BY WordsAreBits
<1>3. /\ AreBits(b2, W2)
      /\ \A i \in 1 .. W : b2[i] = w1[i]
      /\ \A i \in 1 .. W : b2[W + i] = w2[i]
  <2> HIDE DEF W, w1, w2
  <2>1. Follows(Joined(w1, w2), w1, W, w2, W)
    BY <1>1, <1>2, Concatenation
  <2> QED
    BY <2>1 DEF Follows
<1> HIDE DEF b2
<1>4. /\ AreBits(b3, W3)
      /\ \A i \in 1 .. W2 : b3[i] = b2[i]
      /\ \A i \in 1 .. W : b3[W2 + i] = w3[i]
  <2> HIDE DEF W, W2, w3
  <2>1. Follows(Joined(b2, w3), b2, W2, w3, W)
    BY <1>1, <1>2, <1>3, Concatenation
  <2> QED
    BY <2>1 DEF Follows, W3
<1> HIDE DEF b3
<1>5. /\ AreBits(b, W4)
      /\ \A i \in 1 .. W3 : b[i] = b3[i]
      /\ \A i \in 1 .. W : b[W3 + i] = w4[i]
  <2> HIDE DEF W, W3, w4
  <2>1. Follows(Joined(b3, w4), b3, W3, w4, W)
    BY <1>1, <1>2, <1>4, Concatenation
  <2> QED
    BY <2>1 DEF Follows, W4
<1> HIDE DEF b, w1, w2, w3, w4
<1>6. \A i \in 1 .. W :
        /\ 0 + i = i /\ i \in 1 .. W2 /\ i \in 1 .. W3
        /\ W + i \in 1 .. W2 /\ W + i \in 1 .. W3 /\ W2 + i \in 1 .. W3
  BY <1>1
<1>7. \A i \in 1 .. W :
        b[0 + i] = w1[i] /\ b[W + i] = w2[i] /\ b[W2 + i] = w3[i] /\ b[W3 + i] = w4[i]
  BY <1>3, <1>4, <1>5, <1>6
<1>8. 0 \in 0 .. W4 /\ W \in 0 .. W4 /\ W2 \in 0 .. W4 /\ W3 \in 0 .. W4
  BY <1>1
<1>9. 0 + W <= W4 /\ W + W <= W4 /\ W2 + W <= W4 /\ W3 + W <= W4
  BY <1>1
<1>10. FromBits(SubSeq(b, 0 + 1, 0 + W)) = v1
  BY <1>1, <1>5, <1>7, <1>8, <1>9, WordAt DEF w1
<1>11. FromBits(SubSeq(b, W + 1, W + W)) = v2
  BY <1>1, <1>5, <1>7, <1>8, <1>9, WordAt DEF w2
<1>12. FromBits(SubSeq(b, W2 + 1, W2 + W)) = v3
  <2> HIDE DEF W2, W4
  <2> QED
    BY <1>1, <1>5, <1>7, <1>8, <1>9, WordAt DEF w3
<1>13. FromBits(SubSeq(b, W3 + 1, W3 + W)) = v4
  <2> HIDE DEF W3, W4
  <2> QED
    BY <1>1, <1>5, <1>7, <1>8, <1>9, WordAt DEF w4
<1>14. /\ (1 - 1) * W + 1 = 0 + 1 /\ 1 * W = 0 + W /\ (2 - 1) * W + 1 = W + 1 /\ 2 * W = W + W
       /\ (3 - 1) * W + 1 = W2 + 1 /\ 3 * W = W2 + W /\ (4 - 1) * W + 1 = W3 + 1 /\ 4 * W = W3 + W
  BY <1>1
<1>15. /\ Coordinate(b, 1) = v1 /\ Coordinate(b, 2) = v2
       /\ Coordinate(b, 3) = v3 /\ Coordinate(b, 4) = v4
  BY <1>10, <1>11, <1>12, <1>13, <1>14 DEF Coordinate
<1> QED
  BY <1>15 DEF b, b3, b2, w1, w2, w3, w4, Joined

-----------------------------------------------------------------------------
(* Words.                                                                  *)

LEMMA Division ==
  ASSUME NEW v \in Nat, NEW d \in Nat \ {0}
  PROVE  v \div d \in Nat /\ v % d \in 0 .. d - 1 /\ v = (v \div d) * d + (v % d)
OBVIOUS

LEMMA SmallerQuotient ==
  ASSUME NEW q \in Nat, NEW c \in Nat, NEW d \in Nat \ {0}, NEW r \in 0 .. d - 1
  PROVE  q * d + r < c * d <=> q < c
<1>1. ASSUME q >= c PROVE ~(q * d + r < c * d)
  <2>1. PICK e \in Nat : q = c + e
    <3>1. q - c \in Nat /\ q = c + (q - c)
      BY <1>1
    <3> QED
      BY <3>1
  <2>2. q * d = c * d + e * d /\ e * d \in Nat /\ c * d \in Nat
    BY <2>1
  <2> QED
    BY <2>2
<1>2. ASSUME q < c PROVE q * d + r < c * d
  <2>1. PICK e \in Nat : c = q + 1 + e
    <3>1. c - q - 1 \in Nat /\ c = q + 1 + (c - q - 1)
      BY <1>2
    <3> QED
      BY <3>1
  <2>2. c * d = q * d + d + e * d /\ e * d \in Nat /\ q * d \in Nat
    BY <2>1
  <2> QED
    BY <2>2
<1> QED
  BY <1>1, <1>2

LEMMA Remainder ==
  ASSUME NEW d \in Nat \ {0}, NEW v \in 0 .. 2 * d - 1
  PROVE  v % d = IF v < d THEN v ELSE v - d
<1>1. CASE v < d
  BY <1>1
<1>2. CASE v >= d
  <2>1. v - d \in 0 .. d - 1 /\ v = 1 * d + (v - d)
    BY <1>2
  <2> QED
    BY <1>2, <2>1
<1> QED
  BY <1>1, <1>2

\* Two steps of Horner's rule, for a number that is too large by a power.
LEMMA Horner ==
  ASSUME NEW x \in Int, NEW e \in Int, NEW d \in Int, NEW r \in Int
  PROVE  (x - e) * d + r = (x * d + r) - e * d
OBVIOUS

LEMMA FourLimbs ==
  LET B == Two[LimbBits]
  IN  B \in Nat \ {0} /\ Two[WordBits] = ((B * B) * B) * B
<1> DEFINE B == Two[LimbBits]
           L == LimbBits
<1>1. /\ L \in 0 .. WordBits /\ L + L \in 0 .. WordBits /\ (L + L) + L \in 0 .. WordBits
      /\ ((L + L) + L) + L = WordBits
  BY EncodingAssumption
<1>2. /\ L \in 0 .. WordBits - L /\ L \in 0 .. WordBits - (L + L)
      /\ L \in 0 .. WordBits - ((L + L) + L)
  BY <1>1, Widths
<1>3. Two[L + L] = Two[L] * Two[L]
  BY <1>1, <1>2, TwosMultiply
<1>4. Two[(L + L) + L] = Two[L + L] * Two[L]
  BY <1>1, <1>2, TwosMultiply
<1>5. Two[((L + L) + L) + L] = Two[(L + L) + L] * Two[L]
  BY <1>1, <1>2, TwosMultiply
<1> QED
  BY <1>1, <1>3, <1>4, <1>5, TwosArePositive

\* Up to twice a word, a number's limbs are read as what is left of it in a word.
LEMMA LimbsRead ==
  ASSUME NEW v \in 0 .. 2 * Two[WordBits] - 1
  PROVE  U256(U256ScVal(v)) = IF v < Two[WordBits] THEN v ELSE v - Two[WordBits]
<1> DEFINE B == Two[LimbBits]
           T == Two[WordBits]
           v1 == v \div B
           v2 == v1 \div B
           v3 == v2 \div B
           r0 == v % B
           r1 == v1 % B
           r2 == v2 % B
           r3 == v3 % B
<1>1. B \in Nat \ {0} /\ T = ((B * B) * B) * B
  BY FourLimbs
<1>2. U256(U256ScVal(v)) = ((r3 * B + r2) * B + r1) * B + r0
  BY DEF U256, U256ScVal
<1>3. v \in Nat
  BY TwosArePositive, Widths
<1>4. v < 2 * T
  BY TwosArePositive, Widths
<1> HIDE DEF B, T
<1>5. v1 \in Nat /\ r0 \in 0 .. B - 1 /\ v = v1 * B + r0
  BY <1>1, <1>3, Division
<1> HIDE DEF v1, r0
<1>6. v2 \in Nat /\ r1 \in 0 .. B - 1 /\ v1 = v2 * B + r1
  BY <1>1, <1>5, Division
<1> HIDE DEF v2, r1
<1>7. v3 \in Nat /\ r2 \in 0 .. B - 1 /\ v2 = v3 * B + r2
  BY <1>1, <1>6, Division
<1> HIDE DEF v3, r2
<1> DEFINE C2 == 2 * B
           C3 == C2 * B
           C4 == C3 * B
<1>8. C2 \in Nat /\ C3 \in Nat /\ C4 \in Nat
  BY <1>1
<1>9. 2 * T = C4 * B
  BY <1>1
<1> HIDE DEF C4
<1>10. v1 < C4
  <2>1. v1 * B + r0 < C4 * B <=> v1 < C4
    BY <1>1, <1>5, <1>8, SmallerQuotient
  <2> QED
    BY <2>1, <1>4, <1>5, <1>9
<1> HIDE DEF C3
<1>11. v2 < C3
  <2>1. v2 * B + r1 < C3 * B <=> v2 < C3
    BY <1>1, <1>6, <1>8, SmallerQuotient
  <2> QED
    BY <2>1, <1>6, <1>10 DEF C4
<1> HIDE DEF C2
<1>12. v3 < C2
  <2>1. v3 * B + r2 < C2 * B <=> v3 < C2
    BY <1>1, <1>7, <1>8, SmallerQuotient
  <2> QED
    BY <2>1, <1>7, <1>11 DEF C3
<1>13. v3 \in 0 .. 2 * B - 1
  BY <1>1, <1>7, <1>12 DEF C2
<1>14. r3 = IF v3 < B THEN v3 ELSE v3 - B
  BY <1>1, <1>13, Remainder
<1> HIDE DEF r3
<1> DEFINE D2 == B * B
           D3 == D2 * B
<1>15. D2 \in Nat /\ D3 \in Nat /\ D3 * B = T
  BY <1>1
<1>16. v1 < D3 <=> v < T
  <2> HIDE DEF D3
  <2>1. v1 * B + r0 < D3 * B <=> v1 < D3
    BY <1>1, <1>5, <1>15, SmallerQuotient
  <2> QED
    BY <2>1, <1>5, <1>15
<1>17. v2 < D2 <=> v1 < D3
  <2> HIDE DEF D2
  <2>1. v2 * B + r1 < D2 * B <=> v2 < D2
    BY <1>1, <1>6, <1>15, SmallerQuotient
  <2> QED
    BY <2>1, <1>6 DEF D3
<1>18. v3 < B <=> v2 < D2
  <2>1. v3 * B + r2 < B * B <=> v3 < B
    BY <1>1, <1>7, SmallerQuotient
  <2> QED
    BY <2>1, <1>7
<1>19. CASE v < T
  <2>1. r3 = v3
    BY <1>14, <1>16, <1>17, <1>18, <1>19
  <2>2. r3 * B + r2 = v2
    BY <1>7, <2>1
  <2>3. (r3 * B + r2) * B + r1 = v1
    BY <1>6, <2>2
  <2> QED
    BY <1>2, <1>5, <1>19, <2>3 DEF T
<1>20. CASE ~(v < T)
  <2>1. r3 = v3 - B
    BY <1>14, <1>16, <1>17, <1>18, <1>20
  <2> HIDE DEF D2, D3
  <2>2. r3 * B + r2 = v2 - D2
    <3>1. (v3 - B) * B + r2 = (v3 * B + r2) - B * B
      BY <1>1, <1>7, Horner
    <3> QED
      BY <1>7, <2>1, <3>1 DEF D2
  <2>3. (r3 * B + r2) * B + r1 = v1 - D3
    <3>1. (v2 - D2) * B + r1 = (v2 * B + r1) - D2 * B
      BY <1>1, <1>6, <1>7, <1>15, Horner
    <3> QED
      BY <1>6, <2>2, <3>1 DEF D3
  <2>4. ((r3 * B + r2) * B + r1) * B + r0 = v - T
    <3>1. (v1 - D3) * B + r0 = (v1 * B + r0) - D3 * B
      BY <1>1, <1>5, <1>6, <1>15, Horner
    <3> QED
      BY <1>5, <1>15, <2>3, <3>1
  <2> QED
    BY <1>2, <1>20, <2>4 DEF T
<1> QED
  BY <1>19, <1>20 DEF T
\* A word is read back, and a field element is not taken for itself plus the order.
LEMMA WordsRead ==
  /\ \A v \in Word : U256(U256ScVal(v)) = v
  /\ \A x \in Field : U256(U256ScVal(x + Order)) # x /\ U256(U256ScVal(x + Order)) \in Nat
<1>1. Two[WordBits] \in Nat \ {0} /\ Order \in Nat \ {0} /\ Order < Two[WordBits]
  <2>1. Two[AmountBits] \in Nat /\ Two[WordBits] \in Nat \ {0}
    BY Widths, TwosArePositive
  <2> QED
    BY <2>1, EncodingAssumption
<1>2. ASSUME NEW v \in Word PROVE U256(U256ScVal(v)) = v
  <2>1. v \in 0 .. 2 * Two[WordBits] - 1 /\ v < Two[WordBits]
    BY <1>1 DEF Word
  <2> QED
    BY <2>1, LimbsRead
<1>3. ASSUME NEW x \in Field
      PROVE  U256(U256ScVal(x + Order)) # x /\ U256(U256ScVal(x + Order)) \in Nat
  <2> DEFINE y == x + Order
             w == U256(U256ScVal(y))
  <2>1. y \in 0 .. 2 * Two[WordBits] - 1
    BY <1>1 DEF Field
  <2>2. x \in Nat /\ y # x /\ y - Two[WordBits] # x
    BY <1>1 DEF Field
  <2> HIDE DEF y
  <2>3. w = IF y < Two[WordBits] THEN y ELSE y - Two[WordBits]
    BY <2>1, LimbsRead
  <2> HIDE DEF w
  <2>4. w # x /\ w \in Nat
    BY <1>1, <2>1, <2>2, <2>3
  <2> QED
    BY <2>4 DEF w, y
<1> QED
  BY <1>2, <1>3

LEMMA FieldFacts ==
  /\ Order \in Nat \ {0} /\ Field \subseteq Word
  /\ \A x \in Field : x \in Nat /\ x < Order /\ x % Order = x
  /\ Two[AmountBits] \in Nat \ {0} /\ 4 * Two[AmountBits] < Order
<1>1. Two[AmountBits] \in Nat \ {0} /\ Two[WordBits] \in Nat \ {0}
  BY Widths, TwosArePositive
<1>2. Order \in Nat \ {0} /\ Order < Two[WordBits] /\ 4 * Two[AmountBits] < Order
  BY <1>1, EncodingAssumption
<1> QED
  BY <1>1, <1>2 DEF Field, Word

LEMMA G1Read ==
  ASSUME NEW p, IsG1(p)
  PROVE  G1Point(G1Bytes(p)) = p
<1>1. p[1] \in Word /\ p[2] \in Word /\ p = <<p[1], p[2]>>
  BY DEF IsG1
<1> DEFINE b == DecToBe32(p[1]) \o DecToBe32(p[2])
<1>2. Coordinate(b, 1) = p[1] /\ Coordinate(b, 2) = p[2]
  BY <1>1, TwoWords
<1> HIDE DEF b
<1>3. G1Point(b) = p
  BY <1>1, <1>2 DEF G1Point
<1> QED
  BY <1>3 DEF b, G1Bytes

\* The other order is read with the coordinates swapped.
LEMMA G2Read ==
  ASSUME NEW p, IsG2(p)
  PROVE  /\ G2Point(G2Bytes(p, "c1c0")) = p
         /\ G2Point(G2Bytes(p, "c0c1")) = << <<p[1][2], p[1][1]>>, <<p[2][2], p[2][1]>> >>
<1>1. /\ p[1][1] \in Word /\ p[1][2] \in Word /\ p[2][1] \in Word /\ p[2][2] \in Word
      /\ p = << <<p[1][1], p[1][2]>>, <<p[2][1], p[2][2]>> >>
  BY DEF IsG2
<1> DEFINE b == DecToBe32(p[1][2]) \o DecToBe32(p[1][1]) \o DecToBe32(p[2][2]) \o DecToBe32(p[2][1])
           c == DecToBe32(p[1][1]) \o DecToBe32(p[1][2]) \o DecToBe32(p[2][1]) \o DecToBe32(p[2][2])
<1>2. /\ Coordinate(b, 1) = p[1][2] /\ Coordinate(b, 2) = p[1][1]
      /\ Coordinate(b, 3) = p[2][2] /\ Coordinate(b, 4) = p[2][1]
  BY <1>1, FourWords
<1>3. /\ Coordinate(c, 1) = p[1][1] /\ Coordinate(c, 2) = p[1][2]
      /\ Coordinate(c, 3) = p[2][1] /\ Coordinate(c, 4) = p[2][2]
  BY <1>1, FourWords
<1>4. G2Bytes(p, "c1c0") = b /\ G2Bytes(p, "c0c1") = c
  BY DEF G2Bytes
<1> HIDE DEF b, c
<1>5. G2Point(b) = p /\ G2Point(c) = << <<p[1][2], p[1][1]>>, <<p[2][2], p[2][1]>> >>
  BY <1>1, <1>2, <1>3 DEF G2Point
<1> QED
  BY <1>4, <1>5

-----------------------------------------------------------------------------
(* Payloads and addresses.                                                 *)

LEMMA Halves ==
  /\ WordBits \in Nat /\ HalfBits \in Nat /\ WordBits = HalfBits + HalfBits
  /\ HalfBits \in 0 .. WordBits /\ HalfBits \in 0 .. WordBits - 0 /\ HalfBits \in 0 .. WordBits - HalfBits
<1>1. HalfBits \in Nat /\ WordBits = 2 * HalfBits
  BY EncodingAssumption
<1> QED
  BY <1>1

LEMMA HalvesOfBits ==
  ASSUME NEW h, AreBits(h, WordBits)
  PROVE  LET hi == SubSeq(h, 1, HalfBits)
             lo == SubSeq(h, HalfBits + 1, WordBits)
         IN  /\ AreBits(hi, HalfBits) /\ \A i \in 1 .. HalfBits : hi[i] = h[i]
             /\ AreBits(lo, HalfBits) /\ \A i \in 1 .. HalfBits : lo[i] = h[HalfBits + i]
<1> DEFINE H == HalfBits
           z == 0
<1>1. /\ z \in 0 .. WordBits /\ z + 1 = 1 /\ z + H = H /\ \A i \in 1 .. H : z + i = i
      /\ H \in 0 .. WordBits - z /\ WordBits \in Nat
  BY Halves
<1> HIDE DEF z, H
<1>2. /\ AreBits(SubSeq(h, z + 1, z + H), H)
      /\ \A i \in 1 .. H : SubSeq(h, z + 1, z + H)[i] = h[z + i]
  BY <1>1, Part
<1>3. /\ AreBits(SubSeq(h, H + 1, H + H), H)
      /\ \A i \in 1 .. H : SubSeq(h, H + 1, H + H)[i] = h[H + i]
  <2>1. WordBits \in Nat /\ H \in 0 .. WordBits /\ H \in 0 .. WordBits - H
    BY Halves DEF H
  <2> QED
    BY <2>1, Part
<1>4. H + H = WordBits
  BY Halves DEF H
<1> QED
  BY <1>1, <1>2, <1>3, <1>4 DEF H

\* Half a word, after zeros.
LEMMA Padded ==
  ASSUME NEW s, AreBits(s, HalfBits)
  PROVE  FromBits([i \in 1 .. HalfBits |-> 0] \o s) = FromBits(s)
<1> DEFINE zeros == [i \in 1 .. HalfBits |-> 0]
           H == HalfBits
           b == Joined(zeros, s)
<1>1. AreBits(zeros, H) /\ \A i \in 1 .. H : zeros[i] = 0
  BY Halves DEF AreBits
<1> HIDE DEF zeros
<1>2. Follows(b, zeros, H, s, H)
  BY <1>1, Halves, Concatenation
<1>3. AreBits(b, WordBits) /\ (\A i \in 1 .. H : b[i] = 0) /\ \A i \in 1 .. H : b[H + i] = s[i]
  BY <1>1, <1>2, Halves DEF Follows
<1>4. AreBits(s, WordBits - H) /\ \A i \in 1 .. WordBits - H : b[H + i] = s[i]
  <2>1. WordBits - H = H
    BY Halves
  <2> QED
    BY <1>3, <2>1
<1> HIDE DEF b
<1>5. WordBits \in Nat /\ H \in 0 .. WordBits
  BY Halves
<1> HIDE DEF H
<1>6. FromBits(b) = FromBits(s)
  BY <1>3, <1>4, <1>5, ReadsPastZeros
<1> QED
  BY <1>6 DEF b, zeros, Joined, H

\* The halves of a payload are the same numbers for the circuit and the contract, and
\* field elements; and payloads with the same halves are the same.
LEMMA PayloadsRead ==
  ASSUME NEW h, AreBits(h, WordBits)
  PROVE  /\ split_payload(h) = PayloadHalves(h)
         /\ PayloadHalves(h).hi \in Field /\ PayloadHalves(h).lo \in Field
<1> DEFINE hi == SubSeq(h, 1, HalfBits)
           lo == SubSeq(h, HalfBits + 1, WordBits)
<1>1. AreBits(hi, HalfBits) /\ AreBits(lo, HalfBits)
  BY HalvesOfBits
<1>2. FromBits(hi) \in 0 .. Two[HalfBits] - 1 /\ FromBits(lo) \in 0 .. Two[HalfBits] - 1
  BY <1>1, Halves, ReadsAreBounded
<1>3. Two[HalfBits] \in Nat /\ Order \in Nat /\ Two[HalfBits] <= Order
  BY Halves, TwosArePositive, EncodingAssumption
<1>4. FromBits(hi) \in Field /\ FromBits(lo) \in Field
  BY <1>2, <1>3 DEF Field
<1>5. /\ FromBits([i \in 1 .. HalfBits |-> 0] \o hi) = FromBits(hi)
      /\ FromBits([i \in 1 .. HalfBits |-> 0] \o lo) = FromBits(lo)
  BY <1>1, Padded
<1> QED
  BY <1>4, <1>5 DEF split_payload, PayloadHalves

LEMMA HalvesTellApart ==
  ASSUME NEW g, AreBits(g, WordBits), NEW h, AreBits(h, WordBits),
         PayloadHalves(g).hi = PayloadHalves(h).hi, PayloadHalves(g).lo = PayloadHalves(h).lo
  PROVE  g = h
<1> DEFINE H == HalfBits
           ghi == SubSeq(g, 1, H)
           glo == SubSeq(g, H + 1, WordBits)
           hhi == SubSeq(h, 1, H)
           hlo == SubSeq(h, H + 1, WordBits)
<1>1. /\ AreBits(ghi, H) /\ \A i \in 1 .. H : ghi[i] = g[i]
      /\ AreBits(glo, H) /\ \A i \in 1 .. H : glo[i] = g[H + i]
  BY HalvesOfBits
<1>2. /\ AreBits(hhi, H) /\ \A i \in 1 .. H : hhi[i] = h[i]
      /\ AreBits(hlo, H) /\ \A i \in 1 .. H : hlo[i] = h[H + i]
  BY HalvesOfBits
<1>3. FromBits(ghi) = FromBits(hhi) /\ FromBits(glo) = FromBits(hlo)
  BY DEF PayloadHalves
<1> HIDE DEF ghi, glo, hhi, hlo
<1>4. ghi = hhi /\ glo = hlo
  BY <1>1, <1>2, <1>3, Halves, ReadsTellApart
<1>5. \A i \in 1 .. WordBits : i \in 1 .. H \/ (i - H \in 1 .. H /\ H + (i - H) = i)
  BY Halves
<1>6. \A i \in 1 .. WordBits : g[i] = h[i]
  BY <1>1, <1>2, <1>4, <1>5
<1> QED
  BY <1>6, Halves, SameBits

\* Addresses are field elements, and told apart by what is below the top byte.
LEMMA AddressBits ==
  ASSUME NEW h, AreBits(h, WordBits)
  PROVE  LET s == SubSeq(h, TopBits + 1, WordBits)
         IN  /\ AreBits(s, WordBits - TopBits)
             /\ AddrToField(h) = FromBits(s) /\ AddrToField(h) \in Field
<1> DEFINE K == TopBits
           s == SubSeq(h, K + 1, WordBits)
           b == [i \in 1 .. WordBits |-> IF i <= K THEN 0 ELSE h[i]]
<1>1. /\ WordBits \in Nat /\ K \in 0 .. WordBits /\ WordBits - K \in 0 .. WordBits - K
      /\ WordBits - K \in 0 .. WordBits /\ K + (WordBits - K) = WordBits /\ WordBits - K \in Nat
  BY EncodingAssumption
<1>2. AreBits(s, WordBits - K) /\ \A i \in 1 .. WordBits - K : s[i] = h[K + i]
  <2>1. /\ AreBits(SubSeq(h, K + 1, K + (WordBits - K)), WordBits - K)
        /\ \A i \in 1 .. WordBits - K : SubSeq(h, K + 1, K + (WordBits - K))[i] = h[K + i]
    BY <1>1, Part
  <2> QED
    BY <1>1, <2>1
<1>3. AreBits(b, WordBits) /\ \A i \in 1 .. WordBits : b[i] = IF i <= K THEN 0 ELSE h[i]
  BY DEF AreBits
<1>4. AddrToField(h) = FromBits(b)
  BY DEF AddrToField
<1> HIDE DEF b, s
<1>5. \A i \in 1 .. K : i \in 1 .. WordBits /\ i <= K
  BY <1>1
<1>6. \A i \in 1 .. WordBits - K : K + i \in 1 .. WordBits /\ ~(K + i <= K)
  BY <1>1
<1>7. (\A i \in 1 .. K : b[i] = 0) /\ \A i \in 1 .. WordBits - K : b[K + i] = s[i]
  BY <1>2, <1>3, <1>5, <1>6
<1>8. FromBits(b) = FromBits(s)
  BY <1>1, <1>2, <1>3, <1>7, ReadsPastZeros
<1>9. FromBits(s) \in 0 .. Two[WordBits - K] - 1
  BY <1>1, <1>2, ReadsAreBounded
<1>10. Two[WordBits - K] \in Nat /\ Order \in Nat /\ Two[WordBits - K] <= Order
  BY <1>1, TwosArePositive, EncodingAssumption
<1>11. FromBits(s) \in Field
  BY <1>9, <1>10 DEF Field
<1> QED
  BY <1>2, <1>4, <1>8, <1>11 DEF s

LEMMA AddressesTellApart ==
  ASSUME NEW g, AreBits(g, WordBits), NEW h, AreBits(h, WordBits)
  PROVE  AddrToField(g) = AddrToField(h)
           <=> SubSeq(g, TopBits + 1, WordBits) = SubSeq(h, TopBits + 1, WordBits)
<1> DEFINE gs == SubSeq(g, TopBits + 1, WordBits)
           hs == SubSeq(h, TopBits + 1, WordBits)
<1>1. AreBits(gs, WordBits - TopBits) /\ AddrToField(g) = FromBits(gs)
  BY AddressBits
<1>2. AreBits(hs, WordBits - TopBits) /\ AddrToField(h) = FromBits(hs)
  BY AddressBits
<1>3. WordBits - TopBits \in Nat
  BY EncodingAssumption
<1> HIDE DEF gs, hs
<1>4. FromBits(gs) = FromBits(hs) => gs = hs
  BY <1>1, <1>2, <1>3, ReadsTellApart
<1>5. AddrToField(g) = AddrToField(h) <=> gs = hs
  BY <1>1, <1>2, <1>4
<1> QED
  BY <1>5 DEF gs, hs

-----------------------------------------------------------------------------
(* The circuits.                                                           *)

\* A comparison modulo the order is one of numbers, for numbers in range.
LEMMA ComparesNumbers ==
  ASSUME NEW a \in Field, NEW b \in Field,
         Num2Bits(AmountBits, a), Num2Bits(AmountBits, b)
  PROVE  LessEqThan(AmountBits, a, b) <=> a <= b
  <1> DEFINE P == Two[AmountBits]
             d == a + P - (b + 1)
  <1>1. P \in Int
    BY FieldFacts
  <1>2. P > 0 /\ 4 * P < Order /\ Order \in Nat
    BY FieldFacts
  <1>3. a \in Nat /\ b \in Nat /\ a < P /\ b < P
    BY <1>2 DEF Field, Num2Bits
  <1>4. LessEqThan(AmountBits, a, b) <=> d % Order < P
    BY DEF LessEqThan
  <1> HIDE DEF P
  <1>5. d \in 0 .. Order - 1
    BY <1>1, <1>2, <1>3
  <1>6. d % Order = d
    <2> HIDE DEF d
    <2> QED BY <1>5, <1>2
  <1> QED BY <1>1, <1>2, <1>3, <1>4, <1>6

LEMMA CircuitsCompare ==
  ASSUME NEW a \in Field, NEW b \in Field
  PROVE  /\ AmountInCap(a, b) <=> a <= b /\ b < Two[AmountBits]
         /\ CapDisclosure(a, b) <=> a <= b /\ b < Two[AmountBits]
  <1>1. Two[AmountBits] \in Int /\ a \in Int /\ b \in Int
    BY FieldFacts
  <1>2. a <= b /\ b < Two[AmountBits] => a < Two[AmountBits]
    BY <1>1
  <1> QED BY <1>2, ComparesNumbers DEF AmountInCap, CapDisclosure, Num2Bits

\* The circuits have a witness for just the inputs that are in range and in order as
\* numbers, whatever the order of the field and the width of an amount in it.
THEOREM CircuitsAreExact == EncodingSpec => []CircuitIsExact
  <1>1. EncodingInit => CircuitIsExact
    BY DEF EncodingInit, NoWitness, CircuitIsExact
  <1>2. CircuitIsExact /\ [EncodingNext]_encodingVars => CircuitIsExact'
    <2> SUFFICES ASSUME CircuitIsExact, [EncodingNext]_encodingVars PROVE CircuitIsExact'
      OBVIOUS
    <2>1. ASSUME NEW x \in Field, NEW y \in Field, TryPayment(x, y) \/ TryDisclosure(x, y)
          PROVE  CircuitIsExact'
      BY <2>1, CircuitsCompare DEF TryPayment, TryDisclosure, CircuitIsExact
    <2>2. CASE circuit' = circuit
      BY <2>2 DEF CircuitIsExact
    <2>3. PaymentNext => circuit' = circuit
      BY DEF PaymentNext, Prove, Sign, Present, AskVerifier
    <2> QED BY <2>1, <2>2, <2>3 DEF EncodingNext, CircuitNext, encodingVars
  <1> QED BY <1>1, <1>2, PTL DEF EncodingSpec

-----------------------------------------------------------------------------
(* Verdicts.                                                               *)

SignalsOf(t, p) ==
  <<t.amount % Order, AddrToField(t.to), p.commitment, p.root,
    PayloadHalves(t.payload).hi, PayloadHalves(t.payload).lo>>

ClaimOf(t, p) ==
  [payload |-> t.payload, to |-> t.to, amount |-> t.amount, policy |-> p,
   signals |-> SignalsOf(t, p)]

AccountOf(p) ==
  [vk |-> VkScVal(Setup, "c1c0"), commitment |-> U256ScVal(p.commitment),
   root |-> U256ScVal(p.root)]

SentFor(alter, signals) ==
  LET pub == CASE alter.how = "short" -> SubSeq(signals, 1, N - 1)
               [] alter.how = "alias" -> [signals EXCEPT ![alter.at] = @ + Order]
               [] OTHER -> signals
      order == IF alter.how = "c0c1" THEN "c0c1" ELSE "c1c0"
  IN  ProofSigScVal(Altered(alter), pub, order)

LEMMA TransferFacts ==
  ASSUME NEW t \in Transfers, NEW p \in Policies
  PROVE  /\ AreBits(t.payload, WordBits) /\ AreBits(t.to, WordBits)
         /\ t.amount \in Int /\ Two[AmountBits] - Order <= t.amount /\ t.amount < Order
         /\ p.commitment \in Field /\ p.root \in Field /\ p.cap \in Field
<1>1. t.payload \in Payloads /\ t.to \in Recipients /\ t.amount \in Amounts
  BY DEF Transfers
<1>2. AreBits(t.payload, WordBits) /\ AreBits(t.to, WordBits)
  BY <1>1, EncodingAssumption DEF AreBits
<1>3. t.amount \in Int /\ Two[AmountBits] - Order <= t.amount /\ t.amount < Order
  BY <1>1, EncodingAssumption
<1>4. p.commitment \in Field /\ p.root \in Field /\ p.cap \in Field
  BY EncodingAssumption DEF Field
<1> QED
  BY <1>2, <1>3, <1>4

LEMMA ModuloOrder ==
  ASSUME NEW x \in Int, Two[AmountBits] - Order <= x, x < Order
  PROVE  /\ x % Order \in Field
         /\ x >= 0 => x % Order = x
         /\ x < 0 => x % Order >= Two[AmountBits]
<1>1. Order \in Nat \ {0} /\ Two[AmountBits] \in Nat
  BY FieldFacts
<1>2. CASE x >= 0
  BY <1>1, <1>2 DEF Field
<1>3. CASE x < 0
  <2>1. x + Order \in 0 .. Order - 1 /\ x = (-1) * Order + (x + Order)
    BY <1>1, <1>3
  <2>2. x % Order = x + Order
    BY <1>1, <2>1
  <2> QED
    BY <1>1, <1>3, <2>1, <2>2 DEF Field
<1> QED
  BY <1>2, <1>3

LEMMA SignalFacts ==
  ASSUME NEW t \in Transfers, NEW p \in Policies
  PROVE  LET s == SignalsOf(t, p)
         IN  /\ s \in [1 .. N -> Field] /\ Len(s) = N
             /\ s[1] = t.amount % Order /\ s[2] = AddrToField(t.to)
             /\ s[3] = p.commitment /\ s[4] = p.root
             /\ s[5] = PayloadHalves(t.payload).hi /\ s[6] = PayloadHalves(t.payload).lo
<1> DEFINE x1 == t.amount % Order
           x2 == AddrToField(t.to)
           x3 == p.commitment
           x4 == p.root
           x5 == PayloadHalves(t.payload).hi
           x6 == PayloadHalves(t.payload).lo
           s == <<x1, x2, x3, x4, x5, x6>>
<1>1. x1 \in Field /\ x2 \in Field /\ x3 \in Field /\ x4 \in Field /\ x5 \in Field /\ x6 \in Field
  BY TransferFacts, ModuloOrder, AddressBits, PayloadsRead
<1>2. SignalsOf(t, p) = s
  BY DEF SignalsOf
<1> HIDE DEF x1, x2, x3, x4, x5, x6
<1>3. s \in [1 .. N -> Field] /\ Len(s) = N
  BY <1>1 DEF N
<1> QED
  BY <1>2, <1>3 DEF x1, x2, x3, x4, x5, x6

\* What is paired, of n words.
Scalars(pub, n) == [i \in 1 .. n |-> U256(pub[i]) % Order]

\* The pairing, with the key of an account.
LEMMA PairingRead ==
  ASSUME NEW proof, NEW n \in Nat, NEW pub, DOMAIN pub = 1 .. n
  PROVE  VerifyProof(VkScVal(Setup, "c1c0"), proof, pub) <=>
           /\ n = N
           /\ G1Point(proof.a) = Points.a /\ G2Point(proof.b) = Points.b
           /\ G1Point(proof.c) = Points.c
           /\ Scalars(pub, n) = claim.signals
<1> DEFINE vk == VkScVal(Setup, "c1c0")
           scalars == Scalars(pub, n)
<1>1. /\ vk.alpha = G1Bytes(Setup.alpha) /\ vk.beta = G2Bytes(Setup.beta, "c1c0")
      /\ vk.gamma = G2Bytes(Setup.gamma, "c1c0") /\ vk.delta = G2Bytes(Setup.delta, "c1c0")
      /\ vk.ic = [i \in DOMAIN Setup.ic |-> G1Bytes(Setup.ic[i])]
  BY DEF VkScVal
<1>2. /\ IsG1(Setup.alpha) /\ IsG2(Setup.beta) /\ IsG2(Setup.gamma) /\ IsG2(Setup.delta)
      /\ DOMAIN Setup.ic = 1 .. N + 1 /\ \A i \in 1 .. N + 1 : IsG1(Setup.ic[i])
  BY EncodingAssumption
<1>3. /\ G1Point(vk.alpha) = Setup.alpha /\ G2Point(vk.beta) = Setup.beta
      /\ G2Point(vk.gamma) = Setup.gamma /\ G2Point(vk.delta) = Setup.delta
  BY <1>1, <1>2, G1Read, G2Read
<1>4. DOMAIN vk.ic = 1 .. N + 1 /\ \A i \in 1 .. N + 1 : G1Point(vk.ic[i]) = Setup.ic[i]
  <2>1. DOMAIN vk.ic = 1 .. N + 1 /\ \A i \in 1 .. N + 1 : vk.ic[i] = G1Bytes(Setup.ic[i])
    BY <1>1, <1>2
  <2> QED
    BY <1>2, <2>1, G1Read
<1>5. Len(vk.ic) = N + 1 /\ Len(pub) = n
  <2>1. N + 1 \in Nat
    BY DEF N
  <2> QED
    BY <1>4, <2>1, LenOfRow
<1> HIDE DEF vk
<1>6. VerifyProof(vk, proof, pub) <=> n + 1 = N + 1 /\ PairingCheck(vk, proof, scalars)
  BY <1>5 DEF VerifyProof, Scalars
<1> HIDE DEF scalars
<1>7. PairingCheck(vk, proof, scalars) <=>
        /\ G1Point(proof.a) = Points.a /\ G2Point(proof.b) = Points.b
        /\ G1Point(proof.c) = Points.c /\ scalars = claim.signals
  BY <1>3, <1>4 DEF PairingCheck
<1>8. n + 1 = N + 1 <=> n = N
  BY DEF N
<1> QED
  BY <1>6, <1>7, <1>8 DEF vk, scalars

\* What an account of a policy accepts.
LEMMA GatesRead ==
  ASSUME NEW q \in Policies, account = AccountOf(q), NEW with \in Transfers, NEW s,
         NEW n \in Nat, DOMAIN s.pub_signals = 1 .. n
  PROVE  Accepts(s, with) <=>
           /\ n = N
           /\ Signal(s, 1) = with.amount /\ with.amount > 0 /\ with.amount < Two[AmountBits]
           /\ Signal(s, 2) = AddrToField(with.to)
           /\ Signal(s, 3) = q.commitment /\ Signal(s, 4) = q.root
           /\ Signal(s, 5) = PayloadHalves(with.payload).hi
           /\ Signal(s, 6) = PayloadHalves(with.payload).lo
           /\ G1Point(s.proof.a) = Points.a /\ G2Point(s.proof.b) = Points.b
           /\ G1Point(s.proof.c) = Points.c
           /\ Scalars(s.pub_signals, n) = claim.signals
<1>1. /\ account.vk = VkScVal(Setup, "c1c0")
      /\ account.commitment = U256ScVal(q.commitment) /\ account.root = U256ScVal(q.root)
  BY DEF AccountOf
<1>2. U256(account.commitment) = q.commitment /\ U256(account.root) = q.root
  <2>1. q.commitment \in Word /\ q.root \in Word
    BY TransferFacts, FieldFacts
  <2> QED
    BY <1>1, <2>1, WordsRead
<1>3. split_payload(with.payload) = PayloadHalves(with.payload)
  BY TransferFacts, PayloadsRead
<1>4. addr_to_field(with.to) = AddrToField(with.to)
  BY DEF addr_to_field, AddrToField
<1>5. Len(s.pub_signals) = n
  BY LenOfRow
<1> DEFINE V == VerifyProof(account.vk, s.proof, s.pub_signals)
           scalars == Scalars(s.pub_signals, n)
<1>6. V <=> /\ n = N
            /\ G1Point(s.proof.a) = Points.a /\ G2Point(s.proof.b) = Points.b
            /\ G1Point(s.proof.c) = Points.c /\ scalars = claim.signals
  <2> DEFINE proof == s.proof
             pub == s.pub_signals
  <2>1. DOMAIN pub = 1 .. n /\ account.vk = VkScVal(Setup, "c1c0")
    BY <1>1
  <2> HIDE DEF proof, pub
  <2>2. VerifyProof(VkScVal(Setup, "c1c0"), proof, pub) <=>
          /\ n = N
          /\ G1Point(proof.a) = Points.a /\ G2Point(proof.b) = Points.b
          /\ G1Point(proof.c) = Points.c /\ Scalars(pub, n) = claim.signals
    BY <2>1, PairingRead
  <2> QED
    BY <2>1, <2>2 DEF proof, pub
<1>7. Accepts(s, with) <=>
        /\ Len(s.pub_signals) = N
        /\ Signal(s, 3) = U256(account.commitment) /\ Signal(s, 4) = U256(account.root)
        /\ Signal(s, 5) = split_payload(with.payload).hi
        /\ Signal(s, 6) = split_payload(with.payload).lo
        /\ with.amount > 0 /\ with.amount < Two[AmountBits]
        /\ with.amount = Signal(s, 1)
        /\ addr_to_field(with.to) = Signal(s, 2)
        /\ V
  BY DEF Accepts
<1> HIDE DEF V, scalars
<1>8. Accepts(s, with) <=>
           /\ n = N
           /\ Signal(s, 1) = with.amount /\ with.amount > 0 /\ with.amount < Two[AmountBits]
           /\ Signal(s, 2) = AddrToField(with.to)
           /\ Signal(s, 3) = q.commitment /\ Signal(s, 4) = q.root
           /\ Signal(s, 5) = PayloadHalves(with.payload).hi
           /\ Signal(s, 6) = PayloadHalves(with.payload).lo
           /\ G1Point(s.proof.a) = Points.a /\ G2Point(s.proof.b) = Points.b
           /\ G1Point(s.proof.c) = Points.c
           /\ scalars = claim.signals
  BY <1>2, <1>3, <1>4, <1>5, <1>6, <1>7
<1> QED
  BY <1>8 DEF scalars

\* Altered points are read as others.
LEMMA PointsRead ==
  ASSUME NEW alter \in Alterations, NEW signals
  PROVE  LET proof == SentFor(alter, signals).proof
             same == /\ G1Point(proof.a) = Points.a /\ G2Point(proof.b) = Points.b
                     /\ G1Point(proof.c) = Points.c
         IN  same <=> alter.how \notin {"bitflip", "swap_ac", "c0c1"}
<1> DEFINE order == IF alter.how = "c0c1" THEN "c0c1" ELSE "c1c0"
           points == Altered(alter)
           proof == SentFor(alter, signals).proof
<1>1. proof = [a |-> G1Bytes(points.a), b |-> G2Bytes(points.b, order), c |-> G1Bytes(points.c)]
  BY DEF SentFor, ProofSigScVal, ProofScVal
<1>2. /\ IsG1(Points.a) /\ IsG2(Points.b) /\ IsG1(Points.c)
      /\ Points.a # Points.c /\ Points.b[1][1] # Points.b[1][2]
      /\ Points = [a |-> Points.a, b |-> Points.b, c |-> Points.c]
  BY EncodingAssumption
<1> HIDE DEF proof, points
<1>3. proof.a = G1Bytes(points.a) /\ proof.b = G2Bytes(points.b, order) /\ proof.c = G1Bytes(points.c)
  BY <1>1
<1>4. CASE alter.how = "bitflip"
  <2> DEFINE x == Points.a[1]
             y == IF x % 2 = 0 THEN x + 1 ELSE x - 1
  <2>1. x \in Word
    BY <1>2 DEF IsG1
  <2>2. y \in Word /\ y # x
    <3>1. WordBits \in 1 .. WordBits /\ WordBits - 1 \in 0 .. WordBits
      BY Widths
    <3>2. Two[WordBits] = 2 * Two[WordBits - 1] /\ Two[WordBits - 1] \in Nat
      BY <3>1, TwoSteps, TwosArePositive
    <3> HIDE DEF x
    <3> QED
      BY <2>1, <3>2 DEF Word
  <2>3. points.a = [Points.a EXCEPT ![1] = y]
    BY <1>2, <1>4 DEF points, Altered
  <2> HIDE DEF y
  <2>4. IsG1(points.a) /\ points.a[1] = y
    BY <1>2, <2>2, <2>3 DEF IsG1
  <2>5. G1Point(proof.a) # Points.a
    BY <1>3, <2>2, <2>4, G1Read
  <2> QED
    BY <1>4, <2>5 DEF proof
<1>5. CASE alter.how = "swap_ac"
  <2>1. points.a = Points.c
    BY <1>2, <1>5 DEF points, Altered
  <2>2. G1Point(proof.a) # Points.a
    BY <1>2, <1>3, <2>1, G1Read
  <2> QED
    BY <1>5, <2>2 DEF proof
<1>6. CASE alter.how \notin {"bitflip", "swap_ac"}
  <2>1. points = Points
    BY <1>6 DEF points, Altered
  <2>2. G1Point(proof.a) = Points.a /\ G1Point(proof.c) = Points.c
    BY <1>2, <1>3, <2>1, G1Read
  <2>3. CASE alter.how = "c0c1"
    <3>1. G2Point(proof.b) = << <<Points.b[1][2], Points.b[1][1]>>, <<Points.b[2][2], Points.b[2][1]>> >>
      BY <1>2, <1>3, <2>1, <2>3, G2Read
    <3>2. G2Point(proof.b) # Points.b
      BY <1>2, <3>1
    <3> QED
      BY <2>3, <3>2 DEF proof
  <2>4. CASE alter.how # "c0c1"
    <3>1. G2Point(proof.b) = Points.b
      BY <1>2, <1>3, <2>1, <2>4, G2Read
    <3> QED
      BY <1>6, <2>2, <2>4, <3>1 DEF proof
  <2> QED
    BY <2>3, <2>4
<1> QED
  BY <1>4, <1>5, <1>6

\* The words of the signals that are sent.
LEMMA WordsSent ==
  ASSUME NEW alter \in Alterations, NEW signals \in [1 .. N -> Field], Len(signals) = N
  PROVE  LET s == SentFor(alter, signals)
         IN  IF alter.how = "short"
             THEN DOMAIN s.pub_signals = 1 .. N - 1
             ELSE /\ DOMAIN s.pub_signals = 1 .. N
                  /\ \A i \in 1 .. N : Signal(s, i) \in Nat
                  /\ alter.how # "alias" => \A i \in 1 .. N : Signal(s, i) = signals[i]
                  /\ alter.how = "alias" => \E i \in 1 .. N : Signal(s, i) # signals[i]
<1> DEFINE s == SentFor(alter, signals)
           pub == CASE alter.how = "short" -> SubSeq(signals, 1, N - 1)
                    [] alter.how = "alias" -> [signals EXCEPT ![alter.at] = @ + Order]
                    [] OTHER -> signals
<1>1. s.pub_signals = [i \in DOMAIN pub |-> U256ScVal(pub[i])]
  BY DEF SentFor, ProofSigScVal, PubVecScVal
<1> HIDE DEF s
<1>2. CASE alter.how = "short"
  <2>1. pub = SubSeq(signals, 1, N - 1)
    BY <1>2
  <2>2. DOMAIN SubSeq(signals, 1, N - 1) = 1 .. N - 1
    BY DEF N
  <2> HIDE DEF pub
  <2>3. DOMAIN pub = 1 .. N - 1
    BY <2>1, <2>2
  <2> QED
    BY <1>1, <1>2, <2>3 DEF s
<1>3. CASE alter.how = "alias"
  <2>1. alter.at \in 1 .. N
    BY <1>3 DEF Alterations
  <2>2. pub = [signals EXCEPT ![alter.at] = @ + Order]
    BY <1>3
  <2> HIDE DEF pub
  <2>3. /\ DOMAIN pub = 1 .. N /\ pub[alter.at] = signals[alter.at] + Order
        /\ \A i \in 1 .. N : i # alter.at => pub[i] = signals[i]
    BY <2>1, <2>2
  <2>4. DOMAIN s.pub_signals = 1 .. N /\ \A i \in 1 .. N : Signal(s, i) = U256(U256ScVal(pub[i]))
    BY <1>1, <2>3 DEF Signal
  <2>5. \A i \in 1 .. N : signals[i] \in Field
    OBVIOUS
  <2>6. Signal(s, alter.at) # signals[alter.at] /\ Signal(s, alter.at) \in Nat
    <3>1. Signal(s, alter.at) = U256(U256ScVal(signals[alter.at] + Order))
      BY <2>1, <2>3, <2>4
    <3> QED
      BY <2>1, <2>5, <3>1, WordsRead
  <2>7. ASSUME NEW i \in 1 .. N, i # alter.at PROVE Signal(s, i) \in Nat
    <3>1. Signal(s, i) = U256(U256ScVal(signals[i]))
      BY <2>3, <2>4, <2>7
    <3>2. signals[i] \in Word /\ signals[i] \in Nat
      BY <2>5, FieldFacts
    <3> QED
      BY <3>1, <3>2, WordsRead
  <2> QED
    BY <1>3, <2>1, <2>4, <2>6, <2>7 DEF s
<1>4. CASE alter.how \notin {"short", "alias"}
  <2>1. pub = signals
    BY <1>4
  <2> HIDE DEF pub
  <2>2. DOMAIN s.pub_signals = 1 .. N /\ \A i \in 1 .. N : Signal(s, i) = U256(U256ScVal(signals[i]))
    BY <1>1, <2>1 DEF Signal
  <2>3. \A i \in 1 .. N : signals[i] \in Word /\ signals[i] \in Nat
    BY FieldFacts
  <2>4. \A i \in 1 .. N : Signal(s, i) = signals[i] /\ Signal(s, i) \in Nat
    BY <2>2, <2>3, WordsRead
  <2> QED
    BY <1>4, <2>2, <2>4 DEF s
<1> QED
  BY <1>2, <1>3, <1>4

\* What the account says of a payment, and of the transfer there is.
PaidExactly(how, t, p, q, with) ==
  /\ how = "none"
  /\ with.payload = t.payload
  /\ SubSeq(with.to, TopBits + 1, WordBits) = SubSeq(t.to, TopBits + 1, WordBits)
  /\ with.amount = t.amount /\ t.amount > 0
  /\ q.commitment = p.commitment /\ q.root = p.root

\* An altered proof fails at a gate that compares words (alias), at the count of
\* signals (short) or in the pairing (points); an unaltered one at the gate of
\* whatever differs from its claim.
LEMMA Verdict ==
  ASSUME NEW t \in Transfers, NEW p \in Policies, AmountInCap(t.amount % Order, p.cap),
         claim = ClaimOf(t, p), NEW q \in Policies, account = AccountOf(q),
         NEW alter \in Alterations, NEW with \in Transfers
  PROVE  Accepts(SentFor(alter, claim.signals), with) <=> PaidExactly(alter.how, t, p, q, with)
<1> DEFINE signals == SignalsOf(t, p)
           s == SentFor(alter, signals)
<1>1. claim.signals = signals
  BY DEF ClaimOf
<1>2. /\ signals \in [1 .. N -> Field] /\ Len(signals) = N
      /\ signals[1] = t.amount % Order /\ signals[2] = AddrToField(t.to)
      /\ signals[3] = p.commitment /\ signals[4] = p.root
      /\ signals[5] = PayloadHalves(t.payload).hi /\ signals[6] = PayloadHalves(t.payload).lo
  BY SignalFacts
<1> HIDE DEF signals
<1>3. IF alter.how = "short"
      THEN DOMAIN s.pub_signals = 1 .. N - 1
      ELSE /\ DOMAIN s.pub_signals = 1 .. N
           /\ \A i \in 1 .. N : Signal(s, i) \in Nat
           /\ alter.how # "alias" => \A i \in 1 .. N : Signal(s, i) = signals[i]
           /\ alter.how = "alias" => \E i \in 1 .. N : Signal(s, i) # signals[i]
  BY <1>2, WordsSent
<1>4. LET same == /\ G1Point(s.proof.a) = Points.a /\ G2Point(s.proof.b) = Points.b
                  /\ G1Point(s.proof.c) = Points.c
      IN  same <=> alter.how \notin {"bitflip", "swap_ac", "c0c1"}
  BY PointsRead
<1> HIDE DEF s
<1>5. /\ \A i \in 1 .. N : signals[i] \in Field
      /\ with.amount > 0 /\ with.amount < Two[AmountBits] => with.amount \in Field
      /\ AddrToField(with.to) \in Field /\ q.commitment \in Field /\ q.root \in Field
      /\ PayloadHalves(with.payload).hi \in Field /\ PayloadHalves(with.payload).lo \in Field
  <2>1. with.amount \in Int
    BY TransferFacts
  <2>2. with.amount > 0 /\ with.amount < Two[AmountBits] => with.amount \in Field
    BY <2>1, FieldFacts DEF Field
  <2> QED
    BY <1>2, <2>2, TransferFacts, AddressBits, PayloadsRead
<1>6. CASE alter.how = "short"
  <2>1. DOMAIN s.pub_signals = 1 .. 5 /\ 5 \in Nat /\ 5 # N
    BY <1>3, <1>6 DEF N
  <2>2. ~Accepts(s, with)
    BY <2>1, GatesRead
  <2> QED
    BY <1>1, <1>6, <2>2 DEF s, PaidExactly
<1>7. CASE alter.how # "short"
  <2> DEFINE same == /\ G1Point(s.proof.a) = Points.a /\ G2Point(s.proof.b) = Points.b
                     /\ G1Point(s.proof.c) = Points.c
             gates == /\ Signal(s, 1) = with.amount /\ with.amount > 0 /\ with.amount < Two[AmountBits]
                      /\ Signal(s, 2) = AddrToField(with.to)
                      /\ Signal(s, 3) = q.commitment /\ Signal(s, 4) = q.root
                      /\ Signal(s, 5) = PayloadHalves(with.payload).hi
                      /\ Signal(s, 6) = PayloadHalves(with.payload).lo
  <2>1. N \in Nat /\ DOMAIN s.pub_signals = 1 .. N /\ \A i \in 1 .. N : Signal(s, i) \in Nat
    BY <1>3, <1>7 DEF N
  <2>2. Accepts(s, with) <=> gates /\ same /\ Scalars(s.pub_signals, N) = signals
    BY <1>1, <2>1, GatesRead
  <2>3. \A i \in 1 .. N : Scalars(s.pub_signals, N)[i] = Signal(s, i) % Order
    BY DEF Scalars, Signal
  <2>4. CASE alter.how \in {"bitflip", "swap_ac", "c0c1"}
    <3>1. ~same
      BY <1>4, <2>4
    <3> QED
      BY <1>1, <2>2, <2>4, <3>1 DEF s, PaidExactly
  <2>5. CASE alter.how = "alias"
    <3>1. PICK i \in 1 .. N : Signal(s, i) # signals[i]
      BY <1>3, <2>5
    <3>2. ASSUME gates PROVE Signal(s, i) \in Field
      <4>1. i \in {1, 2, 3, 4, 5, 6}
        BY DEF N
      <4> QED
        BY <1>5, <3>2, <4>1
    <3>3. ASSUME gates PROVE Signal(s, i) % Order = Signal(s, i)
      BY <3>2, <3>3, FieldFacts
    <3>4. ~Accepts(s, with)
      BY <2>2, <2>3, <3>1, <3>3
    <3> QED
      BY <1>1, <2>5, <3>4 DEF s, PaidExactly
  <2>6. CASE alter.how = "none"
    <3>1. \A i \in 1 .. N : Signal(s, i) = signals[i]
      BY <1>3, <2>6
    <3>2. Scalars(s.pub_signals, N) = signals
      <4>1. \A i \in 1 .. N : signals[i] % Order = signals[i]
        BY <1>5, FieldFacts
      <4>2. Scalars(s.pub_signals, N) = [i \in 1 .. N |-> Signal(s, i) % Order]
        BY DEF Scalars, Signal
      <4> QED
        BY <1>2, <3>1, <4>1, <4>2
    <3>3. same
      BY <1>4, <2>6
    <3>4. /\ Signal(s, 1) = t.amount % Order /\ Signal(s, 2) = AddrToField(t.to)
          /\ Signal(s, 3) = p.commitment /\ Signal(s, 4) = p.root
          /\ Signal(s, 5) = PayloadHalves(t.payload).hi
          /\ Signal(s, 6) = PayloadHalves(t.payload).lo
      BY <1>2, <3>1 DEF N
    <3>5. /\ Signal(s, 5) = PayloadHalves(with.payload).hi
          /\ Signal(s, 6) = PayloadHalves(with.payload).lo
          <=> with.payload = t.payload
      BY <3>4, TransferFacts, HalvesTellApart
    <3>6. Signal(s, 2) = AddrToField(with.to)
          <=> SubSeq(with.to, TopBits + 1, WordBits) = SubSeq(t.to, TopBits + 1, WordBits)
      BY <3>4, TransferFacts, AddressesTellApart
    <3>7. Signal(s, 1) = with.amount /\ with.amount > 0 /\ with.amount < Two[AmountBits]
          <=> with.amount = t.amount /\ t.amount > 0
      <4>1. /\ t.amount \in Int /\ Two[AmountBits] - Order <= t.amount /\ t.amount < Order
            /\ with.amount \in Int
        BY TransferFacts
      <4>2. t.amount % Order < Two[AmountBits]
        BY DEF AmountInCap, Num2Bits
      <4>3. /\ t.amount >= 0 => t.amount % Order = t.amount
            /\ t.amount < 0 => t.amount % Order >= Two[AmountBits]
            /\ t.amount % Order \in Field
        BY <4>1, ModuloOrder
      <4> QED
        BY <3>4, <4>1, <4>2, <4>3, FieldFacts
    <3>8. (q.commitment = Signal(s, 3) /\ q.root = Signal(s, 4))
          <=> q.commitment = p.commitment /\ q.root = p.root
      BY <3>4
    <3>9. gates <=> PaidExactly("none", t, p, q, with)
      BY <3>5, <3>6, <3>7, <3>8 DEF PaidExactly
    <3> QED
      BY <1>1, <2>2, <2>6, <3>2, <3>3, <3>9 DEF s
  <2> QED
    BY <1>7, <2>4, <2>5, <2>6 DEF Alterations
<1> QED
  BY <1>6, <1>7

\* The account is one of a policy; claims are of payments within a cap; and what is
\* signed is a claim's, unaltered or altered.
EncodingInv ==
  /\ \E q \in Policies : account = AccountOf(q)
  /\ claim = NoClaim \/ \E t \in Transfers, p \in Policies :
       AmountInCap(t.amount % Order, p.cap) /\ claim = ClaimOf(t, p)
  /\ sig = NoSig \/
       /\ claim # NoClaim
       /\ \E alter \in Alterations :
            sig = [alter |-> alter.how, sent |-> SentFor(alter, claim.signals)]
  /\ answer.of = "account" => sig # NoSig
  /\ answer # NoAnswer => claim # NoClaim

\* What was presented was signed for a claim, so the verdict is the lemma's.
LEMMA PresentAnswers ==
  ASSUME EncodingInv, NEW with \in Transfers, Present(with)
  PROVE  AcceptedExactly'
<1>1. PICK q \in Policies : account = AccountOf(q)
  BY DEF EncodingInv
<1>2. sig # NoSig
  BY DEF Present
<1>3. PICK alter \in Alterations :
        sig = [alter |-> alter.how, sent |-> SentFor(alter, claim.signals)]
  BY <1>2 DEF EncodingInv
<1>4. PICK t \in Transfers, p \in Policies :
        AmountInCap(t.amount % Order, p.cap) /\ claim = ClaimOf(t, p)
  BY <1>2 DEF EncodingInv
<1>5. /\ answer' = [of |-> "account", with |-> with, accepted |-> Accepts(sig.sent, with)]
      /\ UNCHANGED <<account, claim, sig>>
  BY DEF Present
<1>6. Accepts(sig.sent, with) <=> PaidExactly(alter.how, t, p, q, with)
  <2>1. Accepts(SentFor(alter, claim.signals), with) <=> PaidExactly(alter.how, t, p, q, with)
    BY <1>1, <1>4, Verdict
  <2> QED
    BY <1>3, <2>1
<1>7. /\ claim.payload = t.payload /\ claim.to = t.to /\ claim.amount = t.amount
      /\ claim.policy = p /\ sig.alter = alter.how
  BY <1>3, <1>4 DEF ClaimOf
<1>8. /\ account.commitment = U256ScVal(p.commitment) <=> q.commitment = p.commitment
      /\ account.root = U256ScVal(p.root) <=> q.root = p.root
  <2>1. account.commitment = U256ScVal(q.commitment) /\ account.root = U256ScVal(q.root)
    BY <1>1 DEF AccountOf
  <2>2. p.commitment \in Word /\ p.root \in Word /\ q.commitment \in Word /\ q.root \in Word
    BY TransferFacts, FieldFacts, <1>4
  <2> QED
    BY <2>1, <2>2, WordsRead
<1>9. answer'.of = "account" /\ answer'.with = with /\ answer'.accepted = Accepts(sig.sent, with)
  BY <1>5
<1> QED
  BY <1>5, <1>6, <1>7, <1>8, <1>9 DEF AcceptedExactly, PaidExactly

LEMMA VerifierAnswers ==
  ASSUME EncodingInv, NEW order \in {"c1c0", "c0c1"}, AskVerifier(order)
  PROVE  AcceptedExactly'
<1> DEFINE alter == [how |-> IF order = "c1c0" THEN "none" ELSE "c0c1"]
           proof == ProofScVal(Points, order)
           pub == PubVecScVal(claim.signals)
           s == SentFor(alter, claim.signals)
<1>1. PICK t \in Transfers, p \in Policies :
        AmountInCap(t.amount % Order, p.cap) /\ claim = ClaimOf(t, p)
  BY DEF AskVerifier, EncodingInv
<1>2. alter \in Alterations
  BY DEF Alterations
<1>3. s.proof = proof /\ s.pub_signals = pub
  BY DEF SentFor, ProofSigScVal, Altered
<1>4. claim.signals \in [1 .. N -> Field] /\ Len(claim.signals) = N
  BY <1>1, SignalFacts DEF ClaimOf
<1>5. DOMAIN pub = 1 .. N /\ Scalars(pub, N) = claim.signals
  <2>1. /\ DOMAIN s.pub_signals = 1 .. N
        /\ \A i \in 1 .. N : Signal(s, i) = claim.signals[i]
    <3> alter.how # "short" /\ alter.how # "alias"
      OBVIOUS
    <3> HIDE DEF alter
    <3> QED
      BY <1>2, <1>4, WordsSent
  <2>2. \A i \in 1 .. N : U256(pub[i]) = claim.signals[i] /\ claim.signals[i] % Order = claim.signals[i]
    BY <1>3, <1>4, <2>1, FieldFacts DEF Signal
  <2> HIDE DEF pub, s
  <2> QED
    BY <1>3, <1>4, <2>1, <2>2 DEF Scalars
<1>6. /\ G1Point(proof.a) = Points.a /\ G2Point(proof.b) = Points.b
      /\ G1Point(proof.c) = Points.c
      <=> order = "c1c0"
  <2>1. /\ G1Point(s.proof.a) = Points.a /\ G2Point(s.proof.b) = Points.b
        /\ G1Point(s.proof.c) = Points.c
        <=> alter.how \notin {"bitflip", "swap_ac", "c0c1"}
    <3> HIDE DEF alter
    <3> QED
      BY <1>2, PointsRead
  <2> QED
    BY <1>3, <2>1
<1>7. VerifyProof(VkScVal(Setup, order), proof, pub) <=> order = "c1c0"
  <2> HIDE DEF proof, pub
  <2>1. CASE order = "c1c0"
    <3>1. N \in Nat
      BY DEF N
    <3>2. VerifyProof(VkScVal(Setup, "c1c0"), proof, pub) <=>
            /\ G1Point(proof.a) = Points.a /\ G2Point(proof.b) = Points.b
            /\ G1Point(proof.c) = Points.c /\ Scalars(pub, N) = claim.signals
      BY <1>5, <3>1, PairingRead
    <3> QED
      BY <1>5, <1>6, <2>1, <3>2
  <2>2. CASE order # "c1c0"
    <3>1. VerifyProof(VkScVal(Setup, order), proof, pub) =>
            /\ G1Point(proof.a) = Points.a /\ G2Point(proof.b) = Points.b
            /\ G1Point(proof.c) = Points.c
      BY DEF VerifyProof, PairingCheck
    <3> QED
      BY <1>6, <2>2, <3>1
  <2> QED
    BY <2>1, <2>2
<1>8. /\ answer'.of = "verifier" /\ answer'.order = order
      /\ answer'.accepted = VerifyProof(VkScVal(Setup, order), proof, pub)
  BY DEF AskVerifier
<1> QED
  BY <1>7, <1>8 DEF AcceptedExactly

LEMMA EncodingStep ==
  EncodingInv /\ AcceptedExactly /\ [EncodingNext]_encodingVars => EncodingInv' /\ AcceptedExactly'
<1> SUFFICES ASSUME EncodingInv, AcceptedExactly, [EncodingNext]_encodingVars
             PROVE  EncodingInv' /\ AcceptedExactly'
  OBVIOUS
<1>1. CASE UNCHANGED <<account, claim, sig, answer>>
  BY <1>1 DEF EncodingInv, AcceptedExactly
<1>2. ASSUME NEW t \in Transfers, NEW p \in Policies, claim = NoClaim,
             Prove(t.payload, t.to, t.amount, p)
      PROVE  EncodingInv' /\ AcceptedExactly'
  <2>1. answer = NoAnswer /\ sig = NoSig /\ UNCHANGED <<account, sig, answer>>
    BY <1>2 DEF Prove, EncodingInv
  <2>2. claim' = ClaimOf(t, p) /\ AmountInCap(t.amount % Order, p.cap)
    BY <1>2 DEF Prove, ClaimOf, SignalsOf
  <2>3. EncodingInv'
    BY <2>1, <2>2 DEF EncodingInv, NoAnswer
  <2>4. AcceptedExactly'
    BY <2>1 DEF AcceptedExactly, NoAnswer
  <2> QED
    BY <2>3, <2>4
<1>3. ASSUME NEW alter \in Alterations, Sign(alter)
      PROVE  EncodingInv' /\ AcceptedExactly'
  <2>1. claim # NoClaim /\ sig = NoSig /\ UNCHANGED <<account, claim, answer>>
    BY <1>3 DEF Sign
  <2>2. sig' = [alter |-> alter.how, sent |-> SentFor(alter, claim.signals)]
    BY <1>3 DEF Sign, SentFor
  <2>3. answer.of # "account"
    BY <2>1 DEF EncodingInv
  <2>4. EncodingInv'
    BY <2>1, <2>2, <2>3 DEF EncodingInv
  <2>5. AcceptedExactly'
    BY <2>1, <2>3 DEF AcceptedExactly
  <2> QED
    BY <2>4, <2>5
<1>4. ASSUME NEW with \in Transfers, Present(with)
      PROVE  EncodingInv' /\ AcceptedExactly'
  <2>1. EncodingInv'
    BY <1>4 DEF Present, EncodingInv
  <2> QED
    BY <1>4, <2>1, PresentAnswers
<1>5. ASSUME NEW order \in {"c1c0", "c0c1"}, AskVerifier(order)
      PROVE  EncodingInv' /\ AcceptedExactly'
  <2>1. EncodingInv'
    BY <1>5 DEF AskVerifier, EncodingInv
  <2> QED
    BY <1>5, <2>1, VerifierAnswers
<1>6. CircuitNext => UNCHANGED <<account, claim, sig, answer>>
  BY DEF CircuitNext, TryPayment, TryDisclosure
<1> QED
  BY <1>1, <1>2, <1>3, <1>4, <1>5, <1>6 DEF EncodingNext, PaymentNext, encodingVars

\* The account accepts just the payment that was proved, for words of any width: bytes,
\* limbs, halves and addresses are read back as what was written; a signal raised by
\* the order is another number to the gates, though it is the same scalar to the
\* pairing; and points that are altered, swapped or in the other order are read as others.
THEOREM AcceptsExactly == EncodingSpec => []AcceptedExactly
<1>1. EncodingInit => EncodingInv /\ AcceptedExactly
  <2>1. VkCliHex(Setup, "c1c0") = VkScVal(Setup, "c1c0")
    BY DEF VkCliHex, VkScVal
  <2> QED
    BY <2>1 DEF EncodingInit, EncodingInv, AcceptedExactly, AccountOf, NoAnswer
<1> QED
  BY <1>1, EncodingStep, PTL DEF EncodingSpec
=============================================================================
