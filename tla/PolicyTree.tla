----------------------------- MODULE PolicyTree -----------------------------
(***************************************************************************)
(* The allowlist tree of a policy: the sparse tree that the browser builds *)
(* (poseidon.js), the full tree of the scripts (policy.mjs), and the path  *)
(* check of the circuit, with a hash that is injective.                    *)
(***************************************************************************)
EXTENDS Integers, Sequences, Functions

CONSTANT Depth   \* DEPTH: 16 in the program

ASSUME TreeAssumption == Depth \in Nat

\* How many nodes the level has that is h levels below the root: 1 << h.
Width[h \in 0 .. Depth] == IF h = 0 THEN 1 ELSE 2 * Width[h - 1]

Leaves == Width[Depth]

Zero == << >>

\* Poseidon of two inputs: distinct inputs give distinct values.
Hash(l, r) == <<l, r>>

zeroHashes[l \in 0 .. Depth] ==
  IF l = 0 THEN Zero ELSE Hash(zeroHashes[l - 1], zeroHashes[l - 1])

NextLevelDoubling(level, pad) ==           \* mutant: an odd last node is hashed with itself
  [i \in 1 .. ((Len(level) + 1) \div 2) |->
     Hash(level[2 * i - 1], IF 2 * i <= Len(level) THEN level[2 * i] ELSE level[2 * i - 1])]

\* The parents of the nodes of a level; pad stands for a node that is missing.
NextLevel(level, pad) ==
  [i \in 1 .. ((Len(level) + 1) \div 2) |->
     Hash(level[2 * i - 1], IF 2 * i <= Len(level) THEN level[2 * i] ELSE pad)]

\* levels[1] are the leaves, levels[Depth + 1] is the root alone.
LevelsOf(leaves) ==
  LET level[l \in 0 .. Depth] ==
        IF l = 0 THEN leaves ELSE NextLevel(level[l - 1], zeroHashes[l - 1])
  IN  level

\* The sibling of node i (from 0) of a level.
Sibling(i) == IF i % 2 = 0 THEN i + 1 ELSE i - 1

\* The nodes above leaf idx, by their numbers in each level.
Above(idx) ==
  LET i[l \in 0 .. Depth] == IF l = 0 THEN idx ELSE i[l - 1] \div 2
  IN  i

\* A step of a path, next to node i of a level: a sibling, or zero hash, and a bit.
PathStep(level, pad, i) ==
  [sib |-> IF Sibling(i) < Len(level) THEN level[Sibling(i) + 1] ELSE pad,
   bit |-> i % 2]

\* The path of leaf idx.
PathOf(levels, idx) ==
  [l \in 0 .. Depth - 1 |-> PathStep(levels[l], zeroHashes[l], Above(idx)[l])]

\* buildPolicy of poseidon.js: root and paths for the members' leaves.
BuildPolicy(fields) ==
  LET levels == LevelsOf(fields)
  IN  [root |-> levels[Depth][1],
       members |-> [i \in 1 .. Len(fields) |->
                      [destLeaf |-> fields[i], path |-> PathOf(levels, i - 1)]]]

\* computePolicy of policy.mjs: one member among leaves that are all different.
Filler(i) == <<1000 + i>>

ComputePolicy(destLeaf, destIndex) ==
  LET leaves == [i \in 1 .. Leaves |-> IF i = destIndex + 1 THEN destLeaf ELSE Filler(i - 1)]
      levels == LevelsOf(leaves)
  IN  [root |-> levels[Depth][1],
       members |-> <<[destLeaf |-> destLeaf, path |-> PathOf(levels, destIndex)]>>]

\* What a path makes of a leaf, level by level.
Lift(node, step) == IF step.bit = 0 THEN Hash(node, step.sib) ELSE Hash(step.sib, node)

Climb(leaf, path) ==
  LET h[l \in 0 .. Depth] == IF l = 0 THEN leaf ELSE Lift(h[l - 1], path[l - 1])
  IN  h

\* verifyMember, which is also the path check of the circuit.
VerifyMember(root, leaf, path) == Climb(leaf, path)[Depth] = root

\* The nodes by definition: the leaves, then level l over the one below it.
Bottom(leaves) == [i \in 0 .. Leaves - 1 |-> IF i < Len(leaves) THEN leaves[i + 1] ELSE Zero]

Pairs(below, l) ==
  [i \in 0 .. Width[Depth - l] - 1 |-> Hash(below[2 * i], below[2 * i + 1])]

FullLevels(leaves) ==
  LET node[l \in 0 .. Depth] == IF l = 0 THEN Bottom(leaves) ELSE Pairs(node[l - 1], l)
  IN  node

\* What a root is by definition.
FullRoot(leaves) == FullLevels(leaves)[Depth][0]

\* A policy can be proved about: every member's path leads to the root, from
\* its own leaf only.
Provable(policy) ==
  \A i \in 1 .. Len(policy.members), j \in 1 .. Len(policy.members) :
    VerifyMember(policy.root, policy.members[j].destLeaf, policy.members[i].path)
      <=> policy.members[i].destLeaf = policy.members[j].destLeaf
=============================================================================
