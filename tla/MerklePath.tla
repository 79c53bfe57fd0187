----------------------------- MODULE MerklePath -----------------------------
(***************************************************************************)
(* Merkle paths of the merchant (block/block.service.ts): what the code    *)
(* computes from a transaction id and a branch, and the tree of a block it *)
(* is compared with.  A hash is the pair it is the hash of, so two hashes  *)
(* are equal only when what was hashed is; the byte orders cancel out but  *)
(* in the header, whose root the library may give in either order.         *)
(***************************************************************************)
EXTENDS Naturals, Sequences, SequencesExt

Sha256sha256(left, right) == <<left, right>>

\* Mutant: the two sides are exchanged.
HashStepSwapped(current, step) ==
    IF step.pos = "L" THEN Sha256sha256(current, step.hash)
                      ELSE Sha256sha256(step.hash, current)

\* One step of a branch: every pos but 'L' puts the sibling on the right.
HashStep(current, step) ==
    IF step.pos = "L" THEN Sha256sha256(step.hash, current)
                      ELSE Sha256sha256(current, step.hash)

ComputeMerkleRoot(txid, branch) == FoldLeft(HashStep, txid, branch)

----------------------------------------------------------------------------
(* The tree of a block *)

\* The node at n of a level; an odd level repeats its last node.
NodeAt(level, n) == level[IF n <= Len(level) THEN n ELSE Len(level)]

\* The level above a level: the hashes of its pairs.
LevelAbove(level) ==
    [n \in 1..((Len(level) + 1) \div 2) |->
        Sha256sha256(NodeAt(level, 2 * n - 1), NodeAt(level, 2 * n))]

\* The levels of the tree above the ids of a block, until one node is left.
Levels(txids) ==
    LET level[h \in 1..Len(txids)] == IF h = 1 THEN txids ELSE LevelAbove(level[h - 1])
        top == CHOOSE h \in 1..Len(txids) :
                  Len(level[h]) = 1 /\ \A g \in 1..(h - 1) : Len(level[g]) > 1
    IN  [h \in 1..top |-> level[h]]

MerkleRoot(txids) == Last(Levels(txids))[1]

\* The position on every level of the path from the n-th transaction.
Positions(txids, n) ==
    LET at[h \in 1..Len(Levels(txids))] == IF h = 1 THEN n ELSE (at[h - 1] + 1) \div 2
    IN  at

\* The branch of the n-th transaction: its sibling on every level but the top.
Branch(txids, n) ==
    LET levels == Levels(txids)
        at == Positions(txids, n)
    IN  [h \in 1..(Len(levels) - 1) |->
            IF at[h] % 2 = 0 THEN [pos |-> "L", hash |-> levels[h][at[h] - 1]]
                             ELSE [pos |-> "R", hash |-> NodeAt(levels[h], at[h] + 1)]]
=============================================================================
