------------------------- MODULE VerificationLemmas -------------------------
(***************************************************************************)
(* Facts about the operators of MerklePath and Encryption, for texts,      *)
(* branches and blocks of every length.  They rest on induction over the   *)
(* natural numbers, stated for a set instead of a predicate, which the     *)
(* provers can instantiate, and proved from the cardinality of finite sets. *)
(***************************************************************************)
EXTENDS MerklePath, Encryption, FiniteSetTheorems, TLAPS

\* A set that has 0 and every successor of its numbers has all of them: were m
\* the first to miss, adding one would map its elements below m, of which there
\* are finitely many, one to one to those above 0.
LEMMA Induction ==
    ASSUME NEW S, 0 \in S, \A n \in Nat : n \in S => n + 1 \in S
    PROVE  Nat \subseteq S
<1> SUFFICES ASSUME NEW m \in Nat, m \notin S
             PROVE  FALSE
    OBVIOUS
<1> DEFINE T == {n \in 0..m : n \in S}
           next == [n \in T |-> n + 1]
<1>1. IsFiniteSet(T) /\ Cardinality(T) \in Nat
  <2>1. IsFiniteSet(0..m)
      BY FS_Interval
  <2> QED
      BY <2>1, FS_Subset, FS_CardinalityType
<1>2. 0 \in T
    OBVIOUS
<1>3. IsFiniteSet(T \ {0}) /\ Cardinality(T \ {0}) = Cardinality(T) - 1
    BY <1>1, <1>2, FS_RemoveElement
<1>4. next \in Injection(T, T \ {0})
  <2>1. \A n \in T : n + 1 \in T \ {0}
      OBVIOUS
  <2> QED
      BY <2>1 DEF Injection, IsInjective
<1>5. Cardinality(T) <= Cardinality(T \ {0})
  <2> HIDE DEF T, next
  <2> QED
      BY <1>3, <1>4, FS_Injection
<1> QED
    BY <1>1, <1>3, <1>5

\* The same from m on, up to a bound.
LEMMA BoundedInduction ==
    ASSUME NEW S, NEW m \in Nat, NEW N \in Nat, m \in S,
           \A n \in m..(N - 1) : n \in S => n + 1 \in S
    PROVE  m..N \subseteq S
<1> DEFINE T == {n \in Nat : m + n <= N => m + n \in S}
<1>1. 0 \in T
    OBVIOUS
<1>2. \A n \in Nat : n \in T => n + 1 \in T
    OBVIOUS
<1>3. Nat \subseteq T
  <2> HIDE DEF T
  <2> QED
      BY <1>1, <1>2, Induction
<1> SUFFICES ASSUME NEW n \in m..N
             PROVE  n \in S
    OBVIOUS
<1>4. n - m \in T
    BY <1>3
<1> QED
    BY <1>4

\* A set of numbers that is not empty has a least one.
LEMMA LeastNumber ==
    ASSUME NEW S \in SUBSET Nat, S # {}
    PROVE  \E m \in S : \A n \in S : m <= n
<1> SUFFICES ASSUME \A m \in S : \E n \in S : n < m
             PROVE  FALSE
    OBVIOUS
<1> DEFINE T == {n \in Nat : \A k \in 0..n : k \notin S}
<1>1. 0 \in T
    OBVIOUS
<1>2. \A n \in Nat : n \in T => n + 1 \in T
    OBVIOUS
<1>3. Nat \subseteq T
  <2> HIDE DEF T
  <2> QED
      BY <1>1, <1>2, Induction
<1>4. PICK s \in S : TRUE
    OBVIOUS
<1>5. s \in T /\ s \in 0..s
    BY <1>3
<1> QED
    BY <1>4, <1>5

----------------------------------------------------------------------------
(* computeMerkleRoot *)

\* The function FoldLeft is the value of, and the hash after k steps.
IsHashing(f, txid, branch, steps) ==
    f = [s \in SUBSET steps |->
            IF s = {} THEN txid ELSE HashStep(f[s \ {Max(s)}], branch[Max(s)])]
Hashing(txid, branch) == CHOOSE f : IsHashing(f, txid, branch, DOMAIN branch)
HashAfter(txid, branch, k) == Hashing(txid, branch)[1..k]

\* The last element that the fold takes is the one added last.
LEMMA MaxOfInterval ==
    ASSUME NEW k \in Nat, NEW s \in SUBSET (1..(k + 1)), k + 1 \in s
    PROVE  Max(s) = k + 1
<1>1. \A y \in s : k + 1 >= y
    OBVIOUS
<1>2. Max(s) \in s /\ \A y \in s : Max(s) >= y
    BY <1>1 DEF Max
<1>3. Max(s) \in 1..(k + 1) /\ Max(s) >= k + 1
    BY <1>2
<1> QED
    BY <1>3

\* The recursion of the fold is well-defined.
LEMMA HashingExists ==
    ASSUME NEW txid, NEW branch, NEW N \in Nat, DOMAIN branch = 1..N
    PROVE  IsHashing(Hashing(txid, branch), txid, branch, 1..N)
<1> DEFINE Is(f, k) == IsHashing(f, txid, branch, 1..k)
           T == {k \in Nat : \E f : Is(f, k)}
<1>1. 0 \in T
  <2>1. Is([s \in {{}} |-> txid], 0)
      BY DEF IsHashing
  <2> QED
      BY <2>1
<1>2. \A k \in Nat : k \in T => k + 1 \in T
  <2> SUFFICES ASSUME NEW k \in Nat, k \in T
               PROVE  k + 1 \in T
      OBVIOUS
  <2>0. PICK f : Is(f, k)
      OBVIOUS
  <2> DEFINE g == [s \in SUBSET (1..(k + 1)) |->
                     IF k + 1 \in s THEN HashStep(f[s \ {k + 1}], branch[k + 1]) ELSE f[s]]
  <2>1. ASSUME NEW s \in SUBSET (1..(k + 1)), k + 1 \in s
        PROVE  g[s] = HashStep(g[s \ {Max(s)}], branch[Max(s)])
    <3>1. Max(s) = k + 1
        BY <2>1, MaxOfInterval
    <3>2. s \ {k + 1} \in SUBSET (1..(k + 1)) /\ k + 1 \notin s \ {k + 1}
        OBVIOUS
    <3> QED
        BY <2>1, <3>1, <3>2
  <2>2. ASSUME NEW s \in SUBSET (1..(k + 1)), k + 1 \notin s
        PROVE  g[s] = IF s = {} THEN txid ELSE HashStep(g[s \ {Max(s)}], branch[Max(s)])
    <3>1. s \in SUBSET (1..k)
      <4>1. \A n \in 1..(k + 1) : n # k + 1 => n \in 1..k
          OBVIOUS
      <4> QED
          BY <2>2, <4>1
    <3>2. /\ s \ {Max(s)} \in SUBSET (1..k)
          /\ s \ {Max(s)} \in SUBSET (1..(k + 1)) /\ k + 1 \notin s \ {Max(s)}
        BY <2>2, <3>1
    <3> QED
        BY <2>0, <2>2, <3>1, <3>2 DEF IsHashing
  <2>3. Is(g, k + 1)
    <3> HIDE DEF g
    <3>1. g = [s \in SUBSET (1..(k + 1)) |-> g[s]]
        BY DEF g
    <3>2. \A s \in SUBSET (1..(k + 1)) :
             g[s] = IF s = {} THEN txid ELSE HashStep(g[s \ {Max(s)}], branch[Max(s)])
        BY <2>1, <2>2
    <3> QED
        BY <3>1, <3>2 DEF IsHashing
  <2> HIDE DEF g
  <2> QED
      BY <2>3
<1>3. N \in T
  <2> HIDE DEF T
  <2> QED
      BY <1>1, <1>2, Induction
<1> QED
    BY <1>3 DEF Hashing

\* The hash starts as the id and goes one step up with each element of the branch.
LEMMA HashSteps ==
    ASSUME NEW txid, NEW branch, NEW N \in Nat, DOMAIN branch = 1..N
    PROVE  /\ HashAfter(txid, branch, 0) = txid
           /\ \A k \in 1..N : HashAfter(txid, branch, k)
                                 = HashStep(HashAfter(txid, branch, k - 1), branch[k])
           /\ ComputeMerkleRoot(txid, branch) = HashAfter(txid, branch, N)
<1> DEFINE f == Hashing(txid, branch)
<1>0. IsHashing(f, txid, branch, 1..N)
    BY HashingExists
<1> HIDE DEF f
<1>1. f = [s \in SUBSET (1..N) |->
              IF s = {} THEN txid ELSE HashStep(f[s \ {Max(s)}], branch[Max(s)])]
    BY <1>0 DEF IsHashing
<1>2. f[1..0] = txid
    BY <1>1
<1>3. ASSUME NEW k \in 1..N
      PROVE  f[1..k] = HashStep(f[1..(k - 1)], branch[k])
  <2>1. Max(1..k) = k
    <3> DEFINE j == k - 1
    <3>1. j \in Nat /\ j + 1 = k /\ k \in 1..k
        OBVIOUS
    <3> HIDE DEF j
    <3>2. 1..k \in SUBSET (1..(j + 1)) /\ j + 1 \in 1..k
        BY <3>1
    <3>3. Max(1..k) = j + 1
        BY <3>1, <3>2, MaxOfInterval
    <3> QED
        BY <3>1, <3>3
  <2>2. 1..k \in SUBSET (1..N) /\ 1..k # {}
    <3>1. k \in 1..k /\ \A n \in 1..k : n \in 1..N
        OBVIOUS
    <3> QED
        BY <3>1
  <2>3. (1..k) \ {k} = 1..(k - 1)
    <3>1. \A n : n \in (1..k) \ {k} <=> n \in 1..(k - 1)
        OBVIOUS
    <3> QED
        BY <3>1
  <2> QED
      BY <1>1, <2>1, <2>2, <2>3
<1>4. ComputeMerkleRoot(txid, branch) = Hashing(txid, branch)[DOMAIN branch]
    BY DEF ComputeMerkleRoot, FoldLeft, MapThenFoldSet, Hashing, IsHashing
<1> QED
    BY <1>2, <1>3, <1>4 DEF HashAfter, f

----------------------------------------------------------------------------
(* The tree of a block *)

\* A function on 1..m is a sequence of m elements.
LEMMA FunctionOnInterval ==
    ASSUME NEW S, NEW m \in Nat, NEW f \in [1..m -> S]
    PROVE  f \in Seq(S) /\ Len(f) = m
<1>1. f \in Seq(S)
    OBVIOUS
<1>2. DOMAIN f = 1..Len(f) /\ DOMAIN f = 1..m /\ Len(f) \in Nat
    BY <1>1
<1> QED
    BY <1>1, <1>2

\* A level has its nodes at the positions from 1 on, and at least one.
IsLevel(level) == Len(level) \in Nat \ {0} /\ DOMAIN level = 1..Len(level)

\* A level has half the nodes of the one below, and fewer unless it has one.
LEMMA LevelAboveShrinks ==
    ASSUME NEW level, IsLevel(level)
    PROVE  /\ IsLevel(LevelAbove(level))
           /\ Len(LevelAbove(level)) = (Len(level) + 1) \div 2
           /\ Len(level) > 1 => Len(LevelAbove(level)) < Len(level)
<1> DEFINE m == (Len(level) + 1) \div 2
           node(n) == Sha256sha256(NodeAt(level, 2 * n - 1), NodeAt(level, 2 * n))
<1>1. m \in Nat \ {0} /\ (Len(level) > 1 => m < Len(level))
    BY DEF IsLevel
<1>2. LevelAbove(level) = [n \in 1..m |-> node(n)]
    BY DEF LevelAbove
<1> HIDE DEF m, node
<1>3. [n \in 1..m |-> node(n)] \in [1..m -> {node(n) : n \in 1..m}]
    OBVIOUS
<1>4. Len(LevelAbove(level)) = m /\ DOMAIN LevelAbove(level) = 1..m
    BY <1>1, <1>2, <1>3, FunctionOnInterval
<1> QED
    BY <1>1, <1>4 DEF IsLevel, m

\* The recursive function of Levels.
IsTree(f, txids, top) ==
    f = [h \in 1..top |-> IF h = 1 THEN txids ELSE LevelAbove(f[h - 1])]
Tree(txids) == CHOOSE f : IsTree(f, txids, Len(txids))

\* The recursion of the tree is well-defined.
LEMMA TreeExists ==
    ASSUME NEW txids, Len(txids) \in Nat
    PROVE  IsTree(Tree(txids), txids, Len(txids))
<1> DEFINE T == {k \in Nat : \E f : IsTree(f, txids, k)}
<1>1. 0 \in T
  <2>1. IsTree([h \in 1..0 |-> txids], txids, 0)
      BY DEF IsTree
  <2> QED
      BY <2>1
<1>2. \A k \in Nat : k \in T => k + 1 \in T
  <2> SUFFICES ASSUME NEW k \in Nat, k \in T
               PROVE  k + 1 \in T
      OBVIOUS
  <2>1. PICK f : IsTree(f, txids, k)
      OBVIOUS
  <2> DEFINE g == [h \in 1..(k + 1) |->
                     IF h = 1 THEN txids ELSE IF h = k + 1 THEN LevelAbove(f[k]) ELSE f[h]]
  <2>2. ASSUME NEW h \in 1..(k + 1)
        PROVE  g[h] = IF h = 1 THEN txids ELSE LevelAbove(g[h - 1])
    <3>1. CASE h = 1
        BY <3>1
    <3>2. CASE h # 1
      <4>1. h - 1 \in 1..k /\ h - 1 \in 1..(k + 1)
          BY <3>2
      <4>2. g[h - 1] = f[h - 1]
          BY <2>1, <4>1 DEF IsTree
      <4>3. h # k + 1 => f[h] = LevelAbove(f[h - 1])
          BY <2>1, <3>2, <4>1 DEF IsTree
      <4> QED
          BY <3>2, <4>2, <4>3
    <3> QED
        BY <3>1, <3>2
  <2>3. IsTree(g, txids, k + 1)
    <3>1. g = [h \in 1..(k + 1) |-> g[h]]
        OBVIOUS
    <3> HIDE DEF g
    <3> QED
        BY <2>2, <3>1 DEF IsTree
  <2> HIDE DEF g
  <2> QED
      BY <2>3
<1>3. Len(txids) \in T
  <2> HIDE DEF T
  <2> QED
      BY <1>1, <1>2, Induction
<1> QED
    BY <1>3 DEF Tree

\* A block's tree: the levels shrink until the last one, which has one node.
LEMMA LevelsOfBlock ==
    ASSUME NEW txids, IsLevel(txids)
    PROVE  LET L == Levels(txids)
               top == Len(Levels(txids))
           IN  /\ top \in 1..Len(txids) /\ DOMAIN L = 1..top
               /\ L[1] = txids
               /\ \A h \in 1..top : IsLevel(L[h])
               /\ \A h \in 1..(top - 1) : L[h + 1] = LevelAbove(L[h]) /\ Len(L[h]) > 1
               /\ Len(L[top]) = 1 /\ MerkleRoot(txids) = L[top][1]
<1> DEFINE N == Len(txids)
           f == Tree(txids)
           Small(h) == IsLevel(f[h]) /\ (Len(f[h]) = 1 \/ Len(f[h]) + h <= N + 1)
<1>1. N \in Nat \ {0}
    BY DEF IsLevel
<1>2. /\ DOMAIN f = 1..N
      /\ f[1] = txids
      /\ \A h \in 1..(N - 1) : f[h + 1] = LevelAbove(f[h])
  <2>1. IsTree(f, txids, N)
      BY <1>1, TreeExists
  <2> HIDE DEF f
  <2> QED
      BY <1>1, <2>1 DEF IsTree
<1>2a. Len(f[1]) = N /\ IsLevel(f[1])
    BY <1>2
<1> HIDE DEF f, N
<1>3. \A h \in 1..N : Small(h)
  <2> DEFINE T == {h \in Nat : Small(h)}
  <2>1. 1 \in T
      BY <1>1, <1>2a
  <2>2. ASSUME NEW h \in 1..(N - 1), h \in T
        PROVE  h + 1 \in T
    <3>1. IsLevel(f[h])
        BY <2>2
    <3>2. IsLevel(f[h + 1]) /\ Len(f[h + 1]) = (Len(f[h]) + 1) \div 2
          /\ (Len(f[h]) > 1 => Len(f[h + 1]) < Len(f[h]))
        BY <1>2, <3>1, LevelAboveShrinks
    <3> DEFINE a == Len(f[h])
               b == Len(f[h + 1])
    <3>3. /\ a \in Nat \ {0} /\ b \in Nat \ {0}
          /\ b = (a + 1) \div 2 /\ (a > 1 => b < a)
          /\ a = 1 \/ a + h <= N + 1
        BY <2>2, <3>1, <3>2 DEF IsLevel
    <3> HIDE DEF a, b
    <3>4. b = 1 \/ b + (h + 1) <= N + 1
        BY <1>1, <3>3
    <3>5. h + 1 \in Nat
        OBVIOUS
    <3> QED
        BY <3>2, <3>4, <3>5 DEF b
  <2>3. 1..N \subseteq T
    <3> HIDE DEF T
    <3> QED
        BY <1>1, <2>1, <2>2, BoundedInduction
  <2> QED
      BY <2>3
<1> DEFINE IsTop(h) == Len(f[h]) = 1 /\ \A g \in 1..(h - 1) : Len(f[g]) > 1
           top == CHOOSE h \in 1..N : IsTop(h)
<1>4. top \in 1..N /\ IsTop(top)
  <2> DEFINE ends == {h \in 1..N : Len(f[h]) = 1}
  <2>1. N \in ends
    <3> DEFINE a == Len(f[N])
    <3>1. N \in 1..N /\ a \in Nat \ {0} /\ (a = 1 \/ a + N <= N + 1)
        BY <1>1, <1>3 DEF IsLevel
    <3> HIDE DEF a
    <3>2. a = 1
        BY <1>1, <3>1
    <3> QED
        BY <3>1, <3>2 DEF a
  <2>2. ends \in SUBSET Nat /\ ends # {}
      BY <2>1
  <2>3. PICK h \in ends : \A g \in ends : h <= g
    <3> HIDE DEF ends
    <3> QED
        BY <2>2, LeastNumber
  <2>4. ASSUME NEW g \in 1..(h - 1)
        PROVE  Len(f[g]) > 1
    <3>0. h \in 1..N
        BY <2>3
    <3>1. g \in 1..N /\ ~(h <= g)
        BY <1>1, <3>0
    <3>2. Len(f[g]) \in Nat \ {0}
        BY <1>3, <3>1 DEF IsLevel
    <3>3. Len(f[g]) # 1
        BY <2>3, <3>1
    <3> DEFINE a == Len(f[g])
    <3>4. a \in Nat \ {0} /\ a # 1
        BY <3>2, <3>3
    <3> HIDE DEF a
    <3>5. a > 1
        BY <3>4
    <3> QED
        BY <3>5 DEF a
  <2>5. h \in 1..N /\ IsTop(h)
      BY <2>3, <2>4
  <2> HIDE DEF IsTop
  <2> QED
      BY <2>5
<1>5. Levels(txids) = [h \in 1..top |-> f[h]]
    BY DEF Levels, Tree, IsTree, f, N
<1> HIDE DEF top
<1>6. Len(Levels(txids)) = top
  <2>1. [h \in 1..top |-> f[h]] \in [1..top -> {f[h] : h \in 1..top}]
      OBVIOUS
  <2> QED
      BY <1>4, <1>5, <2>1, FunctionOnInterval
<1> QED
    BY <1>2, <1>3, <1>4, <1>5, <1>6 DEF MerkleRoot, Last, N

\* The hash of two things is no id, and a hash after a step is one of two.
LEMMA StepIsPair ==
    ASSUME NEW txid, NEW branch, NEW N \in Nat, DOMAIN branch = 1..N, NEW k \in 1..N
    PROVE  \E x : \/ HashAfter(txid, branch, k) = <<x, HashAfter(txid, branch, k - 1)>>
                  \/ HashAfter(txid, branch, k) = <<HashAfter(txid, branch, k - 1), x>>
<1>1. HashAfter(txid, branch, k) = HashStep(HashAfter(txid, branch, k - 1), branch[k])
    BY HashSteps
<1> QED
    BY <1>1 DEF HashStep, Sha256sha256

\* Whoever reaches a node of a block's tree from an id, on whatever branch and
\* on whatever level, started from an id of the block.
LEMMA OnlyFromTheBlock ==
    ASSUME NEW Id, \A id \in Id : DOMAIN id = {1},
           NEW txids \in Seq(Id), IsLevel(txids),
           NEW txid \in Id, NEW branch, NEW N \in Nat, DOMAIN branch = 1..N,
           ComputeMerkleRoot(txid, branch) = MerkleRoot(txids)
    PROVE  \E n \in DOMAIN txids : txids[n] = txid
<1> DEFINE L == Levels(txids)
           top == Len(Levels(txids))
           hash(k) == HashAfter(txid, branch, k)
           found == \E n \in DOMAIN txids : txids[n] = txid
           Leads(h) == \A n \in 1..Len(L[h]), k \in 0..N : hash(k) = L[h][n] => found
<1>0. top \in Nat \ {0}
  <2>1. top \in 1..Len(txids) /\ Len(txids) \in Nat
      BY LevelsOfBlock DEF IsLevel
  <2> HIDE DEF top
  <2> QED
      BY <2>1
<1>1. /\ L[1] = txids /\ Len(L[top]) = 1
      /\ \A h \in 1..top : IsLevel(L[h])
      /\ \A h \in 1..(top - 1) : L[h + 1] = LevelAbove(L[h])
      /\ MerkleRoot(txids) = L[top][1]
    BY LevelsOfBlock
<1>2. hash(0) = txid /\ hash(N) = ComputeMerkleRoot(txid, branch)
    BY HashSteps
<1>3. \A x, y : <<x, y>> \notin Id
  <2> SUFFICES ASSUME NEW x, NEW y, <<x, y>> \in Id
               PROVE  FALSE
      OBVIOUS
  <2>1. DOMAIN <<x, y>> = {1}
      OBVIOUS
  <2>2. 2 \in DOMAIN <<x, y>>
      OBVIOUS
  <2> QED
      BY <2>1, <2>2
<1>4. \A k \in 1..N : \E x : hash(k) = <<x, hash(k - 1)>> \/ hash(k) = <<hash(k - 1), x>>
    BY StepIsPair
<1> HIDE DEF L, top, hash
<1>5. Leads(1)
  <2> SUFFICES ASSUME NEW n \in DOMAIN txids, NEW k \in 0..N, hash(k) = txids[n]
               PROVE  found
      BY <1>1 DEF IsLevel
  <2>1. txids[n] \in Id
      OBVIOUS
  <2>2. k = 0
      BY <1>3, <1>4, <2>1
  <2> QED
      BY <1>2, <2>2
<1>6. ASSUME NEW h \in 1..(top - 1), Leads(h)
      PROVE  Leads(h + 1)
  <2> SUFFICES ASSUME NEW n \in 1..Len(L[h + 1]), NEW k \in 0..N, hash(k) = L[h + 1][n]
               PROVE  found
      OBVIOUS
  <2> DEFINE a == NodeAt(L[h], 2 * n - 1)
             b == NodeAt(L[h], 2 * n)
  <2>0. h \in 1..top /\ h + 1 \in 1..top
      BY <1>0
  <2>1. IsLevel(L[h]) /\ IsLevel(L[h + 1]) /\ L[h + 1] = LevelAbove(L[h])
      BY <1>1, <2>0
  <2>2. n \in DOMAIN LevelAbove(L[h])
      BY <2>1 DEF IsLevel
  <2>3. n \in 1..((Len(L[h]) + 1) \div 2) /\ L[h + 1][n] = <<a, b>>
      BY <2>1, <2>2 DEF LevelAbove, Sha256sha256
  <2>4. \E i, j \in 1..Len(L[h]) : a = L[h][i] /\ b = L[h][j]
    <3> DEFINE len == Len(L[h])
    <3>1. len \in Nat \ {0} /\ n \in 1..((len + 1) \div 2)
        BY <2>1, <2>3 DEF IsLevel
    <3> HIDE DEF len
    <3>2. 2 * n - 1 \in 1..len /\ len \in 1..len /\ (2 * n <= len => 2 * n \in 1..len)
        BY <3>1
    <3> QED
        BY <3>2 DEF NodeAt, len
  <2>5. k \in 1..N
      BY <1>2, <1>3, <2>3
  <2>6. hash(k - 1) = a \/ hash(k - 1) = b
      BY <1>4, <2>3, <2>5
  <2>7. k - 1 \in 0..N
      BY <2>5
  <2> QED
      BY <1>6, <2>4, <2>6, <2>7
<1>7. Leads(top)
  <2> DEFINE T == {h \in Nat : Leads(h)}
  <2>1. 1 \in T /\ \A h \in 1..(top - 1) : h \in T => h + 1 \in T
      BY <1>5, <1>6
  <2>2. 1..top \subseteq T
    <3> HIDE DEF T
    <3> QED
        BY <1>0, <2>1, BoundedInduction
  <2>3. top \in T
      BY <1>0, <2>2
  <2> QED
      BY <2>3
<1>8. 1 \in 1..Len(L[top]) /\ N \in 0..N /\ hash(N) = L[top][1]
    BY <1>1, <1>2
<1> QED
    BY <1>7, <1>8

\* The recursive function of Positions.
IsPath(f, n, top) ==
    f = [h \in 1..top |-> IF h = 1 THEN n ELSE (f[h - 1] + 1) \div 2]
Path(n, top) == CHOOSE f : IsPath(f, n, top)

\* The recursion of the positions is well-defined.
LEMMA PathExists ==
    ASSUME NEW n, NEW top \in Nat
    PROVE  IsPath(Path(n, top), n, top)
<1> DEFINE T == {k \in Nat : \E f : IsPath(f, n, k)}
<1>1. 0 \in T
  <2>1. IsPath([h \in 1..0 |-> n], n, 0)
      BY DEF IsPath
  <2> QED
      BY <2>1
<1>2. \A k \in Nat : k \in T => k + 1 \in T
  <2> SUFFICES ASSUME NEW k \in Nat, k \in T
               PROVE  k + 1 \in T
      OBVIOUS
  <2>1. PICK f : IsPath(f, n, k)
      OBVIOUS
  <2> DEFINE g == [h \in 1..(k + 1) |->
                     IF h = 1 THEN n ELSE IF h = k + 1 THEN (f[k] + 1) \div 2 ELSE f[h]]
  <2>2. ASSUME NEW h \in 1..(k + 1)
        PROVE  g[h] = IF h = 1 THEN n ELSE (g[h - 1] + 1) \div 2
    <3>1. CASE h = 1
        BY <3>1
    <3>2. CASE h # 1
      <4>1. h - 1 \in 1..k /\ h - 1 \in 1..(k + 1)
          BY <3>2
      <4>2. g[h - 1] = f[h - 1]
          BY <2>1, <4>1 DEF IsPath
      <4>3. h # k + 1 => f[h] = (f[h - 1] + 1) \div 2
          BY <2>1, <3>2, <4>1 DEF IsPath
      <4> QED
          BY <3>2, <4>2, <4>3
    <3> QED
        BY <3>1, <3>2
  <2>3. IsPath(g, n, k + 1)
    <3>1. g = [h \in 1..(k + 1) |-> g[h]]
        OBVIOUS
    <3> HIDE DEF g
    <3> QED
        BY <2>2, <3>1 DEF IsPath
  <2> HIDE DEF g
  <2> QED
      BY <2>3
<1>3. top \in T
  <2> HIDE DEF T
  <2> QED
      BY <1>1, <1>2, Induction
<1> QED
    BY <1>3 DEF Path

\* The branch of a transaction leads from its id to the root of its block.  It
\* is empty only in a block of one.
LEMMA BranchLeadsToRoot ==
    ASSUME NEW txids, IsLevel(txids), NEW n \in DOMAIN txids
    PROVE  /\ ComputeMerkleRoot(txids[n], Branch(txids, n)) = MerkleRoot(txids)
           /\ Len(txids) > 1 => Branch(txids, n) # <<>>
<1> DEFINE L == Levels(txids)
           top == Len(Levels(txids))
           at == Positions(txids, n)
           branch == Branch(txids, n)
           hash(k) == HashAfter(txids[n], branch, k)
<1>0. top \in Nat \ {0}
  <2>1. top \in 1..Len(txids) /\ Len(txids) \in Nat
      BY LevelsOfBlock DEF IsLevel
  <2> HIDE DEF top
  <2> QED
      BY <2>1
<1>1. /\ L[1] = txids /\ Len(L[top]) = 1
      /\ \A h \in 1..top : IsLevel(L[h])
      /\ \A h \in 1..(top - 1) : L[h + 1] = LevelAbove(L[h])
      /\ MerkleRoot(txids) = L[top][1]
    BY LevelsOfBlock
<1>2. at[1] = n /\ \A h \in 1..(top - 1) : at[h + 1] = (at[h] + 1) \div 2
  <2>1. IsPath(at, n, top)
    <3>1. at = Path(n, top)
        BY DEF Positions, Path, IsPath
    <3> HIDE DEF at, top
    <3> QED
        BY <1>0, <3>1, PathExists
  <2> HIDE DEF at, top
  <2> QED
      BY <1>0, <2>1 DEF IsPath
<1>3. branch = [h \in 1..(top - 1) |->
                  IF at[h] % 2 = 0 THEN [pos |-> "L", hash |-> L[h][at[h] - 1]]
                  ELSE [pos |-> "R", hash |-> NodeAt(L[h], at[h] + 1)]]
    BY DEF Branch
<1> HIDE DEF L, top, at, branch
<1>4. /\ DOMAIN branch = 1..(top - 1) /\ top - 1 \in Nat
      /\ hash(0) = txids[n] /\ hash(top - 1) = ComputeMerkleRoot(txids[n], branch)
      /\ \A h \in 1..(top - 1) : hash(h) = HashStep(hash(h - 1), branch[h])
  <2>1. DOMAIN branch = 1..(top - 1) /\ top - 1 \in Nat
      BY <1>0, <1>3
  <2> QED
      BY <2>1, HashSteps
<1> HIDE DEF hash
<1> DEFINE OnPath(h) == at[h] \in 1..Len(L[h]) /\ hash(h - 1) = L[h][at[h]]
<1>5. OnPath(1)
    BY <1>1, <1>2, <1>4 DEF IsLevel
<1>6. ASSUME NEW h \in 1..(top - 1), OnPath(h)
      PROVE  OnPath(h + 1)
  <2> DEFINE len == Len(L[h])
             i == at[h]
             j == at[h + 1]
  <2>1. h \in 1..top /\ h + 1 \in 1..top /\ (h + 1) - 1 = h
      BY <1>0
  <2>2. IsLevel(L[h]) /\ L[h + 1] = LevelAbove(L[h])
      BY <1>1, <2>1
  <2>3. len \in Nat \ {0} /\ Len(L[h + 1]) = (len + 1) \div 2
      BY <2>2, LevelAboveShrinks DEF IsLevel
  <2>4. i \in 1..len /\ j = (i + 1) \div 2
      BY <1>2, <1>6
  <2>5. hash(h) = HashStep(L[h][i], branch[h])
      BY <1>4, <1>6
  <2>6. branch[h] = IF i % 2 = 0 THEN [pos |-> "L", hash |-> L[h][i - 1]]
                    ELSE [pos |-> "R", hash |-> NodeAt(L[h], i + 1)]
      BY <1>3
  <2>7. \A x \in 1..len : NodeAt(L[h], x) = L[h][x]
      BY <2>3 DEF NodeAt
  <2> HIDE DEF len, i, j
  <2>8. j \in 1..((len + 1) \div 2)
      BY <2>3, <2>4
  <2>9. L[h + 1][j] = <<NodeAt(L[h], 2 * j - 1), NodeAt(L[h], 2 * j)>>
      BY <2>2, <2>8 DEF LevelAbove, Sha256sha256, len
  <2>10. CASE i % 2 = 0
    <3>1. 2 * j = i /\ 2 * j - 1 = i - 1 /\ i - 1 \in 1..len
        BY <2>3, <2>4, <2>10
    <3>2. hash(h) = <<L[h][i - 1], L[h][i]>>
        BY <2>5, <2>6, <2>10 DEF HashStep, Sha256sha256
    <3>3. L[h + 1][j] = <<L[h][i - 1], L[h][i]>>
        BY <2>4, <2>7, <2>9, <3>1
    <3> QED
        BY <2>1, <2>3, <2>8, <3>2, <3>3 DEF j
  <2>11. CASE i % 2 # 0
    <3>1. 2 * j = i + 1 /\ 2 * j - 1 = i
        BY <2>3, <2>4, <2>11
    <3>2. hash(h) = <<L[h][i], NodeAt(L[h], i + 1)>>
        BY <2>5, <2>6, <2>11 DEF HashStep, Sha256sha256
    <3>3. L[h + 1][j] = <<L[h][i], NodeAt(L[h], i + 1)>>
        BY <2>4, <2>7, <2>9, <3>1
    <3> QED
        BY <2>1, <2>3, <2>8, <3>2, <3>3 DEF j
  <2> QED
      BY <2>10, <2>11
<1>7. OnPath(top)
  <2> DEFINE T == {h \in Nat : OnPath(h)}
  <2>1. 1 \in T
      BY <1>5
  <2>2. \A h \in 1..(top - 1) : h \in T => h + 1 \in T
      BY <1>6
  <2>3. 1..top \subseteq T
    <3> HIDE DEF T
    <3> QED
        BY <1>0, <2>1, <2>2, BoundedInduction
  <2>4. top \in T
      BY <1>0, <2>3
  <2> QED
      BY <2>4
<1>8. at[top] = 1
    BY <1>1, <1>7
<1>9. ASSUME Len(txids) > 1
      PROVE  branch # <<>>
  <2>1. top # 1
    <3> SUFFICES ASSUME top = 1
                 PROVE  FALSE
        OBVIOUS
    <3>1. Len(txids) = 1
        BY <1>1
    <3> QED
        BY <1>9, <3>1
  <2>2. 1 \in DOMAIN branch
      BY <1>0, <1>4, <2>1
  <2> QED
      BY <2>2
<1> QED
    BY <1>1, <1>4, <1>7, <1>8, <1>9 DEF branch

\* A computed root is an id or the hash of two, never of three.
LEMMA RootIsNoTriple ==
    ASSUME NEW txid, DOMAIN txid = {1}, NEW branch, NEW N \in Nat, DOMAIN branch = 1..N,
           NEW x, NEW y, NEW z
    PROVE  ComputeMerkleRoot(txid, branch) # <<x, y, z>>
<1>1. 3 \in DOMAIN <<x, y, z>>
    OBVIOUS
<1>2. CASE N = 0
  <2>1. ComputeMerkleRoot(txid, branch) = txid
      BY <1>2, HashSteps
  <2> QED
      BY <1>1, <2>1
<1>3. CASE N # 0
  <2>1. N \in 1..N
      BY <1>3
  <2>2. PICK u : \/ ComputeMerkleRoot(txid, branch) = <<u, HashAfter(txid, branch, N - 1)>>
                 \/ ComputeMerkleRoot(txid, branch) = <<HashAfter(txid, branch, N - 1), u>>
    <3>1. ComputeMerkleRoot(txid, branch) = HashAfter(txid, branch, N)
        BY HashSteps
    <3>2. \E u : \/ HashAfter(txid, branch, N) = <<u, HashAfter(txid, branch, N - 1)>>
                 \/ HashAfter(txid, branch, N) = <<HashAfter(txid, branch, N - 1), u>>
        BY <2>1, StepIsPair
    <3> QED
        BY <3>1, <3>2
  <2>3. 3 \notin DOMAIN ComputeMerkleRoot(txid, branch)
      BY <2>2
  <2> QED
      BY <1>1, <2>3
<1> QED
    BY <1>2, <1>3

----------------------------------------------------------------------------
(* Chunks of a text *)

USE EncryptionAssumption

ChunkCount(text) == (Len(text) + ChunkSize - 1) \div ChunkSize
ChunkEnd(text, n) == IF n * ChunkSize <= Len(text) THEN n * ChunkSize ELSE Len(text)

\* The chunks lie end to end, are not empty, and end with the text.
LEMMA ChunkEnds ==
    ASSUME NEW text, Len(text) \in Nat
    PROVE  /\ ChunkCount(text) \in Nat
           /\ Len(text) > 0 => ChunkCount(text) > 0
           /\ ChunkEnd(text, 0) = 0
           /\ ChunkEnd(text, ChunkCount(text)) = Len(text)
           /\ \A n \in 1..ChunkCount(text) :
                 /\ ChunkEnd(text, n) \in 1..Len(text)
                 /\ ChunkEnd(text, n - 1) = (n - 1) * ChunkSize
                 /\ ChunkEnd(text, n - 1) \in 0..(ChunkEnd(text, n) - 1)
                 /\ ChunkEnd(text, n) - ChunkEnd(text, n - 1) <= ChunkSize
<1> DEFINE len == Len(text)
           m == ChunkCount(text)
<1>1. m = (len + ChunkSize - 1) \div ChunkSize
    BY DEF ChunkCount
<1> HIDE DEF len, m
<1>2. len \in Nat /\ m \in Nat
    BY <1>1 DEF len
<1>3. ChunkSize * m <= len + ChunkSize - 1 /\ len + ChunkSize - 1 < ChunkSize * m + ChunkSize
    BY <1>1, <1>2
<1>4. len > 0 => m > 0
    BY <1>2, <1>3
<1>5. len <= m * ChunkSize
    BY <1>2, <1>3
<1>6. ASSUME NEW n \in 1..m
      PROVE  /\ (n - 1) * ChunkSize \in Nat /\ (n - 1) * ChunkSize < len
             /\ n * ChunkSize = (n - 1) * ChunkSize + ChunkSize
  <2>1. (n - 1) * ChunkSize \in Nat /\ n * ChunkSize = (n - 1) * ChunkSize + ChunkSize
      BY <1>2
  <2>2. n * ChunkSize <= m * ChunkSize
      BY <1>2
  <2> QED
      BY <1>2, <1>3, <2>1, <2>2
<1>7. 0 * ChunkSize = 0
    OBVIOUS
<1> QED
    BY <1>2, <1>4, <1>5, <1>6, <1>7 DEF ChunkEnd, len, m

\* A chunk is the part of the text between two ends.
LEMMA ChunksOfText ==
    ASSUME NEW text \in Seq(Unit)
    PROVE  /\ Len(SplitStringIntoChunks(text)) = ChunkCount(text)
           /\ DOMAIN SplitStringIntoChunks(text) = 1..ChunkCount(text)
           /\ \A n \in 1..ChunkCount(text) :
                 /\ SplitStringIntoChunks(text)[n]
                       = SubSeq(text, ChunkEnd(text, n - 1) + 1, ChunkEnd(text, n))
                 /\ SplitStringIntoChunks(text)[n] \in Seq(Unit)
                 /\ Len(SplitStringIntoChunks(text)[n]) = ChunkEnd(text, n) - ChunkEnd(text, n - 1)
                 /\ \A i \in 1..Len(SplitStringIntoChunks(text)[n]) :
                       SplitStringIntoChunks(text)[n][i] = text[ChunkEnd(text, n - 1) + i]
<1> DEFINE m == ChunkCount(text)
           end(n) == ChunkEnd(text, n)
           chunk(n) == SubSeq(text, (n - 1) * ChunkSize + 1, end(n))
<1>1. SplitStringIntoChunks(text) = [n \in 1..m |-> chunk(n)]
    BY DEF SplitStringIntoChunks, ChunkCount, ChunkEnd
<1>2. /\ m \in Nat
      /\ \A n \in 1..m : /\ end(n) \in 1..Len(text)
                         /\ end(n - 1) = (n - 1) * ChunkSize
                         /\ end(n - 1) \in 0..(end(n) - 1)
    BY ChunkEnds
<1> HIDE DEF m, end
<1>3. ASSUME NEW n \in 1..m
      PROVE  /\ chunk(n) = SubSeq(text, end(n - 1) + 1, end(n))
             /\ chunk(n) \in Seq(Unit)
             /\ Len(chunk(n)) = end(n) - end(n - 1)
             /\ \A i \in 1..Len(chunk(n)) : chunk(n)[i] = text[end(n - 1) + i]
  <2> DEFINE lo == end(n - 1)
             hi == end(n)
  <2>1. hi \in 1..Len(text) /\ lo \in 0..(hi - 1) /\ chunk(n) = SubSeq(text, lo + 1, hi)
      BY <1>2
  <2> HIDE DEF lo, hi, chunk
  <2>2. Len(text) \in Nat /\ \A i \in 1..Len(text) : text[i] \in Unit
      OBVIOUS
  <2>3. SubSeq(text, lo + 1, hi) = [i \in 1..(hi - lo) |-> text[lo + i]]
      BY <2>1, <2>2
  <2>4. [i \in 1..(hi - lo) |-> text[lo + i]] \in [1..(hi - lo) -> Unit] /\ hi - lo \in Nat
      BY <2>1, <2>2
  <2>5. chunk(n) \in Seq(Unit) /\ Len(chunk(n)) = hi - lo
      BY <2>1, <2>3, <2>4, FunctionOnInterval
  <2>6. \A i \in 1..Len(chunk(n)) : chunk(n)[i] = text[lo + i]
      BY <2>1, <2>3, <2>5
  <2> QED
      BY <2>1, <2>5, <2>6 DEF lo, hi
<1> HIDE DEF chunk
<1>4. SplitStringIntoChunks(text) \in [1..m -> {chunk(n) : n \in 1..m}]
    BY <1>1
<1>5. Len(SplitStringIntoChunks(text)) = m
    BY <1>2, <1>4, FunctionOnInterval
<1> QED
    BY <1>1, <1>3, <1>5 DEF m, end

\* A text keeps its length, in units, on its way through UTF-8.
LEMMA Utf8Type ==
    ASSUME NEW text \in Seq(Unit)
    PROVE  Utf8(text) \in Seq(Unit) /\ Len(Utf8(text)) = Len(text)
<1>1. Utf8(text) \in [1..Len(text) -> Unit] /\ Len(text) \in Nat
    BY DEF Utf8, Unit
<1> QED
    BY <1>1, FunctionOnInterval

\* What is sent is a sequence of texts.
LEMMA EncryptedType ==
    ASSUME NEW text \in Seq(Unit), NEW keyed \in BOOLEAN
    PROVE  EncryptMyMessages(text, keyed) \in Seq(Seq(Unit))
<1> DEFINE chunks == SplitStringIntoChunks(text)
           utf == [n \in DOMAIN chunks |-> Utf8(chunks[n])]
<1>1. \A n \in DOMAIN chunks : Utf8(chunks[n]) \in Seq(Unit)
    BY ChunksOfText, Utf8Type
<1>2. DOMAIN chunks = 1..ChunkCount(text) /\ ChunkCount(text) \in Nat
    BY ChunksOfText, ChunkEnds
<1> HIDE DEF chunks
<1>3. utf \in [1..ChunkCount(text) -> Seq(Unit)]
    BY <1>1, <1>2
<1>4. utf \in Seq(Seq(Unit))
    BY <1>2, <1>3, FunctionOnInterval
<1>5. << <<>> >> \in Seq(Seq(Unit))
    OBVIOUS
<1> QED
    BY <1>4, <1>5 DEF EncryptMyMessages, chunks

\* FlattenSeq: the recursive function joins one more sequence with each step.
Joined(s, t) == s \o t
IsJoining(f, seqs, top) ==
    f = [k \in 1..top |-> IF k = 1 THEN seqs[k] ELSE Joined(f[k - 1], seqs[k])]
Joining(seqs) == CHOOSE f : IsJoining(f, seqs, Len(seqs))

\* The recursion of the joining is well-defined.
LEMMA JoiningExists ==
    ASSUME NEW seqs, Len(seqs) \in Nat
    PROVE  IsJoining(Joining(seqs), seqs, Len(seqs))
<1> DEFINE T == {k \in Nat : \E f : IsJoining(f, seqs, k)}
<1>1. 0 \in T
  <2>1. IsJoining([h \in 1..0 |-> seqs], seqs, 0)
      BY DEF IsJoining
  <2> QED
      BY <2>1
<1>2. \A k \in Nat : k \in T => k + 1 \in T
  <2> SUFFICES ASSUME NEW k \in Nat, k \in T
               PROVE  k + 1 \in T
      OBVIOUS
  <2>1. PICK f : IsJoining(f, seqs, k)
      OBVIOUS
  <2> DEFINE g == [h \in 1..(k + 1) |->
                     IF h = 1 THEN seqs[h] ELSE IF h = k + 1 THEN Joined(f[k], seqs[h]) ELSE f[h]]
  <2>2. ASSUME NEW h \in 1..(k + 1)
        PROVE  g[h] = IF h = 1 THEN seqs[h] ELSE Joined(g[h - 1], seqs[h])
    <3>1. CASE h = 1
        BY <3>1
    <3>2. CASE h # 1
      <4>1. h - 1 \in 1..k /\ h - 1 \in 1..(k + 1)
          BY <3>2
      <4>2. g[h - 1] = f[h - 1]
          BY <2>1, <4>1 DEF IsJoining
      <4>3. h # k + 1 => f[h] = Joined(f[h - 1], seqs[h])
          BY <2>1, <3>2, <4>1 DEF IsJoining
      <4> QED
          BY <3>2, <4>2, <4>3
    <3> QED
        BY <3>1, <3>2
  <2>3. IsJoining(g, seqs, k + 1)
    <3>1. g = [h \in 1..(k + 1) |-> g[h]]
        OBVIOUS
    <3> HIDE DEF g
    <3> QED
        BY <2>2, <3>1 DEF IsJoining
  <2> HIDE DEF g
  <2> QED
      BY <2>3
<1>3. Len(seqs) \in T
  <2> HIDE DEF T
  <2> QED
      BY <1>1, <1>2, Induction
<1> QED
    BY <1>3 DEF Joining

\* FlattenSeq puts one sequence after the other.
LEMMA JoiningSteps ==
    ASSUME NEW seqs, Len(seqs) \in Nat \ {0}
    PROVE  /\ Joining(seqs)[1] = seqs[1]
           /\ \A k \in 1..(Len(seqs) - 1) : Joining(seqs)[k + 1] = Joining(seqs)[k] \o seqs[k + 1]
           /\ FlattenSeq(seqs) = Joining(seqs)[Len(seqs)]
<1> DEFINE f == Joining(seqs)
           m == Len(seqs)
<1>1. IsJoining(f, seqs, m)
    BY JoiningExists
<1>2. FlattenSeq(seqs) = f[m]
    BY DEF FlattenSeq, Joining, IsJoining, Joined
<1>3. m \in Nat \ {0}
    OBVIOUS
<1> HIDE DEF f, m
<1>4. f[1] = seqs[1] /\ \A k \in 1..(m - 1) : f[k + 1] = Joined(f[k], seqs[k + 1])
    BY <1>1, <1>3 DEF IsJoining
<1> QED
    BY <1>2, <1>4 DEF f, m, Joined

\* Joining texts gives a text, and an empty one only if the first is empty.
LEMMA FlattenType ==
    ASSUME NEW S, NEW seqs \in Seq(Seq(S))
    PROVE  /\ FlattenSeq(seqs) \in Seq(S)
           /\ seqs # <<>> /\ seqs[1] # <<>> => FlattenSeq(seqs) # <<>>
<1> DEFINE f == Joining(seqs)
           m == Len(seqs)
           T == {k \in Nat : f[k] \in Seq(S) /\ (seqs[1] # <<>> => f[k] # <<>>)}
<1>1. CASE seqs = <<>>
    BY <1>1 DEF FlattenSeq
<1>2. CASE seqs # <<>>
  <2>1. m \in Nat \ {0} /\ \A k \in 1..m : seqs[k] \in Seq(S)
      BY <1>2
  <2>2. /\ f[1] = seqs[1] /\ FlattenSeq(seqs) = f[m]
        /\ \A k \in 1..(m - 1) : f[k + 1] = f[k] \o seqs[k + 1]
      BY <2>1, JoiningSteps
  <2> HIDE DEF f, m
  <2>3. 1 \in T
      BY <2>1, <2>2
  <2>4. ASSUME NEW k \in 1..(m - 1), k \in T
        PROVE  k + 1 \in T
    <3>1. k + 1 \in 1..m /\ k + 1 \in Nat
        BY <2>1
    <3>2. f[k] \in Seq(S) /\ seqs[k + 1] \in Seq(S) /\ f[k + 1] = f[k] \o seqs[k + 1]
        BY <2>1, <2>2, <2>4, <3>1
    <3> HIDE DEF T
    <3>3. f[k + 1] \in Seq(S) /\ (f[k] # <<>> => f[k + 1] # <<>>)
        BY <3>2
    <3> QED
        BY <2>4, <3>1, <3>3 DEF T
  <2>5. 1..m \subseteq T
    <3> HIDE DEF T
    <3> QED
        BY <2>1, <2>3, <2>4, BoundedInduction
  <2>6. m \in T
      BY <2>1, <2>5
  <2> QED
      BY <2>2, <2>6
<1> QED
    BY <1>1, <1>2

\* What is read is a text.
LEMMA DecryptedType ==
    ASSUME NEW messages \in Seq(Seq(Unit))
    PROVE  DecryptMyMessages(messages) \in Seq(Unit)
<1>1. FlattenSeq(messages) \in Seq(Unit) /\ <<>> \in Seq(Unit)
    BY FlattenType
<1> QED
    BY <1>1 DEF DecryptMyMessages

\* Every part of what is sent with a key has something in it, so it is read.
LEMMA SentWithKey ==
    ASSUME NEW text \in Seq(Unit), text # <<>>
    PROVE  LET messages == EncryptMyMessages(text, TRUE)
           IN  /\ messages \in Seq(Seq(Unit)) /\ Len(messages) = ChunkCount(text)
               /\ ChunkCount(text) \in Nat \ {0}
               /\ \A n \in 1..ChunkCount(text) :
                     messages[n] = Utf8(SplitStringIntoChunks(text)[n]) /\ messages[n] # <<>>
               /\ DecryptMyMessages(messages) = FlattenSeq(messages)
<1> DEFINE m == ChunkCount(text)
           messages == EncryptMyMessages(text, TRUE)
<1>1. m \in Nat \ {0} /\ \A n \in 1..m : ChunkEnd(text, n) - ChunkEnd(text, n - 1) > 0
  <2>1. Len(text) \in Nat \ {0}
      OBVIOUS
  <2>2. m \in Nat /\ (Len(text) > 0 => m > 0)
      BY <2>1, ChunkEnds
  <2>3. ASSUME NEW n \in 1..m
        PROVE  ChunkEnd(text, n) - ChunkEnd(text, n - 1) > 0
    <3> DEFINE hi == ChunkEnd(text, n)
               lo == ChunkEnd(text, n - 1)
    <3>1. hi \in 1..Len(text) /\ lo \in 0..(hi - 1)
        BY <2>1, ChunkEnds
    <3> HIDE DEF hi, lo
    <3>2. hi - lo > 0
        BY <2>1, <3>1
    <3> QED
        BY <3>2 DEF hi, lo
  <2> HIDE DEF m
  <2> QED
      BY <2>1, <2>2, <2>3
<1>2. messages = [n \in DOMAIN SplitStringIntoChunks(text) |-> Utf8(SplitStringIntoChunks(text)[n])]
    BY DEF EncryptMyMessages
<1>3. DOMAIN SplitStringIntoChunks(text) = 1..m
    BY ChunksOfText
<1>4. messages \in Seq(Seq(Unit))
    BY EncryptedType
<1> HIDE DEF messages, m
<1>5. ASSUME NEW n \in 1..m
      PROVE  messages[n] = Utf8(SplitStringIntoChunks(text)[n]) /\ messages[n] # <<>>
  <2> DEFINE chunk == SplitStringIntoChunks(text)[n]
  <2>1. chunk \in Seq(Unit) /\ Len(chunk) > 0
      BY <1>1, ChunksOfText DEF m
  <2>2. messages[n] = Utf8(chunk)
      BY <1>2, <1>3
  <2> HIDE DEF chunk
  <2>3. Len(Utf8(chunk)) > 0 /\ Len(<<>>) = 0
      BY <2>1, Utf8Type
  <2> QED
      BY <2>2, <2>3 DEF chunk
<1>6. DOMAIN messages = 1..m /\ Len(messages) = m
  <2>1. DOMAIN messages = 1..m
      BY <1>2, <1>3
  <2> QED
      BY <1>1, <1>4, <2>1
<1>7. DecryptMyMessages(messages) = FlattenSeq(messages)
    BY <1>5, <1>6 DEF DecryptMyMessages
<1> QED
    BY <1>1, <1>4, <1>5, <1>6, <1>7 DEF messages, m

\* A text sent with a key is never read as the empty text.
LEMMA SentIsReadable ==
    ASSUME NEW text \in Seq(Unit), text # <<>>
    PROVE  DecryptMyMessages(EncryptMyMessages(text, TRUE)) # <<>>
<1> DEFINE messages == EncryptMyMessages(text, TRUE)
           m == ChunkCount(text)
<1>1. /\ messages \in Seq(Seq(Unit)) /\ Len(messages) = m /\ m \in Nat \ {0}
      /\ \A n \in 1..m : messages[n] # <<>>
      /\ DecryptMyMessages(messages) = FlattenSeq(messages)
    BY SentWithKey
<1> HIDE DEF messages, m
<1>2. messages[1] # <<>>
  <2>1. 1 \in 1..m
      BY <1>1
  <2> QED
      BY <1>1, <2>1
<1>3. messages # <<>>
    BY <1>1
<1>4. FlattenSeq(messages) # <<>>
    BY <1>1, <1>2, <1>3, FlattenType
<1> QED
    BY <1>1, <1>4 DEF messages

\* What a text loses: nothing, if it has no lone half of a pair to begin with
\* and no chunk ends between two halves.
LEMMA ChunkUnchanged ==
    ASSUME NEW text \in Seq(Unit), \A i \in DOMAIN text : ~Lone(text, i),
           \A i \in 1..Len(text) : i % ChunkSize = 0 => text[i] # "hi",
           NEW n \in 1..ChunkCount(text)
    PROVE  Utf8(SplitStringIntoChunks(text)[n]) = SplitStringIntoChunks(text)[n]
<1> DEFINE chunk == SplitStringIntoChunks(text)[n]
           lo == ChunkEnd(text, n - 1)
           hi == ChunkEnd(text, n)
           len == Len(text)
<1>1. /\ chunk \in Seq(Unit) /\ Len(chunk) = hi - lo
      /\ \A i \in 1..Len(chunk) : chunk[i] = text[lo + i]
    BY ChunksOfText
<1>2. len \in Nat /\ hi \in 1..len /\ lo \in 0..(hi - 1) /\ DOMAIN text = 1..len
    BY ChunkEnds
<1>3. n - 1 \in Nat /\ n \in Nat /\ lo = (n - 1) * ChunkSize
    BY ChunkEnds
<1>4. lo % ChunkSize = 0
    BY <1>3
<1>5. hi = len \/ hi % ChunkSize = 0
  <2>1. hi = len \/ hi = n * ChunkSize
      BY DEF ChunkEnd
  <2>2. ChunkSize \in Nat \ {0}
      BY EncryptionAssumption
  <2> HIDE DEF hi, lo, len
  <2>3. n \in Nat => (n * ChunkSize) % ChunkSize = 0
      BY <2>2
  <2> QED
      BY <1>3, <2>1, <2>3
<1>6. \A i \in 1..len : i % ChunkSize = 0 => text[i] # "hi"
    OBVIOUS
<1> HIDE DEF chunk, lo, hi, len
<1>7. ASSUME NEW i \in 1..(hi - lo)
      PROVE  ~Lone(chunk, i)
  <2>1. lo + i \in 1..len /\ lo + i <= hi /\ chunk[i] = text[lo + i]
      BY <1>1, <1>2
  <2>2. ~Lone(text, lo + i)
      BY <1>2, <2>1
  <2>3. CASE chunk[i] = "hi"
    <3>1. lo + i < len /\ text[lo + i + 1] = "lo"
        BY <2>1, <2>2, <2>3 DEF Lone, len
    <3>2. ASSUME lo + i = hi
          PROVE  FALSE
      <4>1. hi < len /\ hi \in 1..len /\ text[hi] = "hi"
          BY <1>2, <2>1, <2>3, <3>1, <3>2
      <4>2. hi % ChunkSize = 0
          BY <1>2, <1>5, <4>1
      <4> QED
          BY <1>6, <4>1, <4>2
    <3>3. i + 1 \in 1..(hi - lo) /\ lo + (i + 1) = lo + i + 1
        BY <1>2, <2>1, <3>2
    <3>4. chunk[i + 1] = "lo" /\ i < Len(chunk)
        BY <1>1, <1>2, <3>1, <3>3
    <3> QED
        BY <2>3, <3>4 DEF Lone
  <2>4. CASE chunk[i] = "lo"
    <3>1. lo + i > 1 /\ text[lo + i - 1] = "hi"
      <4> DEFINE p == lo + i
      <4>1. text[p] = "lo" /\ ~Lone(text, p)
          BY <2>1, <2>2, <2>4
      <4>2. p = lo + i
          OBVIOUS
      <4> HIDE DEF p
      <4>3. p > 1 /\ text[p - 1] = "hi"
          BY <4>1 DEF Lone
      <4> QED
          BY <1>2, <2>1, <4>2, <4>3
    <3>2. i # 1
        BY <1>2, <1>4, <1>6, <2>1, <3>1
    <3>3. i - 1 \in 1..(hi - lo) /\ lo + (i - 1) = lo + i - 1
        BY <1>2, <3>2
    <3>4. chunk[i - 1] = "hi" /\ i > 1
        BY <1>1, <1>2, <3>1, <3>2, <3>3
    <3> QED
        BY <2>4, <3>4 DEF Lone
  <2> QED
      BY <2>3, <2>4 DEF Lone
<1>8. DOMAIN chunk = 1..(hi - lo) /\ chunk = [i \in DOMAIN chunk |-> chunk[i]]
    BY <1>1
<1>9. Utf8(chunk) = chunk
    BY <1>7, <1>8 DEF Utf8
<1> QED
    BY <1>9 DEF chunk

\* The merchant reads what the client wrote.
LEMMA ReadAsSent ==
    ASSUME NEW text \in Seq(Unit), text # <<>>, \A i \in DOMAIN text : ~Lone(text, i),
           \A i \in 1..Len(text) : i % ChunkSize = 0 => text[i] # "hi"
    PROVE  DecryptMyMessages(EncryptMyMessages(text, TRUE)) = text
<1> DEFINE messages == EncryptMyMessages(text, TRUE)
           m == ChunkCount(text)
           end(n) == ChunkEnd(text, n)
           f == Joining(messages)
<1>1. /\ m \in Nat \ {0} /\ Len(messages) = m
      /\ DecryptMyMessages(messages) = FlattenSeq(messages)
    BY SentWithKey
<1>2. \A n \in 1..m : messages[n] = SubSeq(text, end(n - 1) + 1, end(n))
  <2> TAKE n \in 1..m
  <2>1. messages[n] = Utf8(SplitStringIntoChunks(text)[n])
      BY SentWithKey
  <2>2. Utf8(SplitStringIntoChunks(text)[n]) = SplitStringIntoChunks(text)[n]
      BY ChunkUnchanged
  <2>3. SplitStringIntoChunks(text)[n] = SubSeq(text, end(n - 1) + 1, end(n))
      BY ChunksOfText
  <2> QED
      BY <2>1, <2>2, <2>3
<1>3. /\ Len(text) \in Nat /\ end(0) = 0 /\ end(m) = Len(text)
      /\ \A n \in 1..m : end(n) \in 1..Len(text) /\ end(n - 1) \in 0..(end(n) - 1)
    BY ChunkEnds
<1>4. /\ f[1] = messages[1] /\ FlattenSeq(messages) = f[m]
      /\ \A k \in 1..(m - 1) : f[k + 1] = f[k] \o messages[k + 1]
    BY <1>1, JoiningSteps
<1> HIDE DEF messages, m, end, f
<1> DEFINE T == {k \in Nat : f[k] = SubSeq(text, 1, end(k))}
<1>5. 1 \in T
  <2>1. 1 \in 1..m
      BY <1>1
  <2>2. messages[1] = SubSeq(text, end(1 - 1) + 1, end(1)) /\ 1 - 1 = 0 /\ 0 + 1 = 1
      BY <1>2, <2>1
  <2>3. f[1] = SubSeq(text, 1, end(1))
      BY <1>3, <1>4, <2>2
  <2> QED
      BY <2>3
<1>6. ASSUME NEW k \in 1..(m - 1), k \in T
      PROVE  k + 1 \in T
  <2> DEFINE lo == end(k)
             hi == end(k + 1)
  <2>1. k \in 1..m /\ k + 1 \in 1..m /\ (k + 1) - 1 = k
      BY <1>1
  <2>2. lo \in 1..Len(text) /\ hi \in 1..Len(text) /\ lo < hi
      BY <1>3, <2>1
  <2>3. f[k + 1] = SubSeq(text, 1, lo) \o SubSeq(text, lo + 1, hi)
      BY <1>2, <1>4, <1>6, <2>1
  <2> HIDE DEF lo, hi
  <2>4. SubSeq(text, 1, lo) \o SubSeq(text, lo + 1, hi) = SubSeq(text, 1, hi)
      BY <2>2
  <2>5. f[k + 1] = SubSeq(text, 1, hi)
      BY <2>3, <2>4
  <2>6. k + 1 \in Nat /\ f[k + 1] = SubSeq(text, 1, end(k + 1))
      BY <2>1, <2>5 DEF hi
  <2> QED
      BY <2>6
<1>7. m \in T
  <2>1. 1..m \subseteq T
    <3> HIDE DEF T
    <3> QED
        BY <1>1, <1>5, <1>6, BoundedInduction
  <2> QED
      BY <1>1, <2>1
<1>8. SubSeq(text, 1, Len(text)) = text
    OBVIOUS
<1> QED
    BY <1>1, <1>3, <1>4, <1>7, <1>8 DEF messages

\* Characters of one byte fit: a chunk of them has as many bytes as units.
LEMMA AsciiEncrypts ==
    ASSUME NEW text \in Seq(Unit), \A i \in DOMAIN text : text[i] = "a"
    PROVE  Encrypts(text)
<1> SUFFICES ASSUME NEW n \in 1..ChunkCount(text)
             PROVE  ByteLength(SplitStringIntoChunks(text)[n]) <= MaxBytes
    BY ChunksOfText DEF Encrypts
<1> DEFINE chunk == SplitStringIntoChunks(text)[n]
<1>1. /\ chunk \in Seq(Unit) /\ Len(chunk) <= ChunkSize
      /\ \A i \in DOMAIN chunk : chunk[i] = "a"
  <2> DEFINE lo == ChunkEnd(text, n - 1)
             hi == ChunkEnd(text, n)
             len == Len(text)
  <2>1. /\ chunk \in Seq(Unit) /\ Len(chunk) = hi - lo
        /\ \A i \in 1..Len(chunk) : chunk[i] = text[lo + i]
      BY ChunksOfText
  <2>2. len \in Nat /\ hi \in 1..len /\ lo \in 0..(hi - 1) /\ DOMAIN text = 1..len
        /\ hi - lo <= ChunkSize
      BY ChunkEnds
  <2> HIDE DEF chunk, lo, hi, len
  <2>3. \A i \in 1..(hi - lo) : lo + i \in 1..len
      BY <2>2
  <2>4. \A i \in 1..(hi - lo) : chunk[i] = "a"
      BY <2>1, <2>2, <2>3
  <2>5. DOMAIN chunk = 1..(hi - lo) /\ Len(chunk) <= ChunkSize
      BY <2>1, <2>2
  <2> QED
      BY <2>1, <2>4, <2>5
<1> HIDE DEF chunk
<1>2. \A i \in DOMAIN chunk : Utf8(chunk)[i] = "a"
    BY <1>1 DEF Utf8, Lone
<1>3. ByteLength(chunk) = Len(chunk) + Cardinality({}) + 2 * Cardinality({})
  <2>1. {i \in DOMAIN chunk : Utf8(chunk)[i] \in {"hi", "lo"}} = {}
      BY <1>2
  <2>2. {i \in DOMAIN chunk : Utf8(chunk)[i] \in {"w", "?"}} = {}
      BY <1>2
  <2> QED
      BY <2>1, <2>2 DEF ByteLength
<1>4. Cardinality({}) = 0
    BY FS_EmptySet
<1>5. Len(chunk) \in Nat
    BY <1>1
<1> QED
    BY <1>1, <1>3, <1>4, <1>5 DEF chunk
=============================================================================
