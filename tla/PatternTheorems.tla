--------------------------- MODULE PatternTheorems ---------------------------
(***************************************************************************)
(* Facts about the operators of Patterns, for every block size.            *)
(*                                                                         *)
(* Where the 16-bit counter matters the fact assumes BlockSize <=          *)
(* SymbolLimit: then numbers never wrap and two positions get the same     *)
(* number exactly when they hold the same value.                           *)
(*                                                                         *)
(* At its end are facts about powers of two and about sequences joined one *)
(* after the other, which files of patterns and blocks are made of.        *)
(***************************************************************************)
EXTENDS Patterns, SequencesExt, FiniteSetTheorems, SequenceTheorems, TLAPS

(* A nonempty set of naturals has a least element.                         *)
LEMMA LeastNatural ==
  ASSUME NEW S \in SUBSET Nat, S # {}
  PROVE  \E m \in S : \A n \in S : m <= n
<1>1. PICK m \in S : \A n \in S : ~(<<n, m>> \in OpToRel(<, Nat))
  BY NatLessThanWellFounded, WFMin
<1>2. \A n \in S : ~(n < m)
  BY <1>1 DEF OpToRel
<1> QED
  BY <1>2

(* Every value of f is met at a first position, not after it.              *)
LEMMA FirstPositionExists ==
  ASSUME NEW f, NEW i \in Pos
  PROVE  \E a \in FirstPositions(f) : f[a] = f[i] /\ a <= i
<1> DEFINE S == {j \in Pos : f[j] = f[i]}
<1>1. S \in SUBSET Nat /\ S # {}
  BY BlockSizeAssumption DEF Pos
<1>2. PICK a \in S : \A n \in S : a <= n
  BY <1>1, LeastNatural
<1>3. a \in Pos /\ f[a] = f[i] /\ a <= i
  BY <1>2
<1>4. ASSUME NEW h \in 1..(a - 1) PROVE f[h] # f[a]
  BY <1>2, <1>3, BlockSizeAssumption DEF Pos
<1> QED
  BY <1>3, <1>4 DEF FirstPositions

(* FirstPositions and what is met before a position are finite.            *)
LEMMA MetBeforeFinite ==
  ASSUME NEW f
  PROVE  /\ IsFiniteSet(FirstPositions(f))
         /\ \A i \in Pos : /\ IsFiniteSet(MetBefore(f, i))
                           /\ Cardinality(MetBefore(f, i)) \in Nat
<1>1. IsFiniteSet(Pos)
  BY FS_Interval, BlockSizeAssumption DEF Pos
<1>2. FirstPositions(f) \in SUBSET Pos
  BY DEF FirstPositions
<1>3. \A i \in Pos : MetBefore(f, i) \in SUBSET Pos
  BY <1>2 DEF MetBefore
<1> QED
  BY <1>1, <1>2, <1>3, FS_Subset, FS_CardinalityType

(* A first position a is preceded by exactly the first positions below a.  *)
LEMMA MetBeforeFirst ==
  ASSUME NEW f, NEW i \in Pos,
         NEW a \in FirstPositions(f), f[a] = f[i]
  PROVE  MetBefore(f, i) = {k \in FirstPositions(f) : k < a}
<1>0. a \in Pos /\ FirstPositions(f) \subseteq Pos
  BY DEF FirstPositions
<1>1. ASSUME NEW k \in MetBefore(f, i) PROVE k < a
  <2>1. k \in Pos /\ \A h \in 1..k : f[h] # f[i]
    BY <1>0 DEF MetBefore
  <2> QED
    BY <2>1, <1>0, BlockSizeAssumption DEF Pos
<1>2. ASSUME NEW k \in FirstPositions(f), k < a, NEW h \in 1..k PROVE f[h] # f[i]
  <2>1. h \in 1..(a - 1)
    BY <1>0, <1>2, BlockSizeAssumption DEF Pos
  <2> QED
    BY <2>1 DEF FirstPositions
<1> QED
  BY <1>1, <1>2 DEF MetBefore

(* Fewer values are met before an earlier first position.                  *)
LEMMA MetBeforeGrows ==
  ASSUME NEW f, NEW i \in Pos, NEW j \in Pos,
         NEW a \in FirstPositions(f), NEW b \in FirstPositions(f),
         f[a] = f[i], f[b] = f[j], a < b
  PROVE  Cardinality(MetBefore(f, i)) < Cardinality(MetBefore(f, j))
<1>0. a \in Nat /\ b \in Nat /\ FirstPositions(f) \subseteq Nat
  BY BlockSizeAssumption DEF FirstPositions, Pos
<1>1. MetBefore(f, i) = {k \in FirstPositions(f) : k < a}
  BY MetBeforeFirst
<1>2. MetBefore(f, j) = {k \in FirstPositions(f) : k < b}
  BY MetBeforeFirst
<1>3. MetBefore(f, i) \in SUBSET MetBefore(f, j)
  BY <1>0, <1>1, <1>2
<1>4. a \in MetBefore(f, j) /\ a \notin MetBefore(f, i)
  BY <1>0, <1>1, <1>2
<1>5. IsFiniteSet(MetBefore(f, j)) /\ Cardinality(MetBefore(f, j)) \in Nat
      /\ Cardinality(MetBefore(f, i)) \in Nat
  BY MetBeforeFinite
<1> QED
  BY <1>3, <1>4, <1>5, FS_Subset

(* At most BlockSize - 1 other values are met before any value.            *)
LEMMA MetBeforeBound ==
  ASSUME NEW f, NEW i \in Pos
  PROVE  Cardinality(MetBefore(f, i)) < BlockSize
<1>1. PICK a \in FirstPositions(f) : f[a] = f[i] /\ a <= i
  BY FirstPositionExists
<1>2. MetBefore(f, i) \in SUBSET Pos /\ a \in Pos /\ a \notin MetBefore(f, i)
  <2>1. MetBefore(f, i) = {k \in FirstPositions(f) : k < a}
    BY <1>1, MetBeforeFirst
  <2> QED
    BY <2>1, BlockSizeAssumption DEF FirstPositions, Pos
<1>3. IsFiniteSet(Pos) /\ Cardinality(Pos) = BlockSize
  BY FS_Interval, BlockSizeAssumption DEF Pos
<1>4. Cardinality(MetBefore(f, i)) \in Nat
  BY MetBeforeFinite
<1> QED
  BY <1>2, <1>3, <1>4, FS_Subset, BlockSizeAssumption

-----------------------------------------------------------------------------

(* Canonicalizing yields symbols.                                          *)
LEMMA CanonicalizeType ==
  ASSUME NEW f
  PROVE  Canonicalize(f) \in [Pos -> Symbol]
<1>1. \A i \in Pos : Cardinality(MetBefore(f, i)) \in Nat
  BY MetBeforeFinite
<1> QED
  BY <1>1, SymbolLimitAssumption DEF Canonicalize, Symbol

(* Equal values always get equal numbers, even when the counter wraps.     *)
LEMMA CanonicalizeKeepsEqual ==
  ASSUME NEW f, NEW i \in Pos, NEW j \in Pos, f[i] = f[j]
  PROVE  Canonicalize(f)[i] = Canonicalize(f)[j]
BY DEF Canonicalize, MetBefore

(* Without a wrap different values get different numbers (the map from     *)
(* values to symbols in pattern.cpp:11-25 is one to one).                  *)
LEMMA CanonicalizeSeparates ==
  ASSUME BlockSize <= SymbolLimit,
         NEW f, NEW i \in Pos, NEW j \in Pos,
         Canonicalize(f)[i] = Canonicalize(f)[j]
  PROVE  f[i] = f[j]
<1> DEFINE N(k) == Cardinality(MetBefore(f, k))
<1>1. \A k \in Pos : N(k) \in Nat /\ N(k) < SymbolLimit
  BY MetBeforeFinite, MetBeforeBound, BlockSizeAssumption, SymbolLimitAssumption
<1>2. \A k \in Pos : Canonicalize(f)[k] = N(k)
  <2> TAKE k \in Pos
  <2>1. Canonicalize(f)[k] = N(k) % SymbolLimit
    BY DEF Canonicalize
  <2>2. N(k) \in Nat /\ N(k) < SymbolLimit
    BY <1>1
  <2> HIDE DEF N
  <2> QED
    BY <2>1, <2>2, SymbolLimitAssumption
<1>3. N(i) = N(j)
  BY <1>2
<1>4. PICK a \in FirstPositions(f) : f[a] = f[i]
  BY FirstPositionExists
<1>5. PICK b \in FirstPositions(f) : f[b] = f[j]
  BY FirstPositionExists
<1>6. a \in Nat /\ b \in Nat
  BY BlockSizeAssumption DEF FirstPositions, Pos
<1>7. ~(a < b) /\ ~(b < a)
  BY <1>1, <1>3, <1>4, <1>5, MetBeforeGrows
<1> QED
  BY <1>4, <1>5, <1>6, <1>7

(* Renumbering depends on nothing but which positions hold equal values.   *)
LEMMA CanonicalizeByEqualities ==
  ASSUME NEW f, NEW g,
         \A i, j \in Pos : f[i] = f[j] <=> g[i] = g[j]
  PROVE  Canonicalize(f) = Canonicalize(g)
<1>0. \A i \in Pos : \A h \in 1..i : h \in Pos
  BY BlockSizeAssumption DEF Pos
<1>1. FirstPositions(f) = FirstPositions(g)
  <2>1. \A i \in Pos : \A h \in 1..(i - 1) : h \in Pos
    BY BlockSizeAssumption DEF Pos
  <2> QED
    BY <2>1 DEF FirstPositions
<1>2. \A i \in Pos : MetBefore(f, i) = MetBefore(g, i)
  <2>1. FirstPositions(f) \subseteq Pos
    BY DEF FirstPositions
  <2> QED
    BY <1>0, <1>1, <2>1 DEF MetBefore
<1> QED
  BY <1>2 DEF Canonicalize

(* The constructor's renumbering leaves numbered symbols alone.            *)
LEMMA CanonicalizeIdempotent ==
  ASSUME BlockSize <= SymbolLimit, NEW f
  PROVE  IsCanonical(Canonicalize(f))
<1>1. \A i, j \in Pos : Canonicalize(f)[i] = Canonicalize(f)[j] <=> f[i] = f[j]
  BY CanonicalizeKeepsEqual, CanonicalizeSeparates
<1> QED
  BY <1>1, CanonicalizeByEqualities DEF IsCanonical

-----------------------------------------------------------------------------

(* less_equal is a preorder,                                               *)
LEMMA LessEqualPreorder ==
  /\ \A p : LessEqual(p, p)
  /\ \A p, q, r : LessEqual(p, q) /\ LessEqual(q, r) => LessEqual(p, r)
BY DEF LessEqual

(* and separates canonical patterns.                                       *)
LEMMA LessEqualAntisymmetric ==
  ASSUME NEW p, NEW q, IsCanonical(p), IsCanonical(q),
         LessEqual(p, q), LessEqual(q, p)
  PROVE  p = q
<1>1. \A i, j \in Pos : p[i] = p[j] <=> q[i] = q[j]
  BY DEF LessEqual
<1> QED
  BY <1>1, CanonicalizeByEqualities DEF IsCanonical

(* The positions that a least upper bound does not separate are those that *)
(* neither pattern separates.                                              *)
LEMMA LeastUpperBoundEqualities ==
  ASSUME BlockSize <= SymbolLimit, NEW p, NEW q, NEW i \in Pos, NEW j \in Pos
  PROVE  LeastUpperBound(p, q)[i] = LeastUpperBound(p, q)[j]
           <=> p[i] = p[j] /\ q[i] = q[j]
<1>1. PairUp(p, q)[i] = PairUp(p, q)[j] <=> p[i] = p[j] /\ q[i] = q[j]
  BY DEF PairUp
<1> QED
  BY <1>1, CanonicalizeKeepsEqual, CanonicalizeSeparates DEF LeastUpperBound

(* The least upper bound refines both patterns.                            *)
LEMMA LeastUpperBoundIsUpper ==
  ASSUME BlockSize <= SymbolLimit, NEW p, NEW q
  PROVE  /\ LessEqual(p, LeastUpperBound(p, q))
         /\ LessEqual(q, LeastUpperBound(p, q))
BY LeastUpperBoundEqualities DEF LessEqual

(* Nothing that refines both is finer, whether or not the counter wraps.   *)
LEMMA LeastUpperBoundIsLeast ==
  ASSUME NEW p, NEW q, NEW u, LessEqual(p, u), LessEqual(q, u)
  PROVE  LessEqual(LeastUpperBound(p, q), u)
<1>1. ASSUME NEW i \in Pos, NEW j \in Pos, u[i] = u[j]
      PROVE  PairUp(p, q)[i] = PairUp(p, q)[j]
  BY <1>1 DEF LessEqual, PairUp
<1> QED
  BY <1>1, CanonicalizeKeepsEqual DEF LessEqual, LeastUpperBound

(* A pattern describes a block exactly when it is above the block's        *)
(* simplest pattern.                                                       *)
LEMMA DescribesIsAboveSimplest ==
  ASSUME BlockSize <= SymbolLimit, NEW p, NEW block
  PROVE  Describes(p, block) <=> LessEqual(Simplest(block), p)
BY CanonicalizeKeepsEqual, CanonicalizeSeparates DEF Describes, LessEqual, Simplest

-----------------------------------------------------------------------------

(* A nonempty set of positions has a last one.                             *)
LEMMA LastPosition ==
  ASSUME NEW S \in SUBSET Pos, S # {}
  PROVE  \E m \in S : \A n \in S : n <= m
<1> DEFINE D == {d \in 0..BlockSize : BlockSize - d \in S}
<1>1. D \in SUBSET Nat /\ D # {}
  <2>1. PICK s \in S : TRUE
    OBVIOUS
  <2>2. BlockSize - s \in 0..BlockSize /\ BlockSize - (BlockSize - s) = s
    BY <2>1, BlockSizeAssumption DEF Pos
  <2>3. BlockSize - s \in D
    BY <2>1, <2>2
  <2> QED
    BY <2>3, BlockSizeAssumption
<1>2. PICK d \in D : \A e \in D : d <= e
  BY <1>1, LeastNatural
<1>3. ASSUME NEW n \in S PROVE n <= BlockSize - d
  <2>1. n \in Pos
    OBVIOUS
  <2>2. BlockSize - n \in 0..BlockSize /\ BlockSize - (BlockSize - n) = n
    BY <2>1, BlockSizeAssumption DEF Pos
  <2>3. BlockSize - n \in D
    BY <2>2
  <2>4. d <= BlockSize - n /\ d \in 0..BlockSize
    BY <1>2, <2>3
  <2> QED
    BY <2>1, <2>4, BlockSizeAssumption DEF Pos
<1> QED
  BY <1>2, <1>3

(* The rank exceeds every symbol, also of patterns that are not canonical. *)
LEMMA RankExceedsSymbols ==
  ASSUME NEW p \in [Pos -> Symbol]
  PROVE  Rank(p) \in 1..SymbolLimit /\ \A i \in Pos : p[i] < Rank(p)
<1> DEFINE D == {d \in 0..SymbolLimit : \E i \in Pos : p[i] = SymbolLimit - d}
<1>1. D \in SUBSET Nat /\ D # {}
  <2>1. 1 \in Pos /\ p[1] \in Symbol
    BY BlockSizeAssumption DEF Pos
  <2>2. SymbolLimit - p[1] \in 0..SymbolLimit /\ p[1] = SymbolLimit - (SymbolLimit - p[1])
    BY <2>1, SymbolLimitAssumption DEF Symbol
  <2>3. SymbolLimit - p[1] \in D
    BY <2>1, <2>2
  <2> QED
    BY <2>3, SymbolLimitAssumption
<1>2. PICK d \in D : \A e \in D : d <= e
  BY <1>1, LeastNatural
<1>3. PICK k \in Pos : p[k] = SymbolLimit - d
  BY <1>2
<1>4. \A i \in Pos : p[i] <= p[k]
  <2> TAKE i \in Pos
  <2>1. p[i] \in Symbol
    OBVIOUS
  <2>2. SymbolLimit - p[i] \in 0..SymbolLimit /\ p[i] = SymbolLimit - (SymbolLimit - p[i])
    BY <2>1, SymbolLimitAssumption DEF Symbol
  <2>3. SymbolLimit - p[i] \in D
    BY <2>2
  <2> QED
    BY <1>2, <1>3, <2>1, <2>3, SymbolLimitAssumption DEF Symbol
<1>5. /\ p[k] + 1 \in 1..SymbolLimit
      /\ \E i \in Pos : p[i] = (p[k] + 1) - 1
      /\ \A i \in Pos : p[i] < p[k] + 1
  <2>1. \A i \in Pos : p[i] \in Symbol
    OBVIOUS
  <2> QED
    BY <1>4, <2>1, SymbolLimitAssumption DEF Symbol
<1> QED
  BY <1>5 DEF Rank

(* The rank of a canonical pattern is the number of values it tells apart. *)
LEMMA RankIsCount ==
  ASSUME BlockSize <= SymbolLimit, NEW p, IsCanonical(p)
  PROVE  /\ Rank(p) = Cardinality(FirstPositions(p))
         /\ Rank(p) \in 1..BlockSize
         /\ \A i \in Pos : p[i] \in 0..(Rank(p) - 1)
<1> DEFINE F == FirstPositions(p)
           n == Cardinality(F)
           N(k) == Cardinality(MetBefore(p, k))
<1>1. F \in SUBSET Pos /\ IsFiniteSet(F) /\ n \in Nat
  BY MetBeforeFinite, FS_CardinalityType DEF FirstPositions
<1>2. IsFiniteSet(Pos) /\ Cardinality(Pos) = BlockSize /\ 1 \in Pos
  BY FS_Interval, BlockSizeAssumption DEF Pos
<1>3. n <= BlockSize
  BY <1>1, <1>2, FS_Subset
<1>4. F # {}
  BY <1>2, FirstPositionExists
<1>5. \A i \in Pos : p[i] = N(i)
  <2> TAKE i \in Pos
  <2>1. p[i] = N(i) % SymbolLimit
    BY DEF IsCanonical, Canonicalize
  <2>2. N(i) \in Nat /\ N(i) < SymbolLimit
    BY MetBeforeFinite, MetBeforeBound, BlockSizeAssumption, SymbolLimitAssumption
  <2> HIDE DEF N
  <2> QED
    BY <2>1, <2>2, SymbolLimitAssumption
<1>6. \A i \in Pos : p[i] \in Nat /\ p[i] < n
  <2> TAKE i \in Pos
  <2>1. PICK a \in F : p[a] = p[i]
    BY FirstPositionExists
  <2>2. MetBefore(p, i) = {k \in F : k < a}
    BY <2>1, MetBeforeFirst
  <2>3. MetBefore(p, i) \in SUBSET F /\ a \in F /\ a \notin MetBefore(p, i)
    BY <1>1, <2>2 DEF Pos
  <2>4. N(i) \in Nat
    BY MetBeforeFinite
  <2>5. N(i) < n
    BY <1>1, <2>3, <2>4, FS_Subset
  <2> QED
    BY <1>5, <2>4, <2>5
<1>7. \E i \in Pos : p[i] = n - 1
  <2>1. PICK a \in F : \A b \in F : b <= a
    BY <1>1, <1>4, LastPosition
  <2>2. a \in Pos
    BY <1>1
  <2>3. MetBefore(p, a) = {k \in F : k < a}
    BY <2>2, MetBeforeFirst
  <2>4. MetBefore(p, a) = F \ {a}
    BY <1>1, <2>1, <2>3, BlockSizeAssumption DEF Pos
  <2>5. N(a) = n - 1
    BY <1>1, <2>1, <2>4, FS_RemoveElement
  <2> QED
    BY <1>5, <2>2, <2>5
<1>8. n \in 1..SymbolLimit
  BY <1>1, <1>3, <1>4, FS_EmptySet, BlockSizeAssumption, SymbolLimitAssumption
<1> HIDE DEF n
<1>9. ASSUME NEW r \in 1..SymbolLimit,
             \E i \in Pos : p[i] = r - 1, \A i \in Pos : p[i] < r
      PROVE  r = n
  <2>1. PICK i \in Pos : p[i] = r - 1
    BY <1>9
  <2>2. PICK j \in Pos : p[j] = n - 1
    BY <1>7
  <2>3. r - 1 < n /\ n - 1 < r
    BY <1>6, <1>9, <2>1, <2>2
  <2> QED
    BY <1>8, <2>3, SymbolLimitAssumption
<1>10. Rank(p) = n
  BY <1>6, <1>7, <1>8, <1>9 DEF Rank
<1> QED
  BY <1>3, <1>6, <1>8, <1>10, BlockSizeAssumption, SymbolLimitAssumption DEF n

(* A pattern below another needs no more dictionary bytes.                 *)
LEMMA RankMonotone ==
  ASSUME BlockSize <= SymbolLimit,
         NEW p, NEW q, IsCanonical(p), IsCanonical(q), LessEqual(p, q)
  PROVE  Rank(p) <= Rank(q)
<1>1. \A i \in Pos : \A h \in 1..(i - 1) : h \in Pos
  BY BlockSizeAssumption DEF Pos
<1>2. FirstPositions(p) \in SUBSET FirstPositions(q)
  BY <1>1 DEF FirstPositions, LessEqual
<1> QED
  BY <1>2, MetBeforeFinite, FS_Subset, RankIsCount

-----------------------------------------------------------------------------
(* Powers of two: 2^n is the number of subsets of 1..n.                    *)

LEMMA PowerOfTwo ==
  ASSUME NEW n \in Nat
  PROVE  2^n \in Nat \ {0} /\ 2^(n + 1) = 2 * 2^n
<1> DEFINE S == 1..n
           x == n + 1
           T == SUBSET S
           U == {A \cup {x} : A \in T}
<1>1. IsFiniteSet(S) /\ Cardinality(S) = n
  BY FS_Interval
<1>2. IsFiniteSet(T) /\ Cardinality(T) = 2^n
  BY <1>1, FS_SUBSET
<1>3. IsFiniteSet(1..x) /\ Cardinality(1..x) = n + 1
  BY FS_Interval
<1>4. IsFiniteSet(SUBSET (1..x)) /\ Cardinality(SUBSET (1..x)) = 2^(n + 1)
  BY <1>3, FS_SUBSET
<1>5. x \notin S /\ 1..x = S \cup {x}
  OBVIOUS
<1> HIDE DEF S, x
<1>6. SUBSET (1..x) = T \cup U
  <2>1. ASSUME NEW A \in SUBSET (1..x)
        PROVE  A \in T \cup U
    <3>1. CASE x \in A
      <4>1. A \ {x} \in T /\ A = (A \ {x}) \cup {x}
        BY <1>5, <3>1
      <4> QED
        BY <4>1
    <3>2. CASE x \notin A
      BY <1>5, <3>2
    <3> QED
      BY <3>1, <3>2
  <2>2. \A A \in T \cup U : A \in SUBSET (1..x)
    BY <1>5
  <2> QED
    BY <2>1, <2>2
<1>7. T \cap U = {}
  BY <1>5
<1>8. IsFiniteSet(U) /\ Cardinality(U) = Cardinality(T)
  <2> DEFINE f == [A \in T |-> A \cup {x}]
  <2>1. ASSUME NEW A \in T, NEW B \in T, A \cup {x} = B \cup {x}
        PROVE  A = B
    BY <1>5, <2>1
  <2>2. f \in [T -> U] /\ \A B \in U : \E A \in T : f[A] = B
    OBVIOUS
  <2>3. \A A, B \in T : f[A] = f[B] => A = B
    BY <2>1
  <2> HIDE DEF f, T, U
  <2>4. f \in Bijection(T, U)
    BY <2>2, <2>3 DEF Bijection, Injection, Surjection, IsInjective
  <2> QED
    BY <1>2, <2>4, FS_Bijection DEF ExistsBijection
<1> HIDE DEF T, U
<1>9. Cardinality(T) \in Nat /\ Cardinality(U) \in Nat
  BY <1>2, <1>8, FS_CardinalityType
<1>10. Cardinality(T \cup U) = 2 * 2^n
  BY <1>2, <1>7, <1>8, <1>9, FS_Union, FS_EmptySet
<1>11. 2^n # 0
  <2>1. S \in T
    BY DEF T
  <2> QED
    BY <1>2, <2>1, FS_EmptySet
<1> QED
  BY <1>2, <1>4, <1>6, <1>9, <1>10, <1>11

LEMMA ZerothPower == 2^0 = 1
<1>1. Cardinality({}) = 0 /\ IsFiniteSet({})
  BY FS_EmptySet
<1>2. Cardinality(SUBSET {}) = 2^0
  BY <1>1, FS_SUBSET
<1>3. SUBSET {} = {{}}
  OBVIOUS
<1> QED
  BY <1>2, <1>3, FS_Singleton

-----------------------------------------------------------------------------
(* FlattenSeq, element by element                                          *)

(* f holds at i the first i elements of s, one after the other.            *)
Flattens(s, n, f) == f = [i \in 1..n |-> IF i = 1 THEN s[i] ELSE f[i - 1] \o s[i]]

LEMMA FlattensExists ==
  ASSUME NEW s, NEW n \in Nat
  PROVE  \E f : Flattens(s, n, f)
<1> DEFINE Bad == {k \in Nat : ~\E f : Flattens(s, k, f)}
<1>1. ASSUME Bad # {} PROVE FALSE
  <2>1. PICK k \in Bad : \A j \in Bad : k <= j
    <3>1. Bad \in SUBSET Nat
      OBVIOUS
    <3> HIDE DEF Bad
    <3> QED
      BY <1>1, <3>1, LeastNatural
  <2>2. CASE k = 0
    <3>1. Flattens(s, 0, [i \in 1..0 |-> s[i]])
      BY DEF Flattens
    <3> QED
      BY <2>1, <2>2, <3>1
  <2>3. CASE k # 0
    <3>1. k - 1 \in Nat /\ k - 1 \notin Bad
      BY <2>1, <2>3
    <3>2. PICK f : Flattens(s, k - 1, f)
      BY <3>1
    <3> DEFINE g == [i \in 1..k |-> IF i < k THEN f[i] ELSE IF k = 1 THEN s[k] ELSE f[k - 1] \o s[k]]
    <3>3. ASSUME NEW i \in 1..k
          PROVE  g[i] = IF i = 1 THEN s[i] ELSE g[i - 1] \o s[i]
      <4>1. CASE i = k
        <5>1. k # 1 => k - 1 \in 1..k /\ k - 1 < k
          BY <3>1
        <5> QED
          BY <4>1, <5>1
      <4>2. CASE i # k
        <5>1. i \in 1..(k - 1) /\ i < k /\ (i # 1 => i - 1 \in 1..k /\ i - 1 < k)
          BY <2>1, <4>2
        <5>2. f[i] = IF i = 1 THEN s[i] ELSE f[i - 1] \o s[i]
          BY <3>2, <5>1 DEF Flattens
        <5> QED
          BY <5>1, <5>2
      <4> QED
        BY <4>1, <4>2
    <3>4. Flattens(s, k, g)
      <4> DEFINE h == [i \in 1..k |-> IF i = 1 THEN s[i] ELSE g[i - 1] \o s[i]]
      <4>1. \A i \in 1..k : g[i] = h[i]
        BY <3>3
      <4>2. g = [i \in 1..k |-> g[i]] /\ h = [i \in 1..k |-> h[i]]
        OBVIOUS
      <4> HIDE DEF g, h
      <4>3. g = h
        BY <4>1, <4>2
      <4> QED
        BY <4>3 DEF h, Flattens
    <3> QED
      BY <2>1, <3>4
  <2> QED
    BY <2>2, <2>3
<1> QED
  BY <1>1

(* What f holds does not depend on the elements that follow.               *)
LEMMA FlattensAgree ==
  ASSUME NEW s, NEW m \in Nat, NEW f, Flattens(s, m, f),
         NEW t, NEW n \in Nat, NEW g, Flattens(t, n, g),
         m <= n, \A i \in 1..m : s[i] = t[i]
  PROVE  \A i \in 1..m : f[i] = g[i]
<1> DEFINE Bad == {i \in 1..m : f[i] # g[i]}
<1>1. ASSUME Bad # {} PROVE FALSE
  <2>1. PICK i \in Bad : \A j \in Bad : i <= j
    <3>1. Bad \in SUBSET Nat
      OBVIOUS
    <3> HIDE DEF Bad
    <3> QED
      BY <1>1, <3>1, LeastNatural
  <2>2. i \in 1..m /\ i \in 1..n /\ s[i] = t[i]
    OBVIOUS
  <2>3. /\ f[i] = IF i = 1 THEN s[i] ELSE f[i - 1] \o s[i]
        /\ g[i] = IF i = 1 THEN t[i] ELSE g[i - 1] \o t[i]
    BY <2>2 DEF Flattens
  <2>4. i # 1 => f[i - 1] = g[i - 1]
    <3>1. i # 1 => i - 1 \in 1..m /\ i - 1 \notin Bad
      BY <2>1
    <3> QED
      BY <3>1
  <2> QED
    BY <2>2, <2>3, <2>4
<1> QED
  BY <1>1

LEMMA FlattenIs ==
  ASSUME NEW s, Len(s) \in Nat \ {0}
  PROVE  \E f : Flattens(s, Len(s), f) /\ FlattenSeq(s) = f[Len(s)]
<1> DEFINE f == CHOOSE g : g = [i \in 1..Len(s) |-> IF i = 1 THEN s[i] ELSE g[i - 1] \o s[i]]
<1>1. Flattens(s, Len(s), f)
  BY FlattensExists DEF Flattens
<1>2. FlattenSeq(s) = f[Len(s)]
  BY DEF FlattenSeq
<1> QED
  BY <1>1, <1>2

(* The first n elements of s, one after the other.                         *)
Firsts(s, n) == FlattenSeq([i \in 1..n |-> s[i]])

LEMMA FirstsSteps ==
  ASSUME NEW S, NEW s \in Seq(Seq(S))
  PROVE  /\ Firsts(s, 0) = << >>
         /\ Firsts(s, Len(s)) = FlattenSeq(s)
         /\ \A n \in 0..Len(s) : Firsts(s, n) \in Seq(S)
         /\ \A n \in 0..(Len(s) - 1) : Firsts(s, n + 1) = Firsts(s, n) \o s[n + 1]
<1> DEFINE part(n) == [i \in 1..n |-> s[i]]
<1>1. Len(s) \in Nat /\ s = part(Len(s))
  BY LenProperties
<1>2. ASSUME NEW n \in 0..Len(s)
      PROVE  n \in Nat /\ part(n) \in Seq(Seq(S)) /\ Len(part(n)) = n /\ \A i \in 1..n : part(n)[i] = s[i]
  <2>1. n \in Nat /\ \A i \in 1..n : i \in 1..Len(s)
    BY <1>1
  <2>2. \A i \in 1..n : s[i] \in Seq(S)
    BY <2>1, ElementOfSeq
  <2> QED
    BY <2>1, <2>2
<1>3. Firsts(s, 0) = << >>
  <2>1. Len(part(0)) = 0 /\ part(0) \in Seq(Seq(S))
    BY <1>1, <1>2
  <2>2. part(0) = << >>
    BY <2>1, EmptySeq
  <2> QED
    BY <2>1, <2>2 DEF Firsts, FlattenSeq
<1>4. ASSUME NEW n \in 0..(Len(s) - 1), Firsts(s, n) \in Seq(S)
      PROVE  Firsts(s, n + 1) = Firsts(s, n) \o s[n + 1]
  <2>1. /\ n \in Nat /\ n \in 0..Len(s) /\ n + 1 \in 0..Len(s) /\ n + 1 \in 1..(n + 1)
        /\ n + 1 \in Nat \ {0} /\ n + 1 \in 1..Len(s)
    BY <1>1
  <2>2. /\ Len(part(n)) = n /\ Len(part(n + 1)) = n + 1
        /\ \A i \in 1..n : part(n)[i] = s[i]
        /\ \A i \in 1..(n + 1) : part(n + 1)[i] = s[i]
    BY <1>2, <2>1
  <2> HIDE DEF part
  <2>3. PICK f : Flattens(part(n + 1), n + 1, f) /\ FlattenSeq(part(n + 1)) = f[n + 1]
    BY <2>1, <2>2, FlattenIs
  <2>4. CASE n = 0
    <3>1. f[1] = part(1)[1]
      BY <2>3, <2>4 DEF Flattens
    <3>2. s[1] \in Seq(S)
      BY <2>1, <2>4, ElementOfSeq
    <3>3. << >> \o s[1] = s[1]
      BY <3>2, ConcatEmptySeq
    <3> QED
      BY <1>3, <2>2, <2>3, <2>4, <3>1, <3>3 DEF Firsts, part
  <2>5. CASE n # 0
    <3>1. PICK g : Flattens(part(n), n, g) /\ FlattenSeq(part(n)) = g[n]
      BY <2>1, <2>2, <2>5, FlattenIs
    <3>2. \A i \in 1..n : part(n)[i] = part(n + 1)[i] /\ i \in 1..(n + 1)
      BY <2>1, <2>2
    <3>3. \A i \in 1..n : g[i] = f[i]
      <4> DEFINE a == part(n)
                 b == part(n + 1)
                 k == n + 1
      <4>1. k \in Nat /\ n \in Nat /\ n <= k
        BY <2>1
      <4>2. Flattens(a, n, g) /\ Flattens(b, k, f)
        BY <2>3, <3>1
      <4>3. \A i \in 1..n : a[i] = b[i]
        BY <3>2
      <4> HIDE DEF a, b, k
      <4> QED
        BY <4>1, <4>2, <4>3, FlattensAgree
    <3>4. g[n] = f[n]
      BY <2>1, <2>5, <3>3
    <3>5. f[n + 1] = f[n] \o part(n + 1)[n + 1]
      <4>1. n + 1 # 1 /\ (n + 1) - 1 = n
        BY <2>1, <2>5
      <4> QED
        BY <2>1, <2>3, <4>1 DEF Flattens
    <3> QED
      BY <2>1, <2>2, <2>3, <3>1, <3>4, <3>5 DEF Firsts, part
  <2> QED
    BY <2>4, <2>5
<1> DEFINE Bad == {n \in 0..Len(s) : Firsts(s, n) \notin Seq(S)}
<1>5. ASSUME Bad # {} PROVE FALSE
  <2>1. PICK n \in Bad : \A j \in Bad : n <= j
    <3>1. Bad \in SUBSET Nat
      BY <1>1
    <3> HIDE DEF Bad
    <3> QED
      BY <1>5, <3>1, LeastNatural
  <2>2. n # 0
    <3>1. << >> \in Seq(S)
      BY EmptySeq
    <3> QED
      BY <1>3, <2>1, <3>1
  <2>3. /\ n - 1 \in 0..(Len(s) - 1) /\ n - 1 \in 0..Len(s) /\ (n - 1) + 1 = n /\ n \in 1..Len(s)
        /\ n - 1 \notin Bad
    BY <1>1, <2>1, <2>2
  <2>4. Firsts(s, n - 1) \in Seq(S) /\ s[n] \in Seq(S)
    BY <2>3, ElementOfSeq
  <2>5. Firsts(s, n) = Firsts(s, n - 1) \o s[n]
    BY <1>4, <2>3, <2>4
  <2>6. Firsts(s, n) \in Seq(S)
    BY <2>4, <2>5, ConcatProperties
  <2> QED
    BY <2>1, <2>6
<1>6. \A n \in 0..Len(s) : Firsts(s, n) \in Seq(S)
  BY <1>5
<1>7. \A n \in 0..(Len(s) - 1) : Firsts(s, n + 1) = Firsts(s, n) \o s[n + 1]
  <2>1. \A n \in 0..(Len(s) - 1) : n \in 0..Len(s)
    BY <1>1
  <2> QED
    BY <1>4, <1>6, <2>1
<1>8. Firsts(s, Len(s)) = FlattenSeq(s)
  BY <1>1 DEF Firsts
<1> QED
  BY <1>3, <1>6, <1>7, <1>8

-----------------------------------------------------------------------------
(* Sequences that begin others                                             *)

Begins(s, t) == Len(s) <= Len(t) /\ \A i \in 1..Len(s) : s[i] = t[i]

LEMMA BeginsConcat ==
  ASSUME NEW S, NEW s \in Seq(S), NEW u \in Seq(S)
  PROVE  /\ Begins(s, s \o u) /\ Begins(s, s)
         /\ \A i \in 1..Len(u) : (s \o u)[Len(s) + i] = u[i]
<1>1. Len(s) \in Nat /\ Len(u) \in Nat
  BY LenProperties
<1>2. /\ Len(s \o u) = Len(s) + Len(u)
      /\ \A i \in 1 .. Len(s) + Len(u) : (s \o u)[i] = IF i <= Len(s) THEN s[i] ELSE u[i - Len(s)]
  BY ConcatProperties
<1>3. \A i \in 1..Len(u) : (s \o u)[Len(s) + i] = u[i]
  <2> TAKE i \in 1..Len(u)
  <2>1. Len(s) + i \in 1..(Len(s) + Len(u)) /\ ~(Len(s) + i <= Len(s)) /\ (Len(s) + i) - Len(s) = i
    BY <1>1
  <2> QED
    BY <1>2, <2>1
<1>4. Begins(s, s \o u) /\ Begins(s, s)
  <2>1. \A i \in 1..Len(s) : i \in 1..(Len(s) + Len(u)) /\ i <= Len(s)
    BY <1>1
  <2> QED
    BY <1>1, <1>2, <2>1 DEF Begins
<1> QED
  BY <1>3, <1>4

LEMMA BeginsTransitive ==
  ASSUME NEW S, NEW s \in Seq(S), NEW t \in Seq(S), NEW u \in Seq(S), Begins(s, t), Begins(t, u)
  PROVE  Begins(s, u)
<1>1. Len(s) \in Nat /\ Len(t) \in Nat /\ Len(u) \in Nat
  BY LenProperties
<1> QED
  BY <1>1 DEF Begins

LEMMA BeginsBoth ==
  ASSUME NEW S, NEW s \in Seq(S), NEW t \in Seq(S), Begins(s, t), Len(s) = Len(t)
  PROVE  s = t
BY SeqEqual DEF Begins
=============================================================================
