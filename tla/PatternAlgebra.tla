--------------------------- MODULE PatternAlgebra ---------------------------
(***************************************************************************)
(* The operations of class Pattern on two patterns of equal size: what     *)
(* less_equal, describes, rank and least_upper_bound promise each other.   *)
(* Two patterns start as the simplest patterns of two blocks; the left one *)
(* may be joined with the right one, as the trainer joins candidates, or   *)
(* the right one replaced by that of another block.                        *)
(***************************************************************************)
EXTENDS PatternTheorems

CONSTANTS
  Byte          (* the values of a byte, a set of naturals                 *)

ASSUME ByteAssumption == Byte \subseteq Nat

VARIABLES left, right

vars == <<left, right>>

Block == [Pos -> Byte]

SimplestPatterns == {Simplest(b) : b \in Block}

Init == left \in SimplestPatterns /\ right \in SimplestPatterns

Join ==
  /\ left' = LeastUpperBound(left, right)
  /\ UNCHANGED right

Meet(b) ==
  /\ right' = Simplest(b)
  /\ UNCHANGED left

Next == Join \/ (\E b \in Block : Meet(b))

Spec == Init /\ [][Next]_vars

-----------------------------------------------------------------------------

(* Patterns are functions from positions to symbols.                       *)
TypeOK == left \in [Pos -> Symbol] /\ right \in [Pos -> Symbol]

(* Symbols are always numbered in order of first occurrence, whatever      *)
(* joins were made: equality of patterns is equality of their symbols.     *)
JoinIsCanonical == IsCanonical(left) /\ IsCanonical(LeastUpperBound(left, right))

(* The least upper bound is above both patterns                            *)
(* (tests/tests.cpp:61, "least upper bound is common refinement").         *)
JoinIsUpperBound ==
  LET upper == LeastUpperBound(left, right)
  IN  LessEqual(left, upper) /\ LessEqual(right, upper)

(* and below every pattern that is above both.                             *)
JoinIsLeast ==
  \A u \in SimplestPatterns :
    LessEqual(left, u) /\ LessEqual(right, u)
      => LessEqual(LeastUpperBound(left, right), u)

(* What the trainer merges with: the join of two patterns, in canonical    *)
(* form, refines both and nothing finer than needed.                       *)
JoinIsLeastUpperBound == JoinIsCanonical /\ JoinIsUpperBound /\ JoinIsLeast

(* A pattern describes exactly the blocks whose simplest pattern is below  *)
(* it, so coverage can be computed from counted simplest patterns          *)
(* (trainer.cpp:13-21) instead of blocks.                                  *)
DescribesWhatIsBelow ==
  \A b \in Block : Describes(left, b) <=> LessEqual(Simplest(b), left)

(* The order separates canonical patterns, and a pattern below another     *)
(* needs no more dictionary bytes.                                         *)
OrderRespectsRank ==
  LessEqual(left, right) =>
    /\ LessEqual(right, left) => left = right
    /\ Rank(left) <= Rank(right)

-----------------------------------------------------------------------------
(* All of this for every block size and every alphabet of bytes, as long   *)
(* as the symbols of a block fit the 16-bit counter.                       *)

(* What every step preserves: both patterns are canonical.                 *)
Canonical == IsCanonical(left) /\ IsCanonical(right)

(* The variables have their types, whether or not the counter wraps.       *)
THEOREM AlgebraTypeCorrect == Spec => []TypeOK
<1>1. Init => TypeOK
  BY CanonicalizeType DEF Init, TypeOK, SimplestPatterns, Simplest
<1>2. TypeOK /\ [Next]_vars => TypeOK'
  BY CanonicalizeType
  DEF TypeOK, Next, Join, Meet, vars, LeastUpperBound, Simplest
<1> QED
  BY <1>1, <1>2, PTL DEF Spec

(* Symbols stay numbered in order of first occurrence.                     *)
THEOREM PatternsStayCanonical ==
  ASSUME BlockSize <= SymbolLimit
  PROVE  Spec => []Canonical
<1>1. Init => Canonical
  BY CanonicalizeIdempotent DEF Init, Canonical, SimplestPatterns, Simplest
<1>2. Canonical /\ [Next]_vars => Canonical'
  BY CanonicalizeIdempotent
  DEF Canonical, Next, Join, Meet, vars, LeastUpperBound, Simplest
<1> QED
  BY <1>1, <1>2, PTL DEF Spec

(* The least upper bound is canonical too: equal patterns are equal        *)
(* symbols, which the trainer's sorted candidates rely on.                 *)
THEOREM JoinsAreCanonical ==
  ASSUME BlockSize <= SymbolLimit
  PROVE  Spec => []JoinIsCanonical
<1>1. Canonical => JoinIsCanonical
  BY CanonicalizeIdempotent DEF Canonical, JoinIsCanonical, LeastUpperBound
<1> QED
  BY <1>1, PatternsStayCanonical, PTL

(* The least upper bound is above both patterns.                           *)
THEOREM JoinsAreUpperBounds ==
  ASSUME BlockSize <= SymbolLimit
  PROVE  Spec => []JoinIsUpperBound
<1>1. JoinIsUpperBound
  BY LeastUpperBoundIsUpper DEF JoinIsUpperBound
<1> QED
  BY <1>1, PTL

(* and below every simplest pattern above both, even if the counter wraps. *)
THEOREM JoinsAreLeast == Spec => []JoinIsLeast
<1>1. JoinIsLeast
  BY LeastUpperBoundIsLeast DEF JoinIsLeast
<1> QED
  BY <1>1, PTL

(* so that what the trainer merges two candidates into, trainer.cpp:65, is *)
(* their least upper bound in the one form that its comparisons know.      *)
THEOREM JoinsAreLeastUpperBounds ==
  ASSUME BlockSize <= SymbolLimit
  PROVE  Spec => []JoinIsLeastUpperBound
<1>1. JoinIsCanonical /\ JoinIsUpperBound /\ JoinIsLeast => JoinIsLeastUpperBound
  BY DEF JoinIsLeastUpperBound
<1> QED
  BY <1>1, JoinsAreCanonical, JoinsAreUpperBounds, JoinsAreLeast, PTL

(* Counting simplest patterns is counting blocks: a pattern describes      *)
(* exactly the blocks whose simplest pattern is below it.                  *)
THEOREM DescribedIsBelow ==
  ASSUME BlockSize <= SymbolLimit
  PROVE  Spec => []DescribesWhatIsBelow
<1>1. DescribesWhatIsBelow
  BY DescribesIsAboveSimplest DEF DescribesWhatIsBelow
<1> QED
  BY <1>1, PTL

(* less_equal is an order on patterns, along which the rank grows.         *)
THEOREM OrderIsRanked ==
  ASSUME BlockSize <= SymbolLimit
  PROVE  Spec => []OrderRespectsRank
<1>1. Canonical => OrderRespectsRank
  BY LessEqualAntisymmetric, RankMonotone DEF Canonical, OrderRespectsRank
<1> QED
  BY <1>1, PatternsStayCanonical, PTL
=============================================================================
