------------------------------ MODULE Patterns ------------------------------
(***************************************************************************)
(* The pattern algebra of byte-select (src/src/pattern.cpp).               *)
(*                                                                         *)
(* A pattern says which positions of a block hold equal bytes.  It is a    *)
(* function from the positions of a block to symbols, numbered in order of *)
(* first occurrence; two positions with the same symbol must hold the same *)
(* byte.  Blocks and patterns are functions on the same positions, so the  *)
(* equality structure of either is compared with the same quantifiers.     *)
(*                                                                         *)
(* SymbolLimit is the number of values of the counter `std::uint16_t next` *)
(* that numbers symbols: 65536 in the program.                             *)
(***************************************************************************)
EXTENDS Naturals, FiniteSets

CONSTANTS
  BlockSize,      (* bytes of a block, hence symbols of a pattern          *)
  SymbolLimit     (* values of the 16-bit symbol counter                   *)

ASSUME BlockSizeAssumption   == BlockSize \in Nat \ {0}
ASSUME SymbolLimitAssumption == SymbolLimit \in Nat \ {0}

Pos    == 1..BlockSize
Symbol == 0..(SymbolLimit - 1)

(* The positions where a value of f is met for the first time.             *)
FirstPositions(f) == {i \in Pos : \A h \in 1..(i - 1) : f[h] # f[i]}

(* The first positions of the values met before position i's value is: as  *)
(* many as the number that value gets in order of first occurrence, before *)
(* the counter's width is considered.                                      *)
MetBefore(f, i) == {j \in FirstPositions(f) : \A h \in 1..j : f[h] # f[i]}

(* Renumbering in order of first occurrence with a 16-bit counter.         *)
Canonicalize(f) == [i \in Pos |-> Cardinality(MetBefore(f, i)) % SymbolLimit]

IsCanonical(p) == p = Canonicalize(p)

(* Pattern::simplest: the pattern that separates all distinct bytes.       *)
Simplest(block) == Canonicalize(block)

(* Pattern::rank: the largest symbol plus one.                             *)
Rank(p) == CHOOSE r \in 1..SymbolLimit : /\ \E i \in Pos : p[i] = r - 1
                                         /\ \A i \in Pos : p[i] < r

(* Variants named after the mistake they make stand before the definition  *)
(* they vary, here and in the other modules; no definition uses them.      *)
ComparesNeighboursOnly(p, block) ==
  \A i, j \in Pos : j = i + 1 /\ p[i] = p[j] => block[i] = block[j]

(* Pattern::describes: equal symbols stand for equal bytes.                *)
Describes(p, block) ==
  \A i, j \in Pos : p[i] = p[j] => block[i] = block[j]

(* Pattern::less_equal: every equality `upper` requires holds in `lower`.  *)
LessEqual(lower, upper) ==
  \A i, j \in Pos : upper[i] = upper[j] => lower[i] = lower[j]

(* Pattern::least_upper_bound: number the pairs of symbols in order of     *)
(* first occurrence.  The constructor that receives the numbers            *)
(* canonicalizes them once more, which changes nothing: a number is met    *)
(* first after all smaller ones, also when the counter wraps.              *)
JoinTooFine(p, q)       == Canonicalize([i \in Pos |-> <<i, p[i], q[i]>>])

PairUp(p, q) == [i \in Pos |-> <<p[i], q[i]>>]

LeastUpperBound(p, q) == Canonicalize(PairUp(p, q))

(* operator<: lexicographic order of the symbols.                          *)
Before(p, q) ==
  \E i \in Pos : /\ p[i] < q[i]
                 /\ \A j \in 1..(i - 1) : p[j] = q[j]

(* Every pattern over the given number of symbols.                         *)
PatternsOver(n) == {Canonicalize(f) : f \in [Pos -> 0..(n - 1)]}

-----------------------------------------------------------------------------
(* Counted patterns (`CountMap` in src/src/trainer.cpp): a count map is a  *)
(* function `counts` from the simplest patterns met in the traces to the   *)
(* number of blocks that have them.  The blocks of a pattern are told      *)
(* apart by a number, so that a sum of counts is the cardinality of a set  *)
(* of blocks.                                                              *)

(* The blocks whose simplest pattern is in `atoms`.                        *)
BlocksOf(counts, atoms) == UNION {{a} \X (1..counts[a]) : a \in atoms}

(* The atoms that a pattern describes.                                     *)
Below(p, atoms) == {a \in atoms : LessEqual(a, p)}

(* coverage(): the number of blocks of the atoms below a pattern.          *)
Coverage(counts, p, atoms) == Cardinality(BlocksOf(counts, Below(p, atoms)))
=============================================================================
