----------------------------- MODULE MCTrainer -----------------------------
(* A small instance of Trainer: blocks of five bytes and dictionaries of    *)
(* four, so that pairs of three-symbol patterns may merge and four-symbol   *)
(* patterns may not.                                                        *)
EXTENDS Trainer, FiniteSetsExt

CONSTANTS MaxAtoms, MaxCount

(* Few patterns: any that leave the last byte alone, of every rank.         *)
Pool == {p \in PatternsOver(BlockSize) : \A i \in Pos \ {BlockSize} : p[i] # p[BlockSize]}

SparseInputs ==
  UNION {[S -> 1..MaxCount] : S \in UNION {kSubset(n, Pool) : n \in 2..MaxAtoms}}

(* Two pairs of equal bytes each: three of the six merges that are made     *)
(* leave a candidate whose atoms the two others describe.                   *)
CrossingPool ==
  {<<0, 0, 1, 1, 2>>, <<0, 0, 1, 2, 1>>, <<0, 1, 2, 0, 2>>,
   <<0, 1, 2, 1, 2>>, <<0, 1, 2, 2, 0>>, <<0, 1, 2, 2, 1>>}

CrossingInputs == [CrossingPool -> 1..(MaxCount + 1)]

(* More candidates than picks, sharing the atoms they describe.             *)
CompetingPool ==
  {<<0, 0, 1, 2, 3>>, <<0, 1, 2, 2, 3>>, <<0, 1, 0, 2, 3>>, <<0, 1, 2, 3, 3>>,
   <<0, 0, 1, 1, 2>>, <<0, 0, 0, 1, 2>>, <<0, 1, 2, 2, 2>>, <<0, 1, 0, 2, 2>>,
   <<0, 0, 1, 1, 1>>}

CompetingInputs == UNION {[S -> MaxCount..(MaxCount + 1)] : S \in kSubset(5, CompetingPool)}

MCInputs == SparseInputs \cup CrossingInputs \cup CompetingInputs
=============================================================================
