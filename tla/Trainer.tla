------------------------------- MODULE Trainer -------------------------------
(***************************************************************************)
(* Training of one pattern set: Trainer::train_counts of                   *)
(* src/src/trainer.cpp.                                                    *)
(*                                                                         *)
(* The count map is filtered (phase 1), reduced to its maximal patterns    *)
(* (phase 2), pairs are replaced by their least upper bound while a legal  *)
(* one exists (phase 3), and patterns are selected greedily (phase 4),     *)
(* either by evaluating every candidate each time or from a max-heap of    *)
(* possibly stale coverage bounds.                                         *)
(*                                                                         *)
(* The program keeps candidates in a sorted vector without duplicates:     *)
(* here a set, with Before as the order.  A heap holds one entry per       *)
(* candidate and orders entries totally: here a set of entries, with Top.  *)
(***************************************************************************)
EXTENDS Patterns, Sequences, Functions

CONSTANTS
  DictionarySize,      (* config.dictionary_size                           *)
  MaxPatterns,         (* config.max_patterns                              *)
  FrequencyThreshold,  (* config.frequency_threshold                       *)
  Inputs               (* the count maps the traces may give               *)

ASSUME DictionarySizeAssumption     == DictionarySize \in Nat \ {0}
ASSUME MaxPatternsAssumption        == MaxPatterns \in Nat \ {0}
ASSUME FrequencyThresholdAssumption == FrequencyThreshold \in Nat \ {0}

(* A count map counts canonical patterns, each at least once.              *)
ASSUME InputsAssumption ==
  \A counts \in Inputs :
    /\ IsFiniteSet(DOMAIN counts)
    /\ counts \in [DOMAIN counts -> Nat \ {0}]
    /\ \A p \in DOMAIN counts : p \in [Pos -> Symbol] /\ IsCanonical(p)

VARIABLES
  mode,         (* config.selection_mode: "lazy" or "exhaustive"           *)
  counts,       (* the count map being trained on                          *)
  phase,        (* the step of train_counts that runs next                 *)
  atoms,        (* keys of the filtered count map                          *)
  candidates,   (* candidate patterns                                      *)
  uncovered,    (* keys of the map of atoms still uncovered                *)
  queue,        (* lazy mode: heap entries                                 *)
  iteration,    (* lazy mode: number of selections made                    *)
  patterns,     (* result.patterns                                         *)
  marginals,    (* result.marginal_counts                                  *)
  evaluations   (* result.stats.coverage_evaluations                       *)

inputs  == <<mode, counts>>
results == <<patterns, marginals>>
vars    == <<inputs, phase, atoms, candidates, uncovered, queue, iteration,
             results, evaluations>>

Phases == {"filter", "maximal", "combine", "select", "done"}

CoverageNow(p) == Coverage(counts, p, uncovered)

Entry(p, bound, n) == [pattern |-> p, bound |-> bound, iteration |-> n]

SelectedPatterns == {patterns[i] : i \in 1..Len(patterns)}

-----------------------------------------------------------------------------

Init ==
  /\ mode \in {"lazy", "exhaustive"}
  /\ counts \in Inputs
  /\ phase = "filter"
  /\ atoms = {} /\ candidates = {} /\ uncovered = {}
  /\ queue = {} /\ iteration = 0
  /\ patterns = << >> /\ marginals = << >>
  /\ evaluations = 0

(* Phase 1: frequent patterns whose rank fits the dictionary.              *)
Filter ==
  /\ phase = "filter" /\ phase' = "maximal"
  /\ atoms' = {p \in DOMAIN counts : /\ counts[p] >= FrequencyThreshold
                                     /\ Rank(p) <= DictionarySize}
  /\ UNCHANGED <<inputs, candidates, uncovered, queue, iteration, results,
                 evaluations>>

(* Phase 2: maximal_patterns().                                            *)
Minimal(S) == {p \in S : \A q \in S \ {p} : ~LessEqual(q, p)}
Maximal(S) == {p \in S : \A q \in S \ {p} : ~LessEqual(p, q)}

KeepMaximal ==
  /\ phase = "maximal" /\ phase' = "combine"
  /\ candidates' = Maximal(atoms)
  /\ UNCHANGED <<inputs, atoms, uncovered, queue, iteration, results,
                 evaluations>>

(* Phase 3: combine_greedily().  The loops run over the sorted candidates, *)
(* so the pair that is merged is the first one, by its smaller member and  *)
(* then by its larger, whose least upper bound fits the dictionary.        *)
Mergeable(p, q) ==
  Before(p, q) /\ Rank(LeastUpperBound(p, q)) <= DictionarySize

MergeablePairs == {pq \in candidates \X candidates : Mergeable(pq[1], pq[2])}

PairBefore(pq, rs) ==
  Before(pq[1], rs[1]) \/ (pq[1] = rs[1] /\ Before(pq[2], rs[2]))

(* remove_below().                                                         *)
KeepsThoseBelow(S, upper) == S

WithoutBelow(S, upper) == {r \in S : r = upper \/ ~LessEqual(r, upper)}

UpperNotAdded(p, q) == WithoutBelow(candidates \ {p, q}, LeastUpperBound(p, q))
PairNotErased(p, q) == candidates \cup {LeastUpperBound(p, q)}

Merged(p, q) ==
  LET upper == LeastUpperBound(p, q)
  IN  WithoutBelow(candidates \ {p, q}, upper) \cup {upper}

Combine ==
  /\ phase = "combine"
  /\ \E pq \in MergeablePairs :
       /\ \A rs \in MergeablePairs \ {pq} : PairBefore(pq, rs)
       /\ candidates' = Merged(pq[1], pq[2])
  /\ UNCHANGED <<inputs, phase, atoms, uncovered, queue, iteration, results,
                 evaluations>>

(* No pair is left; phase 4 starts from all atoms uncovered.  The lazy     *)
(* mode evaluates every candidate once to fill its heap.                   *)
StartSelection ==
  /\ phase = "combine" /\ phase' = "select"
  /\ MergeablePairs = {}
  /\ uncovered' = atoms
  /\ IF mode = "lazy"
       THEN /\ queue' = {Entry(p, Coverage(counts, p, atoms), 0) : p \in candidates}
            /\ evaluations' = evaluations + Cardinality(candidates)
       ELSE UNCHANGED <<queue, evaluations>>
  /\ UNCHANGED <<inputs, atoms, candidates, iteration, results>>

(* Both modes append a pattern and drop the atoms it describes.            *)
TakesOwnAtomOnly(p, gain) ==
  /\ patterns'  = Append(patterns, p)
  /\ marginals' = Append(marginals, gain)
  /\ uncovered' = uncovered \ {p}

Take(p, gain) ==
  /\ patterns'  = Append(patterns, p)
  /\ marginals' = Append(marginals, gain)
  /\ uncovered' = {a \in uncovered : ~LessEqual(a, p)}

(* Exhaustive mode evaluates every remaining candidate; the first pattern  *)
(* in order wins a tie.                                                    *)
IsBest(p) ==
  \A q \in candidates \ {p} :
    \/ CoverageNow(q) < CoverageNow(p)
    \/ CoverageNow(q) = CoverageNow(p) /\ Before(p, q)

ExhaustiveSelect(p) ==
  /\ phase = "select" /\ mode = "exhaustive"
  /\ Len(patterns) < MaxPatterns
  /\ IsBest(p) /\ CoverageNow(p) > 0
  /\ Take(p, CoverageNow(p))
  /\ candidates'  = candidates \ {p}
  /\ evaluations' = evaluations + Cardinality(candidates)
  /\ UNCHANGED <<inputs, phase, atoms, queue, iteration>>

(* The best remaining candidate covers nothing: break.                     *)
ExhaustiveStop ==
  /\ phase = "select" /\ mode = "exhaustive" /\ phase' = "done"
  /\ Len(patterns) < MaxPatterns
  /\ candidates # {}
  /\ \A p \in candidates : CoverageNow(p) = 0
  /\ evaluations' = evaluations + Cardinality(candidates)
  /\ UNCHANGED <<inputs, atoms, candidates, uncovered, queue, iteration, results>>

(* queue.top(): the greatest bound, the smaller pattern among equals.      *)
(* (LazyCandidateLess).  An entry is pushed back only after it was popped  *)
(* and never once its candidate is selected, so the test of `selected[]`   *)
(* never skips an entry: see QueueHoldsTheUnselected.                      *)
LargerPatternFirst(e) ==
  /\ e \in queue
  /\ \A d \in queue \ {e} : \/ d.bound < e.bound
                            \/ d.bound = e.bound /\ Before(d.pattern, e.pattern)

IsTop(e) ==
  /\ e \in queue
  /\ \A d \in queue \ {e} :
       \/ d.bound < e.bound
       \/ d.bound = e.bound /\ Before(e.pattern, d.pattern)

PopTop(e) ==
  /\ phase = "select" /\ mode = "lazy"
  /\ Len(patterns) < MaxPatterns
  /\ IsTop(e)

(* A bound from an earlier iteration is computed again and pushed back.    *)
RefreshKeepsBound(e) ==
  /\ PopTop(e)
  /\ e.iteration # iteration
  /\ queue' = (queue \ {e}) \cup {Entry(e.pattern, e.bound, iteration)}
  /\ evaluations' = evaluations + 1
  /\ UNCHANGED <<inputs, phase, atoms, candidates, uncovered, iteration, results>>

RefreshKeepsIteration(e) ==
  /\ PopTop(e)
  /\ e.iteration # iteration
  /\ queue' = (queue \ {e})
              \cup {Entry(e.pattern, CoverageNow(e.pattern), e.iteration)}
  /\ evaluations' = evaluations + 1
  /\ UNCHANGED <<inputs, phase, atoms, candidates, uncovered, iteration, results>>

LazyRefresh(e) ==
  /\ PopTop(e)
  /\ e.iteration # iteration
  /\ queue' = (queue \ {e})
              \cup {Entry(e.pattern, CoverageNow(e.pattern), iteration)}
  /\ evaluations' = evaluations + 1
  /\ UNCHANGED <<inputs, phase, atoms, candidates, uncovered, iteration, results>>

(* A current bound on top of the heap is the best coverage: select it.     *)
LazySelect(e) ==
  /\ PopTop(e)
  /\ e.iteration = iteration /\ e.bound > 0
  /\ Take(e.pattern, e.bound)
  /\ queue' = queue \ {e}
  /\ iteration' = iteration + 1
  /\ UNCHANGED <<inputs, phase, atoms, candidates, evaluations>>

(* A current bound of zero on top: break.                                  *)
LazyStop(e) ==
  /\ PopTop(e)
  /\ e.iteration = iteration /\ e.bound = 0
  /\ phase' = "done"
  /\ queue' = queue \ {e}
  /\ UNCHANGED <<inputs, atoms, candidates, uncovered, iteration, results,
                 evaluations>>

(* The loop condition of either mode fails: enough patterns, or nothing    *)
(* left to choose from.                                                    *)
OutOfCandidates == IF mode = "lazy" THEN queue = {} ELSE candidates = {}

LoopEnds ==
  /\ phase = "select" /\ phase' = "done"
  /\ Len(patterns) >= MaxPatterns \/ OutOfCandidates
  /\ UNCHANGED <<inputs, atoms, candidates, uncovered, queue, iteration,
                 results, evaluations>>

Next ==
  \/ Filter
  \/ KeepMaximal
  \/ Combine
  \/ StartSelection
  \/ \E p \in candidates : ExhaustiveSelect(p)
  \/ ExhaustiveStop
  \/ \E e \in queue : LazyRefresh(e) \/ LazySelect(e) \/ LazyStop(e)
  \/ LoopEnds

(* The function runs to its end: nothing in it waits.                      *)
Spec == Init /\ [][Next]_vars /\ WF_vars(Next)

-----------------------------------------------------------------------------

Entries == [pattern : [Pos -> Symbol], bound : Nat, iteration : Nat]

(* The variables have their types.                                         *)
TypeOK ==
  /\ mode \in {"lazy", "exhaustive"}
  /\ DOMAIN counts \subseteq [Pos -> Symbol] /\ IsFiniteSet(DOMAIN counts)
  /\ counts \in [DOMAIN counts -> Nat \ {0}]
  /\ phase \in Phases
  /\ atoms \in SUBSET DOMAIN counts
  /\ candidates \in SUBSET [Pos -> Symbol] /\ IsFiniteSet(candidates)
  /\ uncovered \in SUBSET atoms
  /\ queue \in SUBSET Entries
  /\ iteration \in Nat
  /\ patterns \in Seq([Pos -> Symbol])
  /\ marginals \in Seq(Nat)
  /\ evaluations \in Nat

Prepared  == phase \in {"combine", "select", "done"}
Selecting == phase \in {"select", "done"}

(* A cached bound never falls short of the coverage its candidate still    *)
(* has, and is exact when it was computed in the current iteration: what   *)
(* lets the heap skip candidates without missing the best one              *)
(* (trainer.cpp:181-182).                                                  *)
BoundsAdmissible ==
  \A e \in queue : /\ e.iteration <= iteration
                   /\ CoverageNow(e.pattern) <= e.bound
                   /\ e.iteration = iteration => e.bound = CoverageNow(e.pattern)

(* Until the loop ends the heap holds each unselected candidate exactly    *)
(* once and no selected one, across all the pops and pushes.               *)
QueueHoldsTheUnselected ==
  mode = "lazy" /\ phase = "select" =>
    /\ {e.pattern : e \in queue} = candidates \ SelectedPatterns
    /\ \A d, e \in queue : d.pattern = e.pattern => d = e

(* What the lazy mode rests on: no candidate is lost or queued twice, and  *)
(* none is passed over for a bound that no longer holds.                   *)
HeapIsSound == BoundsAdmissible /\ QueueHoldsTheUnselected

(* Merging and pruning lose nothing: every pattern that passed the filter  *)
(* stays below a candidate or a selected pattern, so every block it counts *)
(* can still be described.                                                 *)
NoAtomLost ==
  Prepared =>
    \A a \in atoms : \E p \in candidates \cup SelectedPatterns : LessEqual(a, p)

(* Every candidate and selected pattern fits the dictionary, and no two of *)
(* them are comparable, whatever merges were made (trainer.cpp:57-82).     *)
CandidatesLegal ==
  Prepared =>
    LET live == candidates \cup SelectedPatterns
    IN  /\ \A p \in live : IsCanonical(p) /\ Rank(p) <= DictionarySize
        /\ \A p, q \in live : LessEqual(p, q) => p = q

(* The marginal counts and what is still uncovered add up to the blocks    *)
(* the filter kept: no block is counted for two patterns or for none.      *)
EveryBlockAccounted ==
  Selecting =>
    SumFunction(marginals) + Cardinality(BlocksOf(counts, uncovered))
      = Cardinality(BlocksOf(counts, atoms))

(* Selection stops early only when every block the filter kept is          *)
(* described by a selected pattern.                                        *)
StopsOnlyWhenCovered ==
  phase = "done" /\ Len(patterns) < MaxPatterns => uncovered = {}

(* Each pick covers at most as many new blocks as the pick before it, in   *)
(* either mode.                                                            *)
MarginalsNeverGrow ==
  \A i, j \in 1..Len(marginals) : i < j => marginals[j] <= marginals[i]

(* The heap never evaluates more coverages than the exhaustive loop makes  *)
(* up to the same selection: each candidate at most once per iteration.    *)
LazyNeverCostsMore ==
  mode = "lazy" /\ Selecting =>
    evaluations <= SumFunction([i \in 0..iteration |-> Cardinality(candidates) - i])

(* Either mode is the greedy cover: same patterns, same order, same        *)
(* marginal counts.                                                        *)
Greedy == INSTANCE GreedyCover WITH
  stage <- IF phase = "select" THEN "picking"
           ELSE IF phase = "done" THEN "finished" ELSE "empty",
  open  <- IF Selecting THEN candidates \ SelectedPatterns ELSE {}

(* Either mode makes the picks of the greedy cover, and stops when it does. *)
ImplementsGreedyCover == Greedy!Spec

(* Every phase terminates: merging shrinks the candidates and each stale   *)
(* entry is evaluated once per iteration.                                  *)
Terminates == <>(phase = "done")
=============================================================================
