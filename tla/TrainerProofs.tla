----------------------------- MODULE TrainerProofs -----------------------------
(***************************************************************************)
(* Proofs about Trainer, for all count maps, dictionaries and numbers of   *)
(* patterns.  Four groups of facts are proved one after the other: types,  *)
(* the heap of the lazy mode and what both modes pick (which hold whatever *)
(* merging does), what merging preserves (which needs symbols that fit the *)
(* 16-bit counter, BlockSize <= SymbolLimit), and what is added up: the    *)
(* blocks counted and the coverages evaluated.                             *)
(***************************************************************************)
EXTENDS Trainer, PatternTheorems, SequenceTheorems

-----------------------------------------------------------------------------
(* Coverage: a natural number that only shrinks with the atoms it is       *)
(* computed over.                                                          *)

(* The blocks of finitely many atoms are finitely many.                    *)
LEMMA BlocksFinite ==
  ASSUME NEW number, NEW A, IsFiniteSet(A),
         \A a \in A : number[a] \in Nat
  PROVE  IsFiniteSet(BlocksOf(number, A))
<1> DEFINE Of(a) == {a} \X (1..number[a])
           f     == [a \in A |-> Of(a)]
           S     == {Of(a) : a \in A}
<1>1. f \in Surjection(A, S)
  BY DEF Surjection
<1>2. IsFiniteSet(S)
  BY <1>1, FS_Surjection
<1>3. \A a \in A : IsFiniteSet(Of(a))
  <2> TAKE a \in A
  <2>1. IsFiniteSet({a})
    BY FS_Singleton
  <2>2. IsFiniteSet(1..number[a])
    BY FS_Interval
  <2> QED
    BY <2>1, <2>2, FS_Product
<1>4. \A T \in S : IsFiniteSet(T)
  BY <1>3
<1>5. BlocksOf(number, A) = UNION S
  BY DEF BlocksOf
<1> QED
  BY <1>2, <1>4, <1>5, FS_UNION

(* A coverage is a natural number.                                         *)
LEMMA CoverageType ==
  ASSUME NEW number, NEW p, NEW A, IsFiniteSet(A),
         \A a \in A : number[a] \in Nat
  PROVE  Coverage(number, p, A) \in Nat
<1>1. Below(p, A) \in SUBSET A
  BY DEF Below
<1>2. IsFiniteSet(Below(p, A))
  BY <1>1, FS_Subset
<1>3. IsFiniteSet(BlocksOf(number, Below(p, A)))
  BY <1>1, <1>2, BlocksFinite
<1> QED
  BY <1>3, FS_CardinalityType DEF Coverage

(* A pattern covers no more of fewer atoms: why a stale bound is a bound.  *)
LEMMA CoverageMonotone ==
  ASSUME NEW number, NEW p, NEW large, NEW small \in SUBSET large,
         IsFiniteSet(large), \A a \in large : number[a] \in Nat
  PROVE  Coverage(number, p, small) <= Coverage(number, p, large)
<1>1. Below(p, large) \in SUBSET large /\ Below(p, small) \subseteq Below(p, large)
  BY DEF Below
<1>2. IsFiniteSet(Below(p, large))
  BY <1>1, FS_Subset
<1>3. IsFiniteSet(BlocksOf(number, Below(p, large)))
  BY <1>1, <1>2, BlocksFinite
<1>4. BlocksOf(number, Below(p, small)) \in SUBSET BlocksOf(number, Below(p, large))
  BY <1>1 DEF BlocksOf
<1> QED
  BY <1>3, <1>4, FS_Subset DEF Coverage

(* A pattern that covers no block is above none of the atoms.              *)
LEMMA CoverageZero ==
  ASSUME NEW number, NEW p, NEW A, IsFiniteSet(A),
         \A a \in A : number[a] \in Nat \ {0},
         Coverage(number, p, A) = 0
  PROVE  \A a \in A : ~LessEqual(a, p)
<1>1. SUFFICES ASSUME NEW a \in A, LessEqual(a, p) PROVE FALSE
  OBVIOUS
<1>2. Below(p, A) \in SUBSET A /\ a \in Below(p, A)
  BY <1>1 DEF Below
<1>3. IsFiniteSet(Below(p, A))
  BY <1>2, FS_Subset
<1>4. IsFiniteSet(BlocksOf(number, Below(p, A)))
  BY <1>2, <1>3, BlocksFinite
<1>5. <<a, 1>> \in BlocksOf(number, Below(p, A))
  BY <1>2 DEF BlocksOf
<1> QED
  BY <1>4, <1>5, FS_EmptySet DEF Coverage

-----------------------------------------------------------------------------
(* Types                                                                   *)

(* Selection has not begun: nothing is uncovered, queued or selected.      *)
Unstarted ==
  ~Selecting => /\ uncovered = {} /\ queue = {} /\ iteration = 0
                /\ patterns = << >> /\ marginals = << >>

TypeInv == TypeOK /\ Unstarted

(* What TypeOK says of the sets that coverages are computed from.          *)
LEMMA CountsAreFinite ==
  ASSUME TypeOK
  PROVE  /\ IsFiniteSet(atoms) /\ IsFiniteSet(uncovered)
         /\ \A a \in atoms : counts[a] \in Nat \ {0}
         /\ \A a \in uncovered : counts[a] \in Nat \ {0}
         /\ Cardinality(candidates) \in Nat
         /\ \A p : Coverage(counts, p, atoms) \in Nat /\ CoverageNow(p) \in Nat
<1>1. /\ atoms \in SUBSET DOMAIN counts /\ IsFiniteSet(DOMAIN counts)
      /\ uncovered \in SUBSET atoms
  BY DEF TypeOK
<1>2. IsFiniteSet(atoms)
  BY <1>1, FS_Subset
<1>3. IsFiniteSet(uncovered)
  BY <1>1, <1>2, FS_Subset
<1>4. /\ \A a \in atoms : counts[a] \in Nat \ {0}
      /\ \A a \in uncovered : counts[a] \in Nat \ {0}
  BY <1>1 DEF TypeOK
<1>5. Cardinality(candidates) \in Nat
  BY FS_CardinalityType DEF TypeOK
<1> QED
  BY <1>2, <1>3, <1>4, <1>5, CoverageType DEF CoverageNow

LEMMA MergedType ==
  ASSUME TypeOK, NEW p, NEW q
  PROVE  Merged(p, q) \in SUBSET [Pos -> Symbol] /\ IsFiniteSet(Merged(p, q))
<1>1. LeastUpperBound(p, q) \in [Pos -> Symbol]
  BY CanonicalizeType DEF LeastUpperBound
<1>2. WithoutBelow(candidates \ {p, q}, LeastUpperBound(p, q)) \in SUBSET candidates
  BY DEF WithoutBelow
<1>3. IsFiniteSet(WithoutBelow(candidates \ {p, q}, LeastUpperBound(p, q)))
  BY ZenonT(30), <1>2, FS_Subset DEF TypeOK
<1> QED
  BY <1>1, <1>2, <1>3, FS_AddElement DEF Merged, TypeOK

LEMMA InitTypeInv == Init => TypeInv
BY InputsAssumption, FS_EmptySet
DEF Init, TypeInv, TypeOK, Unstarted, Selecting, Phases

LEMMA NextTypeInv == TypeInv /\ [Next]_vars => TypeInv'
<1> SUFFICES ASSUME TypeInv, [Next]_vars PROVE TypeInv'
  OBVIOUS
<1> USE DEF TypeInv
<1>0. /\ Cardinality(candidates) \in Nat
      /\ \A p : Coverage(counts, p, atoms) \in Nat /\ CoverageNow(p) \in Nat
  BY CountsAreFinite
<1>1. CASE Filter
  BY <1>1 DEF Filter, TypeOK, Unstarted, Selecting, Phases, inputs, results
<1>2. CASE KeepMaximal
  <2>1. Maximal(atoms) \in SUBSET atoms
    BY DEF Maximal
  <2>2. IsFiniteSet(Maximal(atoms))
    BY <2>1, CountsAreFinite, FS_Subset
  <2> QED
    BY <1>2, <2>1, <2>2
    DEF KeepMaximal, TypeOK, Unstarted, Selecting, Phases, inputs, results
<1>3. CASE Combine
  <2>1. PICK p, q : candidates' = Merged(p, q)
    BY <1>3 DEF Combine
  <2>2. candidates' \in SUBSET [Pos -> Symbol] /\ IsFiniteSet(candidates')
    BY <2>1, MergedType
  <2> QED
    BY <1>3, <2>2 DEF Combine, TypeOK, Unstarted, Selecting, inputs, results
<1>4. CASE StartSelection
  <2>1. queue' \in SUBSET Entries
    BY <1>0, <1>4 DEF StartSelection, TypeOK, Entries, Entry
  <2>2. evaluations' \in Nat
    BY <1>0, <1>4 DEF StartSelection, TypeOK
  <2> QED
    BY <1>4, <2>1, <2>2
    DEF StartSelection, TypeOK, Unstarted, Selecting, Phases, inputs, results
<1>5. ASSUME NEW p \in candidates, ExhaustiveSelect(p) PROVE TypeInv'
  <2>1. candidates' \in SUBSET [Pos -> Symbol] /\ IsFiniteSet(candidates')
    BY <1>5, FS_RemoveElement DEF ExhaustiveSelect, TypeOK
  <2>2. patterns' \in Seq([Pos -> Symbol]) /\ marginals' \in Seq(Nat)
    BY <1>0, <1>5, AppendProperties DEF ExhaustiveSelect, Take, TypeOK
  <2>3. evaluations' \in Nat
    BY <1>0, <1>5 DEF ExhaustiveSelect, TypeOK
  <2> QED
    BY <1>5, <2>1, <2>2, <2>3
    DEF ExhaustiveSelect, Take, TypeOK, Unstarted, Selecting, inputs
<1>6. CASE ExhaustiveStop
  BY <1>0, <1>6
  DEF ExhaustiveStop, TypeOK, Unstarted, Selecting, Phases, inputs, results
<1>7. ASSUME NEW e \in queue, LazyRefresh(e) PROVE TypeInv'
  <2>1. queue' \in SUBSET Entries
    BY <1>0, <1>7 DEF LazyRefresh, TypeOK, Entries, Entry
  <2> QED
    BY <1>7, <2>1
    DEF LazyRefresh, PopTop, TypeOK, Unstarted, Selecting, inputs, results
<1>8. ASSUME NEW e \in queue, LazySelect(e) PROVE TypeInv'
  <2>1. e.pattern \in [Pos -> Symbol] /\ e.bound \in Nat
    BY DEF TypeOK, Entries
  <2>2. patterns' \in Seq([Pos -> Symbol]) /\ marginals' \in Seq(Nat)
    BY <1>8, <2>1, AppendProperties DEF LazySelect, Take, TypeOK
  <2> QED
    BY <1>8, <2>2
    DEF LazySelect, PopTop, Take, TypeOK, Unstarted, Selecting, inputs
<1>9. ASSUME NEW e \in queue, LazyStop(e) PROVE TypeInv'
  BY <1>9
  DEF LazyStop, PopTop, TypeOK, Unstarted, Selecting, Phases, inputs, results
<1>10. CASE LoopEnds
  BY <1>10 DEF LoopEnds, TypeOK, Unstarted, Selecting, Phases, inputs, results
<1>11. CASE UNCHANGED vars
  BY <1>11 DEF vars, inputs, results, TypeOK, Unstarted, Selecting
<1> QED
  BY <1>1, <1>2, <1>3, <1>4, <1>5, <1>6, <1>7, <1>8, <1>9, <1>10, <1>11 DEF Next

(* The variables keep their types.                                         *)
THEOREM TypeCorrect == Spec => []TypeOK
<1>1. TypeInv => TypeOK
  BY DEF TypeInv
<1> QED
  BY <1>1, InitTypeInv, NextTypeInv, PTL DEF Spec

-----------------------------------------------------------------------------
(* The heap and the picks                                                  *)

(* The exhaustive mode has no heap and erases what it selects.             *)
ExhaustiveErases ==
  mode = "exhaustive" =>
    queue = {} /\ \A p \in candidates : p \notin SelectedPatterns

(* No unselected candidate still covers more than any pick newly covered.  *)
PicksWereBest ==
  \A p \in candidates \ SelectedPatterns : \A i \in 1..Len(marginals) :
    CoverageNow(p) <= marginals[i]

(* Selection that stopped early left nothing worth taking.                 *)
NothingLeftToTake ==
  phase = "done" /\ Len(patterns) < MaxPatterns =>
    \A p \in candidates \ SelectedPatterns : CoverageNow(p) = 0

PickInv ==
  /\ TypeInv
  /\ ExhaustiveErases
  /\ BoundsAdmissible
  /\ QueueHoldsTheUnselected
  /\ PicksWereBest
  /\ MarginalsNeverGrow
  /\ NothingLeftToTake

(* What a selection does to the selected patterns and to coverages.        *)
LEMMA TakeSelects ==
  ASSUME TypeOK, NEW p \in [Pos -> Symbol], NEW gain \in Nat, Take(p, gain),
         counts' = counts
  PROVE  /\ SelectedPatterns' = SelectedPatterns \cup {p}
         /\ Len(patterns') = Len(patterns) + 1
         /\ Len(marginals') = Len(marginals) + 1
         /\ \A i \in 1..Len(marginals) : marginals'[i] = marginals[i]
         /\ marginals'[Len(marginals) + 1] = gain
         /\ uncovered' \in SUBSET uncovered
         /\ \A q : CoverageNow(q)' <= CoverageNow(q) /\ CoverageNow(q)' \in Nat
<1>1. /\ Len(patterns') = Len(patterns) + 1
      /\ \A i \in 1..Len(patterns) : patterns'[i] = patterns[i]
      /\ patterns'[Len(patterns) + 1] = p
      /\ Len(patterns) \in Nat
  BY AppendProperties, LenProperties DEF TypeOK, Take
<1>2. SelectedPatterns' = SelectedPatterns \cup {p}
  <2>1. 1..Len(patterns') = 1..Len(patterns) \cup {Len(patterns) + 1}
    BY <1>1
  <2> QED
    BY <1>1, <2>1 DEF SelectedPatterns
<1>3. /\ Len(marginals') = Len(marginals) + 1
      /\ \A i \in 1..Len(marginals) : marginals'[i] = marginals[i]
      /\ marginals'[Len(marginals) + 1] = gain
  BY AppendProperties DEF TypeOK, Take
<1>4. uncovered' \in SUBSET uncovered
  BY DEF Take
<1>5. \A q : CoverageNow(q)' <= CoverageNow(q)
  BY <1>4, CountsAreFinite, CoverageMonotone DEF CoverageNow
<1>6. \A q : CoverageNow(q)' \in Nat
  <2>1. IsFiniteSet(uncovered') /\ \A a \in uncovered' : counts'[a] \in Nat
    BY <1>4, CountsAreFinite, FS_Subset
  <2> QED
    BY <2>1, CoverageType DEF CoverageNow
<1> QED
  BY <1>1, <1>2, <1>3, <1>4, <1>5, <1>6

(* Taking the best keeps the earlier picks best, and marginals in order.   *)
LEMMA TakeKeepsPicks ==
  ASSUME TypeOK, PicksWereBest, MarginalsNeverGrow,
         NEW p \in candidates \ SelectedPatterns, Take(p, CoverageNow(p)),
         \A q \in candidates \ SelectedPatterns : CoverageNow(q) <= CoverageNow(p),
         candidates' \in SUBSET candidates, counts' = counts
  PROVE  PicksWereBest' /\ MarginalsNeverGrow'
<1> DEFINE n == Len(marginals)
<1>0. /\ n \in Nat
      /\ \A i \in 1..n : marginals[i] \in Nat
      /\ \A q : CoverageNow(q) \in Nat
      /\ p \in [Pos -> Symbol]
  BY CountsAreFinite, LenProperties, ElementOfSeq DEF TypeOK
<1>1. /\ SelectedPatterns' = SelectedPatterns \cup {p}
      /\ Len(marginals') = n + 1
      /\ \A i \in 1..n : marginals'[i] = marginals[i]
      /\ marginals'[n + 1] = CoverageNow(p)
      /\ uncovered' \in SUBSET uncovered
      /\ \A q : CoverageNow(q)' <= CoverageNow(q)
  BY <1>0, TakeSelects
<1>2. \A q : CoverageNow(q)' \in Nat
  BY <1>0, TakeSelects
<1>3. PicksWereBest'
  <2> SUFFICES ASSUME NEW q \in (candidates \ SelectedPatterns)',
                      NEW i \in (1..Len(marginals))'
               PROVE  CoverageNow(q)' <= marginals'[i]
    BY DEF PicksWereBest
  <2>1. q \in candidates \ SelectedPatterns
    BY <1>1
  <2>2. CASE i \in 1..n
    BY <1>0, <1>1, <1>2, <2>1, <2>2 DEF PicksWereBest
  <2>3. CASE i = n + 1
    <3>1. CoverageNow(q) <= CoverageNow(p)
      BY <2>1
    <3>2. CoverageNow(q)' <= CoverageNow(q)
      BY <1>1
    <3> QED
      BY <1>0, <1>1, <1>2, <2>3, <3>1, <3>2
  <2> QED
    BY <1>0, <1>1, <2>2, <2>3
<1>4. MarginalsNeverGrow'
  <2> SUFFICES ASSUME NEW i \in 1..(n + 1), NEW j \in 1..(n + 1), i < j
               PROVE  marginals'[j] <= marginals'[i]
    BY <1>0, <1>1 DEF MarginalsNeverGrow
  <2>1. CASE j \in 1..n
    BY <1>0, <1>1, <2>1 DEF MarginalsNeverGrow
  <2>2. CASE j = n + 1
    BY <1>0, <1>1, <2>2 DEF PicksWereBest
  <2> QED
    BY <1>0, <2>1, <2>2
<1> QED
  BY <1>3, <1>4

(* The entry on top of the heap, when current, is a best candidate.        *)
LEMMA CurrentTopIsBest ==
  ASSUME TypeInv, BoundsAdmissible, QueueHoldsTheUnselected,
         NEW e \in queue, PopTop(e), e.iteration = iteration
  PROVE  /\ e.bound = CoverageNow(e.pattern)
         /\ e.pattern \in candidates \ SelectedPatterns
         /\ e.pattern \in [Pos -> Symbol]
         /\ \A d \in queue : CoverageNow(d.pattern) <= d.bound /\ d.bound <= e.bound
         /\ \A q \in candidates \ SelectedPatterns : CoverageNow(q) <= CoverageNow(e.pattern)
         /\ \A q \in (candidates \ SelectedPatterns) \ {e.pattern} :
              \/ CoverageNow(q) < CoverageNow(e.pattern)
              \/ CoverageNow(q) = CoverageNow(e.pattern) /\ Before(e.pattern, q)
<1>0. \A d \in queue : d.bound \in Nat /\ d.pattern \in [Pos -> Symbol]
  BY DEF TypeInv, TypeOK, Entries
<1>1. \A q : CoverageNow(q) \in Nat
  BY CountsAreFinite DEF TypeInv
<1>2. /\ {d.pattern : d \in queue} = candidates \ SelectedPatterns
      /\ \A c, d \in queue : c.pattern = d.pattern => c = d
  BY DEF PopTop, QueueHoldsTheUnselected
<1>3. e.bound = CoverageNow(e.pattern)
  BY DEF BoundsAdmissible
<1>4. \A d \in queue : CoverageNow(d.pattern) <= d.bound
  BY DEF BoundsAdmissible
<1>5. \A d \in queue \ {e} : \/ d.bound < e.bound
                             \/ d.bound = e.bound /\ Before(e.pattern, d.pattern)
  BY DEF PopTop, IsTop
<1>6. \A d \in queue : d.bound <= e.bound
  BY <1>0, <1>5
<1>7. ASSUME NEW q \in candidates \ SelectedPatterns
      PROVE  CoverageNow(q) <= CoverageNow(e.pattern)
  <2>1. PICK d \in queue : d.pattern = q
    BY <1>2
  <2> QED
    BY <1>0, <1>1, <1>3, <1>4, <1>6, <2>1
<1>8. ASSUME NEW q \in (candidates \ SelectedPatterns) \ {e.pattern}
      PROVE  \/ CoverageNow(q) < CoverageNow(e.pattern)
             \/ CoverageNow(q) = CoverageNow(e.pattern) /\ Before(e.pattern, q)
  <2>1. PICK d \in queue \ {e} : d.pattern = q
    BY <1>2
  <2>2. CoverageNow(q) <= d.bound
    BY <1>4, <2>1
  <2> QED
    BY <1>0, <1>1, <1>3, <1>5, <2>1, <2>2
<1> QED
  BY <1>0, <1>2, <1>3, <1>4, <1>6, <1>7, <1>8

LEMMA InitPickInv == Init => PickInv
BY InitTypeInv
DEF Init, PickInv, ExhaustiveErases, BoundsAdmissible, QueueHoldsTheUnselected,
    PicksWereBest, MarginalsNeverGrow, NothingLeftToTake

(* While nothing is selected or queued, the heap facts hold.               *)
LEMMA UnstartedPickInv ==
  ASSUME TypeInv, ~Selecting
  PROVE  PickInv
BY DEF PickInv, TypeInv, Unstarted, Selecting, ExhaustiveErases, BoundsAdmissible,
       QueueHoldsTheUnselected, PicksWereBest, MarginalsNeverGrow,
       NothingLeftToTake, SelectedPatterns

(* The heap is filled with current bounds of all the candidates.           *)
LEMMA StartPickInv ==
  ASSUME PickInv, StartSelection, TypeInv'
  PROVE  PickInv'
<1>1. /\ queue = {} /\ iteration' = 0 /\ patterns' = << >> /\ marginals' = << >>
      /\ candidates' = candidates /\ phase' = "select" /\ mode' = mode
      /\ uncovered' = atoms /\ counts' = counts
  BY DEF PickInv, TypeInv, Unstarted, Selecting, StartSelection, inputs, results
<1>2. SelectedPatterns' = {}
  BY <1>1 DEF SelectedPatterns
<1>3. CASE mode = "lazy"
  <2>1. queue' = {Entry(p, CoverageNow(p)', 0) : p \in candidates}
    BY <1>1, <1>3 DEF StartSelection, CoverageNow
  <2>2. \A d \in queue' : /\ d.pattern \in candidates /\ d.iteration = 0
                          /\ d.bound = CoverageNow(d.pattern)'
    BY <2>1 DEF Entry
  <2>3. \A p : CoverageNow(p)' \in Nat
    BY <1>1, CountsAreFinite DEF CoverageNow, PickInv, TypeInv
  <2>4. BoundsAdmissible'
    BY <1>1, <2>2, <2>3 DEF BoundsAdmissible
  <2>5. \A p \in candidates : Entry(p, CoverageNow(p)', 0) \in queue'
    BY <2>1
  <2>6. {d.pattern : d \in queue'} = candidates
    <3>1. \A p \in candidates : Entry(p, CoverageNow(p)', 0).pattern = p
      BY DEF Entry
    <3>2. candidates \subseteq {d.pattern : d \in queue'}
      BY <2>5, <3>1
    <3> QED
      BY <2>2, <3>2
  <2>7. \A c, d \in queue' : c.pattern = d.pattern => c = d
    BY <2>1 DEF Entry
  <2>8. QueueHoldsTheUnselected'
    BY <1>1, <1>2, <2>6, <2>7 DEF QueueHoldsTheUnselected
  <2> QED
    BY <1>1, <1>3, <2>4, <2>8
    DEF PickInv, ExhaustiveErases, PicksWereBest, MarginalsNeverGrow, NothingLeftToTake
<1>4. CASE mode # "lazy"
  BY <1>1, <1>2, <1>4
  DEF StartSelection, PickInv, TypeInv, TypeOK, ExhaustiveErases, BoundsAdmissible,
      QueueHoldsTheUnselected, PicksWereBest, MarginalsNeverGrow, NothingLeftToTake
<1> QED
  BY <1>3, <1>4

LEMMA ExhaustiveSelectPickInv ==
  ASSUME PickInv, NEW p \in candidates, ExhaustiveSelect(p), TypeInv'
  PROVE  PickInv'
<1>1. /\ mode = "exhaustive" /\ mode' = mode /\ phase = "select" /\ phase' = phase
      /\ counts' = counts /\ queue' = queue /\ queue = {}
      /\ candidates' = candidates \ {p} /\ Take(p, CoverageNow(p))
  BY DEF ExhaustiveSelect, PickInv, ExhaustiveErases, inputs
<1>2. p \in candidates \ SelectedPatterns /\ p \in [Pos -> Symbol]
  BY <1>1 DEF PickInv, ExhaustiveErases, TypeInv, TypeOK
<1>3. \A q : CoverageNow(q) \in Nat
  BY CountsAreFinite DEF PickInv, TypeInv
<1>4. \A q \in candidates \ SelectedPatterns : CoverageNow(q) <= CoverageNow(p)
  BY <1>3 DEF ExhaustiveSelect, IsBest
<1>5. PicksWereBest' /\ MarginalsNeverGrow'
  BY <1>1, <1>2, <1>4, TakeKeepsPicks DEF PickInv, TypeInv
<1>6. SelectedPatterns' = SelectedPatterns \cup {p}
  BY <1>1, <1>2, <1>3, TakeSelects DEF PickInv, TypeInv
<1> QED
  BY <1>1, <1>5, <1>6
  DEF PickInv, ExhaustiveErases, BoundsAdmissible, QueueHoldsTheUnselected,
      NothingLeftToTake

LEMMA LazyRefreshPickInv ==
  ASSUME PickInv, NEW e \in queue, LazyRefresh(e), TypeInv'
  PROVE  PickInv'
<1> DEFINE new == Entry(e.pattern, CoverageNow(e.pattern), iteration)
<1>1. /\ mode = "lazy" /\ phase = "select"
      /\ UNCHANGED <<mode, phase, counts, candidates, uncovered, iteration,
                     patterns, marginals>>
      /\ queue' = (queue \ {e}) \cup {new}
  BY DEF LazyRefresh, PopTop, inputs, results
<1>2. /\ SelectedPatterns' = SelectedPatterns
      /\ \A q : CoverageNow(q)' = CoverageNow(q)
  BY <1>1 DEF SelectedPatterns, CoverageNow
<1>3. /\ new.pattern = e.pattern /\ new.iteration = iteration
      /\ new.bound = CoverageNow(e.pattern)
      /\ CoverageNow(e.pattern) \in Nat /\ iteration \in Nat
  BY CountsAreFinite DEF Entry, PickInv, TypeInv, TypeOK
<1> HIDE DEF new
<1>4. BoundsAdmissible'
  <2> SUFFICES ASSUME NEW d \in queue'
               PROVE  /\ d.iteration <= iteration
                      /\ CoverageNow(d.pattern) <= d.bound
                      /\ d.iteration = iteration => d.bound = CoverageNow(d.pattern)
    BY <1>1, <1>2 DEF BoundsAdmissible
  <2>1. CASE d \in queue
    BY <2>1 DEF PickInv, BoundsAdmissible
  <2>2. CASE d = new
    BY <1>3, <2>2
  <2> QED
    BY <1>1, <2>1, <2>2
<1>5. QueueHoldsTheUnselected'
  <2>1. /\ {d.pattern : d \in queue} = candidates \ SelectedPatterns
        /\ \A c, d \in queue : c.pattern = d.pattern => c = d
    BY <1>1 DEF PickInv, QueueHoldsTheUnselected
  <2>2. {d.pattern : d \in queue'} = {d.pattern : d \in queue}
    BY <1>1, <1>3
  <2>3. \A c, d \in queue' : c.pattern = d.pattern => c = d
    BY <1>1, <1>3, <2>1
  <2> QED
    BY <1>1, <1>2, <2>1, <2>2, <2>3 DEF QueueHoldsTheUnselected
<1> QED
  BY <1>1, <1>2, <1>4, <1>5
  DEF PickInv, ExhaustiveErases, PicksWereBest, MarginalsNeverGrow, NothingLeftToTake

LEMMA LazySelectPickInv ==
  ASSUME PickInv, NEW e \in queue, LazySelect(e), TypeInv'
  PROVE  PickInv'
<1>1. /\ mode = "lazy" /\ phase = "select" /\ PopTop(e) /\ e.iteration = iteration
      /\ UNCHANGED <<mode, phase, counts, candidates>>
      /\ queue' = queue \ {e} /\ iteration' = iteration + 1
      /\ Take(e.pattern, e.bound)
  BY DEF LazySelect, PopTop, inputs
<1>2. /\ e.bound = CoverageNow(e.pattern)
      /\ e.pattern \in candidates \ SelectedPatterns
      /\ e.pattern \in [Pos -> Symbol]
      /\ \A q \in candidates \ SelectedPatterns : CoverageNow(q) <= CoverageNow(e.pattern)
  BY <1>1, CurrentTopIsBest DEF PickInv
<1>3. \A q : CoverageNow(q) \in Nat
  BY CountsAreFinite DEF PickInv, TypeInv
<1>4. PicksWereBest' /\ MarginalsNeverGrow'
  BY <1>1, <1>2, TakeKeepsPicks DEF PickInv, TypeInv
<1>5. /\ SelectedPatterns' = SelectedPatterns \cup {e.pattern}
      /\ uncovered' \in SUBSET uncovered
      /\ \A q : CoverageNow(q)' <= CoverageNow(q)
  BY <1>1, <1>2, <1>3, TakeSelects DEF PickInv, TypeInv
<1>6. \A q : CoverageNow(q)' \in Nat
  BY <1>1, <1>2, <1>3, TakeSelects DEF PickInv, TypeInv
<1>7. BoundsAdmissible'
  <2> SUFFICES ASSUME NEW d \in queue
               PROVE  /\ d.iteration <= iteration' /\ d.iteration # iteration'
                      /\ CoverageNow(d.pattern)' <= d.bound
    BY <1>1 DEF BoundsAdmissible
  <2>1. /\ d.iteration \in Nat /\ d.bound \in Nat /\ iteration \in Nat
        /\ d.iteration <= iteration /\ CoverageNow(d.pattern) <= d.bound
    BY DEF PickInv, TypeInv, TypeOK, Entries, BoundsAdmissible
  <2>2. /\ CoverageNow(d.pattern)' <= CoverageNow(d.pattern)
        /\ CoverageNow(d.pattern) \in Nat /\ CoverageNow(d.pattern)' \in Nat
    BY <1>3, <1>5, <1>6
  <2> QED
    BY <1>1, <2>1, <2>2
<1>8. QueueHoldsTheUnselected'
  <2>1. /\ {d.pattern : d \in queue} = candidates \ SelectedPatterns
        /\ \A c, d \in queue : c.pattern = d.pattern => c = d
    BY <1>1 DEF PickInv, QueueHoldsTheUnselected
  <2>2. {d.pattern : d \in queue'} = {d.pattern : d \in queue} \ {e.pattern}
    BY <1>1, <2>1
  <2> QED
    BY <1>1, <1>5, <2>1, <2>2 DEF QueueHoldsTheUnselected
<1> QED
  BY <1>1, <1>4, <1>7, <1>8 DEF PickInv, ExhaustiveErases, NothingLeftToTake

(* The three ways to stop.                                                 *)
LEMMA StopPickInv ==
  ASSUME PickInv, TypeInv',
         ExhaustiveStop \/ (\E e \in queue : LazyStop(e)) \/ LoopEnds
  PROVE  PickInv'
<1>1. /\ phase = "select" /\ phase' = "done"
      /\ UNCHANGED <<mode, counts, candidates, uncovered, iteration, patterns, marginals>>
      /\ queue' \subseteq queue
  BY DEF ExhaustiveStop, LazyStop, PopTop, LoopEnds, inputs, results
<1>2. /\ SelectedPatterns' = SelectedPatterns
      /\ \A q : CoverageNow(q)' = CoverageNow(q)
  BY <1>1 DEF SelectedPatterns, CoverageNow
<1>3. \A q : CoverageNow(q) \in Nat
  BY CountsAreFinite DEF PickInv, TypeInv
<1>4. Len(patterns) < MaxPatterns =>
        \A p \in candidates \ SelectedPatterns : CoverageNow(p) = 0
  <2>1. CASE ExhaustiveStop
    BY <2>1 DEF ExhaustiveStop
  <2>2. ASSUME NEW e \in queue, LazyStop(e)
        PROVE  \A p \in candidates \ SelectedPatterns : CoverageNow(p) = 0
    <3>1. PopTop(e) /\ e.iteration = iteration /\ e.bound = 0
      BY <2>2 DEF LazyStop
    <3>2. \A p \in candidates \ SelectedPatterns : CoverageNow(p) <= 0
      BY <3>1, CurrentTopIsBest DEF PickInv
    <3> QED
      BY <1>3, <3>2
  <2>3. CASE LoopEnds
    <3>1. Len(patterns) < MaxPatterns => OutOfCandidates
      BY <2>3, LenProperties, MaxPatternsAssumption
      DEF LoopEnds, PickInv, TypeInv, TypeOK
    <3>2. CASE mode = "lazy"
      BY <1>1, <3>1, <3>2 DEF OutOfCandidates, PickInv, QueueHoldsTheUnselected
    <3>3. CASE mode # "lazy"
      BY <3>1, <3>3 DEF OutOfCandidates
    <3> QED
      BY <3>2, <3>3
  <2> QED
    BY <2>1, <2>2, <2>3
<1> QED
  BY <1>1, <1>2, <1>4
  DEF PickInv, ExhaustiveErases, BoundsAdmissible, QueueHoldsTheUnselected,
      PicksWereBest, MarginalsNeverGrow, NothingLeftToTake

LEMMA NextPickInv == PickInv /\ [Next]_vars => PickInv'
<1> SUFFICES ASSUME PickInv, [Next]_vars PROVE PickInv'
  OBVIOUS
<1>0. TypeInv'
  BY NextTypeInv DEF PickInv
<1>1. CASE Filter \/ KeepMaximal \/ Combine
  <2>1. ~Selecting'
    BY <1>1 DEF Filter, KeepMaximal, Combine, Selecting
  <2> QED
    BY <1>0, <2>1, UnstartedPickInv, PTL
<1>2. CASE StartSelection
  BY <1>0, <1>2, StartPickInv
<1>3. ASSUME NEW p \in candidates, ExhaustiveSelect(p) PROVE PickInv'
  BY <1>0, <1>3, ExhaustiveSelectPickInv
<1>4. ASSUME NEW e \in queue, LazyRefresh(e) PROVE PickInv'
  BY <1>0, <1>4, LazyRefreshPickInv
<1>5. ASSUME NEW e \in queue, LazySelect(e) PROVE PickInv'
  BY <1>0, <1>5, LazySelectPickInv
<1>6. CASE ExhaustiveStop \/ (\E e \in queue : LazyStop(e)) \/ LoopEnds
  BY <1>0, <1>6, StopPickInv
<1>7. CASE UNCHANGED vars
  <2>1. /\ SelectedPatterns' = SelectedPatterns
        /\ \A q : CoverageNow(q)' = CoverageNow(q)
    BY <1>7 DEF vars, inputs, results, SelectedPatterns, CoverageNow
  <2> QED
    BY <1>0, <1>7, <2>1
    DEF vars, inputs, results, PickInv, ExhaustiveErases, BoundsAdmissible,
        QueueHoldsTheUnselected, PicksWereBest, MarginalsNeverGrow, NothingLeftToTake
<1> QED
  BY <1>1, <1>2, <1>3, <1>4, <1>5, <1>6, <1>7 DEF Next

LEMMA PickInvHolds == Spec => []PickInv
BY InitPickInv, NextPickInv, PTL DEF Spec

(* A stale bound never falls short of the coverage it stands for, and the  *)
(* heap holds each unselected candidate exactly once.                      *)
THEOREM HeapStaysSound == Spec => []HeapIsSound
<1>1. PickInv => HeapIsSound
  BY DEF PickInv, HeapIsSound
<1> QED
  BY <1>1, PickInvHolds, PTL

(* Each pick covers at most as many new blocks as the pick before it.      *)
THEOREM MarginalsAreOrdered == Spec => []MarginalsNeverGrow
<1>1. PickInv => MarginalsNeverGrow
  BY DEF PickInv
<1> QED
  BY <1>1, PickInvHolds, PTL

-----------------------------------------------------------------------------
(* Either mode implements the greedy cover                                 *)

(* The operators that GreedyCover inherits are those of Trainer.           *)
LEMMA GreedyOperators ==
  /\ \A p, S : Greedy!Below(p, S) = Below(p, S)
  /\ \A p, q : Greedy!Before(p, q) <=> Before(p, q)
  /\ \A p : Greedy!Gain(p) = CoverageNow(p)
<1>1. Greedy!Pos = Pos
  BY DEF Greedy!Pos, Pos
<1>2. \A p, q : Greedy!LessEqual(p, q) <=> LessEqual(p, q)
  BY <1>1 DEF Greedy!LessEqual, LessEqual
<1>3. \A p, S : Greedy!Below(p, S) = Below(p, S)
  BY <1>2 DEF Greedy!Below, Below
<1>4. \A p, q : Greedy!Before(p, q) <=> Before(p, q)
  BY <1>1 DEF Greedy!Before, Before
<1>5. \A S : Greedy!BlocksOf(counts, S) = BlocksOf(counts, S)
  BY DEF Greedy!BlocksOf, BlocksOf
<1>6. \A S : Greedy!Cardinality(S) = Cardinality(S)
  BY DEF Greedy!Cardinality, Cardinality
<1>7. \A p : Greedy!Gain(p) = CoverageNow(p)
  BY <1>3, <1>5, <1>6 DEF Greedy!Gain, Greedy!Coverage, CoverageNow, Coverage
<1> QED
  BY <1>3, <1>4, <1>7

LEMMA InitGreedy == Init => Greedy!Init
BY DEF Init, Greedy!Init, Selecting

(* Selecting a candidate that nothing beats is a pick of the greedy cover. *)
LEMMA SelectionIsPick ==
  ASSUME TypeOK, phase = "select", phase' = "select", counts' = counts,
         Len(patterns) < MaxPatterns,
         NEW p \in candidates \ SelectedPatterns,
         CoverageNow(p) > 0, Take(p, CoverageNow(p)),
         \A q \in (candidates \ SelectedPatterns) \ {p} :
           \/ CoverageNow(q) < CoverageNow(p)
           \/ CoverageNow(q) = CoverageNow(p) /\ Before(p, q),
         candidates' \ {p} = candidates \ {p}
  PROVE  Greedy!Next
<1>2. SelectedPatterns' = SelectedPatterns \cup {p}
  BY TakeSelects, CountsAreFinite DEF TypeOK
<1>3. (candidates \ SelectedPatterns)' = (candidates \ SelectedPatterns) \ {p}
  BY <1>2
<1>4. uncovered' = uncovered \ Greedy!Below(p, uncovered)
  BY GreedyOperators DEF Take, Below
<1>5. Greedy!Pick(p)
  BY <1>3, <1>4, GreedyOperators DEF Greedy!Pick, Greedy!IsBest, Selecting, Take
<1> QED
  BY <1>5 DEF Greedy!Next, Selecting

LEMMA NextGreedy == PickInv /\ PickInv' /\ [Next]_vars => [Greedy!Next]_(Greedy!vars)
<1> SUFFICES ASSUME PickInv, PickInv', [Next]_vars
             PROVE  Greedy!Next \/ UNCHANGED Greedy!vars
  BY DEF Greedy!vars
<1>0. TypeOK /\ \A q : CoverageNow(q) \in Nat
  BY CountsAreFinite DEF PickInv, TypeInv
<1>1. CASE Filter \/ KeepMaximal \/ Combine
  BY <1>1
  DEF Filter, KeepMaximal, Combine, Selecting, Greedy!vars, inputs, results
<1>2. CASE StartSelection
  BY <1>2
  DEF StartSelection, Selecting, Greedy!Next, Greedy!Load, inputs, results
<1>3. ASSUME NEW p \in candidates, ExhaustiveSelect(p) PROVE Greedy!Next
  <2>1. /\ phase = "select" /\ phase' = "select" /\ counts' = counts
        /\ p \in candidates \ SelectedPatterns /\ Len(patterns) < MaxPatterns
        /\ CoverageNow(p) > 0 /\ Take(p, CoverageNow(p))
        /\ candidates' = candidates \ {p}
    BY <1>3 DEF ExhaustiveSelect, PickInv, ExhaustiveErases, inputs
  <2>2. \A q \in (candidates \ SelectedPatterns) \ {p} :
          \/ CoverageNow(q) < CoverageNow(p)
          \/ CoverageNow(q) = CoverageNow(p) /\ Before(p, q)
    BY <1>3 DEF ExhaustiveSelect, IsBest
  <2> QED
    BY <1>0, <2>1, <2>2, SelectionIsPick
<1>4. ASSUME NEW e \in queue, LazyRefresh(e) PROVE UNCHANGED Greedy!vars
  BY <1>4
  DEF LazyRefresh, Selecting, SelectedPatterns, Greedy!vars, inputs, results
<1>5. ASSUME NEW e \in queue, LazySelect(e) PROVE Greedy!Next
  <2>1. /\ phase = "select" /\ phase' = "select" /\ counts' = counts
        /\ Len(patterns) < MaxPatterns /\ candidates' = candidates
        /\ PopTop(e) /\ e.iteration = iteration
        /\ e.bound > 0 /\ Take(e.pattern, e.bound)
    BY <1>5 DEF LazySelect, PopTop, inputs
  <2>2. /\ e.bound = CoverageNow(e.pattern)
        /\ e.pattern \in candidates \ SelectedPatterns
        /\ \A q \in (candidates \ SelectedPatterns) \ {e.pattern} :
             \/ CoverageNow(q) < CoverageNow(e.pattern)
             \/ CoverageNow(q) = CoverageNow(e.pattern) /\ Before(e.pattern, q)
    BY <2>1, CurrentTopIsBest DEF PickInv
  <2> QED
    BY <1>0, <2>1, <2>2, SelectionIsPick
<1>6. CASE ExhaustiveStop \/ (\E e \in queue : LazyStop(e)) \/ LoopEnds
  <2>1. /\ phase = "select" /\ phase' = "done"
        /\ UNCHANGED <<counts, candidates, uncovered, patterns, marginals>>
    BY <1>6 DEF ExhaustiveStop, LazyStop, PopTop, LoopEnds, inputs, results
  <2>2. /\ SelectedPatterns' = SelectedPatterns
        /\ \A q : CoverageNow(q)' = CoverageNow(q)
    BY <2>1 DEF SelectedPatterns, CoverageNow
  <2>3. Len(patterns) < MaxPatterns =>
          \A p \in candidates \ SelectedPatterns : CoverageNow(p) = 0
    BY <2>1, <2>2 DEF PickInv, NothingLeftToTake
  <2>4. Greedy!Finish
    BY <2>1, <2>2, <2>3, GreedyOperators DEF Greedy!Finish, Selecting
  <2> QED
    BY <2>4 DEF Greedy!Next
<1>7. CASE UNCHANGED vars
  BY <1>7 DEF vars, Selecting, SelectedPatterns, Greedy!vars, inputs, results
<1> QED
  BY <1>1, <1>2, <1>3, <1>4, <1>5, <1>6, <1>7 DEF Next

(* Lazy and exhaustive selection both are the greedy cover: each picks, in *)
(* order, the candidate that covers the most uncovered blocks, the smaller *)
(* pattern among equals, and stops only when nothing is left to cover or   *)
(* enough patterns are taken.                                              *)
THEOREM SelectionIsGreedy == Spec => ImplementsGreedyCover
BY InitGreedy, NextGreedy, PickInvHolds, PTL
DEF Spec, ImplementsGreedyCover, Greedy!Spec

-----------------------------------------------------------------------------
(* What merging preserves.  Here the symbols of a block must fit the       *)
(* counter that numbers them; the run of WideInputs shows what is lost     *)
(* when they do not.                                                       *)

(* The filter's result.                                                    *)
AtomsLegal ==
  /\ counts \in Inputs
  /\ \A a \in atoms : IsCanonical(a) /\ Rank(a) <= DictionarySize

(* No uncovered atom is described by a pattern already selected.           *)
UncoveredIsUndescribed ==
  \A a \in uncovered : \A p \in SelectedPatterns : ~LessEqual(a, p)

MergeInv == AtomsLegal /\ CandidatesLegal /\ NoAtomLost /\ UncoveredIsUndescribed

(* Every atom is below a maximal one.                                      *)
LEMMA MaximalAbove ==
  ASSUME NEW S, IsFiniteSet(S), \A a \in S : IsCanonical(a), NEW a \in S
  PROVE  \E m \in Maximal(S) : LessEqual(a, m)
<1> DEFINE Up(b) == {c \in S : LessEqual(b, c)}
           Sizes == {Cardinality(Up(b)) : b \in Up(a)}
<1>1. \A b \in S : Up(b) \in SUBSET S /\ IsFiniteSet(Up(b)) /\ Cardinality(Up(b)) \in Nat
  <2> TAKE b \in S
  <2>1. Up(b) \in SUBSET S
    OBVIOUS
  <2>2. IsFiniteSet(Up(b))
    BY <2>1, FS_Subset
  <2> QED
    BY <2>1, <2>2, FS_CardinalityType
<1>2. a \in Up(a)
  BY LessEqualPreorder
<1>3. Sizes \in SUBSET Nat /\ Sizes # {}
  BY <1>1, <1>2
<1>4. PICK n \in Sizes : \A k \in Sizes : n <= k
  BY <1>3, LeastNatural
<1>5. PICK m \in Up(a) : Cardinality(Up(m)) = n
  BY <1>4
<1>6. ASSUME NEW q \in S, q # m, LessEqual(m, q) PROVE FALSE
  <2>1. Up(q) \in SUBSET Up(m)
    BY <1>6, LessEqualPreorder
  <2>2. m \in Up(m) /\ m \notin Up(q)
    BY <1>5, <1>6, LessEqualPreorder, LessEqualAntisymmetric
  <2>3. q \in Up(a)
    BY <1>5, <1>6, LessEqualPreorder
  <2>4. Cardinality(Up(m)) <= Cardinality(Up(q))
    BY <1>4, <1>5, <2>3
  <2>5. Cardinality(Up(q)) <= Cardinality(Up(m)) /\ Up(q) # Up(m)
    BY <1>1, <1>5, <2>1, <2>2, FS_Subset
  <2>6. Cardinality(Up(q)) \in Nat /\ Cardinality(Up(m)) \in Nat
    BY <1>1, <1>5, <1>6
  <2>7. Cardinality(Up(q)) = Cardinality(Up(m))
    BY <2>4, <2>5, <2>6
  <2> QED
    BY <1>1, <1>5, <2>1, <2>5, <2>7, FS_Subset
<1> QED
  BY <1>5, <1>6 DEF Maximal

(* Merging two patterns of an antichain leaves an antichain above all that *)
(* was below it, with no pattern wider than the dictionary.                *)
LEMMA MergeKeepsLegal ==
  ASSUME BlockSize <= SymbolLimit,
         \A r \in candidates : IsCanonical(r) /\ Rank(r) <= DictionarySize,
         \A r, s \in candidates : LessEqual(r, s) => r = s,
         NEW p \in candidates, NEW q \in candidates,
         Rank(LeastUpperBound(p, q)) <= DictionarySize
  PROVE  /\ \A r \in Merged(p, q) : IsCanonical(r) /\ Rank(r) <= DictionarySize
         /\ \A r, s \in Merged(p, q) : LessEqual(r, s) => r = s
         /\ \A a : (\E r \in candidates : LessEqual(a, r))
                     => \E r \in Merged(p, q) : LessEqual(a, r)
<1> DEFINE upper == LeastUpperBound(p, q)
<1>1. IsCanonical(upper)
  BY CanonicalizeIdempotent DEF LeastUpperBound
<1>2. LessEqual(p, upper) /\ LessEqual(q, upper)
  BY LeastUpperBoundIsUpper
<1> HIDE DEF upper
<1>3. /\ upper \in Merged(p, q)
      /\ \A r \in Merged(p, q) :
           r = upper \/ (r \in candidates \ {p, q} /\ ~LessEqual(r, upper))
      /\ \A r \in candidates : r \in Merged(p, q) \/ LessEqual(r, upper)
  BY <1>2 DEF Merged, WithoutBelow, upper
<1>4. \A r \in Merged(p, q) : IsCanonical(r) /\ Rank(r) <= DictionarySize
  BY <1>1, <1>3 DEF upper
<1>5. ASSUME NEW r \in Merged(p, q), NEW s \in Merged(p, q), LessEqual(r, s)
      PROVE  r = s
  <2>1. CASE r = upper /\ s # upper
    <3>1. s \in candidates /\ LessEqual(p, s)
      BY <1>2, <1>3, <1>5, <2>1, LessEqualPreorder
    <3> QED
      BY <1>3, <2>1, <3>1
  <2>2. CASE r # upper /\ s = upper
    BY <1>3, <1>5, <2>2
  <2>3. CASE r # upper /\ s # upper
    BY <1>3, <1>5, <2>3
  <2> QED
    BY <2>1, <2>2, <2>3
<1>6. ASSUME NEW a, NEW r \in candidates, LessEqual(a, r)
      PROVE  \E t \in Merged(p, q) : LessEqual(a, t)
  BY <1>3, <1>6, LessEqualPreorder
<1> QED
  BY <1>4, <1>5, <1>6

LEMMA InitMergeInv == Init => MergeInv
BY DEF Init, MergeInv, AtomsLegal, CandidatesLegal, NoAtomLost, Prepared,
       UncoveredIsUndescribed

(* Selecting moves a pattern from the candidates to the selected ones.     *)
LEMMA TakeKeepsMerge ==
  ASSUME TypeOK, MergeInv, phase = "select", phase' = "select",
         NEW p \in candidates, NEW gain \in Nat, Take(p, gain),
         counts' = counts, atoms' = atoms,
         candidates' \in {candidates, candidates \ {p}}
  PROVE  MergeInv'
<1>1. SelectedPatterns' = SelectedPatterns \cup {p}
  BY TakeSelects DEF TypeOK
<1>2. candidates' \cup SelectedPatterns' = candidates \cup SelectedPatterns
  BY <1>1
<1>3. CandidatesLegal' /\ NoAtomLost'
  BY <1>2 DEF MergeInv, CandidatesLegal, NoAtomLost, Prepared
<1>4. UncoveredIsUndescribed'
  BY <1>1 DEF MergeInv, UncoveredIsUndescribed, Take
<1> QED
  BY <1>3, <1>4 DEF MergeInv, AtomsLegal

LEMMA NextMergeInv ==
  ASSUME BlockSize <= SymbolLimit
  PROVE  PickInv /\ MergeInv /\ [Next]_vars => MergeInv'
<1> SUFFICES ASSUME PickInv, MergeInv, [Next]_vars PROVE MergeInv'
  OBVIOUS
<1>0. TypeOK /\ Unstarted
  BY DEF PickInv, TypeInv
<1>1. CASE Filter
  <2>1. atoms' = {p \in DOMAIN counts : /\ counts[p] >= FrequencyThreshold
                                        /\ Rank(p) <= DictionarySize}
    BY <1>1 DEF Filter
  <2>2. AtomsLegal'
    BY <1>1, <2>1, InputsAssumption DEF Filter, MergeInv, AtomsLegal, inputs
  <2> QED
    BY <1>0, <1>1, <2>2
    DEF Filter, MergeInv, CandidatesLegal, NoAtomLost, Prepared,
        UncoveredIsUndescribed, Unstarted, Selecting
<1>2. CASE KeepMaximal
  <2>1. /\ candidates' = Maximal(atoms) /\ uncovered' = {} /\ counts' = counts
        /\ atoms' = atoms /\ patterns' = << >>
    BY <1>0, <1>2 DEF KeepMaximal, Unstarted, Selecting, inputs, results
  <2>2. SelectedPatterns' = {}
    BY <2>1 DEF SelectedPatterns
  <2>3. /\ \A p \in Maximal(atoms) : IsCanonical(p) /\ Rank(p) <= DictionarySize
        /\ \A p, q \in Maximal(atoms) : LessEqual(p, q) => p = q
    BY DEF Maximal, MergeInv, AtomsLegal
  <2>4. \A a \in atoms : \E m \in Maximal(atoms) : LessEqual(a, m)
    BY <1>0, CountsAreFinite, MaximalAbove DEF MergeInv, AtomsLegal
  <2> QED
    BY <2>1, <2>2, <2>3, <2>4
    DEF MergeInv, AtomsLegal, CandidatesLegal, NoAtomLost, UncoveredIsUndescribed
<1>3. CASE Combine
  <2>1. /\ phase = "combine" /\ uncovered' = {} /\ counts' = counts
        /\ atoms' = atoms /\ patterns = << >> /\ patterns' = << >>
    BY <1>0, <1>3 DEF Combine, Unstarted, Selecting, inputs, results
  <2>2. SelectedPatterns = {} /\ SelectedPatterns' = {}
    BY <2>1 DEF SelectedPatterns
  <2>3. PICK p \in candidates, q \in candidates :
          /\ Rank(LeastUpperBound(p, q)) <= DictionarySize
          /\ candidates' = Merged(p, q)
    BY <1>3 DEF Combine, MergeablePairs, Mergeable
  <2>4. /\ \A r \in candidates : IsCanonical(r) /\ Rank(r) <= DictionarySize
        /\ \A r, s \in candidates : LessEqual(r, s) => r = s
        /\ \A a \in atoms : \E r \in candidates : LessEqual(a, r)
    BY <2>1, <2>2 DEF MergeInv, CandidatesLegal, NoAtomLost, Prepared
  <2>5. /\ \A r \in candidates' : IsCanonical(r) /\ Rank(r) <= DictionarySize
        /\ \A r, s \in candidates' : LessEqual(r, s) => r = s
        /\ \A a \in atoms : \E r \in candidates' : LessEqual(a, r)
    BY <2>3, <2>4, MergeKeepsLegal
  <2> QED
    BY <2>1, <2>2, <2>5
    DEF MergeInv, AtomsLegal, CandidatesLegal, NoAtomLost, UncoveredIsUndescribed
<1>4. CASE StartSelection
  <2>1. /\ phase = "combine" /\ patterns' = << >> /\ patterns = << >>
        /\ UNCHANGED <<counts, atoms, candidates>>
    BY <1>0, <1>4 DEF StartSelection, Unstarted, Selecting, inputs, results
  <2>2. SelectedPatterns = {} /\ SelectedPatterns' = {}
    BY <2>1 DEF SelectedPatterns
  <2> QED
    BY <2>1, <2>2
    DEF MergeInv, AtomsLegal, CandidatesLegal, NoAtomLost, Prepared,
        UncoveredIsUndescribed
<1>5. ASSUME NEW p \in candidates, ExhaustiveSelect(p) PROVE MergeInv'
  BY <1>0, <1>5, CountsAreFinite, TakeKeepsMerge DEF ExhaustiveSelect, inputs
<1>6. ASSUME NEW e \in queue, LazySelect(e) PROVE MergeInv'
  <2>1. e.pattern \in candidates /\ e.bound \in Nat
    BY <1>0, <1>6
    DEF LazySelect, PopTop, PickInv, QueueHoldsTheUnselected, TypeOK, Entries
  <2> QED
    BY <1>0, <1>6, <2>1, TakeKeepsMerge DEF LazySelect, PopTop, inputs
<1>7. CASE \/ ExhaustiveStop \/ LoopEnds \/ UNCHANGED vars
           \/ \E e \in queue : LazyRefresh(e) \/ LazyStop(e)
  <2>1. /\ UNCHANGED <<counts, atoms, candidates, uncovered, patterns>>
        /\ Prepared' <=> Prepared
    BY <1>7
    DEF ExhaustiveStop, LoopEnds, LazyRefresh, LazyStop, PopTop, Prepared,
        vars, inputs, results
  <2>2. SelectedPatterns' = SelectedPatterns
    BY <2>1 DEF SelectedPatterns
  <2> QED
    BY <2>1, <2>2
    DEF MergeInv, AtomsLegal, CandidatesLegal, NoAtomLost, UncoveredIsUndescribed
<1> QED
  BY <1>1, <1>2, <1>3, <1>4, <1>5, <1>6, <1>7 DEF Next

LEMMA MergeInvHolds ==
  ASSUME BlockSize <= SymbolLimit
  PROVE  Spec => []MergeInv
<1>1. PickInv /\ MergeInv /\ [Next]_vars => MergeInv'
  BY NextMergeInv
<1> QED
  BY <1>1, InitMergeInv, PickInvHolds, PTL DEF Spec

(* Candidates always fit the dictionary and are never comparable.          *)
THEOREM CandidatesAreLegal ==
  ASSUME BlockSize <= SymbolLimit
  PROVE  Spec => []CandidatesLegal
<1>1. MergeInv => CandidatesLegal
  BY DEF MergeInv
<1> QED
  BY <1>1, MergeInvHolds, PTL

(* Whatever is merged and pruned, every frequent pattern that fits the     *)
(* dictionary stays below a candidate or a selected pattern.               *)
THEOREM MergingLosesNothing ==
  ASSUME BlockSize <= SymbolLimit
  PROVE  Spec => []NoAtomLost
<1>1. MergeInv => NoAtomLost
  BY DEF MergeInv
<1> QED
  BY <1>1, MergeInvHolds, PTL

(* Selection stops early only when every block is described.               *)
THEOREM EarlyStopIsComplete ==
  ASSUME BlockSize <= SymbolLimit
  PROVE  Spec => []StopsOnlyWhenCovered
<1>1. PickInv /\ MergeInv => StopsOnlyWhenCovered
  <2> SUFFICES ASSUME PickInv, MergeInv, phase = "done", Len(patterns) < MaxPatterns,
                      NEW a \in uncovered
               PROVE  FALSE
    BY DEF StopsOnlyWhenCovered
  <2>0. TypeOK
    BY DEF PickInv, TypeInv
  <2>1. PICK p \in candidates \cup SelectedPatterns : LessEqual(a, p)
    BY <2>0 DEF MergeInv, NoAtomLost, Prepared, TypeOK
  <2>2. p \in candidates \ SelectedPatterns
    BY <2>1 DEF MergeInv, UncoveredIsUndescribed
  <2>3. Coverage(counts, p, uncovered) = 0
    BY <2>2 DEF PickInv, NothingLeftToTake, CoverageNow
  <2> QED
    BY <2>0, <2>1, <2>3, CountsAreFinite, CoverageZero
<1> QED
  BY <1>1, MergeInvHolds, PickInvHolds, PTL

-----------------------------------------------------------------------------
(* Sums                                                                    *)

(* g holds at every subset of S the sum of f over it, as SumFunction takes *)
(* it: one element at a time.                                              *)
OneOf(s) == CHOOSE x \in s : TRUE

Sums(f, S, g) ==
  g = [s \in SUBSET S |-> IF s = {} THEN 0 ELSE f[OneOf(s)] + g[s \ {OneOf(s)}]]

LEMMA OneOfIsElement ==
  ASSUME NEW s, s # {}
  PROVE  OneOf(s) \in s
BY DEF OneOf

LEMMA OneLess ==
  ASSUME NEW s, IsFiniteSet(s), NEW x \in s
  PROVE  /\ IsFiniteSet(s \ {x}) /\ Cardinality(s) \in Nat
         /\ Cardinality(s \ {x}) = Cardinality(s) - 1
BY FS_RemoveElement, FS_CardinalityType

LEMMA SumsAgree ==
  ASSUME NEW f, NEW S, NEW g, Sums(f, S, g), NEW T, NEW h, Sums(f, T, h)
  PROVE  \A s : IsFiniteSet(s) /\ s \subseteq S /\ s \subseteq T => g[s] = h[s]
<1> DEFINE Bad == {n \in Nat : \E s : /\ IsFiniteSet(s) /\ s \subseteq S /\ s \subseteq T
                                      /\ g[s] # h[s] /\ Cardinality(s) = n}
<1>1. ASSUME Bad # {} PROVE FALSE
  <2>1. PICK n \in Bad : \A j \in Bad : n <= j
    <3>1. Bad \in SUBSET Nat
      OBVIOUS
    <3> HIDE DEF Bad
    <3> QED
      BY <1>1, <3>1, LeastNatural
  <2>2. PICK s : /\ IsFiniteSet(s) /\ s \subseteq S /\ s \subseteq T
                 /\ g[s] # h[s] /\ Cardinality(s) = n
    OBVIOUS
  <2>3. /\ g[s] = (IF s = {} THEN 0 ELSE f[OneOf(s)] + g[s \ {OneOf(s)}])
        /\ h[s] = (IF s = {} THEN 0 ELSE f[OneOf(s)] + h[s \ {OneOf(s)}])
    BY <2>2, Zenon DEF Sums
  <2>4. s # {}
    BY <2>2, <2>3
  <2> DEFINE t == s \ {OneOf(s)}
  <2>5. IsFiniteSet(t) /\ t \subseteq S /\ t \subseteq T /\ Cardinality(t) = n - 1 /\ n - 1 \in Nat
    <3>1. IsFiniteSet(t) /\ n \in Nat /\ Cardinality(t) = n - 1
      BY <2>2, <2>4, OneOfIsElement, OneLess
    <3>2. Cardinality(t) \in Nat
      BY <3>1, FS_CardinalityType
    <3> QED
      BY <2>2, <3>1, <3>2
  <2>6. g[t] = h[t]
    <3>1. n - 1 \notin Bad
      <4>1. n \in Nat /\ ~(n <= n - 1)
        BY <2>5
      <4> HIDE DEF Bad
      <4> QED
        BY <2>1, <4>1
    <3> QED
      BY <2>5, <3>1
  <2> QED
    BY <2>2, <2>3, <2>4, <2>6
<1> QED
  BY <1>1, FS_CardinalityType

LEMMA SumsExist ==
  ASSUME NEW f, NEW S, IsFiniteSet(S)
  PROVE  \E g : Sums(f, S, g)
<1> DEFINE Bad == {n \in Nat : \E s : IsFiniteSet(s) /\ Cardinality(s) = n /\ ~\E g : Sums(f, s, g)}
<1>1. ASSUME Bad # {} PROVE FALSE
  <2>1. PICK n \in Bad : \A j \in Bad : n <= j
    <3>1. Bad \in SUBSET Nat
      OBVIOUS
    <3> HIDE DEF Bad
    <3> QED
      BY <1>1, <3>1, LeastNatural
  <2>2. PICK s : IsFiniteSet(s) /\ Cardinality(s) = n /\ ~\E g : Sums(f, s, g)
    OBVIOUS
  <2>3. \A m \in Nat : m < n => m \notin Bad
    <3>1. n \in Nat
      OBVIOUS
    <3> HIDE DEF Bad
    <3> QED
      BY <2>1, <3>1
  <2>4. \A t : IsFiniteSet(t) /\ Cardinality(t) < n => \E g : Sums(f, t, g)
    BY <2>3, FS_CardinalityType
  <2> DEFINE G(t)    == CHOOSE g : Sums(f, t, g)
             V(t)    == G(t)[t]
             Step(t) == IF t = {} THEN 0 ELSE f[OneOf(t)] + V(t \ {OneOf(t)})
             g       == [t \in SUBSET s |-> IF t = s THEN Step(t) ELSE V(t)]
  <2>5. \A t : IsFiniteSet(t) /\ Cardinality(t) < n => Sums(f, t, G(t))
    BY <2>4
  <2>6. \A t \in SUBSET s : t # s => IsFiniteSet(t) /\ Cardinality(t) < n
    BY <2>2, FS_Subset, FS_CardinalityType
  <2> HIDE DEF G
  <2>7. ASSUME NEW t \in SUBSET s, t # s PROVE V(t) = Step(t)
    <3>1. Sums(f, t, G(t))
      BY <2>5, <2>6, <2>7
    <3>2. V(t) = IF t = {} THEN 0 ELSE f[OneOf(t)] + G(t)[t \ {OneOf(t)}]
      BY <3>1, Zenon DEF Sums
    <3>3. CASE t # {}
      <4> DEFINE r == t \ {OneOf(t)}
      <4>1. OneOf(t) \in t /\ r \in SUBSET s /\ r # s /\ r \subseteq t
        BY <3>3, OneOfIsElement
      <4>2. Sums(f, r, G(r)) /\ IsFiniteSet(r)
        BY <2>5, <2>6, <4>1
      <4> HIDE DEF r
      <4>3. G(t)[r] = G(r)[r]
        <5> DEFINE a == G(t)
                   b == G(r)
        <5>1. Sums(f, t, a) /\ Sums(f, r, b) /\ r \subseteq r /\ r \subseteq t /\ IsFiniteSet(r)
          BY <3>1, <4>1, <4>2
        <5> HIDE DEF a, b
        <5>2. a[r] = b[r]
          BY <5>1, SumsAgree
        <5> QED
          BY <5>2 DEF a, b
      <4> QED
        BY <3>2, <3>3, <4>3 DEF r
    <3> QED
      BY <3>2, <3>3
  <2>8. \A t \in SUBSET s : g[t] = Step(t)
    BY <2>7
  <2>9. \A t \in SUBSET s : t # {} => g[t \ {OneOf(t)}] = V(t \ {OneOf(t)})
    <3> TAKE t \in SUBSET s
    <3> HAVE t # {}
    <3>1. t \ {OneOf(t)} \in SUBSET s /\ t \ {OneOf(t)} # s
      BY OneOfIsElement
    <3> QED
      BY <3>1
  <2>10. Sums(f, s, g)
    <3> DEFINE h == [t \in SUBSET s |-> IF t = {} THEN 0 ELSE f[OneOf(t)] + g[t \ {OneOf(t)}]]
    <3>1. \A t \in SUBSET s : g[t] = h[t]
      BY <2>8, <2>9
    <3>2. g = [t \in SUBSET s |-> g[t]] /\ h = [t \in SUBSET s |-> h[t]]
      OBVIOUS
    <3> HIDE DEF g, h
    <3>3. g = h
      BY <3>1, <3>2
    <3> QED
      BY <3>3, Zenon DEF h, Sums
  <2> QED
    BY <2>2, <2>10
<1> QED
  BY <1>1, FS_CardinalityType

LEMMA SumIs ==
  ASSUME NEW f, NEW S, IsFiniteSet(S)
  PROVE  \E g : Sums(f, S, g) /\ SumFunctionOnSet(f, S) = g[S]
<1> DEFINE g == CHOOSE h : h = [s \in SUBSET S |-> IF s = {} THEN 0 ELSE f[OneOf(s)] + h[s \ {OneOf(s)}]]
<1>1. Sums(f, S, g)
  <2>1. PICK h : Sums(f, S, h)
    BY SumsExist
  <2>2. h = [s \in SUBSET S |-> IF s = {} THEN 0 ELSE f[OneOf(s)] + h[s \ {OneOf(s)}]]
    BY <2>1, Zenon DEF Sums
  <2>3. g = [s \in SUBSET S |-> IF s = {} THEN 0 ELSE f[OneOf(s)] + g[s \ {OneOf(s)}]]
    BY <2>2, Zenon
  <2> HIDE DEF g
  <2> QED
    BY <2>3, Zenon DEF Sums
<1>2. SumFunctionOnSet(f, S) = g[S]
  BY DEF SumFunctionOnSet, FoldFunctionOnSet, MapThenFoldSet, OneOf
<1> HIDE DEF g
<1> QED
  BY <1>1, <1>2

(* A sum takes the elements in any order.                                  *)
LEMMA SumSplits ==
  ASSUME NEW f, NEW S, IsFiniteSet(S), \A x \in S : f[x] \in Int, NEW g, Sums(f, S, g)
  PROVE  \A s \in SUBSET S : g[s] \in Int /\ \A x \in s : g[s] = f[x] + g[s \ {x}]
<1> DEFINE Good(s) == g[s] \in Int /\ \A x \in s : g[s] = f[x] + g[s \ {x}]
           Bad     == {n \in Nat : \E s \in SUBSET S : Cardinality(s) = n /\ ~Good(s)}
<1>1. ASSUME Bad # {} PROVE FALSE
  <2>1. PICK n \in Bad : \A j \in Bad : n <= j
    <3>1. Bad \in SUBSET Nat
      OBVIOUS
    <3> HIDE DEF Bad
    <3> QED
      BY <1>1, <3>1, LeastNatural
  <2>2. PICK s \in SUBSET S : Cardinality(s) = n /\ ~Good(s)
    OBVIOUS
  <2>3. IsFiniteSet(s) /\ n \in Nat
    BY <2>2, FS_Subset
  <2>4. ASSUME NEW t \in SUBSET S, IsFiniteSet(t), Cardinality(t) < n PROVE Good(t)
    <3>1. Cardinality(t) \in Nat /\ ~(n <= Cardinality(t))
      BY <2>3, <2>4, FS_CardinalityType
    <3>2. Cardinality(t) \notin Bad
      <4> HIDE DEF Bad
      <4> QED
        BY <2>1, <3>1
    <3> HIDE DEF Good
    <3> QED
      BY <2>4, <3>1, <3>2
  <2>5. \A x \in s : /\ IsFiniteSet(s \ {x}) /\ Cardinality(s \ {x}) < n
                     /\ s \ {x} \in SUBSET S
    BY <2>2, <2>3, OneLess
  <2>6. \A t \in SUBSET S : g[t] = (IF t = {} THEN 0 ELSE f[OneOf(t)] + g[t \ {OneOf(t)}])
    BY Zenon DEF Sums
  <2>7. CASE s = {}
    <3>1. g[s] = 0
      BY <2>6, <2>7
    <3> QED
      BY <2>2, <2>7, <3>1
  <2>8. CASE s # {}
    <3> DEFINE y == OneOf(s)
               t == s \ {y}
    <3>1. y \in s /\ f[y] \in Int /\ t \in SUBSET S
      BY <2>8, OneOfIsElement
    <3>2. g[s] = f[y] + g[t]
      BY <2>6, <2>8
    <3>3. Good(t)
      BY <2>4, <2>5, <3>1
    <3>4. g[s] \in Int
      BY <3>1, <3>2, <3>3
    <3>5. ASSUME NEW x \in s, x # y PROVE g[s] = f[x] + g[s \ {x}]
      <4> DEFINE u == s \ {x}
                 r == t \ {x}
      <4>1. Good(u) /\ y \in u /\ f[x] \in Int
        BY <2>4, <2>5, <3>1, <3>5
      <4>2. g[u] = f[y] + g[u \ {y}] /\ u \ {y} = r
        BY <4>1
      <4>3. g[t] = f[x] + g[r]
        BY <3>3, <3>5
      <4>4. Good(r)
        <5>1. r \in SUBSET S /\ IsFiniteSet(t) /\ Cardinality(t) < n /\ x \in t
          BY <2>5, <3>1, <3>5
        <5>2. IsFiniteSet(r) /\ Cardinality(r) < n
          <6>1. /\ IsFiniteSet(r) /\ Cardinality(t) \in Nat
                /\ Cardinality(r) = Cardinality(t) - 1
            <7> HIDE DEF t
            <7> QED
              BY <5>1, OneLess
          <6> HIDE DEF r, t
          <6> QED
            BY <2>3, <5>1, <6>1
        <5> HIDE DEF Good, r
        <5> QED
          BY <2>4, <5>1, <5>2
      <4> DEFINE a == g[r]
                 b == g[t]
                 c == g[u]
                 d == g[s]
      <4>5. a \in Int /\ b \in Int /\ c \in Int
        BY <3>3, <4>1, <4>4
      <4>6. d = f[y] + b /\ c = f[y] + a /\ b = f[x] + a
        BY <3>2, <4>2, <4>3
      <4>7. d = f[x] + c
        <5> HIDE DEF a, b, c, d
        <5> QED
          BY <3>1, <4>1, <4>5, <4>6
      <4> QED
        BY <4>7
    <3> QED
      BY <2>2, <3>2, <3>4, <3>5
  <2> QED
    BY <2>7, <2>8
<1>2. \A s \in SUBSET S : Cardinality(s) \in Nat
  BY FS_Subset, FS_CardinalityType
<1> QED
  BY <1>1, <1>2

(* What the theorems use of sums: nothing, one element, and agreement.     *)
LEMMA SumOfNone == ASSUME NEW f PROVE SumFunctionOnSet(f, {}) = 0
<1>1. PICK g : Sums(f, {}, g) /\ SumFunctionOnSet(f, {}) = g[{}]
  BY SumIs, FS_EmptySet
<1>2. g[{}] = 0
  BY <1>1, Zenon DEF Sums
<1> QED
  BY <1>1, <1>2

LEMMA SumStep ==
  ASSUME NEW f, NEW S, IsFiniteSet(S), NEW x, x \notin S, f[x] \in Int,
         \A y \in S : f[y] \in Int
  PROVE  /\ SumFunctionOnSet(f, S) \in Int
         /\ SumFunctionOnSet(f, S \cup {x}) = f[x] + SumFunctionOnSet(f, S)
<1> DEFINE T == S \cup {x}
<1>1. IsFiniteSet(T) /\ \A y \in T : f[y] \in Int
  BY FS_AddElement
<1>2. PICK g : Sums(f, T, g) /\ SumFunctionOnSet(f, T) = g[T]
  BY <1>1, SumIs
<1>3. PICK h : Sums(f, S, h) /\ SumFunctionOnSet(f, S) = h[S]
  BY SumIs
<1>4. g[S] = h[S]
  <2>1. S \subseteq S /\ S \subseteq T
    OBVIOUS
  <2> QED
    BY <1>2, <1>3, <2>1, SumsAgree
<1>5. T \in SUBSET T /\ S \in SUBSET T /\ x \in T /\ T \ {x} = S
  OBVIOUS
<1> HIDE DEF T
<1>6. g[S] \in Int /\ g[T] = f[x] + g[T \ {x}]
  BY <1>1, <1>2, <1>5, SumSplits
<1> QED
  BY <1>2, <1>3, <1>4, <1>5, <1>6 DEF T

LEMMA SumsCongruent ==
  ASSUME NEW e, NEW f, NEW S, IsFiniteSet(S), \A x \in S : e[x] = f[x]
  PROVE  SumFunctionOnSet(e, S) = SumFunctionOnSet(f, S)
<1>1. PICK g : Sums(e, S, g) /\ SumFunctionOnSet(e, S) = g[S]
  BY SumIs
<1>2. PICK h : Sums(f, S, h) /\ SumFunctionOnSet(f, S) = h[S]
  BY SumIs
<1>3. Sums(f, S, g)
  <2>1. g = [s \in SUBSET S |-> IF s = {} THEN 0 ELSE e[OneOf(s)] + g[s \ {OneOf(s)}]]
    BY <1>1, Zenon DEF Sums
  <2>2. \A s \in SUBSET S : s # {} => e[OneOf(s)] = f[OneOf(s)]
    BY OneOfIsElement
  <2> DEFINE k == [s \in SUBSET S |-> IF s = {} THEN 0 ELSE f[OneOf(s)] + g[s \ {OneOf(s)}]]
  <2>3. k = [s \in SUBSET S |-> IF s = {} THEN 0 ELSE e[OneOf(s)] + g[s \ {OneOf(s)}]]
    BY <2>2
  <2>4. g = k
    BY <2>1, <2>3
  <2> QED
    BY <2>4, Zenon DEF Sums
<1>4. S \subseteq S
  OBVIOUS
<1>5. g[S] = h[S]
  BY <1>2, <1>3, <1>4, SumsAgree
<1> QED
  BY <1>1, <1>2, <1>5

LEMMA SumAppends ==
  ASSUME NEW m \in Seq(Nat), NEW gain \in Nat
  PROVE  /\ SumFunction(m) \in Int
         /\ SumFunction(Append(m, gain)) = SumFunction(m) + gain
<1> DEFINE n == Len(m)
           S == 1..n
           a == Append(m, gain)
<1>1. /\ n \in Nat /\ DOMAIN m = S /\ \A i \in S : m[i] \in Int
  BY LenProperties, ElementOfSeq
<1>2. /\ Len(a) = n + 1 /\ a \in Seq(Nat)
      /\ a[n + 1] = gain /\ \A i \in S : a[i] = m[i]
  BY AppendProperties
<1>3. DOMAIN a = S \cup {n + 1} /\ n + 1 \notin S /\ IsFiniteSet(S)
  <2>1. DOMAIN a = 1..(n + 1)
    BY <1>2, LenProperties
  <2>2. IsFiniteSet(S)
    BY <1>1, FS_Interval
  <2> QED
    BY <1>1, <2>1, <2>2
<1> HIDE DEF a
<1>4. /\ SumFunctionOnSet(a, S) \in Int
      /\ SumFunctionOnSet(a, S \cup {n + 1}) = gain + SumFunctionOnSet(a, S)
  <2>1. a[n + 1] \in Int /\ \A i \in S : a[i] \in Int
    BY <1>1, <1>2
  <2>2. n + 1 \notin S
    BY <1>3
  <2> DEFINE x == n + 1
  <2> HIDE DEF x, S
  <2> QED
    BY <1>2, <1>3, <2>1, <2>2, SumStep DEF x
<1>5. SumFunctionOnSet(a, S) = SumFunctionOnSet(m, S)
  <2> HIDE DEF S
  <2> QED
    BY <1>2, <1>3, SumsCongruent
<1>6. SumFunction(a) = SumFunctionOnSet(a, DOMAIN a) /\ SumFunction(m) = SumFunctionOnSet(m, S)
  BY <1>1, Zenon DEF SumFunction
<1> QED
  BY <1>3, <1>4, <1>5, <1>6 DEF a

-----------------------------------------------------------------------------
(* Every block is counted for one pattern or is still uncovered            *)

(* The blocks of some atoms are those a pattern covers and the others.     *)
LEMMA BlocksSplit ==
  ASSUME NEW number, NEW p, NEW A, IsFiniteSet(A), \A a \in A : number[a] \in Nat
  PROVE  /\ Cardinality(BlocksOf(number, A)) \in Nat
         /\ Cardinality(BlocksOf(number, A))
              = Coverage(number, p, A)
                  + Cardinality(BlocksOf(number, {a \in A : ~LessEqual(a, p)}))
<1> DEFINE low  == Below(p, A)
           rest == {a \in A : ~LessEqual(a, p)}
           L    == BlocksOf(number, low)
           R    == BlocksOf(number, rest)
<1>1. low \in SUBSET A /\ rest \in SUBSET A /\ A = low \cup rest /\ low \cap rest = {}
  BY DEF Below
<1>2. IsFiniteSet(low) /\ IsFiniteSet(rest)
  BY <1>1, FS_Subset
<1>3. IsFiniteSet(L) /\ IsFiniteSet(R)
  BY <1>1, <1>2, BlocksFinite
<1>4. BlocksOf(number, A) = L \cup R
  <2> HIDE DEF low, rest
  <2> QED
    BY <1>1 DEF BlocksOf
<1>5. L \cap R = {}
  <2> HIDE DEF low, rest
  <2> QED
    BY <1>1 DEF BlocksOf
<1>6. Cardinality(L \cup R) = Cardinality(L) + Cardinality(R) - Cardinality(L \cap R)
  BY <1>3, FS_Union
<1>7. Cardinality(L \cap R) = 0 /\ Cardinality(L) \in Nat /\ Cardinality(R) \in Nat
  BY <1>3, <1>5, FS_EmptySet, FS_CardinalityType
<1> QED
  BY <1>4, <1>6, <1>7 DEF Coverage

LEMMA TakeAccounts ==
  ASSUME TypeOK, Selecting, EveryBlockAccounted, NEW p, Take(p, CoverageNow(p)),
         counts' = counts, atoms' = atoms
  PROVE  EveryBlockAccounted'
<1> DEFINE total == Cardinality(BlocksOf(counts, atoms))
           open  == Cardinality(BlocksOf(counts, uncovered))
           rest  == Cardinality(BlocksOf(counts, {a \in uncovered : ~LessEqual(a, p)}))
           gain  == CoverageNow(p)
<1>1. IsFiniteSet(uncovered) /\ \A a \in uncovered : counts[a] \in Nat
  BY CountsAreFinite
<1>2. IsFiniteSet({a \in uncovered : ~LessEqual(a, p)})
  BY <1>1, FS_Subset
<1>3. gain \in Nat /\ rest \in Nat /\ open = gain + rest
  BY <1>1, <1>2, BlocksSplit, CoverageType DEF CoverageNow
<1>4. marginals \in Seq(Nat) /\ SumFunction(marginals) + open = total
  BY DEF TypeOK, EveryBlockAccounted
<1>5. marginals' = Append(marginals, gain) /\ uncovered' = {a \in uncovered : ~LessEqual(a, p)}
  BY DEF Take
<1>6. SumFunction(marginals) \in Int /\ SumFunction(marginals') = SumFunction(marginals) + gain
  <2> HIDE DEF gain
  <2> QED
    BY <1>3, <1>4, <1>5, SumAppends
<1>7. SumFunction(marginals)' = SumFunction(marginals) + gain
  BY <1>6
<1>8. /\ Cardinality(BlocksOf(counts, uncovered))' = rest
      /\ Cardinality(BlocksOf(counts, atoms))' = total
  BY <1>5
<1> HIDE DEF total, open, rest, gain
<1>9. SumFunction(marginals)' + rest = total
  BY <1>3, <1>4, <1>6, <1>7
<1> QED
  BY <1>8, <1>9 DEF EveryBlockAccounted

AccountInv == PickInv /\ EveryBlockAccounted

LEMMA NextAccountInv == AccountInv /\ PickInv' /\ [Next]_vars => AccountInv'
<1> SUFFICES ASSUME PickInv, EveryBlockAccounted, [Next]_vars
             PROVE  EveryBlockAccounted'
  BY DEF AccountInv
<1>0. TypeOK
  BY DEF PickInv, TypeInv
<1>1. CASE Filter \/ KeepMaximal \/ Combine
  BY <1>1 DEF Filter, KeepMaximal, Combine, Selecting, EveryBlockAccounted
<1>2. CASE StartSelection
  <2>1. marginals' = << >> /\ uncovered' = atoms' /\ counts' = counts /\ atoms' = atoms
    BY <1>2 DEF StartSelection, PickInv, TypeInv, Unstarted, Selecting, inputs, results
  <2>2. SumFunction(<< >>) = 0
    <3>1. DOMAIN << >> = {}
      OBVIOUS
    <3> QED
      BY <3>1, SumOfNone DEF SumFunction
  <2>3. Cardinality(BlocksOf(counts, atoms)) \in Nat
    BY <1>0, CountsAreFinite, BlocksSplit
  <2> QED
    BY <2>1, <2>2, <2>3 DEF EveryBlockAccounted
<1>3. ASSUME NEW p \in candidates, ExhaustiveSelect(p) PROVE EveryBlockAccounted'
  BY <1>0, <1>3, TakeAccounts DEF ExhaustiveSelect, Selecting, inputs
<1>4. ASSUME NEW e \in queue, LazySelect(e) PROVE EveryBlockAccounted'
  <2>1. /\ Selecting /\ Take(e.pattern, e.bound) /\ counts' = counts /\ atoms' = atoms
        /\ PopTop(e) /\ e.iteration = iteration
    BY <1>4 DEF LazySelect, PopTop, Selecting, inputs
  <2>2. e.bound = CoverageNow(e.pattern)
    BY <2>1, CurrentTopIsBest DEF PickInv
  <2> QED
    BY <1>0, <2>1, <2>2, TakeAccounts
<1>5. CASE \/ ExhaustiveStop \/ LoopEnds \/ UNCHANGED vars
           \/ \E e \in queue : LazyRefresh(e) \/ LazyStop(e)
  <2>1. /\ UNCHANGED <<counts, atoms, uncovered, marginals>>
        /\ Selecting' => Selecting
    BY <1>5 DEF ExhaustiveStop, LoopEnds, vars, LazyRefresh, LazyStop, PopTop, Selecting,
                inputs, results
  <2> QED
    BY <2>1 DEF EveryBlockAccounted
<1> QED
  BY <1>1, <1>2, <1>3, <1>4, <1>5 DEF Next

(* The marginal counts and what is uncovered add up to the blocks that     *)
(* passed the filter: none is counted for two patterns or for none.        *)
THEOREM BlocksAreAccounted == Spec => []EveryBlockAccounted
<1>1. Init => AccountInv
  BY InitPickInv DEF Init, AccountInv, EveryBlockAccounted, Selecting
<1>2. AccountInv => EveryBlockAccounted
  BY DEF AccountInv
<1> QED
  BY <1>1, <1>2, NextAccountInv, PickInvHolds, PTL DEF Spec

-----------------------------------------------------------------------------
(* The heap evaluates no more than the exhaustive loop would               *)

(* What the exhaustive loop evaluates in its iterations 0 to k.            *)
Exhaustive(total, k) == SumFunction([i \in 0..k |-> total - i])

LEMMA ExhaustiveGrows ==
  ASSUME NEW total \in Nat, NEW k \in Nat
  PROVE  /\ Exhaustive(total, 0) = total
         /\ Exhaustive(total, k) \in Int
         /\ Exhaustive(total, k + 1) = Exhaustive(total, k) + (total - (k + 1))
<1> DEFINE f(n) == [i \in 0..n |-> total - i]
           S    == 0..k
           x    == k + 1
           g    == f(k + 1)
<1>1. DOMAIN f(k) = S /\ DOMAIN g = S \cup {x} /\ x \notin S /\ IsFiniteSet(S)
  BY FS_Interval
<1>2. /\ g[x] = total - (k + 1) /\ \A i \in S : g[i] \in Int
      /\ \A i \in S : g[i] = f(k)[i]
  OBVIOUS
<1>3. /\ Exhaustive(total, k) = SumFunctionOnSet(f(k), S)
      /\ Exhaustive(total, k + 1) = SumFunctionOnSet(g, S \cup {x})
  <2>1. /\ SumFunction(f(k)) = SumFunctionOnSet(f(k), DOMAIN f(k))
        /\ SumFunction(g) = SumFunctionOnSet(g, DOMAIN g)
    BY Zenon DEF SumFunction
  <2> QED
    BY <1>1, <2>1 DEF Exhaustive
<1>4. /\ SumFunctionOnSet(g, S) \in Int
      /\ SumFunctionOnSet(g, S \cup {x}) = total - (k + 1) + SumFunctionOnSet(g, S)
  <2>1. g[x] \in Int
    BY <1>2
  <2> HIDE DEF g, S, x
  <2> QED
    BY <1>1, <1>2, <2>1, SumStep
<1>5. SumFunctionOnSet(g, S) = SumFunctionOnSet(f(k), S)
  <2> DEFINE h == f(k)
  <2>1. \A i \in S : g[i] = h[i]
    BY <1>2
  <2> HIDE DEF g, S, h
  <2> QED
    BY <1>1, <2>1, SumsCongruent DEF h
<1>6. Exhaustive(total, 0) = total
  <2> DEFINE h == f(0)
             T == {}
             z == 0
  <2>1. DOMAIN h = T \cup {z} /\ z \notin T /\ IsFiniteSet(T) /\ h[z] = total /\ h[z] \in Int
        /\ \A i \in T : h[i] \in Int
    BY FS_EmptySet
  <2>2. SumFunction(h) = SumFunctionOnSet(h, DOMAIN h) /\ Exhaustive(total, 0) = SumFunction(h)
    BY Zenon DEF SumFunction, Exhaustive
  <2>3. SumFunctionOnSet(h, T) = 0
    <3> HIDE DEF h
    <3> QED
      BY SumOfNone
  <2> HIDE DEF h, T, z
  <2>4. SumFunctionOnSet(h, T \cup {z}) = h[z] + SumFunctionOnSet(h, T)
    BY <2>1, SumStep
  <2> QED
    BY <2>1, <2>2, <2>3, <2>4
<1> HIDE DEF f, g, S, x
<1> QED
  BY <1>3, <1>4, <1>5, <1>6

(* Entries that were not evaluated in the current iteration.               *)
Stale == {e \in queue : e.iteration # iteration}

(* Each entry that is still to be evaluated in this iteration has its      *)
(* evaluation in reserve, and the entries and the selections are the       *)
(* candidates.                                                             *)
CostIsReserved ==
  /\ ~Selecting => evaluations = 0
  /\ mode = "lazy" /\ Selecting =>
       /\ IsFiniteSet(queue)
       /\ evaluations + Cardinality(Stale) <= Exhaustive(Cardinality(candidates), iteration)
       /\ phase = "select" => Cardinality(queue) + iteration = Cardinality(candidates)

CostInv == PickInv /\ CostIsReserved

LEMMA StartCosts ==
  ASSUME PickInv, CostIsReserved, StartSelection, TypeOK'
  PROVE  CostIsReserved'
<1>1. /\ phase' = "select" /\ candidates' = candidates /\ mode' = mode
      /\ iteration' = 0 /\ evaluations = 0
  BY DEF StartSelection, PickInv, TypeInv, Unstarted, CostIsReserved, Selecting, inputs
<1>2. CASE mode = "lazy"
  <2> DEFINE E(p) == Entry(p, Coverage(counts, p, atoms), 0)
             f    == [p \in candidates |-> E(p)]
             n    == Cardinality(candidates)
  <2>1. queue' = {E(p) : p \in candidates} /\ evaluations' = n
    BY <1>1, <1>2, CountsAreFinite DEF StartSelection, PickInv, TypeInv
  <2>2. IsFiniteSet(candidates) /\ n \in Nat
    BY CountsAreFinite DEF PickInv, TypeInv, TypeOK
  <2>3. IsFiniteSet(queue') /\ Cardinality(queue') = n
    <3>1. \A p, q \in candidates : f[p] = f[q] => p = q
      BY DEF Entry
    <3>2. f \in Bijection(candidates, queue')
      <4>1. f \in [candidates -> queue'] /\ \A e \in queue' : \E p \in candidates : f[p] = e
        BY <2>1
      <4>2. DOMAIN f = candidates
        OBVIOUS
      <4> HIDE DEF f
      <4> QED
        BY <3>1, <4>1, <4>2 DEF Bijection, Injection, Surjection, IsInjective
    <3>3. ExistsBijection(candidates, queue')
      <4> HIDE DEF f
      <4> QED
        BY <3>2, Zenon DEF ExistsBijection
    <3> HIDE DEF f
    <3> QED
      BY <2>2, <3>3, FS_Bijection
  <2>4. Stale' = {}
    BY <1>1, <2>1 DEF Stale, Entry
  <2>5. Cardinality({}) = 0
    BY FS_EmptySet
  <2>6. Exhaustive(n, 0) = n
    BY <2>2, ExhaustiveGrows
  <2>7. Exhaustive(Cardinality(candidates), iteration)' = Exhaustive(n, 0)
    BY <1>1
  <2>8. (evaluations + Cardinality(Stale))' = n
    BY <2>1, <2>2, <2>4, <2>5
  <2>9. Cardinality(candidates)' = n /\ Cardinality(queue)' = n
    BY <1>1, <2>3
  <2>10. n <= n /\ n + 0 = n
    BY <2>2
  <2> HIDE DEF n
  <2> QED
    BY <1>1, <2>3, <2>6, <2>7, <2>8, <2>9, <2>10 DEF CostIsReserved, Selecting
<1>3. CASE mode # "lazy"
  BY <1>1, <1>3 DEF CostIsReserved, Selecting
<1> QED
  BY <1>2, <1>3

LEMMA RefreshCosts ==
  ASSUME PickInv, CostIsReserved, NEW e \in queue, LazyRefresh(e)
  PROVE  CostIsReserved'
<1> DEFINE new  == Entry(e.pattern, CoverageNow(e.pattern), iteration)
           rest == queue \ {e}
<1>1. /\ mode = "lazy" /\ phase = "select" /\ e.iteration # iteration
      /\ UNCHANGED <<mode, phase, candidates, iteration>>
      /\ queue' = rest \cup {new} /\ evaluations' = evaluations + 1
  BY DEF LazyRefresh, PopTop, inputs
<1>2. /\ IsFiniteSet(queue) /\ evaluations \in Nat /\ iteration \in Nat
      /\ evaluations + Cardinality(Stale) <= Exhaustive(Cardinality(candidates), iteration)
      /\ Cardinality(queue) + iteration = Cardinality(candidates)
      /\ Exhaustive(Cardinality(candidates), iteration) \in Int
  BY <1>1, CountsAreFinite, ExhaustiveGrows
  DEF CostIsReserved, Selecting, PickInv, TypeInv, TypeOK
<1>3. new.pattern = e.pattern /\ new.iteration = iteration
  BY DEF Entry
<1>4. new \notin rest
  BY <1>1, <1>3 DEF PickInv, QueueHoldsTheUnselected
<1>5. IsFiniteSet(rest) /\ Cardinality(queue) \in Nat /\ Cardinality(rest) = Cardinality(queue) - 1
  BY <1>2, OneLess
<1>6. IsFiniteSet(queue') /\ Cardinality(queue') = Cardinality(queue)
  <2> HIDE DEF new, rest
  <2>1. IsFiniteSet(rest \cup {new}) /\ Cardinality(rest \cup {new}) = Cardinality(rest) + 1
    BY <1>4, <1>5, FS_AddElement
  <2> QED
    BY <1>1, <1>5, <2>1
<1>7. Stale' = Stale \ {e} /\ e \in Stale /\ IsFiniteSet(Stale)
  <2>1. Stale \in SUBSET queue
    BY DEF Stale
  <2>2. IsFiniteSet(Stale)
    BY <1>2, <2>1, FS_Subset
  <2> HIDE DEF new
  <2> QED
    BY <1>1, <1>3, <2>2 DEF Stale
<1>8. Cardinality(Stale) \in Nat /\ Cardinality(Stale') = Cardinality(Stale) - 1
  BY <1>7, OneLess
<1>9. (evaluations + Cardinality(Stale))' = evaluations + Cardinality(Stale)
  BY <1>1, <1>2, <1>8
<1>10. /\ Exhaustive(Cardinality(candidates), iteration)'
            = Exhaustive(Cardinality(candidates), iteration)
       /\ (Cardinality(queue) + iteration = Cardinality(candidates))'
  BY <1>1, <1>2, <1>6
<1>11. (evaluations + Cardinality(Stale) <= Exhaustive(Cardinality(candidates), iteration))'
  BY <1>2, <1>9, <1>10
<1> QED
  BY <1>1, <1>6, <1>10, <1>11 DEF CostIsReserved, Selecting

LEMMA SelectCosts ==
  ASSUME PickInv, CostIsReserved, NEW e \in queue, LazySelect(e)
  PROVE  CostIsReserved'
<1> DEFINE n == Cardinality(candidates)
<1>1. /\ mode = "lazy" /\ phase = "select"
      /\ UNCHANGED <<mode, phase, candidates, evaluations>>
      /\ queue' = queue \ {e} /\ iteration' = iteration + 1
  BY DEF LazySelect, PopTop, inputs
<1>2. /\ IsFiniteSet(queue) /\ evaluations \in Nat /\ iteration \in Nat /\ n \in Nat
      /\ evaluations + Cardinality(Stale) <= Exhaustive(n, iteration)
      /\ Cardinality(queue) + iteration = n
  BY <1>1, CountsAreFinite DEF CostIsReserved, Selecting, PickInv, TypeInv, TypeOK
<1>3. /\ IsFiniteSet(queue') /\ Cardinality(queue) \in Nat
      /\ Cardinality(queue') = Cardinality(queue) - 1
  BY <1>1, <1>2, OneLess
<1>4. \A d \in queue : d.iteration <= iteration /\ d.iteration \in Nat
  BY DEF PickInv, BoundsAdmissible, TypeInv, TypeOK, Entries
<1>5. Stale' = queue'
  BY <1>1, <1>2, <1>4 DEF Stale
<1>6. Cardinality(Stale) \in Nat
  <2>1. Stale \in SUBSET queue
    BY DEF Stale
  <2> QED
    BY <1>2, <2>1, FS_Subset, FS_CardinalityType
<1>7. /\ Exhaustive(n, iteration) \in Int
      /\ Exhaustive(n, iteration + 1) = Exhaustive(n, iteration) + (n - (iteration + 1))
  BY <1>2, ExhaustiveGrows
<1>8. /\ Exhaustive(Cardinality(candidates), iteration)' = Exhaustive(n, iteration + 1)
      /\ (evaluations + Cardinality(Stale))' = evaluations + Cardinality(queue')
      /\ (Cardinality(queue) + iteration = Cardinality(candidates))'
  BY <1>1, <1>2, <1>3, <1>5
<1> HIDE DEF n
<1>9. evaluations + Cardinality(queue') <= Exhaustive(n, iteration + 1)
  BY <1>2, <1>3, <1>6, <1>7
<1> QED
  BY <1>1, <1>3, <1>8, <1>9 DEF CostIsReserved, Selecting

LEMMA StopCosts ==
  ASSUME PickInv, CostIsReserved, LoopEnds \/ \E e \in queue : LazyStop(e)
  PROVE  CostIsReserved'
<1>1. /\ phase = "select" /\ phase' = "done"
      /\ UNCHANGED <<mode, candidates, iteration, evaluations>> /\ queue' \in SUBSET queue
  BY DEF LoopEnds, LazyStop, PopTop, inputs
<1>2. CASE mode = "lazy"
  <2>1. /\ IsFiniteSet(queue) /\ evaluations \in Nat
        /\ evaluations + Cardinality(Stale) <= Exhaustive(Cardinality(candidates), iteration)
        /\ Exhaustive(Cardinality(candidates), iteration) \in Int
    BY <1>1, <1>2, CountsAreFinite, ExhaustiveGrows
    DEF CostIsReserved, Selecting, PickInv, TypeInv, TypeOK
  <2>2. Stale \in SUBSET queue /\ Stale' \in SUBSET Stale
    BY <1>1 DEF Stale
  <2>3. IsFiniteSet(Stale) /\ IsFiniteSet(queue')
    BY <1>1, <2>1, <2>2, FS_Subset
  <2>4. /\ Cardinality(Stale) \in Nat /\ Cardinality(Stale') \in Nat
        /\ Cardinality(Stale') <= Cardinality(Stale)
    BY <2>2, <2>3, FS_Subset, FS_CardinalityType
  <2>5. /\ Exhaustive(Cardinality(candidates), iteration)'
             = Exhaustive(Cardinality(candidates), iteration)
        /\ (evaluations + Cardinality(Stale))' = evaluations + Cardinality(Stale')
    BY <1>1
  <2>6. evaluations + Cardinality(Stale') <= Exhaustive(Cardinality(candidates), iteration)
    BY <2>1, <2>4
  <2> QED
    BY <1>1, <2>3, <2>5, <2>6 DEF CostIsReserved, Selecting
<1>3. CASE mode # "lazy"
  BY <1>1, <1>3 DEF CostIsReserved, Selecting
<1> QED
  BY <1>2, <1>3

LEMMA NextCostInv == CostInv /\ PickInv' /\ [Next]_vars => CostInv'
<1> SUFFICES ASSUME PickInv, CostIsReserved, PickInv', [Next]_vars
             PROVE  CostIsReserved'
  BY DEF CostInv
<1>1. CASE Filter \/ KeepMaximal \/ Combine
  BY <1>1 DEF Filter, KeepMaximal, Combine, Selecting, CostIsReserved
<1>2. CASE StartSelection
  BY <1>2, StartCosts DEF PickInv, TypeInv
<1>3. ASSUME NEW e \in queue, LazyRefresh(e) PROVE CostIsReserved'
  BY <1>3, RefreshCosts
<1>4. ASSUME NEW e \in queue, LazySelect(e) PROVE CostIsReserved'
  BY <1>4, SelectCosts
<1>5. CASE LoopEnds \/ \E e \in queue : LazyStop(e)
  BY <1>5, StopCosts
<1>6. CASE ExhaustiveStop \/ \E p \in candidates : ExhaustiveSelect(p)
  BY <1>6 DEF ExhaustiveStop, ExhaustiveSelect, CostIsReserved, Selecting, inputs
<1>7. CASE UNCHANGED vars
  <2>1. Stale' = Stale
    BY <1>7 DEF vars, Stale
  <2> QED
    BY <1>7, <2>1 DEF vars, inputs, results, Selecting, CostIsReserved
<1> QED
  BY <1>1, <1>2, <1>3, <1>4, <1>5, <1>6, <1>7 DEF Next

(* The heap never evaluates more coverages than the exhaustive loop makes  *)
(* up to the same selection.                                               *)
THEOREM LazyIsNoDearer == Spec => []LazyNeverCostsMore
<1>1. Init => CostInv
  BY InitPickInv DEF Init, CostInv, CostIsReserved, Selecting
<1>2. CostInv => LazyNeverCostsMore
  <2> SUFFICES ASSUME PickInv, CostIsReserved, mode = "lazy", Selecting
               PROVE  evaluations <= Exhaustive(Cardinality(candidates), iteration)
    BY DEF CostInv, LazyNeverCostsMore, Exhaustive
  <2>1. Stale \in SUBSET queue
    BY DEF Stale
  <2>2. Cardinality(Stale) \in Nat
    BY <2>1, FS_Subset, FS_CardinalityType DEF CostIsReserved
  <2>3. /\ evaluations \in Nat /\ Exhaustive(Cardinality(candidates), iteration) \in Int
        /\ evaluations + Cardinality(Stale) <= Exhaustive(Cardinality(candidates), iteration)
    BY CountsAreFinite, ExhaustiveGrows DEF CostIsReserved, PickInv, TypeInv, TypeOK
  <2> QED
    BY <2>2, <2>3
<1> QED
  BY <1>1, <1>2, NextCostInv, PickInvHolds, PTL DEF Spec
=============================================================================
