----------------------------- MODULE ToolProofs -----------------------------
(***************************************************************************)
(* The tools beside byte-select.  The trace tool for any number of         *)
(* threads, any geometry of the cache and any programs' accesses: what it  *)
(* records, and that its clocked slots are a least-recently-used cache.    *)
(* The FPC-BSEL program for any blocks and any number of patterns: a model *)
(* file is loaded whole or refused.                                        *)
(***************************************************************************)
EXTENDS CacheTrace, FpcBselTool, FiniteSetTheorems, SequenceTheorems,
        WellFoundedInduction, TLAPS

(* Depths that are counted are positive: a thread is in roi_depths exactly *)
(* while the tool believes it to be inside.                                *)
DepthsPositive ==
  /\ inside \in [Threads -> Nat]
  /\ roi_depths \in [DOMAIN roi_depths -> Nat \ {0}]
  /\ ~RoiGiven => inside = [t \in Threads |-> 0]

(* The access under way is the lock holder's, and what it knows of the     *)
(* routine is still so: nobody enters or leaves while the lock is held.    *)
Access == [thread : Threads, line : Nat, last_line : Nat, in_roi : BOOLEAN]

LockProtects ==
  \/ holder = {} /\ access = {}
  \/ \E a \in Access : /\ holder = {a.thread} /\ access = {a}
                       /\ a.in_roi = (~RoiGiven \/ a.thread \in DOMAIN roi_depths)

Record == [line : Nat, miss : Nat, inside : BOOLEAN, unwound : BOOLEAN]

(* Misses are numbered as they come.                                       *)
TraceGrows ==
  /\ misses \in Nat /\ recorded \in Nat /\ copy_failures \in Nat
  /\ output \in Seq(Record)
  /\ \A i \in 1..Len(output) : output[i].miss <= misses

TraceInv == DepthsPositive /\ LockProtects /\ TraceGrows /\ RecordsWhatWasAsked

LEMMA RoiKeepsTraceInv ==
  ASSUME TraceInv, NEW t \in Threads, EnterRoi(t) \/ LeaveRoi(t) \/ Unwind(t)
  PROVE  TraceInv'
<1>1. UNCHANGED <<holder, access, misses, recorded, copy_failures, output>>
  BY DEF EnterRoi, LeaveRoi, Unwind, cacheVars, counters
<1>2. TraceGrows' /\ RecordsWhatWasAsked'
  BY <1>1 DEF TraceInv, TraceGrows, RecordsWhatWasAsked
<1>3. DepthsPositive'
  <2>1. inside \in [Threads -> Nat] /\ roi_depths \in [DOMAIN roi_depths -> Nat \ {0}]
        /\ DepthOf(t) \in Nat
    BY DEF TraceInv, DepthsPositive, DepthOf
  <2>2. ASSUME NEW d \in Nat
        PROVE  WithDepth(t, d) \in [DOMAIN WithDepth(t, d) -> Nat \ {0}]
    BY <2>1, <2>2 DEF WithDepth
  <2>3. CASE EnterRoi(t)
    BY <2>1, <2>2, <2>3 DEF EnterRoi, DepthsPositive
  <2>4. CASE LeaveRoi(t)
    <3>1. RoiGiven
      BY <2>4 DEF LeaveRoi, TraceInv, DepthsPositive
    <3>2. t \in DOMAIN roi_depths => roi_depths[t] - 1 \in Nat
      BY <2>1
    <3>3. roi_depths' \in [DOMAIN roi_depths' -> Nat \ {0}]
      BY <2>1, <2>2, <2>4, <3>2 DEF LeaveRoi
    <3>4. inside' \in [Threads -> Nat]
      BY <2>1, <2>4 DEF LeaveRoi
    <3> QED
      BY <3>1, <3>3, <3>4 DEF DepthsPositive
  <2>5. CASE Unwind(t)
    BY <2>1, <2>5 DEF Unwind, TraceInv, DepthsPositive
  <2> QED
    BY <2>3, <2>4, <2>5
<1>4. LockProtects'
  <2>1. CASE UNCHANGED roi_depths
    BY <1>1, <2>1 DEF TraceInv, LockProtects
  <2>2. CASE holder = {}
    BY <1>1, <2>2 DEF TraceInv, LockProtects
  <2> QED
    BY <2>1, <2>2 DEF EnterRoi, LeaveRoi, Unwind
<1> QED
  BY <1>2, <1>3, <1>4 DEF TraceInv

LEMMA BeginKeepsTraceInv ==
  ASSUME TraceInv, NEW t \in Threads, NEW first \in Lines, NEW last \in Lines,
         BeginAccess(t, first, last)
  PROVE  TraceInv'
<1>1. UNCHANGED <<inside, roi_depths, misses, recorded, copy_failures, output>>
  BY DEF BeginAccess, roiVars, cacheVars, counters
<1>2. [thread |-> t, line |-> first, last_line |-> last,
       in_roi |-> ~RoiGiven \/ t \in DOMAIN roi_depths] \in Access
  BY GeometryAssumption DEF Access
<1>3. LockProtects'
  BY <1>1, <1>2 DEF BeginAccess, LockProtects
<1> QED
  BY <1>1, <1>3 DEF TraceInv, DepthsPositive, TraceGrows, RecordsWhatWasAsked

LEMMA TouchKeepsTraceInv ==
  ASSUME TraceInv, Touch
  PROVE  TraceInv'
<1>1. PICK a \in access : Hit(a) \/ RecordMiss(a) \/ FailCopy(a) \/ PassOver(a)
  BY DEF Touch
<1>2. /\ a \in Access /\ access = {a} /\ holder = {a.thread}
      /\ a.in_roi = (~RoiGiven \/ a.thread \in DOMAIN roi_depths)
      /\ UNCHANGED <<inside, roi_depths>> /\ Proceed(a)
  BY <1>1 DEF TraceInv, LockProtects, Hit, RecordMiss, FailCopy, PassOver, Miss, roiVars
<1>3. LockProtects'
  <2>1. CASE a.line = a.last_line
    BY <1>2, <2>1 DEF Proceed, LockProtects
  <2>2. CASE a.line # a.last_line
    <3> DEFINE next == [a EXCEPT !.line = @ + 1]
    <3>1. next \in Access /\ next.thread = a.thread /\ next.in_roi = a.in_roi
      BY <1>2 DEF Access
    <3>2. access' = {next} /\ holder' = holder
      BY <1>2, <2>2 DEF Proceed
    <3> HIDE DEF next
    <3> QED
      BY <1>2, <3>1, <3>2 DEF LockProtects
  <2> QED
    BY <2>1, <2>2
<1>4. DepthsPositive'
  BY <1>2 DEF TraceInv, DepthsPositive
<1>5. /\ misses \in Nat /\ recorded \in Nat /\ copy_failures \in Nat /\ WarmupMisses \in Nat
      /\ output \in Seq(Record) /\ \A i \in 1..Len(output) : output[i].miss <= misses
      /\ \A i \in 1..Len(output) : output[i].miss \in Nat
  <2>1. /\ misses \in Nat /\ recorded \in Nat /\ copy_failures \in Nat /\ WarmupMisses \in Nat
        /\ output \in Seq(Record) /\ \A i \in 1..Len(output) : output[i].miss <= misses
    BY KnobAssumption DEF TraceInv, TraceGrows
  <2>2. \A i \in 1..Len(output) : output[i] \in Record
    BY <2>1
  <2> QED
    BY <2>1, <2>2 DEF Record
<1>6. CASE UNCHANGED <<output, recorded>>
  <2>1. \/ UNCHANGED <<misses, copy_failures>>
        \/ misses' = misses + 1 /\ UNCHANGED copy_failures
        \/ misses' = misses + 1 /\ copy_failures' = copy_failures + 1 /\ misses + 1 > WarmupMisses
    BY <1>1, <1>5, <1>6 DEF Hit, RecordMiss, FailCopy, PassOver, Miss, ToBeRecorded
  <2> QED
    BY <1>3, <1>4, <1>5, <1>6, <2>1 DEF TraceInv, TraceGrows, RecordsWhatWasAsked
<1>7. CASE RecordMiss(a)
  <2> DEFINE record == [line |-> a.line, miss |-> misses + 1,
                        inside |-> ~RoiGiven \/ inside[a.thread] > 0,
                        unwound |-> DepthOf(a.thread) # inside[a.thread]]
  <2>1. /\ misses' = misses + 1 /\ recorded' = recorded + 1 /\ UNCHANGED copy_failures
        /\ output' = Append(output, record) /\ misses + 1 > WarmupMisses /\ recorded < MaximumBlocks
        /\ a.in_roi
    BY <1>7 DEF RecordMiss, Miss, ToBeRecorded
  <2>2. record \in Record /\ record.miss = misses + 1
    BY <1>2, <1>5 DEF Record, Access
  <2>3. record.inside \/ record.unwound
    <3>1. a.thread \in Threads /\ (~RoiGiven \/ a.thread \in DOMAIN roi_depths)
      BY <1>2, <2>1 DEF Access
    <3>2. inside[a.thread] \in Nat /\ (a.thread \in DOMAIN roi_depths => DepthOf(a.thread) \in Nat \ {0})
      BY <3>1 DEF TraceInv, DepthsPositive, DepthOf
    <3>3. (~RoiGiven \/ inside[a.thread] > 0) \/ DepthOf(a.thread) # inside[a.thread]
      BY <3>1, <3>2
    <3> QED
      BY <3>3
  <2> HIDE DEF record
  <2>4. /\ output' \in Seq(Record) /\ Len(output') = Len(output) + 1 /\ Len(output) \in Nat
        /\ \A i \in 1..Len(output) : output'[i] = output[i]
        /\ output'[Len(output) + 1] = record
    BY <1>5, <2>1, <2>2
  <2>5. \A i \in 1..Len(output') : i \in 1..Len(output) \/ i = Len(output) + 1
    BY <2>4
  <2>6. TraceGrows'
    <3>1. \A i \in 1..Len(output') : output'[i].miss <= misses'
      BY <1>5, <2>1, <2>2, <2>4, <2>5
    <3> QED
      BY <1>5, <2>1, <2>4, <3>1 DEF TraceGrows
  <2>7. RecordsWhatWasAsked'
    <3>1. /\ \A i \in 1..Len(output) : output[i].inside \/ output[i].unwound
          /\ \A i \in 1..Len(output) : output[i].miss > WarmupMisses
          /\ \A i, j \in 1..Len(output) : i < j => output[i].miss < output[j].miss
          /\ recorded = Len(output) /\ recorded <= MaximumBlocks
          /\ recorded + copy_failures + WarmupMisses <= misses \/ recorded + copy_failures = 0
      BY DEF TraceInv, RecordsWhatWasAsked
    <3>2. \A i \in 1..Len(output') : output'[i].inside \/ output'[i].unwound
      BY <2>3, <2>4, <2>5, <3>1
    <3>3. \A i \in 1..Len(output') : output'[i].miss > WarmupMisses
      BY <2>1, <2>2, <2>4, <2>5, <3>1
    <3>4. \A i, j \in 1..Len(output') : i < j => output'[i].miss < output'[j].miss
      <4> SUFFICES ASSUME NEW i \in 1..Len(output'), NEW j \in 1..Len(output'), i < j
                   PROVE  output'[i].miss < output'[j].miss
        OBVIOUS
      <4>1. i \in 1..Len(output)
        BY <2>4
      <4>2. CASE j \in 1..Len(output)
        BY <2>4, <3>1, <4>1, <4>2
      <4>3. CASE j = Len(output) + 1
        BY <1>5, <2>2, <2>4, <4>1, <4>3
      <4> QED
        BY <2>5, <4>2, <4>3
    <3>5. recorded' = Len(output') /\ recorded' <= MaximumBlocks
      BY <1>5, <2>1, <2>4, <3>1, KnobAssumption
    <3>6. recorded' + copy_failures' + WarmupMisses <= misses' \/ recorded' + copy_failures' = 0
      BY <1>5, <2>1, <3>1
    <3> QED
      BY <3>2, <3>3, <3>4, <3>5, <3>6 DEF RecordsWhatWasAsked
  <2> QED
    BY <1>3, <1>4, <2>6, <2>7 DEF TraceInv
<1> QED
  BY <1>1, <1>6, <1>7 DEF Hit, FailCopy, PassOver

LEMMA TraceInvHolds == Spec => []TraceInv
<1>1. Init => TraceInv
  BY KnobAssumption
  DEF Init, TraceInv, DepthsPositive, LockProtects, TraceGrows, RecordsWhatWasAsked
<1>2. TraceInv /\ [Next]_vars => TraceInv'
  <2> SUFFICES ASSUME TraceInv, [Next]_vars
               PROVE  TraceInv'
    OBVIOUS
  <2>1. CASE UNCHANGED vars
    BY <2>1 DEF vars, roiVars, cacheVars, counters, TraceInv, DepthsPositive, LockProtects, TraceGrows,
                RecordsWhatWasAsked
  <2> QED
    BY <2>1, RoiKeepsTraceInv, BeginKeepsTraceInv, TouchKeepsTraceInv DEF Next
<1> QED
  BY <1>1, <1>2, PTL DEF Spec

(* Whatever routine is named, however threads enter it, leave it or are    *)
(* thrown out of it, and whatever the limits: the trace holds misses of    *)
(* threads that are inside, or that the tool takes to be, after the        *)
(* warm-up, in order and as many as counted.                               *)
THEOREM TraceIsAsAsked == Spec => []RecordsWhatWasAsked
<1>1. TraceInv => RecordsWhatWasAsked
  BY DEF TraceInv
<1> QED
  BY <1>1, TraceInvHolds, PTL
-----------------------------------------------------------------------------
(* As long as the program returns from what it enters, the tool's depths   *)
(* are the program's.                                                      *)
DepthsExact == \A t \in Threads : DepthOf(t) = inside[t]

LEMMA RoiKeepsDepths ==
  ASSUME TraceInv, DepthsExact, NEW t \in Threads, EnterRoi(t) \/ LeaveRoi(t)
  PROVE  DepthsExact'
<1>1. /\ inside \in [Threads -> Nat] /\ roi_depths \in [DOMAIN roi_depths -> Nat \ {0}]
      /\ DepthOf(t) = inside[t]
  BY DEF TraceInv, DepthsPositive, DepthsExact
<1>2. ASSUME NEW d \in Nat, roi_depths' = WithDepth(t, d), NEW u \in Threads
      PROVE  DepthOf(u)' = IF u = t THEN d ELSE DepthOf(u)
  BY <1>1, <1>2 DEF WithDepth, DepthOf
<1>3. CASE EnterRoi(t)
  <2>1. /\ roi_depths' = WithDepth(t, inside[t] + 1) /\ inside[t] + 1 \in Nat
        /\ inside' = [inside EXCEPT ![t] = @ + 1]
    BY <1>1, <1>3 DEF EnterRoi
  <2> QED
    BY <1>1, <1>2, <2>1 DEF DepthsExact
<1>4. CASE LeaveRoi(t)
  <2>1. t \in DOMAIN roi_depths /\ roi_depths[t] = inside[t] /\ inside[t] > 0
    BY <1>1, <1>4 DEF LeaveRoi, DepthOf
  <2>2. /\ roi_depths' = WithDepth(t, inside[t] - 1) /\ inside[t] - 1 \in Nat
        /\ inside' = [inside EXCEPT ![t] = @ - 1]
    BY <1>1, <1>4, <2>1 DEF LeaveRoi
  <2> QED
    BY <1>1, <1>2, <2>2 DEF DepthsExact
<1> QED
  BY <1>3, <1>4

(* Where nothing unwinds the stack, only misses of threads that execute    *)
(* the routine of interest are recorded.                                   *)
THEOREM OnlyInsideIsRecorded ==
  ASSUME ~Unwinding
  PROVE  Spec => []RecordsOnlyInside
<1>1. Init => DepthsExact
  BY DEF Init, DepthsExact, DepthOf
<1>2. TraceInv /\ DepthsExact /\ [Next]_vars => DepthsExact'
  <2> SUFFICES ASSUME TraceInv, DepthsExact, [Next]_vars
               PROVE  DepthsExact'
    OBVIOUS
  <2>1. CASE UNCHANGED <<inside, roi_depths>>
    BY <2>1 DEF DepthsExact, DepthOf
  <2>2. ASSUME NEW t \in Threads, EnterRoi(t) \/ LeaveRoi(t)
        PROVE  DepthsExact'
    BY <2>2, RoiKeepsDepths
  <2>3. ASSUME NEW t \in Threads, Unwind(t)
        PROVE  FALSE
    BY <2>3 DEF Unwind
  <2> QED
    BY <2>1, <2>2, <2>3
    DEF Next, vars, roiVars, BeginAccess, Touch, Hit, RecordMiss, FailCopy, PassOver, Miss
<1>3. Init => RecordsOnlyInside
  BY DEF Init, RecordsOnlyInside
<1>4. TraceInv /\ DepthsExact /\ RecordsOnlyInside /\ [Next]_vars => RecordsOnlyInside'
  <2> SUFFICES ASSUME TraceInv, DepthsExact, RecordsOnlyInside, [Next]_vars
               PROVE  RecordsOnlyInside'
    OBVIOUS
  <2>1. CASE UNCHANGED output
    BY <2>1 DEF RecordsOnlyInside
  <2>2. ASSUME NEW a \in access, RecordMiss(a)
        PROVE  RecordsOnlyInside'
    <3>1. /\ a \in Access /\ (~RoiGiven \/ a.thread \in DOMAIN roi_depths)
          /\ a.thread \in Threads
      BY <2>2 DEF TraceInv, LockProtects, RecordMiss, ToBeRecorded, Access
    <3>2. inside[a.thread] \in Nat /\ (a.thread \in DOMAIN roi_depths => inside[a.thread] \in Nat \ {0})
      BY <3>1 DEF TraceInv, DepthsPositive, DepthsExact, DepthOf
    <3>3. ~RoiGiven \/ inside[a.thread] > 0
      BY <3>1, <3>2
    <3> DEFINE record == [line |-> a.line, miss |-> misses + 1,
                          inside |-> ~RoiGiven \/ inside[a.thread] > 0,
                          unwound |-> DepthOf(a.thread) # inside[a.thread]]
    <3>4. output' = Append(output, record) /\ record.inside
      BY <2>2, <3>3 DEF RecordMiss
    <3>5. output \in Seq(Record)
      BY DEF TraceInv, TraceGrows
    <3> HIDE DEF record
    <3>6. /\ Len(output') = Len(output) + 1 /\ Len(output) \in Nat
          /\ \A i \in 1..Len(output) : output'[i] = output[i]
          /\ output'[Len(output) + 1] = record
      BY <3>4, <3>5
    <3>7. \A i \in 1..Len(output') : i \in 1..Len(output) \/ i = Len(output) + 1
      BY <3>6
    <3> QED
      BY <3>4, <3>6, <3>7 DEF RecordsOnlyInside
  <2> QED
    BY <2>1, <2>2
    DEF Next, vars, cacheVars, EnterRoi, LeaveRoi, Unwind, BeginAccess, Touch, Hit, FailCopy, PassOver
<1> QED
  BY <1>1, <1>2, <1>3, <1>4, TraceInvHolds, PTL DEF Spec

-----------------------------------------------------------------------------
(* Numbers of lines, and the slots of a set.                               *)

LEMMA LineIsTagAndSet ==
  ASSUME NEW line \in Nat
  PROVE  /\ (line \div SetCount) * SetCount + (line % SetCount) = line
         /\ line % SetCount \in 0..(SetCount - 1) /\ line \div SetCount \in Nat
BY GeometryAssumption

LEMMA SlotArithmetic ==
  /\ Slots \subseteq Nat
  /\ \A i \in Slots : i \div Ways \in 0..(SetCount - 1)
  /\ \A s \in 0..(SetCount - 1) : \A i \in Nat :
       i \in Slots /\ i \div Ways = s <=> s * Ways <= i /\ i <= s * Ways + (Ways - 1)
<1>1. SetCount \in Nat \ {0} /\ Ways \in Nat \ {0} /\ SetCount * Ways \in Nat
  BY GeometryAssumption
<1>2. Slots \subseteq Nat
  BY <1>1 DEF Slots
<1>3. ASSUME NEW i \in Nat, NEW n \in Nat, NEW m \in Nat \ {0}, i < n * m
      PROVE  i \div m \in Nat /\ i \div m < n
  BY <1>3
<1>4. ASSUME NEW i \in Slots
      PROVE  i \div Ways \in 0..(SetCount - 1)
  <2>1. i \in Nat /\ i < SetCount * Ways
    BY <1>1 DEF Slots
  <2> QED
    BY <1>1, <1>3, <2>1
<1>5. ASSUME NEW i \in Nat, NEW q \in Nat, NEW m \in Nat \ {0}, q * m <= i, i < q * m + m
      PROVE  i \div m = q
  BY <1>5
<1>6. ASSUME NEW s \in Nat, NEW n \in Nat, NEW m \in Nat \ {0}, s < n
      PROVE  s * m + m <= n * m
  BY <1>6
<1>7. ASSUME NEW i \in Nat, NEW m \in Nat \ {0}
      PROVE  (i \div m) * m <= i /\ i < (i \div m) * m + m
  BY <1>7
<1>8. ASSUME NEW s \in 0..(SetCount - 1), NEW i \in Nat
      PROVE  i \in Slots /\ i \div Ways = s <=> s * Ways <= i /\ i <= s * Ways + (Ways - 1)
  <2>1. s \in Nat /\ s < SetCount /\ s * Ways \in Nat
    BY <1>1
  <2>2. ASSUME s * Ways <= i, i <= s * Ways + (Ways - 1)
        PROVE  i \in Slots /\ i \div Ways = s
    <3>1. i < s * Ways + Ways
      BY <1>1, <2>1, <2>2
    <3>2. i \div Ways = s
      BY <1>1, <1>5, <2>1, <2>2, <3>1
    <3>3. s * Ways + Ways <= SetCount * Ways
      BY <1>1, <1>6, <2>1
    <3>4. i \in Slots
      BY <1>1, <2>1, <3>1, <3>3 DEF Slots
    <3> QED
      BY <3>2, <3>4
  <2>3. ASSUME i \div Ways = s
        PROVE  s * Ways <= i /\ i <= s * Ways + (Ways - 1)
    <3>1. s * Ways <= i /\ i < s * Ways + Ways
      BY <1>1, <1>7, <2>3
    <3> QED
      BY <1>1, <2>1, <3>1
  <2> QED
    BY <2>2, <2>3
<1> QED
  BY <1>2, <1>4, <1>8

LEMMA SetHasWays ==
  ASSUME NEW line \in Nat
  PROVE  /\ IsFiniteSet(SlotsOf(line)) /\ Cardinality(SlotsOf(line)) = Ways
         /\ SlotsOf(line) # {} /\ SlotsOf(line) \subseteq Slots
<1> DEFINE s == line % SetCount
<1>1. s \in 0..(SetCount - 1)
  BY LineIsTagAndSet
<1>2. Ways \in Nat \ {0} /\ s * Ways \in Nat /\ SetCount \in Nat
  BY <1>1, GeometryAssumption
<1>3. SlotsOf(line) = (s * Ways)..(s * Ways + (Ways - 1))
  <2>1. ASSUME NEW i \in Nat
        PROVE  i \in SlotsOf(line) <=> s * Ways <= i /\ i <= s * Ways + (Ways - 1)
    BY <1>1, SlotArithmetic DEF SlotsOf
  <2>2. \A i \in SlotsOf(line) : i \in Nat
    BY SlotArithmetic DEF SlotsOf
  <2> DEFINE low  == s * Ways
             high == s * Ways + (Ways - 1)
  <2>3. low \in Nat /\ high \in Nat
    BY <1>2
  <2>4. \A i \in Nat : i \in SlotsOf(line) <=> low <= i /\ i <= high
    BY <2>1
  <2> HIDE DEF low, high
  <2>5. \A i \in SlotsOf(line) : i \in low..high
    BY <2>2, <2>3, <2>4
  <2>6. \A i \in low..high : i \in SlotsOf(line)
    BY <2>3, <2>4
  <2>7. SlotsOf(line) = low..high
    <3> DEFINE S == SlotsOf(line)
               T == low..high
    <3>1. \A i : i \in S <=> i \in T
      BY <2>5, <2>6
    <3> HIDE DEF S, T
    <3>2. S = T
      BY <3>1
    <3> QED
      BY <3>2 DEF S, T
  <2> QED
    BY <2>7 DEF low, high
<1> HIDE DEF s
<1>4. s * Ways \in Int /\ s * Ways + (Ways - 1) \in Int /\ s * Ways <= s * Ways + (Ways - 1)
      /\ (s * Ways + (Ways - 1)) - (s * Ways) + 1 = Ways
  BY <1>2
<1>5. IsFiniteSet(SlotsOf(line)) /\ Cardinality(SlotsOf(line)) = Ways
  BY <1>3, <1>4, FS_Interval
<1>6. s * Ways \in SlotsOf(line)
  BY <1>3, <1>4
<1> QED
  BY <1>5, <1>6 DEF SlotsOf

LEMMA SmallestExists ==
  ASSUME NEW S \in SUBSET Nat, S # {}
  PROVE  \E m \in S : \A n \in S : m <= n
<1>1. PICK m \in S : \A n \in S : ~(<<n, m>> \in OpToRel(<, Nat))
  BY NatLessThanWellFounded, WFMin
<1>2. \A n \in S : ~(n < m)
  BY <1>1 DEF OpToRel
<1> QED
  BY <1>2

-----------------------------------------------------------------------------
(* The slots: lines are held once, in the set that is theirs, and no two   *)
(* were used at the same time.                                             *)

Holds(i) == entries[i].valid

SlotGood(i) ==
  Holds(i) => /\ entries[i].stamp <= clock_value
              /\ LineOf(i) \in Lines /\ LineOf(i) % SetCount = i \div Ways
              /\ LineOf(i) \div SetCount = entries[i].tag

SlotsDiffer ==
  \A i, j \in Slots : Holds(i) /\ Holds(j) /\ i # j =>
    entries[i].stamp # entries[j].stamp /\ LineOf(i) # LineOf(j)

CacheInv ==
  /\ entries \in [Slots -> [valid : BOOLEAN, tag : Nat, stamp : Nat]]
  /\ clock_value \in Nat
  /\ \A i \in Slots : SlotGood(i)
  /\ SlotsDiffer
  /\ \A a \in access : a.line \in Lines /\ a.last_line \in Lines /\ a.last_line \in {a.line, a.line + 1}

(* A line is put, or put again, into a slot of its set.                    *)
Fills(line, i) ==
  /\ i \in SlotsOf(line) /\ HitSlots(line) \subseteq {i}
  /\ clock_value' = clock_value + 1
  /\ entries' = [entries EXCEPT ![i] =
       [valid |-> TRUE, tag |-> line \div SetCount, stamp |-> clock_value + 1]]

LEMMA FilledSlots ==
  ASSUME CacheInv, NEW line \in Lines, NEW i, Fills(line, i)
  PROVE  /\ i \in Slots /\ i \div Ways = line % SetCount
         /\ Holds(i)' /\ LineOf(i)' = line /\ entries'[i].stamp = clock_value + 1
         /\ entries'[i].tag = line \div SetCount
         /\ \A j \in Slots : j # i => entries'[j] = entries[j] /\ LineOf(j)' = LineOf(j)
         /\ \A j \in Slots : j # i /\ Holds(j) => LineOf(j) # line
<1>1. i \in Slots /\ i \div Ways = line % SetCount /\ line \in Nat
  BY GeometryAssumption DEF Fills, SlotsOf
<1>2. /\ entries'[i] = [valid |-> TRUE, tag |-> line \div SetCount, stamp |-> clock_value + 1]
      /\ \A j \in Slots : j # i => entries'[j] = entries[j]
  BY <1>1 DEF Fills, CacheInv
<1>3. LineOf(i)' = line
  BY <1>1, <1>2, LineIsTagAndSet DEF LineOf
<1>4. \A j \in Slots : j # i => LineOf(j)' = LineOf(j)
  BY <1>2 DEF LineOf
<1>5. ASSUME NEW j \in Slots, j # i, Holds(j), LineOf(j) = line
      PROVE  FALSE
  <2>1. j \div Ways = line % SetCount /\ entries[j].tag = line \div SetCount
    BY <1>5 DEF CacheInv, SlotGood
  <2>2. j \in HitSlots(line)
    BY <1>5, <2>1 DEF HitSlots, SlotsOf, Holds
  <2> QED
    BY <1>5, <2>2 DEF Fills
<1> QED
  BY <1>1, <1>2, <1>3, <1>4, <1>5 DEF Holds

LEMMA FillingKeepsCacheInv ==
  ASSUME CacheInv, NEW line \in Lines, NEW i, Fills(line, i),
         \A a \in access' : a.line \in Lines /\ a.last_line \in Lines /\ a.last_line \in {a.line, a.line + 1}
  PROVE  CacheInv'
<1>1. /\ i \in Slots /\ i \div Ways = line % SetCount
      /\ Holds(i)' /\ LineOf(i)' = line /\ entries'[i].stamp = clock_value + 1
      /\ entries'[i].tag = line \div SetCount
      /\ \A j \in Slots : j # i => entries'[j] = entries[j] /\ LineOf(j)' = LineOf(j)
      /\ \A j \in Slots : j # i /\ Holds(j) => LineOf(j) # line
  BY FilledSlots
<1>2. clock_value \in Nat /\ clock_value' = clock_value + 1 /\ line \in Nat /\ line \div SetCount \in Nat
  BY LineIsTagAndSet, GeometryAssumption DEF CacheInv, Fills
<1>3. entries' \in [Slots -> [valid : BOOLEAN, tag : Nat, stamp : Nat]]
  BY <1>1, <1>2 DEF CacheInv, Fills
<1>4. \A j \in Slots : entries[j].stamp \in Nat /\ (Holds(j) => entries[j].stamp <= clock_value)
  BY DEF CacheInv, SlotGood
<1>5. ASSUME NEW j \in Slots
      PROVE  SlotGood(j)'
  <2>1. CASE j = i
    BY <1>1, <1>2, <2>1 DEF SlotGood
  <2>2. CASE j # i
    <3>1. SlotGood(j) /\ entries'[j] = entries[j] /\ LineOf(j)' = LineOf(j)
      BY <1>1, <2>2 DEF CacheInv
    <3> QED
      BY <1>2, <1>4, <3>1 DEF SlotGood, Holds
  <2> QED
    BY <2>1, <2>2
<1>6. SlotsDiffer'
  <2> SUFFICES ASSUME NEW j \in Slots, NEW k \in Slots, Holds(j)', Holds(k)', j # k
               PROVE  entries'[j].stamp # entries'[k].stamp /\ LineOf(j)' # LineOf(k)'
    BY DEF SlotsDiffer
  <2>1. \A h \in {j, k} : h # i => Holds(h) /\ entries'[h].stamp <= clock_value /\ LineOf(h)' # line
    BY <1>1, <1>4 DEF Holds
  <2>2. CASE j # i /\ k # i
    BY <1>1, <2>1, <2>2 DEF CacheInv, SlotsDiffer
  <2>3. CASE j = i
    BY <1>1, <1>2, <1>4, <2>1, <2>3
  <2>4. CASE k = i
    BY <1>1, <1>2, <1>4, <2>1, <2>4
  <2> QED
    BY <2>2, <2>3, <2>4
<1> QED
  BY <1>2, <1>3, <1>5, <1>6 DEF CacheInv

-----------------------------------------------------------------------------
(* What the abstract cache sees.                                           *)

LEMMA InRecency ==
  ASSUME NEW s
  PROVE  /\ \A j, k \in HeldIn(s) :
              entries[j].stamp >= entries[k].stamp => <<LineOf(j), LineOf(k)>> \in Recency(s)
         /\ \A x \in Recency(s) : \E j, k \in HeldIn(s) :
              x = <<LineOf(j), LineOf(k)>> /\ entries[j].stamp >= entries[k].stamp
<1>1. ASSUME NEW j \in HeldIn(s), NEW k \in HeldIn(s), entries[j].stamp >= entries[k].stamp
      PROVE  <<LineOf(j), LineOf(k)>> \in Recency(s)
  <2> DEFINE q == <<j, k>>
  <2>1. q \in HeldIn(s) \X HeldIn(s) /\ q[1] = j /\ q[2] = k
    OBVIOUS
  <2> HIDE DEF q
  <2> QED
    BY <1>1, <2>1 DEF Recency
<1>2. ASSUME NEW x \in Recency(s)
      PROVE  \E j, k \in HeldIn(s) : x = <<LineOf(j), LineOf(k)>> /\ entries[j].stamp >= entries[k].stamp
  BY DEF Recency
<1> QED
  BY <1>1, <1>2

LEMMA InRecencyNext ==
  ASSUME NEW s
  PROVE  /\ \A j, k \in HeldIn(s)' :
              entries'[j].stamp >= entries'[k].stamp => <<LineOf(j)', LineOf(k)'>> \in Recency(s)'
         /\ \A x \in Recency(s)' : \E j, k \in HeldIn(s)' :
              x = <<LineOf(j)', LineOf(k)'>> /\ entries'[j].stamp >= entries'[k].stamp
<1>1. ASSUME NEW j \in HeldIn(s)', NEW k \in HeldIn(s)', entries'[j].stamp >= entries'[k].stamp
      PROVE  <<LineOf(j)', LineOf(k)'>> \in Recency(s)'
  <2> DEFINE q == <<j, k>>
  <2>1. q \in HeldIn(s)' \X HeldIn(s)' /\ q[1] = j /\ q[2] = k
    OBVIOUS
  <2> HIDE DEF q
  <2> QED
    BY <1>1, <2>1 DEF Recency
<1>2. ASSUME NEW x \in Recency(s)'
      PROVE  \E j, k \in HeldIn(s)' : x = <<LineOf(j)', LineOf(k)'>> /\ entries'[j].stamp >= entries'[k].stamp
  BY DEF Recency
<1> QED
  BY <1>1, <1>2

Order == [s \in 0..(SetCount - 1) |-> Recency(s)]

LEMMA HeldLines ==
  ASSUME CacheInv, NEW line \in Lines
  PROVE  LET s == line % SetCount
         IN  /\ s \in 0..(SetCount - 1) /\ Order[s] = Recency(s)
             /\ HeldIn(s) = {j \in SlotsOf(line) : Holds(j)}
             /\ Lru!Held(s) = {LineOf(j) : j \in HeldIn(s)}
             /\ Cardinality(Lru!Held(s)) = Ways <=> HeldIn(s) = SlotsOf(line)
<1> DEFINE s == line % SetCount
           H == HeldIn(s)
           L == {LineOf(j) : j \in H}
<1>1. s \in 0..(SetCount - 1) /\ Order[s] = Recency(s) /\ line \in Nat
  BY LineIsTagAndSet, GeometryAssumption DEF Order
<1>2. H = {j \in SlotsOf(line) : Holds(j)}
  BY DEF HeldIn, SlotsOf, Holds
<1>3. \A j \in H : j \in Slots /\ LineOf(j) \in Lines /\ entries[j].stamp \in Nat
  BY DEF HeldIn, CacheInv, SlotGood, Holds
<1>4. \A j, k \in H : LineOf(j) = LineOf(k) => j = k
  BY DEF HeldIn, CacheInv, SlotsDiffer, Holds
<1>5. Lru!Held(s) = L
  <2>1. ASSUME NEW l \in Lru!Held(s)
        PROVE  l \in L
    <3>1. <<l, l>> \in Recency(s)
      BY <1>1 DEF Lru!Held, Order
    <3>2. PICK j, k \in H : <<l, l>> = <<LineOf(j), LineOf(k)>>
      BY <3>1, InRecency
    <3> QED
      BY <3>2
  <2>2. ASSUME NEW j \in H
        PROVE  LineOf(j) \in Lru!Held(s)
    <3>1. <<LineOf(j), LineOf(j)>> \in Recency(s)
      BY <1>3, InRecency
    <3> QED
      BY <1>1, <1>3, <3>1 DEF Lru!Held, Order
  <2> QED
    BY <2>1, <2>2
<1>6. IsFiniteSet(SlotsOf(line)) /\ Cardinality(SlotsOf(line)) = Ways /\ H \in SUBSET SlotsOf(line)
  BY <1>1, <1>2, SetHasWays
<1>7. IsFiniteSet(H)
  BY <1>6, FS_Subset
<1>8. Cardinality(L) = Cardinality(H)
  <2> DEFINE f == [j \in H |-> LineOf(j)]
  <2>1. f \in Bijection(H, L)
    BY <1>4 DEF Bijection, Injection, Surjection, IsInjective
  <2>2. ExistsBijection(H, L)
    BY <2>1 DEF ExistsBijection
  <2> QED
    BY <1>7, <2>2, FS_Bijection
<1>9. Cardinality(H) = Ways <=> H = SlotsOf(line)
  BY <1>6, FS_Subset
<1> QED
  BY <1>1, <1>2, <1>5, <1>8, <1>9

(* The slot that is filled held the line itself, or nothing, or, in a full *)
(* set, the line used longest ago.                                         *)
Replaceable(line, i) ==
  \/ Holds(i) /\ LineOf(i) = line
  \/ HitSlots(line) = {} /\ ~Holds(i)
  \/ /\ HitSlots(line) = {}
     /\ \A j \in SlotsOf(line) : Holds(j) /\ entries[i].stamp <= entries[j].stamp

(* What the abstract cache keeps is what the other slots of the set hold.  *)
LEMMA KeptLines ==
  ASSUME CacheInv, NEW line \in Lines, NEW i, Fills(line, i), Replaceable(line, i)
  PROVE  LET s       == line % SetCount
             evicted == IF line \notin Lru!Held(s) /\ Cardinality(Lru!Held(s)) = Ways
                          THEN Lru!Oldest(s) ELSE {}
         IN  Lru!Held(s) \ (evicted \cup {line}) = {LineOf(j) : j \in HeldIn(s) \ {i}}
<1> DEFINE s       == line % SetCount
           H       == HeldIn(s)
           held    == Lru!Held(s)
           evicted == IF line \notin held /\ Cardinality(held) = Ways THEN Lru!Oldest(s) ELSE {}
           K       == {LineOf(j) : j \in H \ {i}}
<1>1. /\ s \in 0..(SetCount - 1) /\ Order[s] = Recency(s)
      /\ H = {j \in SlotsOf(line) : Holds(j)}
      /\ held = {LineOf(j) : j \in H}
      /\ Cardinality(held) = Ways <=> H = SlotsOf(line)
  BY HeldLines
<1>2. i \in SlotsOf(line) /\ i \in Slots /\ SlotsOf(line) \subseteq Slots
  BY DEF Fills, SlotsOf
<1>3. /\ \A j \in H : j \in Slots /\ Holds(j) /\ entries[j].stamp \in Nat
      /\ \A j, k \in H : LineOf(j) = LineOf(k) \/ entries[j].stamp = entries[k].stamp => j = k
      /\ \A j \in H : j # i => LineOf(j) # line
  <2>1. \A j \in H : j \in Slots /\ Holds(j) /\ entries[j].stamp \in Nat
    BY <1>1, <1>2 DEF CacheInv
  <2> QED
    BY <2>1, FilledSlots DEF CacheInv, SlotsDiffer
<1> HIDE DEF s, H, held
<1>4. ASSUME Holds(i), LineOf(i) = line
      PROVE  held \ (evicted \cup {line}) = K
  <2>1. i \in H /\ line \in held
    BY <1>1, <1>2, <1>4
  <2>2. evicted = {}
    BY <2>1
  <2> QED
    BY <1>1, <1>3, <1>4, <2>1, <2>2
<1>5. ASSUME ~Holds(i)
      PROVE  held \ (evicted \cup {line}) = K
  <2>1. i \notin H /\ H # SlotsOf(line)
    BY <1>1, <1>2, <1>5
  <2>2. evicted = {} /\ line \notin held /\ K = held
    BY <1>1, <1>3, <2>1
  <2> QED
    BY <2>2
<1>6. ASSUME HitSlots(line) = {},
             \A j \in SlotsOf(line) : Holds(j) /\ entries[i].stamp <= entries[j].stamp
      PROVE  held \ (evicted \cup {line}) = K
  <2>1. H = SlotsOf(line) /\ i \in H
    BY <1>1, <1>2, <1>6
  <2>2. LineOf(i) # line
    <3>1. i \div Ways = line % SetCount /\ SlotGood(i) /\ Holds(i)
      BY <1>2, <1>6, FilledSlots DEF CacheInv
    <3> QED
      BY <1>2, <1>6, <3>1 DEF SlotGood, HitSlots, Holds
  <2>3. line \notin held
    BY <1>1, <1>3, <2>2
  <2>4. evicted = Lru!Oldest(s)
    BY <1>1, <2>1, <2>3
  <2>5. LineOf(i) \in Lru!Oldest(s)
    <3>1. \A j \in H : <<LineOf(j), LineOf(i)>> \in Order[s]
      BY <1>1, <1>2, <1>3, <1>6, <2>1, InRecency DEF H
    <3> QED
      BY <1>1, <2>1, <3>1 DEF Lru!Oldest, Order, held
  <2>6. ASSUME NEW m \in Lru!Oldest(s)
        PROVE  m = LineOf(i)
    <3>1. m \in held /\ \A l \in held : <<l, m>> \in Order[s]
      BY DEF Lru!Oldest, Order, held
    <3>2. PICK j \in H : m = LineOf(j)
      BY <1>1, <3>1
    <3>3. <<LineOf(i), LineOf(j)>> \in Recency(s)
      BY <1>1, <2>1, <3>1, <3>2
    <3>4. PICK a, b \in H : /\ <<LineOf(i), LineOf(j)>> = <<LineOf(a), LineOf(b)>>
                            /\ entries[a].stamp >= entries[b].stamp
      BY <3>3, InRecency DEF H
    <3>5. a = i /\ b = j
      BY <1>3, <2>1, <3>2, <3>4
    <3>6. entries[i].stamp = entries[j].stamp
      BY <1>3, <1>6, <2>1, <3>2, <3>4, <3>5
    <3> QED
      BY <1>3, <2>1, <3>2, <3>6
  <2>7. evicted = {LineOf(i)}
    BY <2>4, <2>5, <2>6
  <2> QED
    BY <1>1, <1>3, <2>1, <2>3, <2>7
<1>7. held \ (evicted \cup {line}) = K
  BY <1>4, <1>5, <1>6 DEF Replaceable
<1> QED
  BY <1>7 DEF s, H, held

(* The line is the newest of its set; the others keep their order.         *)
LEMMA FillingIsUse ==
  ASSUME CacheInv, NEW line \in Lines, NEW i, Fills(line, i), Replaceable(line, i)
  PROVE  Lru!Use(line)
<1> DEFINE s == line % SetCount
           H == HeldIn(s)
           K == {LineOf(j) : j \in H \ {i}}
           New == (Recency(s) \cap (K \X K)) \cup {<<line, l>> : l \in K \cup {line}}
<1>1. s \in 0..(SetCount - 1)
  BY HeldLines
<1>2. /\ i \in Slots /\ i \div Ways = s
      /\ Holds(i)' /\ LineOf(i)' = line /\ entries'[i].stamp = clock_value + 1
      /\ \A j \in Slots : j # i => entries'[j] = entries[j] /\ LineOf(j)' = LineOf(j)
      /\ \A j \in Slots : j # i /\ Holds(j) => LineOf(j) # line
  BY FilledSlots
<1>3. ASSUME NEW r \in 0..(SetCount - 1), r # s
      PROVE  Recency(r)' = Recency(r)
  <2>1. HeldIn(r)' = HeldIn(r) /\ \A j \in HeldIn(r) : j \in Slots /\ j # i
    BY <1>2, <1>3 DEF HeldIn
  <2>2. \A j \in HeldIn(r) : entries'[j] = entries[j] /\ LineOf(j)' = LineOf(j)
    BY <1>2, <2>1
  <2>3. ASSUME NEW x \in Recency(r)
        PROVE  x \in Recency(r)'
    <3>1. PICK j, k \in HeldIn(r) : x = <<LineOf(j), LineOf(k)>> /\ entries[j].stamp >= entries[k].stamp
      BY InRecency
    <3>2. x = <<LineOf(j)', LineOf(k)'>> /\ entries'[j].stamp >= entries'[k].stamp
      BY <2>2, <3>1
    <3>3. \A a, b \in HeldIn(r)' : entries'[a].stamp >= entries'[b].stamp => <<LineOf(a)', LineOf(b)'>> \in Recency(r)'
      BY InRecencyNext
    <3> QED
      BY <2>1, <3>2, <3>3
  <2>4. ASSUME NEW x \in Recency(r)'
        PROVE  x \in Recency(r)
    <3>1. \A y \in Recency(r)' : \E j, k \in HeldIn(r)' :
          y = <<LineOf(j)', LineOf(k)'>> /\ entries'[j].stamp >= entries'[k].stamp
      BY InRecencyNext
    <3>2. PICK j, k \in HeldIn(r) : x = <<LineOf(j)', LineOf(k)'>> /\ entries'[j].stamp >= entries'[k].stamp
      BY <2>1, <3>1
    <3>3. x = <<LineOf(j), LineOf(k)>> /\ entries[j].stamp >= entries[k].stamp
      BY <2>2, <3>2
    <3> QED
      BY <3>3, InRecency
  <2> QED
    BY <2>3, <2>4
<1>4. Recency(s)' = New
  <2>1. HeldIn(s)' = H \cup {i}
    BY <1>2 DEF HeldIn, Holds
  <2>2. /\ \A j \in H \ {i} : /\ j \in Slots /\ entries'[j] = entries[j] /\ LineOf(j)' = LineOf(j)
                              /\ entries[j].stamp \in Nat /\ entries[j].stamp <= clock_value
                              /\ LineOf(j) # line
        /\ clock_value \in Nat
    BY <1>2 DEF HeldIn, Holds, CacheInv, SlotGood
  <2>3. \A a, b \in HeldIn(s)' : entries'[a].stamp >= entries'[b].stamp => <<LineOf(a)', LineOf(b)'>> \in Recency(s)'
    BY InRecencyNext
  <2>4. \A y \in Recency(s)' : \E j, k \in HeldIn(s)' :
        y = <<LineOf(j)', LineOf(k)'>> /\ entries'[j].stamp >= entries'[k].stamp
    BY InRecencyNext
  <2>5. \A j, k \in H : LineOf(j) = LineOf(k) => j = k
    BY DEF HeldIn, CacheInv, SlotsDiffer, Holds
  <2>6. ASSUME NEW x \in Recency(s)'
        PROVE  x \in New
    <3>1. PICK j, k \in H \cup {i} : x = <<LineOf(j)', LineOf(k)'>> /\ entries'[j].stamp >= entries'[k].stamp
      BY <2>1, <2>4
    <3>2. CASE j = i
      BY <1>2, <2>2, <3>1, <3>2
    <3>3. CASE j # i /\ k = i
      BY <1>2, <2>2, <3>1, <3>3
    <3>4. CASE j # i /\ k # i
      <4>1. x = <<LineOf(j), LineOf(k)>> /\ entries[j].stamp >= entries[k].stamp
            /\ j \in H /\ k \in H /\ LineOf(j) \in K /\ LineOf(k) \in K
        BY <2>2, <3>1, <3>4
      <4>2. x \in Recency(s)
        BY <4>1, InRecency
      <4> QED
        BY <4>1, <4>2
    <3> QED
      BY <3>2, <3>3, <3>4
  <2>7. ASSUME NEW x \in Recency(s) \cap (K \X K)
        PROVE  x \in Recency(s)'
    <3>1. PICK j, k \in H : x = <<LineOf(j), LineOf(k)>> /\ entries[j].stamp >= entries[k].stamp
      BY InRecency
    <3>2. j \in H \ {i} /\ k \in H \ {i}
      BY <2>5, <3>1
    <3>3. x = <<LineOf(j)', LineOf(k)'>> /\ entries'[j].stamp >= entries'[k].stamp
      BY <2>2, <3>1, <3>2
    <3> QED
      BY <2>1, <2>3, <3>2, <3>3
  <2>8. ASSUME NEW l \in K \cup {line}
        PROVE  <<line, l>> \in Recency(s)'
    <3>1. PICK j \in H \cup {i} : l = LineOf(j)' /\ entries'[i].stamp >= entries'[j].stamp
      BY <1>2, <2>2
    <3> QED
      BY <1>2, <2>1, <2>3, <3>1
  <2> HIDE DEF K, H
  <2> QED
    BY <2>6, <2>7, <2>8
<1> HIDE DEF s, K
<1>5. Order' = [Order EXCEPT ![s] = (@ \cap (K \X K)) \cup {<<line, l>> : l \in K \cup {line}}]
  BY <1>1, <1>3, <1>4 DEF Order
<1>6. \A S : Lru!Cardinality(S) = Cardinality(S)
  BY DEF Lru!Cardinality, Cardinality
<1> DEFINE evicted == IF line \notin Lru!Held(s) /\ Cardinality(Lru!Held(s)) = Ways
                        THEN Lru!Oldest(s) ELSE {}
<1>7. Lru!Held(s) \ (evicted \cup {line}) = K
  BY KeptLines DEF s, K
<1>8. Lru!Use(line) <=>
        Order' = [Order EXCEPT ![s] =
                    (@ \cap ((Lru!Held(s) \ (evicted \cup {line})) \X (Lru!Held(s) \ (evicted \cup {line}))))
                      \cup {<<line, l>> : l \in (Lru!Held(s) \ (evicted \cup {line})) \cup {line}}]
  BY <1>6 DEF Lru!Use, Order, s
<1> QED
  BY <1>5, <1>7, <1>8

-----------------------------------------------------------------------------
(* Steps of the tool are uses of a line, or are not seen.                  *)

NextLine == \A a \in access' : a.line \in Lines /\ a.last_line \in Lines /\ a.last_line \in {a.line, a.line + 1}

LEMMA ProceedsToNextLine ==
  ASSUME TraceInv, CacheInv, NEW a \in access, Proceed(a)
  PROVE  NextLine
<1>1. /\ a \in Access /\ a.line \in Lines /\ a.last_line \in Lines
      /\ a.last_line \in {a.line, a.line + 1}
  BY DEF TraceInv, LockProtects, CacheInv
<1>2. CASE a.line = a.last_line
  BY <1>2 DEF Proceed, NextLine
<1>3. CASE a.line # a.last_line
  <2> DEFINE next == [a EXCEPT !.line = @ + 1]
  <2>1. next.line = a.line + 1 /\ next.last_line = a.last_line
    BY <1>1 DEF Access
  <2>2. access' = {next}
    BY <1>3 DEF Proceed
  <2> HIDE DEF next
  <2> QED
    BY <1>1, <1>3, <2>1, <2>2 DEF NextLine
<1> QED
  BY <1>2, <1>3

LEMMA HitFills ==
  ASSUME TraceInv, CacheInv, NEW a \in access, Hit(a)
  PROVE  a.line \in Lines /\ \E i : Fills(a.line, i) /\ Replaceable(a.line, i)
<1>1. a.line \in Lines
  BY DEF CacheInv
<1>2. PICK i \in HitSlots(a.line) : entries' = [entries EXCEPT ![i].stamp = clock_value + 1]
  BY DEF Hit
<1>3. /\ i \in SlotsOf(a.line) /\ i \in Slots /\ i \div Ways = a.line % SetCount
      /\ Holds(i) /\ entries[i].tag = a.line \div SetCount
  BY <1>2 DEF HitSlots, SlotsOf, Holds
<1>4. LineOf(i) = a.line
  BY <1>1, <1>3, LineIsTagAndSet, GeometryAssumption DEF LineOf
<1>5. HitSlots(a.line) \subseteq {i}
  <2> SUFFICES ASSUME NEW j \in HitSlots(a.line)
               PROVE  j = i
    OBVIOUS
  <2>1. /\ j \in Slots /\ j \div Ways = a.line % SetCount
        /\ Holds(j) /\ entries[j].tag = a.line \div SetCount
    BY DEF HitSlots, SlotsOf, Holds
  <2>2. LineOf(j) = a.line
    BY <1>1, <2>1, LineIsTagAndSet, GeometryAssumption DEF LineOf
  <2> QED
    BY <1>3, <1>4, <2>1, <2>2 DEF CacheInv, SlotsDiffer
<1>6. entries' = [entries EXCEPT ![i] = [valid |-> TRUE, tag |-> a.line \div SetCount, stamp |-> clock_value + 1]]
  <2> DEFINE slot == [valid |-> TRUE, tag |-> a.line \div SetCount, stamp |-> clock_value + 1]
  <2>1. entries[i] \in [valid : BOOLEAN, tag : Nat, stamp : Nat]
    BY <1>3 DEF CacheInv
  <2>2. entries[i].valid = TRUE
    BY <1>3, <2>1 DEF Holds
  <2>3. ASSUME NEW e \in [valid : BOOLEAN, tag : Nat, stamp : Nat], NEW x
        PROVE  [e EXCEPT !.stamp = x] = [valid |-> e.valid, tag |-> e.tag, stamp |-> x]
    OBVIOUS
  <2>4. [entries[i] EXCEPT !.stamp = clock_value + 1] = slot
    BY <1>3, <2>1, <2>2, <2>3
  <2> QED
    BY <1>2, <2>4
<1>7. Fills(a.line, i)
  BY <1>3, <1>5, <1>6 DEF Fills, Hit, Tick
<1> QED
  BY <1>1, <1>3, <1>4, <1>7 DEF Replaceable

(* The victim is a free slot, or the one with the smallest stamp.          *)
LEMMA VictimIsReplaceable ==
  ASSUME CacheInv, NEW line \in Lines, HitSlots(line) = {}
  PROVE  Victim(line) \in SlotsOf(line) /\ Replaceable(line, Victim(line))
<1> DEFINE S    == SlotsOf(line)
           free == {i \in S : ~entries[i].valid}
<1>1. S # {} /\ S \subseteq Slots /\ S \in SUBSET Nat
  BY SetHasWays, GeometryAssumption, SlotArithmetic
<1>2. \A i \in S : entries[i].stamp \in Nat
  BY <1>1 DEF CacheInv
<1> HIDE DEF S
<1>3. CASE free # {}
  <2>1. \E i \in free : \A j \in free : i <= j
    BY <1>1, <1>3, SmallestExists
  <2>2. Victim(line) = CHOOSE i \in free : \A j \in free : i <= j
    BY <1>3 DEF Victim, S
  <2>3. Victim(line) \in free
    BY <2>1, <2>2
  <2> QED
    BY <2>3 DEF Replaceable, Holds, S
<1>4. CASE free = {}
  <2> DEFINE P(i) == \A j \in S : \/ entries[i].stamp < entries[j].stamp
                                  \/ (entries[i].stamp = entries[j].stamp /\ i <= j)
             stamps == {entries[i].stamp : i \in S}
  <2>1. PICK m \in stamps : \A n \in stamps : m <= n
    <3>1. stamps \in SUBSET Nat /\ stamps # {}
      BY <1>1, <1>2
    <3> HIDE DEF stamps
    <3> QED
      BY <3>1, SmallestExists
  <2> DEFINE oldest == {i \in S : entries[i].stamp = m}
  <2>2. PICK i \in oldest : \A j \in oldest : i <= j
    <3>1. oldest \in SUBSET Nat /\ oldest # {}
      BY <1>1, <2>1
    <3> HIDE DEF oldest
    <3> QED
      BY <3>1, SmallestExists
  <2>3. i \in S /\ entries[i].stamp = m
    BY <2>2
  <2>4. \A j \in S : m <= entries[j].stamp
    BY <2>1
  <2>5. P(i)
    BY <1>1, <1>2, <2>2, <2>3, <2>4
  <2>6. Victim(line) = CHOOSE k \in S : P(k)
    BY <1>4 DEF Victim, S
  <2> HIDE DEF P
  <2>7. Victim(line) \in S /\ P(Victim(line))
    BY <2>3, <2>5, <2>6
  <2>8. \A j \in S : Holds(j) /\ entries[Victim(line)].stamp <= entries[j].stamp
    BY <1>2, <1>4, <2>7 DEF P, Holds
  <2> QED
    BY <2>7, <2>8 DEF Replaceable, S
<1> QED
  BY <1>3, <1>4

LEMMA MissFills ==
  ASSUME CacheInv, NEW a \in access, Miss(a)
  PROVE  a.line \in Lines /\ \E i : Fills(a.line, i) /\ Replaceable(a.line, i)
<1>1. a.line \in Lines /\ HitSlots(a.line) = {}
  BY DEF CacheInv, Miss
<1>2. Victim(a.line) \in SlotsOf(a.line) /\ Replaceable(a.line, Victim(a.line))
  BY <1>1, VictimIsReplaceable
<1>3. Fills(a.line, Victim(a.line))
  BY <1>1, <1>2 DEF Fills, Miss, Tick
<1> QED
  BY <1>1, <1>2, <1>3

LEMMA SlotsStay ==
  ASSUME UNCHANGED entries
  PROVE  Order' = Order
BY DEF Order, Recency, HeldIn, LineOf

LEMMA StepIsUse ==
  ASSUME TraceInv, CacheInv, [Next]_vars
  PROVE  CacheInv' /\ (Lru!Next \/ Order' = Order)
<1>1. CASE UNCHANGED <<entries, clock_value, access>>
  <2>1. CacheInv'
    BY <1>1 DEF CacheInv, SlotGood, SlotsDiffer, Holds, LineOf
  <2> QED
    BY <1>1, <2>1, SlotsStay
<1>2. ASSUME NEW t \in Threads, NEW first \in Lines, NEW last \in Lines,
             last \in {first, first + 1}, BeginAccess(t, first, last)
      PROVE  CacheInv' /\ Order' = Order
  <2>1. UNCHANGED <<entries, clock_value>>
    BY <1>2 DEF BeginAccess, cacheVars, counters
  <2>2. NextLine
    BY <1>2 DEF BeginAccess, NextLine
  <2>3. CacheInv'
    BY <2>1, <2>2 DEF CacheInv, NextLine, SlotGood, SlotsDiffer, Holds, LineOf
  <2> QED
    BY <2>1, <2>3, SlotsStay
<1>3. ASSUME NEW a \in access, Hit(a) \/ RecordMiss(a) \/ FailCopy(a) \/ PassOver(a)
      PROVE  CacheInv' /\ Lru!Next
  <2>1. Hit(a) \/ Miss(a)
    BY <1>3 DEF RecordMiss, FailCopy, PassOver
  <2>2. NextLine
    BY <2>1, ProceedsToNextLine DEF Hit, Miss
  <2>3. PICK i : Fills(a.line, i) /\ Replaceable(a.line, i)
    BY <2>1, HitFills, MissFills
  <2>4. a.line \in Lines
    BY DEF CacheInv
  <2>5. CacheInv'
    BY <2>2, <2>3, <2>4, FillingKeepsCacheInv DEF NextLine
  <2>6. Lru!Use(a.line)
    BY <2>3, <2>4, FillingIsUse
  <2> QED
    BY <2>4, <2>5, <2>6 DEF Lru!Next
<1> QED
  BY <1>1, <1>2, <1>3
  DEF Next, Touch, vars, cacheVars, counters, EnterRoi, LeaveRoi, Unwind

(* Whatever the geometry and whoever accesses what, inside the routine or  *)
(* not: the clocked slots behave as a cache that evicts, of a full set,    *)
(* the line that was used longest ago, and nothing else.                   *)
THEOREM SlotsAreLru == Spec => IsLruCache
<1>1. Init => CacheInv
  <2> SUFFICES ASSUME Init
               PROVE  CacheInv
    OBVIOUS
  <2>1. /\ entries \in [Slots -> [valid : BOOLEAN, tag : Nat, stamp : Nat]]
        /\ \A i \in Slots : ~Holds(i)
    BY DEF Init, EmptySlot, Holds
  <2> QED
    BY <2>1 DEF Init, CacheInv, SlotGood, SlotsDiffer
<1>2. Init => Lru!Init
  <2> SUFFICES ASSUME Init
               PROVE  Lru!Init
    OBVIOUS
  <2>1. \A s : HeldIn(s) = {}
    BY DEF Init, EmptySlot, HeldIn
  <2>2. \A s : Recency(s) = {}
    BY <2>1 DEF Recency
  <2> QED
    BY <2>2 DEF Lru!Init, Lru!CacheSets
<1>3. TraceInv /\ CacheInv /\ [Next]_vars => CacheInv'
  BY StepIsUse
<1>4. TraceInv /\ CacheInv /\ [Next]_vars => [Lru!Next]_Order
  BY StepIsUse
<1> QED
  BY <1>1, <1>2, <1>3, <1>4, TraceInvHolds, PTL DEF Spec, IsLruCache, Lru!Spec, Order

-----------------------------------------------------------------------------
(* The model files of the FPC-BSEL program.                                *)

(* What a model file holds at its ends and where its sets are.             *)
SavedAs(file, p, r) ==
  /\ Len(file) = 6 + Len(p) + Len(r)
  /\ file[4] = Len(p) /\ file[6 + Len(p)] = Len(r)
  /\ \A i \in 1..Len(p) : file[4 + i] = p[i]
  /\ \A i \in 1..Len(r) : file[6 + Len(p) + i] = r[i]

LEMMA Joined ==
  ASSUME NEW T, NEW a \in Seq(T), NEW b \in Seq(T), NEW c, c = a \o b
  PROVE  /\ c \in Seq(T) /\ Len(c) = Len(a) + Len(b)
         /\ \A i \in 1..Len(a) : c[i] = a[i]
         /\ \A i \in 1..Len(b) : c[Len(a) + i] = b[i]
<1>1. /\ c \in Seq(T) /\ Len(c) = Len(a) + Len(b)
      /\ \A i \in 1 .. Len(a) + Len(b) : c[i] = IF i <= Len(a) THEN a[i] ELSE b[i - Len(a)]
  BY ConcatProperties
<1>2. Len(a) \in Nat /\ Len(b) \in Nat
  OBVIOUS
<1>3. \A i \in 1..Len(a) : i \in 1..(Len(a) + Len(b)) /\ i <= Len(a)
  BY <1>2
<1>4. \A i \in 1..Len(b) : /\ Len(a) + i \in 1..(Len(a) + Len(b)) /\ ~(Len(a) + i <= Len(a))
                           /\ Len(a) + i - Len(a) = i
  BY <1>2
<1> QED BY <1>1, <1>3, <1>4

LEMMA Part ==
  ASSUME NEW T, NEW s \in Seq(T), NEW a \in Nat, NEW k \in Nat, a + k <= Len(s),
         NEW m \in Int, NEW n \in Int, m = a + 1, n = a + k
  PROVE  SubSeq(s, m, n) = [i \in 1..k |-> s[a + i]]
<1>1. \A i \in m..n : s[i] \in T
  OBVIOUS
<1>2. /\ SubSeq(s, m, n) \in Seq(T)
      /\ Len(SubSeq(s, m, n)) = IF m <= n THEN n - m + 1 ELSE 0
      /\ \A i \in 1..(n - m + 1) : SubSeq(s, m, n)[i] = s[m + i - 1]
  BY <1>1, SubSeqProperties
<1>3. Len(SubSeq(s, m, n)) = k /\ n - m + 1 = k
  BY <1>2
<1>4. \A i \in 1..k : m + i - 1 = a + i
  OBVIOUS
<1>5. \A i \in 1..k : SubSeq(s, m, n)[i] = s[a + i]
  BY <1>2, <1>3, <1>4
<1>6. PICK part \in Seq(T) : part = SubSeq(s, m, n)
  BY <1>2
<1>7. Len(part) = k
  BY <1>3, <1>6
<1>8. part = [i \in 1..k |-> part[i]]
  BY <1>7
<1> QED BY <1>5, <1>6, <1>8

LEMMA SetsAreInTheFile ==
  ASSUME NEW S, NEW p \in Seq(S), NEW r \in Seq(S)
  PROVE  \E T : /\ SaveModel([prefix |-> p, residual |-> r]) \in Seq(T)
                /\ SavedAs(SaveModel([prefix |-> p, residual |-> r]), p, r)
<1>0. PICK T : T = S \cup {"FPCBSEL1"} \cup Int
  OBVIOUS
<1>1. PICK w \in Int, b \in Int : w = WordCount /\ b = BlockSize
  BY WordCountAssumption DEF BlockSize
<1>2. PICK head : head = <<"FPCBSEL1", 1>>
  OBVIOUS
<1>3. head \in Seq(T) /\ Len(head) = 2
  BY <1>0, <1>2
<1>4. ASSUME NEW size \in Int, NEW s \in Seq(S)
      PROVE  /\ WriteSet(size, s) \in Seq(T) /\ Len(WriteSet(size, s)) = 2 + Len(s)
             /\ WriteSet(size, s)[2] = Len(s)
             /\ \A i \in 1..Len(s) : WriteSet(size, s)[2 + i] = s[i]
  <2>1. PICK z : z = <<size, Len(s)>>
    OBVIOUS
  <2>2. z \in Seq(T) /\ Len(z) = 2 /\ z[2] = Len(s) /\ s \in Seq(T)
    BY <1>0, <2>1
  <2>3. PICK c : c = z \o s
    OBVIOUS
  <2>4. /\ c \in Seq(T) /\ Len(c) = Len(z) + Len(s)
        /\ \A i \in 1..Len(z) : c[i] = z[i]
        /\ \A i \in 1..Len(s) : c[Len(z) + i] = s[i]
    <3>1. z \in Seq(T) /\ s \in Seq(T)
      BY <2>2
    <3> QED BY <2>3, <3>1, Joined
  <2>5. /\ Len(c) = 2 + Len(s) /\ c[2] = Len(s)
        /\ \A i \in 1..Len(s) : c[2 + i] = s[i]
    BY <2>2, <2>4
  <2>6. c = WriteSet(size, s)
    BY <2>1, <2>3 DEF WriteSet
  <2> QED BY <2>4, <2>5, <2>6
<1>5. PICK first \in Seq(T) : /\ first = WriteSet(w, p)
                              /\ Len(first) = 2 + Len(p) /\ first[2] = Len(p)
                              /\ \A i \in 1..Len(p) : first[2 + i] = p[i]
  BY <1>4
<1>6. PICK second \in Seq(T) : /\ second = WriteSet(b, r)
                               /\ Len(second) = 2 + Len(r) /\ second[2] = Len(r)
                               /\ \A i \in 1..Len(r) : second[2 + i] = r[i]
  BY <1>4
<1>7. PICK front \in Seq(T) : /\ front = head \o first
                              /\ Len(front) = 4 + Len(p) /\ front[4] = Len(p)
                              /\ \A i \in 1..Len(p) : front[4 + i] = p[i]
  <2>1. PICK front : front = head \o first
    OBVIOUS
  <2>2. /\ front \in Seq(T) /\ Len(front) = Len(head) + Len(first)
        /\ \A j \in 1..Len(first) : front[Len(head) + j] = first[j]
    <3>1. head \in Seq(T)
      BY <1>3
    <3> QED BY <2>1, <3>1, Joined
  <2>3. \A j \in 1..Len(first) : front[2 + j] = first[j]
    BY <1>3, <2>2
  <2>4. \A i \in 1..Len(p) : 2 + i \in 1..Len(first) /\ 2 + (2 + i) = 4 + i
    BY <1>5
  <2>5. \A i \in 1..Len(p) : front[4 + i] = p[i]
    BY <1>5, <2>3, <2>4
  <2>6. front[4] = Len(p)
    <3>1. 2 \in 1..Len(first) /\ 2 + 2 = 4
      BY <1>5
    <3> QED BY <1>5, <2>3, <3>1
  <2>7. Len(front) = 4 + Len(p)
    BY <1>3, <1>5, <2>2
  <2> QED BY <2>1, <2>2, <2>5, <2>6, <2>7
<1>8. PICK file \in Seq(T) : /\ file = front \o second
                             /\ Len(file) = 6 + Len(p) + Len(r)
                             /\ \A j \in 1..Len(front) : file[j] = front[j]
                             /\ \A j \in 1..Len(second) : file[4 + Len(p) + j] = second[j]
  <2>1. PICK file : file = front \o second
    OBVIOUS
  <2>2. file \in Seq(T) /\ Len(file) = Len(front) + Len(second)
    BY <2>1, Joined
  <2>3. /\ \A j \in 1..Len(front) : file[j] = front[j]
        /\ \A j \in 1..Len(second) : file[4 + Len(p) + j] = second[j]
    <3>1. /\ \A j \in 1..Len(front) : file[j] = front[j]
          /\ \A j \in 1..Len(second) : file[Len(front) + j] = second[j]
      BY <2>1, Joined
    <3> QED BY <1>7, <3>1
  <2>4. Len(file) = 6 + Len(p) + Len(r)
    BY <2>2, <1>6, <1>7
  <2> QED BY <2>1, <2>2, <2>3, <2>4
<1>9. SavedAs(file, p, r)
  <2>1. file[4] = Len(p)
    BY <1>7, <1>8
  <2>2. file[6 + Len(p)] = Len(r)
    <3>1. 2 \in 1..Len(second) /\ 4 + Len(p) + 2 = 6 + Len(p)
      BY <1>6
    <3> QED BY <3>1, <1>6, <1>8
  <2>3. \A i \in 1..Len(p) : file[4 + i] = p[i]
    <3>1. \A i \in 1..Len(p) : 4 + i \in 1..Len(front)
      BY <1>7
    <3> QED BY <3>1, <1>7, <1>8
  <2>4. \A i \in 1..Len(r) : file[6 + Len(p) + i] = r[i]
    <3>1. \A i \in 1..Len(r) : 2 + i \in 1..Len(second) /\ 4 + Len(p) + (2 + i) = 6 + Len(p) + i
      BY <1>6
    <3> QED BY <3>1, <1>6, <1>8
  <2> QED BY <1>8, <2>1, <2>2, <2>3, <2>4 DEF SavedAs
<1>10. file = SaveModel([prefix |-> p, residual |-> r])
  BY <1>1, <1>2, <1>5, <1>6, <1>7, <1>8 DEF SaveModel
<1> QED BY <1>9, <1>10

(* A file that is cut ends in front of what a count in it announces.       *)
LEMMA CutModelsAreRefused ==
  ASSUME NEW T, NEW full \in Seq(T), NEW S, NEW p \in Seq(S), NEW r \in Seq(S),
         SavedAs(full, p, r), NEW n \in 0..Len(full), NEW file, file = SubSeq(full, 1, n)
  PROVE  LoadModel(file) = IF n = Len(full) THEN {[prefix |-> p, residual |-> r]} ELSE {}
<1>1. /\ file \in Seq(T) /\ Len(file) = n /\ n \in Nat /\ Len(p) \in Nat /\ Len(r) \in Nat
      /\ \A i \in 1..n : file[i] = full[i]
  OBVIOUS
<1>2. /\ Len(full) = 6 + Len(p) + Len(r)
      /\ n >= 4 => file[4] = Len(p)
      /\ n >= 6 + Len(p) => file[6 + Len(p)] = Len(r)
  BY <1>1 DEF SavedAs
<1>3. SetEnd(file, 3) = IF n >= 4 + Len(p) THEN 4 + Len(p) ELSE 0
  BY <1>1, <1>2 DEF SetEnd
<1>4. SetEnd(file, 5 + Len(p)) = IF n = Len(full) THEN Len(full) ELSE 0
  <2>1. 5 + Len(p) + 1 = 6 + Len(p)
    BY <1>1
  <2>2. CASE n < 6 + Len(p)
    BY <1>1, <1>2, <2>1, <2>2 DEF SetEnd
  <2>3. CASE n >= 6 + Len(p)
    <3>1. file[5 + Len(p) + 1] = Len(r)
      BY <1>2, <2>1, <2>3
    <3>2. SetEnd(file, 5 + Len(p)) = IF 6 + Len(p) + Len(r) <= n THEN 6 + Len(p) + Len(r) ELSE 0
      BY <1>1, <2>1, <2>3, <3>1 DEF SetEnd
    <3>3. 6 + Len(p) + Len(r) <= n <=> n = Len(full)
      <4>1. PICK a \in Nat : a = Len(full)
        BY <1>1, <1>2
      <4>2. n \in Nat /\ n <= a
        BY <1>1, <4>1
      <4>3. 6 + Len(p) + Len(r) = a
        BY <1>2, <4>1
      <4> QED BY <4>1, <4>2, <4>3
    <3> QED BY <1>2, <3>2, <3>3
  <2> QED BY <1>1, <2>2, <2>3
<1>5. CASE n < 4 + Len(p)
  <2>1. SetEnd(file, 3) = 0 /\ n # Len(full)
    BY <1>1, <1>2, <1>3, <1>5
  <2> QED BY <2>1 DEF LoadModel
<1>6. CASE n >= 4 + Len(p) /\ n # Len(full)
  <2>1. SetEnd(file, 3) = 4 + Len(p) /\ SetEnd(file, 5 + Len(p)) = 0
    BY <1>3, <1>4, <1>6
  <2>2. SetEnd(file, SetEnd(file, 3) + 1) # Len(file)
    BY <1>1, <1>6, <2>1
  <2> QED BY <1>6, <2>2 DEF LoadModel
<1>7. CASE n = Len(full)
  <2>1. SetEnd(file, 3) = 4 + Len(p) /\ 4 + Len(p) # 0 /\ 4 + Len(p) + 1 = 5 + Len(p)
    BY <1>1, <1>2, <1>3, <1>7
  <2>2. SetEnd(file, SetEnd(file, 3) + 1) = Len(file)
    BY <1>1, <1>4, <1>7, <2>1
  <2>3. SubSeq(file, 5, 4 + Len(p)) = p
    <3>1. \A i \in 1..Len(p) : file[4 + i] = p[i]
      BY <1>1, <1>2, <1>7 DEF SavedAs
    <3>2. SubSeq(file, 5, 4 + Len(p)) = [i \in 1..Len(p) |-> file[4 + i]]
      <4>1. 4 + Len(p) <= Len(file) /\ 5 = 4 + 1 /\ 4 \in Nat /\ 4 + Len(p) \in Int
        BY <1>1, <1>2, <1>7
      <4> QED BY <1>1, <4>1, Part
    <3>3. p = [i \in 1..Len(p) |-> p[i]]
      OBVIOUS
    <3> QED BY <3>1, <3>2, <3>3
  <2>4. SubSeq(file, 7 + Len(p), 6 + Len(p) + Len(r)) = r
    <3>1. \A i \in 1..Len(r) : file[6 + Len(p) + i] = r[i]
      BY <1>1, <1>2, <1>7 DEF SavedAs
    <3>2. SubSeq(file, 7 + Len(p), 6 + Len(p) + Len(r)) = [i \in 1..Len(r) |-> file[6 + Len(p) + i]]
      <4>1. /\ 6 + Len(p) + Len(r) <= Len(file) /\ 7 + Len(p) = 6 + Len(p) + 1
            /\ 6 + Len(p) \in Nat /\ 6 + Len(p) + Len(r) \in Int /\ 7 + Len(p) \in Int
        BY <1>1, <1>2, <1>7
      <4> QED BY <1>1, <4>1, Part
    <3>3. r = [i \in 1..Len(r) |-> r[i]]
      OBVIOUS
    <3> QED BY <3>1, <3>2, <3>3
  <2>5. LoadModel(file) = {[prefix   |-> SubSeq(file, 5, SetEnd(file, 3)),
                            residual |-> SubSeq(file, SetEnd(file, 3) + 3, SetEnd(file, SetEnd(file, 3) + 1))]}
    BY <2>1, <2>2 DEF LoadModel
  <2>6. SetEnd(file, 3) + 3 = 7 + Len(p) /\ SetEnd(file, SetEnd(file, 3) + 1) = 6 + Len(p) + Len(r)
    BY <1>1, <1>2, <1>7, <2>1, <2>2
  <2> QED BY <1>7, <2>1, <2>3, <2>4, <2>5, <2>6
<1> QED BY <1>1, <1>5, <1>6, <1>7

(* Training gives each set a sequence of patterns.                         *)
LEMMA TrainedSetsAreSequences ==
  ASSUME NEW B, NEW blocks \in Seq(B), NEW max \in Nat
  PROVE  \E S : TrainBsel(blocks, max) \in Seq(S)
<1> DEFINE patterns == {SimplestPattern(blocks[b]) : b \in DOMAIN blocks}
<1>1. IsFiniteSet(1..Len(blocks)) /\ DOMAIN blocks = 1..Len(blocks)
  BY FS_Interval
<1>2. IsFiniteSet(patterns)
  <2>1. PICK f : f = [b \in DOMAIN blocks |-> SimplestPattern(blocks[b])]
    OBVIOUS
  <2>2. f \in Surjection(DOMAIN blocks, patterns)
    BY <2>1, Zenon DEF Surjection
  <2> QED BY <1>1, <2>2, FS_Surjection
<1>3. Cardinality(patterns) \in Nat
  BY <1>2, FS_CardinalityType
<1>4. PICK n \in Nat : n = Least(max, Cardinality(patterns))
  BY <1>3 DEF Least
<1>5. PICK f : TrainBsel(blocks, max) = [k \in 1..n |-> f[k]]
  <2>1. TrainBsel(blocks, max) =
          [k \in 1..n |-> CHOOSE p \in patterns :
             Cardinality({q \in patterns : RankedBefore(q, p, blocks)}) = k - 1]
    BY <1>4, Zenon DEF TrainBsel
  <2> QED BY <2>1
<1>6. TrainBsel(blocks, max) \in Seq({f[k] : k \in 1..n})
  BY <1>5
<1> QED BY <1>6

LEMMA TrainedModelsAreSequences ==
  ASSUME NEW blocks \in Traces, NEW max \in MaxPatterns
  PROVE  \E S : \E p, r \in Seq(S) : TrainModel(blocks, max) = [prefix |-> p, residual |-> r]
<1>1. blocks \in Seq([1..BlockSize -> Byte]) /\ max \in Nat
  BY BlocksAssumption, MaxPatternsAssumption
<1>2. DOMAIN blocks = 1..Len(blocks) /\ Len(blocks) \in Nat
  BY <1>1
<1>3. ASSUME NEW f, f = [b \in 1..Len(blocks) |-> f[b]]
      PROVE  f \in Seq({f[b] : b \in 1..Len(blocks)})
  BY <1>2, <1>3
<1>4. \E B : Split(blocks).prefix \in Seq(B)
  <2>1. PICK f : f = [b \in DOMAIN blocks |-> Tags(blocks[b])]
    OBVIOUS
  <2>2. f = [b \in 1..Len(blocks) |-> f[b]]
    BY <1>2, <2>1
  <2>3. Split(blocks).prefix = f
    BY <2>1 DEF Split
  <2> QED BY <1>3, <2>2, <2>3
<1>5. \E B : Split(blocks).residual \in Seq(B)
  <2>1. PICK f : f = [b \in DOMAIN blocks |-> ResidualBlock(blocks[b])]
    OBVIOUS
  <2>2. f = [b \in 1..Len(blocks) |-> f[b]]
    BY <1>2, <2>1
  <2>3. Split(blocks).residual = f
    BY <2>1 DEF Split
  <2> QED BY <1>3, <2>2, <2>3
<1>6. PICK P : TrainBsel(Split(blocks).prefix, max) \in Seq(P)
  BY <1>1, <1>4, TrainedSetsAreSequences
<1>7. PICK R : TrainBsel(Split(blocks).residual, max) \in Seq(R)
  BY <1>1, <1>5, TrainedSetsAreSequences
<1>8. /\ TrainBsel(Split(blocks).prefix, max) \in Seq(P \cup R)
      /\ TrainBsel(Split(blocks).residual, max) \in Seq(P \cup R)
  BY <1>6, <1>7
<1> QED BY <1>8 DEF TrainModel

LEMMA TrainedModelLoads ==
  ASSUME NEW blocks \in Traces, NEW max \in MaxPatterns, Train(blocks, max)
  PROVE  LoadsTrainedOrRefuses'
<1>1. PICK model : model = TrainModel(blocks, max)
  OBVIOUS
<1>2. PICK n \in 0..Len(SaveModel(model)) : modelFile' = SubSeq(SaveModel(model), 1, n)
  BY <1>1 DEF Train
<1>3. trained' = {model}
  BY <1>1 DEF Train
<1>4. PICK S : \E p, r \in Seq(S) : model = [prefix |-> p, residual |-> r]
  BY <1>1, TrainedModelsAreSequences
<1>5. PICK p \in Seq(S), r \in Seq(S) : model = [prefix |-> p, residual |-> r]
  BY <1>4
<1>6. PICK T : SaveModel(model) \in Seq(T) /\ SavedAs(SaveModel(model), p, r)
  BY <1>5, SetsAreInTheFile
<1>7. LoadModel(modelFile') = IF n = Len(SaveModel(model)) THEN {model} ELSE {}
  <2>1. \A file : file = SubSeq(SaveModel(model), 1, n) =>
          LoadModel(file) = IF n = Len(SaveModel(model)) THEN {[prefix |-> p, residual |-> r]} ELSE {}
    BY <1>6, CutModelsAreRefused
  <2> QED BY <1>2, <1>5, <2>1
<1>8. modelFile' = SaveModel(model) <=> n = Len(SaveModel(model))
  <2>1. Len(modelFile') = n
    BY <1>2, <1>6
  <2>2. n = Len(SaveModel(model)) => modelFile' = SaveModel(model)
    BY <1>2, <1>6
  <2> QED BY <2>1, <2>2
<1>9. LoadModel(modelFile') = IF modelFile' = SaveModel(model) THEN {model} ELSE {}
  BY <1>7, <1>8
<1> QED BY <1>3, <1>9 DEF LoadsTrainedOrRefuses

(* A model file that a killed `train` has cut is refused by every command  *)
(* that loads it, and a whole one is the model that was trained            *)
(* (load_model, model.cpp:79), whatever is trained on and however many     *)
(* patterns are kept.                                                      *)
THEOREM FpcModelsLoadOrAreRefused == ToolSpec => []LoadsTrainedOrRefuses
<1>1. ToolInit => LoadsTrainedOrRefuses
  BY DEF ToolInit, LoadsTrainedOrRefuses
<1>2. LoadsTrainedOrRefuses /\ [ToolNext]_toolVars => LoadsTrainedOrRefuses'
  <2> SUFFICES ASSUME LoadsTrainedOrRefuses, [ToolNext]_toolVars PROVE LoadsTrainedOrRefuses'
    OBVIOUS
  <2>1. CASE \E blocks \in Traces, max \in MaxPatterns : Train(blocks, max)
    BY <2>1, TrainedModelLoads
  <2>2. CASE UNCHANGED <<trained, modelFile>>
    BY <2>2 DEF LoadsTrainedOrRefuses
  <2>3. CASE \E blocks \in Inputs : Evaluate(blocks) \/ Compress(blocks)
    BY <2>2, <2>3 DEF Evaluate, Compress
  <2>4. CASE Decompress
    BY <2>2, <2>4 DEF Decompress
  <2>5. CASE UNCHANGED toolVars
    BY <2>2, <2>5 DEF toolVars
  <2> QED BY <2>1, <2>3, <2>4, <2>5 DEF ToolNext
<1> QED BY <1>1, <1>2, PTL DEF ToolSpec
=============================================================================
