----------------------------- MODULE CacheTrace -----------------------------
(***************************************************************************)
(* The Pin tool that records the cache lines missed by a running program   *)
(* (src/tools/pin/cacheline_trace.cpp).                                    *)
(*                                                                         *)
(* Threads of the instrumented program call and leave the routine of       *)
(* interest and access memory.  The tool's callbacks run on those threads, *)
(* before the instruction, under one lock; an access that spans cache      *)
(* lines touches them one after the other without giving the lock up.      *)
(*                                                                         *)
(* `inside` is the program's own state: how many calls of the routine the  *)
(* thread is really in.  When Unwinding is TRUE the thread may leave the   *)
(* routine without returning from it (an exception, longjmp), in which     *)
(* case the callback on its return does not run.                           *)
(***************************************************************************)
EXTENDS Naturals, Sequences, FiniteSets

CONSTANTS
  Threads,
  Lines,             (* line numbers 0..n                                  *)
  SetCount, Ways,    (* geometry of the simulated cache                    *)
  RoiGiven,          (* whether a routine was named with -roi              *)
  WarmupMisses,      (* -warmup-misses                                     *)
  MaximumBlocks,     (* -max-blocks                                        *)
  Unwinding,
  MaxDepth,          (* bound: the depth the tool has counted              *)
  MaxAccesses        (* bound: lines accessed                              *)

ASSUME GeometryAssumption ==
  /\ SetCount \in Nat \ {0} /\ Ways \in Nat \ {0}
  /\ Lines \subseteq Nat
ASSUME KnobAssumption ==
  /\ WarmupMisses \in Nat /\ MaximumBlocks \in Nat
  /\ RoiGiven \in BOOLEAN /\ Unwinding \in BOOLEAN
  /\ MaxDepth \in Nat /\ MaxAccesses \in Nat

VARIABLES
  inside,        (* calls of the routine each thread is in                 *)
  roi_depths,    (* the tool's map from thread ids to depths               *)
  holder,        (* the thread holding the lock, in a set                  *)
  access,        (* the access under way: line, last_line, in_roi, thread  *)
  entries,       (* the simulated cache's slots                            *)
  clock_value, accesses, misses, recorded, copy_failures,
  output         (* the lines written, each with who missed it and when    *)

counters  == <<clock_value, accesses, misses, recorded, copy_failures>>
roiVars   == <<inside, roi_depths>>
cacheVars == <<entries, counters, output>>
vars      == <<roiVars, holder, access, cacheVars>>

Slots == 0..(SetCount * Ways - 1)

EmptySlot == [valid |-> FALSE, tag |-> 0, stamp |-> 0]

Init ==
  /\ inside = [t \in Threads |-> 0]
  /\ roi_depths = << >>
  /\ holder = {} /\ access = {}
  /\ entries = [i \in Slots |-> EmptySlot]
  /\ clock_value = 0 /\ accesses = 0 /\ misses = 0
  /\ recorded = 0 /\ copy_failures = 0
  /\ output = << >>

-----------------------------------------------------------------------------
(* The routine of interest.  A callback waits for the lock, does its work  *)
(* and releases it.                                                        *)

DepthOf(t) == IF t \in DOMAIN roi_depths THEN roi_depths[t] ELSE 0

KeepsZeroDepth(t, d) ==
  [u \in DOMAIN roi_depths \cup {t} |-> IF u = t THEN d ELSE roi_depths[u]]

WithDepth(t, d) ==
  IF d = 0
    THEN [u \in DOMAIN roi_depths \ {t} |-> roi_depths[u]]
    ELSE [u \in DOMAIN roi_depths \cup {t} |-> IF u = t THEN d ELSE roi_depths[u]]

EnterRoi(t) ==
  /\ RoiGiven /\ holder = {}
  /\ DepthOf(t) < MaxDepth
  /\ inside' = [inside EXCEPT ![t] = @ + 1]
  /\ roi_depths' = WithDepth(t, DepthOf(t) + 1)
  /\ UNCHANGED <<holder, access, cacheVars>>

LeaveRoi(t) ==
  /\ holder = {}
  /\ inside[t] > 0
  /\ inside' = [inside EXCEPT ![t] = @ - 1]
  /\ roi_depths' = IF t \in DOMAIN roi_depths
                     THEN WithDepth(t, roi_depths[t] - 1) ELSE roi_depths
  /\ UNCHANGED <<holder, access, cacheVars>>

(* The program leaves the routine's frames without returning from them.    *)
Unwind(t) ==
  /\ Unwinding
  /\ t \notin holder
  /\ inside[t] > 0
  /\ inside' = [inside EXCEPT ![t] = 0]
  /\ UNCHANGED <<roi_depths, holder, access, cacheVars>>

-----------------------------------------------------------------------------
(* record_access                                                           *)

BeginAccess(t, first_line, last_line) ==
  /\ holder = {}
  /\ accesses < MaxAccesses
  /\ holder' = {t}
  /\ access' = {[thread |-> t, line |-> first_line, last_line |-> last_line,
                 in_roi |-> ~RoiGiven \/ t \in DOMAIN roi_depths]}
  /\ UNCHANGED <<roiVars, cacheVars>>

(* After a line, the next one, or the lock is released after the last.     *)
Proceed(a) ==
  IF a.line = a.last_line
    THEN holder' = {} /\ access' = {}
    ELSE /\ access' = {[a EXCEPT !.line = @ + 1]}
         /\ UNCHANGED holder

SlotsOf(line) == {i \in Slots : i \div Ways = line % SetCount}

HitSlots(line) ==
  {i \in SlotsOf(line) : entries[i].valid /\ entries[i].tag = line \div SetCount}

MostRecentlyUsed(line) ==
  LET slots == SlotsOf(line)
      free  == {i \in slots : ~entries[i].valid}
  IN  IF free # {}
        THEN CHOOSE i \in free : \A j \in free : i <= j
        ELSE CHOOSE i \in slots : \A j \in slots : entries[i].stamp >= entries[j].stamp

(* The first invalid slot, else the first with the smallest stamp.         *)
Victim(line) ==
  LET slots == SlotsOf(line)
      free  == {i \in slots : ~entries[i].valid}
  IN  IF free # {}
        THEN CHOOSE i \in free : \A j \in free : i <= j
        ELSE CHOOSE i \in slots : \A j \in slots :
               entries[i].stamp < entries[j].stamp
                 \/ (entries[i].stamp = entries[j].stamp /\ i <= j)

Tick ==
  /\ clock_value' = clock_value + 1
  /\ accesses' = accesses + 1

Hit(a) ==
  /\ HitSlots(a.line) # {}
  /\ \E i \in HitSlots(a.line) :
       /\ \A j \in HitSlots(a.line) : i <= j
       /\ entries' = [entries EXCEPT ![i].stamp = clock_value + 1]
  /\ Tick
  /\ Proceed(a)
  /\ UNCHANGED <<roiVars, misses, recorded, copy_failures, output>>

(* cache_miss() fills a slot and reports the miss.                         *)
Miss(a) ==
  /\ HitSlots(a.line) = {}
  /\ entries' = [entries EXCEPT ![Victim(a.line)] =
       [valid |-> TRUE, tag |-> a.line \div SetCount, stamp |-> clock_value + 1]]
  /\ misses' = misses + 1
  /\ Tick
  /\ Proceed(a)
  /\ UNCHANGED roiVars

ToBeRecorded(a) ==
  /\ a.in_roi
  /\ misses + 1 > WarmupMisses
  /\ recorded < MaximumBlocks

RecordMiss(a) ==
  /\ Miss(a) /\ ToBeRecorded(a)
  /\ output' = Append(output, [line |-> a.line, miss |-> misses + 1,
                               inside |-> ~RoiGiven \/ inside[a.thread] > 0,
                               unwound |-> DepthOf(a.thread) # inside[a.thread]])
  /\ recorded' = recorded + 1
  /\ UNCHANGED copy_failures

(* PIN_SafeCopy could not read the whole line.                             *)
FailCopy(a) ==
  /\ Miss(a) /\ ToBeRecorded(a)
  /\ copy_failures' = copy_failures + 1
  /\ UNCHANGED <<recorded, output>>

PassOver(a) ==
  /\ Miss(a) /\ ~ToBeRecorded(a)
  /\ UNCHANGED <<recorded, copy_failures, output>>

Touch == \E a \in access : Hit(a) \/ RecordMiss(a) \/ FailCopy(a) \/ PassOver(a)

Next ==
  \/ \E t \in Threads : EnterRoi(t) \/ LeaveRoi(t) \/ Unwind(t)
  \/ \E t \in Threads, first, last \in Lines :
       last \in {first, first + 1} /\ BeginAccess(t, first, last)
  \/ Touch

Spec == Init /\ [][Next]_vars

-----------------------------------------------------------------------------

(* Only misses of a thread that is executing the routine of interest are   *)
(* recorded (README.md:345).                                               *)
RecordsOnlyInside == \A i \in 1..Len(output) : output[i].inside

(* Whatever the other threads do, a miss is recorded only while its thread *)
(* executes the routine or has once left it without returning.  Warm-up    *)
(* misses count for every thread before any filter, the trace is bounded,  *)
(* each recorded line is a later miss than the one before, and what is     *)
(* counted as recorded is what the trace holds.                            *)
RecordsWhatWasAsked ==
  /\ \A i \in 1..Len(output) : output[i].inside \/ output[i].unwound
  /\ recorded = Len(output)
  /\ recorded <= MaximumBlocks
  /\ recorded + copy_failures + WarmupMisses <= misses \/ recorded + copy_failures = 0
  /\ \A i \in 1..Len(output) : output[i].miss > WarmupMisses
  /\ \A i, j \in 1..Len(output) : i < j => output[i].miss < output[j].miss

(* The clocked slots are a least-recently-used cache, shared by all        *)
(* threads: accesses outside the routine and warm-up misses update it too  *)
(* (README.md:346-347).                                                    *)
HeldIn(s) == {i \in Slots : i \div Ways = s /\ entries[i].valid}

LineOf(i) == entries[i].tag * SetCount + (i \div Ways)

Recency(s) ==
  {<<LineOf(p[1]), LineOf(p[2])>> : p \in {q \in HeldIn(s) \X HeldIn(s) :
                                            entries[q[1]].stamp >= entries[q[2]].stamp}}

Lru == INSTANCE RecencyCache WITH order <- [s \in 0..(SetCount - 1) |-> Recency(s)]

(* Hits refresh a line and misses evict the one that was used longest ago. *)
IsLruCache == Lru!Spec
=============================================================================
