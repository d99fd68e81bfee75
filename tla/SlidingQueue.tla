---------------------------- MODULE SlidingQueue ----------------------------
(***************************************************************************)
(* The queue of the GAP suite's breadth-first searches                     *)
(* (src/gapbs-master/src/sliding_queue.h).  What is appended is seen only  *)
(* when the window slides.  A thread appends to a buffer of its own        *)
(* (QueueBuffer), and a full buffer is flushed: room in the queue is       *)
(* reserved with fetch_and_add, and the buffer is copied there later.      *)
(***************************************************************************)
EXTENDS GapSuite

CONSTANT LocalSize   (* local_size of a QueueBuffer                        *)

ASSUME LocalSizeAssumption == LocalSize \in Nat \ {0}

VARIABLES
  queue,     (* the array, and the counters of SlidingQueue                *)
  lqueue     (* each thread's buffer                                       *)

queueVars == <<queue, lqueue>>

Blank == -1

(* An array for so many nodes.                                             *)
EmptyQueue(size) ==
  [shared |-> [i \in 0..(size - 1) |-> Blank],
   shared_in |-> 0, shared_out_start |-> 0, shared_out_end |-> 0]

ResetQueue(q) ==
  [q EXCEPT !.shared_in = 0, !.shared_out_start = 0, !.shared_out_end = 0]

NoBuffers == [t \in Threads |-> << >>]

push_back(q, v) ==
  [q EXCEPT !.shared[q.shared_in] = v, !.shared_in = @ + 1]

slide_window(q) ==
  [q EXCEPT !.shared_out_start = q.shared_out_end, !.shared_out_end = q.shared_in]

Window(q) == q.shared_out_start..(q.shared_out_end - 1)
empty(q)  == q.shared_out_start = q.shared_out_end

(* QueueBuffer::push_back, and what the thread does after it.              *)
Push(t, v, next) ==
  IF Len(lqueue[t]) = LocalSize
    THEN /\ Proceed(t, [step |-> "reserve", pushed |-> v, next |-> next])
         /\ UNCHANGED lqueue
    ELSE /\ Proceed(t, next)
         /\ lqueue' = [lqueue EXCEPT ![t] = Append(@, v)]

(* The flush at the end of the loop, by a thread that finds no iteration   *)
(* left; others may still be busy (nowait).                                *)
FlushAtEnd(t) ==
  /\ todo = {} /\ doing[t] = Idle
  /\ lqueue[t] # << >>
  /\ Proceed(t, [step |-> "reserve", pushed |-> Blank, next |-> Idle])
  /\ UNCHANGED queueVars

Reserve(t) ==
  /\ doing[t].step = "reserve"
  /\ queue' = [queue EXCEPT !.shared_in = @ + Len(lqueue[t])]
  /\ Proceed(t, [step |-> "copy", pushed |-> doing[t].pushed, next |-> doing[t].next,
                 copy_start |-> queue.shared_in])
  /\ UNCHANGED lqueue

Copied(t, start) ==
  [i \in DOMAIN queue.shared |->
     IF i - start + 1 \in DOMAIN lqueue[t] THEN lqueue[t][i - start + 1] ELSE queue.shared[i]]

Copy(t) ==
  /\ doing[t].step = "copy"
  /\ queue' = [queue EXCEPT !.shared = Copied(t, doing[t].copy_start)]
  /\ lqueue' = [lqueue EXCEPT ![t] =
                  IF doing[t].pushed = Blank THEN << >> ELSE <<doing[t].pushed>>]
  /\ Proceed(t, doing[t].next)

Flushing(t) == Reserve(t) \/ Copy(t)

AllFlushed(r) == AllDone(r) /\ lqueue = NoBuffers

-----------------------------------------------------------------------------

(* Nothing is put into the queue of a search twice, so that it never       *)
(* outgrows its array, whose size is the number of nodes.                  *)
QueueHoldsNodesOnce ==
  /\ queue.shared_in <= Cardinality(DOMAIN queue.shared)
  /\ \A i, j \in 0..(queue.shared_out_end - 1) :
       queue.shared[i] = queue.shared[j] => i = j
=============================================================================
