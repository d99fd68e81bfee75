-------------------------------- MODULE Bfs --------------------------------
(***************************************************************************)
(* Direction-optimizing breadth-first search of the GAP suite              *)
(* (src/gapbs-master/src/bfs.cc).  parent[x] < 0 means that x is not       *)
(* visited yet and is then minus its out-degree (minus 1 for none).        *)
(*                                                                         *)
(* Top-down, threads race for a node with compare_and_swap.  Bottom-up,    *)
(* each node is written by one thread, but set_bit is a plain load and     *)
(* store of a word of the bitmap; schedule(dynamic, 1024) keeps the nodes  *)
(* of a word in one chunk.  A bitmap is the set of its one bits.           *)
(***************************************************************************)
EXTENDS SlidingQueue

CONSTANTS
  BitsPerWord,   (* kBitsPerWord of bitmap.h                               *)
  ChunkSize      (* of BUStep's schedule                                   *)

(* 64 and 1024: no word of a bitmap is in two chunks.                      *)
ASSUME BfsAssumption ==
  /\ BitsPerWord \in Nat \ {0} /\ ChunkSize \in Nat \ {0}
  /\ ChunkSize % BitsPerWord = 0

VARIABLES
  parent,
  front, curr,                     (* bitmaps                              *)
  edges_to_check, scout_count,
  awake_count, old_awake_count

bfsVars == <<parent, front, curr, edges_to_check, scout_count,
             awake_count, old_awake_count>>

WordOf(n) == n \div BitsPerWord

Word(bitmap, w) == {n \in bitmap : WordOf(n) = w}

StoreWord(bitmap, w, bits) == {n \in bitmap : WordOf(n) # w} \cup bits

(* Division of integers in C++ rounds towards zero.                        *)
Quotient(a, b) == IF a >= 0 THEN a \div b ELSE -((-a) \div b)

BfsInit ==
  /\ parent = << >> /\ front = {} /\ curr = {}
  /\ edges_to_check = 0 /\ scout_count = 0
  /\ awake_count = 0 /\ old_awake_count = 0

InitParent ==
  [n \in Vertices(graph) |-> IF out_degree(graph, n) # 0 THEN -out_degree(graph, n) ELSE -1]

StartBfs ==
  /\ region = "built" /\ job.program = "bfs"
  /\ parent' = [InitParent EXCEPT ![job.source] = job.source]
  /\ queue' = slide_window(push_back(EmptyQueue(graph.num_nodes), job.source))
  /\ front' = {} /\ curr' = {}
  /\ edges_to_check' = num_edges_directed(graph)
  /\ scout_count' = out_degree(graph, job.source)
  /\ Enter("search", {})
  /\ UNCHANGED <<job, graph, lqueue, awake_count, old_awake_count>>

(* The head of DOBFS's loop.                                               *)
ChooseDirection ==
  /\ region = "search"
  /\ IF empty(queue)
       THEN /\ parent' = [n \in Vertices(graph) |->
                            IF parent[n] < -1 THEN -1 ELSE parent[n]]
            /\ Enter("finished", {})
            /\ UNCHANGED <<edges_to_check, scout_count>>
       ELSE IF scout_count > Quotient(edges_to_check, job.alpha)
         THEN /\ Enter("to bitmap", Window(queue))
              /\ UNCHANGED <<parent, edges_to_check, scout_count>>
         ELSE /\ edges_to_check' = edges_to_check - scout_count
              /\ scout_count' = 0
              /\ Enter("top down", Window(queue))
              /\ UNCHANGED parent
  /\ UNCHANGED <<job, graph, queueVars, front, curr, awake_count, old_awake_count>>

-----------------------------------------------------------------------------
(* TDStep                                                                  *)

VisitUnchecked(t) ==
  /\ At(t, "top down", "swap")
  /\ LET u == doing[t].u
         v == Head(doing[t].left)
         next == UnlessDone([step |-> "read", u |-> u, left |-> Tail(doing[t].left)])
     IN  /\ parent' = [parent EXCEPT ![v] = u]
         /\ scout_count' = scout_count - doing[t].curr_val
         /\ Push(t, v, next)
  /\ UNCHANGED <<job, graph, queue, front, curr, edges_to_check, awake_count, old_awake_count>>

Visit(t) ==
  /\ At(t, "top down", "swap")
  /\ LET u == doing[t].u
         v == Head(doing[t].left)
         next == UnlessDone([step |-> "read", u |-> u, left |-> Tail(doing[t].left)])
     IN  IF parent[v] = doing[t].curr_val
           THEN /\ parent' = [parent EXCEPT ![v] = u]
                /\ scout_count' = scout_count - doing[t].curr_val
                /\ Push(t, v, next)
           ELSE /\ Proceed(t, next)
                /\ UNCHANGED <<parent, scout_count, lqueue>>
  /\ UNCHANGED <<job, graph, queue, front, curr, edges_to_check, awake_count, old_awake_count>>

TopDown(t) ==
  \/ /\ region = "top down"
     /\ \E i \in todo :
          LET u == queue.shared[i]
          IN  Take(t, i, UnlessDone([step |-> "read", u |-> u, left |-> out_neigh(graph, u)]))
     /\ UNCHANGED <<job, graph, queueVars, bfsVars>>
  \/ /\ At(t, "top down", "read")
     /\ LET u == doing[t].u
            left == doing[t].left
            curr_val == parent[Head(left)]
        IN  Proceed(t, IF curr_val < 0
              THEN [step |-> "swap", u |-> u, left |-> left, curr_val |-> curr_val]
              ELSE UnlessDone([step |-> "read", u |-> u, left |-> Tail(left)]))
     /\ UNCHANGED <<job, graph, queueVars, bfsVars>>
  \/ Visit(t)

EndTopDown ==
  /\ AllFlushed("top down")
  /\ queue' = slide_window(queue)
  /\ Enter("search", {})
  /\ UNCHANGED <<job, graph, lqueue, bfsVars>>

-----------------------------------------------------------------------------
(* QueueToBitmap; the bits left from an earlier bottom-up phase stay.      *)

ToBitmap(t) ==
  \/ /\ region = "to bitmap"
     /\ \E i \in todo :
          Take(t, i, [step |-> "load", u |-> queue.shared[i]])
     /\ UNCHANGED <<job, graph, queueVars, bfsVars>>
  \/ /\ At(t, "to bitmap", "load")
     /\ LET u == doing[t].u
        IN  Proceed(t, [step |-> "swap", u |-> u, old_val |-> Word(front, WordOf(u))])
     /\ UNCHANGED <<job, graph, queueVars, bfsVars>>
  \/ /\ At(t, "to bitmap", "swap")
     /\ LET u == doing[t].u
            old_val == doing[t].old_val
        IN  IF Word(front, WordOf(u)) = old_val
              THEN /\ front' = StoreWord(front, WordOf(u), old_val \cup {u})
                   /\ Proceed(t, Idle)
              ELSE /\ Proceed(t, [step |-> "load", u |-> u])
                   /\ UNCHANGED front
     /\ UNCHANGED <<job, graph, queueVars, parent, curr, edges_to_check, scout_count,
                    awake_count, old_awake_count>>

(* The first node of each chunk.                                           *)
Chunks == {n \in Vertices(graph) : n % ChunkSize = 0}

(* next.reset()                                                            *)
Reset(next) == {}

StartBottomUp(awake, next) ==
  /\ old_awake_count' = awake
  /\ awake_count' = 0
  /\ curr' = Reset(next)
  /\ Enter("bottom up", Chunks)

EndToBitmap ==
  /\ AllDone("to bitmap")
  /\ StartBottomUp(queue.shared_out_end - queue.shared_out_start, curr)
  /\ queue' = slide_window(queue)
  /\ UNCHANGED <<job, graph, lqueue, parent, front, edges_to_check, scout_count>>

-----------------------------------------------------------------------------
(* BUStep                                                                  *)

(* The first incoming neighbour that is in a set, if there is one.         *)
FirstNeighbor(u, set) ==
  LET neighs == in_neigh(graph, u)
      inside == {i \in DOMAIN neighs : neighs[i] \in set}
  IN  {neighs[i] : i \in {i \in inside : \A j \in inside : i <= j}}

VisitedNeighbor(u) == FirstNeighbor(u, {v \in Vertices(graph) : parent[v] >= 0})

FrontNeighbor(u) == FirstNeighbor(u, front)

NextNode(u) ==
  IF u + 1 \in Vertices(graph) \ Chunks THEN [step |-> "node", u |-> u + 1] ELSE Idle

BottomUp(t) ==
  \/ /\ region = "bottom up"
     /\ \E n \in todo : Take(t, n, [step |-> "node", u |-> n])
     /\ UNCHANGED <<job, graph, queueVars, bfsVars>>
  \/ /\ At(t, "bottom up", "node")
     /\ LET u == doing[t].u
        IN  \/ /\ parent[u] < 0
               /\ \E v \in FrontNeighbor(u) : parent' = [parent EXCEPT ![u] = v]
               /\ awake_count' = awake_count + 1
               /\ Proceed(t, [step |-> "store", u |-> u, bits |-> Word(curr, WordOf(u))])
            \/ /\ parent[u] >= 0 \/ FrontNeighbor(u) = {}
               /\ Proceed(t, NextNode(u))
               /\ UNCHANGED <<parent, awake_count>>
     /\ UNCHANGED <<job, graph, queueVars, front, curr, edges_to_check, scout_count, old_awake_count>>
  \/ /\ At(t, "bottom up", "store")
     /\ LET u == doing[t].u
        IN  /\ curr' = StoreWord(curr, WordOf(u), doing[t].bits \cup {u})
            /\ Proceed(t, NextNode(u))
     /\ UNCHANGED <<job, graph, queueVars, parent, front, edges_to_check, scout_count,
                    awake_count, old_awake_count>>

(* front.swap(curr), and the do-while condition.                           *)
EndBottomUp ==
  /\ AllDone("bottom up")
  /\ front' = curr
  /\ IF awake_count >= old_awake_count
          \/ awake_count > graph.num_nodes \div job.beta
       THEN StartBottomUp(awake_count, front)
       ELSE /\ curr' = front
            /\ Enter("to queue", Vertices(graph))
            /\ UNCHANGED <<awake_count, old_awake_count>>
  /\ UNCHANGED <<job, graph, queueVars, parent, edges_to_check, scout_count>>

-----------------------------------------------------------------------------
(* BitmapToQueue                                                           *)

ToQueue(t) ==
  \/ /\ region = "to queue"
     /\ \E n \in todo :
          Take(t, n, IF n \in front THEN [step |-> "push", n |-> n] ELSE Idle)
     /\ UNCHANGED <<job, graph, queueVars, bfsVars>>
  \/ /\ At(t, "to queue", "push")
     /\ Push(t, doing[t].n, Idle)
     /\ UNCHANGED <<job, graph, queue, bfsVars>>

EndToQueue ==
  /\ AllFlushed("to queue")
  /\ queue' = slide_window(queue)
  /\ scout_count' = 1
  /\ Enter("search", {})
  /\ UNCHANGED <<job, graph, lqueue, parent, front, curr, edges_to_check,
                 awake_count, old_awake_count>>

BfsFlush(t) ==
  /\ region \in {"top down", "to queue"}
  /\ FlushAtEnd(t) \/ Flushing(t)
  /\ UNCHANGED <<job, graph, bfsVars>>

BfsNext ==
  \/ StartBfs \/ ChooseDirection
  \/ EndTopDown \/ EndToBitmap \/ EndBottomUp \/ EndToQueue
  \/ \E t \in Threads :
       TopDown(t) \/ ToBitmap(t) \/ BottomUp(t) \/ ToQueue(t) \/ BfsFlush(t)

-----------------------------------------------------------------------------
(* The program alone, on any graph.                                        *)

BfsStart ==
  /\ IsGraph(graph) /\ job.program = "bfs" /\ job.source \in Vertices(graph)
  /\ region = "built" /\ todo = {} /\ doing = [t \in Threads |-> Idle]
  /\ queue = EmptyQueue(0) /\ lqueue = NoBuffers
  /\ BfsInit

bfsAll == <<job, graph, loopVars, queueVars, bfsVars>>

BfsSpec == BfsStart /\ [][BfsNext]_bfsAll

-----------------------------------------------------------------------------

(* The level of each node, by the chain of its parents: what is above it,  *)
(* from the levels of fewer steps up the chain.                            *)
Above(lower) ==
  [v \in Vertices(graph) |-> IF v = job.source \/ parent[v] < 0 THEN 0 ELSE 1 + lower[parent[v]]]

LevelByParents ==
  LET up[k \in 0..graph.num_nodes] ==
        IF k = 0 THEN [v \in Vertices(graph) |-> 0] ELSE Above(up[k - 1])
      levels == up[graph.num_nodes]
  IN  [v \in DOMAIN parent |-> IF parent[v] < 0 THEN -1 ELSE levels[v]]
=============================================================================
