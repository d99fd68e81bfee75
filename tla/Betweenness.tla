---------------------------- MODULE Betweenness ----------------------------
(***************************************************************************)
(* Betweenness centrality of the GAP suite (src/gapbs-master/src/bc.cc):   *)
(* for each source a parallel breadth-first search that counts shortest    *)
(* paths and marks the edges on them (PBFS), then a pass from the farthest *)
(* level back that adds up what each node contributes (Brandes).           *)
(*                                                                         *)
(* A level's threads leave its loop without waiting (nowait), flush, and   *)
(* meet at a barrier.  Scores are fractions of small numbers in the        *)
(* instances: they are modelled as whole multiples of 1/Unit, exact where  *)
(* the code rounds to float.                                               *)
(***************************************************************************)
EXTENDS SlidingQueue

CONSTANT Unit

VARIABLES
  sources,         (* the sources picked so far, the last one is current   *)
  depth, depths,
  path_counts,
  succ,            (* a bitmap over the edges in memory order              *)
  depth_index,     (* where each level begins in the queue                 *)
  scores

bcVars == <<sources, depth, depths, path_counts, succ, depth_index, scores>>

BcInit ==
  /\ sources = << >> /\ depth = 0 /\ depths = << >>
  /\ path_counts = << >> /\ succ = {} /\ depth_index = << >> /\ scores = << >>

(* out_neigh(u), each with the address of the edge: &v - g_out_start.      *)
EdgesOf(u) ==
  [i \in DOMAIN graph.out[u] |->
     [v |-> graph.out[u][i].v, at |-> VertexOffsets(graph, graph.out)[u + 1] + i - 1]]

(* sp.PickNext() returns any node with an outgoing edge.                   *)
Pickable == {n \in Vertices(graph) : out_degree(graph, n) # 0}

NotCleared(bitmap) == bitmap

(* succ.reset()                                                            *)
Cleared(bitmap) == {}

(* Everything a source's search uses is reset, then PBFS begins.           *)
BeginSource(q) ==
  /\ \E s \in Pickable :
       /\ sources' = Append(sources, s)
       /\ depths' = [[n \in Vertices(graph) |-> -1] EXCEPT ![s] = 0]
       /\ path_counts' = [[n \in Vertices(graph) |-> 0] EXCEPT ![s] = 1]
       /\ queue' = slide_window(push_back(q, s))
  /\ succ' = Cleared(succ)
  /\ depth_index' = <<q.shared_out_start>>
  /\ depth' = 0
  /\ Enter("level", {})

StartBc ==
  /\ region = "built" /\ job.program = "bc"
  /\ scores' = [n \in Vertices(graph) |-> 0]
  /\ BeginSource(EmptyQueue(graph.num_nodes))
  /\ UNCHANGED <<job, graph, lqueue>>

-----------------------------------------------------------------------------
(* PBFS                                                                    *)

BeginLevel ==
  /\ region = "level"
  /\ IF empty(queue)
       THEN /\ depth_index' = Append(depth_index, queue.shared_out_start)
            /\ Enter("back", {})
            /\ UNCHANGED depth
       ELSE /\ depth' = depth + 1
            /\ Enter("expand", Window(queue))
            /\ UNCHANGED depth_index
  /\ UNCHANGED <<job, graph, queueVars, sources, depths, path_counts, succ, scores>>

Expand(t) ==
  /\ region = "expand"
  /\ \E i \in todo :
       LET u == queue.shared[i]
       IN  Take(t, i, UnlessDone([step |-> "test", u |-> u, left |-> EdgesOf(u)]))
  /\ UNCHANGED <<job, graph, queueVars, bcVars>>

Test(t) ==
  /\ At(t, "expand", "test")
  /\ Proceed(t, [doing[t] EXCEPT !.step =
       IF depths[Head(doing[t].left).v] = -1 THEN "swap" ELSE "compare"])
  /\ UNCHANGED <<job, graph, queueVars, bcVars>>

Swap(t) ==
  /\ At(t, "expand", "swap")
  /\ LET v == Head(doing[t].left).v
         next == [doing[t] EXCEPT !.step = "compare"]
     IN  IF depths[v] = -1
           THEN /\ depths' = [depths EXCEPT ![v] = depth]
                /\ Push(t, v, next)
           ELSE /\ Proceed(t, next)
                /\ UNCHANGED <<depths, lqueue>>
  /\ UNCHANGED <<job, graph, queue, sources, depth, path_counts, succ, depth_index, scores>>

(* The bit is set atomically (set_bit_atomic), and then the count is added *)
(* to atomically.                                                          *)
Compare(t) ==
  /\ At(t, "expand", "compare")
  /\ LET edge == Head(doing[t].left)
     IN  IF depths[edge.v] = depth
           THEN /\ succ' = succ \cup {edge.at}
                /\ Proceed(t, [doing[t] EXCEPT !.step = "count"])
           ELSE /\ Proceed(t, UnlessDone([doing[t] EXCEPT !.step = "test", !.left = Tail(@)]))
                /\ UNCHANGED succ
  /\ UNCHANGED <<job, graph, queueVars, sources, depth, depths, path_counts,
                 depth_index, scores>>

Count(t) ==
  /\ At(t, "expand", "count")
  /\ path_counts' = [path_counts EXCEPT ![Head(doing[t].left).v] = @ + path_counts[doing[t].u]]
  /\ Proceed(t, UnlessDone([doing[t] EXCEPT !.step = "test", !.left = Tail(@)]))
  /\ UNCHANGED <<job, graph, queueVars, sources, depth, depths, succ, depth_index, scores>>

(* The barrier and the single block after it.                              *)
EndLevel ==
  /\ AllFlushed("expand")
  /\ depth_index' = Append(depth_index, queue.shared_out_start)
  /\ queue' = slide_window(queue)
  /\ Enter("level", {})
  /\ UNCHANGED <<job, graph, lqueue, sources, depth, depths, path_counts, succ, scores>>

-----------------------------------------------------------------------------
(* The rest of Brandes.  The threads of a level read what deeper levels    *)
(* have written, and write only their own nodes.                           *)

Level(d) == {queue.shared[i] : i \in depth_index[d + 1]..(depth_index[d + 2] - 1)}

DeltaOf(u, deltas) ==
  FoldLeft(LAMBDA sum, edge :
             IF edge.at \in succ
               THEN sum + (path_counts[u] * (Unit + deltas[edge.v])) \div path_counts[edge.v]
               ELSE sum,
           0, EdgesOf(u))

(* d = depth_index.size() - 2, ..., 0                                      *)
Deltas ==
  FoldLeft(LAMBDA deltas, d :
             [n \in DOMAIN deltas |-> IF n \in Level(d) THEN DeltaOf(n, deltas) ELSE deltas[n]],
           [n \in Vertices(graph) |-> 0],
           [k \in 1..(Len(depth_index) - 1) |-> Len(depth_index) - 1 - k])

EndSource ==
  /\ region = "back"
  /\ scores' = [n \in Vertices(graph) |-> scores[n] + Deltas[n]]
  /\ IF Len(sources) = job.num_iters
       THEN /\ Enter("finished", {})
            /\ UNCHANGED <<queue, sources, depth, depths, path_counts, succ, depth_index>>
       ELSE BeginSource(ResetQueue(queue))
  /\ UNCHANGED <<job, graph, lqueue>>

BcFlush(t) ==
  /\ region = "expand"
  /\ FlushAtEnd(t) \/ Flushing(t)
  /\ UNCHANGED <<job, graph, bcVars>>

BcNext ==
  \/ StartBc \/ BeginLevel \/ EndLevel \/ EndSource
  \/ \E t \in Threads :
       Expand(t) \/ Test(t) \/ Swap(t) \/ Compare(t) \/ Count(t) \/ BcFlush(t)

(* The program alone, on any graph.                                        *)

BcStart ==
  /\ IsGraph(graph) /\ job.program = "bc"
  /\ region = "built" /\ todo = {} /\ doing = [t \in Threads |-> Idle]
  /\ queue = EmptyQueue(0) /\ lqueue = NoBuffers
  /\ BcInit

bcAll == <<job, graph, loopVars, queueVars, bcVars>>

BcSpec == BcStart /\ [][BcNext]_bcAll

-----------------------------------------------------------------------------

(* The number of shortest paths between two nodes, by their length.        *)
Paths(u, v) ==
  LET walks[k \in 0..graph.num_nodes, x \in Vertices(graph)] ==
        IF k = 0 THEN (IF x = u THEN 1 ELSE 0)
        ELSE MapThenSumSet(LAMBDA y : walks[k - 1, y], {y \in Vertices(graph) : HasEdge(graph, y, x)})
  IN  IF Depth(graph, u, v) = -1 THEN 0 ELSE walks[Depth(graph, u, v), v]

(* The part of the shortest paths between s and t that goes through u.     *)
Share(s, u, t) ==
  IF /\ t # u /\ Paths(s, u) > 0 /\ Paths(u, t) > 0
     /\ Depth(graph, s, u) + Depth(graph, u, t) = Depth(graph, s, t)
    THEN (Unit * Paths(s, u) * Paths(u, t)) \div Paths(s, t)
    ELSE 0

(* However the threads of a level interleave, every node has the depth     *)
(* that its distance from the source is when the search ends (bc.cc:176).  *)
DepthsAreExact ==
  region = "back" => \A v \in Vertices(graph) : depths[v] = Depth(graph, Last(sources), v)

(* The path counts are exact then, too, and the scores,                   *)
(* added up over all sources, are those of the definition: the sum of the  *)
(* shares of the shortest paths that begin at or go through a node         *)
(* (BCVerifier, bc.cc:164).                                                *)
ScoresAreExact ==
  /\ DepthsAreExact
  /\ region = "back" =>
       \A v \in Vertices(graph) : path_counts[v] = Paths(Last(sources), v)
  /\ region = "finished" /\ job.program = "bc" =>
       \A u \in Vertices(graph) :
         scores[u] = FoldLeft(LAMBDA sum, s :
                       sum + MapThenSumSet(LAMBDA t : Share(s, u, t), Vertices(graph)), 0, sources)
=============================================================================
