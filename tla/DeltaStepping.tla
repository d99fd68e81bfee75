--------------------------- MODULE DeltaStepping ---------------------------
(***************************************************************************)
(* Single-source shortest paths of the GAP suite                           *)
(* (src/gapbs-master/src/sssp.cc).  One parallel region: each thread keeps *)
(* bins of nodes by distance / delta, relaxes its share of the frontier    *)
(* and what falls into its own current bin meanwhile, votes for the lowest *)
(* bin left, and copies its part of that bin to the next frontier.         *)
(* Two barriers an iteration separate the two; the shared bin index and    *)
(* tail are kept twice, for this iteration and the next.                   *)
(***************************************************************************)
EXTENDS GapSuite

CONSTANTS
  kDistInf,            (* more than any distance                           *)
  kMaxBin,             (* more than any bin                                *)
  kBinSizeThreshold

(* The largest distance is an int's, the largest bin a size_t's.           *)
ASSUME DeltaSteppingAssumption ==
  kDistInf \in Nat \ {0} /\ kMaxBin \in Nat /\ kDistInf <= kMaxBin

VARIABLES
  dist,
  frontier,
  shared_indexes, frontier_tails,   (* of the even and the odd iterations  *)
  sssp_iter,
  local_bins       (* each thread's bins; a bin beyond their size is empty *)

ssspVars == <<dist, frontier, shared_indexes, frontier_tails, sssp_iter, local_bins>>

(* The two elements that are used in turn.                                 *)
Pair(a, b) == [i \in 0..1 |-> IF i = 0 THEN a ELSE b]

now   == sssp_iter % 2
after == (sssp_iter + 1) % 2

curr_bin_index == shared_indexes[now]
next_bin_index == shared_indexes[after]

NoBins == [b \in 0..(kMaxBin - 1) |-> << >>]

SsspInit ==
  /\ dist = << >> /\ frontier = << >> /\ shared_indexes = << >>
  /\ frontier_tails = << >> /\ sssp_iter = 0 /\ local_bins = << >>

(* The frontier has room for as many nodes as there are edges.  Nothing in *)
(* the code tests that they suffice: beyond them frontier[i] is no value.  *)
StartSssp ==
  /\ region = "built" /\ job.program = "sssp"
  /\ dist' = [[n \in Vertices(graph) |-> kDistInf] EXCEPT ![job.source] = 0]
  /\ frontier' = [i \in 0..(num_edges_directed(graph) - 1) |-> IF i = 0 THEN job.source ELSE -1]
  /\ shared_indexes' = Pair(0, kMaxBin)
  /\ frontier_tails' = Pair(1, 0)
  /\ sssp_iter' = 0
  /\ local_bins' = [t \in Threads |-> NoBins]
  /\ Enter("relax", {0})
  /\ UNCHANGED <<job, graph>>

(* What the threads copy is in the shared bin (sssp.cc:37): the frontier   *)
(* has room for all of it.                                                 *)
FrontierFits ==
  dist # << >> => \A i \in 0..1 : 0..(frontier_tails[i] - 1) \subseteq DOMAIN frontier

-----------------------------------------------------------------------------
(* The nodes a thread has to relax, and then what it does.  RelaxEdges(u)  *)
(* goes through u's edges; dist[u] is read anew for each.                  *)

Then(nodes, step) == [step |-> "node", nodes |-> nodes, then |-> step]

Relaxing(t) == Head(doing[t].nodes)

(* The next edge, the next node, or what comes then.                       *)
Continue(d, left) ==
  IF left # << >> THEN [step |-> "old", left |-> left, nodes |-> d.nodes, then |-> d.then]
  ELSE IF Len(d.nodes) > 1 THEN Then(Tail(d.nodes), d.then)
  ELSE d.then

TakeNode(t) ==
  /\ region = "relax"
  /\ \E i \in todo : Take(t, i, [step |-> "check", nodes |-> <<frontier[i]>>, then |-> Idle])
  /\ UNCHANGED <<job, graph, ssspVars>>

RelaxEdges(t) ==
  \/ /\ At(t, "relax", "check")
     /\ Proceed(t, IF dist[Relaxing(t)] >= job.delta * curr_bin_index
                     THEN [doing[t] EXCEPT !.step = "node"] ELSE Idle)
     /\ UNCHANGED <<job, graph, ssspVars>>
  \/ /\ At(t, "relax", "node")
     /\ Proceed(t, Continue(doing[t], graph.out[Relaxing(t)]))
     /\ UNCHANGED <<job, graph, ssspVars>>
  \/ /\ At(t, "relax", "old")
     /\ Proceed(t, [step |-> "new", left |-> doing[t].left, nodes |-> doing[t].nodes,
                    then |-> doing[t].then, old_dist |-> dist[Head(doing[t].left).v]])
     /\ UNCHANGED <<job, graph, ssspVars>>
  \/ /\ At(t, "relax", "new")
     /\ LET new_dist == dist[Relaxing(t)] + Head(doing[t].left).w
        IN  Proceed(t, IF new_dist < doing[t].old_dist
              THEN [step |-> "swap", left |-> doing[t].left, nodes |-> doing[t].nodes,
                    then |-> doing[t].then, old_dist |-> doing[t].old_dist, new_dist |-> new_dist]
              ELSE Continue(doing[t], Tail(doing[t].left)))
     /\ UNCHANGED <<job, graph, ssspVars>>
  \/ /\ At(t, "relax", "retry")
     /\ LET old_dist == dist[Head(doing[t].left).v]
        IN  Proceed(t, IF doing[t].new_dist < old_dist
              THEN [doing[t] EXCEPT !.step = "swap", !.old_dist = old_dist]
              ELSE Continue(doing[t], Tail(doing[t].left)))
     /\ UNCHANGED <<job, graph, ssspVars>>

LowerStore(t) ==
  /\ At(t, "relax", "swap")
  /\ LET v        == Head(doing[t].left).v
         new_dist == doing[t].new_dist
     IN  /\ dist' = [dist EXCEPT ![v] = new_dist]
         /\ local_bins' = [local_bins EXCEPT ![t][new_dist \div job.delta] = Append(@, v)]
         /\ Proceed(t, Continue(doing[t], Tail(doing[t].left)))
  /\ UNCHANGED <<job, graph, frontier, shared_indexes, frontier_tails, sssp_iter>>

(* compare_and_swap(dist[v], old_dist, new_dist)                           *)
Lower(t) ==
  /\ At(t, "relax", "swap")
  /\ LET v        == Head(doing[t].left).v
         new_dist == doing[t].new_dist
     IN  IF dist[v] = doing[t].old_dist
           THEN /\ dist' = [dist EXCEPT ![v] = new_dist]
                /\ local_bins' = [local_bins EXCEPT ![t][new_dist \div job.delta] = Append(@, v)]
                /\ Proceed(t, Continue(doing[t], Tail(doing[t].left)))
           ELSE /\ Proceed(t, [doing[t] EXCEPT !.step = "retry"])
                /\ UNCHANGED <<dist, local_bins>>
  /\ UNCHANGED <<job, graph, frontier, shared_indexes, frontier_tails, sssp_iter>>

(* No iteration of the loop is left (nowait): the thread empties its       *)
(* current bin, round after round, unless the bin has grown too large.     *)
Fuse(t) ==
  /\ region = "relax" /\ todo = {}
  /\ doing[t] = Idle \/ doing[t].step = "fuse"
  /\ LET bin == local_bins[t][curr_bin_index]
     IN  IF bin # << >> /\ Len(bin) < kBinSizeThreshold
           THEN /\ local_bins' = [local_bins EXCEPT ![t][curr_bin_index] = << >>]
                /\ Proceed(t, Then(bin, [step |-> "fuse"]))
           ELSE /\ Proceed(t, [step |-> "vote"])
                /\ UNCHANGED local_bins
  /\ UNCHANGED <<job, graph, dist, frontier, shared_indexes, frontier_tails, sssp_iter>>

lowest(a, b) == IF a < b THEN a ELSE b

(* The critical section, and on to the first barrier.                      *)
Vote(t) ==
  /\ At(t, "relax", "vote")
  /\ LET nonempty == {b \in curr_bin_index..(kMaxBin - 1) : local_bins[t][b] # << >>}
     IN  shared_indexes' =
           IF nonempty = {} THEN shared_indexes
           ELSE [shared_indexes EXCEPT ![after] = lowest(@, Min(nonempty))]
  /\ Proceed(t, [step |-> "barrier"])
  /\ UNCHANGED <<job, graph, dist, frontier, frontier_tails, sssp_iter, local_bins>>

AllAt(step) == \A t \in Threads : doing[t].step = step

(* Behind the barrier one thread resets what the iteration after the next  *)
(* will use, while the others go on (single nowait) and copy.              *)
FirstBarrier ==
  /\ region = "relax" /\ AllAt("barrier")
  /\ region' = "exchange"
  /\ \E first \in Threads :
       doing' = [t \in Threads |-> [step |-> IF t = first THEN "single" ELSE "reserve"]]
  /\ UNCHANGED <<job, graph, todo, ssspVars>>

ResetCurrent(t) ==
  /\ At(t, "exchange", "single")
  /\ shared_indexes' = [shared_indexes EXCEPT ![now] = kMaxBin]
  /\ frontier_tails' = [frontier_tails EXCEPT ![now] = 0]
  /\ Proceed(t, [step |-> "reserve"])
  /\ UNCHANGED <<job, graph, dist, frontier, sssp_iter, local_bins>>

CopyBin(t) ==
  \/ /\ At(t, "exchange", "reserve")
     /\ IF next_bin_index = kMaxBin \/ local_bins[t][next_bin_index] = << >>
          THEN /\ Proceed(t, [step |-> "end"])
               /\ UNCHANGED frontier_tails
          ELSE /\ frontier_tails' = [frontier_tails EXCEPT
                     ![after] = @ + Len(local_bins[t][next_bin_index])]
               /\ Proceed(t, [step |-> "copy", start |-> frontier_tails[after]])
     /\ UNCHANGED <<job, graph, dist, frontier, shared_indexes, sssp_iter, local_bins>>
  \/ /\ At(t, "exchange", "copy")
     /\ LET bin   == local_bins[t][next_bin_index]
            start == doing[t].start
        IN  frontier' = [i \in DOMAIN frontier |->
              IF i - start + 1 \in DOMAIN bin THEN bin[i - start + 1] ELSE frontier[i]]
     /\ local_bins' = [local_bins EXCEPT ![t][next_bin_index] = << >>]
     /\ Proceed(t, [step |-> "end"])
     /\ UNCHANGED <<job, graph, dist, shared_indexes, frontier_tails, sssp_iter>>

(* The second barrier: iter++ and the loop's condition.                    *)
SecondBarrier ==
  /\ region = "exchange" /\ AllAt("end")
  /\ sssp_iter' = sssp_iter + 1
  /\ IF next_bin_index # kMaxBin
       THEN Enter("relax", 0..(frontier_tails[after] - 1))
       ELSE Enter("finished", {})
  /\ UNCHANGED <<job, graph, dist, frontier, shared_indexes, frontier_tails, local_bins>>

SsspNext ==
  \/ StartSssp \/ FirstBarrier \/ SecondBarrier
  \/ \E t \in Threads :
       TakeNode(t) \/ RelaxEdges(t) \/ Lower(t) \/ Fuse(t) \/ Vote(t)
       \/ ResetCurrent(t) \/ CopyBin(t)

(* The program alone, on any graph without negative weights.               *)

SsspStart ==
  /\ IsGraph(graph) /\ \A u \in Vertices(graph) : graph.out[u] \in Seq([v : Vertices(graph), w : Nat])
  /\ job.program = "sssp" /\ job.source \in Vertices(graph) /\ job.delta \in Nat \ {0}
  /\ region = "built" /\ todo = {} /\ doing = [t \in Threads |-> Idle]
  /\ SsspInit

ssspAll == <<job, graph, loopVars, ssspVars>>

SsspSpec == SsspStart /\ [][SsspNext]_ssspAll

-----------------------------------------------------------------------------

(* The length of a shortest path: the least one can get by using one edge  *)
(* after the other, as often as there are nodes.                           *)
Reached(best, v) ==
  {best[v]} \cup UNION {{best[u] + graph.out[u][i].w :
                           i \in {i \in DOMAIN graph.out[u] : graph.out[u][i].v = v}} :
                        u \in Vertices(graph)}

Unreached(s) == [[n \in Vertices(graph) |-> kDistInf] EXCEPT ![s] = 0]

Shortened(best) == [v \in Vertices(graph) |-> Min(Reached(best, v))]

Rounds(s) ==
  LET best[k \in 0..graph.num_nodes] == IF k = 0 THEN Unreached(s) ELSE Shortened(best[k - 1])
  IN  best

Distances(s) == Rounds(s)[graph.num_nodes]

(* No distance is ever too small, and when no thread has a bin left they   *)
(* are all right: no node that was lowered was forgotten in a bin          *)
(* (SSSPVerifier, sssp.cc:163).                                            *)
DistancesAreShortest ==
  dist # << >> =>
    /\ \A v \in Vertices(graph) : dist[v] >= Distances(job.source)[v]
    /\ region = "finished" => dist = Distances(job.source)
=============================================================================
