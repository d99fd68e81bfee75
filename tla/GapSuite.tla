------------------------------ MODULE GapSuite ------------------------------
(***************************************************************************)
(* What the programs of the GAP suite share: graphs and parallel loops.    *)
(*                                                                         *)
(* CSRGraph (src/gapbs-master/src/graph.h): nodes are 0..num_nodes-1 and   *)
(* each has a sequence of outgoing and one of incoming neighbours, an      *)
(* undirected graph the same for both.  A neighbour is a node and a weight *)
(* (NodeWeight); the weights of a graph built without any are 1.           *)
(*                                                                         *)
(* The programs (OpenMP) are a main thread that enters one parallel region *)
(* after the other.  The iterations of a region's loop are shared out      *)
(* among the threads; every schedule gives each iteration to one thread,   *)
(* in some order, and that is all that is assumed.  A region is left when  *)
(* its iterations are done and no thread is busy (the barrier at its end). *)
(* What a busy thread does next is a record with a `step`; other fields    *)
(* are the local variables that are still needed.                          *)
(***************************************************************************)
EXTENDS Integers, Sequences, FiniteSets, SequencesExt, FiniteSetsExt

CONSTANT Threads

VARIABLES
  job,      (* the program and its options: never changes                  *)
  graph,    (* the graph it works on, once there is one                    *)
  region,   (* the region being run, or where the main thread is           *)
  todo,     (* its iterations that no thread has taken                     *)
  doing     (* what each thread does                                       *)

loopVars == <<region, todo, doing>>

Idle == [step |-> "idle"]

(* A step with nothing left to do is no step.                              *)
UnlessDone(next) == IF next.left = << >> THEN Idle ELSE next

Enter(r, iterations) ==
  /\ region' = r
  /\ todo' = iterations
  /\ doing' = [t \in Threads |-> Idle]

(* A thread that is not busy takes an iteration and begins it.             *)
Take(t, i, next) ==
  /\ doing[t] = Idle
  /\ i \in todo /\ todo' = todo \ {i}
  /\ doing' = [doing EXCEPT ![t] = next]
  /\ UNCHANGED region

(* A thread goes on with what it does.                                     *)
Proceed(t, next) ==
  /\ doing' = [doing EXCEPT ![t] = next]
  /\ UNCHANGED <<region, todo>>

At(t, r, step) == region = r /\ doing[t].step = step

AllDone(r) == region = r /\ todo = {} /\ \A t \in Threads : doing[t] = Idle

-----------------------------------------------------------------------------
(* Graphs                                                                  *)

Vertices(g) == 0..(g.num_nodes - 1)

Ids(neighs) == [i \in DOMAIN neighs |-> neighs[i].v]

out_neigh(g, n) == Ids(g.out[n])
in_neigh(g, n)  == Ids(g.in[n])

(* Neighborhood(n, index, start_offset): what is left from an offset on.   *)
From(neighs, offset) == SubSeq(neighs, offset + 1, Len(neighs))

out_degree(g, n) == Len(g.out[n])

NoGraph == [num_nodes |-> -1, directed |-> FALSE, out |-> << >>, in |-> << >>]

UndirectedGraph(n, out) == [num_nodes |-> n, directed |-> FALSE, out |-> out, in |-> out]
DirectedGraph(n, out, in) == [num_nodes |-> n, directed |-> TRUE, out |-> out, in |-> in]

(* The neighbours of all nodes, in the order they are in memory.           *)
Neighbors(g, index) == FlattenSeq([k \in 1..g.num_nodes |-> index[k - 1]])

num_edges(g) ==
  LET entries == Len(Neighbors(g, g.out))
  IN  IF g.directed THEN entries ELSE entries \div 2

num_edges_directed(g) == IF g.directed THEN num_edges(g) ELSE 2 * num_edges(g)

VertexOffsets(g, index) ==
  [k \in 1..(g.num_nodes + 1) |->
     FoldLeft(LAMBDA total, n : total + Len(index[n - 1]), 0, [n \in 1..(k - 1) |-> n])]

-----------------------------------------------------------------------------
(* Distances and components: not code, but what the programs compute.      *)

HasEdge(g, u, v) == \E i \in DOMAIN g.out[u] : g.out[u][i].v = v

(* What GraphIsAsListed says of the graphs that are built: the incoming    *)
(* edges of a directed one are the outgoing edges of their other ends, an  *)
(* edge of an undirected one goes both ways.  An undirected graph has one  *)
(* array for both directions (graph.h:138).                                *)
Neighbour(g) == [v : Vertices(g), w : Int]

IsGraph(g) ==
  /\ g.num_nodes \in Nat
  /\ g.out \in [Vertices(g) -> Seq(Neighbour(g))]
  /\ g.in \in [Vertices(g) -> Seq(Neighbour(g))]
  /\ \A n \in Vertices(g) : \A i \in DOMAIN g.in[n] : HasEdge(g, g.in[n][i].v, n)
  /\ \A u, v \in Vertices(g) : HasEdge(g, u, v) =>
       IF g.directed THEN \E i \in DOMAIN g.in[v] : g.in[v][i].v = u
                     ELSE HasEdge(g, v, u)
  /\ ~g.directed => g.in = g.out

Successors(g, S) == {v \in Vertices(g) : \E u \in S : HasEdge(g, u, v)}

(* The nodes fewer than k + 1 edges away.                                  *)
Within(g, source) ==
  LET ball[k \in 0..g.num_nodes] ==
        IF k = 0 THEN {source} ELSE ball[k - 1] \cup Successors(g, ball[k - 1])
  IN  ball

(* Distance in edges; -1 when there is no path.                            *)
Depth(g, source, v) ==
  LET near == {k \in 0..g.num_nodes : v \in Within(g, source)[k]}
  IN  IF near = {} THEN -1 ELSE Min(near)

(* The sets of nodes that no edge leaves or enters, and the nodes that     *)
(* none of them tells apart.                                               *)
ClosedSets(g) ==
  {S \in SUBSET Vertices(g) : \A u, v \in Vertices(g) :
     HasEdge(g, u, v) => (u \in S <=> v \in S)}

SameComponent(g, u, v) == \A S \in ClosedSets(g) : u \in S <=> v \in S
=============================================================================
