-------------------------- MODULE MCGraphPrograms --------------------------
(* Small graphs for each program of the GAP suite.                         *)
EXTENDS GraphPrograms

MCThreads == {"t1", "t2"}

Edge(u, v)        == [u |-> u, v |-> Dest(v, 1)]
Weighted(u, v, w) == [u |-> u, v |-> Dest(v, w)]

Job(program, edges, directed, more) ==
  [program |-> program, edges |-> edges, symmetrize |-> ~directed, in_place |-> TRUE] @@ more

(* Built by both threads, with duplicates, loops and competing weights.    *)
Parallel(program, edges, directed, more) ==
  more @@ [program |-> program, edges |-> edges, symmetrize |-> ~directed, in_place |-> FALSE]

Nothing == [a \in {} |-> 0]

Multi == <<Weighted(1, 0, 3), Weighted(0, 1, 2), Weighted(1, 1, 1), Weighted(1, 2, 2), Weighted(1, 0, 4)>>

BuilderJobs ==
  {Parallel("converter", Multi, directed, Nothing) : directed \in BOOLEAN}

InPlaceEdges == <<Edge(2, 0), Edge(0, 2), Edge(1, 3), Edge(3, 3), Edge(2, 3), Edge(1, 3), Edge(3, 0)>>

FileJobs ==
  {Job("converter", InPlaceEdges, directed, Nothing) : directed \in BOOLEAN}
    \cup {Job("dump", InPlaceEdges, directed, [dump_offsets |-> a, dump_neighbors |-> b]) :
            directed \in BOOLEAN, a, b \in BOOLEAN}

(* 0 - 1, 0 - 2, 1 - 3, 2 - 3, 3 - 4: two shortest paths from 0 to 3.      *)
Kite == <<Edge(0, 1), Edge(0, 2), Edge(1, 3), Edge(2, 3), Edge(3, 4)>>

(* A kite with a longer tail; 2 and 3, found together, share a word.  Low  *)
(* and high alpha and beta turn a search bottom-up, and back, sooner or    *)
(* later, and more than once.                                              *)
LongKite == <<Edge(0, 2), Edge(0, 3), Edge(2, 1), Edge(3, 1), Edge(1, 4), Edge(4, 5)>>

(* A level of three nodes, then one of two.                                *)
Star == <<Edge(0, 1), Edge(0, 2), Edge(0, 3), Edge(1, 4), Edge(2, 5)>>

BfsJobs ==
  {Job("bfs", LongKite, FALSE, [source |-> 0, alpha |-> a, beta |-> b]) :
     a \in {1, 4, 15}, b \in {1, 2, 18}}
    \cup {Job("bfs", LongKite, TRUE, [source |-> 0, alpha |-> 4, beta |-> 1]),
          Job("bfs", Star, FALSE, [source |-> 0, alpha |-> 4, beta |-> 1])}

BcJobs == {Job("bc", Kite, directed, [num_iters |-> 2]) : directed \in BOOLEAN}

(* 0 - 2 - 3 - 1, in which roots are hooked in turn.                       *)
Path == <<Edge(0, 2), Edge(2, 3), Edge(1, 3)>>

CcJobs ==
  {Job("cc", Path, directed, [neighbor_rounds |-> r]) : directed \in BOOLEAN, r \in {1, 2}}
    \cup {Job("cc_sv", Path, FALSE, Nothing)}

(* Two threads lower 3 at once, and both of its distances stay in bins.    *)
Roads == <<Weighted(0, 1, 1), Weighted(0, 2, 1), Weighted(1, 3, 3), Weighted(2, 3, 2), Weighted(3, 4, 1)>>

SsspJobs == {Parallel("sssp", Roads, TRUE, [source |-> 0, delta |-> d]) : d \in {1, 2, 4}}

(* Four triangles, and a tail.                                             *)
Triangles == <<Edge(0, 1), Edge(0, 2), Edge(1, 2), Edge(0, 3), Edge(1, 3), Edge(2, 3), Edge(3, 4)>>

TcJobs == {Job("tc", Triangles, directed, Nothing) : directed \in BOOLEAN}

MCJobs == BuilderJobs \cup FileJobs \cup BfsJobs \cup BcJobs \cup CcJobs \cup SsspJobs \cup TcJobs
=============================================================================
