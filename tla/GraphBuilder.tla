---------------------------- MODULE GraphBuilder ----------------------------
(***************************************************************************)
(* How the GAP suite builds a graph from a list of edges                   *)
(* (src/gapbs-master/src/builder.h): MakeGraphFromEL and SquishGraph.      *)
(*                                                                         *)
(* The edges are counted at the nodes they belong to by all threads, the   *)
(* counts give each node a range of the neighbours' array, and the threads *)
(* then store each edge in the next slot of its node's range; both loops   *)
(* share their counters through fetch_and_add.  For a directed graph this  *)
(* is done a second time for the incoming edges.  Sorting what the race    *)
(* left in each range, and removing duplicates and loops, ends it.         *)
(* In-place building is sequential, but overwrites the list it reads.      *)
(***************************************************************************)
EXTENDS GapSuite

CONSTANT PrefixBlock   (* block_size of ParallelPrefixSum                  *)

ASSUME PrefixBlockAssumption == PrefixBlock \in Nat \ {0}

VARIABLES
  transpose,       (* whether the pass stores incoming edges               *)
  degrees, offsets, neighs,
  outgoing         (* the result of the first pass                         *)

passVars == <<transpose, degrees, offsets, neighs, outgoing>>

el         == job.edges
symmetrize == job.symmetrize
in_place   == job.in_place

FindMaxNodeID(edges) == Max({0} \cup UNION {{edges[k].u, edges[k].v.v} : k \in DOMAIN edges})

num_nodes == FindMaxNodeID(el) + 1
Nodes     == 0..(num_nodes - 1)

Dest(v, w) == [v |-> v, w |-> w]
Unset      == Dest(-1, 0)

FreeMemory ==
  /\ transpose' = FALSE
  /\ degrees' = << >> /\ offsets' = << >> /\ neighs' = << >> /\ outgoing' = << >>

BuilderInit ==
  /\ region = "start" /\ todo = {} /\ doing = [t \in Threads |-> Idle]
  /\ graph = NoGraph
  /\ transpose = FALSE
  /\ degrees = << >> /\ offsets = << >> /\ neighs = << >> /\ outgoing = << >>

-----------------------------------------------------------------------------
(* Sums of what is before each node, by blocks that are summed at once;    *)
(* the last element is the total.                                          *)

SumOver(f, from, to) == FoldLeft(LAMBDA s, k : s + f[k], 0, [k \in 1..(to - from) |-> from + k - 1])

ParallelPrefixSum(counts) ==
  LET n         == Cardinality(DOMAIN counts)
      start(i)  == (i \div PrefixBlock) * PrefixBlock
      local_sum == [b \in 0..(n \div PrefixBlock) |->
                      SumOver(counts, b * PrefixBlock, Min({(b + 1) * PrefixBlock, n}))]
  IN  [i \in 0..n |-> SumOver(local_sum, 0, i \div PrefixBlock) + SumOver(counts, start(i), i)]

FetchAndAdd(counter, n) == [counter EXCEPT ![n] = @ + 1]

(* CountDegrees: the nodes at which an edge is counted.                    *)
CountedAt(e, transposed) ==
  (IF symmetrize \/ ~transposed THEN <<e.u>> ELSE << >>)
  \o (IF (symmetrize /\ ~in_place) \/ (~symmetrize /\ transposed) THEN <<e.v.v>> ELSE << >>)

(* MakeCSR: the entries an edge makes, each at its node.                   *)
Entries(e, transposed) ==
  (IF symmetrize \/ ~transposed
     THEN <<[at |-> e.u, dest |-> e.v]>> ELSE << >>)
  \o (IF symmetrize \/ transposed
        THEN <<[at |-> e.v.v, dest |-> Dest(e.u, e.v.w)]>> ELSE << >>)

StartPass(transposed) ==
  /\ transpose' = transposed
  /\ degrees' = [n \in Nodes |-> 0]
  /\ Enter("count", DOMAIN el)

StartBuilding ==
  /\ region = "start" /\ ~in_place
  /\ StartPass(FALSE)
  /\ UNCHANGED <<job, offsets, neighs, outgoing, graph>>

CountEdge(t) ==
  \/ /\ region = "count"
     /\ \E k \in todo :
          Take(t, k, UnlessDone([step |-> "count", left |-> CountedAt(el[k], transpose)]))
     /\ UNCHANGED <<job, graph, passVars>>
  \/ /\ At(t, "count", "count")
     /\ LET left == doing[t].left
        IN  /\ degrees' = FetchAndAdd(degrees, Head(left))
            /\ Proceed(t, UnlessDone([step |-> "count", left |-> Tail(left)]))
     /\ UNCHANGED <<job, graph, transpose, offsets, neighs, outgoing>>

EndCounting ==
  /\ AllDone("count")
  /\ offsets' = ParallelPrefixSum(degrees)
  /\ neighs' = [i \in 0..(ParallelPrefixSum(degrees)[num_nodes] - 1) |-> Unset]
  /\ Enter("fill", DOMAIN el)
  /\ UNCHANGED <<job, transpose, degrees, outgoing, graph>>

(* Reserving a slot and storing into it are two steps.                     *)
FillSlot(t) ==
  \/ /\ region = "fill"
     /\ \E k \in todo :
          Take(t, k, UnlessDone([step |-> "reserve", left |-> Entries(el[k], transpose)]))
     /\ UNCHANGED <<job, graph, passVars>>
  \/ /\ At(t, "fill", "reserve")
     /\ LET left == doing[t].left
        IN  /\ offsets' = FetchAndAdd(offsets, Head(left).at)
            /\ Proceed(t, [step |-> "store", left |-> left,
                           slot |-> offsets[Head(left).at]])
     /\ UNCHANGED <<job, graph, transpose, degrees, neighs, outgoing>>
  \/ /\ At(t, "fill", "store")
     /\ LET left == doing[t].left
        IN  /\ neighs' = [neighs EXCEPT ![doing[t].slot] = Head(left).dest]
            /\ Proceed(t, UnlessDone([step |-> "reserve", left |-> Tail(left)]))
     /\ UNCHANGED <<job, graph, transpose, degrees, offsets, outgoing>>

(* The neighbours of each node: GenIndex on the offsets before they moved. *)
Slice(array, from, to) == [i \in 1..(to - from) |-> array[from + i - 1]]

Index(array, begins) == [n \in Nodes |-> Slice(array, begins[n], begins[n + 1])]

-----------------------------------------------------------------------------
(* SquishCSR                                                               *)

Lighter(a, b) == IF a.v = b.v THEN a.w < b.w ELSE a.v < b.v

SquishUnsorted(n, list) ==
  SelectSeq([i \in DOMAIN list |-> IF i > 1 /\ list[i].v = list[i - 1].v THEN Unset ELSE list[i]],
            LAMBDA d : d # Unset /\ d.v # n)

(* Sorted by node, then weight; one entry per node, the first; no loop.    *)
Squish(n, list) ==
  LET sorted == SortSeq(list, Lighter)
  IN  SelectSeq([i \in DOMAIN sorted |->
                   IF i > 1 /\ sorted[i].v = sorted[i - 1].v THEN Unset ELSE sorted[i]],
                LAMBDA d : d # Unset /\ d.v # n)

SquishIndex(index) == [n \in DOMAIN index |-> Squish(n, index[n])]

EndFilling ==
  /\ AllDone("fill")
  /\ LET index == Index(neighs, ParallelPrefixSum(degrees))
     IN  IF symmetrize
           THEN /\ graph' = UndirectedGraph(num_nodes, SquishIndex(index))
                /\ Enter("built", {})
                /\ FreeMemory
           ELSE IF ~transpose
             THEN /\ outgoing' = index
                  /\ StartPass(TRUE)
                  /\ UNCHANGED <<offsets, neighs, graph>>
             ELSE /\ graph' = DirectedGraph(num_nodes, SquishIndex(outgoing),
                                            SquishIndex(index))
                  /\ Enter("built", {})
                  /\ FreeMemory
  /\ UNCHANGED job

-----------------------------------------------------------------------------
(* MakeCSRInPlace, run by the main thread alone.  Its loops over the array *)
(* take a step for each element, in their order: Min or Max of `todo`.     *)

EdgeBefore(a, b) == a[1] < b[1] \/ (a[1] = b[1] /\ a[2] < b[2])

(* The list, sorted, without duplicates and loops.                         *)
CleanList ==
  SetToSortSeq({<<el[k].u, el[k].v.v>> : k \in {k \in DOMAIN el : el[k].u # el[k].v.v}},
               EdgeBefore)

Unweighted(index) == [n \in DOMAIN index |-> [i \in DOMAIN index[n] |-> Dest(index[n][i], 1)]]

(* The list is an array of twice as many nodes as it has edges.            *)
CleanEdges ==
  /\ region = "start" /\ in_place
  /\ neighs' = LET flat == FlattenSeq(CleanList) IN [i \in 0..(Len(flat) - 1) |-> flat[i + 1]]
  /\ Enter("clean", {})
  /\ UNCHANGED <<job, graph, transpose, degrees, offsets, outgoing>>

CountClean ==
  /\ region = "clean"
  /\ offsets' = ParallelPrefixSum([n \in Nodes |->
                  Cardinality({i \in DOMAIN neighs : i % 2 = 0 /\ neighs[i] = n})])
  /\ Enter("overwrite", 0..(Cardinality(DOMAIN neighs) \div 2 - 1))
  /\ UNCHANGED <<job, graph, transpose, degrees, neighs, outgoing>>

(* The second node of each pair is stored at its source's offset in the    *)
(* same array, of which the first half is kept; then the offsets, which    *)
(* have moved, are shifted down.                                           *)
OverwriteList ==
  /\ region = "overwrite"
  /\ IF todo # {}
       THEN LET k == Min(todo) u == neighs[2 * k]
            IN  /\ neighs' = [neighs EXCEPT ![offsets[u]] = neighs[2 * k + 1]]
                /\ offsets' = FetchAndAdd(offsets, u)
                /\ todo' = todo \ {k}
                /\ UNCHANGED <<region, doing>>
       ELSE /\ offsets' = [n \in 0..num_nodes |-> IF n = 0 THEN 0 ELSE offsets[n - 1]]
            /\ neighs' = [i \in 0..(Cardinality(DOMAIN neighs) \div 2 - 1) |-> neighs[i]]
            /\ Enter("in place", {})
  /\ UNCHANGED <<job, graph, transpose, degrees, outgoing>>

(* The inverse of a CSR array, node after node.                            *)
Inverted(index) ==
  [v \in Nodes |-> FlattenSeq([k \in 1..num_nodes |->
                     IF v \in ToSet(index[k - 1]) THEN <<k - 1>> ELSE << >>])]

FinishDirected ==
  /\ region = "in place" /\ ~symmetrize
  /\ LET out == Index(neighs, offsets)
     IN  graph' = DirectedGraph(num_nodes, Unweighted(out), Unweighted(Inverted(out)))
  /\ Enter("built", {})
  /\ FreeMemory
  /\ UNCHANGED job

(* std::binary_search over array[first..last - 1]: right when everything   *)
(* below x is in front of everything else.                                 *)
BinarySearch(array, first, last, x) ==
  LET lower[at \in first..last, len \in 0..(last - first)] ==
        IF len = 0 THEN at
        ELSE IF array[at + (len \div 2)] < x
          THEN lower[at + (len \div 2) + 1, len - (len \div 2) - 1]
          ELSE lower[at, len \div 2]
      found == lower[first, last - first]
  IN  found < last /\ array[found] = x

(* Step 1: how many inverses each node lacks (invs_needed).                *)
CountInverses ==
  /\ region = "in place" /\ symmetrize
  /\ degrees' = [v \in Nodes |-> Cardinality({u \in Nodes :
       /\ v \in ToSet(Slice(neighs, offsets[u], offsets[u + 1]))
       /\ ~BinarySearch(neighs, offsets[v], offsets[v + 1], u)})]
  /\ Enter("widen", {})
  /\ UNCHANGED <<job, graph, transpose, offsets, neighs, outgoing>>

invs_needed == degrees

(* The node whose range a slot of the array is in.                         *)
Owner(i) == CHOOSE n \in Nodes : i \in offsets[n]..(offsets[n + 1] - 1)

Widen ==
  /\ region = "widen"
  /\ LET begins == [n \in 0..num_nodes |-> offsets[n] + SumOver(invs_needed, 0, n)]
     IN  /\ offsets' = begins
         /\ neighs' = [i \in 0..(begins[num_nodes] - 1) |->
                         IF i \in DOMAIN neighs THEN neighs[i] ELSE -1]
         /\ Enter("spread", 0..(begins[num_nodes] - 1))
  /\ UNCHANGED <<job, graph, transpose, degrees, outgoing>>

(* Step 2: neighbours move up, last first, to leave room at the start of   *)
(* each range.                                                             *)
SpreadOut ==
  /\ region = "spread"
  /\ IF todo # {}
       THEN LET i == Max(todo) n == Owner(i)
            IN  /\ neighs' = IF i < offsets[n] + invs_needed[n] THEN neighs
                             ELSE [neighs EXCEPT ![i] = neighs[i - SumOver(invs_needed, 0, n + 1)]]
                /\ todo' = todo \ {i}
                /\ UNCHANGED <<region, doing>>
       ELSE Enter("add", DOMAIN neighs) /\ UNCHANGED neighs
  /\ UNCHANGED <<job, graph, transpose, degrees, offsets, outgoing>>

(* Step 3: for each neighbour v of u, u is searched in what v has so far   *)
(* and stored in front of it when it is missing.                           *)
AddInverse ==
  /\ region = "add" /\ todo # {}
  /\ LET i == Min(todo) u == Owner(i) v == neighs[i]
         first == offsets[v] + invs_needed[v]
     IN  /\ IF \/ i < offsets[u] + invs_needed[u]
               \/ BinarySearch(neighs, first, offsets[v + 1], u)
              THEN UNCHANGED <<neighs, degrees>>
              ELSE /\ neighs' = [neighs EXCEPT ![first - 1] = u]
                   /\ degrees' = [degrees EXCEPT ![v] = @ - 1]
         /\ todo' = todo \ {i}
  /\ UNCHANGED <<job, graph, region, doing, transpose, offsets, outgoing>>

Sorted(list) == SortSeq(list, LAMBDA a, b : a < b)

FinishSymmetrized ==
  /\ region = "add" /\ todo = {}
  /\ LET both == Index(neighs, offsets)
     IN  graph' = UndirectedGraph(num_nodes, Unweighted([n \in Nodes |-> Sorted(both[n])]))
  /\ Enter("built", {})
  /\ FreeMemory
  /\ UNCHANGED job

BuilderNext ==
  \/ StartBuilding \/ EndCounting \/ EndFilling
  \/ CleanEdges \/ CountClean \/ OverwriteList \/ FinishDirected
  \/ CountInverses \/ Widen \/ SpreadOut \/ AddInverse \/ FinishSymmetrized
  \/ \E t \in Threads : CountEdge(t) \/ FillSlot(t)

(* The builder by itself, for one list of edges.                           *)
ListedEdge == [u : Nat, v : [v : Nat, w : Int]]

BuildJob == el \in Seq(ListedEdge) /\ symmetrize \in BOOLEAN /\ in_place \in BOOLEAN

buildAll == <<job, graph, loopVars, passVars>>

BuildSpec == BuildJob /\ BuilderInit /\ [][BuilderNext]_buildAll

-----------------------------------------------------------------------------

(* The entries that a pass makes of the list, and those of a node.         *)
AllEntries(transposed) ==
  {u \in (DOMAIN el) \X {1, 2} : u[2] <= Len(Entries(el[u[1]], transposed))}

Entry(u, transposed) == Entries(el[u[1]], transposed)[u[2]]

EntriesAt(n, transposed) == {u \in AllEntries(transposed) : Entry(u, transposed).at = n}

HoldsEntries(index, transposed) ==
  \A n \in Nodes :
    \E which \in Bijection(DOMAIN index[n], EntriesAt(n, transposed)) :
      \A i \in DOMAIN index[n] : index[n][i] = Entry(which[i], transposed).dest

(* Whichever thread counts or stores an edge first, at the end of a pass   *)
(* each node's neighbours are those of its edges, each stored once, in the *)
(* slots that its count has set apart for it and in no other node's.       *)
EdgesAreKept ==
  /\ AllDone("fill") => HoldsEntries(Index(neighs, ParallelPrefixSum(degrees)), transpose)
  /\ transpose => HoldsEntries(outgoing, FALSE)
=============================================================================
