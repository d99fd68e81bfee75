--------------------------- MODULE TriangleCount ---------------------------
(***************************************************************************)
(* Triangle counting of the GAP suite (src/gapbs-master/src/tc.cc), and    *)
(* the relabelling by degree it may do first (builder.h).  For each node   *)
(* an iterator `it` walks through the neighbours of a neighbour; nothing   *)
(* but the order of the neighbours keeps it inside them.  Each node is     *)
(* counted by one thread, which writes nothing the others read.            *)
(***************************************************************************)
EXTENDS GraphBuilder

CONSTANT MinAverageDegree   (* 10 in WorthRelabelling                      *)

VARIABLES
  total,
  outside      (* whether an iterator left the neighbours it walked through *)

tcVars == <<total, outside>>

TcInit == total = 0 /\ outside = FALSE

(* What a loop sees that breaks at the first element above the limit.      *)
UntilAbove(list, limit) ==
  LET above == {i \in DOMAIN list : list[i] > limit}
  IN  IF above = {} THEN list ELSE SubSeq(list, 1, Min(above) - 1)

(* `it` moves on while it is at something smaller.                         *)
Advance(list, it, w) == Min({i \in it..Len(list) : list[i] >= w} \cup {Len(list) + 1})

(* The neighbours w of both u and v, up to v.                              *)
CommonBelow(g, u, v) ==
  LET list == out_neigh(g, v)
  IN  FoldLeft(LAMBDA s, w :
                 LET it == Advance(list, s.it, w)
                 IN  IF it > Len(list) THEN [s EXCEPT !.it = it, !.outside = TRUE]
                     ELSE [s EXCEPT !.it = it, !.total = @ + (IF list[it] = w THEN 1 ELSE 0)],
               [it |-> 1, total |-> 0, outside |-> FALSE],
               UntilAbove(out_neigh(g, u), v))

OrderedCount(g) ==
  LET pairs == {<<u, v>> \in Vertices(g) \X Vertices(g) :
                  v \in ToSet(UntilAbove(out_neigh(g, u), u))}
  IN  [total |-> MapThenSumSet(LAMBDA p : CommonBelow(g, p[1], p[2]).total, pairs),
       outside |-> \E p \in pairs : CommonBelow(g, p[1], p[2]).outside]

-----------------------------------------------------------------------------
(* RelabelByDegree: the nodes in the order of decreasing degree, of equal  *)
(* degrees the greater first, get new names in that order.                 *)

ByDegree(g) ==
  SetToSortSeq(Vertices(g), LAMBDA a, b :
    out_degree(g, a) > out_degree(g, b) \/ (out_degree(g, a) = out_degree(g, b) /\ a > b))

RelabelUnsorted(g) ==
  LET order  == ByDegree(g)
      new_id == [n \in Vertices(g) |-> (CHOOSE i \in DOMAIN order : order[i] = n) - 1]
      names(n) == [i \in 1..out_degree(g, n) |-> Dest(new_id[out_neigh(g, n)[i]], 1)]
  IN  UndirectedGraph(g.num_nodes, [n \in Vertices(g) |-> names(order[n + 1])])

RelabelByDegree(g) ==
  LET order  == ByDegree(g)
      new_id == [n \in Vertices(g) |-> (CHOOSE i \in DOMAIN order : order[i] = n) - 1]
      names(n) == [i \in 1..out_degree(g, n) |-> Dest(new_id[out_neigh(g, n)[i]], 1)]
  IN  UndirectedGraph(g.num_nodes, [n \in Vertices(g) |-> SortSeq(names(order[n + 1]), Lighter)])

(* WorthRelabelling: too sparse a graph is not; of others it depends on    *)
(* the degrees of some random nodes.                                       *)
WorthRelabelling(g) ==
  IF num_edges(g) \div g.num_nodes < MinAverageDegree THEN {FALSE} ELSE BOOLEAN

(* A directed graph is refused.                                            *)
CountTriangles ==
  /\ region = "built" /\ job.program = "tc"
  /\ IF graph.directed
       THEN Enter("refused", {}) /\ UNCHANGED tcVars
       ELSE /\ \E relabel \in WorthRelabelling(graph) :
                 LET result == OrderedCount(IF relabel THEN RelabelByDegree(graph) ELSE graph)
                 IN  total' = result.total /\ outside' = result.outside
            /\ Enter("finished", {})
  /\ UNCHANGED <<job, graph>>

-----------------------------------------------------------------------------

(* Each triangle is counted once, whether the nodes were renamed or not    *)
(* (TCVerifier, tc.cc:108), and no iterator runs past the neighbours.      *)
TrianglesAreCountedOnce ==
  region = "finished" /\ job.program = "tc" =>
    /\ total = Cardinality({S \in SUBSET Vertices(graph) :
                 Cardinality(S) = 3 /\ \A u, v \in S : u # v => HasEdge(graph, u, v)})
    /\ ~outside
=============================================================================
