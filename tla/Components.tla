----------------------------- MODULE Components -----------------------------
(***************************************************************************)
(* Connected components of the GAP suite: Afforest                         *)
(* (src/gapbs-master/src/cc.cc) and Shiloach-Vishkin                       *)
(* (src/gapbs-master/src/cc_sv.cc).  comp[n] is a node of n's component,   *)
(* smaller than n or n itself; both programs hook trees of such labels     *)
(* onto each other, all threads at once, and flatten them.  Afforest hooks *)
(* with compare_and_swap; Shiloach-Vishkin with plain stores, which may    *)
(* undo another thread's hook, and repeats until nothing changes.          *)
(***************************************************************************)
EXTENDS GapSuite

VARIABLES
  comp,
  round,       (* r, Afforest's neighbour rounds                           *)
  frequent,    (* c, the label that its last rounds skip                   *)
  change       (* Shiloach-Vishkin's flag                                  *)

ccVars == <<comp, round, frequent, change>>

CcInit == comp = << >> /\ round = 0 /\ frequent = -1 /\ change = FALSE

higher(a, b) == IF a > b THEN a ELSE b

lower(a, b) == a + (b - higher(a, b))

Singletons == [n \in Vertices(graph) |-> n]

-----------------------------------------------------------------------------
(* Link(u, v): hooks the tree of one onto that of the other.  `left` are   *)
(* the neighbours v that u has still to be linked with.                    *)

Linking == {"sample", "rest"}

LinkEach(u, neighs) ==
  UnlessDone([step |-> "p1", u |-> u, p1 |-> u, p2 |-> u, left |-> neighs])

NextLink(t) == LinkEach(doing[t].u, Tail(doing[t].left))

High(t) == higher(doing[t].p1, doing[t].p2)
Low(t)  == lower(doing[t].p1, doing[t].p2)

(* The loop's condition, once p1 and p2 are known.                         *)
Compared(t, p2) ==
  IF doing[t].p1 = p2 THEN NextLink(t)
  ELSE [doing[t] EXCEPT !.step = "high", !.p2 = p2]

LinkRead(t) ==
  /\ region \in Linking
  /\ \/ /\ doing[t].step = "p1"
        /\ Proceed(t, [doing[t] EXCEPT !.step = "p2", !.p1 = comp[doing[t].u]])
     \/ /\ doing[t].step = "p2"
        /\ Proceed(t, Compared(t, comp[Head(doing[t].left)]))
     \/ /\ doing[t].step = "high"
        /\ LET p_high == comp[High(t)]
           IN  Proceed(t,
                 IF p_high = Low(t) THEN NextLink(t)
                 ELSE [doing[t] EXCEPT !.step = IF p_high = High(t) THEN "hook" ELSE "climb"])
  /\ UNCHANGED <<job, graph, ccVars>>

HookStore(t) ==
  /\ region \in Linking /\ doing[t].step = "hook"
  /\ comp' = [comp EXCEPT ![High(t)] = Low(t)]
  /\ Proceed(t, NextLink(t))
  /\ UNCHANGED <<job, graph, round, frequent, change>>

HookUpwards(t) ==
  /\ region \in Linking /\ doing[t].step = "hook"
  /\ comp' = [comp EXCEPT ![Low(t)] = High(t)]
  /\ Proceed(t, NextLink(t))
  /\ UNCHANGED <<job, graph, round, frequent, change>>

Hook(t) ==
  /\ region \in Linking /\ doing[t].step = "hook"
  /\ IF comp[High(t)] = High(t)
       THEN /\ comp' = [comp EXCEPT ![High(t)] = Low(t)]
            /\ Proceed(t, NextLink(t))
       ELSE /\ Proceed(t, [doing[t] EXCEPT !.step = "climb"])
            /\ UNCHANGED comp
  /\ UNCHANGED <<job, graph, round, frequent, change>>

(* p1 = comp[comp[high]]; p2 = comp[low]                                   *)
Climb(t) ==
  /\ region \in Linking
  /\ \/ /\ doing[t].step = "climb"
        /\ Proceed(t, [doing[t] EXCEPT !.step = "again", !.p1 = comp[High(t)], !.p2 = Low(t)])
     \/ /\ doing[t].step = "again"
        /\ Proceed(t, [doing[t] EXCEPT !.step = "low", !.p1 = comp[doing[t].p1]])
     \/ /\ doing[t].step = "low"
        /\ Proceed(t, Compared(t, comp[doing[t].p2]))
  /\ UNCHANGED <<job, graph, ccVars>>

-----------------------------------------------------------------------------
(* Compress.  comp[n] is written by n's thread only, what it refers to by  *)
(* any; the loop reads it anew each time.                                  *)

Compressing == {"compress", "compress last", "flatten"}

Testing(n) == [step |-> "test", n |-> n, label |-> n]

Compress(t) ==
  \/ /\ region \in Compressing
     /\ \E n \in todo : Take(t, n, Testing(n))
     /\ UNCHANGED <<job, graph, ccVars>>
  \/ /\ region \in Compressing /\ doing[t].step = "test"
     /\ LET n == doing[t].n
        IN  Proceed(t, IF comp[n] # comp[comp[n]]
                         THEN [doing[t] EXCEPT !.step = "load"] ELSE Idle)
     /\ UNCHANGED <<job, graph, ccVars>>
  \/ /\ region \in Compressing /\ doing[t].step = "load"
     /\ LET n == doing[t].n
        IN  Proceed(t, [doing[t] EXCEPT !.step = "store", !.label = comp[comp[n]]])
     /\ UNCHANGED <<job, graph, ccVars>>
  \/ /\ region \in Compressing /\ doing[t].step = "store"
     /\ LET n == doing[t].n
        IN  /\ comp' = [comp EXCEPT ![n] = doing[t].label]
            /\ Proceed(t, Testing(n))
     /\ UNCHANGED <<job, graph, round, frequent, change>>

-----------------------------------------------------------------------------
(* Afforest                                                                *)

StartAfforest ==
  /\ region = "built" /\ job.program = "cc"
  /\ comp' = Singletons
  /\ round' = 0
  /\ Enter("sample", Vertices(graph))
  /\ UNCHANGED <<job, graph, frequent, change>>

(* The neighbour at offset `round`, if there is one.                       *)
Sampled(u) ==
  LET neighs == From(out_neigh(graph, u), round)
  IN  IF neighs = << >> THEN << >> ELSE <<Head(neighs)>>

SampleEdge(t) ==
  /\ region = "sample"
  /\ \E u \in todo : Take(t, u, LinkEach(u, Sampled(u)))
  /\ UNCHANGED <<job, graph, ccVars>>

EndSample ==
  /\ AllDone("sample")
  /\ Enter("compress", Vertices(graph))
  /\ UNCHANGED <<job, graph, ccVars>>

(* The most frequent label of some random nodes may be any label.          *)
EndCompress ==
  /\ AllDone("compress")
  /\ IF round + 1 < job.neighbor_rounds
       THEN /\ round' = round + 1
            /\ Enter("sample", Vertices(graph))
            /\ UNCHANGED frequent
       ELSE /\ round' = job.neighbor_rounds
            /\ \E n \in Vertices(graph) : frequent' = comp[n]
            /\ Enter("rest", Vertices(graph))
  /\ UNCHANGED <<job, graph, comp, change>>

(* A node is skipped when it has the frequent label; otherwise what was    *)
(* not sampled is linked, and all incoming edges of a directed graph.      *)
Rest(u) ==
  IF comp[u] = frequent THEN << >>
  ELSE From(out_neigh(graph, u), job.neighbor_rounds)
         \o (IF graph.directed THEN in_neigh(graph, u) ELSE << >>)

LinkRest(t) ==
  /\ region = "rest"
  /\ \E u \in todo : Take(t, u, LinkEach(u, Rest(u)))
  /\ UNCHANGED <<job, graph, ccVars>>

EndRest ==
  /\ AllDone("rest")
  /\ Enter("compress last", Vertices(graph))
  /\ UNCHANGED <<job, graph, ccVars>>

EndAfforest ==
  /\ AllDone("compress last")
  /\ Enter("finished", {})
  /\ UNCHANGED <<job, graph, ccVars>>

-----------------------------------------------------------------------------
(* ShiloachVishkin                                                         *)

StartShiloachVishkin ==
  /\ region = "built" /\ job.program = "cc_sv"
  /\ comp' = Singletons
  /\ change' = FALSE
  /\ Enter("hook", Vertices(graph))
  /\ UNCHANGED <<job, graph, round, frequent>>

HookEach(u, neighs) ==
  UnlessDone([step |-> "comp_u", u |-> u, p1 |-> u, p2 |-> u, left |-> neighs])

NextEdge(t) == HookEach(doing[t].u, Tail(doing[t].left))

HookEdges(t) ==
  \/ /\ region = "hook"
     /\ \E u \in todo : Take(t, u, HookEach(u, out_neigh(graph, u)))
     /\ UNCHANGED <<job, graph, ccVars>>
  \/ /\ At(t, "hook", "comp_u")
     /\ Proceed(t, [doing[t] EXCEPT !.step = "comp_v", !.p1 = comp[doing[t].u]])
     /\ UNCHANGED <<job, graph, ccVars>>
  \/ /\ At(t, "hook", "comp_v")
     /\ LET p2 == comp[Head(doing[t].left)]
        IN  Proceed(t, IF doing[t].p1 = p2 THEN NextEdge(t)
                       ELSE [doing[t] EXCEPT !.step = "is root", !.p2 = p2])
     /\ UNCHANGED <<job, graph, ccVars>>
  \/ /\ At(t, "hook", "is root")
     /\ IF comp[High(t)] = High(t)
          THEN /\ change' = TRUE
               /\ Proceed(t, [doing[t] EXCEPT !.step = "set parent"])
          ELSE /\ Proceed(t, NextEdge(t))
               /\ UNCHANGED change
     /\ UNCHANGED <<job, graph, comp, round, frequent>>
  \/ /\ At(t, "hook", "set parent")
     /\ comp' = [comp EXCEPT ![High(t)] = Low(t)]
     /\ Proceed(t, NextEdge(t))
     /\ UNCHANGED <<job, graph, round, frequent, change>>

EndHooking ==
  /\ AllDone("hook")
  /\ Enter("flatten", Vertices(graph))
  /\ UNCHANGED <<job, graph, ccVars>>

FlattenUnreset ==
  /\ AllDone("flatten")
  /\ Enter(IF change THEN "hook" ELSE "finished", IF change THEN Vertices(graph) ELSE {})
  /\ UNCHANGED <<job, graph, ccVars>>

EndFlatten ==
  /\ AllDone("flatten")
  /\ IF change
       THEN /\ change' = FALSE
            /\ Enter("hook", Vertices(graph))
       ELSE /\ Enter("finished", {})
            /\ UNCHANGED change
  /\ UNCHANGED <<job, graph, comp, round, frequent>>

CcNext ==
  \/ StartAfforest \/ EndSample \/ EndCompress \/ EndRest \/ EndAfforest
  \/ StartShiloachVishkin \/ EndHooking \/ EndFlatten
  \/ \E t \in Threads :
       \/ SampleEdge(t) \/ LinkRest(t) \/ LinkRead(t) \/ Hook(t) \/ Climb(t)
       \/ Compress(t) \/ HookEdges(t)

-----------------------------------------------------------------------------
(* Both programs alone, on any graph.  There is a round of sampling at     *)
(* least: the caller leaves neighbor_rounds at its default, 2.             *)

CcJob == [program : {"cc", "cc_sv"}, neighbor_rounds : Nat \ {0}]

CcStart ==
  /\ job \in CcJob /\ IsGraph(graph)
  /\ region = "built" /\ todo = {} /\ doing = [t \in Threads |-> Idle]
  /\ CcInit

ccAll == <<job, graph, loopVars, ccVars>>

CcSpec == CcStart /\ [][CcNext]_ccAll

-----------------------------------------------------------------------------

(* A label is a node of the same component, not above the node it labels:  *)
(* no interleaving of hooks and compressions joins two components or makes *)
(* a circle.                                                               *)
LabelsStayInside ==
  comp # << >> => \A n \in Vertices(graph) : comp[n] <= n /\ SameComponent(graph, n, comp[n])

(* At the end two nodes have the same label exactly when they are          *)
(* connected, edges taken in both directions (CCVerifier, cc.cc:173).      *)
LabelsAreComponents ==
  region = "finished" /\ comp # << >> =>
    \A u, v \in Vertices(graph) : comp[u] = comp[v] <=> SameComponent(graph, u, v)
=============================================================================
