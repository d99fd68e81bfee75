---------------------------- MODULE LevelSearch ----------------------------
(***************************************************************************)
(* What a breadth-first search of the GAP suite promises, however its      *)
(* threads interleave and whichever way it looks for edges: nodes are      *)
(* discovered level by level.  A node is discovered from one whose level   *)
(* is the lowest that still has undiscovered successors, and a search is   *)
(* over only when nothing is left to discover.                             *)
(***************************************************************************)
EXTENDS Integers

VARIABLES
  nodes, edges,   (* the graph; it is not known before the first search    *)
  level,          (* the level of each node, -1 when it is not discovered  *)
  over            (* whether no search is under way                        *)

vars == <<nodes, edges, level, over>>

None == << >>

Graph(ns, es) == ns \subseteq Nat /\ es \subseteq ns \X ns

Init == Graph(nodes, edges) /\ level = None /\ over = TRUE

(* Every successor of a discovered node is discovered.                     *)
Settled(n) == \A v \in nodes : <<n, v>> \in edges => level[v] # -1

Complete == \A n \in nodes : level[n] # -1 => Settled(n)

Build ==
  /\ level = None
  /\ Graph(nodes', edges')
  /\ UNCHANGED <<level, over>>

Begin ==
  /\ over /\ over' = FALSE
  /\ \E source \in nodes : level' = [n \in nodes |-> IF n = source THEN 0 ELSE -1]
  /\ UNCHANGED <<nodes, edges>>

Discover ==
  /\ ~over
  /\ \E u, v \in nodes :
       /\ <<u, v>> \in edges
       /\ level[u] # -1 /\ level[v] = -1
       /\ \A n \in nodes : level[n] \in 0..(level[u] - 1) => Settled(n)
       /\ level' = [level EXCEPT ![v] = level[u] + 1]
  /\ UNCHANGED <<nodes, edges, over>>

End ==
  /\ ~over /\ Complete
  /\ over' = TRUE
  /\ UNCHANGED <<nodes, edges, level>>

Next == Build \/ Begin \/ Discover \/ End

Spec == Init /\ [][Next]_vars

-----------------------------------------------------------------------------

(* When a search is over, levels are distances: one node has level 0, any  *)
(* other discovered node is one above a predecessor, no edge climbs more   *)
(* than one level, and no edge leaves the discovered nodes.                *)
LevelsAreDistances ==
  over /\ level # None =>
    /\ \E source \in nodes : \A n \in nodes : level[n] = 0 <=> n = source
    /\ \A v \in nodes : level[v] > 0 =>
         \E u \in nodes : <<u, v>> \in edges /\ level[v] = level[u] + 1
    /\ \A u, v \in nodes : <<u, v>> \in edges /\ level[u] # -1 =>
         level[v] # -1 /\ level[v] <= level[u] + 1
=============================================================================
