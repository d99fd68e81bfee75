---------------------------- MODULE SearchProofs ----------------------------
(***************************************************************************)
(* Proofs about the searches of the GAP suite, on any graph and with any   *)
(* number of threads: searches by levels, the queue of the searches, and   *)
(* what breadth-first search and betweenness centrality do with them.      *)
(***************************************************************************)
EXTENDS GraphProofs, Bfs, Betweenness, LevelSearch

-----------------------------------------------------------------------------
(* Searches by levels                                                      *)
(*                                                                         *)
(* A search by levels finds distances, for any number of searches.  While  *)
(* it goes on, what makes this true is that a node with undiscovered       *)
(* successors is at most one level below the deepest node.                 *)

(* No edge between discovered nodes climbs more than a level.              *)
NoClimb ==
  \A u, v \in nodes :
    <<u, v>> \in edges /\ level[u] # -1 /\ level[v] # -1 => level[v] <= level[u] + 1

(* Nothing is more than a level above a node that is not settled.          *)
TwoLevels ==
  \A u \in nodes : level[u] # -1 /\ ~Settled(u) => \A n \in nodes : level[n] <= level[u] + 1

Supported ==
  \A v \in nodes : level[v] > 0 => \E u \in nodes : <<u, v>> \in edges /\ level[v] = level[u] + 1

OneSource == \E source \in nodes : \A n \in nodes : level[n] = 0 <=> n = source

Levelled ==
  /\ level \in [nodes -> Nat \cup {-1}]
  /\ OneSource /\ Supported /\ NoClimb /\ TwoLevels
  /\ over => Complete

LevelInv ==
  /\ over \in BOOLEAN
  /\ (level = None /\ over) \/ Levelled

LEMMA LevelledIsNotNone == Levelled => level # None
<1> SUFFICES ASSUME Levelled, level = None
             PROVE  FALSE
  OBVIOUS
<1>1. DOMAIN level = nodes
  BY DEF Levelled
<1>2. DOMAIN level = {}
  BY DEF None
<1>3. PICK source \in nodes : TRUE
  BY DEF Levelled, OneSource
<1> QED
  BY <1>1, <1>2, <1>3

LEMMA BeginLevels ==
  ASSUME Begin
  PROVE  Levelled' /\ over' = FALSE
<1>1. PICK source \in nodes : level' = [n \in nodes |-> IF n = source THEN 0 ELSE -1]
  BY DEF Begin
<1>2. over' = FALSE /\ nodes' = nodes /\ edges' = edges
  BY DEF Begin
<1>3. /\ level' \in [nodes -> Nat \cup {-1}]
      /\ \A n \in nodes : level'[n] = IF n = source THEN 0 ELSE -1
  BY <1>1
<1>4. OneSource' /\ Supported' /\ NoClimb' /\ TwoLevels'
  BY <1>2, <1>3 DEF OneSource, Supported, NoClimb, TwoLevels, Settled
<1> QED
  BY <1>2, <1>3, <1>4 DEF Levelled

LEMMA DiscoverLevels ==
  ASSUME Levelled, Discover
  PROVE  Levelled' /\ over' = FALSE
<1>1. over' = FALSE /\ nodes' = nodes /\ edges' = edges
  BY DEF Discover, Levelled
<1>2. PICK u \in nodes, v \in nodes :
        /\ <<u, v>> \in edges
        /\ level[u] # -1 /\ level[v] = -1
        /\ \A n \in nodes : level[n] \in 0..(level[u] - 1) => Settled(n)
        /\ level' = [level EXCEPT ![v] = level[u] + 1]
  BY DEF Discover
<1>3. level \in [nodes -> Nat \cup {-1}] /\ level[u] \in Nat
  BY <1>2 DEF Levelled
<1>4. /\ level' \in [nodes -> Nat \cup {-1}]
      /\ level'[v] = level[u] + 1
      /\ \A n \in nodes : n # v => level'[n] = level[n]
  BY <1>2, <1>3
<1>5. ~Settled(u)
  BY <1>2 DEF Settled
<1>6. \A n \in nodes : level[n] <= level[u] + 1
  BY <1>2, <1>5 DEF Levelled, TwoLevels
<1>7. ASSUME NEW x \in nodes, level[x] # -1, ~Settled(x)
      PROVE  level[u] <= level[x]
  BY <1>2, <1>3, <1>7
<1>8. OneSource'
  BY <1>1, <1>2, <1>3, <1>4 DEF Levelled, OneSource
<1>9. Supported'
  <2> SUFFICES ASSUME NEW w \in nodes, level'[w] > 0
               PROVE  \E x \in nodes : <<x, w>> \in edges /\ level'[w] = level'[x] + 1
    BY <1>1 DEF Supported
  <2>1. CASE w = v
    BY <1>2, <1>4, <2>1
  <2>2. CASE w # v
    <3>1. PICK x \in nodes : <<x, w>> \in edges /\ level[w] = level[x] + 1
      BY <1>4, <2>2 DEF Levelled, Supported
    <3>2. x # v
      BY <1>2, <1>4, <2>2, <3>1
    <3> QED
      BY <1>4, <2>2, <3>1, <3>2
  <2> QED
    BY <2>1, <2>2
<1>10. NoClimb'
  <2> SUFFICES ASSUME NEW x \in nodes, NEW y \in nodes, <<x, y>> \in edges,
                      level'[x] # -1, level'[y] # -1
               PROVE  level'[y] <= level'[x] + 1
    BY <1>1 DEF NoClimb
  <2>1. CASE x = v
    BY <1>3, <1>4, <1>6, <2>1
  <2>2. CASE x # v /\ y = v
    <3>1. ~Settled(x)
      BY <1>2, <2>2 DEF Settled
    <3> QED
      BY <1>3, <1>4, <1>7, <2>2, <3>1
  <2>3. CASE x # v /\ y # v
    BY <1>4, <2>3 DEF Levelled, NoClimb
  <2> QED
    BY <2>1, <2>2, <2>3
<1>11. TwoLevels'
  <2> SUFFICES ASSUME NEW x \in nodes, level'[x] # -1, NEW y \in nodes, <<x, y>> \in edges,
                      level'[y] = -1, NEW n \in nodes
               PROVE  level'[n] <= level'[x] + 1
    BY <1>1 DEF TwoLevels, Settled
  <2>1. CASE x = v
    BY <1>3, <1>4, <1>6, <2>1
  <2>2. CASE x # v
    <3>1. level[x] # -1 /\ ~Settled(x)
      BY <1>3, <1>4, <2>2 DEF Settled
    <3>2. level[u] <= level[x] /\ level[n] <= level[x] + 1
      BY <1>7, <3>1 DEF Levelled, TwoLevels
    <3> QED
      BY <1>3, <1>4, <2>2, <3>2
  <2> QED
    BY <2>1, <2>2
<1> QED
  BY <1>1, <1>4, <1>8, <1>9, <1>10, <1>11 DEF Levelled

(* When a search by levels is over, the levels of its nodes are their      *)
(* distances from the source: what each breadth-first search of the GAP    *)
(* suite gets from implementing it.                                        *)
THEOREM LevelsBecomeDistances == Spec => []LevelsAreDistances
<1>1. Init => LevelInv
  BY DEF Init, LevelInv
<1>2. LevelInv /\ [Next]_vars => LevelInv'
  <2> SUFFICES ASSUME LevelInv, [Next]_vars
               PROVE  LevelInv'
    OBVIOUS
  <2>1. CASE Build
    BY <2>1, LevelledIsNotNone DEF Build, LevelInv
  <2>2. CASE Begin
    BY <2>2, BeginLevels DEF LevelInv
  <2>3. CASE Discover
    <3>1. Levelled
      BY <2>3 DEF Discover, LevelInv
    <3> QED
      BY <2>3, <3>1, DiscoverLevels DEF LevelInv
  <2>4. CASE End
    <3>1. Levelled /\ Complete /\ over' = TRUE /\ UNCHANGED <<nodes, edges, level>>
      BY <2>4 DEF End, LevelInv
    <3> QED
      BY <3>1 DEF LevelInv, Levelled, OneSource, Supported, NoClimb, TwoLevels, Settled, Complete
  <2>5. CASE UNCHANGED vars
    BY <2>5 DEF vars, LevelInv, Levelled, OneSource, Supported, NoClimb, TwoLevels, Settled, Complete
  <2> QED
    BY <2>1, <2>2, <2>3, <2>4, <2>5 DEF Next
<1>3. LevelInv => LevelsAreDistances
  BY DEF LevelInv, Levelled, LevelsAreDistances, OneSource, Supported, NoClimb, Complete, Settled
<1> QED
  BY <1>1, <1>2, <1>3, PTL DEF Spec

-----------------------------------------------------------------------------
(* The queue of the searches                                               *)
(*                                                                         *)
(* What the array holds is known before it is there: a thread that has     *)
(* reserved room for its buffer will copy it there, whatever the others    *)
(* do.  The array as it will be, `c`, has each node once, and a node that  *)
(* a thread still has to put into the queue (in its buffer, or in its      *)
(* hands while the buffer is full) is not in it and with no other thread.  *)
(* Threads get nodes only by finding them, and nodes are found once.       *)

Queues(g) ==
  {q \in [shared : [Vertices(g) -> Int], shared_in : Nat, shared_out_start : Nat,
          shared_out_end : Nat] :
     q.shared_out_start <= q.shared_out_end /\ q.shared_out_end <= q.shared_in}

Handed(d) ==
  IF d.step \in {"reserve", "copy"} THEN {d.pushed} \ {Blank}
  ELSE IF d.step = "push" THEN {d.n} ELSE {}

(* What a thread in a state, with a buffer, still has to put in the queue. *)
ToPut(d, b) == Handed(d) \cup (IF d.step = "copy" THEN {} ELSE Range(b))

Reserved(d, b) == {i \in Int : d.step = "copy" /\ i - d.copy_start + 1 \in DOMAIN b}

Fresh(c, found) == found \ Range(c)

OnceEach(d, b) ==
  d.step # "copy" => /\ \A k, l \in DOMAIN b : b[k] = b[l] => k = l
                     /\ Handed(d) \cap Range(b) = {}

Arranged(c, q, d, b) ==
  /\ \A i \in 0..(q.shared_in - 1) :
       q.shared[i] = c[i] \/ \E t \in Threads : i \in Reserved(d[t], b[t])
  /\ \A t \in Threads : \A i \in Reserved(d[t], b[t]) :
       /\ i \in q.shared_out_end..(q.shared_in - 1)
       /\ c[i] = b[t][i - d[t].copy_start + 1]

OnceInAll(c, found, d, b) ==
  /\ \A t \in Threads : OnceEach(d[t], b[t]) /\ ToPut(d[t], b[t]) \subseteq Fresh(c, found)
  /\ \A s, t \in Threads : s # t => ToPut(d[s], b[s]) \cap ToPut(d[t], b[t]) = {}

Tidy(g, c, q, found, d, b) ==
  /\ q \in Queues(g) /\ found \subseteq Vertices(g)
  /\ b \in [Threads -> Seq(Vertices(g))]
  /\ \A t \in Threads : d[t].step = "copy" => d[t].copy_start \in Nat
  /\ c \in [0..(q.shared_in - 1) -> found]
  /\ \A i, j \in 0..(q.shared_in - 1) : c[i] = c[j] => i = j
  /\ Arranged(c, q, d, b)
  /\ OnceInAll(c, found, d, b)

(* There is room: the array is as large as there are nodes.                *)
LEMMA TidyFits ==
  ASSUME NEW g, IsGraph(g), NEW c, NEW q, NEW found, NEW d, NEW b, Tidy(g, c, q, found, d, b)
  PROVE  /\ q.shared_in <= Cardinality(DOMAIN q.shared)
         /\ 0..(q.shared_in - 1) \subseteq Vertices(g)
         /\ \A i \in 0..(q.shared_out_end - 1) : q.shared[i] = c[i] /\ q.shared[i] \in found
         /\ \A i, j \in 0..(q.shared_out_end - 1) : q.shared[i] = q.shared[j] => i = j
<1>1. /\ q \in Queues(g) /\ q.shared_in \in Nat /\ q.shared_out_end \in Nat
      /\ q.shared_out_end <= q.shared_in
      /\ DOMAIN q.shared = Vertices(g)
      /\ g.num_nodes \in Nat /\ Vertices(g) = 0..(g.num_nodes - 1)
  BY DEF Tidy, Queues, IsGraph, Vertices
<1>2. q.shared_in <= g.num_nodes /\ Cardinality(0..(g.num_nodes - 1)) = g.num_nodes
  <2> DEFINE S == 0..(q.shared_in - 1)
             T == 0..(g.num_nodes - 1)
  <2>1. c \in [S -> T] /\ \A i, j \in S : c[i] = c[j] => i = j
    BY <1>1 DEF Tidy
  <2>2. c \in Injection(S, T)
    BY <2>1 DEF Injection, IsInjective
  <2>3. /\ 0 \in Int /\ q.shared_in - 1 \in Int /\ g.num_nodes - 1 \in Int
        /\ (IF 0 > q.shared_in - 1 THEN 0 ELSE q.shared_in - 1 - 0 + 1) = q.shared_in
        /\ (IF 0 > g.num_nodes - 1 THEN 0 ELSE g.num_nodes - 1 - 0 + 1) = g.num_nodes
    BY <1>1
  <2>4. /\ IsFiniteSet(S) /\ Cardinality(S) = q.shared_in
        /\ IsFiniteSet(T) /\ Cardinality(T) = g.num_nodes
    BY <2>3, FS_Interval
  <2>5. Cardinality(S) <= Cardinality(T)
    BY <2>2, <2>4, FS_Injection
  <2> QED
    BY <2>4, <2>5
<1>3. Cardinality(DOMAIN q.shared) = g.num_nodes
  BY <1>1, <1>2
<1>4. ASSUME NEW i \in 0..(q.shared_out_end - 1)
      PROVE  q.shared[i] = c[i] /\ q.shared[i] \in found /\ i \in 0..(q.shared_in - 1)
  <2>1. i \in 0..(q.shared_in - 1)
    BY <1>1
  <2>2. ASSUME NEW t \in Threads, i \in Reserved(d[t], b[t])
        PROVE  FALSE
    BY <1>1, <2>2 DEF Tidy, Arranged
  <2> QED
    BY <2>1, <2>2 DEF Tidy, Arranged
<1>5. \A i, j \in 0..(q.shared_out_end - 1) : q.shared[i] = q.shared[j] => i = j
  BY <1>4 DEF Tidy
<1> QED
  BY <1>1, <1>2, <1>3, <1>4, <1>5

-----------------------------------------------------------------------------
(* Steps that do not touch the queue.                                      *)

LEMMA TidyWhenQuiet ==
  ASSUME NEW g, NEW c, NEW q, NEW found, NEW d, NEW b, Tidy(g, c, q, found, d, b),
         NEW found2, found \subseteq found2, found2 \subseteq Vertices(g),
         NEW d2,
         \A t \in Threads : \/ d2[t] = d[t]
                            \/ /\ d[t].step # "copy" /\ d2[t].step # "copy"
                               /\ Handed(d2[t]) \subseteq Handed(d[t])
  PROVE  Tidy(g, c, q, found2, d2, b)
<1>1. ASSUME NEW t \in Threads
      PROVE  /\ d2[t].step = "copy" <=> d[t].step = "copy"
             /\ d2[t].step = "copy" => d2[t] = d[t]
             /\ Handed(d2[t]) \subseteq Handed(d[t])
             /\ ToPut(d2[t], b[t]) \subseteq ToPut(d[t], b[t])
             /\ Reserved(d2[t], b[t]) = Reserved(d[t], b[t])
  BY <1>1 DEF ToPut, Reserved
<1>2. Arranged(c, q, d2, b)
  <2>1. ASSUME NEW i \in 0..(q.shared_in - 1)
        PROVE  q.shared[i] = c[i] \/ \E t \in Threads : i \in Reserved(d2[t], b[t])
    BY <1>1 DEF Tidy, Arranged
  <2>2. ASSUME NEW t \in Threads, NEW i \in Reserved(d2[t], b[t])
        PROVE  /\ i \in q.shared_out_end..(q.shared_in - 1)
               /\ c[i] = b[t][i - d2[t].copy_start + 1]
    <3>1. d2[t] = d[t]
      BY <1>1 DEF Reserved
    <3> QED
      BY <2>2, <3>1 DEF Tidy, Arranged
  <2> QED
    BY <2>1, <2>2 DEF Arranged
<1>3. OnceInAll(c, found2, d2, b)
  <2>1. ASSUME NEW t \in Threads
        PROVE  OnceEach(d2[t], b[t]) /\ ToPut(d2[t], b[t]) \subseteq Fresh(c, found2)
    BY <1>1 DEF Tidy, OnceInAll, OnceEach, Fresh
  <2>2. ASSUME NEW s \in Threads, NEW t \in Threads, s # t
        PROVE  ToPut(d2[s], b[s]) \cap ToPut(d2[t], b[t]) = {}
    BY <1>1, <2>2 DEF Tidy, OnceInAll
  <2> QED
    BY <2>1, <2>2 DEF OnceInAll
<1>4. c \in [0..(q.shared_in - 1) -> found2]
  BY DEF Tidy
<1> QED
  BY <1>1, <1>2, <1>3, <1>4 DEF Tidy

(* A thread takes a node that nobody has and that is not in the queue, or  *)
(* that is in its hands: then it has it in its hands, or in its buffer.    *)
TakesNode(c, found, d, b, t, v) ==
  /\ d[t].step # "copy" /\ Handed(d[t]) \subseteq {v}
  /\ v \in Fresh(c, found) /\ v \notin Range(b[t])
  /\ \A s \in Threads \ {t} : v \notin ToPut(d[s], b[s])

LEMMA TidyWhenHanded ==
  ASSUME NEW g, NEW c, NEW q, NEW found, NEW d, NEW b, Tidy(g, c, q, found, d, b),
         NEW t \in Threads, NEW v, TakesNode(c, found, d, b, t, v),
         NEW d2, d2[t].step # "copy", Handed(d2[t]) \subseteq {v},
         \A s \in Threads \ {t} : d2[s] = d[s]
  PROVE  Tidy(g, c, q, found, d2, b)
<1>1. /\ ToPut(d2[t], b[t]) \subseteq ToPut(d[t], b[t]) \cup {v}
      /\ \A s \in Threads : Reserved(d2[s], b[s]) = Reserved(d[s], b[s])
      /\ Reserved(d2[t], b[t]) = {}
  BY DEF ToPut, Reserved, TakesNode
<1>2. Arranged(c, q, d2, b)
  <2>1. ASSUME NEW s \in Threads, NEW i \in Reserved(d2[s], b[s])
        PROVE  /\ i \in q.shared_out_end..(q.shared_in - 1)
               /\ c[i] = b[s][i - d2[s].copy_start + 1]
    <3>1. d2[s] = d[s]
      BY <1>1
    <3> QED
      BY <2>1, <3>1 DEF Tidy, Arranged
  <2> QED
    BY <1>1, <2>1 DEF Tidy, Arranged
<1>3. OnceInAll(c, found, d2, b)
  <2>1. OnceEach(d2[t], b[t])
    BY DEF OnceEach, Tidy, OnceInAll, TakesNode
  <2>2. \A s \in Threads : OnceEach(d2[s], b[s]) /\ ToPut(d2[s], b[s]) \subseteq Fresh(c, found)
    BY <1>1, <2>1 DEF Tidy, OnceInAll, TakesNode
  <2>3. ASSUME NEW r \in Threads, NEW s \in Threads, r # s
        PROVE  ToPut(d2[r], b[r]) \cap ToPut(d2[s], b[s]) = {}
    <3>1. ToPut(d[r], b[r]) \cap ToPut(d[s], b[s]) = {}
      BY <2>3 DEF Tidy, OnceInAll
    <3> QED
      BY <1>1, <2>3, <3>1 DEF TakesNode
  <2> QED
    BY <2>2, <2>3 DEF OnceInAll
<1>4. \A s \in Threads : d2[s].step = "copy" => d2[s].copy_start \in Nat
  BY DEF Tidy
<1> QED
  BY <1>2, <1>3, <1>4 DEF Tidy

LEMMA RangeOfAppend ==
  ASSUME NEW S, NEW b \in Seq(S), NEW v \in S
  PROVE  /\ Append(b, v) \in Seq(S) /\ DOMAIN Append(b, v) = 1..(Len(b) + 1)
         /\ Range(Append(b, v)) = Range(b) \cup {v}
         /\ \A k \in DOMAIN b : Append(b, v)[k] = b[k]
         /\ Append(b, v)[Len(b) + 1] = v
<1>1. /\ Append(b, v) \in Seq(S) /\ Len(Append(b, v)) = Len(b) + 1 /\ Len(b) \in Nat
      /\ DOMAIN b = 1..Len(b) /\ DOMAIN Append(b, v) = 1..(Len(b) + 1)
      /\ \A k \in 1..Len(b) : Append(b, v)[k] = b[k]
      /\ Append(b, v)[Len(b) + 1] = v
  OBVIOUS
<1>2. 1..(Len(b) + 1) = 1..Len(b) \cup {Len(b) + 1}
  BY <1>1
<1> QED
  BY <1>1, <1>2 DEF Range

LEMMA TidyWhenAppended ==
  ASSUME NEW g, NEW c, NEW q, NEW found, NEW d, NEW b, Tidy(g, c, q, found, d, b),
         NEW t \in Threads, NEW v, TakesNode(c, found, d, b, t, v),
         NEW d2, d2[t].step # "copy", Handed(d2[t]) = {},
         \A s \in Threads \ {t} : d2[s] = d[s]
  PROVE  Tidy(g, c, q, found, d2, [b EXCEPT ![t] = Append(b[t], v)])
<1> DEFINE b2 == [b EXCEPT ![t] = Append(b[t], v)]
<1>1. /\ b \in [Threads -> Seq(Vertices(g))] /\ b[t] \in Seq(Vertices(g)) /\ v \in Vertices(g)
      /\ b2[t] = Append(b[t], v) /\ \A s \in Threads \ {t} : b2[s] = b[s]
  BY DEF Tidy, TakesNode, Fresh
<1>2. b2 \in [Threads -> Seq(Vertices(g))]
  BY <1>1, RangeOfAppend
<1> HIDE DEF b2
<1>3. /\ ToPut(d2[t], b2[t]) = Range(b[t]) \cup {v}
      /\ Reserved(d2[t], b2[t]) = {} /\ Reserved(d[t], b[t]) = {}
      /\ \A s \in Threads \ {t} : /\ Reserved(d2[s], b2[s]) = Reserved(d[s], b[s])
                                 /\ ToPut(d2[s], b2[s]) = ToPut(d[s], b[s])
      /\ Range(b[t]) \subseteq ToPut(d[t], b[t])
  BY <1>1, RangeOfAppend DEF ToPut, Reserved, TakesNode
<1>4. Arranged(c, q, d2, b2)
  <2>1. ASSUME NEW s \in Threads, NEW i \in Reserved(d2[s], b2[s])
        PROVE  /\ i \in q.shared_out_end..(q.shared_in - 1)
               /\ c[i] = b2[s][i - d2[s].copy_start + 1]
    <3>1. d2[s] = d[s] /\ b2[s] = b[s]
      BY <1>1, <1>3
    <3> QED
      BY <2>1, <3>1 DEF Tidy, Arranged
  <2>2. ASSUME NEW i \in 0..(q.shared_in - 1)
        PROVE  q.shared[i] = c[i] \/ \E s \in Threads : i \in Reserved(d2[s], b2[s])
    BY <1>3 DEF Tidy, Arranged
  <2> QED
    BY <2>1, <2>2 DEF Arranged
<1>5. OnceInAll(c, found, d2, b2)
  <2>1. OnceEach(d2[t], b2[t])
    <3>1. \A k, l \in DOMAIN b[t] : b[t][k] = b[t][l] => k = l
      BY DEF Tidy, OnceInAll, OnceEach, TakesNode
    <3>2. \A k \in DOMAIN b[t] : b[t][k] # v
      BY DEF TakesNode, Range
    <3>3. /\ DOMAIN b2[t] = 1..(Len(b[t]) + 1) /\ DOMAIN b[t] = 1..Len(b[t]) /\ Len(b[t]) \in Nat
          /\ \A k \in DOMAIN b[t] : b2[t][k] = b[t][k]
          /\ b2[t][Len(b[t]) + 1] = v
      BY <1>1, RangeOfAppend
    <3>4. \A k, l \in DOMAIN b2[t] : b2[t][k] = b2[t][l] => k = l
      BY <3>1, <3>2, <3>3
    <3> QED
      BY <3>4 DEF OnceEach
  <2>2. \A s \in Threads : OnceEach(d2[s], b2[s]) /\ ToPut(d2[s], b2[s]) \subseteq Fresh(c, found)
    BY <1>1, <1>3, <2>1 DEF Tidy, OnceInAll, TakesNode
  <2>3. ASSUME NEW r \in Threads, NEW s \in Threads, r # s
        PROVE  ToPut(d2[r], b2[r]) \cap ToPut(d2[s], b2[s]) = {}
    <3>1. ToPut(d[r], b[r]) \cap ToPut(d[s], b[s]) = {}
      BY <2>3 DEF Tidy, OnceInAll
    <3> QED
      BY <1>3, <2>3, <3>1 DEF TakesNode
  <2> QED
    BY <2>2, <2>3 DEF OnceInAll
<1>6. \A s \in Threads : d2[s].step = "copy" => d2[s].copy_start \in Nat
  BY DEF Tidy
<1>7. Tidy(g, c, q, found, d2, b2)
  BY <1>2, <1>4, <1>5, <1>6 DEF Tidy
<1> QED
  BY <1>7 DEF b2

-----------------------------------------------------------------------------
(* A thread reserves room, and copies its buffer there.                    *)

WithReserved(c, q, b, t) ==
  [i \in 0..(q.shared_in + Len(b[t]) - 1) |->
     IF i < q.shared_in THEN c[i] ELSE b[t][i - q.shared_in + 1]]

(* What the array is to be after a step of a flush.                        *)
AfterFlush(c, t) == IF doing[t].step = "reserve" THEN WithReserved(c, queue, lqueue, t) ELSE c

Reserves(q, d, b, t, q2, d2) ==
  /\ d[t].step = "reserve" /\ d2[t].step = "copy"
  /\ d2[t].copy_start = q.shared_in /\ d2[t].pushed = d[t].pushed
  /\ \A s \in Threads \ {t} : d2[s] = d[s]
  /\ q2 = [q EXCEPT !.shared_in = @ + Len(b[t])]

LEMMA TidyWhenReserved ==
  ASSUME NEW g, NEW c, NEW q, NEW found, NEW d, NEW b, Tidy(g, c, q, found, d, b),
         NEW t \in Threads, NEW q2, NEW d2, Reserves(q, d, b, t, q2, d2)
  PROVE  /\ Tidy(g, WithReserved(c, q, b, t), q2, found, d2, b)
         /\ Range(WithReserved(c, q, b, t)) \subseteq Range(c) \cup ToPut(d[t], b[t])
<1> DEFINE n  == q.shared_in
           m  == Len(b[t])
           c2 == WithReserved(c, q, b, t)
<1>0. /\ d[t].step = "reserve" /\ d2[t].step = "copy"
      /\ d2[t].copy_start = q.shared_in /\ d2[t].pushed = d[t].pushed
      /\ \A s \in Threads \ {t} : d2[s] = d[s]
  BY DEF Reserves
<1> USE <1>0
<1>1. /\ q \in Queues(g) /\ n \in Nat /\ b[t] \in Seq(Vertices(g)) /\ m \in Nat
      /\ DOMAIN b[t] = 1..m
      /\ c \in [0..(n - 1) -> found] /\ \A i, j \in 0..(n - 1) : c[i] = c[j] => i = j
      /\ q.shared_out_end \in Nat /\ q.shared_out_end <= n
  BY DEF Tidy, Queues
<1>2. /\ q2 \in Queues(g) /\ q2.shared_in = n + m
      /\ q2.shared = q.shared /\ q2.shared_out_end = q.shared_out_end
  <2>1. q2 = [q EXCEPT !.shared_in = n + m]
    BY DEF Reserves
  <2>2. /\ q \in [shared : [Vertices(g) -> Int], shared_in : Nat, shared_out_start : Nat,
                  shared_out_end : Nat]
        /\ q.shared_out_start <= q.shared_out_end
    BY <1>1 DEF Queues
  <2> HIDE DEF n, m
  <2>3. /\ q2 \in [shared : [Vertices(g) -> Int], shared_in : Nat, shared_out_start : Nat,
                   shared_out_end : Nat]
        /\ q2.shared_in = n + m /\ q2.shared = q.shared
        /\ q2.shared_out_start = q.shared_out_start /\ q2.shared_out_end = q.shared_out_end
    <3>1. n + m \in Nat
      BY <1>1
    <3> DEFINE size == n + m
    <3> HIDE DEF size
    <3>2. size \in Nat /\ q2 = [q EXCEPT !.shared_in = size]
      BY <2>1, <3>1 DEF size
    <3>3. q2.shared_in = size
      BY <2>2, <3>2
    <3>4. /\ q2 \in [shared : [Vertices(g) -> Int], shared_in : Nat, shared_out_start : Nat,
                     shared_out_end : Nat]
          /\ q2.shared = q.shared
          /\ q2.shared_out_start = q.shared_out_start /\ q2.shared_out_end = q.shared_out_end
      BY <2>2, <3>2
    <3> QED
      BY <3>3, <3>4 DEF size
  <2> QED
    BY <1>1, <2>2, <2>3 DEF Queues
<1>3. /\ OnceEach(d[t], b[t]) /\ ToPut(d[t], b[t]) = Handed(d[t]) \cup Range(b[t])
      /\ \A k, l \in 1..m : b[t][k] = b[t][l] => k = l
      /\ \A k \in 1..m : b[t][k] \in Range(b[t])
      /\ Range(b[t]) \subseteq Fresh(c, found)
      /\ Handed(d[t]) \cap Range(b[t]) = {}
  BY <1>1 DEF Tidy, OnceInAll, OnceEach, ToPut, Range
<1>4. /\ DOMAIN c2 = 0..(n + m - 1)
      /\ \A i \in 0..(n - 1) : c2[i] = c[i] /\ i \in 0..(n + m - 1)
      /\ \A i \in n..(n + m - 1) : c2[i] = b[t][i - n + 1] /\ i - n + 1 \in 1..m
      /\ \A i \in 0..(n + m - 1) : i \in 0..(n - 1) \/ i \in n..(n + m - 1)
  BY <1>1 DEF WithReserved
<1>5. c2 \in [0..(n + m - 1) -> found]
  <2>1. \A i \in 0..(n + m - 1) : c2[i] \in found
    <3>1. \A i \in 0..(n - 1) : c2[i] \in found
      BY <1>1, <1>4
    <3>2. \A i \in n..(n + m - 1) : c2[i] \in found
      BY <1>3, <1>4 DEF Fresh
    <3> HIDE DEF c2, n, m
    <3> QED
      BY <1>4, <3>1, <3>2
  <2> QED
    BY <2>1 DEF WithReserved
<1>6. \A i, j \in 0..(n + m - 1) : c2[i] = c2[j] => i = j
  <2>1. \A i \in 0..(n - 1) : c[i] \in Range(c)
    BY <1>1 DEF Range
  <2>2. \A i \in 0..(n - 1) : \A j \in n..(n + m - 1) : c2[i] # c2[j]
    BY <1>3, <1>4, <2>1 DEF Fresh
  <2>3. ASSUME NEW i \in n..(n + m - 1), NEW j \in n..(n + m - 1), c2[i] = c2[j]
        PROVE  i = j
    <3>1. /\ i - n + 1 \in 1..m /\ j - n + 1 \in 1..m
          /\ b[t][i - n + 1] = b[t][j - n + 1]
      BY <1>4, <2>3
    <3>2. i - n + 1 = j - n + 1
      BY <1>3, <3>1
    <3> QED
      BY <1>1, <3>2
  <2>4. \A i, j \in 0..(n - 1) : c2[i] = c2[j] => i = j
    BY <1>1, <1>4
  <2> HIDE DEF c2, n, m
  <2> QED
    BY <1>4, <2>2, <2>3, <2>4
<1>7. Range(c2) \subseteq Range(c) \cup Range(b[t])
  <2>1. \A i \in 0..(n - 1) : c[i] \in Range(c)
    BY <1>1 DEF Range
  <2>2. \A i \in 0..(n + m - 1) : c2[i] \in Range(c) \cup Range(b[t])
    BY <1>3, <1>4, <2>1
  <2> HIDE DEF c2
  <2> QED
    BY <1>4, <2>2 DEF Range
<1> HIDE DEF c2, n, m
<1>8. /\ d2[t].copy_start = n
      /\ ToPut(d2[t], b[t]) = Handed(d[t])
      /\ Reserved(d[t], b[t]) = {}
      /\ \A i \in Reserved(d2[t], b[t]) : i \in n..(n + m - 1)
      /\ \A i \in n..(n + m - 1) : i \in Reserved(d2[t], b[t])
      /\ \A s \in Threads \ {t} : /\ Reserved(d2[s], b[s]) = Reserved(d[s], b[s])
                                 /\ ToPut(d2[s], b[s]) = ToPut(d[s], b[s])
  <2>1. d2[t].copy_start = n
    BY DEF n
  <2>2. ToPut(d2[t], b[t]) = Handed(d[t]) /\ Reserved(d[t], b[t]) = {}
    BY DEF ToPut, Handed, Reserved
  <2>3. \A i \in Reserved(d2[t], b[t]) : i \in n..(n + m - 1)
    BY <1>1, <2>1 DEF Reserved
  <2>4. \A i \in n..(n + m - 1) : i \in Reserved(d2[t], b[t])
    BY <1>1, <2>1 DEF Reserved
  <2> QED
    BY <2>1, <2>2, <2>3, <2>4
<1>9. Arranged(c2, q2, d2, b)
  <2>1. ASSUME NEW i \in 0..(n + m - 1)
        PROVE  q.shared[i] = c2[i] \/ \E s \in Threads : i \in Reserved(d2[s], b[s])
    <3>1. CASE i \in 0..(n - 1)
      <4>1. q.shared[i] = c[i] \/ \E s \in Threads : i \in Reserved(d[s], b[s])
        BY <3>1 DEF Tidy, Arranged, n
      <4> QED
        BY <1>4, <1>8, <3>1, <4>1
    <3> QED
      BY <1>4, <1>8, <3>1
  <2>2. ASSUME NEW s \in Threads, NEW i \in Reserved(d2[s], b[s])
        PROVE  /\ i \in q.shared_out_end..(n + m - 1)
               /\ c2[i] = b[s][i - d2[s].copy_start + 1]
    <3>1. CASE s = t
      BY <1>1, <1>4, <1>8, <3>1
    <3>2. CASE s # t
      <4>1. /\ i \in q.shared_out_end..(n - 1) /\ c[i] = b[s][i - d2[s].copy_start + 1]
        BY <1>8, <2>2, <3>2 DEF Tidy, Arranged, n
      <4> QED
        BY <1>1, <1>4, <4>1
    <3> QED
      BY <3>1, <3>2
  <2> QED
    BY <1>1, <1>2, <2>1, <2>2 DEF Arranged
<1>10. OnceInAll(c2, found, d2, b)
  <2>1. ASSUME NEW s \in Threads
        PROVE  OnceEach(d2[s], b[s]) /\ ToPut(d2[s], b[s]) \subseteq Fresh(c2, found)
    <3>1. CASE s = t
      BY <1>3, <1>7, <1>8, <3>1 DEF OnceEach, Fresh, Tidy, OnceInAll
    <3>2. CASE s # t
      BY <1>3, <1>7, <1>8, <3>2 DEF Fresh, Tidy, OnceInAll
    <3> QED
      BY <3>1, <3>2
  <2>2. ASSUME NEW r \in Threads, NEW s \in Threads, r # s
        PROVE  ToPut(d2[r], b[r]) \cap ToPut(d2[s], b[s]) = {}
    <3>1. ToPut(d[r], b[r]) \cap ToPut(d[s], b[s]) = {}
      BY <2>2 DEF Tidy, OnceInAll
    <3> QED
      BY <1>3, <1>8, <2>2, <3>1
  <2> QED
    BY <2>1, <2>2 DEF OnceInAll
<1>11. \A s \in Threads : d2[s].step = "copy" => d2[s].copy_start \in Nat
  BY <1>1, <1>8 DEF Tidy
<1>12. Tidy(g, c2, q2, found, d2, b)
  BY <1>1, <1>2, <1>5, <1>6, <1>9, <1>10, <1>11 DEF Tidy
<1> QED
  BY <1>3, <1>7, <1>12 DEF c2

WithCopied(q, d, b, t) ==
  [i \in DOMAIN q.shared |->
     IF i - d[t].copy_start + 1 \in DOMAIN b[t]
       THEN b[t][i - d[t].copy_start + 1] ELSE q.shared[i]]

Copies(g, q, d, b, t, q2, d2, b2) ==
  /\ d[t].step = "copy" /\ d[t].pushed \in Vertices(g) \cup {Blank}
  /\ d2[t].step # "copy" /\ Handed(d2[t]) = {}
  /\ \A s \in Threads \ {t} : d2[s] = d[s]
  /\ q2 = [q EXCEPT !.shared = WithCopied(q, d, b, t)]
  /\ b2 = [b EXCEPT ![t] = IF d[t].pushed = Blank THEN << >> ELSE <<d[t].pushed>>]

LEMMA TidyWhenCopied ==
  ASSUME NEW g, IsGraph(g), NEW c, NEW q, NEW found, NEW d, NEW b, Tidy(g, c, q, found, d, b),
         NEW t \in Threads, NEW q2, NEW d2, NEW b2, Copies(g, q, d, b, t, q2, d2, b2)
  PROVE  Tidy(g, c, q2, found, d2, b2)
<1> DEFINE array == WithCopied(q, d, b, t)
<1>0. /\ d[t].step = "copy" /\ d[t].pushed \in Vertices(g) \cup {Blank}
      /\ d2[t].step # "copy" /\ Handed(d2[t]) = {}
      /\ \A s \in Threads \ {t} : d2[s] = d[s]
  BY DEF Copies
<1> USE <1>0
<1>1. /\ q \in Queues(g) /\ q.shared_in \in Nat /\ q.shared \in [Vertices(g) -> Int]
      /\ Vertices(g) \subseteq Int
      /\ b \in [Threads -> Seq(Vertices(g))] /\ d[t].copy_start \in Nat
      /\ 0..(q.shared_in - 1) \subseteq Vertices(g)
  <2>1. 0..(q.shared_in - 1) \subseteq Vertices(g)
    BY TidyFits
  <2>2. /\ q \in Queues(g) /\ q.shared_in \in Nat /\ q.shared \in [Vertices(g) -> Int]
    BY DEF Tidy, Queues
  <2> QED
    BY <2>1, <2>2 DEF Tidy, Vertices
<1>2. /\ b2 \in [Threads -> Seq(Vertices(g))]
      /\ b2[t] = IF d[t].pushed = Blank THEN << >> ELSE <<d[t].pushed>>
      /\ \A s \in Threads \ {t} : b2[s] = b[s]
  <2>1. b2 = [b EXCEPT ![t] = IF d[t].pushed = Blank THEN << >> ELSE <<d[t].pushed>>]
    BY DEF Copies
  <2> QED
    BY <1>1, <2>1
<1>3. array \in [Vertices(g) -> Int]
  <2>1. \A k \in DOMAIN b[t] : b[t][k] \in Int
    BY <1>1
  <2> QED
    BY <1>1, <2>1 DEF WithCopied
<1>4. /\ q2 \in Queues(g) /\ q2.shared = array
      /\ q2.shared_in = q.shared_in /\ q2.shared_out_end = q.shared_out_end
  <2>1. q2 = [q EXCEPT !.shared = array]
    BY DEF Copies
  <2> HIDE DEF array
  <2> QED
    BY <1>1, <1>3, <2>1 DEF Queues
<1>5. /\ \A i \in Reserved(d[t], b[t]) :
           i \in 0..(q.shared_in - 1) => array[i] = b[t][i - d[t].copy_start + 1]
      /\ \A i \in 0..(q.shared_in - 1) : i \notin Reserved(d[t], b[t]) => array[i] = q.shared[i]
  BY <1>1 DEF Reserved, WithCopied
<1> HIDE DEF array
<1>6. Handed(d[t]) = Range(b2[t]) /\ \A k, l \in DOMAIN b2[t] : k = l
  <2>1. Handed(d[t]) = {d[t].pushed} \ {Blank}
    BY DEF Handed
  <2>2. CASE d[t].pushed = Blank
    BY <1>2, <2>1, <2>2 DEF Range
  <2>3. CASE d[t].pushed # Blank
    <3>1. b2[t] = <<d[t].pushed>>
      BY <1>2, <2>3
    <3>2. DOMAIN b2[t] = {1} /\ b2[t][1] = d[t].pushed
      BY <3>1
    <3> QED
      BY <2>1, <2>3, <3>2 DEF Range
  <2> QED
    BY <2>2, <2>3
<1>7. /\ ToPut(d2[t], b2[t]) = Handed(d[t])
      /\ ToPut(d[t], b[t]) = Handed(d[t])
      /\ Reserved(d2[t], b2[t]) = {}
      /\ \A s \in Threads \ {t} : /\ Reserved(d2[s], b2[s]) = Reserved(d[s], b[s])
                                 /\ ToPut(d2[s], b2[s]) = ToPut(d[s], b[s])
  BY <1>2, <1>6 DEF ToPut, Reserved
<1>8. Arranged(c, q2, d2, b2)
  <2>1. ASSUME NEW i \in 0..(q.shared_in - 1)
        PROVE  array[i] = c[i] \/ \E s \in Threads : i \in Reserved(d2[s], b2[s])
    <3>1. CASE i \in Reserved(d[t], b[t])
      BY <1>5, <3>1 DEF Tidy, Arranged
    <3>2. CASE i \notin Reserved(d[t], b[t])
      <4>1. \/ q.shared[i] = c[i]
            \/ \E s \in Threads \ {t} : i \in Reserved(d[s], b[s])
        BY <3>2 DEF Tidy, Arranged
      <4> QED
        BY <1>5, <1>7, <3>2, <4>1
    <3> QED
      BY <3>1, <3>2
  <2>2. ASSUME NEW s \in Threads, NEW i \in Reserved(d2[s], b2[s])
        PROVE  /\ i \in q.shared_out_end..(q.shared_in - 1)
               /\ c[i] = b2[s][i - d2[s].copy_start + 1]
    <3>1. s # t
      BY <1>7
    <3>2. d2[s] = d[s] /\ b2[s] = b[s]
      BY <1>2, <3>1
    <3> QED
      BY <2>2, <3>2 DEF Tidy, Arranged
  <2> QED
    BY <1>1, <1>4, <2>1, <2>2 DEF Arranged
<1>9. OnceInAll(c, found, d2, b2)
  <2>1. OnceEach(d2[t], b2[t])
    BY <1>6 DEF OnceEach
  <2>2. \A s \in Threads : OnceEach(d2[s], b2[s]) /\ ToPut(d2[s], b2[s]) \subseteq Fresh(c, found)
    BY <1>2, <1>7, <2>1 DEF Tidy, OnceInAll
  <2>3. ASSUME NEW r \in Threads, NEW s \in Threads, r # s
        PROVE  ToPut(d2[r], b2[r]) \cap ToPut(d2[s], b2[s]) = {}
    BY <1>7, <2>3 DEF Tidy, OnceInAll
  <2> QED
    BY <2>2, <2>3 DEF OnceInAll
<1>10. \A s \in Threads : d2[s].step = "copy" => d2[s].copy_start \in Nat
  BY DEF Tidy
<1> QED
  BY <1>1, <1>2, <1>4, <1>8, <1>9, <1>10 DEF Tidy

-----------------------------------------------------------------------------
(* The queue of a search that begins, and the window that slides.          *)

LEMMA TidyWhenSlid ==
  ASSUME NEW g, NEW c, NEW q, NEW found, NEW d, NEW b, Tidy(g, c, q, found, d, b),
         \A t \in Threads : d[t] = Idle
  PROVE  Tidy(g, c, slide_window(q), found, d, b)
<1> DEFINE q2 == slide_window(q)
<1>1. q2 \in Queues(g) /\ q2.shared = q.shared /\ q2.shared_in = q.shared_in
      /\ q2.shared_out_end = q.shared_in
  <2>1. /\ q \in [shared : [Vertices(g) -> Int], shared_in : Nat, shared_out_start : Nat,
                  shared_out_end : Nat]
        /\ q.shared_out_end <= q.shared_in
    BY DEF Tidy, Queues
  <2>2. /\ q2 \in [shared : [Vertices(g) -> Int], shared_in : Nat, shared_out_start : Nat,
                   shared_out_end : Nat]
        /\ q2.shared = q.shared /\ q2.shared_in = q.shared_in
        /\ q2.shared_out_start = q.shared_out_end /\ q2.shared_out_end = q.shared_in
    BY <2>1 DEF slide_window
  <2> HIDE DEF q2
  <2> QED
    BY <2>1, <2>2 DEF Queues
<1>2. \A t \in Threads : Reserved(d[t], b[t]) = {}
  BY DEF Reserved, Idle
<1> HIDE DEF q2
<1>3. Arranged(c, q2, d, b)
  BY <1>1, <1>2 DEF Tidy, Arranged
<1>4. Tidy(g, c, q2, found, d, b)
  BY <1>1, <1>3 DEF Tidy
<1> QED
  BY <1>4 DEF q2

LEMMA NewQueues ==
  ASSUME NEW g, IsGraph(g)
  PROVE  /\ EmptyQueue(g.num_nodes) \in Queues(g) /\ EmptyQueue(g.num_nodes).shared_in = 0
         /\ \A q \in Queues(g) : ResetQueue(q) \in Queues(g) /\ ResetQueue(q).shared_in = 0
<1>1. EmptyQueue(g.num_nodes) \in Queues(g) /\ EmptyQueue(g.num_nodes).shared_in = 0
  <2>1. [i \in 0..(g.num_nodes - 1) |-> Blank] \in [Vertices(g) -> Int]
    BY DEF Vertices, Blank
  <2> QED
    BY <2>1 DEF EmptyQueue, Queues
<1>2. ASSUME NEW q \in Queues(g)
      PROVE  ResetQueue(q) \in Queues(g) /\ ResetQueue(q).shared_in = 0
  <2> DEFINE r == ResetQueue(q)
  <2>1. q \in [shared : [Vertices(g) -> Int], shared_in : Nat, shared_out_start : Nat,
               shared_out_end : Nat]
    BY DEF Queues
  <2>2. /\ r \in [shared : [Vertices(g) -> Int], shared_in : Nat, shared_out_start : Nat,
                  shared_out_end : Nat]
        /\ r.shared_in = 0 /\ r.shared_out_start = 0 /\ r.shared_out_end = 0
    BY <2>1 DEF ResetQueue
  <2> HIDE DEF r
  <2>3. r \in Queues(g) /\ r.shared_in = 0
    BY <2>2 DEF Queues
  <2> QED
    BY <2>3 DEF r
<1> QED
  BY <1>1, <1>2

LEMMA TidyWhenBegun ==
  ASSUME NEW g, IsGraph(g), NEW source \in Vertices(g), NEW found, source \in found,
         found \subseteq Vertices(g),
         NEW d, \A t \in Threads : d[t] = Idle,
         NEW empty0 \in Queues(g), empty0.shared_in = 0
  PROVE  Tidy(g, [i \in 0..0 |-> source], slide_window(push_back(empty0, source)), found, d, NoBuffers)
<1> DEFINE c  == [i \in 0..0 |-> source]
           R  == [shared : [Vertices(g) -> Int], shared_in : Nat, shared_out_start : Nat,
                  shared_out_end : Nat]
           q1 == push_back(empty0, source)
           q  == slide_window(q1)
<1>1. 0 \in Vertices(g) /\ source \in Int
  BY DEF Vertices, IsGraph
<1>2. /\ empty0 \in R /\ empty0.shared_in = 0 /\ empty0.shared_out_end = 0
  BY DEF Queues
<1>3. /\ q1 \in R /\ q1.shared_in = 1 /\ q1.shared_out_end = 0 /\ q1.shared[0] = source
  <2> DEFINE array == [empty0.shared EXCEPT ![0] = source]
  <2>1. array \in [Vertices(g) -> Int] /\ array[0] = source
    BY <1>1, <1>2
  <2>2. q1 = [empty0 EXCEPT !.shared = array, !.shared_in = 1]
    BY <1>2 DEF push_back
  <2> HIDE DEF array, q1
  <2> QED
    BY <1>2, <2>1, <2>2
<1> HIDE DEF q1
<1>4. /\ q \in R /\ q.shared[0] = source /\ q.shared_in = 1
      /\ q.shared_out_start = 0 /\ q.shared_out_end = 1
  BY <1>3 DEF slide_window
<1> HIDE DEF q
<1>5. q \in Queues(g)
  BY <1>4 DEF Queues
<1>6. /\ 0..(q.shared_in - 1) = {0} /\ 0..0 = {0}
  BY <1>4
<1>7. /\ c \in [0..(q.shared_in - 1) -> found]
      /\ \A i, j \in 0..(q.shared_in - 1) : c[i] = c[j] => i = j
      /\ c[0] = source
  BY <1>6
<1> HIDE DEF c
<1>8. /\ NoBuffers \in [Threads -> Seq(Vertices(g))]
      /\ \A t \in Threads : NoBuffers[t] = << >>
  BY DEF NoBuffers
<1>9. \A t \in Threads : /\ Reserved(d[t], NoBuffers[t]) = {}
                         /\ ToPut(d[t], NoBuffers[t]) = {}
                         /\ OnceEach(d[t], NoBuffers[t])
                         /\ d[t].step # "copy"
  BY <1>8 DEF Reserved, ToPut, Handed, OnceEach, Idle, Range
<1>10. Arranged(c, q, d, NoBuffers)
  BY <1>4, <1>6, <1>7, <1>9 DEF Arranged
<1>11. OnceInAll(c, found, d, NoBuffers)
  BY <1>9 DEF OnceInAll
<1>12. Tidy(g, c, q, found, d, NoBuffers)
  BY <1>5, <1>7, <1>8, <1>9, <1>10, <1>11 DEF Tidy
<1> QED
  BY <1>12 DEF c, q, q1

-----------------------------------------------------------------------------
(* What every region of a search does with the queue.                      *)

Found(g, p) == {n \in Vertices(g) : p[n] >= 0}

LEMMA EmptyHands ==
  ASSUME NEW d
  PROVE  d.step \notin {"reserve", "copy", "push"} => Handed(d) = {} /\ d.step # "copy"
BY DEF Handed

LEMMA NeighboursAreNodes ==
  ASSUME NEW g, IsGraph(g), NEW u \in Vertices(g)
  PROVE  out_neigh(g, u) \in Seq(Vertices(g)) /\ in_neigh(g, u) \in Seq(Vertices(g))
BY NeighboursAreNear DEF Near

(* Going on, in any region, with nothing in hand: the queue stays tidy.    *)
LEMMA TidyWhenProceeding ==
  ASSUME NEW c, NEW t \in Threads, NEW next, NEW found, NEW found2,
         DOMAIN doing = Threads,
         Tidy(graph, c, queue, found, doing, lqueue),
         found \subseteq found2, found2 \subseteq Vertices(graph),
         doing[t].step # "copy", next.step # "copy", Handed(next) \subseteq Handed(doing[t]),
         doing' = [doing EXCEPT ![t] = next]
  PROVE  Tidy(graph, c, queue, found2, doing', lqueue)
<1>1. doing'[t] = next /\ \A s \in Threads \ {t} : doing'[s] = doing[s]
  OBVIOUS
<1> QED
  BY <1>1, TidyWhenQuiet

(* Push, of a node just found or handed.                                   *)
Pushes(d, b, t, v, next, d2, b2) ==
  \/ d2 = [d EXCEPT ![t] = [step |-> "reserve", pushed |-> v, next |-> next]] /\ b2 = b
  \/ d2 = [d EXCEPT ![t] = next] /\ b2 = [b EXCEPT ![t] = Append(b[t], v)]

LEMMA TidyWhenPushed ==
  ASSUME NEW g, NEW c, NEW q, NEW found, NEW d, NEW b, Tidy(g, c, q, found, d, b),
         DOMAIN d = Threads, NEW t \in Threads, NEW v, TakesNode(c, found, d, b, t, v),
         NEW next, next.step \notin {"reserve", "copy", "push"},
         NEW d2, NEW b2, Pushes(d, b, t, v, next, d2, b2)
  PROVE  Tidy(g, c, q, found, d2, b2)
<1>1. /\ b \in [Threads -> Seq(Vertices(g))]
      /\ Handed(next) = {} /\ next.step # "copy"
  BY EmptyHands DEF Tidy
<1>2. CASE /\ d2 = [d EXCEPT ![t] = [step |-> "reserve", pushed |-> v, next |-> next]]
           /\ b2 = b
  <2> DEFINE e == [step |-> "reserve", pushed |-> v, next |-> next]
  <2>1. e.step = "reserve" /\ e.pushed = v
    OBVIOUS
  <2>2. Handed(e) \subseteq {v} /\ e.step # "copy"
    BY <2>1 DEF Handed
  <2> HIDE DEF e
  <2>3. d2[t] = e /\ \A s \in Threads \ {t} : d2[s] = d[s]
    BY <1>2 DEF e
  <2> QED
    BY <1>2, <2>2, <2>3, TidyWhenHanded
<1>3. CASE /\ d2 = [d EXCEPT ![t] = next]
           /\ b2 = [b EXCEPT ![t] = Append(b[t], v)]
  <2>1. d2[t] = next /\ \A s \in Threads \ {t} : d2[s] = d[s]
    BY <1>3
  <2> QED
    BY <1>1, <1>3, <2>1, TidyWhenAppended
<1> QED
  BY <1>2, <1>3 DEF Pushes

(* A flush: room is reserved, and the buffer is copied there.              *)
FlushMoves(c, c2, t) ==
  /\ UNCHANGED <<region, todo>>
  /\ \/ /\ doing[t].step = "reserve" /\ UNCHANGED lqueue
        /\ doing' = [doing EXCEPT ![t] =
             [step |-> "copy", pushed |-> doing[t].pushed,
              next |-> doing[t].next, copy_start |-> queue.shared_in]]
        /\ Range(c2) \subseteq Range(c) \cup ToPut(doing[t], lqueue[t])
     \/ /\ doing[t].step = "copy" /\ c2 = c
        /\ doing' = [doing EXCEPT ![t] = doing[t].next]
  /\ queue'.shared_out_end = queue.shared_out_end
  /\ \A s \in Threads : ToPut(doing'[s], lqueue'[s]) \subseteq ToPut(doing[s], lqueue[s])
  /\ c2 = AfterFlush(c, t)

LEMMA TidyWhenFlushing ==
  ASSUME NEW c, NEW t \in Threads, NEW found,
         IsGraph(graph), DOMAIN doing = Threads,
         Tidy(graph, c, queue, found, doing, lqueue),
         doing[t].step \in {"reserve", "copy"} =>
           /\ doing[t].pushed \in Vertices(graph) \cup {Blank}
           /\ doing[t].next.step \notin {"reserve", "copy", "push"},
         Flushing(t)
  PROVE  \E c2 : /\ Tidy(graph, c2, queue', found, doing', lqueue')
                 /\ FlushMoves(c, c2, t)
<1>1. /\ lqueue \in [Threads -> Seq(Vertices(graph))] /\ queue \in Queues(graph)
  BY DEF Tidy
<1>2. CASE Reserve(t)
  <2> DEFINE d  == [step |-> "copy", pushed |-> doing[t].pushed, next |-> doing[t].next,
                    copy_start |-> queue.shared_in]
             c2 == WithReserved(c, queue, lqueue, t)
  <2>1. /\ doing[t].step = "reserve"
        /\ doing' = [doing EXCEPT ![t] = d] /\ UNCHANGED <<region, todo, lqueue>>
        /\ queue' = [queue EXCEPT !.shared_in = @ + Len(lqueue[t])]
    BY <1>2 DEF Reserve, Proceed
  <2>2. d.step = "copy" /\ d.pushed = doing[t].pushed /\ d.copy_start = queue.shared_in
    OBVIOUS
  <2> HIDE DEF d, c2
  <2>3. doing'[t] = d /\ \A s \in Threads \ {t} : doing'[s] = doing[s]
    BY <2>1
  <2>4. /\ Tidy(graph, c2, queue', found, doing', lqueue)
        /\ Range(c2) \subseteq Range(c) \cup ToPut(doing[t], lqueue[t])
    <3>1. Reserves(queue, doing, lqueue, t, queue', doing')
      BY <2>1, <2>2, <2>3 DEF Reserves
    <3> QED
      BY <3>1, TidyWhenReserved DEF c2
  <2>5. queue'.shared_out_end = queue.shared_out_end
    BY <1>1, <2>1 DEF Queues
  <2>6. \A s \in Threads : ToPut(doing'[s], lqueue'[s]) \subseteq ToPut(doing[s], lqueue[s])
    BY <2>1, <2>2, <2>3 DEF ToPut, Handed
  <2>7. c2 = AfterFlush(c, t)
    BY <2>1 DEF c2, AfterFlush
  <2>8. FlushMoves(c, c2, t)
    BY <2>1, <2>4, <2>5, <2>6, <2>7 DEF d, FlushMoves
  <2> QED
    BY <2>1, <2>4, <2>8
<1>3. CASE Copy(t)
  <2>1. /\ doing[t].step = "copy"
        /\ doing' = [doing EXCEPT ![t] = doing[t].next] /\ UNCHANGED <<region, todo>>
        /\ queue' = [queue EXCEPT !.shared = WithCopied(queue, doing, lqueue, t)]
        /\ lqueue' = [lqueue EXCEPT ![t] =
                        IF doing[t].pushed = Blank THEN << >> ELSE <<doing[t].pushed>>]
    BY <1>3 DEF Copy, Copied, WithCopied, Proceed
  <2>2. /\ doing'[t] = doing[t].next /\ \A s \in Threads \ {t} : doing'[s] = doing[s]
        /\ \A s \in Threads \ {t} : lqueue'[s] = lqueue[s]
    BY <1>1, <2>1
  <2>3. Handed(doing'[t]) = {} /\ doing'[t].step # "copy"
    BY <2>1, <2>2, EmptyHands
  <2>4. Copies(graph, queue, doing, lqueue, t, queue', doing', lqueue')
    BY <2>1, <2>2, <2>3 DEF Copies
  <2>5. Tidy(graph, c, queue', found, doing', lqueue')
    BY <2>4, TidyWhenCopied
  <2>6. queue'.shared_out_end = queue.shared_out_end
    BY <1>1, <2>1 DEF Queues
  <2>7. ToPut(doing'[t], lqueue'[t]) \subseteq ToPut(doing[t], lqueue[t])
    <3>1. lqueue'[t] = IF doing[t].pushed = Blank THEN << >> ELSE <<doing[t].pushed>>
      BY <1>1, <2>1
    <3>2. Range(lqueue'[t]) \subseteq {doing[t].pushed} \ {Blank}
      <4>1. CASE doing[t].pushed = Blank
        BY <3>1, <4>1 DEF Range
      <4>2. CASE doing[t].pushed # Blank
        <5>1. lqueue'[t] = <<doing[t].pushed>>
          BY <3>1, <4>2
        <5>2. DOMAIN lqueue'[t] = {1} /\ lqueue'[t][1] = doing[t].pushed
          BY <5>1
        <5> QED
          BY <4>2, <5>2 DEF Range
      <4> QED
        BY <4>1, <4>2
    <3>3. ToPut(doing'[t], lqueue'[t]) = Range(lqueue'[t])
      BY <2>3 DEF ToPut
    <3>4. {doing[t].pushed} \ {Blank} \subseteq ToPut(doing[t], lqueue[t])
      BY <2>1 DEF ToPut, Handed
    <3> QED
      BY <3>2, <3>3, <3>4
  <2>8. \A s \in Threads : ToPut(doing'[s], lqueue'[s]) \subseteq ToPut(doing[s], lqueue[s])
    BY <2>2, <2>7
  <2>9. c = AfterFlush(c, t)
    BY <2>1 DEF AfterFlush
  <2>10. FlushMoves(c, c, t)
    BY <2>1, <2>6, <2>8, <2>9 DEF FlushMoves
  <2> QED
    BY <2>5, <2>10
<1> QED
  BY <1>2, <1>3 DEF Flushing

FlushState(g, nexts) ==
  [step : {"reserve"}, pushed : Vertices(g) \cup {Blank}, next : nexts]
    \cup [step : {"copy"}, pushed : Vertices(g) \cup {Blank}, next : nexts, copy_start : Nat]

LEMMA FlushStates ==
  ASSUME NEW g, NEW nexts, NEW d \in FlushState(g, nexts)
  PROVE  /\ d.step \in {"reserve", "copy"}
         /\ d.pushed \in Vertices(g) \cup {Blank} /\ d.next \in nexts
         /\ \A k \in Nat : [step |-> "copy", pushed |-> d.pushed, next |-> d.next, copy_start |-> k]
                             \in FlushState(g, nexts)
BY DEF FlushState

(* The states of the threads of a region that fills the queue, and those   *)
(* that a flush may go back to.                                            *)
Fills(state, nexts) ==
  /\ Idle \in nexts /\ nexts \subseteq state /\ FlushState(graph, nexts) \subseteq state
  /\ \A d \in nexts : d.step \notin {"reserve", "copy", "push"}
  /\ \A d \in state : d.step \in {"reserve", "copy"} => d \in FlushState(graph, nexts)

LEMMA TidyWhenFlushed ==
  ASSUME NEW c, NEW t \in Threads, NEW found, NEW state, NEW nexts, Fills(state, nexts),
         IsGraph(graph), Tidy(graph, c, queue, found, doing, lqueue),
         doing \in [Threads -> state], FlushAtEnd(t) \/ Flushing(t)
  PROVE  \E c2 : /\ Tidy(graph, c2, queue', found, doing', lqueue')
                 /\ doing' \in [Threads -> state] /\ UNCHANGED <<region, todo>>
                 /\ queue'.shared_out_end = queue.shared_out_end
                 /\ Range(c2) \subseteq Range(c) \cup ToPut(doing[t], lqueue[t])
                 /\ \A s \in Threads : ToPut(doing'[s], lqueue'[s]) \subseteq ToPut(doing[s], lqueue[s])
                 /\ c2 = AfterFlush(c, t)
<1>1. /\ Idle \in nexts /\ nexts \subseteq state /\ FlushState(graph, nexts) \subseteq state
      /\ \A d \in nexts : d.step \notin {"reserve", "copy", "push"}
      /\ \A d \in state : d.step \in {"reserve", "copy"} => d \in FlushState(graph, nexts)
      /\ DOMAIN doing = Threads /\ found \subseteq Vertices(graph)
  BY DEF Fills, Tidy
<1>2. CASE FlushAtEnd(t)
  <2>1. PICK next : next = [step |-> "reserve", pushed |-> Blank, next |-> Idle]
    OBVIOUS
  <2>2. /\ doing[t] = Idle /\ doing' = [doing EXCEPT ![t] = next] /\ todo' = todo
        /\ UNCHANGED <<queue, lqueue>> /\ region' = region
    BY <1>2, <2>1 DEF FlushAtEnd, Proceed, queueVars
  <2>3. Handed(next) = {} /\ next.step # "copy" /\ Idle.step # "copy"
    BY <2>1 DEF Handed, Idle
  <2>4. next \in state
    BY <1>1, <2>1 DEF FlushState
  <2>5. Tidy(graph, c, queue, found, doing', lqueue)
    BY <1>1, <2>2, <2>3, TidyWhenProceeding
  <2>6. doing' \in [Threads -> state]
    BY <1>1, <2>2, <2>4
  <2>7. /\ doing'[t] = next /\ \A s \in Threads \ {t} : doing'[s] = doing[s]
    BY <1>1, <2>2
  <2>8. \A s \in Threads : ToPut(doing'[s], lqueue'[s]) \subseteq ToPut(doing[s], lqueue[s])
    BY <2>2, <2>3, <2>7 DEF ToPut
  <2>9. c = AfterFlush(c, t)
    BY <2>2 DEF Idle, AfterFlush
  <2> QED
    BY <2>2, <2>5, <2>6, <2>8, <2>9
<1>3. CASE Flushing(t)
  <2>1. /\ doing[t].step \in {"reserve", "copy"}
        /\ doing[t] \in FlushState(graph, nexts)
    BY <1>1, <1>3 DEF Flushing, Reserve, Copy
  <2>2. doing[t].pushed \in Vertices(graph) \cup {Blank} /\ doing[t].next \in nexts
    BY <2>1, FlushStates
  <2>3. PICK c2 :
          Tidy(graph, c2, queue', found, doing', lqueue') /\ FlushMoves(c, c2, t)
    BY <1>1, <1>3, <2>2, TidyWhenFlushing
  <2>4. PICK copying : copying = [step |-> "copy", pushed |-> doing[t].pushed,
                                  next |-> doing[t].next, copy_start |-> queue.shared_in]
    OBVIOUS
  <2>5. copying \in state /\ doing[t].next \in state
    <3>1. queue.shared_in \in Nat
      BY DEF Tidy, Queues
    <3> QED
      BY <1>1, <2>1, <2>2, <2>4, <3>1, FlushStates
  <2>6. doing' \in [Threads -> state]
    BY <1>1, <2>3, <2>4, <2>5 DEF FlushMoves
  <2>7. Range(c2) \subseteq Range(c) \cup ToPut(doing[t], lqueue[t])
    BY <2>3 DEF FlushMoves
  <2> QED
    BY <2>3, <2>6, <2>7 DEF FlushMoves
<1> QED
  BY <1>2, <1>3

(* What is behind the window, and what is on its way there.                *)
Behind(c) == {c[i] : i \in queue.shared_out_end..(queue.shared_in - 1)}

AboutToPut == UNION {ToPut(doing[t], lqueue[t]) : t \in Threads}

(* The visit a thread makes, or goes back to after a flush.                *)
VisitOf(d) == IF d.step \in {"reserve", "copy"} THEN d.next ELSE d

(* A flush moves no visit, and the room behind the window grows by what    *)
(* leaves the buffer.                                                      *)
LEMMA FlushMovesOn ==
  ASSUME NEW c, NEW t \in Threads, NEW found, Tidy(graph, c, queue, found, doing, lqueue),
         DOMAIN doing = Threads,
         doing[t].step \in {"reserve", "copy"} =>
           /\ doing[t].pushed \in Vertices(graph) \cup {Blank}
           /\ Handed(doing[t].next) = {} /\ doing[t].next.step \notin {"reserve", "copy"},
         FlushAtEnd(t) \/ Flushing(t), NEW c2, c2 = AfterFlush(c, t)
  PROVE  /\ queue'.shared_out_start = queue.shared_out_start
         /\ queue'.shared_out_end = queue.shared_out_end
         /\ \A s \in Threads : VisitOf(doing'[s]) = VisitOf(doing[s])
         /\ \A i \in 0..(queue.shared_in - 1) : c2[i] = c[i]
         /\ Behind(c2)' \cup AboutToPut' = Behind(c) \cup AboutToPut
<1>1. FlushAtEnd(t) \/ Reserve(t) \/ Copy(t)
  BY DEF Flushing
<1>2. /\ queue.shared_in \in Nat /\ queue.shared_out_start \in Nat
      /\ queue.shared_out_end \in Nat
      /\ queue.shared_out_start <= queue.shared_out_end
      /\ queue.shared_out_end <= queue.shared_in
      /\ DOMAIN doing = Threads
  BY DEF Tidy, Queues
<1>3. lqueue \in [Threads -> Seq(Vertices(graph))] /\ queue \in Queues(graph)
  BY DEF Tidy
<1>4. PICK d : d = doing[t]
  OBVIOUS
<1>5. d.step \in {"reserve", "copy"} =>
        /\ d.pushed \in Vertices(graph) \cup {Blank}
        /\ Handed(d.next) = {} /\ d.next.step \notin {"reserve", "copy"}
  BY <1>4
<1>6. /\ \A n : n \in AboutToPut <=> \E s \in Threads : n \in ToPut(doing[s], lqueue[s])
      /\ \A n : n \in AboutToPut' <=> \E s \in Threads : n \in ToPut(doing'[s], lqueue'[s])
  BY DEF AboutToPut
<1>7. CASE FlushAtEnd(t)
  <2>1. PICK e : e = [step |-> "reserve", pushed |-> Blank, next |-> Idle]
    OBVIOUS
  <2>2. d = Idle /\ doing' = [doing EXCEPT ![t] = e] /\ UNCHANGED <<queue, lqueue>>
    BY <1>4, <1>7, <2>1 DEF FlushAtEnd, Proceed, queueVars
  <2>3. doing'[t] = e /\ \A s \in Threads \ {t} : doing'[s] = doing[s]
    BY <1>2, <2>2
  <2>4. VisitOf(e) = Idle /\ VisitOf(Idle) = Idle
    BY <2>1 DEF VisitOf, Idle
  <2>5. ToPut(e, lqueue[t]) = ToPut(Idle, lqueue[t])
    BY <2>1 DEF ToPut, Handed, Idle
  <2>6. \A s \in Threads : ToPut(doing'[s], lqueue'[s]) = ToPut(doing[s], lqueue[s])
    BY <1>4, <2>2, <2>3, <2>5
  <2>7. c2 = c
    BY <1>4, <2>2 DEF Idle, AfterFlush
  <2>8. Behind(c2)' = Behind(c)
    BY <2>2, <2>7 DEF Behind
  <2> QED BY <1>4, <1>6, <2>2, <2>3, <2>4, <2>6, <2>7, <2>8
<1>8. CASE Reserve(t)
  <2>1. PICK e : e = [step |-> "copy", pushed |-> d.pushed, next |-> d.next,
                      copy_start |-> queue.shared_in]
    OBVIOUS
  <2>2. /\ d.step = "reserve" /\ doing' = [doing EXCEPT ![t] = e] /\ lqueue' = lqueue
        /\ queue' = [queue EXCEPT !.shared_in = @ + Len(lqueue[t])]
    BY <1>4, <1>8, <2>1 DEF Reserve, Proceed
  <2>3. doing'[t] = e /\ \A s \in Threads \ {t} : doing'[s] = doing[s]
    BY <1>2, <2>2
  <2>4. VisitOf(e) = VisitOf(d)
    BY <2>1, <2>2 DEF VisitOf
  <2>5. /\ ToPut(d, lqueue[t]) = ({d.pushed} \ {Blank}) \cup Range(lqueue[t])
        /\ ToPut(e, lqueue[t]) = {d.pushed} \ {Blank}
    BY <2>1, <2>2 DEF ToPut, Handed
  <2>6. /\ queue'.shared_out_start = queue.shared_out_start
        /\ queue'.shared_out_end = queue.shared_out_end
        /\ queue'.shared_in = queue.shared_in + Len(lqueue[t])
    BY <1>3, <2>2 DEF Queues
  <2>7. Len(lqueue[t]) \in Nat /\ DOMAIN lqueue[t] = 1..Len(lqueue[t])
    BY <1>3, LenProperties
  <2>8. /\ \A i \in 0..(queue.shared_in - 1) : c2[i] = c[i]
        /\ \A i \in queue.shared_in..(queue'.shared_in - 1) :
             c2[i] = lqueue[t][i - queue.shared_in + 1]
    BY SMTT(30), <1>2, <1>4, <2>2, <2>6, <2>7 DEF WithReserved, AfterFlush
  <2>9. Behind(c2)' = Behind(c) \cup Range(lqueue[t])
    <3>1. ASSUME NEW n \in Behind(c2)' PROVE n \in Behind(c) \cup Range(lqueue[t])
      <4>1. PICK i \in queue.shared_out_end..(queue'.shared_in - 1) : n = c2[i]
        BY <2>6 DEF Behind
      <4>2. CASE i < queue.shared_in
        BY <1>2, <2>8, <4>1, <4>2 DEF Behind
      <4>3. CASE i >= queue.shared_in
        <5>1. i - queue.shared_in + 1 \in DOMAIN lqueue[t]
          BY <1>2, <2>6, <2>7, <4>1, <4>3
        <5>2. c2[i] = lqueue[t][i - queue.shared_in + 1]
          BY <1>2, <2>6, <2>7, <2>8, <4>1, <4>3
        <5> QED BY <4>1, <5>1, <5>2 DEF Range
      <4> QED BY <1>2, <4>1, <4>2, <4>3
    <3>2. ASSUME NEW n \in Behind(c) PROVE n \in Behind(c2)'
      <4>1. PICK i \in queue.shared_out_end..(queue.shared_in - 1) : n = c[i]
        BY DEF Behind
      <4>2. i \in 0..(queue.shared_in - 1) /\ i \in queue.shared_out_end..(queue'.shared_in - 1)
        BY <1>2, <2>6, <2>7, <4>1
      <4> QED BY <2>6, <2>8, <4>1, <4>2 DEF Behind
    <3>3. ASSUME NEW n \in Range(lqueue[t]) PROVE n \in Behind(c2)'
      <4>1. PICK k \in 1..Len(lqueue[t]) : n = lqueue[t][k]
        BY <2>7 DEF Range
      <4>2. PICK i : i = queue.shared_in + k - 1
        OBVIOUS
      <4>3. /\ i \in queue.shared_in..(queue'.shared_in - 1) /\ i - queue.shared_in + 1 = k
            /\ i \in queue.shared_out_end..(queue'.shared_in - 1)
        BY <1>2, <2>6, <2>7, <4>1, <4>2
      <4> QED BY <2>6, <2>8, <4>1, <4>3 DEF Behind
    <3> QED BY <3>1, <3>2, <3>3
  <2>10. AboutToPut' \cup Range(lqueue[t]) = AboutToPut
    BY <1>4, <1>6, <2>2, <2>3, <2>5
  <2> QED BY <1>4, <2>3, <2>4, <2>6, <2>8, <2>9, <2>10
<1>9. CASE Copy(t)
  <2>1. /\ d.step = "copy" /\ doing' = [doing EXCEPT ![t] = d.next]
        /\ queue' = [queue EXCEPT !.shared = Copied(t, d.copy_start)]
        /\ lqueue' = [lqueue EXCEPT ![t] = IF d.pushed = Blank THEN << >> ELSE <<d.pushed>>]
    BY <1>4, <1>9 DEF Copy, Proceed
  <2>2. /\ doing'[t] = d.next /\ lqueue'[t] = IF d.pushed = Blank THEN << >> ELSE <<d.pushed>>
        /\ \A s \in Threads \ {t} : doing'[s] = doing[s] /\ lqueue'[s] = lqueue[s]
    BY <1>2, <1>3, <2>1
  <2>3. VisitOf(d.next) = VisitOf(d)
    BY <1>5, <2>1 DEF VisitOf
  <2>4. Range(lqueue'[t]) = {d.pushed} \ {Blank}
    <3>1. CASE d.pushed = Blank
      BY <2>2, <3>1 DEF Range
    <3>2. CASE d.pushed # Blank
      <4>1. DOMAIN lqueue'[t] = {1} /\ lqueue'[t][1] = d.pushed
        BY <2>2, <3>2
      <4> QED BY <3>2, <4>1 DEF Range
    <3> QED BY <3>1, <3>2
  <2>5. ToPut(d.next, lqueue'[t]) = ToPut(d, lqueue[t])
    <3>1. ToPut(d, lqueue[t]) = {d.pushed} \ {Blank}
      BY <2>1 DEF ToPut, Handed
    <3>2. ToPut(d.next, lqueue'[t]) = Range(lqueue'[t])
      BY <1>5, <2>1 DEF ToPut
    <3> QED BY <2>4, <3>1, <3>2
  <2>6. \A s \in Threads : ToPut(doing'[s], lqueue'[s]) = ToPut(doing[s], lqueue[s])
    BY <1>4, <2>2, <2>5
  <2>7. /\ queue'.shared_out_start = queue.shared_out_start
        /\ queue'.shared_out_end = queue.shared_out_end
        /\ queue'.shared_in = queue.shared_in
    BY <1>3, <2>1 DEF Queues
  <2>8. c2 = c
    BY <1>4, <2>1 DEF AfterFlush
  <2>9. Behind(c2)' = Behind(c) /\ AboutToPut' = AboutToPut
    BY <2>6, <2>7, <2>8 DEF Behind, AboutToPut
  <2> QED BY <1>4, <2>2, <2>3, <2>7, <2>8, <2>9
<1> QED BY <1>1, <1>7, <1>8, <1>9

LEMMA TidyWhenEntering ==
  ASSUME NEW c, NEW q, NEW found, NEW found2, NEW r, NEW its, NEW b,
         Tidy(graph, c, q, found, doing, b),
         found \subseteq found2, found2 \subseteq Vertices(graph),
         \A t \in Threads : doing[t] = Idle, Enter(r, its)
  PROVE  /\ Tidy(graph, c, q, found2, doing', b)
         /\ Tidy(graph, c, slide_window(q), found2, doing', b)
         /\ region' = r /\ todo' = its
         /\ doing' = [t \in Threads |-> Idle]
<1>1. region' = r /\ todo' = its /\ doing' = [t \in Threads |-> Idle]
  BY DEF Enter
<1>2. Tidy(graph, c, q, found2, doing', b)
  BY <1>1, TidyWhenQuiet
<1>3. Tidy(graph, c, slide_window(q), found2, doing', b)
  BY <1>1, <1>2, TidyWhenSlid
<1> QED
  BY <1>1, <1>2, <1>3

LEMMA HoldsOnce ==
  /\ queue = EmptyQueue(0) => QueueHoldsNodesOnce
  /\ \A c, found : IsGraph(graph) /\ Tidy(graph, c, queue, found, doing, lqueue)
                     => QueueHoldsNodesOnce
<1>1. ASSUME queue = EmptyQueue(0)
      PROVE  QueueHoldsNodesOnce
  <2>1. /\ queue.shared_in = 0 /\ queue.shared_out_end = 0
        /\ queue.shared = [i \in 0..(0 - 1) |-> Blank]
    BY <1>1 DEF EmptyQueue
  <2>2. DOMAIN queue.shared = {} /\ Cardinality({}) = 0
    BY <2>1, FS_EmptySet
  <2>3. 0..(queue.shared_out_end - 1) = {}
    BY <2>1
  <2> QED
    BY <2>1, <2>2, <2>3 DEF QueueHoldsNodesOnce
<1>2. ASSUME NEW c, NEW found, IsGraph(graph), Tidy(graph, c, queue, found, doing, lqueue)
      PROVE  QueueHoldsNodesOnce
  BY <1>2, TidyFits DEF QueueHoldsNodesOnce
<1> QED
  BY <1>1, <1>2

-----------------------------------------------------------------------------
(* Breadth-first search.                                                   *)

Reading(g)    == [step : {"read"}, u : Vertices(g), left : Seq(Vertices(g)) \ {<< >>}]
Continuing(g) == {Idle} \cup Reading(g)
Claiming(g)   == [step : {"swap"}, u : Vertices(g), left : Seq(Vertices(g)) \ {<< >>},
                  curr_val : {k \in Int : k < 0}]
TopDownState(g) == Continuing(g) \cup Claiming(g) \cup FlushState(g, Continuing(g))
MarkingState(g) ==
  {Idle} \cup [step : {"load"}, u : Vertices(g)]
         \cup [step : {"swap"}, u : Vertices(g), old_val : SUBSET Vertices(g)]
BottomUpState(g) ==
  {Idle} \cup [step : {"node"}, u : Vertices(g)]
         \cup [step : {"store"}, u : Vertices(g), bits : SUBSET Vertices(g)]
FillingState(g) ==
  {Idle} \cup [step : {"push"}, n : Vertices(g)] \cup FlushState(g, {Idle})

States(g, r) ==
  CASE r = "top down"  -> TopDownState(g)
    [] r = "to bitmap" -> MarkingState(g)
    [] r = "bottom up" -> BottomUpState(g)
    [] r = "to queue"  -> FillingState(g)
    [] OTHER           -> {Idle}

(* The nodes that bottom-up steps find are in no queue: bits of the bitmap *)
(* stand for them, until they are put in the queue all at once.            *)
InRegion(c) ==
  LET fresh == Fresh(c, Found(graph, parent))
  IN  /\ region \notin {"top down", "to queue"} => lqueue = NoBuffers
      /\ region \in {"top down", "to bitmap"} => todo \subseteq 0..(queue.shared_out_end - 1)
      /\ region = "bottom up" =>
           /\ todo \subseteq Vertices(graph) /\ curr \subseteq fresh
           /\ \A t \in Threads : doing[t].step = "store" =>
                doing[t].u \in fresh /\ doing[t].bits \subseteq fresh
      /\ region = "to queue" =>
           /\ todo \cap front \subseteq fresh
           /\ \A t \in Threads : todo \cap front \cap ToPut(doing[t], lqueue[t]) = {}

Searching(c) ==
  /\ region \in {"search", "top down", "to bitmap", "bottom up", "to queue", "finished"}
  /\ parent \in [Vertices(graph) -> Int]
  /\ front \subseteq Vertices(graph)
  /\ doing \in [Threads -> States(graph, region)]
  /\ Tidy(graph, c, queue, Found(graph, parent), doing, lqueue)
  /\ InRegion(c)

BfsInv ==
  /\ IsGraph(graph) /\ job.source \in Vertices(graph)
  /\ \/ /\ region = "built" /\ doing = [t \in Threads |-> Idle]
        /\ queue = EmptyQueue(0) /\ lqueue = NoBuffers
     \/ \E c : Searching(c)

-----------------------------------------------------------------------------

LEMMA StatesOf ==
  ASSUME NEW g
  PROVE  /\ States(g, "top down") = TopDownState(g) /\ States(g, "to bitmap") = MarkingState(g)
         /\ States(g, "bottom up") = BottomUpState(g) /\ States(g, "to queue") = FillingState(g)
         /\ \A r : r \notin {"top down", "to bitmap", "bottom up", "to queue"} => States(g, r) = {Idle}
         /\ \A r : Idle \in States(g, r)
BY DEF States, TopDownState, Continuing, MarkingState, BottomUpState, FillingState

LEMMA StatesByStep ==
  ASSUME NEW g, NEW d
  PROVE  /\ d \in TopDownState(g) =>
              /\ d.step = "read" => d \in Reading(g)
              /\ d.step = "swap" => d \in Claiming(g)
              /\ d.step \in {"reserve", "copy"} => d \in FlushState(g, Continuing(g))
              /\ d.step # "push"
         /\ d \in FillingState(g) =>
              /\ d.step \in {"reserve", "copy"} => d \in FlushState(g, {Idle})
              /\ d.step = "push" => d.n \in Vertices(g)
         /\ d \in MarkingState(g) =>
              /\ d.step \notin {"reserve", "copy", "push"}
              /\ d.step \in {"load", "swap"} => d.u \in Vertices(g)
              /\ d.step = "swap" => d.old_val \subseteq Vertices(g)
         /\ d \in BottomUpState(g) =>
              /\ d.step \notin {"reserve", "copy", "push"}
              /\ d.step \in {"node", "store"} => d.u \in Vertices(g)
              /\ d.step = "store" => d.bits \subseteq Vertices(g)
<1> USE DEF Idle
<1>1. ASSUME d \in TopDownState(g)
      PROVE  /\ d.step = "read" => d \in Reading(g)
             /\ d.step = "swap" => d \in Claiming(g)
             /\ d.step \in {"reserve", "copy"} => d \in FlushState(g, Continuing(g))
             /\ d.step # "push"
  BY <1>1 DEF TopDownState, Continuing, Reading, Claiming, FlushState
<1>2. ASSUME d \in FillingState(g)
      PROVE  /\ d.step \in {"reserve", "copy"} => d \in FlushState(g, {Idle})
             /\ d.step = "push" => d.n \in Vertices(g)
  BY <1>2 DEF FillingState, FlushState
<1>3. ASSUME d \in MarkingState(g)
      PROVE  /\ d.step \notin {"reserve", "copy", "push"}
             /\ d.step \in {"load", "swap"} => d.u \in Vertices(g)
             /\ d.step = "swap" => d.old_val \subseteq Vertices(g)
  BY <1>3 DEF MarkingState
<1>4. ASSUME d \in BottomUpState(g)
      PROVE  /\ d.step \notin {"reserve", "copy", "push"}
             /\ d.step \in {"node", "store"} => d.u \in Vertices(g)
             /\ d.step = "store" => d.bits \subseteq Vertices(g)
  BY <1>4 DEF BottomUpState
<1> QED
  BY <1>1, <1>2, <1>3, <1>4

LEMMA ContinuingHasNothing ==
  ASSUME NEW g, NEW d \in Continuing(g)
  PROVE  d.step \notin {"reserve", "copy", "push"} /\ Handed(d) = {}
BY DEF Handed, Continuing, Reading, Idle

LEMMA ReadsOn ==
  ASSUME NEW g, NEW u \in Vertices(g), NEW left \in Seq(Vertices(g))
  PROVE  UnlessDone([step |-> "read", u |-> u, left |-> left]) \in Continuing(g)
BY DEF UnlessDone, Continuing, Reading

LEMMA SearchEnters ==
  ASSUME NEW c, NEW q, NEW found, NEW r, NEW its, NEW b,
         Tidy(graph, c, q, found, doing, b),
         \A t \in Threads : doing[t] = Idle, Enter(r, its)
  PROVE  /\ Tidy(graph, c, q, found, doing', b)
         /\ Tidy(graph, c, slide_window(q), found, doing', b)
         /\ doing' \in [Threads -> States(graph, r)] /\ \A t \in Threads : doing'[t] = Idle
         /\ region' = r /\ todo' = its
<1>1. found \subseteq Vertices(graph)
  BY DEF Tidy
<1>2. /\ Tidy(graph, c, q, found, doing', b)
      /\ Tidy(graph, c, slide_window(q), found, doing', b)
      /\ region' = r /\ todo' = its /\ doing' = [t \in Threads |-> Idle]
  BY <1>1, TidyWhenEntering
<1>3. doing' \in [Threads -> States(graph, r)]
  BY <1>2, StatesOf
<1> QED
  BY <1>2, <1>3

LEMMA StartsSearching ==
  ASSUME IsGraph(graph), job.source \in Vertices(graph), lqueue = NoBuffers, StartBfs,
         NEW c, c = [i \in 0..0 |-> job.source]
  PROVE  Searching(c)'
<1>1. /\ parent' = [InitParent EXCEPT ![job.source] = job.source]
      /\ queue' = slide_window(push_back(EmptyQueue(graph.num_nodes), job.source))
      /\ front' = {} /\ region' = "search" /\ doing' = [t \in Threads |-> Idle]
      /\ UNCHANGED <<job, graph, lqueue>>
  BY DEF StartBfs, Enter
<1>2. parent' \in [Vertices(graph) -> Int] /\ parent'[job.source] = job.source
  <2>1. \A n \in Vertices(graph) : out_degree(graph, n) \in Nat
    BY DEF IsGraph, out_degree
  <2>2. InitParent \in [Vertices(graph) -> Int]
    BY <2>1 DEF InitParent
  <2> QED
    BY <1>1, <2>2 DEF Vertices
<1>3. job.source \in Found(graph, parent') /\ Found(graph, parent') \subseteq Vertices(graph)
  BY <1>2 DEF Found, Vertices, IsGraph
<1>4. Tidy(graph, c, queue', Found(graph, parent'), doing', NoBuffers)
  BY <1>1, <1>3, NewQueues, TidyWhenBegun
<1>5. doing' \in [Threads -> States(graph, region')]
  BY <1>1, StatesOf
<1>6. Searching(c)'
  <2>1. lqueue' = NoBuffers
    BY <1>1
  <2>2. InRegion(c)'
    BY <1>1, <2>1 DEF InRegion
  <2>3. Tidy(graph, c, queue', Found(graph, parent'), doing', lqueue')
    BY <1>4, <2>1
  <2>4. graph' = graph /\ region' = "search" /\ front' \subseteq Vertices(graph)
    BY <1>1
  <2> QED
    BY <1>2, <1>5, <2>2, <2>3, <2>4 DEF Searching
<1> QED
  BY <1>6

LEMMA ChoosesDirection ==
  ASSUME NEW c, Searching(c), ChooseDirection
  PROVE  Searching(c)'
<1>1. /\ region = "search" /\ lqueue = NoBuffers
      /\ \A t \in Threads : doing[t] = Idle
      /\ parent \in [Vertices(graph) -> Int] /\ front \subseteq Vertices(graph)
      /\ Tidy(graph, c, queue, Found(graph, parent), doing, lqueue)
      /\ Found(graph, parent) \subseteq Vertices(graph)
  <2>1. /\ region = "search" /\ doing \in [Threads -> States(graph, region)]
        /\ lqueue = NoBuffers /\ parent \in [Vertices(graph) -> Int]
        /\ front \subseteq Vertices(graph)
        /\ Tidy(graph, c, queue, Found(graph, parent), doing, lqueue)
    BY DEF Searching, InRegion, ChooseDirection
  <2>2. States(graph, region) = {Idle}
    BY <2>1, StatesOf
  <2> QED
    BY <2>1, <2>2 DEF Found
<1>2. UNCHANGED <<job, graph, queue, lqueue, front, curr>>
  BY DEF ChooseDirection, queueVars
<1>3. CASE empty(queue)
  <2>1. /\ parent' = [n \in Vertices(graph) |-> IF parent[n] < -1 THEN -1 ELSE parent[n]]
        /\ Enter("finished", {})
    BY <1>3 DEF ChooseDirection
  <2>2. parent' \in [Vertices(graph) -> Int] /\ Found(graph, parent') = Found(graph, parent)
    BY <1>1, <2>1 DEF Found
  <2>3. /\ Tidy(graph, c, queue, Found(graph, parent), doing', lqueue)
        /\ doing' \in [Threads -> States(graph, "finished")] /\ region' = "finished"
    BY <1>1, <2>1, SearchEnters
  <2> QED
    BY <1>1, <1>2, <2>2, <2>3 DEF Searching, InRegion
<1>4. CASE ~empty(queue)
  <2>1. Window(queue) \subseteq 0..(queue.shared_out_end - 1)
    BY <1>1 DEF Window, Tidy, Queues
  <2>2. PICK r \in {"to bitmap", "top down"} : UNCHANGED parent /\ Enter(r, Window(queue))
    BY <1>4 DEF ChooseDirection
  <2>3. /\ Tidy(graph, c, queue, Found(graph, parent), doing', lqueue)
        /\ doing' \in [Threads -> States(graph, r)] /\ region' = r /\ todo' = Window(queue)
    BY <1>1, <2>2, SearchEnters
  <2>4. InRegion(c)'
    BY <1>1, <1>2, <2>1, <2>3 DEF InRegion
  <2> QED
    BY <1>1, <1>2, <2>2, <2>3, <2>4 DEF Searching
<1> QED
  BY <1>3, <1>4

LEMMA SearchesTopDown ==
  ASSUME IsGraph(graph), NEW c, Searching(c), NEW t \in Threads, TopDown(t)
  PROVE  Searching(c)'
<1>1. /\ region = "top down"
      /\ parent \in [Vertices(graph) -> Int] /\ front \subseteq Vertices(graph)
      /\ Tidy(graph, c, queue, Found(graph, parent), doing, lqueue)
      /\ Found(graph, parent) \subseteq Vertices(graph)
      /\ todo \subseteq 0..(queue.shared_out_end - 1)
      /\ doing \in [Threads -> TopDownState(graph)] /\ DOMAIN doing = Threads
      /\ States(graph, "top down") = TopDownState(graph)
  BY StatesOf DEF Searching, InRegion, TopDown, At, Visit, Found
<1>2. UNCHANGED <<job, graph, queue, front, curr>> /\ region' = region /\ todo' \subseteq todo
  BY DEF TopDown, Visit, At, Take, Proceed, Push, queueVars, bfsVars
<1>3. ASSUME parent' \in [Vertices(graph) -> Int],
             Tidy(graph, c, queue, Found(graph, parent'), doing', lqueue'),
             doing' \in [Threads -> TopDownState(graph)]
      PROVE  Searching(c)'
  BY <1>1, <1>2, <1>3 DEF Searching, InRegion
<1>4. ASSUME NEW next, next \in Continuing(graph) \cup Claiming(graph),
             UNCHANGED <<parent, lqueue>>, doing' = [doing EXCEPT ![t] = next],
             doing[t].step \notin {"reserve", "copy", "push"}
      PROVE  Searching(c)'
  <2>1. next.step \notin {"reserve", "copy", "push"} /\ next \in TopDownState(graph)
    BY <1>4, ContinuingHasNothing DEF Claiming, TopDownState
  <2>2. Tidy(graph, c, queue, Found(graph, parent'), doing', lqueue')
    BY <1>1, <1>4, <2>1, EmptyHands, TidyWhenProceeding
  <2>3. doing' \in [Threads -> TopDownState(graph)]
    BY <1>1, <1>4, <2>1
  <2> QED
    BY <1>1, <1>3, <1>4, <2>2, <2>3
<1>5. ASSUME NEW i \in todo,
             Take(t, i, UnlessDone([step |-> "read", u |-> queue.shared[i],
                                    left |-> out_neigh(graph, queue.shared[i])])),
             UNCHANGED <<job, graph, queueVars, bfsVars>>
      PROVE  Searching(c)'
  <2> DEFINE u == queue.shared[i]
  <2>1. u \in Vertices(graph)
    BY <1>1, TidyFits
  <2> DEFINE next == UnlessDone([step |-> "read", u |-> u, left |-> out_neigh(graph, u)])
  <2>2. next \in Continuing(graph)
    BY <2>1, NeighboursAreNodes, ReadsOn
  <2>3. /\ doing' = [doing EXCEPT ![t] = next] /\ UNCHANGED <<parent, lqueue>>
        /\ doing[t].step \notin {"reserve", "copy", "push"}
    BY <1>5 DEF Take, queueVars, bfsVars, Idle
  <2> HIDE DEF next
  <2> QED
    BY <1>4, <2>2, <2>3
<1>6. ASSUME At(t, "top down", "read"),
             LET u == doing[t].u
                 left == doing[t].left
                 curr_val == parent[Head(left)]
             IN  Proceed(t, IF curr_val < 0
                   THEN [step |-> "swap", u |-> u, left |-> left, curr_val |-> curr_val]
                   ELSE UnlessDone([step |-> "read", u |-> u, left |-> Tail(left)])),
             UNCHANGED <<job, graph, queueVars, bfsVars>>
      PROVE  Searching(c)'
  <2> DEFINE u == doing[t].u
             left == doing[t].left
             curr_val == parent[Head(left)]
             claim == [step |-> "swap", u |-> u, left |-> left, curr_val |-> curr_val]
             more  == UnlessDone([step |-> "read", u |-> u, left |-> Tail(left)])
  <2>1. /\ doing' = [doing EXCEPT ![t] = IF curr_val < 0 THEN claim ELSE more]
        /\ UNCHANGED <<parent, lqueue>>
        /\ doing[t].step = "read"
    BY <1>6 DEF Proceed, At, queueVars, bfsVars
  <2>2. u \in Vertices(graph) /\ left \in Seq(Vertices(graph)) /\ left # << >>
    <3>1. doing[t] \in Reading(graph)
      BY <1>1, <2>1, StatesByStep
    <3> QED
      BY <3>1 DEF Reading
  <2> HIDE DEF u, left
  <2>3. Head(left) \in Vertices(graph) /\ Tail(left) \in Seq(Vertices(graph))
    BY <2>2
  <2>4. curr_val \in Int
    BY <1>1, <2>3
  <2>5. more \in Continuing(graph)
    BY <2>2, <2>3, ReadsOn
  <2> HIDE DEF more, curr_val
  <2>6. curr_val < 0 => claim \in Claiming(graph)
    BY <2>2, <2>4 DEF Claiming
  <2> HIDE DEF claim
  <2>7. (IF curr_val < 0 THEN claim ELSE more) \in Continuing(graph) \cup Claiming(graph)
    BY <2>4, <2>5, <2>6
  <2> QED
    BY <1>4, <2>1, <2>7
<1>7. ASSUME Visit(t)
      PROVE  Searching(c)'
  <2> DEFINE u == doing[t].u
             left == doing[t].left
             v == Head(left)
             next == UnlessDone([step |-> "read", u |-> u, left |-> Tail(left)])
  <2>1. /\ doing[t].step = "swap"
        /\ IF parent[v] = doing[t].curr_val
             THEN parent' = [parent EXCEPT ![v] = u] /\ Push(t, v, next)
             ELSE Proceed(t, next) /\ UNCHANGED <<parent, lqueue>>
    BY <1>7 DEF Visit, At
  <2>2. /\ u \in Vertices(graph) /\ left \in Seq(Vertices(graph)) /\ left # << >>
        /\ doing[t].curr_val \in Int /\ doing[t].curr_val < 0
    <3>1. doing[t] \in Claiming(graph)
      BY <1>1, <2>1, StatesByStep
    <3> QED
      BY <3>1 DEF Claiming
  <2> HIDE DEF u, left
  <2>3. v \in Vertices(graph) /\ Tail(left) \in Seq(Vertices(graph))
    BY <2>2
  <2>4. next \in Continuing(graph) /\ next.step \notin {"reserve", "copy", "push"}
    BY <2>2, <2>3, ReadsOn, ContinuingHasNothing
  <2> HIDE DEF v, next
  <2>5. CASE parent[v] # doing[t].curr_val
    <3>1. doing' = [doing EXCEPT ![t] = next] /\ UNCHANGED <<parent, lqueue>>
      BY <2>1, <2>5 DEF Proceed
    <3> QED
      BY <1>4, <2>1, <2>4, <3>1
  <2>6. CASE parent[v] = doing[t].curr_val
    <3> DEFINE found2 == Found(graph, parent')
    <3>1. parent' = [parent EXCEPT ![v] = u] /\ Push(t, v, next)
      BY <2>1, <2>6
    <3>2. /\ parent' \in [Vertices(graph) -> Int]
          /\ found2 = Found(graph, parent) \cup {v} /\ v \notin Found(graph, parent)
      <4>1. u \in Int /\ u >= 0 /\ parent[v] < 0 /\ ~(parent[v] >= 0)
        BY <2>2, <2>6 DEF Vertices
      <4>2. /\ parent' \in [Vertices(graph) -> Int] /\ parent'[v] = u
            /\ \A n \in Vertices(graph) \ {v} : parent'[n] = parent[n]
        BY <1>1, <2>3, <3>1, <4>1
      <4> QED
        BY <2>3, <4>1, <4>2 DEF Found
    <3> HIDE DEF found2
    <3>3. Tidy(graph, c, queue, found2, doing, lqueue)
      BY <1>1, <2>3, <3>2, TidyWhenQuiet
    <3>4. TakesNode(c, found2, doing, lqueue, t, v)
      <4>1. Handed(doing[t]) = {} /\ doing[t].step # "copy"
        BY <2>1, EmptyHands
      <4>2. v \notin Range(c)
        BY <1>1, <3>2 DEF Tidy, Range
      <4>3. \A s \in Threads : v \notin ToPut(doing[s], lqueue[s])
        BY <1>1, <3>2 DEF Tidy, OnceInAll, Fresh
      <4>4. v \notin Range(lqueue[t])
        BY <4>1, <4>3 DEF ToPut
      <4> QED
        BY <3>2, <4>1, <4>2, <4>3, <4>4 DEF TakesNode, Fresh
    <3>5. /\ Tidy(graph, c, queue, found2, doing', lqueue')
          /\ \/ doing' = [doing EXCEPT ![t] = next]
             \/ doing' = [doing EXCEPT ![t] = [step |-> "reserve", pushed |-> v, next |-> next]]
      <4>1. Pushes(doing, lqueue, t, v, next, doing', lqueue')
        BY <3>1 DEF Push, Proceed, Pushes
      <4>2. Tidy(graph, c, queue, found2, doing', lqueue')
        BY <1>1, <2>4, <3>3, <3>4, <4>1, TidyWhenPushed
      <4> QED
        BY <4>1, <4>2 DEF Pushes
    <3>6. /\ next \in TopDownState(graph)
          /\ [step |-> "reserve", pushed |-> v, next |-> next] \in TopDownState(graph)
      BY <2>3, <2>4 DEF TopDownState, FlushState
    <3>7. doing' \in [Threads -> TopDownState(graph)]
      BY <1>1, <3>5, <3>6
    <3> QED
      BY <1>3, <3>2, <3>5, <3>7 DEF found2
  <2> QED
    BY <2>5, <2>6
<1> QED
  BY <1>5, <1>6, <1>7 DEF TopDown

LEMMA SearchesOn ==
  ASSUME NEW c, Searching(c), EndTopDown \/ EndToQueue
  PROVE  Searching(c)'
<1>1. /\ lqueue = NoBuffers /\ \A t \in Threads : doing[t] = Idle
      /\ Enter("search", {}) /\ queue' = slide_window(queue)
      /\ UNCHANGED <<job, graph, lqueue, parent, front, curr>>
  BY DEF EndTopDown, EndToQueue, AllFlushed, AllDone, bfsVars
<1>2. /\ Tidy(graph, c, queue, Found(graph, parent), doing, lqueue)
      /\ Found(graph, parent) \subseteq Vertices(graph)
      /\ parent \in [Vertices(graph) -> Int] /\ front \subseteq Vertices(graph)
  BY DEF Searching, Found
<1>3. /\ Tidy(graph, c, queue', Found(graph, parent), doing', lqueue)
      /\ doing' \in [Threads -> States(graph, "search")] /\ region' = "search"
  BY <1>1, <1>2, SearchEnters
<1>4. InRegion(c)'
  BY <1>1, <1>3 DEF InRegion
<1> QED
  BY <1>1, <1>2, <1>3, <1>4 DEF Searching

LEMMA FillsBitmap ==
  ASSUME IsGraph(graph), NEW c, Searching(c), NEW t \in Threads, ToBitmap(t)
  PROVE  Searching(c)'
<1>1. /\ region = "to bitmap" /\ lqueue = NoBuffers
      /\ parent \in [Vertices(graph) -> Int] /\ front \subseteq Vertices(graph)
      /\ Tidy(graph, c, queue, Found(graph, parent), doing, lqueue)
      /\ Found(graph, parent) \subseteq Vertices(graph)
      /\ todo \subseteq 0..(queue.shared_out_end - 1)
      /\ doing \in [Threads -> MarkingState(graph)] /\ DOMAIN doing = Threads
      /\ States(graph, "to bitmap") = MarkingState(graph)
  BY StatesOf DEF Searching, InRegion, ToBitmap, At, Found
<1>2. UNCHANGED <<job, graph, queue, lqueue, parent, curr>> /\ region' = region /\ todo' \subseteq todo
  BY DEF ToBitmap, At, Take, Proceed, queueVars, bfsVars
<1>3. ASSUME NEW next \in MarkingState(graph), doing' = [doing EXCEPT ![t] = next],
             front' \subseteq Vertices(graph)
      PROVE  Searching(c)'
  <2>1. /\ Handed(next) = {} /\ next.step # "copy"
        /\ doing[t].step # "copy"
    BY <1>1, StatesByStep, EmptyHands
  <2>2. Tidy(graph, c, queue, Found(graph, parent), doing', lqueue)
    BY <1>1, <1>3, <2>1, TidyWhenProceeding
  <2>3. doing' \in [Threads -> MarkingState(graph)]
    BY <1>1, <1>3
  <2>4. InRegion(c)'
    BY <1>1, <1>2 DEF InRegion
  <2> QED
    BY <1>1, <1>2, <1>3, <2>2, <2>3, <2>4 DEF Searching
<1>4. ASSUME NEW i \in todo, Take(t, i, [step |-> "load", u |-> queue.shared[i]]),
             UNCHANGED <<job, graph, queueVars, bfsVars>>
      PROVE  Searching(c)'
  <2>1. PICK next : next = [step |-> "load", u |-> queue.shared[i]]
    OBVIOUS
  <2>2. queue.shared[i] \in Vertices(graph)
    BY <1>1, TidyFits
  <2>3. next \in MarkingState(graph)
    BY <2>1, <2>2 DEF MarkingState
  <2> QED
    BY <1>1, <1>3, <1>4, <2>1, <2>3 DEF Take, bfsVars
<1>5. ASSUME At(t, "to bitmap", "load"),
             LET u == doing[t].u
             IN  Proceed(t, [step |-> "swap", u |-> u, old_val |-> Word(front, WordOf(u))]),
             UNCHANGED <<job, graph, queueVars, bfsVars>>
      PROVE  Searching(c)'
  <2>1. PICK next : next = [step |-> "swap", u |-> doing[t].u,
                            old_val |-> Word(front, WordOf(doing[t].u))]
    OBVIOUS
  <2>2. doing[t].u \in Vertices(graph)
    BY <1>1, <1>5, StatesByStep DEF At
  <2>3. Word(front, WordOf(doing[t].u)) \subseteq Vertices(graph)
    BY <1>1 DEF Word
  <2>4. next \in MarkingState(graph)
    BY <2>1, <2>2, <2>3 DEF MarkingState
  <2> QED
    BY <1>1, <1>3, <1>5, <2>1, <2>4 DEF Proceed, bfsVars
<1>6. ASSUME At(t, "to bitmap", "swap"),
             LET u == doing[t].u
                 old_val == doing[t].old_val
             IN  IF Word(front, WordOf(u)) = old_val
                   THEN /\ front' = StoreWord(front, WordOf(u), old_val \cup {u})
                        /\ Proceed(t, Idle)
                   ELSE /\ Proceed(t, [step |-> "load", u |-> u])
                        /\ UNCHANGED front
      PROVE  Searching(c)'
  <2>1. doing[t].u \in Vertices(graph) /\ doing[t].old_val \subseteq Vertices(graph)
    BY <1>1, <1>6, StatesByStep DEF At
  <2>2. PICK next \in {Idle, [step |-> "load", u |-> doing[t].u]} :
          doing' = [doing EXCEPT ![t] = next]
    BY <1>6 DEF Proceed
  <2>3. front' \subseteq Vertices(graph)
    BY <1>1, <1>6, <2>1 DEF StoreWord
  <2>4. next \in MarkingState(graph)
    BY <2>1, <2>2 DEF MarkingState
  <2> QED
    BY <1>3, <2>2, <2>3, <2>4
<1> QED
  BY <1>4, <1>5, <1>6 DEF ToBitmap

LEMMA StartsBottomUp ==
  ASSUME NEW c, NEW q, parent \in [Vertices(graph) -> Int], front' \subseteq Vertices(graph),
         Tidy(graph, c, q, Found(graph, parent), doing, NoBuffers),
         \A t \in Threads : doing[t] = Idle, lqueue = NoBuffers,
         curr' = {} /\ Enter("bottom up", Chunks),
         UNCHANGED <<job, graph, lqueue, parent>>, queue' = q
  PROVE  Searching(c)'
<1>1. Found(graph, parent) \subseteq Vertices(graph) /\ Chunks \subseteq Vertices(graph)
  BY DEF Found, Chunks
<1>2. /\ Tidy(graph, c, q, Found(graph, parent), doing', NoBuffers)
      /\ doing' \in [Threads -> States(graph, "bottom up")] /\ region' = "bottom up"
      /\ todo' = Chunks /\ \A t \in Threads : doing'[t] = Idle
  BY <1>1, SearchEnters
<1>3. InRegion(c)'
  <2>1. \A t \in Threads : doing'[t].step # "store"
    <3>1. Idle.step # "store" /\ \A t \in Threads : doing'[t] = Idle
      BY <1>2 DEF Idle
    <3> QED
      BY <3>1
  <2>2. todo' \subseteq Vertices(graph') /\ curr' \subseteq Fresh(c, Found(graph', parent'))
    BY <1>1, <1>2
  <2> QED
    BY <1>2, <2>1, <2>2 DEF InRegion
<1> QED
  BY <1>2, <1>3 DEF Searching

LEMMA EndsToBitmap ==
  ASSUME NEW c, Searching(c), EndToBitmap
  PROVE  Searching(c)'
<1>1. /\ region = "to bitmap" /\ \A t \in Threads : doing[t] = Idle
      /\ queue' = slide_window(queue) /\ curr' = {} /\ Enter("bottom up", Chunks)
      /\ UNCHANGED <<job, graph, lqueue, parent, front>>
  BY DEF EndToBitmap, AllDone, StartBottomUp, Reset
<1>2. /\ Tidy(graph, c, queue, Found(graph, parent), doing, lqueue) /\ lqueue = NoBuffers
      /\ parent \in [Vertices(graph) -> Int] /\ front \subseteq Vertices(graph)
  BY <1>1 DEF Searching, InRegion
<1>3. PICK q : q = slide_window(queue)
  OBVIOUS
<1>4. Tidy(graph, c, q, Found(graph, parent), doing, NoBuffers)
  BY <1>1, <1>2, <1>3, TidyWhenSlid
<1> QED
  BY <1>1, <1>2, <1>3, <1>4, StartsBottomUp

LEMMA SearchesBottomUp ==
  ASSUME IsGraph(graph), NEW c, Searching(c), NEW t \in Threads, BottomUp(t)
  PROVE  Searching(c)'
<1> DEFINE found == Found(graph, parent)
           fresh == Fresh(c, found)
<1>1. /\ region = "bottom up" /\ lqueue = NoBuffers
      /\ parent \in [Vertices(graph) -> Int] /\ front \subseteq Vertices(graph)
      /\ Tidy(graph, c, queue, found, doing, lqueue) /\ found \subseteq Vertices(graph)
      /\ todo \subseteq Vertices(graph) /\ curr \subseteq fresh
      /\ \A s \in Threads : doing[s].step = "store" =>
           doing[s].u \in fresh /\ doing[s].bits \subseteq fresh
      /\ doing \in [Threads -> BottomUpState(graph)] /\ DOMAIN doing = Threads
      /\ States(graph, "bottom up") = BottomUpState(graph)
  BY StatesOf DEF Searching, InRegion, BottomUp, At, Found
<1>2. /\ UNCHANGED <<job, graph, queue, lqueue, front>> /\ region' = region
      /\ todo' \subseteq todo
  BY DEF BottomUp, At, Take, Proceed, queueVars, bfsVars
<1>3. ASSUME NEW next \in BottomUpState(graph), doing' = [doing EXCEPT ![t] = next],
             parent' \in [Vertices(graph) -> Int], found \subseteq Found(graph, parent'),
             curr' \subseteq Fresh(c, Found(graph, parent')),
             next.step = "store" =>
               /\ next.u \in Fresh(c, Found(graph, parent'))
               /\ next.bits \subseteq Fresh(c, Found(graph, parent'))
      PROVE  Searching(c)'
  <2> DEFINE found2 == Found(graph, parent')
  <2>1. found2 \subseteq Vertices(graph) /\ fresh \subseteq Fresh(c, found2)
    BY <1>3 DEF Found, Fresh
  <2>2. /\ Handed(next) = {} /\ next.step # "copy"
        /\ doing[t].step # "copy"
    BY <1>1, StatesByStep, EmptyHands
  <2>3. Tidy(graph, c, queue, found2, doing', lqueue)
    BY <1>1, <1>3, <2>1, <2>2, TidyWhenProceeding
  <2>4. doing' \in [Threads -> BottomUpState(graph)]
    BY <1>1, <1>3
  <2>5. /\ doing'[t] = next /\ \A s \in Threads \ {t} : doing'[s] = doing[s]
    BY <1>1, <1>3
  <2> HIDE DEF fresh, found
  <2>6. \A s \in Threads : doing'[s].step = "store" =>
          doing'[s].u \in Fresh(c, found2) /\ doing'[s].bits \subseteq Fresh(c, found2)
    BY <1>1, <1>3, <2>1, <2>5
  <2>7. InRegion(c)'
    BY <1>1, <1>2, <1>3, <2>6 DEF InRegion
  <2> QED
    BY <1>1, <1>2, <1>3, <2>3, <2>4, <2>7 DEF Searching
<1>4. \A u \in Vertices(graph) : NextNode(u) \in BottomUpState(graph) /\ NextNode(u).step # "store"
  BY DEF NextNode, BottomUpState, Idle
<1>5. ASSUME NEW n \in todo, Take(t, n, [step |-> "node", u |-> n]),
             UNCHANGED <<job, graph, queueVars, bfsVars>>
      PROVE  Searching(c)'
  <2>1. PICK next : next = [step |-> "node", u |-> n]
    OBVIOUS
  <2>2. next \in BottomUpState(graph) /\ next.step # "store"
    BY <1>1, <2>1 DEF BottomUpState
  <2>3. doing' = [doing EXCEPT ![t] = next] /\ UNCHANGED <<parent, curr>>
    BY <1>5, <2>1 DEF Take, bfsVars
  <2> QED
    BY <1>1, <1>3, <2>2, <2>3
<1>6. ASSUME At(t, "bottom up", "node"), parent[doing[t].u] < 0,
             \E v \in FrontNeighbor(doing[t].u) : parent' = [parent EXCEPT ![doing[t].u] = v],
             Proceed(t, [step |-> "store", u |-> doing[t].u,
                         bits |-> Word(curr, WordOf(doing[t].u))]),
             UNCHANGED curr
      PROVE  Searching(c)'
  <2>1. PICK u : u = doing[t].u
    OBVIOUS
  <2>2. u \in Vertices(graph)
    BY <1>1, <1>6, <2>1, StatesByStep DEF At
  <2>3. PICK v \in FrontNeighbor(u) : parent' = [parent EXCEPT ![u] = v]
    BY <1>6, <2>1
  <2>4. v \in Vertices(graph)
    <3>1. in_neigh(graph, u) \in Seq(Vertices(graph))
      BY <2>2, NeighboursAreNodes
    <3>2. \E i \in DOMAIN in_neigh(graph, u) : v = in_neigh(graph, u)[i]
      BY <2>3 DEF FrontNeighbor, FirstNeighbor
    <3> QED
      BY <3>1, <3>2
  <2>5. v \in Int /\ v >= 0 /\ ~(parent[u] >= 0)
    <3>1. parent[u] \in Int /\ parent[u] < 0
      BY <1>1, <1>6, <2>1, <2>2
    <3> QED
      BY <2>4, <3>1 DEF Vertices
  <2>6. /\ parent' \in [Vertices(graph) -> Int]
        /\ Found(graph, parent') = found \cup {u} /\ u \notin found
    <3>1. /\ parent' \in [Vertices(graph) -> Int] /\ parent'[u] = v
          /\ \A n \in Vertices(graph) \ {u} : parent'[n] = parent[n]
      BY <1>1, <2>2, <2>3, <2>5
    <3> QED
      BY <2>2, <2>5, <3>1 DEF Found
  <2>7. fresh \subseteq Fresh(c, Found(graph, parent')) /\ u \in Fresh(c, Found(graph, parent'))
    <3>1. u \notin Range(c)
      <4>1. c \in [0..(queue.shared_in - 1) -> found]
        BY <1>1 DEF Tidy
      <4> HIDE DEF found
      <4> QED
        BY <2>6, <4>1 DEF Range
    <3> QED
      BY <2>6, <3>1 DEF Fresh
  <2>8. PICK next : next = [step |-> "store", u |-> u, bits |-> Word(curr, WordOf(u))]
    OBVIOUS
  <2>9. Word(curr, WordOf(u)) \subseteq fresh /\ fresh \subseteq Vertices(graph)
    BY <1>1 DEF Word, Fresh
  <2>10. next \in BottomUpState(graph) /\ next.u = u /\ next.bits \subseteq fresh
    BY <2>2, <2>8, <2>9 DEF BottomUpState
  <2>11. doing' = [doing EXCEPT ![t] = next]
    BY <1>6, <2>1, <2>8 DEF Proceed
  <2> HIDE DEF fresh, found
  <2>12. found \subseteq Found(graph, parent') /\ curr' \subseteq Fresh(c, Found(graph, parent'))
    BY <1>1, <1>6, <2>6, <2>7
  <2> QED
    BY <1>3, <2>6, <2>7, <2>10, <2>11, <2>12
<1>7. ASSUME At(t, "bottom up", "node"), Proceed(t, NextNode(doing[t].u)),
             UNCHANGED <<parent, curr>>
      PROVE  Searching(c)'
  <2>1. doing[t].u \in Vertices(graph)
    BY <1>1, <1>7, StatesByStep DEF At
  <2> QED
    BY <1>1, <1>3, <1>4, <1>7, <2>1 DEF Proceed
<1>8. ASSUME At(t, "bottom up", "store"), Proceed(t, NextNode(doing[t].u)),
             curr' = StoreWord(curr, WordOf(doing[t].u), doing[t].bits \cup {doing[t].u}),
             UNCHANGED parent
      PROVE  Searching(c)'
  <2>1. doing[t].u \in Vertices(graph) /\ doing[t].u \in fresh /\ doing[t].bits \subseteq fresh
    BY <1>1, <1>8, StatesByStep DEF At
  <2>2. curr' \subseteq fresh
    BY <1>1, <1>8, <2>1 DEF StoreWord
  <2> QED
    BY <1>1, <1>3, <1>4, <1>8, <2>1, <2>2 DEF Proceed
<1> QED
  BY <1>5, <1>6, <1>7, <1>8 DEF BottomUp

LEMMA EndsBottomUp ==
  ASSUME NEW c, Searching(c), EndBottomUp
  PROVE  Searching(c)'
<1> DEFINE found == Found(graph, parent)
<1>1. /\ region = "bottom up" /\ \A t \in Threads : doing[t] = Idle
      /\ front' = curr /\ UNCHANGED <<job, graph, queue, lqueue, parent>>
      /\ \/ curr' = {} /\ Enter("bottom up", Chunks)
         \/ Enter("to queue", Vertices(graph))
  BY DEF EndBottomUp, AllDone, StartBottomUp, Reset, queueVars
<1>2. /\ Tidy(graph, c, queue, found, doing, lqueue) /\ lqueue = NoBuffers
      /\ parent \in [Vertices(graph) -> Int] /\ found \subseteq Vertices(graph)
      /\ curr \subseteq Fresh(c, found) /\ curr \subseteq Vertices(graph)
  BY <1>1 DEF Searching, InRegion, Fresh, Found
<1>3. CASE curr' = {} /\ Enter("bottom up", Chunks)
  <2>1. Tidy(graph, c, queue, found, doing, NoBuffers) /\ front' \subseteq Vertices(graph)
    BY <1>1, <1>2
  <2> QED
    BY <1>1, <1>2, <1>3, <2>1, StartsBottomUp
<1>4. CASE Enter("to queue", Vertices(graph))
  <2>1. /\ Tidy(graph, c, queue, found, doing', lqueue)
        /\ doing' \in [Threads -> States(graph, "to queue")] /\ region' = "to queue"
        /\ todo' = Vertices(graph) /\ \A t \in Threads : doing'[t] = Idle
    BY <1>1, <1>2, <1>4, SearchEnters
  <2>2. \A t \in Threads : ToPut(doing'[t], lqueue'[t]) = {}
    <3>1. \A t \in Threads : lqueue'[t] = << >> /\ doing'[t] = Idle
      BY <1>1, <1>2, <2>1 DEF NoBuffers
    <3>2. ToPut(Idle, << >>) = {}
      BY DEF ToPut, Handed, Idle, Range
    <3> QED
      BY <3>1, <3>2
  <2>3. InRegion(c)'
    BY <1>1, <1>2, <2>1, <2>2 DEF InRegion
  <2> QED
    BY <1>1, <1>2, <2>1, <2>3 DEF Searching
<1> QED
  BY <1>1, <1>3, <1>4

LEMMA FillsQueue ==
  ASSUME NEW c, Searching(c), NEW t \in Threads, ToQueue(t)
  PROVE  Searching(c)'
<1> DEFINE found == Found(graph, parent)
           fresh == Fresh(c, found)
           asked == todo \cap front
<1>1. /\ region = "to queue"
      /\ parent \in [Vertices(graph) -> Int] /\ front \subseteq Vertices(graph)
      /\ Tidy(graph, c, queue, found, doing, lqueue) /\ found \subseteq Vertices(graph)
      /\ asked \subseteq fresh
      /\ \A s \in Threads : asked \cap ToPut(doing[s], lqueue[s]) = {}
      /\ doing \in [Threads -> FillingState(graph)] /\ DOMAIN doing = Threads
      /\ States(graph, "to queue") = FillingState(graph)
  BY StatesOf DEF Searching, InRegion, ToQueue, At, Found
<1>2. /\ UNCHANGED <<job, graph, queue, parent, front, curr>> /\ region' = region
      /\ todo' \subseteq todo
  BY DEF ToQueue, At, Take, Proceed, Push, queueVars, bfsVars
<1> HIDE DEF fresh, found
<1>3. ASSUME Tidy(graph, c, queue, found, doing', lqueue'),
             doing' \in [Threads -> FillingState(graph)],
             \A s \in Threads : (todo' \cap front) \cap ToPut(doing'[s], lqueue'[s]) = {}
      PROVE  Searching(c)'
  <2>1. InRegion(c)'
    BY <1>1, <1>2, <1>3 DEF InRegion, fresh, found
  <2> QED
    BY <1>1, <1>2, <1>3, <2>1 DEF Searching, found
<1>4. ASSUME NEW n \in todo, n \in front, Take(t, n, [step |-> "push", n |-> n]),
             UNCHANGED lqueue
      PROVE  Searching(c)'
  <2>1. PICK next : next = [step |-> "push", n |-> n]
    OBVIOUS
  <2>2. /\ doing[t] = Idle /\ doing' = [doing EXCEPT ![t] = next] /\ todo' = todo \ {n}
    BY <1>4, <2>1 DEF Take
  <2>3. Handed(next) = {n} /\ next.step # "copy" /\ next \in FillingState(graph)
    BY <1>1, <1>4, <2>1 DEF Handed, FillingState
  <2>4. Handed(Idle) = {} /\ Idle.step # "copy"
    BY DEF Handed, Idle
  <2>5. TakesNode(c, found, doing, lqueue, t, n)
    <3>1. n \in Fresh(c, found) /\ \A s \in Threads : n \notin ToPut(doing[s], lqueue[s])
      BY <1>1, <1>4 DEF fresh
    <3> QED
      BY <2>2, <2>4, <3>1 DEF TakesNode, ToPut
  <2>6. /\ doing'[t] = next /\ \A s \in Threads \ {t} : doing'[s] = doing[s]
        /\ doing' \in [Threads -> FillingState(graph)]
    BY <1>1, <2>2, <2>3
  <2>7. Tidy(graph, c, queue, found, doing', lqueue)
    BY <1>1, <2>3, <2>5, <2>6, TidyWhenHanded
  <2>8. \A s \in Threads : ToPut(doing'[s], lqueue[s]) \subseteq ToPut(doing[s], lqueue[s]) \cup {n}
    BY <2>2, <2>3, <2>4, <2>6 DEF ToPut
  <2> QED
    BY <1>1, <1>3, <1>4, <2>2, <2>6, <2>7, <2>8
<1>5. ASSUME NEW n \in todo, Take(t, n, Idle), UNCHANGED lqueue
      PROVE  Searching(c)'
  <2>1. doing[t] = Idle /\ doing' = [doing EXCEPT ![t] = Idle]
    BY <1>5 DEF Take
  <2>2. doing' = doing
    BY <1>1, <2>1
  <2> QED
    BY <1>1, <1>2, <1>3, <1>5, <2>2
<1>6. ASSUME doing[t].step = "push", Push(t, doing[t].n, Idle)
      PROVE  Searching(c)'
  <2>1. PICK n : n = doing[t].n
    OBVIOUS
  <2>2. n \in Vertices(graph) /\ Handed(doing[t]) = {n} /\ doing[t].step # "copy"
    BY <1>1, <1>6, <2>1, StatesByStep DEF Handed
  <2>3. TakesNode(c, found, doing, lqueue, t, n)
    <3>1. /\ ToPut(doing[t], lqueue[t]) = {n} \cup Range(lqueue[t])
          /\ n \notin Range(lqueue[t])
      BY <1>1, <2>2 DEF ToPut, Tidy, OnceInAll, OnceEach
    <3>2. /\ n \in Fresh(c, found)
          /\ \A s \in Threads \ {t} : n \notin ToPut(doing[s], lqueue[s])
      BY <1>1, <3>1 DEF Tidy, OnceInAll
    <3> QED
      BY <2>2, <3>1, <3>2 DEF TakesNode
  <2>4. Pushes(doing, lqueue, t, n, Idle, doing', lqueue')
    BY <1>6, <2>1 DEF Push, Proceed, Pushes
  <2>5. Idle.step \notin {"reserve", "copy", "push"} /\ Handed(Idle) = {}
    BY DEF Idle, Handed
  <2>6. Tidy(graph, c, queue, found, doing', lqueue')
    BY <1>1, <2>3, <2>4, <2>5, TidyWhenPushed
  <2>7. PICK e : e = [step |-> "reserve", pushed |-> n, next |-> Idle]
    OBVIOUS
  <2>8. /\ e.step = "reserve" /\ e.pushed = n /\ e \in FillingState(graph)
        /\ Idle \in FillingState(graph)
    BY <2>2, <2>7 DEF FillingState, FlushState
  <2>9. \/ doing' = [doing EXCEPT ![t] = e] /\ lqueue' = lqueue
        \/ doing' = [doing EXCEPT ![t] = Idle]
           /\ lqueue' = [lqueue EXCEPT ![t] = Append(lqueue[t], n)]
    BY <2>4, <2>7 DEF Pushes
  <2>10. doing' \in [Threads -> FillingState(graph)]
    BY <1>1, <2>8, <2>9
  <2>11. /\ lqueue \in [Threads -> Seq(Vertices(graph))]
         /\ Range(Append(lqueue[t], n)) = Range(lqueue[t]) \cup {n}
    <3>1. lqueue \in [Threads -> Seq(Vertices(graph))]
      BY <1>1 DEF Tidy
    <3> QED
      BY <2>2, <3>1, RangeOfAppend
  <2>12. /\ ToPut(doing'[t], lqueue'[t]) \subseteq ToPut(doing[t], lqueue[t])
         /\ \A s \in Threads \ {t} : doing'[s] = doing[s] /\ lqueue'[s] = lqueue[s]
    <3>1. CASE doing' = [doing EXCEPT ![t] = e] /\ lqueue' = lqueue
      <4>1. doing'[t] = e /\ \A s \in Threads \ {t} : doing'[s] = doing[s]
        BY <1>1, <3>1
      <4> QED
        BY <2>2, <2>8, <3>1, <4>1 DEF ToPut, Handed
    <3>2. CASE doing' = [doing EXCEPT ![t] = Idle]
               /\ lqueue' = [lqueue EXCEPT ![t] = Append(lqueue[t], n)]
      <4>1. /\ doing'[t] = Idle /\ lqueue'[t] = Append(lqueue[t], n)
            /\ \A s \in Threads \ {t} : doing'[s] = doing[s] /\ lqueue'[s] = lqueue[s]
        BY <1>1, <2>11, <3>2
      <4> QED
        BY <2>2, <2>5, <2>11, <4>1 DEF ToPut
    <3> QED
      BY <2>9, <3>1, <3>2
  <2>13. \A s \in Threads : ToPut(doing'[s], lqueue'[s]) \subseteq ToPut(doing[s], lqueue[s])
    BY <2>12
  <2> QED
    BY <1>1, <1>2, <1>3, <2>6, <2>10, <2>13
<1>7. CASE \E n \in todo : Take(t, n, IF n \in front THEN [step |-> "push", n |-> n] ELSE Idle)
           /\ UNCHANGED lqueue
  BY <1>4, <1>5, <1>7
<1> QED
  BY <1>6, <1>7 DEF ToQueue, At, queueVars

LEMMA FlushesBuffer ==
  ASSUME IsGraph(graph), NEW c, Searching(c), NEW t \in Threads, BfsFlush(t)
  PROVE  \E c2 : Searching(c2)' /\ c2 = AfterFlush(c, t) /\ UNCHANGED <<region, todo>>
<1> DEFINE found == Found(graph, parent)
           state == States(graph, region)
           nexts == IF region = "top down" THEN Continuing(graph) ELSE {Idle}
<1>1. /\ region \in {"top down", "to queue"}
      /\ parent \in [Vertices(graph) -> Int] /\ front \subseteq Vertices(graph)
      /\ Tidy(graph, c, queue, found, doing, lqueue) /\ doing \in [Threads -> state]
      /\ InRegion(c) /\ UNCHANGED <<job, graph, parent, front, curr>>
      /\ FlushAtEnd(t) \/ Flushing(t)
  BY DEF Searching, BfsFlush, bfsVars
<1>2. Fills(state, nexts)
  <2>1. CASE region = "top down"
    <3>1. state = TopDownState(graph) /\ nexts = Continuing(graph)
      BY <2>1, StatesOf
    <3>2. Idle \in nexts /\ nexts \subseteq state /\ FlushState(graph, nexts) \subseteq state
      BY <3>1 DEF TopDownState, Continuing
    <3> HIDE DEF state, nexts
    <3> QED
      BY <3>1, <3>2, StatesByStep, ContinuingHasNothing DEF Fills
  <2>2. CASE region # "top down"
    <3>1. state = FillingState(graph) /\ nexts = {Idle}
      BY <1>1, <2>2, StatesOf
    <3>2. Idle.step \notin {"reserve", "copy", "push"}
      BY DEF Idle
    <3>3. nexts \subseteq state /\ FlushState(graph, nexts) \subseteq state
      BY <3>1 DEF FillingState
    <3> HIDE DEF state, nexts
    <3> QED
      BY <3>1, <3>2, <3>3, StatesByStep DEF Fills
  <2> QED
    BY <2>1, <2>2
<1> HIDE DEF found, state, nexts
<1>3. PICK c2 :
        /\ Tidy(graph, c2, queue', found, doing', lqueue')
        /\ doing' \in [Threads -> state] /\ UNCHANGED <<region, todo>>
        /\ queue'.shared_out_end = queue.shared_out_end
        /\ Range(c2) \subseteq Range(c) \cup ToPut(doing[t], lqueue[t])
        /\ \A s \in Threads : ToPut(doing'[s], lqueue'[s]) \subseteq ToPut(doing[s], lqueue[s])
        /\ c2 = AfterFlush(c, t)
  BY <1>1, <1>2, TidyWhenFlushed
<1>4. InRegion(c2)'
  <2>1. CASE region = "top down"
    BY <1>1, <1>3, <2>1 DEF InRegion
  <2>2. CASE region = "to queue"
    <3>1. /\ todo \cap front \subseteq Fresh(c, found)
          /\ \A s \in Threads : todo \cap front \cap ToPut(doing[s], lqueue[s]) = {}
      BY <1>1, <2>2 DEF InRegion, found
    <3>2. todo \cap front \subseteq Fresh(c2, found)
      BY <1>3, <3>1 DEF Fresh
    <3> QED
      BY <1>1, <1>3, <2>2, <3>1, <3>2 DEF InRegion, found
  <2> QED
    BY <1>1, <2>1, <2>2
<1>5. /\ doing' \in [Threads -> States(graph, region)] /\ region' = region
      /\ Tidy(graph, c2, queue', Found(graph, parent), doing', lqueue')
  BY <1>3 DEF found, state
<1>6. Searching(c2)'
  BY <1>1, <1>4, <1>5 DEF Searching
<1> QED
  BY <1>3, <1>6

LEMMA BfsInvHolds == BfsSpec => []BfsInv
<1>1. BfsStart => BfsInv
  BY DEF BfsStart, BfsInv
<1>2. ASSUME BfsInv, [BfsNext]_bfsAll
      PROVE  BfsInv'
  <2>1. /\ IsGraph(graph) /\ job.source \in Vertices(graph)
        /\ UNCHANGED <<job, graph>>
    BY <1>2 DEF BfsInv, BfsNext, bfsAll, StartBfs, ChooseDirection, EndTopDown, EndToBitmap,
             EndBottomUp, EndToQueue, TopDown, Visit, ToBitmap, BottomUp, ToQueue, BfsFlush
  <2>2. ASSUME NEW c, Searching(c)'
        PROVE  BfsInv'
    BY <2>1, <2>2 DEF BfsInv
  <2>3. CASE UNCHANGED bfsAll
    <3>1. UNCHANGED <<job, graph, region, todo, doing, queue, lqueue, parent, front, curr>>
      BY <2>3 DEF bfsAll, loopVars, queueVars, bfsVars
    <3>2. ASSUME NEW c, Searching(c)
          PROVE  Searching(c)'
      <4>1. InRegion(c)'
        BY <3>1, <3>2 DEF Searching, InRegion
      <4> QED
        BY <3>1, <3>2, <4>1 DEF Searching
    <3> QED
      BY <1>2, <2>2, <3>1, <3>2 DEF BfsInv
  <2>4. CASE BfsNext /\ region = "built"
    <3>1. /\ doing = [t \in Threads |-> Idle] /\ lqueue = NoBuffers
      BY <1>2, <2>4 DEF BfsInv, Searching
    <3>2. StartBfs
      BY <2>4 DEF BfsNext, ChooseDirection, EndTopDown, EndToBitmap, EndBottomUp, EndToQueue,
                  AllFlushed, AllDone, TopDown, Visit, ToBitmap, BottomUp, ToQueue, BfsFlush, At
    <3>3. PICK c : c = [i \in 0..0 |-> job.source]
      OBVIOUS
    <3>4. Searching(c)'
      BY <2>1, <3>1, <3>2, <3>3, StartsSearching
    <3> QED
      BY <2>2, <3>4
  <2>5. CASE BfsNext /\ region # "built"
    <3>1. PICK c : Searching(c)
      BY <1>2, <2>5 DEF BfsInv
    <3>2. CASE ChooseDirection \/ EndTopDown \/ EndToBitmap \/ EndBottomUp \/ EndToQueue
      BY <2>2, <3>1, <3>2, ChoosesDirection, SearchesOn, EndsToBitmap, EndsBottomUp
    <3>3. ASSUME NEW t \in Threads,
                 TopDown(t) \/ ToBitmap(t) \/ BottomUp(t) \/ ToQueue(t) \/ BfsFlush(t)
          PROVE  BfsInv'
      BY <2>1, <2>2, <3>1, <3>3, SearchesTopDown, FillsBitmap, SearchesBottomUp, FillsQueue,
         FlushesBuffer
    <3> QED
      BY <2>5, <3>2, <3>3 DEF BfsNext, StartBfs
  <2> QED
    BY <1>2, <2>3, <2>4, <2>5
<1> QED
  BY <1>1, <1>2, PTL DEF BfsSpec

(* Breadth-first search never puts a node into its queue twice, and so     *)
(* never outgrows it (bfs.cc:133: one entry for each node), on any graph,  *)
(* for any number of threads and any size of their buffers, in whatever    *)
(* order room is reserved and buffers are copied.                          *)
THEOREM SearchQueuesNodesOnce == BfsSpec => []QueueHoldsNodesOnce
<1>1. BfsInv => QueueHoldsNodesOnce
  <2>1. ASSUME IsGraph(graph), NEW c, Searching(c)
        PROVE  QueueHoldsNodesOnce
    <3>1. Tidy(graph, c, queue, Found(graph, parent), doing, lqueue)
      BY <2>1 DEF Searching
    <3> QED
      BY <2>1, <3>1, HoldsOnce
  <2> QED
    BY <2>1, HoldsOnce DEF BfsInv
<1> QED
  BY <1>1, BfsInvHolds, PTL

-----------------------------------------------------------------------------
(* Betweenness centrality: its searches, one after the other, use the      *)
(* queue again.                                                            *)

Addresses(g) ==
  {VertexOffsets(g, g.out)[u + 1] + k - 1 : u \in Vertices(g), k \in Nat}

Edge(g) == [v : Vertices(g), at : Addresses(g)]

VisitingSteps == {"test", "swap", "compare", "count"}

Visiting(g) == [step : VisitingSteps, u : Vertices(g), left : Seq(Edge(g)) \ {<< >>}]

BackFrom(g)    == {Idle} \cup Visiting(g)
ExpandState(g) == BackFrom(g) \cup FlushState(g, BackFrom(g))

Expanding(c) ==
  /\ region \in {"level", "expand", "back", "finished"}
  /\ depth \in Nat /\ depths \in [Vertices(graph) -> Int]
  /\ Tidy(graph, c, queue, Found(graph, depths), doing, lqueue)
  /\ doing \in [Threads -> IF region = "expand" THEN ExpandState(graph) ELSE {Idle}]
  /\ IF region = "expand" THEN todo \subseteq 0..(queue.shared_out_end - 1)
                          ELSE lqueue = NoBuffers

BcInv ==
  /\ IsGraph(graph)
  /\ \/ /\ region = "built" /\ doing = [t \in Threads |-> Idle]
        /\ queue = EmptyQueue(0) /\ lqueue = NoBuffers
     \/ \E c : Expanding(c)

LEMMA VisitsOn ==
  ASSUME NEW g, NEW d \in Visiting(g)
  PROVE  /\ d.step \in VisitingSteps /\ Head(d.left) \in Edge(g)
         /\ Head(d.left).v \in Vertices(g)
         /\ \A s \in VisitingSteps : [d EXCEPT !.step = s] \in Visiting(g)
         /\ UnlessDone([d EXCEPT !.step = "test", !.left = Tail(@)]) \in BackFrom(g)
<1>1. /\ d.step \in VisitingSteps /\ d.u \in Vertices(g)
      /\ d.left \in Seq(Edge(g)) /\ d.left # << >>
      /\ d = [step |-> d.step, u |-> d.u, left |-> d.left]
  BY DEF Visiting
<1>2. Head(d.left) \in Edge(g) /\ Tail(d.left) \in Seq(Edge(g))
  BY <1>1
<1>3. Head(d.left).v \in Vertices(g)
  BY <1>2 DEF Edge
<1>4. \A s \in VisitingSteps : [d EXCEPT !.step = s] \in Visiting(g)
  BY DEF Visiting
<1>5. PICK e : e = [d EXCEPT !.step = "test", !.left = Tail(@)]
  OBVIOUS
<1>6. e = [step |-> "test", u |-> d.u, left |-> Tail(d.left)]
  BY <1>1, <1>5
<1>7. e.left = Tail(d.left) /\ (e.left # << >> => e \in Visiting(g))
  BY <1>1, <1>2, <1>6 DEF Visiting, VisitingSteps
<1> QED
  BY <1>1, <1>2, <1>3, <1>4, <1>5, <1>7 DEF UnlessDone, BackFrom

LEMMA VisitingHasNothing ==
  ASSUME NEW g, NEW d \in BackFrom(g)
  PROVE  d.step \notin {"reserve", "copy", "push"} /\ Handed(d) = {} /\ d \in ExpandState(g)
BY DEF Handed, BackFrom, Visiting, VisitingSteps, Idle, ExpandState

LEMMA VisitingByStep ==
  ASSUME NEW g, NEW d \in ExpandState(g)
  PROVE  /\ d.step \in VisitingSteps => d \in Visiting(g)
         /\ d.step \in {"reserve", "copy"} => d \in FlushState(g, BackFrom(g))
BY DEF ExpandState, BackFrom, Visiting, VisitingSteps, FlushState, Idle

LEMMA EdgesAreEdges ==
  ASSUME IsGraph(graph), NEW u \in Vertices(graph)
  PROVE  EdgesOf(u) \in Seq(Edge(graph))
<1>1. /\ graph.out[u] \in Seq(Neighbour(graph))
      /\ DOMAIN graph.out[u] = 1..Len(graph.out[u]) /\ Len(graph.out[u]) \in Nat
  BY DEF IsGraph
<1>2. \A k \in 1..Len(graph.out[u]) : graph.out[u][k].v \in Vertices(graph)
  <2>1. \A k \in 1..Len(graph.out[u]) : graph.out[u][k] \in Neighbour(graph)
    BY <1>1
  <2> QED
    BY <2>1 DEF Neighbour
<1>3. \A k \in 1..Len(graph.out[u]) :
        VertexOffsets(graph, graph.out)[u + 1] + k - 1 \in Addresses(graph)
  BY <1>1 DEF Addresses
<1> QED
  BY <1>1, <1>2, <1>3 DEF EdgesOf, Edge

(* A source's search begins.                                               *)
LEMMA SourceBegins ==
  ASSUME IsGraph(graph), NEW q \in Queues(graph), q.shared_in = 0, lqueue = NoBuffers,
         BeginSource(q), UNCHANGED <<job, graph, lqueue>>
  PROVE  \E s \in Vertices(graph) :
           /\ Expanding([i \in 0..0 |-> s])'
           /\ depths' = [[n \in Vertices(graph) |-> -1] EXCEPT ![s] = 0]
           /\ queue' = slide_window(push_back(q, s))
           /\ sources' = Append(sources, s)
<1>1. PICK s \in Pickable :
        /\ depths' = [[n \in Vertices(graph) |-> -1] EXCEPT ![s] = 0]
        /\ queue' = slide_window(push_back(q, s))
        /\ sources' = Append(sources, s)
  BY DEF BeginSource
<1>2. /\ depth' = 0 /\ region' = "level" /\ doing' = [t \in Threads |-> Idle]
  BY DEF BeginSource, Enter
<1>3. PICK c : c = [i \in 0..0 |-> s]
  OBVIOUS
<1>4. /\ s \in Vertices(graph) /\ depths' \in [Vertices(graph) -> Int] /\ depths'[s] = 0
  BY <1>1 DEF Pickable
<1>5. s \in Found(graph, depths') /\ Found(graph, depths') \subseteq Vertices(graph)
  BY <1>4 DEF Found
<1>6. Tidy(graph, c, queue', Found(graph, depths'), doing', NoBuffers)
  BY <1>1, <1>2, <1>3, <1>4, <1>5, TidyWhenBegun
<1>7. lqueue' = NoBuffers /\ graph' = graph
  BY DEF NoBuffers
<1>8. Expanding(c)'
  BY <1>2, <1>4, <1>6, <1>7 DEF Expanding, NoBuffers
<1> QED
  BY <1>1, <1>3, <1>4, <1>8

LEMMA EntersLevel ==
  ASSUME NEW c, Expanding(c), BeginLevel \/ EndLevel
  PROVE  Expanding(c)'
<1> DEFINE found == Found(graph, depths)
<1>1. /\ lqueue = NoBuffers /\ \A t \in Threads : doing[t] = Idle
      /\ depth \in Nat /\ depths \in [Vertices(graph) -> Int]
      /\ Tidy(graph, c, queue, found, doing, lqueue) /\ found \subseteq Vertices(graph)
      /\ UNCHANGED <<job, graph, lqueue, depths>>
  BY DEF Expanding, BeginLevel, EndLevel, AllFlushed, AllDone, queueVars, Found
<1>2. PICK r, its :
        /\ r \in {"level", "expand", "back"} /\ (r = "expand" => its = Window(queue))
        /\ Enter(r, its) /\ depth' \in Nat
        /\ \/ queue' = queue /\ r # "level"
           \/ queue' = slide_window(queue) /\ r = "level"
  <2>1. CASE BeginLevel /\ empty(queue)
    <3>1. Enter("back", {}) /\ depth' = depth /\ queue' = queue
      BY <2>1 DEF BeginLevel, queueVars
    <3> QED
      BY <1>1, <3>1
  <2>2. CASE BeginLevel /\ ~empty(queue)
    <3>1. Enter("expand", Window(queue)) /\ depth' = depth + 1 /\ queue' = queue
      BY <2>2 DEF BeginLevel, queueVars
    <3> QED
      BY <1>1, <3>1
  <2>3. CASE EndLevel
    <3>1. Enter("level", {}) /\ depth' = depth /\ queue' = slide_window(queue)
      BY <2>3 DEF EndLevel
    <3> QED
      BY <1>1, <3>1
  <2> QED
    BY <2>1, <2>2, <2>3
<1>3. /\ Tidy(graph, c, queue', found, doing', lqueue) /\ region' = r /\ todo' = its
      /\ doing' = [t \in Threads |-> Idle]
  <2>1. /\ Tidy(graph, c, queue, found, doing', lqueue)
        /\ Tidy(graph, c, slide_window(queue), found, doing', lqueue)
        /\ region' = r /\ todo' = its /\ doing' = [t \in Threads |-> Idle]
    BY <1>1, <1>2, TidyWhenEntering
  <2> QED
    BY <1>2, <2>1
<1>4. Window(queue) \subseteq 0..(queue.shared_out_end - 1)
  BY <1>1 DEF Window, Tidy, Queues
<1>5. doing' \in [Threads -> IF region' = "expand" THEN ExpandState(graph) ELSE {Idle}]
  BY <1>3 DEF ExpandState, BackFrom
<1> QED
  BY <1>1, <1>2, <1>3, <1>4, <1>5 DEF Expanding

LEMMA ExpandsLevel ==
  ASSUME IsGraph(graph), NEW c, Expanding(c), NEW t \in Threads,
         Expand(t) \/ Test(t) \/ Swap(t) \/ Compare(t) \/ Count(t)
  PROVE  Expanding(c)'
<1> DEFINE found == Found(graph, depths)
<1>1. /\ region = "expand" /\ depth \in Nat /\ depths \in [Vertices(graph) -> Int]
      /\ Tidy(graph, c, queue, found, doing, lqueue) /\ found \subseteq Vertices(graph)
      /\ doing \in [Threads -> ExpandState(graph)] /\ DOMAIN doing = Threads
      /\ todo \subseteq 0..(queue.shared_out_end - 1)
  BY DEF Expanding, Expand, Test, Swap, Compare, Count, At, Found
<1>2. /\ UNCHANGED <<job, graph, queue, depth>> /\ region' = region /\ todo' \subseteq todo
  BY DEF Expand, Test, Swap, Compare, Count, At, Take, Proceed, Push, queueVars, bcVars
<1>3. ASSUME depths' \in [Vertices(graph) -> Int],
             Tidy(graph, c, queue, Found(graph, depths'), doing', lqueue'),
             doing' \in [Threads -> ExpandState(graph)]
      PROVE  Expanding(c)'
  BY <1>1, <1>2, <1>3 DEF Expanding
<1>4. ASSUME NEW next \in BackFrom(graph), doing' = [doing EXCEPT ![t] = next],
             doing[t].step \notin {"reserve", "copy", "push"}, UNCHANGED <<depths, lqueue>>
      PROVE  Expanding(c)'
  <2>1. next.step # "copy" /\ Handed(next) = {} /\ next \in ExpandState(graph)
    BY VisitingHasNothing
  <2>2. Tidy(graph, c, queue, found, doing', lqueue)
    BY <1>1, <1>4, <2>1, EmptyHands, TidyWhenProceeding
  <2>3. doing' \in [Threads -> ExpandState(graph)]
    BY <1>1, <1>4, <2>1
  <2> QED
    BY <1>1, <1>3, <1>4, <2>2, <2>3
<1>5. CASE Expand(t)
  <2>1. PICK i \in todo :
          Take(t, i, UnlessDone([step |-> "test", u |-> queue.shared[i],
                                 left |-> EdgesOf(queue.shared[i])]))
    BY <1>5 DEF Expand
  <2>2. PICK u : u = queue.shared[i]
    OBVIOUS
  <2>3. u \in Vertices(graph) /\ EdgesOf(u) \in Seq(Edge(graph))
    BY <1>1, <2>2, TidyFits, EdgesAreEdges
  <2>4. PICK e : e = [step |-> "test", u |-> u, left |-> EdgesOf(u)]
    OBVIOUS
  <2>5. UnlessDone(e) \in BackFrom(graph)
    BY <2>3, <2>4 DEF UnlessDone, BackFrom, Visiting, VisitingSteps
  <2>6. /\ doing[t] = Idle /\ doing' = [doing EXCEPT ![t] = UnlessDone(e)]
        /\ UNCHANGED <<depths, lqueue>>
    BY <1>5, <2>1, <2>2, <2>4 DEF Expand, Take, queueVars, bcVars
  <2> QED
    <3>1. Idle.step \notin {"reserve", "copy", "push"}
      BY DEF Idle
    <3> QED
      BY <1>4, <2>5, <2>6, <3>1
<1>6. ASSUME doing[t].step \in VisitingSteps
      PROVE  /\ doing[t] \in Visiting(graph)
             /\ doing[t].step \notin {"reserve", "copy", "push"}
             /\ Head(doing[t].left).v \in Vertices(graph)
             /\ \A s \in VisitingSteps : [doing[t] EXCEPT !.step = s] \in BackFrom(graph)
             /\ UnlessDone([doing[t] EXCEPT !.step = "test", !.left = Tail(@)]) \in BackFrom(graph)
  <2>1. doing[t] \in Visiting(graph)
    BY <1>1, <1>6, VisitingByStep
  <2> QED
    BY <1>6, <2>1, VisitsOn DEF BackFrom, VisitingSteps
<1>7. CASE Test(t)
  <2>1. /\ doing[t].step = "test" /\ UNCHANGED <<depths, lqueue>>
        /\ \E s \in VisitingSteps : doing' = [doing EXCEPT ![t] = [doing[t] EXCEPT !.step = s]]
    BY <1>7 DEF Test, At, Proceed, queueVars, bcVars, VisitingSteps
  <2> QED
    BY <1>4, <1>6, <2>1 DEF VisitingSteps
<1>8. CASE Compare(t)
  <2>1. /\ doing[t].step = "compare" /\ UNCHANGED <<depths, lqueue>>
        /\ \/ doing' = [doing EXCEPT ![t] = [doing[t] EXCEPT !.step = "count"]]
           \/ doing' = [doing EXCEPT ![t] =
                          UnlessDone([doing[t] EXCEPT !.step = "test", !.left = Tail(@)])]
    BY <1>8 DEF Compare, At, Proceed, queueVars
  <2> QED
    BY <1>4, <1>6, <2>1 DEF VisitingSteps
<1>9. CASE Count(t)
  <2>1. /\ doing[t].step = "count" /\ UNCHANGED <<depths, lqueue>>
        /\ doing' = [doing EXCEPT ![t] =
                       UnlessDone([doing[t] EXCEPT !.step = "test", !.left = Tail(@)])]
    BY <1>9 DEF Count, At, Proceed, queueVars
  <2> QED
    BY <1>4, <1>6, <2>1 DEF VisitingSteps
<1>10. CASE Swap(t)
  <2>1. PICK v : v = Head(doing[t].left).v
    OBVIOUS
  <2>2. PICK next : next = [doing[t] EXCEPT !.step = "compare"]
    OBVIOUS
  <2>3. /\ doing[t].step = "swap"
        /\ IF depths[v] = -1
             THEN depths' = [depths EXCEPT ![v] = depth] /\ Push(t, v, next)
             ELSE Proceed(t, next) /\ UNCHANGED <<depths, lqueue>>
    BY <1>10, <2>1, <2>2 DEF Swap, At
  <2>4. /\ v \in Vertices(graph) /\ next \in BackFrom(graph)
        /\ next.step \notin {"reserve", "copy", "push"} /\ next \in ExpandState(graph)
        /\ doing[t].step \notin {"reserve", "copy", "push"}
    BY <1>6, <2>1, <2>2, <2>3, VisitingHasNothing DEF VisitingSteps
  <2>5. CASE depths[v] # -1
    BY <1>4, <2>3, <2>4, <2>5 DEF Proceed
  <2>6. CASE depths[v] = -1
    <3> DEFINE found2 == Found(graph, depths')
    <3>1. depths' = [depths EXCEPT ![v] = depth] /\ Push(t, v, next)
      BY <2>3, <2>6
    <3>2. /\ depths' \in [Vertices(graph) -> Int]
          /\ found2 = found \cup {v} /\ v \notin found
      <4>1. /\ depths' \in [Vertices(graph) -> Int] /\ depths'[v] = depth
            /\ \A n \in Vertices(graph) \ {v} : depths'[n] = depths[n]
        BY <1>1, <2>4, <3>1
      <4> QED
        BY <1>1, <2>4, <2>6, <4>1 DEF Found
    <3> HIDE DEF found2, found
    <3>3. Tidy(graph, c, queue, found2, doing, lqueue)
      BY <1>1, <2>4, <3>2, TidyWhenQuiet
    <3>4. TakesNode(c, found2, doing, lqueue, t, v)
      <4>1. Handed(doing[t]) = {} /\ doing[t].step # "copy"
        BY <2>4, EmptyHands
      <4>2. v \notin Range(c)
        BY <1>1, <3>2 DEF Tidy, Range
      <4>3. \A s \in Threads : v \notin ToPut(doing[s], lqueue[s])
        BY <1>1, <3>2 DEF Tidy, OnceInAll, Fresh
      <4>4. v \notin Range(lqueue[t])
        BY <4>1, <4>3 DEF ToPut
      <4> QED
        BY <3>2, <4>1, <4>2, <4>3, <4>4 DEF TakesNode, Fresh
    <3>5. /\ Tidy(graph, c, queue, found2, doing', lqueue')
          /\ \/ doing' = [doing EXCEPT ![t] = next]
             \/ doing' = [doing EXCEPT ![t] = [step |-> "reserve", pushed |-> v, next |-> next]]
      <4>1. Pushes(doing, lqueue, t, v, next, doing', lqueue')
        BY <3>1 DEF Push, Proceed, Pushes
      <4>2. Tidy(graph, c, queue, found2, doing', lqueue')
        BY <1>1, <2>4, <3>3, <3>4, <4>1, TidyWhenPushed
      <4> QED
        BY <4>1, <4>2 DEF Pushes
    <3>6. [step |-> "reserve", pushed |-> v, next |-> next] \in ExpandState(graph)
      BY <2>4 DEF ExpandState, FlushState
    <3>7. doing' \in [Threads -> ExpandState(graph)]
      BY <1>1, <2>4, <3>5, <3>6
    <3> QED
      BY <1>3, <3>2, <3>5, <3>7 DEF found2
  <2> QED
    BY <2>5, <2>6
<1> QED
  BY <1>5, <1>7, <1>8, <1>9, <1>10

LEMMA FlushesLevel ==
  ASSUME IsGraph(graph), NEW c, Expanding(c), NEW t \in Threads, BcFlush(t)
  PROVE  \E c2 : /\ Expanding(c2)'
                 /\ c2 = AfterFlush(c, t)
<1> DEFINE found == Found(graph, depths)
           state == ExpandState(graph)
           nexts == BackFrom(graph)
<1>1. /\ region = "expand" /\ depth \in Nat /\ depths \in [Vertices(graph) -> Int]
      /\ Tidy(graph, c, queue, found, doing, lqueue) /\ doing \in [Threads -> state]
      /\ todo \subseteq 0..(queue.shared_out_end - 1)
      /\ UNCHANGED <<job, graph, depth, depths>>
      /\ FlushAtEnd(t) \/ Flushing(t)
  BY DEF Expanding, BcFlush, bcVars
<1>2. Fills(state, nexts)
  <2>1. Idle \in nexts /\ nexts \subseteq state /\ FlushState(graph, nexts) \subseteq state
    BY DEF ExpandState, BackFrom
  <2>2. \A d \in nexts : d.step \notin {"reserve", "copy", "push"}
    BY VisitingHasNothing
  <2>3. \A d \in state : d.step \in {"reserve", "copy"} => d \in FlushState(graph, nexts)
    BY VisitingByStep
  <2> HIDE DEF state, nexts
  <2> QED
    BY <2>1, <2>2, <2>3 DEF Fills
<1> HIDE DEF found, state, nexts
<1>3. PICK c2 :
        /\ Tidy(graph, c2, queue', found, doing', lqueue')
        /\ doing' \in [Threads -> state] /\ UNCHANGED <<region, todo>>
        /\ queue'.shared_out_end = queue.shared_out_end
        /\ c2 = AfterFlush(c, t)
  BY <1>1, <1>2, TidyWhenFlushed
<1>4. /\ doing' \in [Threads -> ExpandState(graph)]
      /\ Tidy(graph, c2, queue', Found(graph, depths), doing', lqueue')
  BY <1>3 DEF found, state
<1>5. Expanding(c2)'
  BY <1>1, <1>3, <1>4 DEF Expanding
<1> QED
  BY <1>3, <1>5

LEMMA BcInvHolds == BcSpec => []BcInv
<1>1. BcStart => BcInv
  BY DEF BcStart, BcInv
<1>2. ASSUME BcInv, [BcNext]_bcAll
      PROVE  BcInv'
  <2>1. IsGraph(graph) /\ UNCHANGED <<job, graph>>
    BY <1>2 DEF BcInv, BcNext, bcAll, StartBc, BeginLevel, EndLevel, EndSource, Expand, Test, Swap,
             Compare, Count, BcFlush
  <2>2. ASSUME NEW c, Expanding(c)'
        PROVE  BcInv'
    BY <2>1, <2>2 DEF BcInv
  <2>3. CASE UNCHANGED bcAll
    <3>1. UNCHANGED <<job, graph, region, todo, doing, queue, lqueue, depth, depths>>
      BY <2>3 DEF bcAll, loopVars, queueVars, bcVars
    <3>2. ASSUME NEW c, Expanding(c)
          PROVE  Expanding(c)'
      BY <3>1, <3>2 DEF Expanding
    <3> QED
      BY <1>2, <2>2, <3>1, <3>2 DEF BcInv
  <2>4. CASE StartBc
    <3>1. lqueue = NoBuffers
      BY <1>2, <2>4 DEF BcInv, Expanding, StartBc
    <3>2. BeginSource(EmptyQueue(graph.num_nodes)) /\ UNCHANGED <<job, graph, lqueue>>
      BY <2>4 DEF StartBc
    <3> QED
      BY <2>1, <2>2, <3>1, <3>2, NewQueues, SourceBegins
  <2>5. CASE BcNext /\ ~StartBc
    <3>1. PICK c : Expanding(c)
      <4>1. region # "built"
        BY <2>5 DEF BcNext, BeginLevel, EndLevel, EndSource, AllFlushed, AllDone, Expand, Test,
                    Swap, Compare, Count, BcFlush, At
      <4> QED
        BY <1>2, <4>1 DEF BcInv
    <3>2. CASE BeginLevel \/ EndLevel
      BY <2>2, <3>1, <3>2, EntersLevel
    <3>3. CASE EndSource
      <4>1. /\ lqueue = NoBuffers /\ queue \in Queues(graph) /\ \A t \in Threads : doing[t] = Idle
            /\ UNCHANGED <<job, graph, lqueue>>
        BY <3>1, <3>3 DEF Expanding, EndSource, Tidy
      <4>2. CASE BeginSource(ResetQueue(queue))
        BY <2>1, <2>2, <4>1, <4>2, NewQueues, SourceBegins
      <4>3. CASE Enter("finished", {}) /\ UNCHANGED <<queue, depth, depths>>
        <5>1. /\ Tidy(graph, c, queue, Found(graph, depths), doing, lqueue)
              /\ Found(graph, depths) \subseteq Vertices(graph)
          BY <3>1 DEF Expanding, Found
        <5>2. /\ Tidy(graph, c, queue, Found(graph, depths), doing', lqueue)
              /\ region' = "finished" /\ doing' = [t \in Threads |-> Idle]
          BY <4>1, <4>3, <5>1, TidyWhenEntering
        <5>3. Expanding(c)'
          BY <3>1, <4>1, <4>3, <5>2 DEF Expanding
        <5> QED
          BY <2>2, <5>3
      <4> QED
        BY <3>3, <4>2, <4>3 DEF EndSource
    <3>4. ASSUME NEW t \in Threads,
                 Expand(t) \/ Test(t) \/ Swap(t) \/ Compare(t) \/ Count(t) \/ BcFlush(t)
          PROVE  BcInv'
      BY <2>1, <2>2, <3>1, <3>4, ExpandsLevel, FlushesLevel
    <3> QED
      BY <2>5, <3>2, <3>3, <3>4 DEF BcNext
  <2> QED
    BY <1>2, <2>3, <2>4, <2>5
<1> QED
  BY <1>1, <1>2, PTL DEF BcSpec

(* The same of the searches of betweenness centrality, for any number of   *)
(* sources (bc.cc:103).                                                    *)
THEOREM ScoringQueuesNodesOnce == BcSpec => []QueueHoldsNodesOnce
<1>1. BcInv => QueueHoldsNodesOnce
  <2>1. ASSUME IsGraph(graph), NEW c, Expanding(c)
        PROVE  QueueHoldsNodesOnce
    <3>1. Tidy(graph, c, queue, Found(graph, depths), doing, lqueue)
      BY <2>1 DEF Expanding
    <3> QED
      BY <2>1, <3>1, HoldsOnce
  <2> QED
    BY <2>1, HoldsOnce DEF BcInv
<1> QED
  BY <1>1, BcInvHolds, PTL

-----------------------------------------------------------------------------
(* The searches of betweenness centrality are searches by levels           *)
(*                                                                         *)
(* What is already in the queue, or on its way there, tells how deep a     *)
(* node was found: the window is the level above the one being found, what *)
(* is behind it is that level.  A node above is followed, or waits in the  *)
(* window, or is in the hands of a thread that has still to look at the    *)
(* edges that lead to nodes not found yet.                                 *)

BcSearch == INSTANCE LevelSearch WITH
  nodes <- Vertices(graph),
  edges <- {e \in Vertices(graph) \X Vertices(graph) : HasEdge(graph, e[1], e[2])},
  level <- depths,
  over  <- region \in {"built", "back", "finished"}

Source == sources[Len(sources)]

Followed(n) ==
  \A v \in Vertices(graph) : HasEdge(graph, n, v) => depths[v] \in 0..(depths[n] + 1)

DepthsSupported ==
  /\ \A n \in Vertices(graph) : depths[n] \in -1..depth /\ (depths[n] = 0 <=> n = Source)
  /\ \A n \in Vertices(graph) : depths[n] > 0 =>
       \E u \in Vertices(graph) : HasEdge(graph, u, n) /\ depths[n] = depths[u] + 1

Visits(d, u) == VisitOf(d).step \in VisitingSteps /\ VisitOf(d).u = u

VisitGood(w) ==
  w.step \in VisitingSteps =>
    /\ depths[w.u] = depth - 1
    /\ \A k \in DOMAIN w.left : HasEdge(graph, w.u, w.left[k].v)
    /\ \A v \in Vertices(graph) : HasEdge(graph, w.u, v) =>
         depths[v] >= 0 \/ \E k \in DOMAIN w.left : w.left[k].v = v
    /\ w.step \in {"compare", "count"} => depths[Head(w.left).v] >= 0

(* The window holds the nodes of one depth, what is below it less deep     *)
(* ones, and whatever is less deep is followed.                            *)
WindowIs(c, d) ==
  /\ \A i \in Window(queue) : depths[c[i]] = d
  /\ \A i \in 0..(queue.shared_out_start - 1) : depths[c[i]] < d
  /\ \A n \in Vertices(graph) : depths[n] = d => \E i \in Window(queue) : c[i] = n
  /\ \A n \in Vertices(graph) : depths[n] \in 0..(d - 1) => Followed(n)

Leveled(c) ==
  /\ DepthsSupported
  /\ region = "level" => WindowIs(c, depth) /\ queue.shared_in = queue.shared_out_end
  /\ region = "expand" =>
       /\ depth > 0 /\ WindowIs(c, depth - 1)
       /\ todo \subseteq Window(queue)
       /\ \A i \in Window(queue) \ todo :
            Followed(c[i]) \/ \E t \in Threads : Visits(doing[t], c[i])
       /\ \A t \in Threads : VisitGood(VisitOf(doing[t]))
       /\ {n \in Vertices(graph) : depths[n] = depth} = Behind(c) \cup AboutToPut
  /\ region = "back" => \A n \in Vertices(graph) : depths[n] >= 0 => Followed(n)

BcLevels ==
  /\ IsGraph(graph) /\ sources \in Seq(Vertices(graph))
  /\ \/ /\ region = "built" /\ doing = [t \in Threads |-> Idle]
        /\ queue = EmptyQueue(0) /\ lqueue = NoBuffers /\ depths = << >>
     \/ region = "finished" /\ depths # << >>
     \/ /\ region \in {"level", "expand", "back"} /\ sources # << >>
        /\ \E c : Expanding(c) /\ Leveled(c)

(* What the array is to be, as functions and their fields.                 *)
LEMMA ExpandingTypes ==
  ASSUME IsGraph(graph), NEW c, Expanding(c)
  PROVE  /\ queue.shared_in \in Nat /\ queue.shared_out_start \in Nat
         /\ queue.shared_out_end \in Nat
         /\ queue.shared_out_start <= queue.shared_out_end
         /\ queue.shared_out_end <= queue.shared_in
         /\ depth \in Nat /\ depths \in [Vertices(graph) -> Int]
         /\ \A i \in 0..(queue.shared_in - 1) : c[i] \in Vertices(graph)
         /\ \A i \in Window(queue) : i \in 0..(queue.shared_in - 1) /\ queue.shared[i] = c[i]
         /\ DOMAIN doing = Threads
<1>1. Tidy(graph, c, queue, Found(graph, depths), doing, lqueue)
  BY DEF Expanding
<1>2. /\ queue.shared_in \in Nat /\ queue.shared_out_start \in Nat
      /\ queue.shared_out_end \in Nat
      /\ queue.shared_out_start <= queue.shared_out_end
      /\ queue.shared_out_end <= queue.shared_in
  BY <1>1 DEF Tidy, Queues
<1>3. \A i \in 0..(queue.shared_in - 1) : c[i] \in Vertices(graph)
  BY <1>1 DEF Tidy, Found
<1>4. \A i \in 0..(queue.shared_out_end - 1) : queue.shared[i] = c[i]
  BY <1>1, TidyFits
<1>5. \A i \in Window(queue) : i \in 0..(queue.shared_in - 1) /\ i \in 0..(queue.shared_out_end - 1)
  BY <1>2 DEF Window
<1>6. DOMAIN doing = Threads
  BY DEF Expanding
<1> QED BY <1>2, <1>3, <1>4, <1>5, <1>6 DEF Expanding

(* A search begins.                                                        *)
LEMMA SourceIsLeveled ==
  ASSUME IsGraph(graph), NEW q \in Queues(graph), q.shared_in = 0, lqueue = NoBuffers,
         BeginSource(q), UNCHANGED <<job, graph, lqueue>>, sources \in Seq(Vertices(graph))
  PROVE  /\ \E c : Expanding(c)' /\ Leveled(c)'
         /\ region' = "level" /\ sources' \in Seq(Vertices(graph)) \ {<< >>}
         /\ \E s \in Vertices(graph) :
              depths' = [n \in Vertices(graph) |-> IF n = s THEN 0 ELSE -1]
<1>1. PICK s \in Vertices(graph) :
           /\ Expanding([i \in 0..0 |-> s])'
           /\ depths' = [[n \in Vertices(graph) |-> -1] EXCEPT ![s] = 0]
           /\ queue' = slide_window(push_back(q, s))
           /\ sources' = Append(sources, s)
  BY SourceBegins
<1>2. PICK c : c = [i \in 0..0 |-> s]
  OBVIOUS
<1>3. region' = "level" /\ depth' = 0 /\ doing' = [t \in Threads |-> Idle]
  BY DEF BeginSource, Enter
<1>4. /\ sources' \in Seq(Vertices(graph)) \ {<< >>} /\ sources'[Len(sources')] = s
  BY <1>1, AppendProperties
<1>5. depths' = [n \in Vertices(graph) |-> IF n = s THEN 0 ELSE -1]
  BY <1>1
<1>6. /\ queue'.shared_in = 1 /\ queue'.shared_out_start = 0 /\ queue'.shared_out_end = 1
  <2>1. q \in [shared : [Vertices(graph) -> Int], shared_in : Nat, shared_out_start : Nat,
               shared_out_end : Nat] /\ q.shared_out_end = 0
    BY DEF Queues
  <2>2. PICK r : r = push_back(q, s)
    OBVIOUS
  <2>3. r = [q EXCEPT !.shared = [q.shared EXCEPT ![0] = s], !.shared_in = 1]
    BY <2>1, <2>2 DEF push_back
  <2>4. /\ DOMAIN r = {"shared", "shared_in", "shared_out_start", "shared_out_end"}
        /\ r.shared_in = 1 /\ r.shared_out_end = 0
    BY <2>1, <2>3
  <2>5. queue' = [r EXCEPT !.shared_out_start = 0, !.shared_out_end = 1]
    BY <1>1, <2>2, <2>4 DEF slide_window
  <2> QED BY <2>4, <2>5
<1>7. (WindowIs(c, depth))'
  <2>1. Window(queue)' = {0} /\ c[0] = s /\ 0..(queue'.shared_out_start - 1) = {}
    BY <1>2, <1>6 DEF Window
  <2>2. graph' = graph /\ depths'[s] = 0 /\ \A n \in Vertices(graph) : depths'[n] = 0 => n = s
    BY <1>5
  <2> QED BY <1>3, <2>1, <2>2 DEF WindowIs
<1>8. DepthsSupported'
  <2>1. graph' = graph /\ Source' = s
    BY <1>4 DEF Source
  <2> QED BY <1>3, <1>5, <2>1 DEF DepthsSupported
<1>9. Leveled(c)'
  BY <1>3, <1>6, <1>7, <1>8 DEF Leveled
<1>10. Expanding(c)'
  BY <1>1, <1>2
<1> QED BY <1>3, <1>4, <1>5, <1>9, <1>10

LEMMA LevelBegins ==
  ASSUME IsGraph(graph), NEW c, Expanding(c), Leveled(c), BeginLevel
  PROVE  Leveled(c)' /\ UNCHANGED <<graph, depths, sources>>
<1>1. /\ region = "level" /\ UNCHANGED <<graph, depths, sources, queue, lqueue>>
  BY DEF BeginLevel, queueVars
<1>2. WindowIs(c, depth) /\ queue.shared_in = queue.shared_out_end /\ DepthsSupported
  BY <1>1 DEF Leveled
<1>3. /\ queue.shared_in \in Nat /\ queue.shared_out_start \in Nat
      /\ queue.shared_out_end \in Nat
      /\ depth \in Nat /\ depths \in [Vertices(graph) -> Int]
      /\ lqueue = NoBuffers
  BY <1>1, ExpandingTypes DEF Expanding
<1>4. \A n : Followed(n)' <=> Followed(n)
  BY <1>1 DEF Followed
<1>5. Source' = Source
  BY <1>1 DEF Source
<1>6. CASE empty(queue)
  <2>1. region' = "back" /\ depth' = depth
    BY <1>6 DEF BeginLevel, Enter
  <2>2. Window(queue) = {}
    BY <1>3, <1>6 DEF Window, empty
  <2>3. DepthsSupported'
    BY <1>1, <1>2, <1>5, <2>1 DEF DepthsSupported
  <2>4. ASSUME NEW n \in Vertices(graph), depths[n] >= 0 PROVE Followed(n)
    <3>1. depths[n] \in 0..depth /\ depths[n] # depth
      BY <1>2, <1>3, <2>2, <2>4 DEF WindowIs, DepthsSupported
    <3>2. depths[n] \in 0..(depth - 1)
      BY <1>3, <3>1
    <3> QED BY <1>2, <3>2 DEF WindowIs
  <2> QED BY <1>1, <1>4, <2>1, <2>3, <2>4 DEF Leveled
<1>7. CASE ~empty(queue)
  <2>1. /\ region' = "expand" /\ depth' = depth + 1 /\ todo' = Window(queue)
        /\ doing' = [t \in Threads |-> Idle]
    BY <1>7 DEF BeginLevel, Enter
  <2>2. DepthsSupported'
    <3>1. \A n \in Vertices(graph) : depths[n] \in -1..(depth + 1)
      BY <1>2, <1>3 DEF DepthsSupported
    <3> QED BY <1>1, <1>2, <1>5, <2>1, <3>1 DEF DepthsSupported
  <2>3. depth' > 0 /\ depth' - 1 = depth
    BY <1>3, <2>1
  <2>4. WindowIs(c, depth - 1)'
    <3>1. Window(queue)' = Window(queue)
      BY <1>1
    <3> QED BY <1>1, <1>2, <1>4, <2>3, <3>1 DEF WindowIs
  <2>5. \A t \in Threads : VisitGood(VisitOf(doing[t]))'
    <3>1. VisitOf(Idle).step \notin VisitingSteps
      BY DEF VisitOf, Idle, VisitingSteps
    <3> QED BY <2>1, <3>1 DEF VisitGood
  <2>6. ({n \in Vertices(graph) : depths[n] = depth} = Behind(c) \cup AboutToPut)'
    <3>1. ~ \E n \in Vertices(graph) : depths'[n] = depth'
      BY <1>1, <1>2, <1>3, <2>1 DEF DepthsSupported
    <3>2. Behind(c)' = {}
      BY <1>1, <1>2, <1>3 DEF Behind
    <3>3. AboutToPut' = {}
      <4>1. ASSUME NEW t \in Threads PROVE ToPut(doing'[t], lqueue'[t]) = {}
        <5>1. Handed(Idle) = {} /\ Idle.step # "copy"
          BY DEF Handed, Idle
        <5>2. lqueue'[t] = << >> /\ Range(<< >>) = {}
          BY <1>1, <1>3 DEF NoBuffers, Range
        <5> QED BY <2>1, <5>1, <5>2 DEF ToPut
      <4> QED BY <4>1 DEF AboutToPut
    <3> QED BY <1>1, <3>1, <3>2, <3>3
  <2>7. todo' \subseteq Window(queue)' /\ Window(queue)' \ todo' = {}
    BY <1>1, <2>1
  <2>8. (\A i \in Window(queue) \ todo :
            Followed(c[i]) \/ \E t \in Threads : Visits(doing[t], c[i]))'
    BY <2>7
  <2>9. (depth > 0)' /\ (todo \subseteq Window(queue))'
    BY <2>3, <2>7
  <2> QED BY <1>1, <2>1, <2>2, <2>4, <2>5, <2>6, <2>8, <2>9 DEF Leveled
<1> QED BY <1>1, <1>6, <1>7

(* Nothing is left of a level: what is behind the window is the next one.  *)
LEMMA LevelEnds ==
  ASSUME IsGraph(graph), NEW c, Expanding(c), Leveled(c), EndLevel
  PROVE  Leveled(c)' /\ UNCHANGED <<graph, depths, sources>>
<1>1. /\ region = "expand" /\ UNCHANGED <<graph, depths, sources, depth>>
      /\ queue' = slide_window(queue) /\ region' = "level"
      /\ todo = {} /\ \A t \in Threads : doing[t] = Idle
      /\ lqueue = NoBuffers
  BY DEF EndLevel, Enter, AllFlushed, AllDone
<1>2. /\ depth > 0 /\ WindowIs(c, depth - 1) /\ DepthsSupported
      /\ \A i \in Window(queue) : Followed(c[i]) \/ \E t \in Threads : Visits(doing[t], c[i])
      /\ {n \in Vertices(graph) : depths[n] = depth} = Behind(c) \cup AboutToPut
  BY <1>1 DEF Leveled
<1>3. /\ queue.shared_in \in Nat /\ queue.shared_out_start \in Nat
      /\ queue.shared_out_end \in Nat /\ queue.shared_out_end <= queue.shared_in
      /\ queue.shared_out_start <= queue.shared_out_end
      /\ depth \in Nat /\ depths \in [Vertices(graph) -> Int]
  BY ExpandingTypes
<1>4. /\ queue'.shared_in = queue.shared_in /\ queue'.shared_out_start = queue.shared_out_end
      /\ queue'.shared_out_end = queue.shared_in
  <2>1. queue \in [shared : [Vertices(graph) -> Int], shared_in : Nat, shared_out_start : Nat,
                   shared_out_end : Nat]
    BY DEF Expanding, Tidy, Queues
  <2> QED BY <1>1, <2>1 DEF slide_window
<1>5. DepthsSupported'
  BY <1>1, <1>2 DEF DepthsSupported, Source
<1>6. AboutToPut = {}
  <2>1. ASSUME NEW t \in Threads PROVE ToPut(doing[t], lqueue[t]) = {}
    <3>1. Handed(Idle) = {} /\ Idle.step # "copy"
      BY DEF Handed, Idle
    <3>2. lqueue[t] = << >> /\ Range(<< >>) = {}
      BY <1>1 DEF NoBuffers, Range
    <3> QED BY <1>1, <3>1, <3>2 DEF ToPut
  <2> QED BY <2>1 DEF AboutToPut
<1>7. \A i \in Window(queue) : Followed(c[i])
  <2>1. \A t \in Threads : \A u : ~Visits(doing[t], u)
    BY <1>1 DEF Visits, VisitOf, Idle, VisitingSteps
  <2> QED BY <1>2, <2>1
<1>8. Window(queue)' = queue.shared_out_end..(queue.shared_in - 1)
  BY <1>4 DEF Window
<1>9. \A n : Followed(n)' <=> Followed(n)
  BY <1>1 DEF Followed
<1>10. WindowIs(c, depth)'
  <2>1. \A i \in Window(queue)' : depths[c[i]] = depth
    BY <1>2, <1>8 DEF Behind
  <2>2. ASSUME NEW i \in 0..(queue.shared_out_end - 1) PROVE depths[c[i]] < depth
    <3>1. i \in Window(queue) \/ i \in 0..(queue.shared_out_start - 1)
      BY <1>3 DEF Window
    <3>2. depths[c[i]] = depth - 1 \/ depths[c[i]] < depth - 1
      BY <1>2, <3>1 DEF WindowIs
    <3>3. depths[c[i]] \in Int
      <4>1. i \in 0..(queue.shared_in - 1)
        BY <1>3
      <4>2. c[i] \in Vertices(graph)
        BY <4>1, ExpandingTypes
      <4> QED BY <1>3, <4>2
    <3> QED BY <1>3, <3>2, <3>3
  <2>3. \A n \in Vertices(graph) : depths[n] = depth => \E i \in Window(queue)' : c[i] = n
    BY <1>2, <1>6, <1>8 DEF Behind
  <2>4. ASSUME NEW n \in Vertices(graph), depths[n] \in 0..(depth - 1) PROVE Followed(n)
    <3>1. depths[n] = depth - 1 \/ depths[n] \in 0..(depth - 1 - 1)
      BY <1>3, <2>4
    <3> QED BY <1>2, <1>7, <3>1 DEF WindowIs
  <2> QED BY <1>1, <1>4, <1>9, <2>1, <2>2, <2>3, <2>4 DEF WindowIs
<1> QED BY <1>1, <1>4, <1>5, <1>10 DEF Leveled

(* A visit goes on, to the next edge or the end.                           *)
LEMMA VisitEnds ==
  ASSUME IsGraph(graph), depths \in [Vertices(graph) -> Int], depth \in Nat,
         \A n \in Vertices(graph) : depths[n] \in -1..depth,
         NEW u \in Vertices(graph), depths[u] = depth - 1,
         \A v \in Vertices(graph) : HasEdge(graph, u, v) => depths[v] >= 0
  PROVE  Followed(u)
BY DEF Followed

LEMMA VisitGoesOn ==
  ASSUME IsGraph(graph), depths \in [Vertices(graph) -> Int], depth \in Nat,
         \A n \in Vertices(graph) : depths[n] \in -1..depth,
         NEW w \in Visiting(graph), VisitGood(w), depths[Head(w.left).v] >= 0
  PROVE  LET next == UnlessDone([w EXCEPT !.step = "test", !.left = Tail(@)])
         IN  /\ VisitGood(next) /\ next \in BackFrom(graph)
             /\ Visits(next, w.u) \/ Followed(w.u)
<1>1. /\ w.step \in VisitingSteps /\ w.u \in Vertices(graph)
      /\ w.left \in Seq(Edge(graph)) /\ w.left # << >>
      /\ w = [step |-> w.step, u |-> w.u, left |-> w.left]
  BY DEF Visiting
<1>2. /\ depths[w.u] = depth - 1
      /\ \A k \in DOMAIN w.left : HasEdge(graph, w.u, w.left[k].v)
      /\ \A v \in Vertices(graph) : HasEdge(graph, w.u, v) =>
           depths[v] >= 0 \/ \E k \in DOMAIN w.left : w.left[k].v = v
  BY <1>1 DEF VisitGood
<1>3. PICK rest : rest = Tail(w.left)
  OBVIOUS
<1>4. /\ Len(w.left) \in Nat \ {0} /\ DOMAIN w.left = 1..Len(w.left)
      /\ rest \in Seq(Edge(graph)) /\ DOMAIN rest = 1..(Len(w.left) - 1)
      /\ \A k \in 1..(Len(w.left) - 1) : rest[k] = w.left[k + 1]
      /\ Head(w.left) = w.left[1]
  <2>1. Len(w.left) \in Nat \ {0} /\ DOMAIN w.left = 1..Len(w.left)
    BY <1>1, LenProperties, EmptySeq
  <2>2. /\ rest \in Seq(Edge(graph)) /\ Len(rest) = Len(w.left) - 1
        /\ \A k \in 1..Len(rest) : rest[k] = w.left[k + 1]
        /\ Head(w.left) = w.left[1]
    BY <1>1, <1>3, HeadTailProperties
  <2>3. DOMAIN rest = 1..Len(rest)
    BY <2>2, LenProperties
  <2>4. DOMAIN rest = 1..(Len(w.left) - 1)
    BY <2>2, <2>3
  <2>5. \A k \in 1..(Len(w.left) - 1) : rest[k] = w.left[k + 1]
    BY <2>2
  <2> QED BY <2>1, <2>2, <2>4, <2>5
<1>5. PICK e : e = [w EXCEPT !.step = "test", !.left = Tail(@)]
  OBVIOUS
<1>6. e = [step |-> "test", u |-> w.u, left |-> rest]
  BY <1>1, <1>3, <1>5
<1>7. \A v \in Vertices(graph) : HasEdge(graph, w.u, v) =>
        depths[v] >= 0 \/ \E k \in DOMAIN rest : rest[k].v = v
  <2> SUFFICES ASSUME NEW v \in Vertices(graph), HasEdge(graph, w.u, v), ~(depths[v] >= 0)
               PROVE  \E k \in DOMAIN rest : rest[k].v = v
    OBVIOUS
  <2>1. PICK k \in DOMAIN w.left : w.left[k].v = v
    BY <1>2
  <2>2. k # 1
    BY <1>4, <2>1
  <2>3. k - 1 \in 1..(Len(w.left) - 1) /\ (k - 1) + 1 = k
    BY <1>4, <2>2
  <2>4. rest[k - 1] = w.left[k]
    BY <1>4, <2>3
  <2> QED BY <1>4, <2>1, <2>3, <2>4
<1>8. UnlessDone(e) \in BackFrom(graph)
  BY <1>1, <1>5, VisitsOn
<1>9. CASE rest = << >>
  <2>1. DOMAIN rest = {}
    BY <1>9
  <2>2. \A v \in Vertices(graph) : HasEdge(graph, w.u, v) => depths[v] >= 0
    BY <1>7, <2>1
  <2>3. Followed(w.u)
    BY <1>1, <1>2, <2>2, VisitEnds
  <2>4. UnlessDone(e) = Idle
    BY <1>6, <1>9 DEF UnlessDone
  <2>5. VisitGood(Idle)
    BY DEF VisitGood, Idle, VisitingSteps
  <2> QED BY <1>5, <1>8, <2>3, <2>4, <2>5
<1>10. CASE rest # << >>
  <2>1. UnlessDone(e) = e /\ e.step = "test" /\ e.u = w.u /\ e.left = rest
    BY <1>6, <1>10 DEF UnlessDone
  <2>2. \A k \in DOMAIN rest : HasEdge(graph, w.u, rest[k].v)
    <3>1. \A k \in 1..(Len(w.left) - 1) : k + 1 \in 1..Len(w.left)
      BY <1>4
    <3> QED BY <1>2, <1>4, <3>1
  <2>3. VisitGood(e)
    BY <1>2, <1>7, <2>1, <2>2 DEF VisitGood
  <2>4. Visits(e, w.u)
    BY <2>1 DEF Visits, VisitOf, VisitingSteps
  <2> QED BY <1>5, <1>8, <2>1, <2>3, <2>4
<1> QED BY <1>9, <1>10

(* A thread goes on and finds nothing.                                     *)
LEMMA LevelStaysWhenProceeding ==
  ASSUME IsGraph(graph), NEW c, Expanding(c), Leveled(c), region = "expand",
         NEW t \in Threads, NEW next \in BackFrom(graph), VisitGood(next),
         doing[t] \in BackFrom(graph), doing' = [doing EXCEPT ![t] = next],
         UNCHANGED <<graph, depths, depth, sources, queue, lqueue, region>>,
         todo' \subseteq todo,
         \A u : Visits(doing[t], u) => Visits(next, u) \/ Followed(u),
         \A i \in todo \ todo' : Visits(next, c[i]) \/ Followed(c[i])
  PROVE  Leveled(c)'
<1>1. /\ DepthsSupported /\ depth > 0 /\ WindowIs(c, depth - 1)
      /\ todo \subseteq Window(queue)
      /\ \A i \in Window(queue) \ todo :
            Followed(c[i]) \/ \E s \in Threads : Visits(doing[s], c[i])
      /\ \A s \in Threads : VisitGood(VisitOf(doing[s]))
      /\ {n \in Vertices(graph) : depths[n] = depth} = Behind(c) \cup AboutToPut
  BY DEF Leveled
<1>2. doing'[t] = next /\ \A s \in Threads \ {t} : doing'[s] = doing[s]
  BY ExpandingTypes
<1>3. \A n : Followed(n)' <=> Followed(n)
  BY DEF Followed
<1>4. \A w : VisitGood(w)' <=> VisitGood(w)
  BY DEF VisitGood
<1>5. VisitOf(next) = next
  BY VisitingHasNothing DEF VisitOf
<1>6. DepthsSupported' /\ WindowIs(c, depth - 1)'
  BY <1>1, <1>3 DEF DepthsSupported, WindowIs, Source
<1>7. \A s \in Threads : VisitGood(VisitOf(doing[s]))'
  BY <1>1, <1>2, <1>4, <1>5
<1>8. ASSUME NEW i \in Window(queue) \ todo'
      PROVE  Followed(c[i]) \/ \E s \in Threads : Visits(doing'[s], c[i])
  <2>1. CASE i \in todo
    BY <1>2, <2>1
  <2>2. CASE i \notin todo
    BY <1>1, <1>2, <2>2
  <2> QED BY <2>1, <2>2
<1>9. AboutToPut' = AboutToPut /\ Behind(c)' = Behind(c)
  <2>1. \A d \in BackFrom(graph) : ToPut(d, lqueue[t]) = Range(lqueue[t])
    BY VisitingHasNothing DEF ToPut
  <2>2. ToPut(doing'[t], lqueue'[t]) = ToPut(doing[t], lqueue[t])
    BY <1>2, <2>1
  <2>3. \A s \in Threads : ToPut(doing'[s], lqueue'[s]) = ToPut(doing[s], lqueue[s])
    BY <1>2, <2>2
  <2> QED BY <2>3 DEF AboutToPut, Behind
<1>10. Window(queue)' = Window(queue) /\ todo' \subseteq Window(queue)
  BY <1>1
<1> QED BY <1>1, <1>3, <1>6, <1>7, <1>8, <1>9, <1>10 DEF Leveled

LEMMA IdleVisitsNothing ==
  /\ VisitOf(Idle) = Idle /\ VisitGood(Idle) /\ Idle \in BackFrom(graph)
  /\ \A u : ~Visits(Idle, u)
BY DEF VisitOf, Visits, VisitGood, Idle, VisitingSteps, BackFrom

(* The edges of a node are its edges.                                      *)
LEMMA EdgesLead ==
  ASSUME IsGraph(graph), NEW u \in Vertices(graph)
  PROVE  /\ EdgesOf(u) \in Seq(Edge(graph))
         /\ \A k \in DOMAIN EdgesOf(u) : HasEdge(graph, u, EdgesOf(u)[k].v)
         /\ \A v : HasEdge(graph, u, v) => \E k \in DOMAIN EdgesOf(u) : EdgesOf(u)[k].v = v
<1>1. /\ DOMAIN EdgesOf(u) = DOMAIN graph.out[u]
      /\ \A k \in DOMAIN graph.out[u] : EdgesOf(u)[k].v = graph.out[u][k].v
  BY DEF EdgesOf
<1> QED BY <1>1, EdgesAreEdges DEF HasEdge

LEMMA VisitBegins ==
  ASSUME IsGraph(graph), NEW c, Expanding(c), Leveled(c), NEW t \in Threads, Expand(t)
  PROVE  Leveled(c)' /\ UNCHANGED <<graph, region, depths, sources>>
<1>1. /\ region = "expand" /\ UNCHANGED <<graph, region, queue, lqueue, sources, depth, depths>>
  BY DEF Expand, Take, queueVars, bcVars
<1>2. PICK i \in todo :
          Take(t, i, UnlessDone([step |-> "test", u |-> queue.shared[i],
                                 left |-> EdgesOf(queue.shared[i])]))
  BY DEF Expand
<1>3. PICK u : u = queue.shared[i]
  OBVIOUS
<1>4. PICK e : e = [step |-> "test", u |-> u, left |-> EdgesOf(u)]
  OBVIOUS
<1>5. /\ depth > 0 /\ WindowIs(c, depth - 1) /\ todo \subseteq Window(queue)
      /\ depth \in Nat /\ depths \in [Vertices(graph) -> Int]
      /\ \A n \in Vertices(graph) : depths[n] \in -1..depth
  BY <1>1, ExpandingTypes DEF Leveled, DepthsSupported
<1>6. c[i] = u /\ u \in Vertices(graph) /\ depths[u] = depth - 1
  BY <1>3, <1>5, ExpandingTypes DEF WindowIs
<1>7. /\ EdgesOf(u) \in Seq(Edge(graph))
      /\ \A k \in DOMAIN EdgesOf(u) : HasEdge(graph, u, EdgesOf(u)[k].v)
      /\ \A v : HasEdge(graph, u, v) => \E k \in DOMAIN EdgesOf(u) : EdgesOf(u)[k].v = v
  BY <1>6, EdgesLead
<1>8. /\ doing[t] = Idle /\ todo' = todo \ {i}
      /\ doing' = [doing EXCEPT ![t] = UnlessDone(e)]
  BY <1>2, <1>3, <1>4 DEF Take
<1>9. /\ VisitGood(UnlessDone(e)) /\ UnlessDone(e) \in BackFrom(graph)
      /\ Visits(UnlessDone(e), u) \/ Followed(u)
  <2>1. CASE EdgesOf(u) = << >>
    <3>1. DOMAIN EdgesOf(u) = {}
      BY <2>1
    <3>2. Followed(u)
      BY <1>5, <1>6, <1>7, <3>1, VisitEnds
    <3>3. UnlessDone(e) = Idle
      BY <1>4, <2>1 DEF UnlessDone
    <3> QED BY <3>2, <3>3, IdleVisitsNothing
  <2>2. CASE EdgesOf(u) # << >>
    <3>1. UnlessDone(e) = e /\ e.step = "test" /\ e.u = u /\ e.left = EdgesOf(u)
      BY <1>4, <2>2 DEF UnlessDone
    <3>2. e \in BackFrom(graph)
      BY <1>4, <1>6, <1>7, <2>2 DEF BackFrom, Visiting, VisitingSteps
    <3>3. VisitGood(e)
      BY <1>6, <1>7, <3>1 DEF VisitGood
    <3>4. Visits(e, u)
      BY <3>1 DEF Visits, VisitOf, VisitingSteps
    <3> QED BY <3>1, <3>2, <3>3, <3>4
  <2> QED BY <2>1, <2>2
<1>10. \A j \in todo \ todo' : Visits(UnlessDone(e), c[j]) \/ Followed(c[j])
  BY <1>6, <1>8, <1>9
<1>11. doing[t] \in BackFrom(graph) /\ \A v : ~Visits(doing[t], v) /\ todo' \subseteq todo
  BY <1>8, IdleVisitsNothing
<1>12. Leveled(c)'
  <2> HIDE DEF Followed, Visits, VisitGood
  <2> QED BY <1>1, <1>8, <1>9, <1>10, <1>11, LevelStaysWhenProceeding
<1> QED BY <1>1, <1>12

(* What is known of a visit under way.                                     *)
LEMMA VisitUnderWay ==
  ASSUME IsGraph(graph), NEW c, Expanding(c), Leveled(c), region = "expand",
         NEW t \in Threads, doing[t].step \in VisitingSteps
  PROVE  /\ doing[t] \in Visiting(graph) /\ doing[t] \in BackFrom(graph)
         /\ VisitOf(doing[t]) = doing[t] /\ VisitGood(doing[t])
         /\ \A u : Visits(doing[t], u) => u = doing[t].u
         /\ Head(doing[t].left).v \in Vertices(graph)
         /\ HasEdge(graph, doing[t].u, Head(doing[t].left).v)
         /\ doing[t].u \in Vertices(graph) /\ depths[doing[t].u] = depth - 1
         /\ depth \in Nat /\ depth > 0 /\ depths \in [Vertices(graph) -> Int]
         /\ \A n \in Vertices(graph) : depths[n] \in -1..depth
<1> DEFINE d == doing[t]
<1>1. d \in Visiting(graph) /\ d \in BackFrom(graph)
  BY VisitingByStep DEF Expanding, BackFrom
<1>2. VisitOf(d) = d /\ VisitGood(d)
  BY DEF VisitOf, VisitingSteps, Leveled
<1>3. Head(d.left).v \in Vertices(graph)
  <2> HIDE DEF d
  <2> QED BY <1>1, VisitsOn
<1>4. d.u \in Vertices(graph) /\ d.left \in Seq(Edge(graph)) /\ d.left # << >>
  BY <1>1 DEF Visiting
<1>5. 1 \in DOMAIN d.left /\ Head(d.left) = d.left[1]
  <2> HIDE DEF d
  <2>1. Len(d.left) \in Nat \ {0} /\ DOMAIN d.left = 1..Len(d.left)
    BY <1>4, LenProperties, EmptySeq
  <2> QED BY <1>4, <2>1, HeadTailProperties
<1>6. HasEdge(graph, d.u, Head(d.left).v) /\ depths[d.u] = depth - 1
  <2> HIDE DEF d
  <2>1. d.step \in VisitingSteps
    BY DEF d
  <2> QED BY <1>2, <1>5, <2>1 DEF VisitGood
<1>7. /\ depth \in Nat /\ depth > 0 /\ depths \in [Vertices(graph) -> Int]
      /\ \A n \in Vertices(graph) : depths[n] \in -1..depth
  BY ExpandingTypes DEF Leveled, DepthsSupported
<1>8. \A u : Visits(d, u) => u = d.u
  BY <1>2 DEF Visits
<1> QED BY <1>1, <1>2, <1>3, <1>4, <1>6, <1>7, <1>8

LEMMA StepInVisit ==
  ASSUME IsGraph(graph), NEW w \in Visiting(graph), VisitGood(w), NEW s \in VisitingSteps,
         s \in {"compare", "count"} => depths[Head(w.left).v] >= 0
  PROVE  /\ [w EXCEPT !.step = s] \in BackFrom(graph) /\ VisitGood([w EXCEPT !.step = s])
         /\ \A u : Visits(w, u) => Visits([w EXCEPT !.step = s], u)
<1>1. PICK e : e = [w EXCEPT !.step = s]
  OBVIOUS
<1>2. e.step = s /\ e.u = w.u /\ e.left = w.left /\ w.step \in VisitingSteps
  BY <1>1 DEF Visiting
<1>3. e \in BackFrom(graph)
  BY <1>1, VisitsOn DEF BackFrom
<1>4. VisitGood(e)
  BY <1>2 DEF VisitGood
<1>5. \A u : Visits(w, u) => Visits(e, u)
  BY <1>2 DEF Visits, VisitOf, VisitingSteps
<1> QED BY <1>1, <1>3, <1>4, <1>5

LEMMA VisitMoves ==
  ASSUME IsGraph(graph), NEW c, Expanding(c), Leveled(c), NEW t \in Threads,
         Test(t) \/ Compare(t) \/ Count(t)
  PROVE  Leveled(c)' /\ UNCHANGED <<graph, region, depths, sources>>
<1> DEFINE d == doing[t]
           v == Head(d.left).v
           rest == UnlessDone([d EXCEPT !.step = "test", !.left = Tail(@)])
<1>1. /\ region = "expand" /\ d.step \in VisitingSteps
      /\ UNCHANGED <<graph, region, queue, lqueue, sources, depth, depths, todo>>
  BY DEF Test, Compare, Count, At, Proceed, queueVars, bcVars, VisitingSteps
<1>2. /\ d \in Visiting(graph) /\ d \in BackFrom(graph) /\ VisitGood(d)
      /\ \A u : Visits(d, u) => u = d.u
      /\ v \in Vertices(graph) /\ depth \in Nat /\ depths \in [Vertices(graph) -> Int]
      /\ \A n \in Vertices(graph) : depths[n] \in -1..depth
  BY <1>1, VisitUnderWay
<1>3. ASSUME NEW next \in BackFrom(graph), VisitGood(next), doing' = [doing EXCEPT ![t] = next],
             \A u : Visits(d, u) => Visits(next, u) \/ Followed(u)
      PROVE  Leveled(c)'
  BY <1>1, <1>2, <1>3, LevelStaysWhenProceeding
<1>4. ASSUME NEW s \in VisitingSteps, s \in {"compare", "count"} => depths[v] >= 0,
             doing' = [doing EXCEPT ![t] = [d EXCEPT !.step = s]]
      PROVE  Leveled(c)'
  <2>1. PICK next : next = [d EXCEPT !.step = s]
    OBVIOUS
  <2>2. /\ next \in BackFrom(graph) /\ VisitGood(next)
        /\ \A u : Visits(d, u) => Visits(next, u)
    <3> HIDE DEF d
    <3> QED BY <1>2, <1>4, <2>1, StepInVisit
  <2> QED BY <1>3, <1>4, <2>1, <2>2
<1>5. ASSUME depths[v] >= 0, doing' = [doing EXCEPT ![t] = rest]
      PROVE  Leveled(c)'
  <2>1. VisitGood(rest) /\ rest \in BackFrom(graph) /\ (Visits(rest, d.u) \/ Followed(d.u))
    <3> HIDE DEF d
    <3> QED BY <1>2, <1>5, VisitGoesOn
  <2>2. \A u : Visits(d, u) => Visits(rest, u) \/ Followed(u)
    BY <1>2, <2>1
  <2> HIDE DEF rest, d
  <2> QED BY <1>3, <1>5, <2>1, <2>2
<1>6. CASE Test(t)
  <2>1. /\ doing' = [doing EXCEPT ![t] = [d EXCEPT !.step =
                       IF depths[v] = -1 THEN "swap" ELSE "compare"]]
    BY <1>6 DEF Test, Proceed
  <2>2. depths[v] # -1 => depths[v] >= 0
    BY <1>2
  <2>3. PICK s : s = IF depths[v] = -1 THEN "swap" ELSE "compare"
    OBVIOUS
  <2>4. /\ s \in VisitingSteps /\ (s \in {"compare", "count"} => depths[v] >= 0)
        /\ doing' = [doing EXCEPT ![t] = [d EXCEPT !.step = s]]
    BY <2>1, <2>2, <2>3 DEF VisitingSteps
  <2> HIDE DEF d, v, rest
  <2> QED BY <1>1, <1>4, <2>4
<1>7. CASE Compare(t)
  <2>1. depths[v] >= 0
    <3>1. d.step = "compare"
      BY <1>7 DEF Compare, At
    <3> QED BY <1>1, <1>2, <3>1 DEF VisitGood
  <2>2. \/ doing' = [doing EXCEPT ![t] = [d EXCEPT !.step = "count"]]
        \/ doing' = [doing EXCEPT ![t] = rest]
    BY <1>7 DEF Compare, Proceed
  <2>3. "count" \in VisitingSteps
    BY DEF VisitingSteps
  <2> HIDE DEF d, v, rest
  <2> QED BY <1>1, <1>4, <1>5, <2>1, <2>2, <2>3
<1>8. CASE Count(t)
  <2>1. d.step = "count" /\ doing' = [doing EXCEPT ![t] = rest]
    BY <1>8 DEF Count, At, Proceed
  <2>2. depths[v] >= 0
    BY <1>1, <1>2, <2>1 DEF VisitGood
  <2> HIDE DEF d, v, rest
  <2> QED BY <1>1, <1>5, <2>1, <2>2
<1> QED BY <1>1, <1>6, <1>7, <1>8

(* A node is found: it is a level below the one that led to it.            *)
LEMMA FoundIsLeveled ==
  ASSUME IsGraph(graph), NEW c, Expanding(c), Leveled(c), region = "expand",
         NEW t \in Threads, doing[t].step = "swap",
         NEW v, v = Head(doing[t].left).v, depths[v] = -1,
         NEW next, next = [doing[t] EXCEPT !.step = "compare"],
         depths' = [depths EXCEPT ![v] = depth],
         Pushes(doing, lqueue, t, v, next, doing', lqueue'),
         UNCHANGED <<graph, region, queue, sources, depth, todo>>
  PROVE  Leveled(c)'
<1>0. PICK d : d = doing[t]
  OBVIOUS
<1>1. /\ d \in Visiting(graph) /\ VisitOf(d) = d /\ VisitGood(d)
      /\ v \in Vertices(graph) /\ HasEdge(graph, d.u, v)
      /\ d.u \in Vertices(graph) /\ depths[d.u] = depth - 1
      /\ depth \in Nat /\ depth > 0 /\ depths \in [Vertices(graph) -> Int]
      /\ \A n \in Vertices(graph) : depths[n] \in -1..depth
      /\ d \in BackFrom(graph)
  BY <1>0, VisitUnderWay DEF VisitingSteps
<1>2. /\ DepthsSupported /\ WindowIs(c, depth - 1)
      /\ todo \subseteq Window(queue)
      /\ \A i \in Window(queue) \ todo :
            Followed(c[i]) \/ \E s \in Threads : Visits(doing[s], c[i])
      /\ \A s \in Threads : VisitGood(VisitOf(doing[s]))
      /\ {n \in Vertices(graph) : depths[n] = depth} = Behind(c) \cup AboutToPut
  BY DEF Leveled
<1>3. /\ depths'[v] = depth /\ \A n \in Vertices(graph) \ {v} : depths'[n] = depths[n]
      /\ \A n \in Vertices(graph) : depths[n] >= 0 => n # v /\ depths'[n] = depths[n]
      /\ \A n \in Vertices(graph) : depths[n] >= 0 => depths'[n] >= 0
  BY <1>1
<1>4. ASSUME NEW n \in Vertices(graph), depths[n] >= 0, Followed(n) PROVE Followed(n)'
  BY <1>3, <1>4 DEF Followed
<1>5. DepthsSupported'
  <2>1. \A n \in Vertices(graph) : depths'[n] \in -1..depth /\ (depths'[n] = 0 <=> n = Source)
    BY <1>1, <1>2, <1>3 DEF DepthsSupported
  <2>2. ASSUME NEW n \in Vertices(graph), depths'[n] > 0
        PROVE  \E u \in Vertices(graph) : HasEdge(graph, u, n) /\ depths'[n] = depths'[u] + 1
    <3>1. CASE n = v
      <4>1. depths'[d.u] = depth - 1
        BY <1>1, <1>3
      <4> QED BY <1>1, <1>3, <3>1, <4>1
    <3>2. CASE n # v
      <4>1. depths'[n] = depths[n]
        BY <1>3, <3>2
      <4>2. PICK u \in Vertices(graph) : HasEdge(graph, u, n) /\ depths[n] = depths[u] + 1
        BY <1>2, <2>2, <4>1 DEF DepthsSupported
      <4>3. depths[u] >= 0
        BY <1>1, <2>2, <4>1, <4>2
      <4> QED BY <1>3, <4>1, <4>2, <4>3
    <3> QED BY <3>1, <3>2
  <2> QED BY <2>1, <2>2 DEF DepthsSupported, Source
<1>6. /\ queue.shared_in \in Nat /\ queue.shared_out_start \in Nat
      /\ queue.shared_out_end \in Nat
      /\ queue.shared_out_start <= queue.shared_out_end
      /\ queue.shared_out_end <= queue.shared_in
      /\ \A i \in 0..(queue.shared_in - 1) : c[i] \in Vertices(graph) /\ depths[c[i]] >= 0
  <2>1. Tidy(graph, c, queue, Found(graph, depths), doing, lqueue)
    BY DEF Expanding
  <2>2. \A i \in 0..(queue.shared_in - 1) : c[i] \in Found(graph, depths)
    BY <2>1 DEF Tidy
  <2> QED BY <2>2, ExpandingTypes DEF Found
<1>7. WindowIs(c, depth - 1)'
  <2>1. \A i \in Window(queue) : i \in 0..(queue.shared_in - 1)
    BY <1>6 DEF Window
  <2>2. \A i \in 0..(queue.shared_out_start - 1) : i \in 0..(queue.shared_in - 1)
    BY <1>6
  <2>3. \A i \in Window(queue) : depths'[c[i]] = depth - 1
    BY <1>2, <1>3, <1>6, <2>1 DEF WindowIs
  <2>4. \A i \in 0..(queue.shared_out_start - 1) : depths'[c[i]] < depth - 1
    BY <1>2, <1>3, <1>6, <2>2 DEF WindowIs
  <2>5. \A n \in Vertices(graph) : depths'[n] = depth - 1 =>
          \E i \in Window(queue) : c[i] = n
    BY <1>1, <1>2, <1>3 DEF WindowIs
  <2>6. ASSUME NEW n \in Vertices(graph), depths'[n] \in 0..(depth - 1 - 1)
        PROVE  Followed(n)'
    <3>1. n # v /\ depths[n] = depths'[n]
      BY <1>1, <1>3, <2>6
    <3> QED BY <1>1, <1>2, <1>4, <2>6, <3>1 DEF WindowIs
  <2>7. Window(queue)' = Window(queue)
    OBVIOUS
  <2> QED BY <2>3, <2>4, <2>5, <2>6, <2>7 DEF WindowIs
<1>8. ASSUME NEW w, VisitGood(w), w \in BackFrom(graph) PROVE VisitGood(w)'
  <2> SUFFICES ASSUME w.step \in VisitingSteps PROVE VisitGood(w)'
    BY DEF VisitGood
  <2>1. w \in Visiting(graph)
    BY <1>8, VisitingHasNothing, VisitingByStep
  <2>2. w.u \in Vertices(graph) /\ Head(w.left).v \in Vertices(graph)
    BY <2>1, VisitsOn DEF Visiting
  <2>3. depths[w.u] = depth - 1
    BY <1>8 DEF VisitGood
  <2>4. depths'[w.u] = depth - 1
    BY <1>1, <1>3, <2>2, <2>3
  <2>5. \A x \in Vertices(graph) : HasEdge(graph, w.u, x) =>
          depths'[x] >= 0 \/ \E k \in DOMAIN w.left : w.left[k].v = x
    BY <1>3, <1>8 DEF VisitGood
  <2>6. w.step \in {"compare", "count"} => depths'[Head(w.left).v] >= 0
    BY <1>3, <1>8, <2>2 DEF VisitGood
  <2> QED BY <1>8, <2>4, <2>5, <2>6 DEF VisitGood
<1>9. /\ next \in BackFrom(graph) /\ VisitGood(next)' /\ \A u : Visits(d, u) => Visits(next, u)
  <2>1. /\ next.step = "compare" /\ next.u = d.u /\ next.left = d.left
    BY <1>0, <1>1 DEF Visiting
  <2>2. next \in BackFrom(graph)
    BY <1>0, <1>1, VisitsOn DEF BackFrom, VisitingSteps
  <2>3. VisitGood(d)'
    BY <1>1, <1>8
  <2>4. d.step \in VisitingSteps
    BY <1>0 DEF VisitingSteps
  <2>5. depths'[Head(next.left).v] >= 0
    BY <1>1, <1>3, <2>1
  <2>6. VisitGood(next)'
    <3>1. /\ depths'[next.u] = depth - 1
          /\ \A k \in DOMAIN next.left : HasEdge(graph, next.u, next.left[k].v)
          /\ \A x \in Vertices(graph) : HasEdge(graph, next.u, x) =>
               depths'[x] >= 0 \/ \E k \in DOMAIN next.left : next.left[k].v = x
      BY <2>1, <2>3, <2>4 DEF VisitGood
    <3> QED BY <2>5, <3>1 DEF VisitGood
  <2>7. \A u : Visits(d, u) => Visits(next, u)
    BY <1>0, <1>1, <2>1 DEF Visits, VisitOf, VisitingSteps
  <2> QED BY <2>2, <2>6, <2>7
<1>10. VisitOf(next) = next
  BY <1>9, VisitingHasNothing DEF VisitOf
<1>11. /\ \A s \in Threads \ {t} : doing'[s] = doing[s] /\ lqueue'[s] = lqueue[s]
       /\ VisitOf(doing'[t]) = next
       /\ ToPut(doing'[t], lqueue'[t]) = ToPut(d, lqueue[t]) \cup {v}
  <2>0. /\ DOMAIN doing = Threads /\ lqueue \in [Threads -> Seq(Vertices(graph))]
        /\ Handed(d) = {} /\ d.step # "copy" /\ Handed(next) = {} /\ next.step # "copy"
    BY <1>0, <1>1, <1>9, ExpandingTypes, VisitingHasNothing DEF Expanding, Tidy
  <2>1. CASE /\ doing' = [doing EXCEPT ![t] = [step |-> "reserve", pushed |-> v, next |-> next]]
             /\ lqueue' = lqueue
    <3>1. doing'[t] = [step |-> "reserve", pushed |-> v, next |-> next]
      BY <2>0, <2>1
    <3>2. v # Blank
      BY <1>1 DEF Blank, Vertices
    <3>3. ToPut(doing'[t], lqueue'[t]) = {v} \cup Range(lqueue[t])
      BY <2>1, <3>1, <3>2 DEF ToPut, Handed
    <3>4. VisitOf(doing'[t]) = next
      BY <3>1 DEF VisitOf
    <3> QED BY <2>0, <2>1, <3>3, <3>4 DEF ToPut
  <2>2. CASE doing' = [doing EXCEPT ![t] = next] /\ lqueue' = [lqueue EXCEPT ![t] = Append(lqueue[t], v)]
    <3>1. doing'[t] = next /\ lqueue'[t] = Append(lqueue[t], v)
      BY <2>0, <2>2
    <3>2. Range(Append(lqueue[t], v)) = Range(lqueue[t]) \cup {v}
      BY <1>1, <2>0, RangeOfAppend
    <3>3. ToPut(doing'[t], lqueue'[t]) = Range(lqueue[t]) \cup {v}
      BY <2>0, <3>1, <3>2 DEF ToPut
    <3> QED BY <1>10, <2>0, <2>2, <3>1, <3>3 DEF ToPut
  <2> QED BY <2>1, <2>2 DEF Pushes
<1>12. \A s \in Threads : VisitGood(VisitOf(doing[s]))'
  <2>1. ASSUME NEW s \in Threads PROVE VisitOf(doing[s]) \in BackFrom(graph)
    <3>1. doing[s] \in ExpandState(graph)
      BY DEF Expanding
    <3> QED BY <3>1, VisitingByStep, FlushStates DEF VisitOf, ExpandState, FlushState
  <2>2. ASSUME NEW s \in Threads \ {t} PROVE VisitGood(VisitOf(doing[s]))'
    <3>1. VisitOf(doing[s]) \in BackFrom(graph) /\ VisitGood(VisitOf(doing[s]))
      BY <1>2, <2>1
    <3>2. doing'[s] = doing[s]
      BY <1>11
    <3>3. PICK w : w = VisitOf(doing[s])
      OBVIOUS
    <3>4. VisitGood(w)'
      BY <1>8, <3>1, <3>3
    <3>5. VisitOf(doing'[s]) = w
      BY <3>2, <3>3
    <3> QED BY <3>4, <3>5
  <2>3. VisitGood(VisitOf(doing[t]))'
    BY <1>9, <1>11
  <2> QED BY <2>2, <2>3
<1>13. ASSUME NEW i \in Window(queue) \ todo
       PROVE  Followed(c[i])' \/ \E s \in Threads : Visits(doing'[s], c[i])
  <2>1. c[i] \in Vertices(graph) /\ depths[c[i]] >= 0
    BY <1>6 DEF Window
  <2>2. ASSUME NEW s \in Threads, Visits(doing[s], c[i]) PROVE Visits(doing'[s], c[i])
    <3>1. CASE s # t
      BY <1>11, <2>2, <3>1
    <3>2. CASE s = t
      <4>1. Visits(next, c[i])
        BY <1>0, <1>9, <2>2, <3>2
      <4> QED BY <1>10, <1>11, <3>2, <4>1 DEF Visits
    <3> QED BY <3>1, <3>2
  <2>3. PICK n \in Vertices(graph) : n = c[i]
    BY <2>1
  <2>4. Followed(n) => Followed(n)'
    BY <1>4, <2>1, <2>3
  <2> QED BY <1>2, <2>2, <2>3, <2>4
<1>14. {n \in Vertices(graph) : depths'[n] = depth} = Behind(c) \cup AboutToPut'
  <2>1. {n \in Vertices(graph) : depths'[n] = depth} = {n \in Vertices(graph) : depths[n] = depth} \cup {v}
    BY <1>1, <1>3
  <2>2. AboutToPut' = AboutToPut \cup {v}
    <3>1. \A n : n \in AboutToPut <=> \E s \in Threads : n \in ToPut(doing[s], lqueue[s])
      BY DEF AboutToPut
    <3>2. \A n : n \in AboutToPut' <=> \E s \in Threads : n \in ToPut(doing'[s], lqueue'[s])
      BY DEF AboutToPut
    <3> QED BY <1>0, <1>11, <3>1, <3>2
  <2> QED BY <1>2, <2>1, <2>2
<1>15. Behind(c)' = Behind(c) /\ Window(queue)' = Window(queue)
  BY DEF Behind
<1> QED BY <1>1, <1>2, <1>5, <1>7, <1>12, <1>13, <1>14, <1>15 DEF Leveled

(* A flush takes nothing from what was found and moves no visit.           *)
LEMMA FlushIsLeveled ==
  ASSUME IsGraph(graph), NEW c, Expanding(c), Leveled(c), NEW t \in Threads, BcFlush(t),
         NEW c2, Expanding(c2)',
         c2 = AfterFlush(c, t)
  PROVE  Leveled(c2)' /\ UNCHANGED <<graph, region, depths, sources>>
<1>1. /\ region = "expand" /\ UNCHANGED <<graph, region, depths, depth, sources, todo>>
      /\ FlushAtEnd(t) \/ Reserve(t) \/ Copy(t)
  BY DEF BcFlush, FlushAtEnd, Flushing, Reserve, Copy, Proceed, bcVars
<1>2. /\ DepthsSupported /\ WindowIs(c, depth - 1) /\ depth > 0
      /\ todo \subseteq Window(queue)
      /\ \A i \in Window(queue) \ todo :
            Followed(c[i]) \/ \E s \in Threads : Visits(doing[s], c[i])
      /\ \A s \in Threads : VisitGood(VisitOf(doing[s]))
      /\ {n \in Vertices(graph) : depths[n] = depth} = Behind(c) \cup AboutToPut
  BY <1>1 DEF Leveled
<1>3. /\ queue.shared_in \in Nat /\ queue.shared_out_start \in Nat
      /\ queue.shared_out_end \in Nat
      /\ queue.shared_out_start <= queue.shared_out_end
      /\ queue.shared_out_end <= queue.shared_in
      /\ DOMAIN doing = Threads
  BY ExpandingTypes
<1>4. /\ lqueue \in [Threads -> Seq(Vertices(graph))] /\ queue \in Queues(graph)
      /\ doing[t] \in ExpandState(graph)
  BY <1>1 DEF Expanding, Tidy
<1>5. PICK d : d = doing[t]
  OBVIOUS
<1>6. d.step \in {"reserve", "copy"} =>
        /\ d.next \in BackFrom(graph) /\ d.pushed \in Vertices(graph) \cup {Blank}
        /\ Handed(d.next) = {} /\ d.next.step \notin {"reserve", "copy"}
  BY <1>4, <1>5, VisitingByStep, FlushStates, VisitingHasNothing
<1>7. /\ queue'.shared_out_start = queue.shared_out_start
      /\ queue'.shared_out_end = queue.shared_out_end
      /\ \A s \in Threads : VisitOf(doing'[s]) = VisitOf(doing[s])
      /\ \A i \in 0..(queue.shared_in - 1) : c2[i] = c[i]
      /\ Behind(c2)' \cup AboutToPut' = Behind(c) \cup AboutToPut
  BY <1>1, <1>3, <1>5, <1>6, FlushMovesOn DEF Expanding, Flushing
<1>8. \A n : Followed(n)' <=> Followed(n)
  BY <1>1 DEF Followed
<1>9. \A w : VisitGood(w)' <=> VisitGood(w)
  BY <1>1 DEF VisitGood
<1>10. \A s \in Threads : \A u : Visits(doing'[s], u) <=> Visits(doing[s], u)
  BY <1>7 DEF Visits
<1>11. Window(queue)' = Window(queue) /\ \A i \in Window(queue) : c2[i] = c[i]
  BY <1>3, <1>7 DEF Window
<1>12. \A i \in 0..(queue.shared_out_start - 1) : c2[i] = c[i]
  BY <1>3, <1>7
<1>13. WindowIs(c2, depth - 1)'
  BY <1>1, <1>2, <1>7, <1>8, <1>11, <1>12 DEF WindowIs
<1>14. DepthsSupported'
  BY <1>1, <1>2 DEF DepthsSupported, Source
<1>15. \A s \in Threads : VisitGood(VisitOf(doing[s]))'
  BY <1>2, <1>7, <1>9
<1>16. (\A i \in Window(queue) \ todo :
            Followed(c2[i]) \/ \E s \in Threads : Visits(doing[s], c2[i]))'
  BY <1>1, <1>2, <1>8, <1>10, <1>11
<1>17. ({n \in Vertices(graph) : depths[n] = depth} = Behind(c2) \cup AboutToPut)'
  BY <1>1, <1>2, <1>7
<1> QED BY <1>1, <1>2, <1>11, <1>13, <1>14, <1>15, <1>16, <1>17 DEF Leveled

LEMMA SwapIsLeveled ==
  ASSUME IsGraph(graph), NEW c, Expanding(c), Leveled(c), NEW t \in Threads, Swap(t)
  PROVE  /\ Leveled(c)' /\ UNCHANGED <<graph, region, sources>>
         /\ BcSearch!Discover \/ UNCHANGED depths
<1>1. PICK d : d = doing[t]
  OBVIOUS
<1>2. PICK v : v = Head(d.left).v
  OBVIOUS
<1>3. PICK next : next = [d EXCEPT !.step = "compare"]
  OBVIOUS
<1>4. /\ region = "expand" /\ d.step = "swap"
      /\ IF depths[v] = -1
           THEN depths' = [depths EXCEPT ![v] = depth] /\ Push(t, v, next)
           ELSE Proceed(t, next) /\ UNCHANGED <<depths, lqueue>>
      /\ UNCHANGED <<graph, queue, sources, depth>>
  BY <1>1, <1>2, <1>3 DEF Swap, At
<1>5. UNCHANGED <<region, todo>>
  BY <1>4 DEF Push, Proceed
<1>6. /\ d \in Visiting(graph) /\ d \in BackFrom(graph) /\ VisitGood(d)
      /\ v \in Vertices(graph) /\ HasEdge(graph, d.u, v)
      /\ d.u \in Vertices(graph) /\ depths[d.u] = depth - 1
      /\ depth \in Nat /\ depth > 0 /\ depths \in [Vertices(graph) -> Int]
      /\ \A n \in Vertices(graph) : depths[n] \in -1..depth
  BY <1>1, <1>2, <1>4, VisitUnderWay DEF VisitingSteps
<1>7. CASE depths[v] # -1
  <2>1. depths[v] >= 0
    BY <1>6, <1>7
  <2>2. /\ next \in BackFrom(graph) /\ VisitGood(next)
        /\ \A u : Visits(d, u) => Visits(next, u)
    BY <1>2, <1>3, <1>6, <2>1, StepInVisit DEF VisitingSteps
  <2>3. doing' = [doing EXCEPT ![t] = next] /\ UNCHANGED <<depths, lqueue>>
    BY <1>4, <1>7 DEF Proceed
  <2>4. Leveled(c)'
    BY <1>1, <1>4, <1>5, <1>6, <2>2, <2>3, LevelStaysWhenProceeding
  <2> QED BY <1>4, <1>5, <2>3, <2>4
<1>8. CASE depths[v] = -1
  <2>1. depths' = [depths EXCEPT ![v] = depth] /\ Push(t, v, next)
    BY <1>4, <1>8
  <2>2. Pushes(doing, lqueue, t, v, next, doing', lqueue')
    BY <2>1 DEF Push, Proceed, Pushes
  <2>3. Leveled(c)'
    BY <1>1, <1>2, <1>3, <1>4, <1>5, <1>8, <2>1, <2>2, FoundIsLeveled
  <2>4. \A n \in Vertices(graph) : depths[n] \in 0..(depth - 2) => Followed(n)
    BY <1>4, <1>6 DEF Leveled, WindowIs
  <2>5. BcSearch!Discover
    <3>1. ASSUME NEW n \in Vertices(graph), depths[n] \in 0..(depths[d.u] - 1)
          PROVE  BcSearch!Settled(n)
      <4>1. Followed(n)
        BY <1>6, <2>4, <3>1
      <4> QED BY <1>6, <4>1 DEF BcSearch!Settled, Followed
    <3>2. <<d.u, v>> \in {e \in Vertices(graph) \X Vertices(graph) : HasEdge(graph, e[1], e[2])}
      BY <1>6
    <3>3. depths[d.u] # -1 /\ depths' = [depths EXCEPT ![v] = depths[d.u] + 1]
      BY <1>6, <2>1
    <3> QED
      BY <1>4, <1>5, <1>6, <1>8, <3>1, <3>2, <3>3 DEF BcSearch!Discover
  <2> QED BY <1>4, <1>5, <2>3, <2>5
<1> QED BY <1>7, <1>8

(* A search begins, the first one or the next.                             *)
LEMMA SourceSearches ==
  ASSUME BcLevels, region \in {"built", "back"}, NEW q \in Queues(graph), q.shared_in = 0,
         lqueue = NoBuffers, BeginSource(q), UNCHANGED <<job, graph, lqueue>>
  PROVE  BcLevels' /\ BcSearch!Begin
<1>1. IsGraph(graph) /\ sources \in Seq(Vertices(graph))
  BY DEF BcLevels
<1>2. /\ \E c : Expanding(c)' /\ Leveled(c)'
      /\ region' = "level" /\ sources' \in Seq(Vertices(graph)) \ {<< >>}
      /\ \E s \in Vertices(graph) :
           depths' = [n \in Vertices(graph) |-> IF n = s THEN 0 ELSE -1]
  BY <1>1, SourceIsLeveled
<1>3. BcLevels'
  BY <1>1, <1>2 DEF BcLevels
<1>4. BcSearch!Begin
  BY <1>2 DEF BcSearch!Begin
<1> QED BY <1>3, <1>4

LEMMA BcSteps ==
  ASSUME BcLevels, BcNext
  PROVE  BcLevels' /\ (BcSearch!Next \/ UNCHANGED BcSearch!vars)
<1>1. /\ IsGraph(graph) /\ sources \in Seq(Vertices(graph)) /\ UNCHANGED <<job, graph>>
  BY DEF BcLevels, BcNext, StartBc, BeginLevel, EndLevel, EndSource, Expand, Test, Swap,
         Compare, Count, BcFlush
<1>2. CASE StartBc
  <2>1. region = "built" /\ lqueue = NoBuffers
    BY <1>2 DEF BcLevels, StartBc
  <2>2. BeginSource(EmptyQueue(graph.num_nodes)) /\ UNCHANGED <<job, graph, lqueue>>
    BY <1>2 DEF StartBc
  <2> QED
    BY <1>1, <2>1, <2>2, NewQueues, SourceSearches DEF BcSearch!Next
<1>3. CASE BcNext /\ ~StartBc
  <2>1. region \in {"level", "expand", "back"}
    BY <1>3 DEF BcLevels, BcNext, BeginLevel, EndLevel, EndSource, AllFlushed, AllDone, Expand,
                Test, Swap, Compare, Count, BcFlush, At
  <2>2. PICK c : Expanding(c) /\ Leveled(c) /\ sources # << >>
    BY <2>1 DEF BcLevels
  <2>3. ASSUME NEW c2, Expanding(c2)', Leveled(c2)', sources' = sources,
               region' \in {"level", "expand", "back"}
        PROVE  BcLevels'
    BY <1>1, <2>2, <2>3 DEF BcLevels
  <2>4. ASSUME UNCHANGED <<graph, depths, region>>
        PROVE  UNCHANGED BcSearch!vars
    BY <2>4 DEF BcSearch!vars
  <2>5. CASE BeginLevel
    <3>1. Leveled(c)' /\ UNCHANGED <<graph, depths, sources>> /\ Expanding(c)'
      BY <1>1, <2>2, <2>5, LevelBegins, EntersLevel
    <3>2. region = "level" /\ region' \in {"back", "expand"}
      BY <2>5 DEF BeginLevel, Enter
    <3>3. CASE region' = "expand"
      <4>1. UNCHANGED BcSearch!vars
        BY <3>1, <3>2, <3>3 DEF BcSearch!vars
      <4> QED BY <2>3, <3>1, <3>2, <4>1
    <3>4. CASE region' = "back"
      <4>1. \A n \in Vertices(graph) : depths[n] >= 0 => Followed(n)
        <5>1. \A n \in Vertices(graph) : depths'[n] >= 0 => Followed(n)'
          BY <3>1, <3>4 DEF Leveled
        <5> QED BY <3>1, <5>1 DEF Followed
      <4>2. depths \in [Vertices(graph) -> Int] /\ \A n \in Vertices(graph) : depths[n] >= -1
        BY <2>2 DEF Expanding, Leveled, DepthsSupported
      <4>3. BcSearch!Complete
        <5>1. ASSUME NEW n \in Vertices(graph), depths[n] # -1 PROVE BcSearch!Settled(n)
          <6>1. Followed(n) /\ depths[n] \in Int
            BY <4>1, <4>2, <5>1
          <6> QED BY <6>1 DEF BcSearch!Settled, Followed
        <5> QED BY <5>1 DEF BcSearch!Complete
      <4>4. BcSearch!End
        BY <3>1, <3>2, <3>4, <4>3 DEF BcSearch!End
      <4> QED BY <2>3, <3>1, <3>2, <4>4 DEF BcSearch!Next
    <3> QED BY <3>2, <3>3, <3>4
  <2>6. CASE EndLevel
    <3>1. Leveled(c)' /\ UNCHANGED <<graph, depths, sources>> /\ Expanding(c)'
      BY <1>1, <2>2, <2>6, LevelEnds, EntersLevel
    <3>2. region = "expand" /\ region' = "level"
      BY <2>6 DEF EndLevel, Enter, AllFlushed, AllDone
    <3>3. UNCHANGED BcSearch!vars
      BY <3>1, <3>2 DEF BcSearch!vars
    <3> QED BY <2>3, <3>1, <3>2, <3>3
  <2>7. CASE EndSource
    <3>1. /\ region = "back" /\ lqueue = NoBuffers /\ queue \in Queues(graph)
          /\ UNCHANGED <<job, graph, lqueue>>
      BY <2>2, <2>7 DEF Expanding, EndSource, Tidy
    <3>2. CASE BeginSource(ResetQueue(queue))
      BY <1>1, <3>1, <3>2, NewQueues, SourceSearches DEF BcSearch!Next
    <3>3. CASE Enter("finished", {}) /\ UNCHANGED <<depths, sources>>
      <4>1. region' = "finished"
        BY <3>3 DEF Enter
      <4>2. depths # << >>
        <5>1. depths \in [Vertices(graph) -> Int] /\ Tidy(graph, c, queue, Found(graph, depths), doing, lqueue)
          BY <2>2 DEF Expanding
        <5>2. PICK n \in Vertices(graph) : n = Source
          BY <1>1, <2>2 DEF Source
        <5> QED BY <5>1, <5>2
      <4>3. UNCHANGED BcSearch!vars
        BY <3>1, <3>3, <4>1 DEF BcSearch!vars
      <4> QED BY <1>1, <3>3, <4>1, <4>2, <4>3 DEF BcLevels
    <3> QED BY <2>7, <3>2, <3>3 DEF EndSource
  <2>8. ASSUME NEW t \in Threads, Expand(t) \/ Test(t) \/ Compare(t) \/ Count(t)
        PROVE  BcLevels' /\ UNCHANGED BcSearch!vars
    <3>1. Expanding(c)'
      BY <1>1, <2>2, <2>8, ExpandsLevel
    <3>2. Leveled(c)' /\ UNCHANGED <<graph, region, depths, sources>>
      BY <1>1, <2>2, <2>8, VisitBegins, VisitMoves
    <3> QED BY <2>1, <2>3, <2>4, <3>1, <3>2
  <2>9. ASSUME NEW t \in Threads, Swap(t)
        PROVE  BcLevels' /\ (BcSearch!Next \/ UNCHANGED BcSearch!vars)
    <3>1. Expanding(c)'
      BY <1>1, <2>2, <2>9, ExpandsLevel
    <3>2. /\ Leveled(c)' /\ UNCHANGED <<graph, region, sources>>
          /\ BcSearch!Discover \/ UNCHANGED depths
      BY <1>1, <2>2, <2>9, SwapIsLeveled
    <3> QED BY <2>1, <2>3, <2>4, <3>1, <3>2 DEF BcSearch!Next
  <2>10. ASSUME NEW t \in Threads, BcFlush(t)
         PROVE  BcLevels' /\ UNCHANGED BcSearch!vars
    <3>1. PICK c2 : /\ Expanding(c2)'
                    /\ c2 = AfterFlush(c, t)
      BY <1>1, <2>2, <2>10, FlushesLevel
    <3>2. Leveled(c2)' /\ UNCHANGED <<graph, region, depths, sources>>
      BY <1>1, <2>2, <2>10, <3>1, FlushIsLeveled
    <3> QED BY <2>1, <2>3, <2>4, <3>1, <3>2
  <2> QED BY <1>3, <2>5, <2>6, <2>7, <2>8, <2>9, <2>10 DEF BcNext
<1> QED BY <1>2, <1>3

LEMMA BcLevelsHold == BcSpec => []BcLevels
<1>1. BcStart => BcLevels
  BY DEF BcStart, BcLevels, BcInit
<1>2. BcLevels /\ UNCHANGED bcAll => BcLevels'
  <2> SUFFICES ASSUME BcLevels, UNCHANGED bcAll PROVE BcLevels'
    OBVIOUS
  <2>1. UNCHANGED <<job, graph, region, todo, doing, queue, lqueue, depth, depths, sources>>
    BY DEF bcAll, loopVars, queueVars, bcVars
  <2>2. ASSUME NEW c, Expanding(c) PROVE Expanding(c)'
    BY <2>1, <2>2 DEF Expanding
  <2>3. ASSUME NEW c, Leveled(c) PROVE Leveled(c)'
    BY <2>1, <2>3 DEF Leveled, DepthsSupported, WindowIs, Window, Followed, Source, Visits, VisitGood,
                VisitOf, Behind, AboutToPut
  <2> QED BY <2>1, <2>2, <2>3 DEF BcLevels
<1> QED BY <1>1, <1>2, BcSteps, PTL DEF BcSpec

(* The searches of betweenness centrality are searches by levels, one      *)
(* after the other (bc.cc:50): however the threads of a level interleave,  *)
(* and whenever they flush, a node is found from the lowest level that     *)
(* still has successors to be found, and a search ends with none left.     *)
THEOREM ScoringSearchesByLevels == BcSpec => BcSearch!Spec
<1>1. BcStart => BcSearch!Init
  BY DEF BcStart, BcInit, BcSearch!Init, BcSearch!Graph, BcSearch!None, Vertices, IsGraph
<1>2. BcLevels /\ [BcNext]_bcAll => [BcSearch!Next]_BcSearch!vars
  <2>1. UNCHANGED bcAll => UNCHANGED BcSearch!vars
    BY DEF bcAll, loopVars, bcVars, BcSearch!vars
  <2> QED BY <2>1, BcSteps
<1> QED BY <1>1, <1>2, BcLevelsHold, PTL DEF BcSpec, BcSearch!Spec

-----------------------------------------------------------------------------
(* Levels that a search by levels gives are distances                      *)

BallsUpTo(g, source, b, m) ==
  b = [k \in 0..m |-> IF k = 0 THEN {source} ELSE b[k - 1] \cup Successors(g, b[k - 1])]

(* The balls around a node exist, and so are what their definition says.   *)
LEMMA BallsAre ==
  ASSUME NEW g, g.num_nodes \in Nat, NEW source
  PROVE  BallsUpTo(g, source, Within(g, source), g.num_nodes)
<1>1. PICK S : S = {m \in 0..g.num_nodes : \E b : BallsUpTo(g, source, b, m)}
  OBVIOUS
<1>2. 0 \in S
  <2>1. PICK b : b = [k \in 0..0 |-> {source}]
    OBVIOUS
  <2>2. BallsUpTo(g, source, b, 0)
    BY <2>1 DEF BallsUpTo
  <2> QED BY <1>1, <2>2
<1>3. ASSUME NEW m \in 0..(g.num_nodes - 1), m \in S PROVE m + 1 \in S
  <2>1. PICK b : BallsUpTo(g, source, b, m)
    BY <1>1, <1>3
  <2>2. PICK next : next = [k \in 0..(m + 1) |->
                              IF k = m + 1 THEN b[m] \cup Successors(g, b[m]) ELSE b[k]]
    OBVIOUS
  <2>3. /\ next[m + 1] = b[m] \cup Successors(g, b[m])
        /\ \A k \in 0..m : next[k] = b[k]
    BY <2>2
  <2>4. \A k \in 0..m : b[k] = IF k = 0 THEN {source} ELSE b[k - 1] \cup Successors(g, b[k - 1])
    BY <2>1 DEF BallsUpTo
  <2>5. ASSUME NEW k \in 0..(m + 1)
        PROVE  next[k] = IF k = 0 THEN {source} ELSE next[k - 1] \cup Successors(g, next[k - 1])
    <3>1. CASE k = 0
      <4>1. 0 \in 0..m
        OBVIOUS
      <4>2. next[0] = b[0] /\ b[0] = {source}
        BY <2>3, <2>4, <4>1
      <4> QED BY <3>1, <4>2
    <3>2. CASE k = m + 1
      <4>1. k # 0 /\ k - 1 = m /\ next[m] = b[m]
        BY <2>3, <3>2
      <4> QED BY <2>3, <3>2, <4>1
    <3>3. CASE k # 0 /\ k # m + 1
      <4>1. k \in 0..m /\ k - 1 \in 0..m
        BY <3>3
      <4>2. next[k] = b[k] /\ next[k - 1] = b[k - 1]
        BY <2>3, <4>1
      <4> QED BY <2>4, <3>3, <4>1, <4>2
    <3> QED BY <3>1, <3>2, <3>3
  <2>6. next = [k \in 0..(m + 1) |-> next[k]]
    BY <2>2
  <2>7. BallsUpTo(g, source, next, m + 1)
    BY <2>5, <2>6 DEF BallsUpTo
  <2> QED BY <1>1, <2>7
<1>4. g.num_nodes \in S
  BY <1>2, <1>3, Counting
<1>5. \E b : BallsUpTo(g, source, b, g.num_nodes)
  BY <1>1, <1>4
<1> QED BY <1>5 DEF Within, BallsUpTo

(* What levels promise of a node, as LevelsAreDistances says it.           *)
LevelsRise(g, s, lev) ==
  /\ lev \in [Vertices(g) -> Int] /\ s \in Vertices(g)
  /\ \A n \in Vertices(g) : lev[n] >= -1 /\ (lev[n] = 0 <=> n = s)
  /\ \A n \in Vertices(g) : lev[n] > 0 =>
       \E u \in Vertices(g) : HasEdge(g, u, n) /\ lev[n] = lev[u] + 1

LevelsFrom(g, s, lev) ==
  /\ LevelsRise(g, s, lev)
  /\ \A u, v \in Vertices(g) : HasEdge(g, u, v) /\ lev[u] >= 0 => lev[v] \in 0..(lev[u] + 1)

(* No level is skipped, so that there are no more of them than nodes.      *)
LEMMA LevelsAreFewer ==
  ASSUME NEW g, g.num_nodes \in Nat, NEW s, NEW lev, LevelsRise(g, s, lev),
         NEW v \in Vertices(g), lev[v] >= 0
  PROVE  lev[v] \in 0..(g.num_nodes - 1)
<1>1. lev[v] \in Nat
  BY DEF LevelsRise
<1>2. PICK k \in Nat : k = lev[v]
  BY <1>1
<1>3. ASSUME NEW j \in 0..k PROVE \E n \in Vertices(g) : lev[n] = j
  <2>1. PICK S : S = {i \in 0..k : \E n \in Vertices(g) : lev[n] = k - i}
    OBVIOUS
  <2>2. 0 \in S
    BY <1>2, <2>1
  <2>3. ASSUME NEW i \in 0..(k - 1), i \in S PROVE i + 1 \in S
    <3>1. PICK n \in Vertices(g) : lev[n] = k - i
      BY <2>1, <2>3
    <3>2. k - i > 0
      BY <2>3
    <3>3. PICK u \in Vertices(g) : lev[n] = lev[u] + 1
      BY <3>1, <3>2 DEF LevelsRise
    <3>4. lev[u] = k - (i + 1)
      BY <3>1, <3>3 DEF LevelsRise
    <3> QED BY <2>1, <3>4
  <2>4. k - j \in S
    BY <2>2, <2>3, Counting
  <2> QED BY <2>1, <2>4
<1>4. PICK at : at = [j \in 0..k |-> CHOOSE n \in Vertices(g) : lev[n] = j]
  OBVIOUS
<1>5. \A j \in 0..k : at[j] \in Vertices(g) /\ lev[at[j]] = j
  BY <1>3, <1>4
<1>6. at \in Injection(0..k, Vertices(g))
  BY <1>4, <1>5 DEF Injection, IsInjective
<1>7. /\ IsFiniteSet(Vertices(g)) /\ Cardinality(Vertices(g)) = g.num_nodes
      /\ IsFiniteSet(0..k) /\ Cardinality(0..k) = k + 1
  <2>1. /\ IsFiniteSet(0..k) /\ Cardinality(0..k) = IF 0 > k THEN 0 ELSE k - 0 + 1
    BY FS_Interval
  <2>2. /\ IsFiniteSet(0..(g.num_nodes - 1))
        /\ Cardinality(0..(g.num_nodes - 1)) = IF 0 > g.num_nodes - 1 THEN 0 ELSE g.num_nodes - 1 - 0 + 1
    BY SMTT(30), FS_Interval
  <2> QED BY <2>1, <2>2 DEF Vertices
<1>8. Cardinality(0..k) <= Cardinality(Vertices(g))
  BY <1>6, <1>7, FS_Injection
<1> QED BY <1>2, <1>7, <1>8

(* A node is as many edges away as its level says.                         *)
LEMMA LevelsAreDepths ==
  ASSUME NEW g, g.num_nodes \in Nat, NEW s, NEW lev, LevelsFrom(g, s, lev),
         NEW v \in Vertices(g)
  PROVE  lev[v] = Depth(g, s, v)
<1>1. PICK ball : ball = Within(g, s)
  OBVIOUS
<1>2. PICK N \in Nat : N = g.num_nodes
  OBVIOUS
<1>3. \A k \in 0..N : ball[k] = IF k = 0 THEN {s} ELSE ball[k - 1] \cup Successors(g, ball[k - 1])
  <2>1. BallsUpTo(g, s, ball, N)
    BY <1>1, <1>2, BallsAre
  <2>2. ball = [k \in 0..N |-> IF k = 0 THEN {s} ELSE ball[k - 1] \cup Successors(g, ball[k - 1])]
    BY <2>1 DEF BallsUpTo
  <2> HIDE DEF BallsUpTo
  <2>3. PICK f : f = [k \in 0..N |-> IF k = 0 THEN {s} ELSE ball[k - 1] \cup Successors(g, ball[k - 1])]
    OBVIOUS
  <2>4. \A k \in 0..N : f[k] = IF k = 0 THEN {s} ELSE ball[k - 1] \cup Successors(g, ball[k - 1])
    BY <2>3
  <2> QED BY <2>2, <2>3, <2>4
<1>4. ASSUME NEW k \in 0..N
      PROVE  \A n \in Vertices(g) : n \in ball[k] <=> lev[n] \in 0..k
  <2>1. PICK S : S = {j \in 0..N : ball[j] \subseteq Vertices(g)
                                     /\ \A n \in Vertices(g) : n \in ball[j] <=> lev[n] \in 0..j}
    OBVIOUS
  <2>2. 0 \in S
    <3>1. 0 \in 0..N
      BY <1>2
    <3>2. ball[0] = {s}
      BY <1>3, <3>1
    <3>3. s \in Vertices(g) /\ \A n \in Vertices(g) : n = s <=> lev[n] \in 0..0
      BY DEF LevelsFrom, LevelsRise
    <3> QED BY <2>1, <3>1, <3>2, <3>3
  <2>3. ASSUME NEW j \in 0..(N - 1), j \in S PROVE j + 1 \in S
    <3>1. ball[j] \subseteq Vertices(g) /\ \A n \in Vertices(g) : n \in ball[j] <=> lev[n] \in 0..j
      BY <2>1, <2>3
    <3>2. ball[j + 1] = ball[j] \cup Successors(g, ball[j])
      <4>1. PICK i \in 0..N : i = j + 1
        BY <1>2, <2>3
      <4>2. i # 0 /\ i - 1 = j
        BY <4>1
      <4>3. ball[i] = ball[i - 1] \cup Successors(g, ball[i - 1])
        BY <1>3, <4>2
      <4> QED BY <4>1, <4>2, <4>3
    <3>3. ball[j + 1] \subseteq Vertices(g)
      BY <3>1, <3>2 DEF Successors
    <3>4. ASSUME NEW n \in Vertices(g), n \in ball[j + 1] PROVE lev[n] \in 0..(j + 1)
      <4>1. CASE n \in ball[j]
        BY <3>1, <4>1
      <4>2. CASE n \in Successors(g, ball[j])
        <5>1. PICK u \in ball[j] : HasEdge(g, u, n)
          BY <4>2 DEF Successors
        <5>2. u \in Vertices(g) /\ lev[u] \in 0..j
          BY <3>1, <5>1
        <5>3. lev[n] \in 0..(lev[u] + 1)
          BY <5>1, <5>2 DEF LevelsFrom, LevelsRise
        <5> QED BY <5>2, <5>3
      <4> QED BY <3>2, <3>4, <4>1, <4>2
    <3>5. ASSUME NEW n \in Vertices(g), lev[n] \in 0..(j + 1) PROVE n \in ball[j + 1]
      <4>1. CASE lev[n] \in 0..j
        BY <3>1, <3>2, <4>1
      <4>2. CASE lev[n] = j + 1
        <5>1. PICK u \in Vertices(g) : HasEdge(g, u, n) /\ lev[n] = lev[u] + 1
          BY <4>2 DEF LevelsFrom, LevelsRise
        <5>2. lev[u] \in 0..j
          BY <4>2, <5>1 DEF LevelsFrom, LevelsRise
        <5> QED BY <3>1, <3>2, <5>1, <5>2 DEF Successors
      <4> QED BY <3>5, <4>1, <4>2
    <3> QED BY <2>1, <3>3, <3>4, <3>5
  <2>4. k \in S
    BY <1>4, <2>2, <2>3, Counting
  <2> QED BY <2>1, <2>4
<1>5. PICK near : near = {k \in 0..N : v \in ball[k]}
  OBVIOUS
<1>6. Depth(g, s, v) = IF near = {} THEN -1 ELSE Min(near)
  BY <1>1, <1>2, <1>5 DEF Depth
<1>7. near = {k \in 0..N : lev[v] \in 0..k}
  BY <1>4, <1>5
<1>8. CASE lev[v] = -1
  BY <1>6, <1>7, <1>8
<1>9. CASE lev[v] # -1
  <2>1. lev[v] \in 0..(N - 1)
    BY <1>2, <1>9, LevelsAreFewer DEF LevelsFrom, LevelsRise
  <2>2. lev[v] \in near /\ \A k \in near : lev[v] <= k
    BY <1>7, <2>1
  <2>3. Min(near) = lev[v]
    BY <1>7, <2>1, <2>2 DEF Min
  <2> QED BY <1>6, <2>2, <2>3
<1> QED BY <1>8, <1>9

(* When a search of betweenness centrality ends, the depth of each node is *)
(* its distance from the source, -1 when there is no path (bc.cc:70).      *)
THEOREM DepthsBecomeDistances == BcSpec => []DepthsAreExact
<1>1. ASSUME BcLevels, region = "back" PROVE DepthsAreExact
  <2>1. PICK c : Expanding(c) /\ Leveled(c)
    BY <1>1 DEF BcLevels
  <2>2. /\ Source \in Vertices(graph) /\ Source = Last(sources)
        /\ graph.num_nodes \in Nat
    BY <1>1 DEF BcLevels, Source, Last, IsGraph
  <2>3. LevelsFrom(graph, Source, depths)
    <3>1. /\ depths \in [Vertices(graph) -> Int] /\ depth \in Nat /\ DepthsSupported
          /\ \A n \in Vertices(graph) : depths[n] >= 0 => Followed(n)
      BY <1>1, <2>1 DEF Expanding, Leveled
    <3> QED BY <2>2, <3>1 DEF LevelsFrom, LevelsRise, DepthsSupported, Followed
  <2>4. \A v \in Vertices(graph) : depths[v] = Depth(graph, Source, v)
    BY <2>2, <2>3, LevelsAreDepths
  <2> QED BY <2>2, <2>4 DEF DepthsAreExact
<1>2. BcLevels => DepthsAreExact
  BY <1>1 DEF DepthsAreExact
<1> QED BY <1>2, BcLevelsHold, PTL

-----------------------------------------------------------------------------
(* Breadth-first search goes by levels                                     *)
(*                                                                         *)
(* The level a node has is the length of the chain of its parents.  What   *)
(* the queue, the buffers and the bitmaps hold at each step of the search  *)
(* is stated by its levels; it makes every node found a step of a search   *)
(* by levels, and the end of the program the end of that search.           *)

ChunkOf(n) == n \div ChunkSize

LEMMA Euclid ==
  ASSUME NEW n \in Nat, NEW k \in Nat \ {0}
  PROVE  n \div k \in Nat /\ n % k \in 0..(k - 1) /\ n = k * (n \div k) + (n % k)
OBVIOUS

LEMMA EuclidOnly ==
  ASSUME NEW k \in Nat \ {0}, NEW q \in Int, NEW r \in 0..(k - 1), NEW n \in Int, n = k * q + r
  PROVE  n \div k = q /\ n % k = r
OBVIOUS

LEMMA ChunksCover ==
  ASSUME IsGraph(graph), NEW n \in Vertices(graph)
  PROVE  /\ \E m \in Chunks : ChunkOf(m) = ChunkOf(n)
         /\ \A m \in Chunks : ChunkOf(m) = ChunkOf(n) => m <= n
<1>1. n \in Nat /\ ChunkSize \in Nat \ {0}
  BY BfsAssumption DEF Vertices
<1>2. PICK k \in Nat \ {0} : k = ChunkSize
  BY <1>1
<1>3. PICK q \in Nat : q = n \div k
  BY <1>1, <1>2
<1>4. PICK m : m = k * q
  OBVIOUS
<1>5. m \in Nat /\ m <= n
  BY <1>1, <1>2, <1>3, <1>4, Euclid
<1>6. m \div k = q /\ m % k = 0
  <2>1. m = k * q + 0 /\ 0 \in 0..(k - 1)
    BY <1>4
  <2> QED BY <1>5, <2>1, EuclidOnly
<1>7. m \in Chunks
  <2>1. m \in Vertices(graph)
    BY <1>1, <1>5 DEF Vertices, IsGraph
  <2> QED BY <1>2, <1>6, <2>1 DEF Chunks
<1>8. ASSUME NEW j \in Chunks, ChunkOf(j) = ChunkOf(n) PROVE j <= n
  <2>1. j \in Nat /\ j % k = 0 /\ j \div k = q
    BY <1>2, <1>3, <1>8 DEF Chunks, Vertices, ChunkOf
  <2>2. j = k * (j \div k) + (j % k)
    BY <2>1, Euclid
  <2>3. j = k * q
    BY <2>1, <2>2
  <2> QED BY <1>4, <1>5, <2>3
<1> QED BY <1>2, <1>3, <1>6, <1>7, <1>8 DEF ChunkOf

LEMMA ChunksGoOn ==
  ASSUME IsGraph(graph), NEW u \in Vertices(graph)
  PROVE  /\ u + 1 \in Vertices(graph) \ Chunks => ChunkOf(u + 1) = ChunkOf(u)
         /\ \A n \in Vertices(graph) : n > u /\ ChunkOf(n) = ChunkOf(u) =>
              u + 1 \in Vertices(graph) \ Chunks
<1>1. PICK k \in Nat \ {0} : k = ChunkSize
  BY BfsAssumption
<1>2. u \in Nat
  BY DEF Vertices
<1>3. PICK q \in Nat, r \in 0..(k - 1) : q = u \div k /\ r = u % k /\ u = k * q + r
  BY <1>2, Euclid
<1>4. CASE r = k - 1
  <2>1. u + 1 = k * (q + 1) + 0
    BY <1>2, <1>3, <1>4
  <2>2. (u + 1) \div k = q + 1 /\ (u + 1) % k = 0
    <3>1. PICK p \in Nat : p = q + 1
      OBVIOUS
    <3>2. PICK n \in Nat : n = u + 1
      BY <1>2
    <3>3. PICK z \in 0..(k - 1) : z = 0
      OBVIOUS
    <3>4. n = k * p + z
      BY <2>1, <3>1, <3>2, <3>3
    <3>5. n \div k = p /\ n % k = z
      BY <3>4, EuclidOnly
    <3> QED BY <3>1, <3>2, <3>3, <3>5
  <2>3. ASSUME NEW n \in Vertices(graph), n > u PROVE n \div k # q
    <3>1. n \in Nat
      BY DEF Vertices
    <3>2. PICK p \in Nat, s \in 0..(k - 1) : p = n \div k /\ n = k * p + s
      BY <3>1, Euclid
    <3>3. CASE p = q
      BY <1>3, <1>4, <2>3, <3>2, <3>3
    <3> QED BY <3>2, <3>3
  <2>4. u + 1 \notin Vertices(graph) \ Chunks
    BY <1>1, <2>2 DEF Chunks
  <2> QED BY <1>1, <1>3, <2>3, <2>4 DEF ChunkOf
<1>5. CASE r # k - 1
  <2>1. u + 1 = k * q + (r + 1) /\ r + 1 \in 0..(k - 1)
    BY <1>2, <1>3, <1>5
  <2>2. (u + 1) \div k = q /\ (u + 1) % k = r + 1
    <3>1. PICK n \in Nat : n = u + 1
      BY <1>2
    <3>2. PICK z \in 0..(k - 1) : z = r + 1
      BY <2>1
    <3>3. n = k * q + z
      BY <2>1, <3>1, <3>2
    <3>4. n \div k = q /\ n % k = z
      BY <3>3, EuclidOnly
    <3> QED BY <3>1, <3>2, <3>4
  <2>3. u + 1 \notin Chunks
    BY <1>1, <1>3, <2>2 DEF Chunks
  <2>4. \A n \in Vertices(graph) : n > u => u + 1 \in Vertices(graph)
    BY <1>2 DEF Vertices, IsGraph
  <2> QED BY <1>1, <1>3, <2>2, <2>3, <2>4 DEF ChunkOf
<1> QED BY <1>4, <1>5

(* No word of a bitmap is in two chunks.                                   *)
LEMMA WordsInChunks ==
  ASSUME NEW u \in Vertices(graph), NEW v \in Vertices(graph), WordOf(u) = WordOf(v)
  PROVE  ChunkOf(u) = ChunkOf(v)
<1>1. PICK b \in Nat \ {0} : b = BitsPerWord
  BY BfsAssumption
<1>2. PICK k \in Nat \ {0} : k = ChunkSize
  BY BfsAssumption
<1>3. PICK m \in Nat : k = b * m
  <2>1. k % b = 0
    BY <1>1, <1>2, BfsAssumption
  <2> QED BY <2>1, Euclid
<1>4. m # 0
  BY <1>1, <1>2, <1>3
<1>5. ASSUME NEW n \in Nat PROVE n \div k = (n \div b) \div m
  <2>1. PICK w \in Nat, r \in 0..(b - 1) : w = n \div b /\ n = b * w + r
    BY Euclid
  <2>2. PICK q \in Nat, s \in 0..(m - 1) : q = w \div m /\ w = m * q + s
    <3>1. m \in Nat \ {0}
      BY <1>4
    <3> QED BY <3>1, Euclid
  <2>3. PICK x : x = b * s + r
    OBVIOUS
  <2>4. b * s \in Nat /\ b * s <= b * (m - 1) /\ b * (m - 1) = k - b
    <3>1. s <= m - 1 /\ s \in Nat /\ m - 1 \in Nat
      BY <1>4, <2>2
    <3>2. \A i, j \in Nat : i <= j => b * i <= b * j
      OBVIOUS
    <3> QED BY <1>3, <3>1, <3>2
  <2>5. x \in 0..(k - 1)
    BY <2>1, <2>3, <2>4
  <2>6. n = k * q + x
    <3>1. b * (m * q + s) = (b * m) * q + b * s
      OBVIOUS
    <3>2. n = b * (m * q + s) + r
      BY <2>1, <2>2
    <3>3. b * (m * q + s) + r = (b * m) * q + (b * s + r)
      BY <2>1, <2>2, <3>1
    <3> QED BY <1>3, <2>3, <3>2, <3>3
  <2>7. n \div k = q
    BY <2>5, <2>6, EuclidOnly
  <2> QED BY <2>1, <2>2, <2>7
<1>6. u \in Nat /\ v \in Nat
  BY DEF Vertices
<1> QED BY <1>1, <1>2, <1>5, <1>6 DEF ChunkOf, WordOf

(* The level of each node found is one more than that of its parent.       *)
ByParents(L) ==
  /\ L \in [Vertices(graph) -> Int] /\ job.source \in Vertices(graph)
  /\ \A n \in Vertices(graph) :
       L[n] >= -1 /\ (L[n] = 0 <=> n = job.source) /\ (L[n] >= 0 <=> parent[n] >= 0)
  /\ \A n \in Vertices(graph) : L[n] > 0 =>
       parent[n] \in Vertices(graph) /\ HasEdge(graph, parent[n], n) /\ L[n] = L[parent[n]] + 1

ChainsUpTo(up, m) ==
  up = [k \in 0..m |-> IF k = 0 THEN [v \in Vertices(graph) |-> 0] ELSE Above(up[k - 1])]

(* The chains of parents are as long as the levels, whatever they are.     *)
LEMMA ChainsExist ==
  ASSUME NEW N \in Nat
  PROVE  \E up : ChainsUpTo(up, N)
<1>1. PICK S : S = {m \in 0..N : \E up : ChainsUpTo(up, m)}
  OBVIOUS
<1>2. 0 \in S
  <2>1. PICK up : up = [k \in 0..0 |-> [v \in Vertices(graph) |-> 0]]
    OBVIOUS
  <2>2. ChainsUpTo(up, 0)
    BY <2>1 DEF ChainsUpTo
  <2> QED BY <1>1, <2>2
<1>3. ASSUME NEW m \in 0..(N - 1), m \in S PROVE m + 1 \in S
  <2>1. PICK up : ChainsUpTo(up, m)
    BY <1>1, <1>3
  <2>2. PICK next : next = [k \in 0..(m + 1) |-> IF k = m + 1 THEN Above(up[m]) ELSE up[k]]
    OBVIOUS
  <2>3. next[m + 1] = Above(up[m]) /\ \A k \in 0..m : next[k] = up[k]
    BY <2>2
  <2>4. \A k \in 0..m : up[k] = IF k = 0 THEN [v \in Vertices(graph) |-> 0] ELSE Above(up[k - 1])
    <3>1. PICK f : f = [k \in 0..m |->
                          IF k = 0 THEN [v \in Vertices(graph) |-> 0] ELSE Above(up[k - 1])]
      OBVIOUS
    <3>2. \A k \in 0..m : f[k] = IF k = 0 THEN [v \in Vertices(graph) |-> 0] ELSE Above(up[k - 1])
      BY <3>1
    <3>3. up = f
      BY <2>1, <3>1 DEF ChainsUpTo
    <3> QED BY <3>2, <3>3
  <2>5. ASSUME NEW k \in 0..(m + 1)
        PROVE  next[k] = IF k = 0 THEN [v \in Vertices(graph) |-> 0] ELSE Above(next[k - 1])
    <3>1. CASE k = 0
      <4>1. 0 \in 0..m
        OBVIOUS
      <4> QED BY <2>3, <2>4, <3>1, <4>1
    <3>2. CASE k = m + 1
      <4>1. k # 0 /\ k - 1 = m /\ next[m] = up[m]
        BY <2>3, <3>2
      <4> QED BY <2>3, <3>2, <4>1
    <3>3. CASE k # 0 /\ k # m + 1
      <4>1. k \in 0..m /\ k - 1 \in 0..m
        BY <3>3
      <4>2. next[k] = up[k] /\ next[k - 1] = up[k - 1]
        BY <2>3, <4>1
      <4> QED BY <2>4, <3>3, <4>1, <4>2
    <3> QED BY <3>1, <3>2, <3>3
  <2>6. next = [k \in 0..(m + 1) |-> next[k]]
    BY <2>2
  <2>7. ChainsUpTo(next, m + 1)
    BY <2>5, <2>6 DEF ChainsUpTo
  <2> QED BY <1>1, <2>7
<1>4. N \in S
  BY <1>2, <1>3, Counting
<1> QED BY <1>1, <1>4

LEMMA LevelsAreByParents ==
  ASSUME IsGraph(graph), NEW L, ByParents(L), parent \in [Vertices(graph) -> Int]
  PROVE  LevelByParents = L
<1>1. PICK N \in Nat : N = graph.num_nodes
  BY DEF IsGraph
<1>2. PICK up : up = CHOOSE f : ChainsUpTo(f, N)
  OBVIOUS
<1>3. ChainsUpTo(up, N)
  BY <1>2, ChainsExist
<1>4. LevelByParents = [v \in DOMAIN parent |-> IF parent[v] < 0 THEN -1 ELSE up[N][v]]
  BY <1>1, <1>2 DEF LevelByParents, ChainsUpTo
<1>5. \A k \in 0..N : up[k] = IF k = 0 THEN [v \in Vertices(graph) |-> 0] ELSE Above(up[k - 1])
  <2>1. PICK f : f = [k \in 0..N |->
                        IF k = 0 THEN [v \in Vertices(graph) |-> 0] ELSE Above(up[k - 1])]
    OBVIOUS
  <2>2. \A k \in 0..N : f[k] = IF k = 0 THEN [v \in Vertices(graph) |-> 0] ELSE Above(up[k - 1])
    BY <2>1
  <2>3. up = f
    BY <1>3, <2>1 DEF ChainsUpTo
  <2> QED BY <2>2, <2>3
<1>6. ASSUME NEW v \in Vertices(graph), L[v] >= 0 PROVE up[N][v] = L[v]
  <2>1. PICK S : S = {k \in 0..N : \A n \in Vertices(graph) : L[n] \in 0..k => up[k][n] = L[n]}
    OBVIOUS
  <2>2. 0 \in S
    <3>1. 0 \in 0..N
      OBVIOUS
    <3>2. up[0] = [n \in Vertices(graph) |-> 0]
      BY <1>5, <3>1
    <3> QED BY <2>1, <3>1, <3>2 DEF ByParents
  <2>3. ASSUME NEW k \in 0..(N - 1), k \in S PROVE k + 1 \in S
    <3>1. PICK j \in 0..N : j = k + 1 /\ j # 0 /\ j - 1 = k
      BY <1>1, <2>3
    <3>2. up[j] = Above(up[k])
      BY <1>5, <3>1
    <3>3. ASSUME NEW n \in Vertices(graph), L[n] \in 0..j PROVE up[j][n] = L[n]
      <4>1. up[j][n] = IF n = job.source \/ parent[n] < 0 THEN 0 ELSE 1 + up[k][parent[n]]
        BY <3>2 DEF Above
      <4>2. CASE n = job.source
        BY <4>1, <4>2 DEF ByParents
      <4>3. CASE n # job.source
        <5>1. L[n] > 0 /\ parent[n] \in Int
          BY <3>3, <4>3 DEF ByParents
        <5>2. /\ parent[n] \in Vertices(graph) /\ L[n] = L[parent[n]] + 1
              /\ L[parent[n]] \in Int
          BY <5>1 DEF ByParents
        <5>3. L[parent[n]] \in 0..k /\ ~(parent[n] < 0)
          BY <3>1, <3>3, <5>1, <5>2 DEF Vertices
        <5>4. up[k][parent[n]] = L[parent[n]]
          BY <2>1, <2>3, <5>2, <5>3
        <5> QED BY <4>1, <4>3, <5>2, <5>3, <5>4
      <4> QED BY <4>2, <4>3
    <3> QED BY <2>1, <3>1, <3>3
  <2>4. N \in S
    BY <2>2, <2>3, Counting
  <2>5. LevelsRise(graph, job.source, L)
    BY DEF ByParents, LevelsRise, Vertices
  <2>6. L[v] \in 0..N
    <3>1. L[v] \in 0..(N - 1)
      BY <1>1, <1>6, <2>5, LevelsAreFewer
    <3> QED BY <3>1
  <2> QED BY <2>1, <2>4, <2>6
<1>7. \A v \in Vertices(graph) :
        L[v] \in Int /\ L[v] >= -1 /\ parent[v] \in Int /\ (L[v] >= 0 <=> parent[v] >= 0)
  BY DEF ByParents
<1>8. ASSUME NEW v \in Vertices(graph)
      PROVE  (IF parent[v] < 0 THEN -1 ELSE up[N][v]) = L[v]
  BY <1>6, <1>7
<1>9. LevelByParents = [v \in Vertices(graph) |-> L[v]]
  BY <1>4, <1>8
<1> QED BY <1>9 DEF ByParents

(* A node is found.                                                        *)
LEMMA FoundByParents ==
  ASSUME NEW L, ByParents(L), parent \in [Vertices(graph) -> Int], IsGraph(graph),
         NEW u \in Vertices(graph), NEW v \in Vertices(graph), HasEdge(graph, u, v),
         L[u] >= 0, L[v] = -1, UNCHANGED <<graph, job>>,
         parent' = [parent EXCEPT ![v] = u],
         NEW L2, L2 = [L EXCEPT ![v] = L[u] + 1]
  PROVE  ByParents(L2)' /\ parent' \in [Vertices(graph) -> Int]
<1>1. /\ L \in [Vertices(graph) -> Int] /\ job.source \in Vertices(graph) /\ L[u] \in Int
      /\ \A n \in Vertices(graph) :
           L[n] >= -1 /\ (L[n] = 0 <=> n = job.source) /\ (L[n] >= 0 <=> parent[n] >= 0)
      /\ \A n \in Vertices(graph) : L[n] > 0 =>
           parent[n] \in Vertices(graph) /\ HasEdge(graph, parent[n], n) /\ L[n] = L[parent[n]] + 1
      /\ u # v /\ u \in Int /\ u >= 0
  BY DEF ByParents, Vertices
<1>2. /\ L2 \in [Vertices(graph) -> Int] /\ L2[v] = L[u] + 1 /\ L2[u] = L[u]
      /\ \A n \in Vertices(graph) \ {v} : L2[n] = L[n]
      /\ parent' \in [Vertices(graph) -> Int] /\ parent'[v] = u
      /\ \A n \in Vertices(graph) \ {v} : parent'[n] = parent[n]
  BY <1>1
<1>3. ASSUME NEW n \in Vertices(graph)
      PROVE  L2[n] >= -1 /\ (L2[n] = 0 <=> n = job.source) /\ (L2[n] >= 0 <=> parent'[n] >= 0)
  BY <1>1, <1>2
<1>4. ASSUME NEW n \in Vertices(graph), L2[n] > 0
      PROVE  /\ parent'[n] \in Vertices(graph) /\ HasEdge(graph, parent'[n], n)
             /\ L2[n] = L2[parent'[n]] + 1
  <2>1. CASE n = v
    BY <1>2, <2>1
  <2>2. CASE n # v
    <3>1. /\ parent[n] \in Vertices(graph) /\ HasEdge(graph, parent[n], n)
          /\ L[n] = L[parent[n]] + 1 /\ parent'[n] = parent[n] /\ L2[n] = L[n]
      BY <1>1, <1>2, <1>4, <2>2
    <3>2. parent[n] # v
      BY <1>1, <1>2, <1>4, <2>2, <3>1
    <3> QED BY <1>2, <3>1, <3>2
  <2> QED BY <2>1, <2>2
<1> QED BY <1>1, <1>2, <1>3, <1>4 DEF ByParents

BfsSearch == INSTANCE LevelSearch WITH
  nodes <- Vertices(graph),
  edges <- {e \in Vertices(graph) \X Vertices(graph) : HasEdge(graph, e[1], e[2])},
  level <- LevelByParents,
  over  <- region \in {"built", "finished"}

(* All successors of a node are found.                                     *)
Passed(L, n) ==
  \A v \in Vertices(graph) : HasEdge(graph, n, v) => L[v] \in 0..(L[n] + 1)

(* In all regions: what is above level d is passed.                        *)
LevelsSoFar(L, d) ==
  /\ d \in Nat /\ ByParents(L)
  /\ \A n \in Vertices(graph) : L[n] \in 0..(d - 1) => Passed(L, n)
  /\ \A n \in front : L[n] \in 0..d

WindowHolds(c, L, d) ==
  \A n \in Vertices(graph) : L[n] = d <=> \E i \in Window(queue) : c[i] = n

SearchAt(c, L, d) ==
  /\ \A n \in Vertices(graph) : L[n] <= d
  /\ WindowHolds(c, L, d)
  /\ queue.shared_in = queue.shared_out_end

(* Top-down: a node of the window is passed, or waits, or some thread has  *)
(* in hand the edges of it that may lead to nodes not found yet.           *)
ScanSteps == {"read", "swap"}

Scans(w, u) == VisitOf(w).step \in ScanSteps /\ VisitOf(w).u = u

Leads(L, u, left) ==
  /\ \A k \in DOMAIN left : HasEdge(graph, u, left[k])
  /\ \A v \in Vertices(graph) : HasEdge(graph, u, v) =>
       L[v] >= 0 \/ \E k \in DOMAIN left : left[k] = v

ScanGood(L, d, w) ==
  w.step \in ScanSteps =>
    /\ L[w.u] = d /\ Leads(L, w.u, w.left)
    /\ w.step = "swap" /\ L[Head(w.left)] < 0 => parent[Head(w.left)] = w.curr_val

TopDownAt(c, L, d) ==
  /\ \A n \in Vertices(graph) : L[n] <= d + 1
  /\ WindowHolds(c, L, d)
  /\ todo \subseteq Window(queue)
  /\ \A i \in Window(queue) \ todo :
       Passed(L, c[i]) \/ \E t \in Threads : Scans(doing[t], c[i])
  /\ \A t \in Threads : ScanGood(L, d, VisitOf(doing[t]))
  /\ {n \in Vertices(graph) : L[n] = d + 1} = Behind(c) \cup AboutToPut

(* QueueToBitmap: a node of the window has its bit, or waits, or a thread  *)
(* goes on trying to set it.                                               *)
Marks(w, u) == w.step \in {"load", "swap"} /\ w.u = u

ToBitmapAt(c, L, d) ==
  /\ SearchAt(c, L, d) /\ todo \subseteq Window(queue)
  /\ \A i \in Window(queue) \ todo :
       c[i] \in front \/ \E t \in Threads : Marks(doing[t], c[i])
  /\ \A t \in Threads : doing[t].step \in {"load", "swap"} => L[doing[t].u] = d

(* Bottom-up: a node is found, or nothing of the front leads to it, or it  *)
(* waits in a chunk or ahead of a thread in its chunk.  Threads are in     *)
(* different chunks, so that a word of the bitmap does not change between  *)
(* the load and the store of a thread.                                     *)
LooksAt(w) == w.step \in {"node", "store"}

InChunk(w, n) == LooksAt(w) /\ ChunkOf(w.u) = ChunkOf(n)

Ahead(n) ==
  \/ \E m \in todo : ChunkOf(m) = ChunkOf(n)
  \/ \E t \in Threads : InChunk(doing[t], n) /\ doing[t].u <= n

Storing == {t \in Threads : doing[t].step = "store"}

ChunksApart ==
  /\ todo \subseteq Chunks
  /\ \A t \in Threads : \A m \in todo : ~InChunk(doing[t], m)
  /\ \A s, t \in Threads : s # t /\ LooksAt(doing[t]) => ~InChunk(doing[s], doing[t].u)

BitsHold == \A t \in Storing : doing[t].bits = Word(curr, WordOf(doing[t].u))

Stored == {doing[t].u : t \in Storing}

OutOfReach(L, d, n) == \A u \in Vertices(graph) : HasEdge(graph, u, n) => L[u] # d

BottomUpAt(L, d) ==
  /\ \A n \in Vertices(graph) : L[n] <= d + 1
  /\ queue.shared_in = queue.shared_out_end
  /\ \A n \in Vertices(graph) : L[n] = d => n \in front
  /\ \A n \in Vertices(graph) : L[n] >= 0 \/ Ahead(n) \/ OutOfReach(L, d, n)
  /\ ChunksApart /\ BitsHold
  /\ {n \in Vertices(graph) : L[n] = d + 1} = curr \cup Stored

ToQueueAt(c, L, d) ==
  /\ \A n \in Vertices(graph) : L[n] <= d
  /\ \A n \in Vertices(graph) : L[n] = d <=> n \in front
  /\ front = (todo \cap front) \cup Behind(c) \cup AboutToPut

BfsLevel(c, L, d) ==
  /\ LevelsSoFar(L, d)
  /\ region = "search"    => SearchAt(c, L, d)
  /\ region = "top down"  => TopDownAt(c, L, d)
  /\ region = "to bitmap" => ToBitmapAt(c, L, d)
  /\ region = "bottom up" => BottomUpAt(L, d)
  /\ region = "to queue"  => ToQueueAt(c, L, d)
  /\ region = "finished"  => \A n \in Vertices(graph) : L[n] < d

BfsLevels ==
  /\ IsGraph(graph) /\ job.source \in Vertices(graph)
  /\ \/ /\ region = "built" /\ doing = [t \in Threads |-> Idle]
        /\ queue = EmptyQueue(0) /\ lqueue = NoBuffers /\ parent = << >>
     \/ \E c, L, d : Searching(c) /\ BfsLevel(c, L, d)

-----------------------------------------------------------------------------

LEMMA SearchingTypes ==
  ASSUME IsGraph(graph), NEW c, Searching(c)
  PROVE  /\ queue.shared_in \in Nat /\ queue.shared_out_start \in Nat
         /\ queue.shared_out_end \in Nat
         /\ queue.shared_out_start <= queue.shared_out_end
         /\ queue.shared_out_end <= queue.shared_in
         /\ lqueue \in [Threads -> Seq(Vertices(graph))] /\ queue \in Queues(graph)
         /\ parent \in [Vertices(graph) -> Int] /\ front \subseteq Vertices(graph)
         /\ \A i \in 0..(queue.shared_in - 1) : c[i] \in Vertices(graph) /\ parent[c[i]] >= 0
         /\ \A i \in Window(queue) : i \in 0..(queue.shared_in - 1) /\ queue.shared[i] = c[i]
         /\ DOMAIN doing = Threads
<1>1. Tidy(graph, c, queue, Found(graph, parent), doing, lqueue)
  BY DEF Searching
<1>2. /\ queue.shared_in \in Nat /\ queue.shared_out_start \in Nat
      /\ queue.shared_out_end \in Nat
      /\ queue.shared_out_start <= queue.shared_out_end
      /\ queue.shared_out_end <= queue.shared_in /\ queue \in Queues(graph)
      /\ lqueue \in [Threads -> Seq(Vertices(graph))]
  BY <1>1 DEF Tidy, Queues
<1>3. \A i \in 0..(queue.shared_in - 1) : c[i] \in Vertices(graph) /\ parent[c[i]] >= 0
  BY <1>1 DEF Tidy, Found
<1>4. \A i \in 0..(queue.shared_out_end - 1) : queue.shared[i] = c[i]
  BY <1>1, TidyFits
<1>5. \A i \in Window(queue) : i \in 0..(queue.shared_in - 1) /\ i \in 0..(queue.shared_out_end - 1)
  BY <1>2 DEF Window
<1>6. DOMAIN doing = Threads
  BY DEF Searching
<1> QED BY <1>2, <1>3, <1>4, <1>5, <1>6 DEF Searching

LEMMA NothingToPut == ToPut(Idle, << >>) = {} /\ VisitOf(Idle) = Idle /\ Idle.step = "idle"
BY DEF ToPut, Handed, Idle, Range, VisitOf

(* What is said of levels stays, while no node is found.                   *)
LEMMA SameLevels ==
  ASSUME UNCHANGED <<graph, job, parent>>
  PROVE  /\ \A L : ByParents(L)' <=> ByParents(L)
         /\ \A L, n : Passed(L, n)' <=> Passed(L, n)
         /\ \A L, d, w : ScanGood(L, d, w)' <=> ScanGood(L, d, w)
         /\ front' = front => \A L, d : LevelsSoFar(L, d)' <=> LevelsSoFar(L, d)
<1>1. \A L : ByParents(L)' <=> ByParents(L)
  BY DEF ByParents
<1>2. \A L, n : Passed(L, n)' <=> Passed(L, n)
  BY DEF Passed
<1>3. \A L, d, w : ScanGood(L, d, w)' <=> ScanGood(L, d, w)
  BY DEF ScanGood, Leads
<1>4. front' = front => \A L, d : LevelsSoFar(L, d)' <=> LevelsSoFar(L, d)
  BY <1>1, <1>2 DEF LevelsSoFar
<1> QED BY <1>1, <1>2, <1>3, <1>4

LEMMA SearchBegins ==
  ASSUME IsGraph(graph), job.source \in Vertices(graph), lqueue = NoBuffers, StartBfs,
         NEW L, L = [n \in Vertices(graph) |-> IF n = job.source THEN 0 ELSE -1],
         NEW c, c = [i \in 0..0 |-> job.source]
  PROVE  BfsLevel(c, L, 0)' /\ UNCHANGED <<graph, job>> /\ region' = "search"
<1>1. /\ parent' = [InitParent EXCEPT ![job.source] = job.source]
      /\ queue' = slide_window(push_back(EmptyQueue(graph.num_nodes), job.source))
      /\ front' = {} /\ region' = "search" /\ UNCHANGED <<job, graph, lqueue>>
  BY DEF StartBfs, Enter
<1>2. /\ parent'[job.source] = job.source
      /\ \A n \in Vertices(graph) \ {job.source} : parent'[n] \in Int /\ parent'[n] < 0
  <2>1. \A n \in Vertices(graph) : out_degree(graph, n) \in Nat
    BY DEF IsGraph, out_degree
  <2>2. /\ InitParent \in [Vertices(graph) -> Int]
        /\ \A n \in Vertices(graph) : InitParent[n] < 0
    BY <2>1 DEF InitParent
  <2> QED BY <1>1, <2>2
<1>3. queue'.shared_in = 1 /\ queue'.shared_out_start = 0 /\ queue'.shared_out_end = 1
  <2>1. PICK q \in Queues(graph) : q = EmptyQueue(graph.num_nodes) /\ q.shared_in = 0
    BY NewQueues
  <2>2. q \in [shared : [Vertices(graph) -> Int], shared_in : Nat, shared_out_start : Nat,
               shared_out_end : Nat] /\ q.shared_out_end = 0
    BY <2>1 DEF Queues
  <2>3. PICK r : r = push_back(q, job.source)
    OBVIOUS
  <2>4. r = [q EXCEPT !.shared = [q.shared EXCEPT ![0] = job.source], !.shared_in = 1]
    BY <2>1, <2>2, <2>3 DEF push_back
  <2>5. /\ DOMAIN r = {"shared", "shared_in", "shared_out_start", "shared_out_end"}
        /\ r.shared_in = 1 /\ r.shared_out_end = 0
    BY <2>2, <2>4
  <2>6. queue' = [r EXCEPT !.shared_out_start = 0, !.shared_out_end = 1]
    BY <1>1, <2>1, <2>3, <2>5 DEF slide_window
  <2> QED BY <2>5, <2>6
<1>4. Window(queue)' = {0} /\ c[0] = job.source
  BY <1>3 DEF Window
<1>5. ByParents(L)'
  BY <1>1, <1>2 DEF ByParents, Vertices
<1>6. LevelsSoFar(L, 0)'
  BY <1>1, <1>5 DEF LevelsSoFar
<1>7. SearchAt(c, L, 0)'
  BY <1>1, <1>3, <1>4 DEF SearchAt, WindowHolds
<1> QED BY <1>1, <1>6, <1>7 DEF BfsLevel

LEMMA DirectionIsLeveled ==
  ASSUME IsGraph(graph), NEW c, NEW L, NEW d, Searching(c), BfsLevel(c, L, d), ChooseDirection
  PROVE  BfsLevel(c, L, d)' /\ UNCHANGED <<graph, job>>
<1>1. /\ region = "search" /\ UNCHANGED <<job, graph, queue, lqueue, front>>
      /\ lqueue = NoBuffers
      /\ \A n \in Vertices(graph) : L[n] <= d
      /\ WindowHolds(c, L, d)
      /\ queue.shared_in = queue.shared_out_end
      /\ LevelsSoFar(L, d) /\ d \in Nat /\ L \in [Vertices(graph) -> Int]
  BY DEF ChooseDirection, queueVars, BfsLevel, SearchAt, Searching, InRegion, LevelsSoFar,
         ByParents
<1>2. /\ queue.shared_out_end \in Nat /\ queue.shared_in \in Nat
      /\ queue.shared_out_start \in Nat /\ parent \in [Vertices(graph) -> Int]
  BY SearchingTypes
<1>3. CASE empty(queue)
  <2>1. /\ parent' = [n \in Vertices(graph) |-> IF parent[n] < -1 THEN -1 ELSE parent[n]]
        /\ region' = "finished"
    BY <1>3 DEF ChooseDirection, Enter
  <2>2. Window(queue) = {}
    BY <1>2, <1>3 DEF empty, Window
  <2>3. \A n \in Vertices(graph) : L[n] < d
    BY <1>1, <2>2 DEF WindowHolds
  <2>4. ByParents(L)'
    <3>1. \A n \in Vertices(graph) : (parent[n] >= 0 => parent'[n] = parent[n])
                                    /\ (parent'[n] >= 0 <=> parent[n] >= 0)
      BY <1>2, <2>1
    <3>2. ByParents(L)
      BY <1>1 DEF LevelsSoFar
    <3> QED BY <1>1, <3>1, <3>2 DEF ByParents
  <2>5. LevelsSoFar(L, d)'
    BY <1>1, <2>4 DEF LevelsSoFar, Passed
  <2> QED BY <1>1, <2>1, <2>3, <2>5 DEF BfsLevel
<1>4. CASE ~empty(queue)
  <2>1. PICK r : r \in {"to bitmap", "top down"} /\ UNCHANGED parent /\ Enter(r, Window(queue))
    BY <1>4 DEF ChooseDirection
  <2>2. /\ region' = r /\ todo' = Window(queue) /\ \A t \in Threads : doing'[t] = Idle
    BY <2>1 DEF Enter
  <2>3. LevelsSoFar(L, d)' /\ SearchAt(c, L, d)'
    BY <1>1, <2>1, SameLevels DEF SearchAt, WindowHolds
  <2>4. ToBitmapAt(c, L, d)'
    BY <1>1, <2>2, <2>3, NothingToPut DEF ToBitmapAt
  <2>5. TopDownAt(c, L, d)'
    <3>1. Behind(c)' = {} /\ AboutToPut' = {}
      <4>1. queue'.shared_out_end..(queue'.shared_in - 1) = {}
        <5>1. queue' = queue /\ queue.shared_in = queue.shared_out_end
          BY <1>1
        <5>2. \A k \in Int : k..(k - 1) = {}
          OBVIOUS
        <5>3. queue.shared_out_end \in Int
          BY <1>2
        <5> QED BY <5>1, <5>2, <5>3
      <4>2. \A t \in Threads : ToPut(doing'[t], lqueue'[t]) = {}
        BY <1>1, <2>2, NothingToPut DEF NoBuffers
      <4> QED BY <4>1, <4>2 DEF Behind, AboutToPut
    <3>2. \A t \in Threads : ScanGood(L, d, VisitOf(doing[t]))'
      BY <2>2, NothingToPut DEF ScanGood, ScanSteps
    <3>3. {n \in Vertices(graph) : L[n] = d + 1} = {} /\ \A n \in Vertices(graph) : L[n] <= d + 1
      <4>1. \A n \in Vertices(graph) : L[n] \in Int /\ L[n] <= d
        BY <1>1
      <4>2. \A k \in Int : k <= d => k <= d + 1 /\ k # d + 1
        <5>1. d \in Int
          BY <1>1
        <5> QED BY <5>1
      <4> QED BY <4>1, <4>2
    <3> QED BY <1>1, <2>2, <3>1, <3>2, <3>3 DEF TopDownAt, WindowHolds
  <2> QED BY <1>1, <2>1, <2>2, <2>3, <2>4, <2>5 DEF BfsLevel
<1> QED BY <1>3, <1>4

(* A scan goes on, to the next edge or the end.                            *)
LEMMA ScanGoesOn ==
  ASSUME NEW L, L \in [Vertices(graph) -> Int], NEW d \in Nat,
         \A n \in Vertices(graph) : L[n] <= d + 1,
         NEW u \in Vertices(graph), L[u] = d,
         NEW left \in Seq(Vertices(graph)),
         Leads(L, u, left),
         NEW w, w = UnlessDone([step |-> "read", u |-> u, left |-> left])
  PROVE  ScanGood(L, d, w) /\ VisitOf(w) = w /\ (Scans(w, u) \/ Passed(L, u))
<1>1. CASE left = << >>
  <2>1. w = Idle /\ DOMAIN left = {}
    BY <1>1 DEF UnlessDone
  <2>2. \A v \in Vertices(graph) : HasEdge(graph, u, v) => L[v] >= 0
    BY <2>1 DEF Leads
  <2>3. Passed(L, u)
    BY <2>2 DEF Passed
  <2> QED BY <2>1, <2>3, NothingToPut DEF ScanGood, ScanSteps
<1>2. CASE left # << >>
  <2>1. w = [step |-> "read", u |-> u, left |-> left]
    BY <1>2 DEF UnlessDone
  <2>2. w.step = "read" /\ w.u = u /\ w.left = left
    BY <2>1
  <2>3. VisitOf(w) = w
    BY <2>2 DEF VisitOf
  <2>4. Scans(w, u)
    BY <2>2, <2>3 DEF Scans, ScanSteps
  <2>5. ScanGood(L, d, w)
    BY <2>2 DEF ScanGood
  <2> QED BY <2>3, <2>4, <2>5
<1> QED BY <1>1, <1>2

(* The first edge in hand is done with: it leads to a node that is found.  *)
LEMMA ScanDrops ==
  ASSUME NEW L, L \in [Vertices(graph) -> Int], NEW d \in Nat,
         \A n \in Vertices(graph) : L[n] <= d + 1,
         NEW u \in Vertices(graph), L[u] = d,
         NEW left \in Seq(Vertices(graph)), left # << >>,
         Leads(L, u, left),
         L[Head(left)] >= 0,
         NEW w, w = UnlessDone([step |-> "read", u |-> u, left |-> Tail(left)])
  PROVE  ScanGood(L, d, w) /\ VisitOf(w) = w /\ (Scans(w, u) \/ Passed(L, u))
<1>1. PICK rest : rest = Tail(left)
  OBVIOUS
<1>2. /\ Len(left) \in Nat \ {0} /\ DOMAIN left = 1..Len(left)
      /\ rest \in Seq(Vertices(graph)) /\ DOMAIN rest = 1..(Len(left) - 1)
      /\ \A k \in 1..(Len(left) - 1) : rest[k] = left[k + 1]
      /\ Head(left) = left[1]
  <2>1. Len(left) \in Nat \ {0} /\ DOMAIN left = 1..Len(left)
    BY LenProperties, EmptySeq
  <2>2. /\ rest \in Seq(Vertices(graph)) /\ Len(rest) = Len(left) - 1
        /\ \A k \in 1..Len(rest) : rest[k] = left[k + 1]
        /\ Head(left) = left[1]
    BY <1>1, HeadTailProperties
  <2>3. DOMAIN rest = 1..Len(rest)
    BY <2>2, LenProperties
  <2> QED BY <2>1, <2>2, <2>3
<1>3. \A k \in DOMAIN rest : HasEdge(graph, u, rest[k])
  <2>1. \A k \in 1..(Len(left) - 1) : k + 1 \in 1..Len(left)
    BY <1>2
  <2> QED BY <1>2, <2>1 DEF Leads
<1>4. ASSUME NEW v \in Vertices(graph), HasEdge(graph, u, v), ~(L[v] >= 0)
      PROVE  \E k \in DOMAIN rest : rest[k] = v
  <2>1. PICK k \in DOMAIN left : left[k] = v
    BY <1>4 DEF Leads
  <2>2. k # 1
    BY <1>2, <1>4, <2>1
  <2>3. k - 1 \in 1..(Len(left) - 1) /\ (k - 1) + 1 = k
    BY <1>2, <2>1, <2>2
  <2>4. rest[k - 1] = left[k]
    BY <1>2, <2>3
  <2> QED BY <1>2, <2>1, <2>3, <2>4
<1>5. w = UnlessDone([step |-> "read", u |-> u, left |-> rest])
  BY <1>1
<1>6. Leads(L, u, rest)
  BY <1>3, <1>4 DEF Leads
<1>7. rest \in Seq(Vertices(graph))
  BY <1>2
<1> QED BY <1>5, <1>6, <1>7, ScanGoesOn

LEMMA FirstOf ==
  ASSUME NEW S, NEW s \in Seq(S), s # << >>
  PROVE  1 \in DOMAIN s /\ Head(s) = s[1] /\ s[1] \in S
<1>1. Len(s) \in Nat \ {0} /\ DOMAIN s = 1..Len(s) /\ s \in [1..Len(s) -> S]
  BY LenProperties, EmptySeq
<1>2. 1 \in DOMAIN s
  BY <1>1
<1> QED BY <1>1, <1>2, HeadTailProperties

(* The search is top-down.                                                 *)
TopDownLevel(c, L, d) == region = "top down" /\ Searching(c) /\ BfsLevel(c, L, d)

(* What is known of a scan under way.                                      *)
LEMMA ScanUnderWay ==
  ASSUME IsGraph(graph), NEW c, NEW L, NEW d, TopDownLevel(c, L, d), NEW t \in Threads, doing[t].step \in ScanSteps
  PROVE  /\ doing[t] \in Reading(graph) \cup Claiming(graph)
         /\ doing[t].u \in Vertices(graph) /\ L[doing[t].u] = d
         /\ doing[t].left \in Seq(Vertices(graph)) /\ doing[t].left # << >>
         /\ Head(doing[t].left) \in Vertices(graph)
         /\ HasEdge(graph, doing[t].u, Head(doing[t].left))
         /\ VisitOf(doing[t]) = doing[t] /\ ScanGood(L, d, doing[t])
         /\ Handed(doing[t]) = {}
<1>1. doing[t] \in TopDownState(graph)
  BY StatesOf DEF Searching, TopDownLevel
<1>2. doing[t] \in Reading(graph) \cup Claiming(graph)
  BY <1>1, StatesByStep DEF ScanSteps
<1>3. PICK w : w = doing[t]
  OBVIOUS
<1>4. w.u \in Vertices(graph) /\ w.left \in Seq(Vertices(graph)) /\ w.left # << >>
  BY <1>2, <1>3 DEF Reading, Claiming
<1>5. VisitOf(w) = w /\ Handed(w) = {}
  BY <1>3 DEF VisitOf, Handed, ScanSteps
<1>6. ScanGood(L, d, w)
  BY <1>3, <1>5 DEF TopDownLevel, BfsLevel, TopDownAt
<1>7. /\ 1 \in DOMAIN w.left /\ Head(w.left) = w.left[1] /\ w.left[1] \in Vertices(graph)
  BY <1>4, FirstOf
<1>8. L[w.u] = d /\ HasEdge(graph, w.u, w.left[1])
  BY <1>3, <1>6, <1>7 DEF ScanGood, Leads
<1> QED BY <1>2, <1>3, <1>4, <1>5, <1>6, <1>7, <1>8

(* The parts of the invariant that the steps top-down use.                 *)
LEMMA TopDownParts ==
  ASSUME IsGraph(graph), NEW c, NEW L, NEW d, TopDownLevel(c, L, d)
  PROVE  /\ LevelsSoFar(L, d) /\ TopDownAt(c, L, d)
         /\ d \in Nat /\ ByParents(L) /\ L \in [Vertices(graph) -> Int]
         /\ \A n \in Vertices(graph) : L[n] >= -1 /\ L[n] <= d + 1
         /\ WindowHolds(c, L, d)
         /\ todo \subseteq Window(queue)
         /\ \A i \in Window(queue) \ todo :
              Passed(L, c[i]) \/ \E t \in Threads : Scans(doing[t], c[i])
         /\ \A t \in Threads : ScanGood(L, d, VisitOf(doing[t]))
         /\ {n \in Vertices(graph) : L[n] = d + 1} = Behind(c) \cup AboutToPut
         /\ \A t \in Threads : doing[t] \in TopDownState(graph)
<1>1. LevelsSoFar(L, d) /\ TopDownAt(c, L, d)
  BY DEF BfsLevel, TopDownLevel
<1>2. d \in Nat /\ ByParents(L) /\ L \in [Vertices(graph) -> Int]
  BY <1>1 DEF LevelsSoFar, ByParents
<1>3. \A n \in Vertices(graph) : L[n] >= -1 /\ L[n] <= d + 1
  BY <1>1, <1>2 DEF ByParents, TopDownAt
<1>4. \A t \in Threads : doing[t] \in TopDownState(graph)
  BY StatesOf DEF Searching, TopDownLevel
<1> QED BY <1>1, <1>2, <1>3, <1>4 DEF TopDownAt

(* A thread goes on and finds nothing.                                     *)
LEMMA TopDownStays ==
  ASSUME IsGraph(graph), NEW c, NEW L, NEW d, TopDownLevel(c, L, d), NEW t \in Threads, NEW next,
         Handed(next) = {}, next.step # "copy", VisitOf(next) = next, ScanGood(L, d, next),
         Handed(doing[t]) = {}, doing[t].step # "copy",
         doing' = [doing EXCEPT ![t] = next],
         UNCHANGED <<graph, job, parent, front, queue, lqueue, region>>,
         todo' \subseteq todo,
         \A u : Scans(doing[t], u) => Scans(next, u) \/ Passed(L, u),
         \A i \in todo \ todo' : Scans(next, c[i]) \/ Passed(L, c[i])
  PROVE  BfsLevel(c, L, d)'
<1>0. /\ LevelsSoFar(L, d) /\ TopDownAt(c, L, d) /\ todo \subseteq Window(queue)
      /\ \A i \in Window(queue) \ todo :
           Passed(L, c[i]) \/ \E s \in Threads : Scans(doing[s], c[i])
      /\ \A s \in Threads : ScanGood(L, d, VisitOf(doing[s]))
  BY TopDownParts
<1>1. doing'[t] = next /\ \A s \in Threads \ {t} : doing'[s] = doing[s]
  BY SearchingTypes DEF TopDownLevel
<1>2. LevelsSoFar(L, d)'
  BY <1>0, SameLevels
<1>3. Window(queue)' = Window(queue) /\ todo' \subseteq Window(queue)
  BY <1>0
<1>4. ASSUME NEW i \in Window(queue) \ todo'
      PROVE  Passed(L, c[i])' \/ \E s \in Threads : Scans(doing'[s], c[i])
  <2>1. Passed(L, c[i]) \/ \E s \in Threads : Scans(doing'[s], c[i])
    <3>1. CASE i \in todo
      BY <1>1, <1>4, <3>1
    <3>2. CASE i \notin todo
      <4>1. Passed(L, c[i]) \/ \E s \in Threads : Scans(doing[s], c[i])
        BY <1>0, <1>4, <3>2
      <4>2. ASSUME NEW s \in Threads, Scans(doing[s], c[i])
            PROVE  Passed(L, c[i]) \/ Scans(doing'[s], c[i])
        BY <1>1, <4>2
      <4> QED BY <4>1, <4>2
    <3> QED BY <3>1, <3>2
  <2> QED BY <2>1, SameLevels
<1>5. \A s \in Threads : ScanGood(L, d, VisitOf(doing[s]))'
  <2>1. ASSUME NEW s \in Threads PROVE ScanGood(L, d, VisitOf(doing'[s]))
    <3>1. CASE s = t
      BY <1>1, <3>1
    <3>2. CASE s # t
      <4>1. doing'[s] = doing[s]
        BY <1>1, <3>2
      <4> QED BY <1>0, <4>1
    <3> QED BY <3>1, <3>2
  <2>2. \A w : ScanGood(L, d, w)' <=> ScanGood(L, d, w)
    BY SameLevels
  <2>3. ASSUME NEW s \in Threads, NEW w, w = VisitOf(doing'[s]) PROVE ScanGood(L, d, w)'
    BY <2>1, <2>2, <2>3
  <2> QED BY <2>3 DEF ScanGood
<1>6. AboutToPut' = AboutToPut /\ Behind(c)' = Behind(c)
  <2>1. ToPut(doing'[t], lqueue'[t]) = ToPut(doing[t], lqueue[t])
    BY <1>1 DEF ToPut
  <2>2. \A s \in Threads : ToPut(doing'[s], lqueue'[s]) = ToPut(doing[s], lqueue[s])
    BY <1>1, <2>1
  <2> QED BY <2>2 DEF AboutToPut, Behind
<1>7. TopDownAt(c, L, d)'
  <2>1. (\A n \in Vertices(graph) : L[n] <= d + 1)' /\ (todo \subseteq Window(queue))'
    BY <1>0, <1>3 DEF TopDownAt
  <2>2. WindowHolds(c, L, d)'
    BY <1>0, <1>3 DEF TopDownAt, WindowHolds
  <2>3. ({n \in Vertices(graph) : L[n] = d + 1} = Behind(c) \cup AboutToPut)'
    BY <1>0, <1>6 DEF TopDownAt
  <2>4. (\A i \in Window(queue) \ todo :
           Passed(L, c[i]) \/ \E s \in Threads : Scans(doing[s], c[i]))'
    BY <1>3, <1>4
  <2> QED BY <1>5, <2>1, <2>2, <2>3, <2>4 DEF TopDownAt
<1> QED BY <1>2, <1>7 DEF BfsLevel, TopDownLevel

(* A node is found, from one whose level is the lowest that still has      *)
(* successors to be found.                                                 *)
FindsOne(L, L2) ==
  \E u, v \in Vertices(graph) :
    /\ HasEdge(graph, u, v) /\ L[u] >= 0 /\ L[v] = -1
    /\ \A n \in Vertices(graph) : L[n] \in 0..(L[u] - 1) => Passed(L, n)
    /\ L2 = [L EXCEPT ![v] = L[u] + 1]

FoundAt(L, L2, d, v) ==
  /\ LevelsSoFar(L2, d)' /\ FindsOne(L, L2)
  /\ L2[v] = d + 1 /\ \A n \in Vertices(graph) \ {v} : L2[n] = L[n]
  /\ \A n \in Vertices(graph) : L2[n] <= d + 1
  /\ \A n \in Vertices(graph) : L2[n] = d <=> L[n] = d
  /\ \A n \in Vertices(graph) : L[n] >= 0 => n # v /\ L2[n] = L[n]
  /\ {n \in Vertices(graph) : L2[n] = d + 1} = {n \in Vertices(graph) : L[n] = d + 1} \cup {v}
  /\ \A n \in Vertices(graph) : L[n] >= 0 /\ Passed(L, n) => Passed(L2, n)'

LEMMA NodeFound ==
  ASSUME IsGraph(graph), NEW L, NEW d, LevelsSoFar(L, d), parent \in [Vertices(graph) -> Int],
         \A n \in Vertices(graph) : L[n] <= d + 1, front \subseteq Vertices(graph),
         NEW u \in Vertices(graph), NEW v \in Vertices(graph), HasEdge(graph, u, v),
         L[u] = d, L[v] = -1, UNCHANGED <<graph, job, front>>,
         parent' = [parent EXCEPT ![v] = u],
         NEW L2, L2 = [L EXCEPT ![v] = d + 1]
  PROVE  FoundAt(L, L2, d, v)
<1>1. /\ d \in Nat /\ ByParents(L) /\ L \in [Vertices(graph) -> Int]
      /\ \A n \in Vertices(graph) : L[n] \in 0..(d - 1) => Passed(L, n)
      /\ \A n \in front : L[n] \in 0..d
  BY DEF LevelsSoFar, ByParents
<1>2. L2[v] = d + 1 /\ \A n \in Vertices(graph) \ {v} : L2[n] = L[n]
  BY <1>1
<1>3. \A n \in Vertices(graph) : L2[n] <= d + 1
  BY <1>1, <1>2
<1>4. \A n \in Vertices(graph) : L2[n] = d <=> L[n] = d
  <2>1. d + 1 # d /\ d # -1
    BY <1>1
  <2> QED BY <1>2, <2>1
<1>5. \A n \in Vertices(graph) : L[n] >= 0 => n # v /\ L2[n] = L[n]
  BY <1>2
<1>6. {n \in Vertices(graph) : L2[n] = d + 1} = {n \in Vertices(graph) : L[n] = d + 1} \cup {v}
  BY <1>2
<1>7. ASSUME NEW n \in Vertices(graph), L[n] >= 0, Passed(L, n)
      PROVE  Passed(L2, n)'
  <2>1. \A x \in Vertices(graph) : HasEdge(graph, n, x) => L[x] \in 0..(L[n] + 1)
    BY <1>7 DEF Passed
  <2>2. L2[n] = L[n]
    BY <1>5, <1>7
  <2>3. ASSUME NEW x \in Vertices(graph), HasEdge(graph, n, x)
        PROVE  L2[x] \in 0..(L2[n] + 1)
    <3>1. L[x] \in 0..(L[n] + 1)
      BY <2>1, <2>3
    <3>2. L2[x] = L[x]
      BY <1>5, <3>1
    <3> QED BY <2>2, <3>1, <3>2
  <2> QED BY <2>3 DEF Passed
<1>8. LevelsSoFar(L2, d)'
  <2>1. ByParents(L2)'
    <3>1. L[u] >= 0 /\ L2 = [L EXCEPT ![v] = L[u] + 1]
      BY <1>1
    <3> QED BY <1>1, <3>1, FoundByParents
  <2>2. ASSUME NEW n \in Vertices(graph), L2[n] \in 0..(d - 1) PROVE Passed(L2, n)'
    <3>1. n # v
      BY <1>1, <1>2, <2>2
    <3>2. L[n] \in 0..(d - 1) /\ L[n] >= 0
      BY <1>2, <2>2, <3>1
    <3> QED BY <1>1, <1>7, <3>2
  <2>3. ASSUME NEW n \in front PROVE L2[n] \in 0..d
    <3>1. n \in Vertices(graph) /\ L[n] \in 0..d
      BY <1>1
    <3>2. L2[n] = L[n]
      BY <1>5, <3>1
    <3> QED BY <3>1, <3>2
  <2> QED BY <1>1, <2>1, <2>2, <2>3 DEF LevelsSoFar
<1>9. FindsOne(L, L2)
  <2>1. L[u] >= 0 /\ L2 = [L EXCEPT ![v] = L[u] + 1]
    BY <1>1
  <2>2. \A n \in Vertices(graph) : L[n] \in 0..(L[u] - 1) => Passed(L, n)
    BY <1>1
  <2> QED BY <2>1, <2>2 DEF FindsOne
<1> QED BY <1>2, <1>3, <1>4, <1>5, <1>6, <1>7, <1>8, <1>9 DEF FoundAt

(* A node is pushed: the thread goes on, and the node is about to be put.  *)
LEMMA PushesOn ==
  ASSUME DOMAIN doing = Threads, lqueue \in [Threads -> Seq(Vertices(graph))],
         NEW t \in Threads, NEW v \in Vertices(graph), NEW next,
         Handed(doing[t]) \subseteq {v}, doing[t].step # "copy",
         next.step \notin {"reserve", "copy", "push"},
         Pushes(doing, lqueue, t, v, next, doing', lqueue')
  PROVE  /\ \A s \in Threads \ {t} : doing'[s] = doing[s] /\ lqueue'[s] = lqueue[s]
         /\ VisitOf(doing'[t]) = next
         /\ ToPut(doing'[t], lqueue'[t]) = ToPut(doing[t], lqueue[t]) \cup {v}
         /\ AboutToPut' = AboutToPut \cup {v}
<1>1. Handed(next) = {} /\ next.step # "copy" /\ VisitOf(next) = next
  BY EmptyHands DEF VisitOf
<1>2. PICK d : d = doing[t]
  OBVIOUS
<1>3. Handed(d) \subseteq {v} /\ d.step # "copy"
  BY <1>2
<1>4. /\ \A s \in Threads \ {t} : doing'[s] = doing[s] /\ lqueue'[s] = lqueue[s]
      /\ VisitOf(doing'[t]) = next
      /\ ToPut(doing'[t], lqueue'[t]) = ToPut(d, lqueue[t]) \cup {v}
  <2>1. CASE /\ doing' = [doing EXCEPT ![t] = [step |-> "reserve", pushed |-> v, next |-> next]]
             /\ lqueue' = lqueue
    <3>1. /\ doing'[t] = [step |-> "reserve", pushed |-> v, next |-> next]
          /\ \A s \in Threads \ {t} : doing'[s] = doing[s]
      BY <2>1
    <3>2. v # Blank
      BY DEF Blank, Vertices
    <3>3. ToPut(doing'[t], lqueue'[t]) = {v} \cup Range(lqueue[t])
      BY <2>1, <3>1, <3>2 DEF ToPut, Handed
    <3>4. VisitOf(doing'[t]) = next
      BY <3>1 DEF VisitOf
    <3> QED BY <1>3, <2>1, <3>1, <3>3, <3>4 DEF ToPut
  <2>2. CASE doing' = [doing EXCEPT ![t] = next] /\ lqueue' = [lqueue EXCEPT ![t] = Append(lqueue[t], v)]
    <3>1. /\ doing'[t] = next /\ lqueue'[t] = Append(lqueue[t], v)
          /\ \A s \in Threads \ {t} : doing'[s] = doing[s] /\ lqueue'[s] = lqueue[s]
      BY <2>2
    <3>2. Range(Append(lqueue[t], v)) = Range(lqueue[t]) \cup {v}
      BY RangeOfAppend
    <3>3. ToPut(doing'[t], lqueue'[t]) = Range(lqueue[t]) \cup {v}
      BY <1>1, <3>1, <3>2 DEF ToPut
    <3> QED BY <1>1, <1>3, <3>1, <3>3 DEF ToPut
  <2> QED BY <2>1, <2>2 DEF Pushes
<1>5. AboutToPut' = AboutToPut \cup {v}
  <2>1. \A n : n \in AboutToPut <=> \E s \in Threads : n \in ToPut(doing[s], lqueue[s])
    BY DEF AboutToPut
  <2>2. \A n : n \in AboutToPut' <=> \E s \in Threads : n \in ToPut(doing'[s], lqueue'[s])
    BY DEF AboutToPut
  <2> QED BY <1>2, <1>4, <2>1, <2>2
<1> QED BY <1>2, <1>4, <1>5

(* A scan of a thread, after another thread has found a node.              *)
LEMMA ScanStaysGood ==
  ASSUME IsGraph(graph), UNCHANGED graph, NEW L, L \in [Vertices(graph) -> Int], NEW d \in Nat,
         \A n \in Vertices(graph) : L[n] >= -1,
         NEW v \in Vertices(graph), L[v] = -1, NEW u,
         NEW L2, L2 = [L EXCEPT ![v] = d + 1], parent \in [Vertices(graph) -> Int],
         parent' = [parent EXCEPT ![v] = u],
         NEW w, w \in TopDownState(graph), ScanGood(L, d, VisitOf(w))
  PROVE  ScanGood(L2, d, VisitOf(w))'
<1>0. PICK e : e = VisitOf(w)
  OBVIOUS
<1> SUFFICES ASSUME e.step \in ScanSteps PROVE ScanGood(L2, d, e)'
  BY <1>0 DEF ScanGood
<1>1. e \in Continuing(graph) \cup Claiming(graph)
  <2>1. CASE w.step \in {"reserve", "copy"}
    BY <1>0, <2>1, StatesByStep, FlushStates DEF VisitOf
  <2>2. CASE w.step \notin {"reserve", "copy"}
    <3>1. e = w
      BY <1>0, <2>2 DEF VisitOf
    <3> QED BY <3>1, StatesByStep DEF ScanSteps, Continuing
  <2> QED BY <2>1, <2>2
<1>2. e \in Reading(graph) \cup Claiming(graph)
  BY <1>1 DEF Continuing, Idle, ScanSteps
<1>3. e.u \in Vertices(graph) /\ e.left \in Seq(Vertices(graph)) /\ e.left # << >>
  BY <1>2 DEF Reading, Claiming
<1>4. Head(e.left) \in Vertices(graph)
  BY <1>3, FirstOf
<1>5. /\ L[e.u] = d /\ Leads(L, e.u, e.left)
      /\ e.step = "swap" /\ L[Head(e.left)] < 0 => parent[Head(e.left)] = e.curr_val
  BY <1>0 DEF ScanGood
<1>6. /\ L2[v] = d + 1 /\ \A n \in Vertices(graph) \ {v} : L2[n] = L[n] /\ parent'[n] = parent[n]
  OBVIOUS
<1>7. L2[e.u] = d
  <2>1. e.u # v
    BY <1>5
  <2> QED BY <1>3, <1>5, <1>6, <2>1
<1>8. Leads(L2, e.u, e.left)'
  <2>1. \A n \in Vertices(graph) : L[n] >= 0 => L2[n] >= 0
    BY <1>6
  <2> QED BY <1>5, <2>1 DEF Leads
<1>9. L2[Head(e.left)] < 0 => L[Head(e.left)] < 0 /\ parent'[Head(e.left)] = parent[Head(e.left)]
  <2>1. ~(d + 1 < 0)
    OBVIOUS
  <2> QED BY <1>4, <1>6, <2>1
<1> QED BY <1>5, <1>7, <1>8, <1>9 DEF ScanGood

(* Where the edge in hand leads, and the scan without it.                  *)
LeadsTo(w) == Head(w.left)
RestOf(w) == UnlessDone([step |-> "read", u |-> w.u, left |-> Tail(w.left)])

LEMMA RestGoesOn ==
  ASSUME NEW w \in Reading(graph) \cup Claiming(graph)
  PROVE  RestOf(w) \in Continuing(graph) /\ RestOf(w).step \notin {"reserve", "copy", "push", "swap"}
<1>1. PICK u, left : u = w.u /\ left = w.left
  OBVIOUS
<1>2. u \in Vertices(graph) /\ left \in Seq(Vertices(graph)) /\ left # << >>
  BY <1>1 DEF Reading, Claiming
<1>3. Tail(left) \in Seq(Vertices(graph))
  BY <1>2, HeadTailProperties
<1>4. RestOf(w) \in Continuing(graph)
  BY <1>1, <1>2, <1>3, ReadsOn DEF RestOf
<1> QED BY <1>4 DEF Continuing, Reading, Idle

LEMMA RestDrops ==
  ASSUME NEW L, L \in [Vertices(graph) -> Int], NEW d \in Nat,
         \A n \in Vertices(graph) : L[n] <= d + 1,
         NEW w \in Reading(graph) \cup Claiming(graph), L[w.u] = d,
         Leads(L, w.u, w.left), L[Head(w.left)] >= 0
  PROVE  /\ ScanGood(L, d, RestOf(w)) /\ VisitOf(RestOf(w)) = RestOf(w)
         /\ Scans(RestOf(w), w.u) \/ Passed(L, w.u)
<1>1. PICK u, left : u = w.u /\ left = w.left
  OBVIOUS
<1>2. u \in Vertices(graph) /\ left \in Seq(Vertices(graph)) /\ left # << >>
  BY <1>1 DEF Reading, Claiming
<1>3. PICK r : r = UnlessDone([step |-> "read", u |-> u, left |-> Tail(left)])
  OBVIOUS
<1>4. r = RestOf(w)
  BY <1>1, <1>3 DEF RestOf
<1>5. L[u] = d /\ Leads(L, u, left) /\ L[Head(left)] >= 0
  BY <1>1
<1>6. ScanGood(L, d, r) /\ VisitOf(r) = r /\ (Scans(r, u) \/ Passed(L, u))
  BY <1>2, <1>3, <1>5, ScanDrops
<1> QED BY <1>1, <1>4, <1>6

(* The compare-and-swap of a thread succeeds.                              *)
Claims(t, v) ==
  /\ doing[t].step = "swap" /\ v = LeadsTo(doing[t])
  /\ parent[v] = doing[t].curr_val /\ parent' = [parent EXCEPT ![v] = doing[t].u]

(* A node is found top-down.                                               *)
LEMMA FoundTopDown ==
  ASSUME IsGraph(graph), NEW c, NEW L, NEW d, TopDownLevel(c, L, d), NEW t \in Threads, NEW v, Claims(t, v),
         NEW next, next = RestOf(doing[t]),
         Pushes(doing, lqueue, t, v, next, doing', lqueue'),
         UNCHANGED <<graph, job, region, queue, front, todo>>,
         NEW L2, L2 = [L EXCEPT ![v] = d + 1]
  PROVE  BfsLevel(c, L2, d)' /\ FindsOne(L, L2)
<1>0. PICK e : e = doing[t]
  OBVIOUS
<1>1. /\ e \in Reading(graph) \cup Claiming(graph)
      /\ e.u \in Vertices(graph) /\ L[e.u] = d
      /\ e.left \in Seq(Vertices(graph)) /\ e.left # << >>
      /\ v \in Vertices(graph) /\ v = Head(e.left) /\ HasEdge(graph, e.u, v)
      /\ VisitOf(e) = e /\ ScanGood(L, d, e) /\ Handed(e) = {}
      /\ e.step = "swap" /\ parent[v] = e.curr_val
  <2>1. e.step = "swap" /\ v = Head(e.left) /\ parent[v] = e.curr_val
    BY <1>0 DEF LeadsTo, Claims
  <2>2. doing[t].step \in ScanSteps
    BY <1>0, <2>1 DEF ScanSteps
  <2>3. /\ doing[t] \in Reading(graph) \cup Claiming(graph)
        /\ doing[t].u \in Vertices(graph) /\ L[doing[t].u] = d
        /\ doing[t].left \in Seq(Vertices(graph)) /\ doing[t].left # << >>
        /\ Head(doing[t].left) \in Vertices(graph)
        /\ HasEdge(graph, doing[t].u, Head(doing[t].left))
        /\ VisitOf(doing[t]) = doing[t] /\ ScanGood(L, d, doing[t]) /\ Handed(doing[t]) = {}
    BY <2>2, ScanUnderWay
  <2> QED BY <1>0, <2>1, <2>3
<1>2. /\ LevelsSoFar(L, d) /\ TopDownAt(c, L, d)
      /\ d \in Nat /\ ByParents(L) /\ L \in [Vertices(graph) -> Int]
      /\ \A n \in Vertices(graph) : L[n] >= -1 /\ L[n] <= d + 1
      /\ WindowHolds(c, L, d)
      /\ todo \subseteq Window(queue)
      /\ \A i \in Window(queue) \ todo :
           Passed(L, c[i]) \/ \E s \in Threads : Scans(doing[s], c[i])
      /\ \A s \in Threads : ScanGood(L, d, VisitOf(doing[s]))
      /\ {n \in Vertices(graph) : L[n] = d + 1} = Behind(c) \cup AboutToPut
      /\ \A s \in Threads : doing[s] \in TopDownState(graph)
  BY TopDownParts
<1>3. /\ parent \in [Vertices(graph) -> Int] /\ front \subseteq Vertices(graph)
      /\ DOMAIN doing = Threads /\ lqueue \in [Threads -> Seq(Vertices(graph))]
      /\ \A i \in Window(queue) : c[i] \in Vertices(graph)
  BY SearchingTypes DEF TopDownLevel
<1>4. L[v] = -1
  <2>1. e \in Claiming(graph)
    BY <1>1 DEF Reading
  <2>2. parent[v] < 0
    BY <1>1, <2>1 DEF Claiming
  <2>3. L[v] >= 0 <=> parent[v] >= 0
    BY <1>1, <1>2 DEF ByParents
  <2>4. parent[v] \in Int /\ L[v] \in Int /\ L[v] >= -1
    BY <1>1, <1>2, <1>3
  <2> QED BY <2>2, <2>3, <2>4
<1>5. parent' = [parent EXCEPT ![v] = e.u]
  BY <1>0 DEF Claims
<1>6. /\ LevelsSoFar(L2, d)' /\ FindsOne(L, L2)
      /\ L2[v] = d + 1 /\ \A n \in Vertices(graph) \ {v} : L2[n] = L[n]
      /\ \A n \in Vertices(graph) : L2[n] <= d + 1
      /\ \A n \in Vertices(graph) : L2[n] = d <=> L[n] = d
      /\ \A n \in Vertices(graph) : L[n] >= 0 => n # v /\ L2[n] = L[n]
      /\ {n \in Vertices(graph) : L2[n] = d + 1} = {n \in Vertices(graph) : L[n] = d + 1} \cup {v}
      /\ \A n \in Vertices(graph) : L[n] >= 0 /\ Passed(L, n) => Passed(L2, n)'
  <2>1. PICK u \in Vertices(graph) :
          HasEdge(graph, u, v) /\ L[u] = d /\ parent' = [parent EXCEPT ![v] = u]
    BY <1>1, <1>5
  <2>2. /\ LevelsSoFar(L, d) /\ parent \in [Vertices(graph) -> Int]
        /\ \A n \in Vertices(graph) : L[n] <= d + 1
        /\ front \subseteq Vertices(graph) /\ v \in Vertices(graph)
        /\ UNCHANGED <<graph, job, front>>
    BY <1>1, <1>2, <1>3
  <2>3. FoundAt(L, L2, d, v)
    BY <1>4, <2>1, <2>2, NodeFound
  <2> QED BY <2>3 DEF FoundAt
<1>7. ScanGood(L2, d, next) /\ VisitOf(next) = next /\ (Scans(next, e.u) \/ Passed(L2, e.u))
  <2>1. Leads(L2, e.u, e.left)
    BY <1>1, <1>6 DEF ScanGood, Leads, ScanSteps
  <2>2. L2 \in [Vertices(graph) -> Int] /\ L2[e.u] = d /\ L2[Head(e.left)] >= 0
    BY <1>1, <1>2, <1>4, <1>6
  <2>3. e \in Reading(graph) \cup Claiming(graph) /\ d \in Nat
    BY <1>1, <1>2
  <2>4. /\ ScanGood(L2, d, RestOf(e)) /\ VisitOf(RestOf(e)) = RestOf(e)
        /\ Scans(RestOf(e), e.u) \/ Passed(L2, e.u)
    <3>1. \A n \in Vertices(graph) : L2[n] <= d + 1
      BY <1>6
    <3> QED BY <2>1, <2>2, <2>3, <3>1, RestDrops
  <2> QED BY <1>0, <2>4
<1>8. next.step \notin {"reserve", "copy", "push", "swap"}
  BY <1>0, <1>1, RestGoesOn
<1>9. /\ \A s \in Threads \ {t} : doing'[s] = doing[s] /\ lqueue'[s] = lqueue[s]
      /\ VisitOf(doing'[t]) = next /\ AboutToPut' = AboutToPut \cup {v}
  <2>1. Handed(doing[t]) \subseteq {v} /\ doing[t].step # "copy"
    BY <1>0, <1>1
  <2>2. next.step \notin {"reserve", "copy", "push"} /\ v \in Vertices(graph)
    BY <1>1, <1>8
  <2> QED BY SMTT(30), <1>3, <2>1, <2>2, PushesOn
<1>10. Window(queue)' = Window(queue) /\ Behind(c)' = Behind(c)
  BY DEF Behind
<1>11. ASSUME NEW n, Passed(L2, n) PROVE Passed(L2, n)'
  BY <1>11 DEF Passed
<1>12. ASSUME NEW i \in Window(queue) \ todo
       PROVE  Passed(L2, c[i])' \/ \E s \in Threads : Scans(doing'[s], c[i])
  <2>1. PICK n \in Vertices(graph) : n = c[i]
    BY <1>3
  <2>2. L[n] = d
    BY <1>2, <2>1 DEF WindowHolds
  <2>3. CASE Passed(L, n)
    <3>0. L[n] >= 0
      BY <1>2, <2>2
    <3>1. Passed(L2, n)'
      BY <1>6, <2>3, <3>0
    <3> QED BY <2>1, <3>1
  <2>4. CASE \E s \in Threads : Scans(doing[s], n)
    <3>1. PICK s \in Threads : Scans(doing[s], n)
      BY <2>4
    <3>2. CASE s # t
      <4>1. Scans(doing'[s], n)
        BY <1>9, <3>1, <3>2
      <4> QED BY <2>1, <4>1
    <3>3. CASE s = t
      <4>1. n = e.u
        BY <1>0, <1>1, <3>1, <3>3 DEF Scans
      <4>2. Scans(doing'[t], n) \/ Passed(L2, n)
        BY <1>7, <1>9, <4>1 DEF Scans
      <4>3. CASE Passed(L2, n)
        <5>1. Passed(L2, n)'
          BY <1>11, <4>3
        <5> QED BY <2>1, <5>1
      <4> QED BY <2>1, <4>2, <4>3
    <3> QED BY <3>2, <3>3
  <2> QED BY <1>2, <2>1, <2>3, <2>4
<1>13. \A s \in Threads : ScanGood(L2, d, VisitOf(doing[s]))'
  <2>1. ASSUME NEW s \in Threads \ {t}, NEW w, w = doing[s]
        PROVE  ScanGood(L2, d, VisitOf(w))'
    <3>1. PICK u : parent' = [parent EXCEPT ![v] = u]
      BY <1>5
    <3>2. w \in TopDownState(graph) /\ ScanGood(L, d, VisitOf(w))
      BY <1>2, <2>1
    <3>3. /\ L \in [Vertices(graph) -> Int] /\ d \in Nat /\ v \in Vertices(graph)
          /\ \A n \in Vertices(graph) : L[n] >= -1
          /\ parent \in [Vertices(graph) -> Int] /\ UNCHANGED graph
      BY <1>1, <1>2, <1>3
    <3> QED BY <1>4, <3>1, <3>2, <3>3, ScanStaysGood
  <2>2. ASSUME NEW w, w = next PROVE ScanGood(L2, d, w)'
    <3>1. ScanGood(L2, d, w) /\ w.step # "swap"
      BY <1>7, <1>8, <2>2
    <3> QED BY <3>1 DEF ScanGood, Leads
  <2>3. ASSUME NEW s \in Threads, NEW w, w = doing'[s] PROVE ScanGood(L2, d, VisitOf(w))'
    <3>1. CASE s = t
      <4>1. VisitOf(w) = next
        BY <1>9, <2>3, <3>1
      <4>2. PICK x : x = next
        OBVIOUS
      <4> QED BY <2>2, <4>1, <4>2
    <3>2. CASE s # t
      BY <1>9, <2>1, <2>3, <3>2
    <3> QED BY <3>1, <3>2
  <2> QED BY <2>3
<1>14. TopDownAt(c, L2, d)'
  <2>1. (\A n \in Vertices(graph) : L2[n] <= d + 1)' /\ (todo \subseteq Window(queue))'
    BY <1>2, <1>6, <1>10
  <2>2. WindowHolds(c, L2, d)'
    BY <1>2, <1>6, <1>10 DEF WindowHolds
  <2>3. ({n \in Vertices(graph) : L2[n] = d + 1} = Behind(c) \cup AboutToPut)'
    BY <1>2, <1>6, <1>9, <1>10
  <2>4. (\A i \in Window(queue) \ todo :
           Passed(L2, c[i]) \/ \E s \in Threads : Scans(doing[s], c[i]))'
    BY <1>10, <1>12
  <2> QED BY <1>13, <2>1, <2>2, <2>3, <2>4 DEF TopDownAt
<1> QED BY <1>6, <1>14 DEF BfsLevel, TopDownLevel

LEMMA NeighboursLead ==
  ASSUME IsGraph(graph), NEW u \in Vertices(graph)
  PROVE  /\ \A k \in DOMAIN out_neigh(graph, u) : HasEdge(graph, u, out_neigh(graph, u)[k])
         /\ \A v : HasEdge(graph, u, v) =>
              \E k \in DOMAIN out_neigh(graph, u) : out_neigh(graph, u)[k] = v
         /\ \A k \in DOMAIN in_neigh(graph, u) :
              in_neigh(graph, u)[k] \in Vertices(graph) /\ HasEdge(graph, in_neigh(graph, u)[k], u)
         /\ \A v \in Vertices(graph) : HasEdge(graph, v, u) =>
              \E k \in DOMAIN in_neigh(graph, u) : in_neigh(graph, u)[k] = v
<1>1. /\ graph.out[u] \in Seq(Neighbour(graph)) /\ graph.in[u] \in Seq(Neighbour(graph))
      /\ \A i \in DOMAIN graph.in[u] : HasEdge(graph, graph.in[u][i].v, u)
      /\ \A v \in Vertices(graph) : HasEdge(graph, v, u) =>
           IF graph.directed THEN \E i \in DOMAIN graph.in[u] : graph.in[u][i].v = v
                             ELSE HasEdge(graph, u, v)
      /\ ~graph.directed => graph.in = graph.out
  BY DEF IsGraph
<1>2. /\ DOMAIN out_neigh(graph, u) = DOMAIN graph.out[u]
      /\ \A k \in DOMAIN graph.out[u] : out_neigh(graph, u)[k] = graph.out[u][k].v
  BY <1>1, IdsOfNeighbours DEF out_neigh
<1>3. /\ DOMAIN in_neigh(graph, u) = DOMAIN graph.in[u]
      /\ \A k \in DOMAIN graph.in[u] : in_neigh(graph, u)[k] = graph.in[u][k].v
      /\ \A k \in DOMAIN graph.in[u] : in_neigh(graph, u)[k] \in Vertices(graph)
  BY <1>1, IdsOfNeighbours DEF in_neigh
<1>4. ASSUME NEW v \in Vertices(graph), HasEdge(graph, v, u)
      PROVE  \E k \in DOMAIN graph.in[u] : graph.in[u][k].v = v
  BY <1>1, <1>4 DEF HasEdge
<1>5. \A v : HasEdge(graph, u, v) <=> \E k \in DOMAIN graph.out[u] : graph.out[u][k].v = v
  BY DEF HasEdge
<1>6. /\ \A k \in DOMAIN out_neigh(graph, u) : HasEdge(graph, u, out_neigh(graph, u)[k])
      /\ \A v : HasEdge(graph, u, v) =>
           \E k \in DOMAIN out_neigh(graph, u) : out_neigh(graph, u)[k] = v
  BY <1>2, <1>5
<1>7. ASSUME NEW k \in DOMAIN in_neigh(graph, u)
      PROVE  in_neigh(graph, u)[k] \in Vertices(graph) /\ HasEdge(graph, in_neigh(graph, u)[k], u)
  <2>1. PICK v : v = in_neigh(graph, u)[k]
    OBVIOUS
  <2>2. v \in Vertices(graph) /\ HasEdge(graph, v, u)
    BY <1>1, <1>3, <1>7, <2>1
  <2> QED BY <2>1, <2>2
<1>8. \A v \in Vertices(graph) : HasEdge(graph, v, u) =>
        \E k \in DOMAIN in_neigh(graph, u) : in_neigh(graph, u)[k] = v
  BY <1>3, <1>4
<1> QED BY <1>6, <1>7, <1>8

(* Top-down, a node is found or none is.                                   *)
LEMMA TopDownIsLeveled ==
  ASSUME IsGraph(graph), NEW c, NEW L, NEW d, Searching(c), BfsLevel(c, L, d),
         NEW t \in Threads, TopDown(t)
  PROVE  \E L2 : /\ BfsLevel(c, L2, d)' /\ (L2 = L \/ FindsOne(L, L2))
                 /\ UNCHANGED <<graph, job, region>>
<1>1. /\ TopDownLevel(c, L, d) /\ UNCHANGED <<graph, job, queue, front, region>>
      /\ todo' \subseteq todo
  BY DEF TopDown, Visit, At, Take, Proceed, Push, queueVars, bfsVars, TopDownLevel
<1>2. /\ TopDownAt(c, L, d) /\ d \in Nat /\ L \in [Vertices(graph) -> Int] /\ ByParents(L)
      /\ \A n \in Vertices(graph) : L[n] >= -1 /\ L[n] <= d + 1
      /\ WindowHolds(c, L, d)
      /\ todo \subseteq Window(queue)
      /\ \A s \in Threads : doing[s] \in TopDownState(graph)
  BY <1>1, TopDownParts
<1>3. /\ \A i \in Window(queue) : c[i] \in Vertices(graph) /\ queue.shared[i] = c[i]
      /\ DOMAIN doing = Threads /\ parent \in [Vertices(graph) -> Int]
  BY SearchingTypes
<1>4. PICK e : e = doing[t]
  OBVIOUS
<1>5. \A w \in Continuing(graph) \cup Claiming(graph) : Handed(w) = {} /\ w.step # "copy" /\ VisitOf(w) = w
  BY DEF Handed, Continuing, Reading, Claiming, Idle, VisitOf
<1>6. ASSUME NEW next \in Continuing(graph) \cup Claiming(graph), ScanGood(L, d, next),
             Handed(e) = {}, e.step # "copy", doing' = [doing EXCEPT ![t] = next],
             UNCHANGED <<parent, lqueue>>,
             \A u : Scans(e, u) => Scans(next, u) \/ Passed(L, u),
             \A i \in todo \ todo' : Scans(next, c[i]) \/ Passed(L, c[i])
      PROVE  BfsLevel(c, L, d)'
  BY <1>1, <1>4, <1>5, <1>6, TopDownStays
<1>7. ASSUME NEW i \in todo,
             Take(t, i, UnlessDone([step |-> "read", u |-> queue.shared[i],
                                    left |-> out_neigh(graph, queue.shared[i])])),
             UNCHANGED <<job, graph, queueVars, bfsVars>>
      PROVE  BfsLevel(c, L, d)'
  <2>1. PICK u \in Vertices(graph) : u = queue.shared[i] /\ u = c[i]
    BY <1>2, <1>3
  <2>2. PICK left : left = out_neigh(graph, u)
    OBVIOUS
  <2>3. PICK next : next = UnlessDone([step |-> "read", u |-> u, left |-> left])
    OBVIOUS
  <2>4. /\ doing[t] = Idle /\ doing' = [doing EXCEPT ![t] = next] /\ todo' = todo \ {i}
        /\ UNCHANGED <<parent, lqueue>>
    BY <1>7, <2>1, <2>2, <2>3 DEF Take, queueVars, bfsVars
  <2>5. left \in Seq(Vertices(graph)) /\ Leads(L, u, left) /\ next \in Continuing(graph)
    <3>1. left \in Seq(Vertices(graph))
      BY <2>2, NeighboursAreNodes
    <3>2. Leads(L, u, left)
      BY <2>2, NeighboursLead DEF Leads
    <3> QED BY <2>3, <3>1, <3>2, ReadsOn
  <2>6. L[u] = d
    BY <1>2, <2>1 DEF WindowHolds
  <2>7. ScanGood(L, d, next) /\ (Scans(next, u) \/ Passed(L, u))
    BY <1>2, <2>3, <2>5, <2>6, ScanGoesOn
  <2>8. e = Idle /\ Handed(e) = {} /\ e.step # "copy" /\ \A x : ~Scans(e, x)
    BY <1>4, <2>4 DEF Handed, Idle, Scans, VisitOf, ScanSteps
  <2>9. \A j \in todo \ todo' : Scans(next, c[j]) \/ Passed(L, c[j])
    BY <2>1, <2>4, <2>7
  <2> QED BY <1>6, <2>4, <2>5, <2>7, <2>8, <2>9
<1>8. ASSUME e.step \in ScanSteps, todo' = todo
      PROVE  /\ e \in Reading(graph) \cup Claiming(graph)
             /\ e.u \in Vertices(graph) /\ L[e.u] = d /\ Leads(L, e.u, e.left)
             /\ LeadsTo(e) \in Vertices(graph) /\ HasEdge(graph, e.u, LeadsTo(e))
             /\ VisitOf(e) = e /\ ScanGood(L, d, e) /\ Handed(e) = {} /\ e.step # "copy"
             /\ RestOf(e) \in Continuing(graph)
             /\ \A x : Scans(e, x) => x = e.u
             /\ \A i \in todo \ todo' : FALSE
  <2>1. /\ e \in Reading(graph) \cup Claiming(graph)
        /\ e.u \in Vertices(graph) /\ L[e.u] = d
        /\ e.left \in Seq(Vertices(graph)) /\ e.left # << >>
        /\ LeadsTo(e) \in Vertices(graph) /\ HasEdge(graph, e.u, LeadsTo(e))
        /\ VisitOf(e) = e /\ ScanGood(L, d, e) /\ Handed(e) = {}
    BY <1>1, <1>4, <1>8, ScanUnderWay DEF LeadsTo
  <2>2. Leads(L, e.u, e.left)
    BY <1>8, <2>1 DEF ScanGood
  <2>3. RestOf(e) \in Continuing(graph)
    BY <2>1, RestGoesOn
  <2> QED BY <1>8, <2>1, <2>2, <2>3 DEF Scans, ScanSteps
<1>9. ASSUME e.step \in ScanSteps, todo' = todo, L[LeadsTo(e)] >= 0,
             doing' = [doing EXCEPT ![t] = RestOf(e)], UNCHANGED <<parent, lqueue>>
      PROVE  BfsLevel(c, L, d)'
  <2>1. ScanGood(L, d, RestOf(e)) /\ (Scans(RestOf(e), e.u) \/ Passed(L, e.u))
    BY <1>2, <1>8, <1>9, RestDrops DEF LeadsTo
  <2>2. \A u : Scans(e, u) => Scans(RestOf(e), u) \/ Passed(L, u)
    BY <1>8, <1>9, <2>1
  <2> QED BY <1>6, <1>8, <1>9, <2>1, <2>2
<1>10. ASSUME NEW k \in Int, k = parent[LeadsTo(e)], k < 0, e.step = "read", todo' = todo,
              NEW next, next = [step |-> "swap", u |-> e.u, left |-> e.left, curr_val |-> k],
              doing' = [doing EXCEPT ![t] = next], UNCHANGED <<parent, lqueue>>
       PROVE  BfsLevel(c, L, d)'
  <2>1. e \in Reading(graph)
    BY <1>8, <1>10 DEF ScanSteps, Claiming
  <2>2. next \in Claiming(graph)
    BY <1>10, <2>1 DEF Reading, Claiming
  <2>3. ScanGood(L, d, next)
    <3>1. next.step = "swap" /\ next.u = e.u /\ next.left = e.left /\ next.curr_val = k
      BY <1>10
    <3>2. L[e.u] = d /\ Leads(L, e.u, e.left) /\ LeadsTo(e) = Head(e.left)
      BY <1>8, <1>10 DEF ScanSteps, LeadsTo
    <3> QED BY <1>10, <3>1, <3>2 DEF ScanGood
  <2>4. \A u : Scans(e, u) => Scans(next, u)
    <3>1. VisitOf(next) = next
      BY <1>5, <2>2
    <3>2. next.step = "swap" /\ next.u = e.u
      BY <1>10
    <3> QED BY <1>8, <1>10, <3>1, <3>2 DEF Scans, ScanSteps
  <2> QED BY <1>6, <1>8, <1>10, <2>2, <2>3, <2>4 DEF ScanSteps
<1>11. ASSUME At(t, "top down", "read"),
             LET u == doing[t].u
                 left == doing[t].left
                 curr_val == parent[Head(left)]
             IN  Proceed(t, IF curr_val < 0
                   THEN [step |-> "swap", u |-> u, left |-> left, curr_val |-> curr_val]
                   ELSE UnlessDone([step |-> "read", u |-> u, left |-> Tail(left)])),
             UNCHANGED <<job, graph, queueVars, bfsVars>>
      PROVE  BfsLevel(c, L, d)'
  <2>1. PICK k : k = parent[LeadsTo(e)]
    OBVIOUS
  <2>2. PICK claim : claim = [step |-> "swap", u |-> e.u, left |-> e.left, curr_val |-> k]
    OBVIOUS
  <2>3. /\ e.step = "read" /\ todo' = todo /\ UNCHANGED <<parent, lqueue>>
        /\ doing' = [doing EXCEPT ![t] = IF k < 0 THEN claim ELSE RestOf(e)]
    BY <1>4, <1>11, <2>1, <2>2 DEF At, Proceed, queueVars, bfsVars, LeadsTo, RestOf
  <2>4. LeadsTo(e) \in Vertices(graph)
    BY <1>8, <2>3 DEF ScanSteps
  <2>5. k \in Int /\ (L[LeadsTo(e)] >= 0 <=> k >= 0)
    BY <1>2, <1>3, <2>1, <2>4 DEF ByParents
  <2>6. CASE k < 0
    BY <1>10, <2>1, <2>2, <2>3, <2>5, <2>6
  <2>7. CASE ~(k < 0)
    <3>1. L[LeadsTo(e)] >= 0
      BY <2>5, <2>7
    <3> QED BY <1>9, <2>3, <2>7, <3>1 DEF ScanSteps
  <2> QED BY <2>6, <2>7
<1>12. CASE Visit(t)
  <2>1. /\ e.step = "swap"
        /\ IF parent[LeadsTo(e)] = e.curr_val
             THEN parent' = [parent EXCEPT ![LeadsTo(e)] = e.u] /\ Push(t, LeadsTo(e), RestOf(e))
             ELSE Proceed(t, RestOf(e)) /\ UNCHANGED <<parent, lqueue>>
    BY <1>4, <1>12 DEF Visit, At, LeadsTo, RestOf
  <2>2. todo' = todo
    BY <2>1 DEF Push, Proceed
  <2>3. CASE parent[LeadsTo(e)] = e.curr_val
    <3>1. PICK v, next, L2 : v = LeadsTo(e) /\ next = RestOf(e) /\ L2 = [L EXCEPT ![v] = d + 1]
      OBVIOUS
    <3>2. parent' = [parent EXCEPT ![v] = e.u] /\ Pushes(doing, lqueue, t, v, next, doing', lqueue')
      BY <2>1, <2>3, <3>1 DEF Push, Proceed, Pushes
    <3>3. Claims(t, v)
      BY <1>4, <2>1, <2>3, <3>1 DEF Claims
    <3>4. BfsLevel(c, L2, d)' /\ FindsOne(L, L2)
      BY <1>1, <1>4, <2>2, <3>1, <3>2, <3>3, FoundTopDown
    <3> QED BY <1>1, <3>4
  <2>4. CASE parent[LeadsTo(e)] # e.curr_val
    <3>1. L[LeadsTo(e)] >= 0
      <4>1. ~(L[LeadsTo(e)] < 0) /\ LeadsTo(e) \in Vertices(graph)
        BY <1>8, <2>1, <2>2, <2>4 DEF ScanGood, ScanSteps, LeadsTo
      <4> QED BY <1>2, <4>1
    <3>2. doing' = [doing EXCEPT ![t] = RestOf(e)] /\ UNCHANGED <<parent, lqueue>>
      BY <2>1, <2>4 DEF Proceed
    <3> QED BY <1>1, <1>9, <2>1, <2>2, <3>1, <3>2 DEF ScanSteps
  <2> QED BY <2>3, <2>4
<1> QED BY <1>1, <1>7, <1>11, <1>12 DEF TopDown

(* Where the window of the queue is after it has slid.                     *)
LEMMA WindowSlides ==
  ASSUME IsGraph(graph), NEW c, Searching(c), queue' = slide_window(queue)
  PROVE  /\ queue'.shared_in = queue.shared_in /\ queue'.shared_out_end = queue.shared_in
         /\ Window(queue)' = queue.shared_out_end..(queue.shared_in - 1)
<1>1. queue \in [shared : [Vertices(graph) -> Int], shared_in : Nat, shared_out_start : Nat,
                 shared_out_end : Nat]
  BY DEF Searching, Tidy, Queues
<1>2. /\ queue'.shared_in = queue.shared_in /\ queue'.shared_out_end = queue.shared_in
      /\ queue'.shared_out_start = queue.shared_out_end
  BY <1>1 DEF slide_window
<1> QED BY <1>2 DEF Window

LEMMA NothingAboutToPut ==
  ASSUME \A t \in Threads : doing[t] = Idle, lqueue = NoBuffers
  PROVE  AboutToPut = {}
<1>1. \A t \in Threads : ToPut(doing[t], lqueue[t]) = {}
  BY NothingToPut DEF NoBuffers
<1> QED BY <1>1 DEF AboutToPut

LEMMA IdleDoesNothing ==
  ASSUME \A t \in Threads : doing[t] = Idle
  PROVE  /\ \A t \in Threads : \A u : ~Scans(doing[t], u) /\ ~Marks(doing[t], u)
         /\ \A t \in Threads : ~LooksAt(doing[t]) /\ \A n : ~InChunk(doing[t], n)
         /\ Storing = {} /\ Stored = {} /\ BitsHold
<1>1. Idle.step \notin {"read", "swap", "load", "node", "store", "reserve", "copy"}
  BY DEF Idle
<1>2. \A t \in Threads : doing[t].step = Idle.step /\ VisitOf(doing[t]).step = Idle.step
  BY <1>1 DEF VisitOf
<1>3. \A t \in Threads : \A u : ~Scans(doing[t], u) /\ ~Marks(doing[t], u)
  BY <1>1, <1>2 DEF Scans, ScanSteps, Marks
<1>4. \A t \in Threads : ~LooksAt(doing[t]) /\ \A n : ~InChunk(doing[t], n)
  BY <1>1, <1>2 DEF LooksAt, InChunk
<1>5. Storing = {}
  BY <1>1, <1>2 DEF Storing
<1> QED BY <1>3, <1>4, <1>5 DEF Stored, BitsHold

(* What is behind the window is the next level.                            *)
LEMMA NextWindow ==
  ASSUME IsGraph(graph), NEW c, NEW L, NEW d, Searching(c), queue' = slide_window(queue),
         UNCHANGED graph, {n \in Vertices(graph) : L[n] = d} = Behind(c)
  PROVE  WindowHolds(c, L, d)' /\ queue'.shared_in = queue'.shared_out_end
<1>1. /\ queue'.shared_in = queue'.shared_out_end
      /\ Window(queue)' = queue.shared_out_end..(queue.shared_in - 1)
  BY WindowSlides
<1>2. Behind(c) = {c[i] : i \in Window(queue)'}
  BY <1>1 DEF Behind
<1>3. \A n \in Vertices(graph) : L[n] = d <=> \E i \in Window(queue)' : c[i] = n
  BY <1>2
<1> QED BY <1>1, <1>3 DEF WindowHolds

(* A level is done with, top-down.                                         *)
LEMMA LevelPassed ==
  ASSUME NEW L, NEW d, LevelsSoFar(L, d), L \in [Vertices(graph) -> Int],
         \A n \in Vertices(graph) : L[n] = d => Passed(L, n),
         UNCHANGED <<graph, job, parent>>,
         \A n \in front' : L[n] \in 0..(d + 1)
  PROVE  LevelsSoFar(L, d + 1)'
<1>1. /\ d \in Nat /\ ByParents(L)
      /\ \A n \in Vertices(graph) : L[n] \in 0..(d - 1) => Passed(L, n)
  BY DEF LevelsSoFar
<1>2. ByParents(L)' /\ \A n : Passed(L, n)' <=> Passed(L, n)
  BY <1>1, SameLevels
<1>3. \A n \in Vertices(graph) : L[n] \in 0..d => L[n] = d \/ L[n] \in 0..(d - 1)
  BY <1>1
<1>4. (d + 1) - 1 = d /\ d + 1 \in Nat
  BY <1>1
<1>5. \A n \in Vertices(graph) : L[n] \in 0..((d + 1) - 1) => Passed(L, n)'
  BY <1>1, <1>2, <1>3, <1>4
<1> QED BY <1>2, <1>4, <1>5 DEF LevelsSoFar

LEMMA TopDownEnds ==
  ASSUME IsGraph(graph), NEW c, NEW L, NEW d, TopDownLevel(c, L, d), EndTopDown
  PROVE  BfsLevel(c, L, d + 1)' /\ UNCHANGED <<graph, job>>
<1>1. /\ UNCHANGED <<graph, job, parent, front>> /\ queue' = slide_window(queue)
      /\ todo = {} /\ (\A t \in Threads : doing[t] = Idle) /\ lqueue = NoBuffers
  BY DEF EndTopDown, AllFlushed, AllDone, bfsVars
<1>2. /\ LevelsSoFar(L, d) /\ d \in Nat /\ L \in [Vertices(graph) -> Int]
      /\ \A n \in Vertices(graph) : L[n] >= -1 /\ L[n] <= d + 1
      /\ WindowHolds(c, L, d)
      /\ \A i \in Window(queue) \ todo :
           Passed(L, c[i]) \/ \E t \in Threads : Scans(doing[t], c[i])
      /\ {n \in Vertices(graph) : L[n] = d + 1} = Behind(c) \cup AboutToPut
  BY TopDownParts
<1>3. \A n \in Vertices(graph) : L[n] = d => Passed(L, n)
  BY <1>1, <1>2, IdleDoesNothing DEF WindowHolds
<1>4. \A n \in front' : L[n] \in 0..(d + 1)
  <2>1. \A n \in front' : L[n] \in 0..d
    BY <1>1, <1>2 DEF LevelsSoFar
  <2> QED BY <1>2, <2>1
<1>5. LevelsSoFar(L, d + 1)'
  BY <1>1, <1>2, <1>3, <1>4, LevelPassed
<1>6. AboutToPut = {} /\ Searching(c)
  BY <1>1, NothingAboutToPut DEF TopDownLevel
<1>7. SearchAt(c, L, d + 1)'
  <2>1. WindowHolds(c, L, d + 1)' /\ queue'.shared_in = queue'.shared_out_end
    <3>1. PICK e : e = d + 1
      OBVIOUS
    <3>2. {n \in Vertices(graph) : L[n] = e} = Behind(c)
      BY <1>2, <1>6, <3>1
    <3>3. WindowHolds(c, L, e)' /\ queue'.shared_in = queue'.shared_out_end
      BY <1>1, <1>6, <3>2, NextWindow
    <3> QED BY <3>1, <3>3
  <2> QED BY <1>1, <1>2, <2>1 DEF SearchAt
<1>8. region' = "search"
  BY DEF EndTopDown, Enter
<1> QED BY <1>1, <1>5, <1>7, <1>8 DEF BfsLevel

(* The queue is copied to the bitmap.                                      *)
ToBitmapLevel(c, L, d) == region = "to bitmap" /\ Searching(c) /\ BfsLevel(c, L, d)

LEMMA ToBitmapParts ==
  ASSUME IsGraph(graph), NEW c, NEW L, NEW d, ToBitmapLevel(c, L, d)
  PROVE  /\ LevelsSoFar(L, d) /\ SearchAt(c, L, d)
         /\ d \in Nat /\ L \in [Vertices(graph) -> Int]
         /\ WindowHolds(c, L, d) /\ todo \subseteq Window(queue)
         /\ \A i \in Window(queue) \ todo :
              c[i] \in front \/ \E t \in Threads : Marks(doing[t], c[i])
         /\ \A t \in Threads : doing[t].step \in {"load", "swap"} =>
              doing[t].u \in Vertices(graph) /\ L[doing[t].u] = d
         /\ DOMAIN doing = Threads /\ front \subseteq Vertices(graph)
         /\ \A i \in Window(queue) : c[i] \in Vertices(graph) /\ queue.shared[i] = c[i]
<1>1. ToBitmapAt(c, L, d) /\ LevelsSoFar(L, d) /\ Searching(c)
  BY DEF BfsLevel, ToBitmapLevel
<1>2. d \in Nat /\ L \in [Vertices(graph) -> Int]
  BY <1>1 DEF LevelsSoFar, ByParents
<1>3. /\ DOMAIN doing = Threads /\ front \subseteq Vertices(graph)
      /\ \A i \in Window(queue) : c[i] \in Vertices(graph) /\ queue.shared[i] = c[i]
  BY <1>1, SearchingTypes
<1>4. \A t \in Threads : doing[t] \in MarkingState(graph)
  BY StatesOf DEF Searching, ToBitmapLevel
<1>5. \A t \in Threads : doing[t].step \in {"load", "swap"} => doing[t].u \in Vertices(graph)
  BY <1>4, StatesByStep
<1> QED BY <1>1, <1>2, <1>3, <1>5 DEF ToBitmapAt, SearchAt

(* A thread goes on, perhaps having set the bit of a node of the window.   *)
LEMMA MarkingStays ==
  ASSUME IsGraph(graph), NEW c, NEW L, NEW d, ToBitmapLevel(c, L, d), NEW t \in Threads, NEW next,
         doing' = [doing EXCEPT ![t] = next],
         UNCHANGED <<graph, job, parent, queue, region>>, todo' \subseteq todo,
         front \subseteq front', \A n \in front' \ front : L[n] = d,
         next.step \in {"load", "swap"} => L[next.u] = d,
         \A u : Marks(doing[t], u) => Marks(next, u) \/ u \in front',
         \A i \in todo \ todo' : Marks(next, c[i])
  PROVE  BfsLevel(c, L, d)'
<1>1. /\ LevelsSoFar(L, d) /\ SearchAt(c, L, d) /\ d \in Nat
      /\ WindowHolds(c, L, d) /\ todo \subseteq Window(queue)
      /\ \A i \in Window(queue) \ todo :
           c[i] \in front \/ \E s \in Threads : Marks(doing[s], c[i])
      /\ \A s \in Threads : doing[s].step \in {"load", "swap"} => L[doing[s].u] = d
      /\ DOMAIN doing = Threads
  BY ToBitmapParts
<1>2. doing'[t] = next /\ \A s \in Threads \ {t} : doing'[s] = doing[s]
  BY <1>1
<1>3. LevelsSoFar(L, d)'
  <2>1. \A n \in front' : L[n] \in 0..d
    BY <1>1 DEF LevelsSoFar
  <2>2. ByParents(L)' /\ \A n : Passed(L, n)' <=> Passed(L, n)
    BY <1>1, SameLevels DEF LevelsSoFar
  <2> QED BY <1>1, <2>1, <2>2 DEF LevelsSoFar
<1>4. SearchAt(c, L, d)' /\ Window(queue)' = Window(queue)
  BY <1>1 DEF SearchAt, WindowHolds
<1>5. ASSUME NEW i \in Window(queue) \ todo'
      PROVE  c[i] \in front' \/ \E s \in Threads : Marks(doing'[s], c[i])
  <2>1. CASE i \in todo
    BY <1>2, <1>5, <2>1
  <2>2. CASE i \notin todo
    <3>1. CASE c[i] \in front
      BY <3>1
    <3>2. ASSUME NEW s \in Threads, Marks(doing[s], c[i])
          PROVE  c[i] \in front' \/ Marks(doing'[s], c[i])
      BY <1>2, <3>2
    <3> QED BY <1>1, <1>5, <2>2, <3>1, <3>2
  <2> QED BY <2>1, <2>2
<1>6. \A s \in Threads : doing'[s].step \in {"load", "swap"} => L[doing'[s].u] = d
  <2>1. ASSUME NEW s \in Threads, doing'[s].step \in {"load", "swap"} PROVE L[doing'[s].u] = d
    <3>1. CASE s = t
      BY <1>2, <2>1, <3>1
    <3>2. CASE s # t
      BY <1>1, <1>2, <2>1, <3>2
    <3> QED BY <3>1, <3>2
  <2> QED BY <2>1
<1>7. ToBitmapAt(c, L, d)'
  BY <1>1, <1>4, <1>5, <1>6 DEF ToBitmapAt
<1> QED BY <1>3, <1>7 DEF BfsLevel, ToBitmapLevel

LEMMA ToBitmapIsLeveled ==
  ASSUME IsGraph(graph), NEW c, NEW L, NEW d, Searching(c), BfsLevel(c, L, d),
         NEW t \in Threads, ToBitmap(t)
  PROVE  BfsLevel(c, L, d)' /\ UNCHANGED <<graph, job, region>>
<1>1. /\ ToBitmapLevel(c, L, d) /\ UNCHANGED <<graph, job, parent, queue, region>>
      /\ todo' \subseteq todo
  BY DEF ToBitmap, At, Take, Proceed, queueVars, bfsVars, ToBitmapLevel
<1>2. /\ WindowHolds(c, L, d) /\ todo \subseteq Window(queue)
      /\ \A s \in Threads : doing[s].step \in {"load", "swap"} =>
           doing[s].u \in Vertices(graph) /\ L[doing[s].u] = d
      /\ \A i \in Window(queue) : c[i] \in Vertices(graph) /\ queue.shared[i] = c[i]
  BY <1>1, ToBitmapParts
<1>3. PICK e : e = doing[t]
  OBVIOUS
<1>4. ASSUME NEW next, doing' = [doing EXCEPT ![t] = next],
             front \subseteq front', \A n \in front' \ front : L[n] = d,
             next.step \in {"load", "swap"} => L[next.u] = d,
             \A u : Marks(e, u) => Marks(next, u) \/ u \in front',
             \A i \in todo \ todo' : Marks(next, c[i])
      PROVE  BfsLevel(c, L, d)'
  BY <1>1, <1>3, <1>4, MarkingStays
<1>5. ASSUME NEW i \in todo, Take(t, i, [step |-> "load", u |-> queue.shared[i]]),
             UNCHANGED <<job, graph, queueVars, bfsVars>>
      PROVE  BfsLevel(c, L, d)'
  <2>1. PICK u \in Vertices(graph) : u = queue.shared[i] /\ u = c[i]
    BY <1>2
  <2>2. PICK next : next = [step |-> "load", u |-> u]
    OBVIOUS
  <2>3. e = Idle /\ doing' = [doing EXCEPT ![t] = next] /\ todo' = todo \ {i} /\ front' = front
    BY <1>3, <1>5, <2>1, <2>2 DEF Take, bfsVars
  <2>4. L[u] = d
    BY <1>2, <2>1 DEF WindowHolds
  <2>5. Marks(next, u) /\ next.u = u /\ \A x : ~Marks(e, x)
    BY <2>2, <2>3 DEF Marks, Idle
  <2> QED BY <1>4, <2>1, <2>3, <2>4, <2>5
<1>6. ASSUME At(t, "to bitmap", "load"), NEW bits,
             Proceed(t, [step |-> "swap", u |-> doing[t].u, old_val |-> bits]),
             UNCHANGED <<job, graph, queueVars, bfsVars>>
      PROVE  BfsLevel(c, L, d)'
  <2>1. PICK next : next = [step |-> "swap", u |-> e.u, old_val |-> bits]
    OBVIOUS
  <2>2. e.step = "load" /\ doing' = [doing EXCEPT ![t] = next] /\ todo' = todo /\ front' = front
    BY <1>3, <1>6, <2>1 DEF At, Proceed, bfsVars
  <2>3. next.step = "swap" /\ next.u = e.u /\ L[e.u] = d
    BY <1>2, <1>3, <2>1, <2>2
  <2>4. \A x : Marks(e, x) => Marks(next, x)
    BY <2>3 DEF Marks
  <2> QED BY <1>4, <2>2, <2>3, <2>4
<1>7. ASSUME At(t, "to bitmap", "swap"),
             LET u == doing[t].u
                 old_val == doing[t].old_val
             IN  IF Word(front, WordOf(u)) = old_val
                   THEN /\ front' = StoreWord(front, WordOf(u), old_val \cup {u})
                        /\ Proceed(t, Idle)
                   ELSE /\ Proceed(t, [step |-> "load", u |-> u])
                        /\ UNCHANGED front
      PROVE  BfsLevel(c, L, d)'
  <2>1. PICK u, bits : u = e.u /\ bits = e.old_val
    OBVIOUS
  <2>2. e.step = "swap" /\ L[u] = d /\ todo' = todo /\ \A x : Marks(e, x) => x = u
    BY <1>2, <1>3, <1>7, <2>1 DEF At, Proceed, Marks
  <2>3. CASE Word(front, WordOf(u)) = bits
    <3>1. /\ front' = StoreWord(front, WordOf(u), bits \cup {u})
          /\ doing' = [doing EXCEPT ![t] = Idle]
      BY <1>3, <1>7, <2>1, <2>3 DEF Proceed
    <3>2. front' = front \cup {u}
      BY <2>3, <3>1 DEF StoreWord, Word
    <3>3. Idle.step \notin {"load", "swap"}
      BY DEF Idle
    <3> QED BY <1>4, <2>2, <3>1, <3>2, <3>3
  <2>4. CASE Word(front, WordOf(u)) # bits
    <3>1. PICK next : next = [step |-> "load", u |-> u]
      OBVIOUS
    <3>2. front' = front /\ doing' = [doing EXCEPT ![t] = next]
      BY <1>3, <1>7, <2>1, <2>4, <3>1 DEF Proceed
    <3>3. next.step = "load" /\ next.u = u /\ Marks(next, u)
      BY <3>1 DEF Marks
    <3> QED BY <1>4, <2>2, <3>2, <3>3
  <2> QED BY <2>3, <2>4
<1> QED BY <1>1, <1>5, <1>6, <1>7 DEF ToBitmap

(* Bottom-up, all nodes are to be looked at.                               *)
LEMMA BottomUpBegins ==
  ASSUME IsGraph(graph), NEW L, NEW d \in Nat, L \in [Vertices(graph) -> Int], UNCHANGED graph,
         \A n \in Vertices(graph) : L[n] <= d,
         \A n \in Vertices(graph) : L[n] = d => n \in front',
         queue'.shared_in = queue'.shared_out_end,
         curr' = {}, todo' = Chunks, \A t \in Threads : doing'[t] = Idle
  PROVE  BottomUpAt(L, d)'
<1>1. \A n \in Vertices(graph) : L[n] <= d + 1 /\ L[n] # d + 1
  <2>1. \A k \in Int : k <= d => k <= d + 1 /\ k # d + 1
    OBVIOUS
  <2>2. \A n \in Vertices(graph) : L[n] \in Int
    OBVIOUS
  <2> QED BY <2>1, <2>2
<1>2. /\ \A t \in Threads : ~LooksAt(doing'[t]) /\ \A n : ~InChunk(doing'[t], n)
      /\ Storing' = {} /\ Stored' = {} /\ BitsHold'
  <2>1. Idle.step \notin {"node", "store"}
    BY DEF Idle
  <2>2. Storing' = {}
    BY <2>1 DEF Storing
  <2>3. \A t \in Threads : ~LooksAt(doing'[t]) /\ \A n : ~InChunk(doing'[t], n)
    BY <2>1 DEF LooksAt, InChunk
  <2> QED BY <2>2, <2>3 DEF Stored, BitsHold
<1>3. \A n \in Vertices(graph) : Ahead(n)'
  BY ChunksCover DEF Ahead
<1>4. Chunks' = Chunks
  BY DEF Chunks
<1>5. ChunksApart'
  BY <1>2, <1>4 DEF ChunksApart
<1>6. {n \in Vertices(graph) : L[n] = d + 1} = {}
  BY <1>1
<1> QED BY <1>1, <1>2, <1>3, <1>5, <1>6 DEF BottomUpAt

LEMMA ToBitmapEnds ==
  ASSUME IsGraph(graph), NEW c, NEW L, NEW d, ToBitmapLevel(c, L, d), EndToBitmap
  PROVE  BfsLevel(c, L, d)' /\ UNCHANGED <<graph, job>>
<1>1. /\ UNCHANGED <<graph, job, parent, front>> /\ queue' = slide_window(queue)
      /\ todo = {} /\ \A t \in Threads : doing[t] = Idle
  BY DEF EndToBitmap, AllDone
<1>2. curr' = {} /\ todo' = Chunks /\ \A t \in Threads : doing'[t] = Idle
  BY DEF EndToBitmap, StartBottomUp, Reset, Enter
<1>3. /\ LevelsSoFar(L, d) /\ SearchAt(c, L, d) /\ d \in Nat /\ L \in [Vertices(graph) -> Int]
      /\ WindowHolds(c, L, d)
      /\ \A i \in Window(queue) \ todo :
           c[i] \in front \/ \E t \in Threads : Marks(doing[t], c[i])
  BY ToBitmapParts
<1>4. LevelsSoFar(L, d)'
  BY <1>1, <1>3, SameLevels
<1>5. \A n \in Vertices(graph) : L[n] = d => n \in front'
  BY <1>1, <1>3, IdleDoesNothing DEF WindowHolds
<1>6. queue'.shared_in = queue'.shared_out_end
  BY <1>1, WindowSlides DEF ToBitmapLevel
<1>7. BottomUpAt(L, d)'
  BY <1>1, <1>2, <1>3, <1>5, <1>6, BottomUpBegins DEF SearchAt
<1>8. region' = "bottom up"
  BY DEF EndToBitmap, StartBottomUp, Enter
<1> QED BY <1>1, <1>4, <1>7, <1>8 DEF BfsLevel

(* A thread takes a chunk.                                                 *)
LEMMA ChunkTaken ==
  ASSUME IsGraph(graph), UNCHANGED graph, ChunksApart, DOMAIN doing = Threads,
         NEW t \in Threads, NEW n \in todo, doing[t] = Idle,
         NEW next, next = [step |-> "node", u |-> n],
         todo' = todo \ {n}, doing' = [doing EXCEPT ![t] = next]
  PROVE  /\ ChunksApart' /\ \A m \in Vertices(graph) : Ahead(m) => Ahead(m)'
         /\ Storing' = Storing /\ \A s \in Storing : doing'[s] = doing[s]
<1>1. /\ todo \subseteq Chunks
      /\ \A s \in Threads : \A m \in todo : ~InChunk(doing[s], m)
      /\ \A s, r \in Threads : s # r /\ LooksAt(doing[r]) => ~InChunk(doing[s], doing[r].u)
  BY DEF ChunksApart
<1>2. doing'[t] = next /\ \A s \in Threads \ {t} : doing'[s] = doing[s]
  OBVIOUS
<1>3. next.step = "node" /\ next.u = n /\ LooksAt(next) /\ \A m : InChunk(next, m) <=> ChunkOf(m) = ChunkOf(n)
  BY DEF LooksAt, InChunk
<1>4. Idle.step \notin {"node", "store"}
  BY DEF Idle
<1>5. ~LooksAt(doing[t]) /\ t \notin Storing /\ \A m : ~InChunk(doing[t], m)
  BY <1>4 DEF LooksAt, InChunk, Storing
<1>6. Storing' = Storing
  BY <1>2, <1>3, <1>5 DEF Storing
<1>7. \A s \in Storing : doing'[s] = doing[s]
  BY <1>2, <1>5 DEF Storing
<1>8. ASSUME NEW m \in Vertices(graph), Ahead(m) PROVE Ahead(m)'
  <2>1. ASSUME ChunkOf(n) = ChunkOf(m) PROVE Ahead(m)'
    <3>1. n <= m
      BY <1>1, <2>1, ChunksCover
    <3> QED BY <1>2, <1>3, <2>1, <3>1 DEF Ahead
  <2>2. ASSUME NEW k \in todo, ChunkOf(k) = ChunkOf(m) PROVE Ahead(m)'
    <3>1. CASE k = n
      BY <2>1, <2>2, <3>1
    <3>2. CASE k # n
      <4>1. k \in todo'
        BY <3>2
      <4> QED BY <2>2, <4>1 DEF Ahead
    <3> QED BY <3>1, <3>2
  <2>3. ASSUME NEW s \in Threads, InChunk(doing[s], m), doing[s].u <= m PROVE Ahead(m)'
    <3>1. doing'[s] = doing[s]
      BY <1>2, <1>5, <2>3
    <3> QED BY <2>3, <3>1 DEF Ahead
  <2> QED BY <1>8, <2>2, <2>3 DEF Ahead
<1>9. ChunksApart'
  <2>1. Chunks' = Chunks /\ Chunks \subseteq Vertices(graph)
    BY DEF Chunks
  <2>2. ASSUME NEW s \in Threads, NEW m \in todo' PROVE ~InChunk(doing'[s], m)
    <3>1. m \in todo /\ m # n /\ m \in Chunks /\ n \in Chunks /\ m \in Vertices(graph) /\ n \in Vertices(graph)
      BY <1>1, <2>1
    <3>2. CASE s # t
      BY <1>1, <1>2, <3>1, <3>2
    <3>3. CASE s = t
      <4>1. ASSUME ChunkOf(m) = ChunkOf(n) PROVE FALSE
        <5>1. m <= n /\ n <= m
          BY <3>1, <4>1, ChunksCover
        <5>2. m \in Int /\ n \in Int
          BY <3>1 DEF Vertices
        <5> QED BY <3>1, <5>1, <5>2
      <4> QED BY <1>2, <1>3, <3>3, <4>1
    <3> QED BY <3>2, <3>3
  <2>3. ASSUME NEW s \in Threads, NEW r \in Threads, s # r, LooksAt(doing'[r])
        PROVE  ~InChunk(doing'[s], doing'[r].u)
    <3>1. CASE r = t
      <4>1. doing'[r].u = n /\ doing'[s] = doing[s]
        BY <1>2, <1>3, <2>3, <3>1
      <4> QED BY <1>1, <4>1
    <3>2. CASE s = t
      <4>1. doing'[r] = doing[r] /\ doing'[s] = next /\ LooksAt(doing[r])
        BY <1>2, <2>3, <3>2
      <4>2. ~InChunk(doing[r], n)
        BY <1>1
      <4> QED BY <1>3, <4>1, <4>2 DEF InChunk
    <3>3. CASE r # t /\ s # t
      BY <1>1, <1>2, <2>3, <3>3
    <3> QED BY <3>1, <3>2, <3>3
  <2> QED BY <1>1, <2>1, <2>2, <2>3 DEF ChunksApart
<1> QED BY <1>6, <1>7, <1>8, <1>9

(* A thread goes on in its chunk, or is through with it.                   *)
LEMMA ChunkGoesOn ==
  ASSUME UNCHANGED <<graph, todo>>, ChunksApart, DOMAIN doing = Threads,
         NEW t \in Threads, NEW u, doing[t].u = u, LooksAt(doing[t]),
         NEW next, doing' = [doing EXCEPT ![t] = next],
         LooksAt(next) => ChunkOf(next.u) = ChunkOf(u), NEW S,
         \A m \in Vertices(graph) :
           ChunkOf(m) = ChunkOf(u) /\ u <= m => m \in S \/ (InChunk(next, m) /\ next.u <= m)
  PROVE  /\ ChunksApart' /\ \A m \in Vertices(graph) : Ahead(m) => m \in S \/ Ahead(m)'
         /\ doing'[t] = next /\ \A s \in Threads \ {t} : doing'[s] = doing[s]
<1>1. /\ todo \subseteq Chunks
      /\ \A s \in Threads : \A m \in todo : ~InChunk(doing[s], m)
      /\ \A s, r \in Threads : s # r /\ LooksAt(doing[r]) => ~InChunk(doing[s], doing[r].u)
  BY DEF ChunksApart
<1>2. doing'[t] = next /\ \A s \in Threads \ {t} : doing'[s] = doing[s]
  OBVIOUS
<1>3. \A m : InChunk(next, m) => InChunk(doing[t], m)
  BY DEF InChunk
<1>4. \A m : InChunk(doing[t], m) <=> ChunkOf(m) = ChunkOf(u)
  BY DEF InChunk
<1>5. ASSUME NEW m \in Vertices(graph), Ahead(m) PROVE m \in S \/ Ahead(m)'
  <2>1. ASSUME NEW k \in todo, ChunkOf(k) = ChunkOf(m) PROVE Ahead(m)'
    BY <2>1 DEF Ahead
  <2>2. ASSUME NEW s \in Threads, InChunk(doing[s], m), doing[s].u <= m PROVE m \in S \/ Ahead(m)'
    <3>1. CASE s = t
      <4>1. m \in S \/ (InChunk(next, m) /\ next.u <= m)
        BY <1>4, <2>2, <3>1
      <4> QED BY <1>2, <4>1 DEF Ahead
    <3>2. CASE s # t
      <4>1. doing'[s] = doing[s]
        BY <1>2, <3>2
      <4> QED BY <2>2, <4>1 DEF Ahead
    <3> QED BY <3>1, <3>2
  <2> QED BY <1>5, <2>1, <2>2 DEF Ahead
<1>6. ChunksApart'
  <2>1. Chunks' = Chunks
    BY DEF Chunks
  <2>2. ASSUME NEW s \in Threads, NEW m \in todo' PROVE ~InChunk(doing'[s], m)
    BY <1>1, <1>2, <1>3
  <2>3. ASSUME NEW s \in Threads, NEW r \in Threads, s # r, LooksAt(doing'[r])
        PROVE  ~InChunk(doing'[s], doing'[r].u)
    <3>1. CASE r = t
      <4>1. doing'[r] = next /\ doing'[s] = doing[s] /\ ChunkOf(next.u) = ChunkOf(u)
        BY <1>2, <2>3, <3>1
      <4>2. ~InChunk(doing[s], u)
        BY <1>1, <2>3, <3>1
      <4> QED BY <4>1, <4>2 DEF InChunk
    <3>2. CASE s = t
      BY <1>1, <1>2, <1>3, <2>3, <3>2
    <3>3. CASE r # t /\ s # t
      BY <1>1, <1>2, <2>3, <3>3
    <3> QED BY <3>1, <3>2, <3>3
  <2> QED BY <1>1, <2>1, <2>2, <2>3 DEF ChunksApart
<1> QED BY <1>2, <1>5, <1>6

LEMMA NextInChunk ==
  ASSUME IsGraph(graph), NEW u \in Vertices(graph), NEW next, next = NextNode(u)
  PROVE  /\ LooksAt(next) => ChunkOf(next.u) = ChunkOf(u)
         /\ next.step # "store"
         /\ \A m \in Vertices(graph) : ChunkOf(m) = ChunkOf(u) /\ u <= m =>
              m \in {u} \/ (InChunk(next, m) /\ next.u <= m)
<1>1. Idle.step \notin {"node", "store"}
  BY DEF Idle
<1>2. CASE u + 1 \in Vertices(graph) \ Chunks
  <2>1. next = [step |-> "node", u |-> u + 1]
    BY <1>2 DEF NextNode
  <2>2. next.step = "node" /\ next.u = u + 1 /\ ChunkOf(u + 1) = ChunkOf(u)
    BY <1>2, <2>1, ChunksGoOn
  <2>3. \A m \in Vertices(graph) : u <= m => m = u \/ u + 1 <= m
    BY DEF Vertices
  <2> QED BY <2>2, <2>3 DEF LooksAt, InChunk
<1>3. CASE u + 1 \notin Vertices(graph) \ Chunks
  <2>1. next = Idle
    BY <1>3 DEF NextNode
  <2>2. \A m \in Vertices(graph) : m > u /\ ChunkOf(m) = ChunkOf(u) => FALSE
    BY <1>3, ChunksGoOn
  <2>3. \A m \in Vertices(graph) : u <= m => m = u \/ m > u
    BY DEF Vertices
  <2> QED BY <1>1, <2>1, <2>2, <2>3 DEF LooksAt
<1> QED BY <1>2, <1>3

(* A neighbour in a set, or none.                                          *)
LEMMA FirstNeighbors ==
  ASSUME IsGraph(graph), NEW u \in Vertices(graph), NEW set
  PROVE  /\ \A v \in FirstNeighbor(u, set) :
              v \in set /\ v \in Vertices(graph) /\ HasEdge(graph, v, u)
         /\ FirstNeighbor(u, set) = {} =>
              \A v \in Vertices(graph) : HasEdge(graph, v, u) => v \notin set
<1>1. PICK nbrs : nbrs = in_neigh(graph, u)
  OBVIOUS
<1>2. PICK inside : inside = {i \in DOMAIN nbrs : nbrs[i] \in set}
  OBVIOUS
<1>3. FirstNeighbor(u, set) = {nbrs[i] : i \in {i \in inside : \A j \in inside : i <= j}}
  BY <1>1, <1>2 DEF FirstNeighbor
<1>4. /\ \A k \in DOMAIN nbrs : nbrs[k] \in Vertices(graph) /\ HasEdge(graph, nbrs[k], u)
      /\ \A v \in Vertices(graph) : HasEdge(graph, v, u) => \E k \in DOMAIN nbrs : nbrs[k] = v
      /\ nbrs \in Seq(Vertices(graph))
  BY <1>1, NeighboursLead, NeighboursAreNodes
<1>5. \A v \in FirstNeighbor(u, set) :
        v \in set /\ v \in Vertices(graph) /\ HasEdge(graph, v, u)
  BY <1>2, <1>3, <1>4
<1>6. ASSUME FirstNeighbor(u, set) = {}, NEW v \in Vertices(graph), HasEdge(graph, v, u), v \in set
      PROVE  FALSE
  <2>1. PICK k \in DOMAIN nbrs : nbrs[k] = v
    BY <1>4, <1>6
  <2>2. k \in inside
    BY <1>2, <1>6, <2>1
  <2>3. inside \subseteq Nat
    <3>1. DOMAIN nbrs = 1..Len(nbrs) /\ Len(nbrs) \in Nat
      BY <1>4, LenProperties
    <3> QED BY <1>2, <3>1
  <2>4. PICK i \in inside : \A j \in inside : i <= j
    BY <2>2, <2>3, LeastOf
  <2> QED BY <1>3, <1>6, <2>4
<1> QED BY <1>5, <1>6

(* The search is bottom-up.                                                *)
BottomUpLevel(c, L, d) == region = "bottom up" /\ Searching(c) /\ BfsLevel(c, L, d)

LEMMA BottomUpParts ==
  ASSUME IsGraph(graph), NEW c, NEW L, NEW d, BottomUpLevel(c, L, d)
  PROVE  /\ LevelsSoFar(L, d) /\ ByParents(L) /\ d \in Nat /\ L \in [Vertices(graph) -> Int]
         /\ \A n \in Vertices(graph) : L[n] >= -1 /\ L[n] <= d + 1
         /\ queue.shared_in = queue.shared_out_end
         /\ \A n \in Vertices(graph) : L[n] = d => n \in front
         /\ \A n \in Vertices(graph) : L[n] >= 0 \/ Ahead(n) \/ OutOfReach(L, d, n)
         /\ ChunksApart /\ BitsHold
         /\ {n \in Vertices(graph) : L[n] = d + 1} = curr \cup Stored
         /\ DOMAIN doing = Threads /\ front \subseteq Vertices(graph)
         /\ parent \in [Vertices(graph) -> Int]
         /\ \A t \in Threads : LooksAt(doing[t]) => doing[t].u \in Vertices(graph)
         /\ \A n \in front : L[n] \in 0..d
<1>1. BottomUpAt(L, d) /\ LevelsSoFar(L, d) /\ Searching(c)
  BY DEF BfsLevel, BottomUpLevel
<1>2. d \in Nat /\ ByParents(L) /\ L \in [Vertices(graph) -> Int] /\ \A n \in front : L[n] \in 0..d
  BY <1>1 DEF LevelsSoFar, ByParents
<1>3. \A n \in Vertices(graph) : L[n] >= -1
  BY <1>2 DEF ByParents
<1>4. /\ DOMAIN doing = Threads /\ front \subseteq Vertices(graph)
      /\ parent \in [Vertices(graph) -> Int]
  BY <1>1, SearchingTypes
<1>5. \A t \in Threads : doing[t] \in BottomUpState(graph)
  BY StatesOf DEF Searching, BottomUpLevel
<1>6. \A t \in Threads : LooksAt(doing[t]) => doing[t].u \in Vertices(graph)
  BY <1>5, StatesByStep DEF LooksAt
<1> QED BY <1>1, <1>2, <1>3, <1>4, <1>6 DEF BottomUpAt

(* A thread goes on and finds nothing.                                     *)
LEMMA BottomUpStays ==
  ASSUME IsGraph(graph), NEW c, NEW L, NEW d, BottomUpLevel(c, L, d),
         UNCHANGED <<graph, job, parent, queue, front, region>>,
         ChunksApart', BitsHold', curr' \cup Stored' = curr \cup Stored,
         \A n \in Vertices(graph) : Ahead(n) => Ahead(n)' \/ L[n] >= 0 \/ OutOfReach(L, d, n)
  PROVE  BfsLevel(c, L, d)'
<1>1. /\ LevelsSoFar(L, d) /\ d \in Nat /\ L \in [Vertices(graph) -> Int]
      /\ \A n \in Vertices(graph) : L[n] >= -1 /\ L[n] <= d + 1
      /\ queue.shared_in = queue.shared_out_end
      /\ \A n \in Vertices(graph) : L[n] = d => n \in front
      /\ \A n \in Vertices(graph) : L[n] >= 0 \/ Ahead(n) \/ OutOfReach(L, d, n)
      /\ {n \in Vertices(graph) : L[n] = d + 1} = curr \cup Stored
  BY BottomUpParts
<1>2. \A n : OutOfReach(L, d, n)' <=> OutOfReach(L, d, n)
  BY DEF OutOfReach
<1>3. \A n \in Vertices(graph) : L[n] >= 0 \/ Ahead(n)' \/ OutOfReach(L, d, n)'
  BY <1>1, <1>2
<1>4. BottomUpAt(L, d)'
  BY <1>1, <1>3 DEF BottomUpAt
<1>5. LevelsSoFar(L, d)'
  BY <1>1, SameLevels
<1> QED BY <1>4, <1>5 DEF BfsLevel, BottomUpLevel

LEMMA ChunkIsLeveled ==
  ASSUME IsGraph(graph), NEW c, NEW L, NEW d, BottomUpLevel(c, L, d),
         NEW t \in Threads, NEW n \in todo, Take(t, n, [step |-> "node", u |-> n]),
         UNCHANGED <<job, graph, queueVars, bfsVars>>
  PROVE  BfsLevel(c, L, d)'
<1>1. ChunksApart /\ BitsHold /\ DOMAIN doing = Threads
  BY BottomUpParts
<1>2. PICK next : next = [step |-> "node", u |-> n]
  OBVIOUS
<1>3. /\ doing[t] = Idle /\ todo' = todo \ {n} /\ doing' = [doing EXCEPT ![t] = next]
      /\ UNCHANGED <<graph, job, parent, queue, front, curr, region>>
  BY <1>2 DEF Take, queueVars, bfsVars
<1>4. /\ ChunksApart' /\ \A m \in Vertices(graph) : Ahead(m) => Ahead(m)'
      /\ Storing' = Storing /\ \A s \in Storing : doing'[s] = doing[s]
  BY <1>1, <1>2, <1>3, ChunkTaken
<1>5. Stored' = Stored
  BY <1>4 DEF Stored
<1>6. BitsHold'
  BY <1>1, <1>3, <1>4 DEF BitsHold, Word
<1> QED BY <1>3, <1>4, <1>5, <1>6, BottomUpStays

(* What the thread leaves alone when it steps in its chunk.                *)
LEMMA NodeSkipped ==
  ASSUME IsGraph(graph), NEW c, NEW L, NEW d, BottomUpLevel(c, L, d),
         NEW t \in Threads, doing[t].step = "node", NEW u, u = doing[t].u,
         parent[u] >= 0 \/ FrontNeighbor(u) = {},
         NEW next, next = NextNode(u), Proceed(t, next),
         UNCHANGED <<job, graph, parent, queue, front, curr>>
  PROVE  BfsLevel(c, L, d)'
<1>1. /\ ChunksApart /\ BitsHold /\ DOMAIN doing = Threads /\ ByParents(L)
      /\ \A n \in Vertices(graph) : L[n] = d => n \in front
      /\ u \in Vertices(graph) /\ LooksAt(doing[t])
  BY BottomUpParts DEF LooksAt
<1>2. doing' = [doing EXCEPT ![t] = next] /\ UNCHANGED <<todo, region>>
  BY DEF Proceed
<1>3. /\ LooksAt(next) => ChunkOf(next.u) = ChunkOf(u)
      /\ next.step # "store"
      /\ \A m \in Vertices(graph) : ChunkOf(m) = ChunkOf(u) /\ u <= m =>
           m \in {u} \/ (InChunk(next, m) /\ next.u <= m)
  BY <1>1, NextInChunk
<1>4. PICK S : S = {u}
  OBVIOUS
<1>5. /\ ChunksApart' /\ \A m \in Vertices(graph) : Ahead(m) => m \in S \/ Ahead(m)'
      /\ doing'[t] = next /\ \A s \in Threads \ {t} : doing'[s] = doing[s]
  BY <1>1, <1>2, <1>3, <1>4, ChunkGoesOn
<1>6. Storing' = Storing /\ \A s \in Storing : doing'[s] = doing[s]
  <2>1. t \notin Storing
    BY DEF Storing
  <2>2. Storing' = Storing
    BY <1>3, <1>5 DEF Storing
  <2> QED BY <1>5, <2>1, <2>2 DEF Storing
<1>7. Stored' = Stored /\ BitsHold'
  BY <1>1, <1>6 DEF BitsHold, Word, Stored
<1>8. L[u] >= 0 \/ OutOfReach(L, d, u)
  <2>1. CASE parent[u] >= 0
    BY <1>1, <2>1 DEF ByParents
  <2>2. CASE FrontNeighbor(u) = {}
    <3>1. \A v \in Vertices(graph) : HasEdge(graph, v, u) => v \notin front
      BY <1>1, <2>2, FirstNeighbors DEF FrontNeighbor
    <3> QED BY <1>1, <3>1 DEF OutOfReach
  <2> QED BY <2>1, <2>2
<1>9. \A n \in Vertices(graph) : Ahead(n) => Ahead(n)' \/ L[n] >= 0 \/ OutOfReach(L, d, n)
  BY <1>4, <1>5, <1>8
<1>10. curr' \cup Stored' = curr \cup Stored
  BY <1>7
<1>11. UNCHANGED <<graph, job, parent, queue, front, region>>
  BY <1>2
<1> QED BY <1>5, <1>7, <1>9, <1>10, <1>11, BottomUpStays

(* A word of the bitmap is stored: nothing else in it has changed.         *)
LEMMA NodeStored ==
  ASSUME IsGraph(graph), NEW c, NEW L, NEW d, BottomUpLevel(c, L, d),
         NEW t \in Threads, doing[t].step = "store", NEW u, u = doing[t].u,
         curr' = StoreWord(curr, WordOf(u), doing[t].bits \cup {u}),
         NEW next, next = NextNode(u), Proceed(t, next),
         UNCHANGED <<job, graph, parent, queue, front>>
  PROVE  BfsLevel(c, L, d)'
<1>1. /\ ChunksApart /\ BitsHold /\ DOMAIN doing = Threads
      /\ {n \in Vertices(graph) : L[n] = d + 1} = curr \cup Stored
      /\ \A s \in Threads : LooksAt(doing[s]) => doing[s].u \in Vertices(graph)
      /\ u \in Vertices(graph) /\ LooksAt(doing[t])
      /\ d \in Nat
  BY BottomUpParts DEF LooksAt
<1>2. doing' = [doing EXCEPT ![t] = next] /\ UNCHANGED <<todo, region>>
  BY DEF Proceed
<1>3. /\ LooksAt(next) => ChunkOf(next.u) = ChunkOf(u)
      /\ next.step # "store"
      /\ \A m \in Vertices(graph) : ChunkOf(m) = ChunkOf(u) /\ u <= m =>
           m \in {u} \/ (InChunk(next, m) /\ next.u <= m)
  BY <1>1, NextInChunk
<1>4. PICK S : S = {u}
  OBVIOUS
<1>5. /\ ChunksApart' /\ \A m \in Vertices(graph) : Ahead(m) => m \in S \/ Ahead(m)'
      /\ doing'[t] = next /\ \A s \in Threads \ {t} : doing'[s] = doing[s]
  BY <1>1, <1>2, <1>3, <1>4, ChunkGoesOn
<1>6. t \in Storing /\ Storing' = Storing \ {t} /\ \A s \in Storing \ {t} : doing'[s] = doing[s]
  <2>1. t \in Storing
    BY DEF Storing
  <2>2. Storing' = Storing \ {t}
    BY <1>3, <1>5 DEF Storing
  <2> QED BY <1>5, <2>1, <2>2 DEF Storing
<1>7. curr' = curr \cup {u}
  <2>1. doing[t].bits = Word(curr, WordOf(u))
    BY <1>1, <1>6 DEF BitsHold
  <2>2. PICK bits : bits = doing[t].bits
    OBVIOUS
  <2>3. bits = {n \in curr : WordOf(n) = WordOf(u)}
    BY <2>1, <2>2 DEF Word
  <2>4. curr' = {n \in curr : WordOf(n) # WordOf(u)} \cup (bits \cup {u})
    BY <2>2 DEF StoreWord
  <2> QED BY <2>3, <2>4
<1>8. BitsHold'
  <2>1. ASSUME NEW s \in Storing \ {t}
        PROVE  doing'[s].bits = Word(curr', WordOf(doing'[s].u))
    <3>1. PICK v : v = doing[s].u
      OBVIOUS
    <3>2. s \in Threads /\ LooksAt(doing[s]) /\ v \in Vertices(graph)
      BY <1>1, <3>1 DEF Storing, LooksAt
    <3>3. ChunkOf(v) # ChunkOf(u)
      BY <1>1, <3>1, <3>2 DEF ChunksApart, InChunk
    <3>4. WordOf(u) # WordOf(v)
      BY <1>1, <3>2, <3>3, WordsInChunks
    <3>5. Word(curr', WordOf(v)) = Word(curr, WordOf(v))
      BY <1>7, <3>4 DEF Word
    <3>6. doing[s].bits = Word(curr, WordOf(v)) /\ doing'[s] = doing[s]
      BY <1>1, <1>6, <3>1 DEF BitsHold
    <3> QED BY <3>1, <3>5, <3>6
  <2> QED BY <1>6, <2>1 DEF BitsHold
<1>9. curr' \cup Stored' = curr \cup Stored
  <2>1. Stored = {doing[s].u : s \in Storing \ {t}} \cup {u}
    BY <1>6 DEF Stored
  <2>2. Stored' = {doing[s].u : s \in Storing \ {t}}
    BY <1>6 DEF Stored
  <2> QED BY <1>7, <2>1, <2>2
<1>10. L[u] >= 0
  <2>1. u \in Stored
    BY <1>6 DEF Stored
  <2>2. L[u] = d + 1
    BY <1>1, <2>1
  <2> QED BY <1>1, <2>2
<1>11. \A n \in Vertices(graph) : Ahead(n) => Ahead(n)' \/ L[n] >= 0 \/ OutOfReach(L, d, n)
  BY <1>4, <1>5, <1>10
<1>12. UNCHANGED <<graph, job, parent, queue, front, region>>
  BY <1>2
<1> QED BY <1>5, <1>8, <1>9, <1>11, <1>12, BottomUpStays

LEMMA ChunkStays ==
  ASSUME UNCHANGED <<graph, todo>>, ChunksApart, DOMAIN doing = Threads,
         NEW t \in Threads, NEW u, doing[t].u = u, LooksAt(doing[t]),
         NEW next, doing' = [doing EXCEPT ![t] = next], LooksAt(next), next.u = u
  PROVE  /\ ChunksApart' /\ \A m \in Vertices(graph) : Ahead(m) => Ahead(m)'
         /\ doing'[t] = next /\ \A s \in Threads \ {t} : doing'[s] = doing[s]
<1>1. PICK S : S = {}
  OBVIOUS
<1>2. \A m \in Vertices(graph) :
        ChunkOf(m) = ChunkOf(u) /\ u <= m => m \in S \/ (InChunk(next, m) /\ next.u <= m)
  BY DEF InChunk
<1>3. /\ ChunksApart' /\ \A m \in Vertices(graph) : Ahead(m) => m \in S \/ Ahead(m)'
      /\ doing'[t] = next /\ \A s \in Threads \ {t} : doing'[s] = doing[s]
  BY <1>2, ChunkGoesOn
<1> QED BY <1>1, <1>3

(* A node is found bottom-up.                                              *)
LEMMA FoundBottomUp ==
  ASSUME IsGraph(graph), NEW c, NEW L, NEW d, BottomUpLevel(c, L, d),
         NEW t \in Threads, doing[t].step = "node", NEW u, u = doing[t].u, parent[u] < 0,
         NEW v \in FrontNeighbor(u), parent' = [parent EXCEPT ![u] = v],
         NEW next, next = [step |-> "store", u |-> u, bits |-> Word(curr, WordOf(u))],
         Proceed(t, next), UNCHANGED <<job, graph, queue, front, curr>>,
         NEW L2, L2 = [L EXCEPT ![u] = d + 1]
  PROVE  BfsLevel(c, L2, d)' /\ FindsOne(L, L2)
<1>1. /\ LevelsSoFar(L, d) /\ ByParents(L) /\ d \in Nat /\ L \in [Vertices(graph) -> Int]
      /\ \A n \in Vertices(graph) : L[n] >= -1 /\ L[n] <= d + 1
      /\ queue.shared_in = queue.shared_out_end
      /\ \A n \in Vertices(graph) : L[n] = d => n \in front
      /\ \A n \in Vertices(graph) : L[n] >= 0 \/ Ahead(n) \/ OutOfReach(L, d, n)
      /\ ChunksApart /\ BitsHold
      /\ {n \in Vertices(graph) : L[n] = d + 1} = curr \cup Stored
      /\ DOMAIN doing = Threads /\ front \subseteq Vertices(graph)
      /\ parent \in [Vertices(graph) -> Int]
      /\ u \in Vertices(graph) /\ LooksAt(doing[t])
      /\ \A n \in front : L[n] \in 0..d
  BY BottomUpParts DEF LooksAt
<1>2. doing' = [doing EXCEPT ![t] = next] /\ UNCHANGED <<todo, region>>
  BY DEF Proceed
<1>3. v \in front /\ v \in Vertices(graph) /\ HasEdge(graph, v, u)
  BY <1>1, FirstNeighbors DEF FrontNeighbor
<1>4. L[u] = -1
  <2>1. ~(L[u] >= 0) /\ L[u] >= -1 /\ L[u] \in Int
    BY <1>1 DEF ByParents
  <2> QED BY <2>1
<1>5. L[v] = d
  <2>1. L[v] \in 0..d
    BY <1>1, <1>3
  <2>2. ASSUME L[v] \in 0..(d - 1) PROVE FALSE
    <3>1. Passed(L, v)
      BY <1>1, <1>3, <2>2 DEF LevelsSoFar
    <3>2. L[u] \in 0..(L[v] + 1)
      BY <1>1, <1>3, <3>1 DEF Passed
    <3> QED BY <1>4, <3>2
  <2> QED BY <1>1, <2>1, <2>2
<1>6. /\ LevelsSoFar(L2, d)' /\ FindsOne(L, L2)
      /\ \A n \in Vertices(graph) : L2[n] <= d + 1
      /\ \A n \in Vertices(graph) : L2[n] = d <=> L[n] = d
      /\ \A n \in Vertices(graph) : L[n] >= 0 => n # u /\ L2[n] = L[n]
      /\ {n \in Vertices(graph) : L2[n] = d + 1} = {n \in Vertices(graph) : L[n] = d + 1} \cup {u}
  <2>1. FoundAt(L, L2, d, u)
    BY <1>1, <1>3, <1>4, <1>5, NodeFound
  <2> QED BY <2>1 DEF FoundAt
<1>7. next.step = "store" /\ next.u = u /\ LooksAt(next) /\ \A m : InChunk(next, m) <=> ChunkOf(m) = ChunkOf(u)
  BY DEF LooksAt, InChunk
<1>8. /\ ChunksApart' /\ \A m \in Vertices(graph) : Ahead(m) => Ahead(m)'
      /\ doing'[t] = next /\ \A s \in Threads \ {t} : doing'[s] = doing[s]
  <2>1. /\ UNCHANGED <<graph, todo>> /\ ChunksApart /\ DOMAIN doing = Threads
        /\ LooksAt(doing[t]) /\ doing[t].u = u /\ LooksAt(next) /\ next.u = u
    BY <1>1, <1>2, <1>7
  <2> QED BY <1>2, <2>1, ChunkStays
<1>9. t \notin Storing /\ Storing' = Storing \cup {t} /\ \A s \in Storing : doing'[s] = doing[s]
  <2>1. t \notin Storing
    BY DEF Storing
  <2>2. Storing' = Storing \cup {t}
    BY <1>7, <1>8 DEF Storing
  <2> QED BY <1>8, <2>1, <2>2 DEF Storing
<1>10. Stored' = Stored \cup {u}
  BY <1>7, <1>8, <1>9 DEF Stored
<1>11. BitsHold'
  <2>1. doing'[t].bits = Word(curr, WordOf(u)) /\ doing'[t].u = u
    BY <1>8
  <2>2. \A s \in Storing : doing'[s].bits = Word(curr, WordOf(doing'[s].u))
    BY <1>1, <1>9 DEF BitsHold
  <2> QED BY <1>9, <2>1, <2>2 DEF BitsHold
<1>12. \A n \in Vertices(graph) : L2[n] >= 0 \/ Ahead(n)' \/ OutOfReach(L2, d, n)'
  <2>1. ASSUME NEW n \in Vertices(graph), L[n] >= 0 PROVE L2[n] >= 0
    BY <1>6, <2>1
  <2>2. ASSUME NEW n \in Vertices(graph), OutOfReach(L, d, n) PROVE OutOfReach(L2, d, n)'
    BY <1>6, <2>2 DEF OutOfReach
  <2> QED BY <1>1, <1>8, <2>1, <2>2
<1>13. BottomUpAt(L2, d)'
  <2>1. {n \in Vertices(graph) : L2[n] = d + 1} = curr' \cup Stored'
    BY <1>1, <1>6, <1>10
  <2>2. \A n \in Vertices(graph) : L2[n] = d => n \in front'
    BY <1>1, <1>6
  <2> QED BY <1>1, <1>6, <1>8, <1>11, <1>12, <2>1, <2>2 DEF BottomUpAt
<1> QED BY <1>2, <1>6, <1>13 DEF BfsLevel, BottomUpLevel

LEMMA BottomUpIsLeveled ==
  ASSUME IsGraph(graph), NEW c, NEW L, NEW d, Searching(c), BfsLevel(c, L, d),
         NEW t \in Threads, BottomUp(t)
  PROVE  \E L2 : /\ BfsLevel(c, L2, d)' /\ (L2 = L \/ FindsOne(L, L2))
                 /\ UNCHANGED <<graph, job, region>>
<1>1. /\ BottomUpLevel(c, L, d) /\ UNCHANGED <<graph, job, region>>
  BY DEF BottomUp, At, Take, Proceed, BottomUpLevel
<1>2. ASSUME NEW n \in todo, Take(t, n, [step |-> "node", u |-> n]),
             UNCHANGED <<job, graph, queueVars, bfsVars>>
      PROVE  BfsLevel(c, L, d)'
  BY <1>1, <1>2, ChunkIsLeveled
<1>3. PICK u : u = doing[t].u
  OBVIOUS
<1>4. PICK next : next = NextNode(u)
  OBVIOUS
<1>5. ASSUME At(t, "bottom up", "node"), parent[u] < 0, NEW v \in FrontNeighbor(u),
             parent' = [parent EXCEPT ![u] = v],
             Proceed(t, [step |-> "store", u |-> u, bits |-> Word(curr, WordOf(u))]),
             UNCHANGED <<job, graph, queueVars, front, curr>>
      PROVE  \E L2 : BfsLevel(c, L2, d)' /\ FindsOne(L, L2)
  <2>1. PICK e : e = [step |-> "store", u |-> u, bits |-> Word(curr, WordOf(u))]
    OBVIOUS
  <2>2. PICK L2 : L2 = [L EXCEPT ![u] = d + 1]
    OBVIOUS
  <2>3. doing[t].step = "node" /\ Proceed(t, e) /\ UNCHANGED queue
    BY <1>5, <2>1 DEF At, queueVars
  <2>4. BfsLevel(c, L2, d)' /\ FindsOne(L, L2)
    BY <1>1, <1>3, <1>5, <2>1, <2>2, <2>3, FoundBottomUp
  <2> QED BY <2>4
<1>6. ASSUME At(t, "bottom up", "node"), parent[u] >= 0 \/ FrontNeighbor(u) = {},
             Proceed(t, next), UNCHANGED <<job, graph, parent, queueVars, front, curr>>
      PROVE  BfsLevel(c, L, d)'
  <2>1. doing[t].step = "node" /\ UNCHANGED queue
    BY <1>6 DEF At, queueVars
  <2> QED BY <1>1, <1>3, <1>4, <1>6, <2>1, NodeSkipped
<1>7. ASSUME At(t, "bottom up", "store"),
             curr' = StoreWord(curr, WordOf(u), doing[t].bits \cup {u}),
             Proceed(t, next), UNCHANGED <<job, graph, parent, queueVars, front>>
      PROVE  BfsLevel(c, L, d)'
  <2>1. doing[t].step = "store" /\ UNCHANGED queue
    BY <1>7 DEF At, queueVars
  <2> QED BY <1>1, <1>3, <1>4, <1>7, <2>1, NodeStored
<1> QED BY <1>1, <1>2, <1>3, <1>4, <1>5, <1>6, <1>7 DEF BottomUp

LEMMA BottomUpEnds ==
  ASSUME IsGraph(graph), NEW c, NEW L, NEW d, BottomUpLevel(c, L, d), EndBottomUp
  PROVE  BfsLevel(c, L, d + 1)' /\ UNCHANGED <<graph, job>>
<1>1. /\ UNCHANGED <<graph, job, parent, queue, lqueue>> /\ front' = curr
      /\ todo = {} /\ \A t \in Threads : doing[t] = Idle
  BY DEF EndBottomUp, AllDone, queueVars
<1>2. /\ LevelsSoFar(L, d) /\ d \in Nat /\ L \in [Vertices(graph) -> Int]
      /\ \A n \in Vertices(graph) : L[n] >= -1 /\ L[n] <= d + 1
      /\ queue.shared_in = queue.shared_out_end
      /\ \A n \in Vertices(graph) : L[n] >= 0 \/ Ahead(n) \/ OutOfReach(L, d, n)
      /\ {n \in Vertices(graph) : L[n] = d + 1} = curr \cup Stored
  BY BottomUpParts
<1>3. Stored = {} /\ \A n : ~Ahead(n)
  BY <1>1, IdleDoesNothing DEF Ahead
<1>4. \A n \in Vertices(graph) : L[n] = d + 1 <=> n \in front'
  BY <1>1, <1>2, <1>3
<1>5. front' \subseteq Vertices(graph)
  BY <1>1, <1>2, <1>3
<1>6. ASSUME NEW n \in Vertices(graph), L[n] = d PROVE Passed(L, n)
  <2>1. ASSUME NEW v \in Vertices(graph), HasEdge(graph, n, v) PROVE L[v] \in 0..(L[n] + 1)
    <3>1. L[v] >= 0
      BY <1>2, <1>3, <1>6, <2>1 DEF OutOfReach
    <3> QED BY <1>2, <1>6, <3>1
  <2> QED BY <2>1 DEF Passed
<1>7. \A n \in front' : L[n] \in 0..(d + 1)
  BY <1>2, <1>4, <1>5
<1>8. LevelsSoFar(L, d + 1)'
  BY <1>1, <1>2, <1>6, <1>7, LevelPassed
<1>9. PICK e \in Nat : e = d + 1
  BY <1>2
<1>10. CASE curr' = {} /\ Enter("bottom up", Chunks)
  <2>1. todo' = Chunks /\ \A t \in Threads : doing'[t] = Idle
    BY <1>10 DEF Enter
  <2>2. BottomUpAt(L, e)'
    BY <1>1, <1>2, <1>4, <1>9, <1>10, <2>1, BottomUpBegins
  <2>3. region' = "bottom up"
    BY <1>10 DEF Enter
  <2> QED BY <1>1, <1>8, <1>9, <2>2, <2>3 DEF BfsLevel
<1>11. CASE Enter("to queue", Vertices(graph))
  <2>1. /\ todo' = Vertices(graph) /\ \A t \in Threads : doing'[t] = Idle
    BY <1>11 DEF Enter
  <2>2. AboutToPut' = {}
    <3>1. lqueue' = NoBuffers
      BY <1>1 DEF BottomUpLevel, Searching, InRegion
    <3>2. \A t \in Threads : ToPut(doing'[t], lqueue'[t]) = {}
      BY <2>1, <3>1, NothingToPut DEF NoBuffers
    <3> QED BY <3>2 DEF AboutToPut
  <2>3. Behind(c)' = {}
    <3>1. queue'.shared_out_end \in Int /\ queue'.shared_in = queue'.shared_out_end
      <4>1. queue.shared_out_end \in Int
        <5>1. Searching(c)
          BY DEF BottomUpLevel
        <5>2. queue.shared_out_end \in Nat
          BY <5>1, SearchingTypes
        <5> QED BY <5>2
      <4> QED BY <1>1, <1>2, <4>1
    <3>2. \A k \in Int : k..(k - 1) = {}
      OBVIOUS
    <3>3. queue'.shared_out_end..(queue'.shared_in - 1) = {}
      BY <3>1, <3>2
    <3> QED BY <3>3 DEF Behind
  <2>4. ToQueueAt(c, L, e)'
    BY <1>1, <1>2, <1>4, <1>5, <1>9, <2>1, <2>2, <2>3 DEF ToQueueAt
  <2>5. region' = "to queue"
    BY <1>11 DEF Enter
  <2> QED BY <1>1, <1>8, <1>9, <2>4, <2>5 DEF BfsLevel
<1> QED BY <1>1, <1>10, <1>11 DEF EndBottomUp, StartBottomUp, Reset

(* The bitmap is copied to the queue.                                      *)
ToQueueLevel(c, L, d) == region = "to queue" /\ Searching(c) /\ BfsLevel(c, L, d)

LEMMA ToQueueParts ==
  ASSUME IsGraph(graph), NEW c, NEW L, NEW d, ToQueueLevel(c, L, d)
  PROVE  /\ LevelsSoFar(L, d) /\ d \in Nat
         /\ \A n \in Vertices(graph) : L[n] <= d
         /\ \A n \in Vertices(graph) : L[n] = d <=> n \in front
         /\ front = (todo \cap front) \cup Behind(c) \cup AboutToPut
         /\ DOMAIN doing = Threads /\ front \subseteq Vertices(graph)
         /\ lqueue \in [Threads -> Seq(Vertices(graph))]
         /\ \A t \in Threads : doing[t] \in FillingState(graph)
<1>1. ToQueueAt(c, L, d) /\ LevelsSoFar(L, d) /\ Searching(c)
  BY DEF BfsLevel, ToQueueLevel
<1>2. /\ DOMAIN doing = Threads /\ front \subseteq Vertices(graph)
      /\ lqueue \in [Threads -> Seq(Vertices(graph))]
  BY <1>1, SearchingTypes
<1>3. \A t \in Threads : doing[t] \in FillingState(graph)
  BY StatesOf DEF Searching, ToQueueLevel
<1> QED BY <1>1, <1>2, <1>3 DEF ToQueueAt, LevelsSoFar

LEMMA FillingStays ==
  ASSUME IsGraph(graph), NEW c, NEW L, NEW d, ToQueueLevel(c, L, d), NEW c2,
         UNCHANGED <<graph, job, parent, front, region>>,
         front = (todo' \cap front) \cup Behind(c2)' \cup AboutToPut'
  PROVE  BfsLevel(c2, L, d)'
<1>1. /\ LevelsSoFar(L, d) /\ d \in Nat
      /\ \A n \in Vertices(graph) : L[n] <= d
      /\ \A n \in Vertices(graph) : L[n] = d <=> n \in front
  BY ToQueueParts
<1>2. LevelsSoFar(L, d)'
  BY <1>1, SameLevels
<1>3. ToQueueAt(c2, L, d)'
  BY <1>1 DEF ToQueueAt
<1> QED BY <1>2, <1>3 DEF BfsLevel, ToQueueLevel

LEMMA ToQueueIsLeveled ==
  ASSUME IsGraph(graph), NEW c, NEW L, NEW d, Searching(c), BfsLevel(c, L, d),
         NEW t \in Threads, ToQueue(t)
  PROVE  BfsLevel(c, L, d)' /\ UNCHANGED <<graph, job, region>>
<1>1. /\ ToQueueLevel(c, L, d) /\ UNCHANGED <<graph, job, parent, front, queue, region>>
  BY DEF ToQueue, At, Take, Proceed, Push, queueVars, bfsVars, ToQueueLevel
<1>2. /\ front = (todo \cap front) \cup Behind(c) \cup AboutToPut
      /\ DOMAIN doing = Threads /\ lqueue \in [Threads -> Seq(Vertices(graph))]
      /\ \A s \in Threads : doing[s] \in FillingState(graph)
  BY <1>1, ToQueueParts
<1>3. Behind(c)' = Behind(c)
  BY <1>1 DEF Behind
<1>4. \A n : n \in AboutToPut <=> \E s \in Threads : n \in ToPut(doing[s], lqueue[s])
  BY DEF AboutToPut
<1>5. \A n : n \in AboutToPut' <=> \E s \in Threads : n \in ToPut(doing'[s], lqueue'[s])
  BY DEF AboutToPut
<1>6. ASSUME NEW n \in todo,
             Take(t, n, IF n \in front THEN [step |-> "push", n |-> n] ELSE Idle),
             UNCHANGED <<job, graph, queueVars, bfsVars>>
      PROVE  BfsLevel(c, L, d)'
  <2>1. PICK next : next = IF n \in front THEN [step |-> "push", n |-> n] ELSE Idle
    OBVIOUS
  <2>2. /\ doing[t] = Idle /\ todo' = todo \ {n} /\ doing' = [doing EXCEPT ![t] = next]
        /\ lqueue' = lqueue
    BY <1>6, <2>1 DEF Take, queueVars
  <2>3. doing'[t] = next /\ \A s \in Threads \ {t} : doing'[s] = doing[s]
    BY <1>2, <2>2
  <2>4. ToPut(next, lqueue[t]) = ToPut(Idle, lqueue[t]) \cup (IF n \in front THEN {n} ELSE {})
    <3>1. CASE n \in front
      <4>1. next.step = "push" /\ next.n = n
        BY <2>1, <3>1
      <4>2. Idle.step = "idle"
        BY DEF Idle
      <4> QED BY <3>1, <4>1, <4>2 DEF ToPut, Handed
    <3>2. CASE n \notin front
      BY <2>1, <3>2
    <3> QED BY <3>1, <3>2
  <2>5. AboutToPut' = AboutToPut \cup (IF n \in front THEN {n} ELSE {})
    BY <1>4, <1>5, <2>2, <2>3, <2>4
  <2>6. front = (todo' \cap front) \cup Behind(c)' \cup AboutToPut'
    BY <1>2, <1>3, <2>2, <2>5
  <2> QED BY <1>1, <2>6, FillingStays
<1>7. ASSUME At(t, "to queue", "push"), Push(t, doing[t].n, Idle)
      PROVE  BfsLevel(c, L, d)'
  <2>1. PICK e : e = doing[t]
    OBVIOUS
  <2>2. PICK v : v = e.n
    OBVIOUS
  <2>3. e.step = "push" /\ v \in Vertices(graph)
    BY <1>2, <1>7, <2>1, <2>2, StatesByStep DEF At
  <2>4. Handed(e) = {v} /\ e.step # "copy"
    BY <2>2, <2>3 DEF Handed
  <2>5. v \in AboutToPut
    BY <1>4, <2>1, <2>4 DEF ToPut
  <2>6. PICK next : next = Idle /\ next.step \notin {"reserve", "copy", "push"}
    <3>1. Idle.step \notin {"reserve", "copy", "push"}
      BY DEF Idle
    <3> QED BY <3>1
  <2>7. Pushes(doing, lqueue, t, v, next, doing', lqueue') /\ todo' = todo
    BY <1>7, <2>1, <2>2, <2>6 DEF Push, Proceed, Pushes
  <2>8. AboutToPut' = AboutToPut \cup {v}
    BY <1>2, <2>1, <2>3, <2>4, <2>6, <2>7, PushesOn
  <2>9. front = (todo' \cap front) \cup Behind(c)' \cup AboutToPut'
    BY <1>2, <1>3, <2>5, <2>7, <2>8
  <2> QED BY <1>1, <2>9, FillingStays
<1> QED BY <1>1, <1>6, <1>7 DEF ToQueue

LEMMA ToQueueEnds ==
  ASSUME IsGraph(graph), NEW c, NEW L, NEW d, ToQueueLevel(c, L, d), EndToQueue
  PROVE  BfsLevel(c, L, d)' /\ UNCHANGED <<graph, job>>
<1>1. /\ UNCHANGED <<graph, job, parent, front>> /\ queue' = slide_window(queue)
      /\ todo = {} /\ (\A t \in Threads : doing[t] = Idle) /\ lqueue = NoBuffers
  BY DEF EndToQueue, AllFlushed, AllDone
<1>2. /\ LevelsSoFar(L, d) /\ d \in Nat
      /\ \A n \in Vertices(graph) : L[n] <= d
      /\ \A n \in Vertices(graph) : L[n] = d <=> n \in front
      /\ front = (todo \cap front) \cup Behind(c) \cup AboutToPut
      /\ front \subseteq Vertices(graph)
  BY ToQueueParts
<1>3. AboutToPut = {}
  BY <1>1, NothingAboutToPut
<1>4. {n \in Vertices(graph) : L[n] = d} = Behind(c)
  BY <1>1, <1>2, <1>3
<1>5. WindowHolds(c, L, d)' /\ queue'.shared_in = queue'.shared_out_end
  <2>1. Searching(c)
    BY DEF ToQueueLevel
  <2> QED BY <1>1, <1>4, <2>1, NextWindow
<1>6. LevelsSoFar(L, d)'
  BY <1>1, <1>2, SameLevels
<1>7. SearchAt(c, L, d)'
  BY <1>1, <1>2, <1>5 DEF SearchAt
<1>8. region' = "search"
  BY DEF EndToQueue, Enter
<1> QED BY <1>1, <1>6, <1>7, <1>8 DEF BfsLevel

LEMMA BfsFlushIsLeveled ==
  ASSUME IsGraph(graph), NEW c, NEW L, NEW d, Searching(c), BfsLevel(c, L, d),
         NEW t \in Threads, BfsFlush(t), NEW c2, c2 = AfterFlush(c, t)
  PROVE  BfsLevel(c2, L, d)' /\ UNCHANGED <<graph, job, region>>
<1>1. /\ UNCHANGED <<graph, job, region, parent, front, curr, todo>>
      /\ FlushAtEnd(t) \/ Flushing(t)
  BY DEF BfsFlush, FlushAtEnd, Flushing, Reserve, Copy, Proceed, bfsVars
<1>2. \/ TopDownLevel(c, L, d) \/ ToQueueLevel(c, L, d)
  BY DEF BfsFlush, TopDownLevel, ToQueueLevel
<1>3. PICK e : e = doing[t]
  OBVIOUS
<1>4. e.step \in {"reserve", "copy"} =>
        /\ e.pushed \in Vertices(graph) \cup {Blank}
        /\ Handed(e.next) = {} /\ e.next.step \notin {"reserve", "copy"}
  <2>1. CASE TopDownLevel(c, L, d)
    <3>1. e \in TopDownState(graph)
      BY <1>3, <2>1, TopDownParts
    <3> QED BY <3>1, StatesByStep, FlushStates, ContinuingHasNothing
  <2>2. CASE ToQueueLevel(c, L, d)
    <3>1. e \in FillingState(graph)
      BY <1>3, <2>2, ToQueueParts
    <3>2. Handed(Idle) = {} /\ Idle.step \notin {"reserve", "copy"}
      BY DEF Handed, Idle
    <3> QED BY <3>1, <3>2, StatesByStep, FlushStates
  <2> QED BY <1>2, <2>1, <2>2
<1>5. /\ queue.shared_in \in Nat /\ queue.shared_out_start \in Nat
      /\ queue.shared_out_end \in Nat
      /\ queue.shared_out_start <= queue.shared_out_end
      /\ queue.shared_out_end <= queue.shared_in
      /\ DOMAIN doing = Threads
      /\ \A i \in Window(queue) : i \in 0..(queue.shared_in - 1)
  BY SearchingTypes
<1>6. PICK found : Tidy(graph, c, queue, found, doing, lqueue)
  BY DEF Searching
<1>7. /\ queue'.shared_out_start = queue.shared_out_start
      /\ queue'.shared_out_end = queue.shared_out_end
      /\ \A s \in Threads : VisitOf(doing'[s]) = VisitOf(doing[s])
      /\ \A i \in 0..(queue.shared_in - 1) : c2[i] = c[i]
      /\ Behind(c2)' \cup AboutToPut' = Behind(c) \cup AboutToPut
  BY <1>1, <1>3, <1>4, <1>5, <1>6, FlushMovesOn
<1>8. Window(queue)' = Window(queue) /\ \A i \in Window(queue) : c2[i] = c[i]
  BY <1>5, <1>7 DEF Window
<1>9. CASE ToQueueLevel(c, L, d)
  <2>1. front = (todo \cap front) \cup Behind(c) \cup AboutToPut
    BY <1>9, ToQueueParts
  <2>2. front = (todo' \cap front) \cup Behind(c2)' \cup AboutToPut'
    BY <1>1, <1>7, <2>1
  <2> QED BY <1>1, <1>9, <2>2, FillingStays
<1>10. CASE TopDownLevel(c, L, d)
  <2>1. /\ LevelsSoFar(L, d) /\ TopDownAt(c, L, d) /\ d \in Nat
        /\ WindowHolds(c, L, d) /\ todo \subseteq Window(queue)
        /\ \A i \in Window(queue) \ todo :
             Passed(L, c[i]) \/ \E s \in Threads : Scans(doing[s], c[i])
        /\ \A s \in Threads : ScanGood(L, d, VisitOf(doing[s]))
        /\ {n \in Vertices(graph) : L[n] = d + 1} = Behind(c) \cup AboutToPut
    BY <1>10, TopDownParts
  <2>2. \A n : Passed(L, n)' <=> Passed(L, n)
    BY <1>1, SameLevels
  <2>3. \A s \in Threads : \A u : Scans(doing'[s], u) <=> Scans(doing[s], u)
    BY <1>7 DEF Scans
  <2>4. \A s \in Threads : ScanGood(L, d, VisitOf(doing[s]))'
    <3>1. \A w : ScanGood(L, d, w)' <=> ScanGood(L, d, w)
      BY <1>1, SameLevels
    <3>2. ASSUME NEW s \in Threads, NEW w, w = VisitOf(doing'[s]) PROVE ScanGood(L, d, w)'
      BY <1>7, <2>1, <3>1, <3>2
    <3> QED BY <3>2 DEF ScanGood
  <2>5. WindowHolds(c2, L, d)'
    BY <1>1, <1>8, <2>1 DEF WindowHolds
  <2>6. (\A i \in Window(queue) \ todo :
           Passed(L, c2[i]) \/ \E s \in Threads : Scans(doing[s], c2[i]))'
    BY <1>1, <1>8, <2>1, <2>2, <2>3
  <2>7. ({n \in Vertices(graph) : L[n] = d + 1} = Behind(c2) \cup AboutToPut)'
    BY <1>1, <1>7, <2>1
  <2>8. (\A n \in Vertices(graph) : L[n] <= d + 1)' /\ (todo \subseteq Window(queue))'
    BY <1>1, <1>8, <2>1 DEF TopDownAt
  <2>9. TopDownAt(c2, L, d)'
    BY <2>4, <2>5, <2>6, <2>7, <2>8 DEF TopDownAt
  <2>10. LevelsSoFar(L, d)'
    BY <1>1, <2>1, SameLevels
  <2> QED BY <1>1, <1>10, <2>9, <2>10 DEF BfsLevel, TopDownLevel
<1> QED BY <1>1, <1>2, <1>9, <1>10

(* A step of the search: no node is found, or one is.                      *)
StepsOn(L, L2) ==
  \/ L2 = L
  \/ FindsOne(L, L2) /\ region' = region /\ region \in {"top down", "bottom up"}

LEMMA SearchGoesOn ==
  ASSUME IsGraph(graph), NEW c, NEW L, NEW d, Searching(c), BfsLevel(c, L, d), BfsNext
  PROVE  /\ \E c2, L2, d2 : Searching(c2)' /\ BfsLevel(c2, L2, d2)' /\ StepsOn(L, L2)
         /\ UNCHANGED <<graph, job>> /\ region # "finished"
<1>1. /\ UNCHANGED <<graph, job>> /\ region # "finished" /\ region # "built"
  BY DEF Searching, BfsNext, StartBfs, ChooseDirection, EndTopDown, EndToBitmap, EndBottomUp,
         EndToQueue, AllFlushed, AllDone, TopDown, Visit, ToBitmap, BottomUp, ToQueue, BfsFlush, At
<1>2. CASE ChooseDirection
  <2>1. BfsLevel(c, L, d)' /\ Searching(c)'
    BY <1>2, DirectionIsLeveled, ChoosesDirection
  <2> QED BY <1>1, <2>1 DEF StepsOn
<1>3. CASE EndTopDown
  <2>1. TopDownLevel(c, L, d)
    BY <1>3 DEF EndTopDown, AllFlushed, AllDone, TopDownLevel
  <2>2. BfsLevel(c, L, d + 1)' /\ Searching(c)'
    BY <1>3, <2>1, TopDownEnds, SearchesOn
  <2> QED BY <1>1, <2>2 DEF StepsOn
<1>4. CASE EndToBitmap
  <2>1. ToBitmapLevel(c, L, d)
    BY <1>4 DEF EndToBitmap, AllDone, ToBitmapLevel
  <2>2. BfsLevel(c, L, d)' /\ Searching(c)'
    BY <1>4, <2>1, ToBitmapEnds, EndsToBitmap
  <2> QED BY <1>1, <2>2 DEF StepsOn
<1>5. CASE EndBottomUp
  <2>1. BottomUpLevel(c, L, d)
    BY <1>5 DEF EndBottomUp, AllDone, BottomUpLevel
  <2>2. BfsLevel(c, L, d + 1)' /\ Searching(c)'
    BY <1>5, <2>1, BottomUpEnds, EndsBottomUp
  <2> QED BY <1>1, <2>2 DEF StepsOn
<1>6. CASE EndToQueue
  <2>1. ToQueueLevel(c, L, d)
    BY <1>6 DEF EndToQueue, AllFlushed, AllDone, ToQueueLevel
  <2>2. BfsLevel(c, L, d)' /\ Searching(c)'
    BY <1>6, <2>1, ToQueueEnds, SearchesOn
  <2> QED BY <1>1, <2>2 DEF StepsOn
<1>7. ASSUME NEW t \in Threads, TopDown(t) \/ BottomUp(t)
      PROVE  \E c2, L2, d2 : Searching(c2)' /\ BfsLevel(c2, L2, d2)' /\ StepsOn(L, L2)
  <2>1. Searching(c)'
    BY <1>7, SearchesTopDown, SearchesBottomUp
  <2>2. PICK L2 : /\ BfsLevel(c, L2, d)' /\ (L2 = L \/ FindsOne(L, L2))
                  /\ UNCHANGED region
    BY <1>7, TopDownIsLeveled, BottomUpIsLeveled
  <2>3. region \in {"top down", "bottom up"}
    BY <1>7 DEF TopDown, Visit, BottomUp, At
  <2>4. StepsOn(L, L2)
    BY <2>2, <2>3 DEF StepsOn
  <2> QED BY <2>1, <2>2, <2>4
<1>8. ASSUME NEW t \in Threads, ToBitmap(t) \/ ToQueue(t)
      PROVE  \E c2, L2, d2 : Searching(c2)' /\ BfsLevel(c2, L2, d2)' /\ StepsOn(L, L2)
  <2>1. Searching(c)'
    BY <1>8, FillsBitmap, FillsQueue
  <2>2. BfsLevel(c, L, d)'
    BY <1>8, ToBitmapIsLeveled, ToQueueIsLeveled
  <2> QED BY <2>1, <2>2 DEF StepsOn
<1>9. ASSUME NEW t \in Threads, BfsFlush(t)
      PROVE  \E c2, L2, d2 : Searching(c2)' /\ BfsLevel(c2, L2, d2)' /\ StepsOn(L, L2)
  <2>1. PICK c2 : Searching(c2)' /\ c2 = AfterFlush(c, t)
    BY <1>9, FlushesBuffer
  <2>2. BfsLevel(c2, L, d)'
    BY <1>9, <2>1, BfsFlushIsLeveled
  <2> QED BY <2>1, <2>2 DEF StepsOn
<1> QED BY <1>1, <1>2, <1>3, <1>4, <1>5, <1>6, <1>7, <1>8, <1>9 DEF BfsNext, StartBfs

(* The levels of the state and of the next one are what the parents say.   *)
LEMMA LevelsOfSearch ==
  ASSUME IsGraph(graph), NEW c, NEW L, NEW d, Searching(c), BfsLevel(c, L, d)
  PROVE  LevelByParents = L
<1>1. ByParents(L) /\ parent \in [Vertices(graph) -> Int]
  BY DEF BfsLevel, LevelsSoFar, Searching
<1> QED BY <1>1, LevelsAreByParents

Readable ==
  \A c, L, d : IsGraph(graph) /\ Searching(c) /\ BfsLevel(c, L, d) => LevelByParents = L

LEMMA NoLevels == parent = << >> => LevelByParents = << >>
<1> SUFFICES ASSUME parent = << >> PROVE LevelByParents = << >>
  OBVIOUS
<1>1. DOMAIN parent = {}
  OBVIOUS
<1>2. \E f : LevelByParents = [v \in DOMAIN parent |-> f[v]]
  BY DEF LevelByParents
<1> QED BY <1>1, <1>2

LEMMA SearchSteps ==
  ASSUME BfsLevels, BfsNext, Readable, Readable'
  PROVE  BfsLevels' /\ (BfsSearch!Next \/ UNCHANGED BfsSearch!vars)
<1>1. IsGraph(graph) /\ job.source \in Vertices(graph)
  BY DEF BfsLevels
<1>2. CASE region = "built"
  <2>1. lqueue = NoBuffers
    BY <1>2 DEF BfsLevels, Searching
  <2>2. StartBfs
    BY <1>2 DEF BfsNext, ChooseDirection, EndTopDown, EndToBitmap, EndBottomUp, EndToQueue,
                AllFlushed, AllDone, TopDown, Visit, ToBitmap, BottomUp, ToQueue, BfsFlush, At
  <2>3. PICK L : L = [n \in Vertices(graph) |-> IF n = job.source THEN 0 ELSE -1]
    OBVIOUS
  <2>4. PICK c : c = [i \in 0..0 |-> job.source]
    OBVIOUS
  <2>5. BfsLevel(c, L, 0)' /\ UNCHANGED <<graph, job>> /\ region' = "search"
    BY <1>1, <2>1, <2>2, <2>3, <2>4, SearchBegins
  <2>6. Searching(c)'
    BY <1>1, <2>1, <2>2, <2>4, StartsSearching
  <2>7. BfsLevels'
    BY <1>1, <2>5, <2>6 DEF BfsLevels
  <2>8. LevelByParents' = L
    BY <1>1, <2>5, <2>6 DEF Readable
  <2>9. BfsSearch!Begin
    BY <1>1, <1>2, <2>3, <2>5, <2>8 DEF BfsSearch!Begin
  <2> QED BY <2>7, <2>9 DEF BfsSearch!Next
<1>3. CASE region # "built"
  <2>1. PICK c, L, d : Searching(c) /\ BfsLevel(c, L, d)
    BY <1>3 DEF BfsLevels
  <2>2. /\ \E c2, L2, d2 : Searching(c2)' /\ BfsLevel(c2, L2, d2)' /\ StepsOn(L, L2)
        /\ UNCHANGED <<graph, job>> /\ region # "finished"
    BY <1>1, <2>1, SearchGoesOn
  <2>3. PICK c2, L2, d2 : Searching(c2)' /\ BfsLevel(c2, L2, d2)' /\ StepsOn(L, L2)
    BY <2>2
  <2>4. BfsLevels'
    BY <1>1, <2>2, <2>3 DEF BfsLevels
  <2>5. LevelByParents = L /\ LevelByParents' = L2
    <3>1. LevelByParents = L
      BY <1>1, <2>1 DEF Readable
    <3>2. LevelByParents' = L2
      BY <1>1, <2>2, <2>3 DEF Readable
    <3> QED BY <3>1, <3>2
  <2>6. region' # "built"
    BY <2>3 DEF Searching
  <2>7. CASE FindsOne(L, L2) /\ region' = region
    <3>1. PICK u, v \in Vertices(graph) :
            /\ HasEdge(graph, u, v) /\ L[u] >= 0 /\ L[v] = -1
            /\ \A n \in Vertices(graph) : L[n] \in 0..(L[u] - 1) => Passed(L, n)
            /\ L2 = [L EXCEPT ![v] = L[u] + 1]
      BY <2>7 DEF FindsOne
    <3>2. ASSUME NEW n \in Vertices(graph), Passed(L, n), L[n] >= 0
          PROVE  \A x \in Vertices(graph) : HasEdge(graph, n, x) => L[x] # -1
      BY <3>2 DEF Passed
    <3>3. L[u] # -1
      BY <3>1
    <3>4. \A n \in Vertices(graph) : L[n] \in 0..(L[u] - 1) =>
            \A x \in Vertices(graph) : HasEdge(graph, n, x) => L[x] # -1
      BY <3>1, <3>2
    <3>5. BfsSearch!Discover
      BY <1>3, <2>2, <2>5, <2>7, <3>1, <3>3, <3>4 DEF BfsSearch!Discover, BfsSearch!Settled
    <3> QED BY <2>4, <3>5 DEF BfsSearch!Next
  <2>8. CASE L2 = L /\ region' # "finished"
    <3>1. UNCHANGED BfsSearch!vars
      BY <1>3, <2>2, <2>5, <2>6, <2>8 DEF BfsSearch!vars
    <3> QED BY <2>4, <3>1
  <2>9. CASE L2 = L /\ region' = "finished"
    <3>1. \A n \in Vertices(graph) : L[n] < d2 /\ L[n] >= -1
      BY <2>2, <2>3, <2>9 DEF BfsLevel, LevelsSoFar, ByParents
    <3>2. d2 \in Nat /\ \A n \in Vertices(graph) : L[n] \in 0..(d2 - 1) => Passed(L, n)'
      BY <2>2, <2>3, <2>9 DEF BfsLevel, LevelsSoFar
    <3>3. L \in [Vertices(graph) -> Int]
      BY <2>2, <2>3, <2>9 DEF BfsLevel, LevelsSoFar, ByParents
    <3>4. ASSUME NEW n \in Vertices(graph), L[n] # -1
          PROVE  \A x \in Vertices(graph) : HasEdge(graph, n, x) => L[x] # -1
      <4>1. L[n] \in 0..(d2 - 1)
        BY <3>1, <3>2, <3>3, <3>4
      <4>2. Passed(L, n)'
        BY <3>2, <4>1
      <4> QED BY <2>2, <4>2 DEF Passed
    <3>5. BfsSearch!Complete
      BY <2>5, <3>4 DEF BfsSearch!Complete, BfsSearch!Settled
    <3>6. BfsSearch!End
      BY <1>3, <2>2, <2>5, <2>9, <3>5 DEF BfsSearch!End
    <3> QED BY <2>4, <3>6 DEF BfsSearch!Next
  <2> QED BY <2>3, <2>7, <2>8, <2>9 DEF StepsOn
<1> QED BY <1>2, <1>3

LEMMA AlwaysReadable == Readable
BY LevelsOfSearch DEF Readable

LEMMA BfsLevelsHold == BfsSpec => []BfsLevels
<1>1. BfsStart => BfsLevels
  BY DEF BfsStart, BfsLevels, BfsInit
<1>2. BfsLevels /\ UNCHANGED bfsAll => BfsLevels'
  <2> SUFFICES ASSUME BfsLevels, UNCHANGED bfsAll PROVE BfsLevels'
    OBVIOUS
  <2>1. UNCHANGED <<job, graph, region, todo, doing, queue, lqueue, parent, front, curr>>
    BY DEF bfsAll, loopVars, queueVars, bfsVars
  <2>2. ASSUME NEW c, Searching(c) PROVE Searching(c)'
    <3>1. InRegion(c)'
      BY <2>1, <2>2 DEF Searching, InRegion
    <3> QED BY <2>1, <2>2, <3>1 DEF Searching
  <2>3. ASSUME NEW c, NEW L, NEW d, BfsLevel(c, L, d) PROVE BfsLevel(c, L, d)'
    <3>1. LevelsSoFar(L, d)'
      BY <2>1, <2>3, SameLevels DEF BfsLevel
    <3>2. SearchAt(c, L, d) => SearchAt(c, L, d)'
      BY <2>1 DEF SearchAt, WindowHolds
    <3>3. AboutToPut' = AboutToPut /\ Behind(c)' = Behind(c)
      BY <2>1 DEF AboutToPut, Behind
    <3>4. TopDownAt(c, L, d) => TopDownAt(c, L, d)'
      BY <2>1, <3>3, SameLevels DEF TopDownAt, WindowHolds
    <3>5. ToBitmapAt(c, L, d) => ToBitmapAt(c, L, d)'
      BY <2>1, <3>2 DEF ToBitmapAt
    <3>6. BottomUpAt(L, d) => BottomUpAt(L, d)'
      BY <2>1 DEF BottomUpAt, Ahead, OutOfReach, ChunksApart, Chunks, BitsHold, Stored, Storing
    <3>7. ToQueueAt(c, L, d) => ToQueueAt(c, L, d)'
      BY <2>1, <3>3 DEF ToQueueAt
    <3> QED BY <2>1, <2>3, <3>1, <3>2, <3>4, <3>5, <3>6, <3>7 DEF BfsLevel
  <2>4. CASE region = "built"
    BY <2>1, <2>4 DEF BfsLevels, Searching
  <2> QED BY <2>1, <2>2, <2>3, <2>4 DEF BfsLevels
<1>3. BfsSpec => []Readable
  BY AlwaysReadable, PTL
<1> QED BY <1>1, <1>2, <1>3, SearchSteps, PTL DEF BfsSpec

(* Breadth-first search is a search by levels (bfs.cc:122), whichever      *)
(* direction it looks in and however often it changes it: by the parents   *)
(* it has recorded, a node is found from the lowest level that still has   *)
(* successors to be found, and the search ends with none left.             *)
THEOREM SearchingGoesByLevels == BfsSpec => BfsSearch!Spec
<1>1. BfsStart => BfsSearch!Init
  BY NoLevels DEF BfsStart, BfsInit, BfsSearch!Init, BfsSearch!Graph, BfsSearch!None, Vertices, IsGraph
<1>2. BfsLevels /\ Readable /\ Readable' /\ [BfsNext]_bfsAll => [BfsSearch!Next]_BfsSearch!vars
  <2>1. UNCHANGED bfsAll => UNCHANGED BfsSearch!vars
    BY DEF bfsAll, loopVars, bfsVars, BfsSearch!vars, LevelByParents, Above
  <2> QED BY <2>1, SearchSteps
<1>3. BfsSpec => []Readable
  BY AlwaysReadable, PTL
<1> QED BY <1>1, <1>2, <1>3, BfsLevelsHold, PTL DEF BfsSpec, BfsSearch!Spec

(* When breadth-first search is done, a node is as many parents away from  *)
(* the source as there are edges on a shortest path (bfs.cc:198), and has  *)
(* no parent when there is no path.                                        *)
ParentsAreShortest ==
  region = "finished" =>
    \A v \in Vertices(graph) : LevelByParents[v] = Depth(graph, job.source, v)

THEOREM ParentsBecomeDistances == BfsSpec => []ParentsAreShortest
<1>1. ASSUME BfsLevels PROVE ParentsAreShortest
  <2>1. SUFFICES ASSUME region = "finished"
                 PROVE  \A v \in Vertices(graph) : LevelByParents[v] = Depth(graph, job.source, v)
    BY DEF ParentsAreShortest
  <2>2. PICK c, L, d : Searching(c) /\ BfsLevel(c, L, d)
    BY <1>1, <2>1 DEF BfsLevels
  <2>3. IsGraph(graph) /\ job.source \in Vertices(graph) /\ graph.num_nodes \in Nat
    BY <1>1 DEF BfsLevels, IsGraph
  <2>4. LevelByParents = L
    BY <2>2, <2>3, LevelsOfSearch
  <2>5. /\ ByParents(L) /\ d \in Nat /\ \A n \in Vertices(graph) : L[n] < d
        /\ \A n \in Vertices(graph) : L[n] \in 0..(d - 1) => Passed(L, n)
    BY <2>1, <2>2 DEF BfsLevel, LevelsSoFar
  <2>6. LevelsRise(graph, job.source, L)
    BY <2>5 DEF LevelsRise, ByParents
  <2>7. ASSUME NEW u \in Vertices(graph), NEW v \in Vertices(graph), HasEdge(graph, u, v), L[u] >= 0
        PROVE  L[v] \in 0..(L[u] + 1)
    <3>1. L[u] \in 0..(d - 1)
      BY <2>5, <2>7 DEF ByParents
    <3> QED BY <2>5, <2>7, <3>1 DEF Passed
  <2>8. LevelsFrom(graph, job.source, L)
    BY <2>6, <2>7 DEF LevelsFrom
  <2>9. \A v \in Vertices(graph) : L[v] = Depth(graph, job.source, v)
    BY <2>3, <2>8, LevelsAreDepths
  <2> QED BY <2>4, <2>9
<1> QED BY <1>1, BfsLevelsHold, PTL

=============================================================================
