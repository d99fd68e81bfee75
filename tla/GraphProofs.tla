---------------------------- MODULE GraphProofs ----------------------------
(***************************************************************************)
(* Proofs about the building of graphs, connected components and shortest  *)
(* paths in the GAP suite, on any graph and with any number of threads.    *)
(***************************************************************************)
EXTENDS GraphBuilder, Components, DeltaStepping, FiniteSetTheorems, SequenceTheorems,
        NaturalsInduction, WellFoundedInduction, TLAPS

-----------------------------------------------------------------------------
(* Connected components                                                    *)
(*                                                                         *)
(* Labels never leave their component, and are the components in the end,  *)
(* in both programs.  The first invariant says the same of what every      *)
(* thread holds in its local variables: that is all that the stores of     *)
(* others, at any moment, can take away from it.  The second follows what  *)
(* the pointers have joined: it only grows, though pointers are            *)
(* overwritten all the time.                                               *)

Near(g, u, nbrs) ==
  nbrs \in Seq(Vertices(g)) /\ \A i \in DOMAIN nbrs : SameComponent(g, u, nbrs[i])

LinkSteps == {"p1", "p2", "high", "hook", "climb", "again", "low",
              "comp_u", "comp_v", "is root", "set parent"}

LinkState(g) ==
  [step : LinkSteps, u : Vertices(g), p1 : Vertices(g), p2 : Vertices(g), left : Seq(Vertices(g))]

CompressSteps == {"test", "load", "store"}

CompressState(g) == [step : CompressSteps, n : Vertices(g), label : Vertices(g)]

Linker(g, d) ==
  /\ d \in LinkState(g) /\ d.left # << >> /\ Near(g, d.u, d.left)
  /\ SameComponent(g, d.u, d.p1) /\ SameComponent(g, d.u, d.p2)

Compressor(g, d) ==
  d \in CompressState(g) /\ d.label <= d.n /\ SameComponent(g, d.n, d.label)

Good(g, d) == d = Idle \/ Linker(g, d) \/ Compressor(g, d)

ThreadsGood ==
  /\ doing \in [Threads -> {Idle} \cup LinkState(graph) \cup CompressState(graph)]
  /\ \A t \in Threads : Good(graph, doing[t])

Labels(g) == {c \in [Vertices(g) -> Vertices(g)] :
                \A n \in Vertices(g) : c[n] <= n /\ SameComponent(g, n, c[n])}

CcInv ==
  /\ job \in CcJob /\ IsGraph(graph)
  /\ round \in Nat
  /\ todo \subseteq Vertices(graph)
  /\ ThreadsGood
  /\ \/ region = "built" /\ comp = << >> /\ \A t \in Threads : doing[t] = Idle
     \/ region # "built" /\ comp \in Labels(graph)

-----------------------------------------------------------------------------
(* Being in one component is an equivalence, and edges are inside one.     *)

LEMMA SameIsEquivalence ==
  ASSUME NEW g
  PROVE  /\ \A a : SameComponent(g, a, a)
         /\ \A a, b : SameComponent(g, a, b) => SameComponent(g, b, a)
         /\ \A a, b, c : SameComponent(g, a, b) /\ SameComponent(g, b, c) => SameComponent(g, a, c)
BY DEF SameComponent

LEMMA EdgesStayInside ==
  ASSUME NEW g, NEW u \in Vertices(g), NEW v \in Vertices(g), HasEdge(g, u, v)
  PROVE  SameComponent(g, u, v) /\ SameComponent(g, v, u)
BY DEF SameComponent, ClosedSets

LEMMA IdsOfNeighbours ==
  ASSUME NEW g, NEW nbrs \in Seq(Neighbour(g))
  PROVE  /\ Ids(nbrs) \in Seq(Vertices(g)) /\ DOMAIN Ids(nbrs) = DOMAIN nbrs
         /\ \A i \in DOMAIN nbrs : Ids(nbrs)[i] = nbrs[i].v /\ nbrs[i].v \in Vertices(g)
<1>1. DOMAIN nbrs = 1..Len(nbrs) /\ Len(nbrs) \in Nat
  OBVIOUS
<1>2. ASSUME NEW i \in 1..Len(nbrs)
      PROVE  nbrs[i].v \in Vertices(g)
  <2>1. nbrs[i] \in Neighbour(g)
    OBVIOUS
  <2> QED
    BY <2>1 DEF Neighbour
<1>3. Ids(nbrs) \in [1..Len(nbrs) -> Vertices(g)]
  BY <1>1, <1>2 DEF Ids
<1>4. Ids(nbrs) \in Seq(Vertices(g))
  BY <1>1, <1>3
<1> QED
  BY <1>1, <1>2, <1>4 DEF Ids

LEMMA NeighboursAreNear ==
  ASSUME NEW g, IsGraph(g), NEW u \in Vertices(g)
  PROVE  Near(g, u, out_neigh(g, u)) /\ Near(g, u, in_neigh(g, u))
<1>1. ASSUME NEW nbrs \in Seq(Neighbour(g)),
             \A i \in DOMAIN nbrs : HasEdge(g, u, nbrs[i].v) \/ HasEdge(g, nbrs[i].v, u)
      PROVE  Near(g, u, Ids(nbrs))
  <2>1. ASSUME NEW i \in DOMAIN nbrs
        PROVE  SameComponent(g, u, nbrs[i].v)
    BY <1>1, <2>1, IdsOfNeighbours, EdgesStayInside
  <2> QED
    BY <2>1, IdsOfNeighbours DEF Near
<1>2. g.out[u] \in Seq(Neighbour(g)) /\ g.in[u] \in Seq(Neighbour(g))
  BY DEF IsGraph
<1>3. \A i \in DOMAIN g.out[u] : HasEdge(g, u, g.out[u][i].v)
  BY DEF HasEdge
<1>4. \A i \in DOMAIN g.in[u] : HasEdge(g, g.in[u][i].v, u)
  BY DEF IsGraph
<1> QED
  BY <1>1, <1>2, <1>3, <1>4 DEF out_neigh, in_neigh

LEMMA PartsAreNear ==
  ASSUME NEW g, NEW u, NEW nbrs, Near(g, u, nbrs)
  PROVE  /\ \A k \in Nat : Near(g, u, From(nbrs, k))
         /\ nbrs # << >> => /\ Near(g, u, Tail(nbrs))
                              /\ Near(g, u, <<Head(nbrs)>>)
                              /\ Head(nbrs) \in Vertices(g) /\ SameComponent(g, u, Head(nbrs))
         /\ \A more : Near(g, u, more) => Near(g, u, nbrs \o more)
<1>1. nbrs \in Seq(Vertices(g)) /\ \A i \in 1..Len(nbrs) : SameComponent(g, u, nbrs[i])
  BY DEF Near
<1>2. ASSUME NEW k \in Nat
      PROVE  Near(g, u, From(nbrs, k))
  <2>1. From(nbrs, k) \in Seq(Vertices(g))
    BY <1>1 DEF From
  <2>2. \A i \in 1..Len(From(nbrs, k)) :
          k + i \in 1..Len(nbrs) /\ From(nbrs, k)[i] = nbrs[k + i]
    BY <1>1 DEF From
  <2> QED
    BY <1>1, <2>1, <2>2 DEF Near
<1>3. ASSUME nbrs # << >>
      PROVE  /\ Near(g, u, Tail(nbrs)) /\ Near(g, u, <<Head(nbrs)>>)
             /\ Head(nbrs) \in Vertices(g) /\ SameComponent(g, u, Head(nbrs))
  <2>1. /\ Tail(nbrs) \in Seq(Vertices(g)) /\ Head(nbrs) \in Vertices(g)
        /\ Head(nbrs) = nbrs[1] /\ 1 \in 1..Len(nbrs)
    BY <1>1, <1>3
  <2>2. \A i \in 1..Len(Tail(nbrs)) : i + 1 \in 1..Len(nbrs) /\ Tail(nbrs)[i] = nbrs[i + 1]
    BY <1>1, <1>3
  <2> QED
    BY <1>1, <2>1, <2>2 DEF Near
<1>4. ASSUME NEW more, Near(g, u, more)
      PROVE  Near(g, u, nbrs \o more)
  <2>1. more \in Seq(Vertices(g)) /\ \A i \in 1..Len(more) : SameComponent(g, u, more[i])
    BY <1>4 DEF Near
  <2>2. nbrs \o more \in Seq(Vertices(g))
    BY <1>1, <2>1
  <2>3. ASSUME NEW i \in 1..Len(nbrs \o more)
        PROVE  SameComponent(g, u, (nbrs \o more)[i])
    <3>1. CASE i <= Len(nbrs)
      BY <1>1, <2>1, <3>1
    <3>2. CASE i > Len(nbrs)
      <4>1. i - Len(nbrs) \in 1..Len(more) /\ (nbrs \o more)[i] = more[i - Len(nbrs)]
        BY <1>1, <2>1, <3>2
      <4> QED
        BY <2>1, <4>1
    <3> QED
      BY <1>1, <2>1, <3>1, <3>2
  <2> QED
    BY <2>2, <2>3 DEF Near
<1> QED
  BY <1>2, <1>3, <1>4

-----------------------------------------------------------------------------
(* What threads begin, and go on with, is good.                            *)

LEMMA BeginningIsGood ==
  ASSUME NEW g, NEW u \in Vertices(g), NEW nbrs, Near(g, u, nbrs)
  PROVE  Good(g, LinkEach(u, nbrs)) /\ Good(g, HookEach(u, nbrs))
<1>1. CASE nbrs = << >>
  BY <1>1 DEF LinkEach, HookEach, UnlessDone, Good
<1>2. CASE nbrs # << >>
  <2>1. nbrs \in Seq(Vertices(g))
    BY DEF Near
  <2> QED
    BY <1>2, <2>1, SameIsEquivalence
    DEF LinkEach, HookEach, UnlessDone, Good, Linker, LinkState, LinkSteps
<1> QED
  BY <1>1, <1>2

LEMMA TestingIsGood ==
  ASSUME NEW g, IsGraph(g), NEW n \in Vertices(g)
  PROVE  Good(g, Testing(n))
BY SameIsEquivalence
DEF Testing, Good, Compressor, CompressState, CompressSteps, Vertices, IsGraph

LEMMA LinkersByStep ==
  ASSUME NEW g, NEW d, Good(g, d)
  PROVE  /\ d.step \in LinkSteps => Linker(g, d)
         /\ d.step \in CompressSteps => Compressor(g, d)
<1>1. LinkSteps \cap CompressSteps = {} /\ "idle" \notin LinkSteps \cup CompressSteps
  BY DEF LinkSteps, CompressSteps
<1>2. CASE d = Idle
  BY <1>1, <1>2 DEF Idle
<1>3. CASE Linker(g, d)
  <2>1. d.step \in LinkSteps
    BY <1>3 DEF Linker, LinkState
  <2> QED
    BY <1>1, <1>3, <2>1
<1>4. CASE Compressor(g, d)
  <2>1. d.step \in CompressSteps
    BY <1>4 DEF Compressor, CompressState
  <2> QED
    BY <1>1, <1>4, <2>1
<1> QED
  BY <1>2, <1>3, <1>4 DEF Good

(* A linker that reads p1 or p2 anew is one as long as they stay in its    *)
(* component, and may turn to its next neighbour.                          *)
LEMMA LinkerGoesOn ==
  ASSUME NEW g, NEW d, Linker(g, d), NEW step \in LinkSteps,
         NEW p1 \in Vertices(g), SameComponent(g, d.u, p1),
         NEW p2 \in Vertices(g), SameComponent(g, d.u, p2)
  PROVE  /\ Good(g, [d EXCEPT !.step = step])
         /\ Good(g, [d EXCEPT !.step = step, !.p1 = p1])
         /\ Good(g, [d EXCEPT !.step = step, !.p2 = p2])
         /\ Good(g, [d EXCEPT !.step = step, !.p1 = p1, !.p2 = p2])
         /\ Good(g, LinkEach(d.u, Tail(d.left))) /\ Good(g, HookEach(d.u, Tail(d.left)))
<1>1. /\ d \in LinkState(g) /\ d.left # << >> /\ Near(g, d.u, d.left)
      /\ SameComponent(g, d.u, d.p1) /\ SameComponent(g, d.u, d.p2)
  BY DEF Linker
<1>2. d.u \in Vertices(g)
  BY <1>1 DEF LinkState
<1>3. Good(g, LinkEach(d.u, Tail(d.left))) /\ Good(g, HookEach(d.u, Tail(d.left)))
  BY <1>1, <1>2, PartsAreNear, BeginningIsGood
<1>4. ASSUME NEW a \in Vertices(g), SameComponent(g, d.u, a),
             NEW b \in Vertices(g), SameComponent(g, d.u, b)
      PROVE  Good(g, [d EXCEPT !.step = step, !.p1 = a, !.p2 = b])
  <2> DEFINE e == [d EXCEPT !.step = step, !.p1 = a, !.p2 = b]
  <2>1. /\ e \in LinkState(g) /\ e.left = d.left /\ e.u = d.u /\ e.p1 = a /\ e.p2 = b
    BY <1>1 DEF LinkState
  <2> QED
    BY <1>1, <1>4, <2>1 DEF Good, Linker
<1>5. d.p1 \in Vertices(g) /\ d.p2 \in Vertices(g)
  BY <1>1 DEF LinkState
<1>6. /\ [d EXCEPT !.step = step] = [d EXCEPT !.step = step, !.p1 = d.p1, !.p2 = d.p2]
      /\ [d EXCEPT !.step = step, !.p1 = p1] = [d EXCEPT !.step = step, !.p1 = p1, !.p2 = d.p2]
      /\ [d EXCEPT !.step = step, !.p2 = p2] = [d EXCEPT !.step = step, !.p1 = d.p1, !.p2 = p2]
  BY <1>1 DEF LinkState
<1> QED
  BY <1>1, <1>3, <1>4, <1>5, <1>6

-----------------------------------------------------------------------------
(* Moves of a thread.                                                      *)

LEMMA ThreadMoves ==
  ASSUME ThreadsGood, NEW t \in Threads, NEW next, Good(graph, next),
         doing' = [doing EXCEPT ![t] = next], graph' = graph
  PROVE  ThreadsGood'
<1>1. next \in {Idle} \cup LinkState(graph) \cup CompressState(graph)
  BY DEF Good, Linker, Compressor
<1>2. doing' \in [Threads -> {Idle} \cup LinkState(graph) \cup CompressState(graph)]
  BY <1>1 DEF ThreadsGood
<1>3. \A s \in Threads : Good(graph, doing'[s])
  BY DEF ThreadsGood
<1> QED
  BY <1>2, <1>3 DEF ThreadsGood

LEMMA EntryIsGood ==
  ASSUME NEW r, NEW iterations, Enter(r, iterations), graph' = graph
  PROVE  ThreadsGood'
BY DEF Enter, ThreadsGood, Good

LEMMA HighAndLow ==
  ASSUME NEW g, IsGraph(g), NEW t, Linker(g, doing[t])
  PROVE  /\ High(t) \in Vertices(g) /\ Low(t) \in Vertices(g) /\ Low(t) <= High(t)
         /\ SameComponent(g, doing[t].u, High(t)) /\ SameComponent(g, doing[t].u, Low(t))
         /\ SameComponent(g, High(t), Low(t))
<1>1. /\ doing[t].p1 \in Vertices(g) /\ doing[t].p2 \in Vertices(g)
      /\ SameComponent(g, doing[t].u, doing[t].p1) /\ SameComponent(g, doing[t].u, doing[t].p2)
  BY DEF Linker, LinkState
<1>2. \A n \in Vertices(g) : n \in Int
  BY DEF Vertices, IsGraph
<1>3. \/ High(t) = doing[t].p1 /\ Low(t) = doing[t].p2
      \/ High(t) = doing[t].p2 /\ Low(t) = doing[t].p1
  BY <1>1, <1>2 DEF High, Low, higher, lower
<1>4. Low(t) <= High(t)
  BY <1>1, <1>2 DEF High, Low, higher, lower
<1> QED
  BY <1>1, <1>3, <1>4, SameIsEquivalence

(* Labels of labels are labels.                                            *)
LEMMA Relabelled ==
  ASSUME NEW g, IsGraph(g), NEW c \in Labels(g),
         NEW n \in Vertices(g), NEW m \in Vertices(g), m <= n, SameComponent(g, n, m)
  PROVE  /\ [c EXCEPT ![n] = m] \in Labels(g)
         /\ c[m] \in Vertices(g) /\ c[m] <= n /\ SameComponent(g, n, c[m])
<1>1. c \in [Vertices(g) -> Vertices(g)] /\ \A k \in Vertices(g) : c[k] <= k /\ SameComponent(g, k, c[k])
  BY DEF Labels
<1>2. [c EXCEPT ![n] = m] \in Labels(g)
  BY <1>1 DEF Labels
<1>3. c[m] <= n
  BY <1>1 DEF Vertices, IsGraph
<1> QED
  BY <1>1, <1>2, <1>3, SameIsEquivalence

-----------------------------------------------------------------------------
(* Steps of the programs.                                                  *)

LEMMA MoveKeepsCcInv ==
  ASSUME CcInv, region # "built", NEW t \in Threads, NEW next, Good(graph, next),
         doing' = [doing EXCEPT ![t] = next], todo' \subseteq todo,
         comp' \in Labels(graph), UNCHANGED <<job, graph, region, round>>
  PROVE  CcInv'
BY ThreadMoves DEF CcInv

LEMMA EntryKeepsCcInv ==
  ASSUME CcInv, NEW r, r # "built", NEW iterations \in SUBSET Vertices(graph),
         Enter(r, iterations),
         comp' \in Labels(graph), round' \in Nat, UNCHANGED <<job, graph>>
  PROVE  CcInv'
BY EntryIsGood DEF CcInv, Enter

LEMMA SingletonsAreLabels ==
  ASSUME IsGraph(graph)
  PROVE  Singletons \in Labels(graph)
BY SameIsEquivalence DEF Singletons, Labels, Vertices, IsGraph

LEMMA MainKeepsCcInv ==
  ASSUME CcInv,
         \/ StartAfforest \/ EndSample \/ EndCompress \/ EndRest \/ EndAfforest
         \/ StartShiloachVishkin \/ EndHooking \/ EndFlatten
  PROVE  CcInv'
<1>1. CASE StartAfforest
  BY <1>1, EntryKeepsCcInv, SingletonsAreLabels DEF StartAfforest, CcInv
<1>2. CASE StartShiloachVishkin
  BY <1>2, EntryKeepsCcInv, SingletonsAreLabels DEF StartShiloachVishkin, CcInv
<1>3. CASE EndSample
  BY <1>3, EntryKeepsCcInv DEF EndSample, CcInv, AllDone, ccVars
<1>4. CASE EndCompress
  <2>1. round + 1 \in Nat /\ job.neighbor_rounds \in Nat
    BY DEF CcInv, CcJob
  <2> QED
    BY <1>4, <2>1, EntryKeepsCcInv DEF EndCompress, CcInv, AllDone
<1>5. CASE EndRest
  BY <1>5, EntryKeepsCcInv DEF EndRest, CcInv, AllDone, ccVars
<1>6. CASE EndAfforest
  BY <1>6, EntryKeepsCcInv DEF EndAfforest, CcInv, AllDone, ccVars
<1>7. CASE EndHooking
  BY <1>7, EntryKeepsCcInv DEF EndHooking, CcInv, AllDone, ccVars
<1>8. CASE EndFlatten
  BY <1>8, EntryKeepsCcInv DEF EndFlatten, CcInv, AllDone
<1> QED
  BY <1>1, <1>2, <1>3, <1>4, <1>5, <1>6, <1>7, <1>8

(* A thread that takes a node begins with neighbours of that node.         *)
LEMMA BeginningKeepsCcInv ==
  ASSUME CcInv, NEW t \in Threads,
         \/ SampleEdge(t) \/ LinkRest(t)
         \/ /\ region = "hook"
            /\ \E u \in todo : Take(t, u, HookEach(u, out_neigh(graph, u)))
            /\ UNCHANGED <<job, graph, ccVars>>
         \/ /\ region \in Compressing
            /\ \E n \in todo : Take(t, n, Testing(n))
            /\ UNCHANGED <<job, graph, ccVars>>
  PROVE  CcInv'
<1>1. /\ IsGraph(graph) /\ round \in Nat /\ job.neighbor_rounds \in Nat
      /\ region # "built" => comp \in Labels(graph)
      /\ \A u \in todo : u \in Vertices(graph)
  BY DEF CcInv, CcJob
<1>2. ASSUME NEW u \in todo, NEW next, Good(graph, next), Take(t, u, next),
             region # "built", UNCHANGED <<job, graph, ccVars>>
      PROVE  CcInv'
  BY <1>1, <1>2, MoveKeepsCcInv DEF Take, ccVars
<1>3. ASSUME NEW u \in todo
      PROVE  /\ Good(graph, LinkEach(u, Sampled(u))) /\ Good(graph, LinkEach(u, Rest(u)))
             /\ Good(graph, HookEach(u, out_neigh(graph, u))) /\ Good(graph, Testing(u))
  <2>1. u \in Vertices(graph) /\ Near(graph, u, out_neigh(graph, u)) /\ Near(graph, u, in_neigh(graph, u))
    BY <1>1, NeighboursAreNear
  <2>2. Near(graph, u, << >>)
    BY DEF Near
  <2>3. Near(graph, u, Sampled(u))
    BY <1>1, <2>1, <2>2, PartsAreNear DEF Sampled
  <2>4. Near(graph, u, From(out_neigh(graph, u), job.neighbor_rounds))
    BY <1>1, <2>1, PartsAreNear
  <2>5. Near(graph, u, Rest(u))
    BY <2>1, <2>2, <2>4, PartsAreNear DEF Rest
  <2> QED
    BY <1>1, <2>1, <2>3, <2>5, BeginningIsGood, TestingIsGood
<1>4. CASE SampleEdge(t)
  BY <1>2, <1>3, <1>4 DEF SampleEdge
<1>5. CASE LinkRest(t)
  BY <1>2, <1>3, <1>5 DEF LinkRest
<1>6. ASSUME region = "hook" \/ region \in Compressing,
             UNCHANGED <<job, graph, ccVars>>,
             NEW u \in todo, Take(t, u, HookEach(u, out_neigh(graph, u))) \/ Take(t, u, Testing(u))
      PROVE  CcInv'
  BY <1>2, <1>3, <1>6 DEF Compressing
<1> QED
  BY <1>4, <1>5, <1>6

(* What a linker finds when it reads comp.                                 *)
LEMMA LinkerReads ==
  ASSUME CcInv, region # "built", NEW t \in Threads, doing[t].step \in LinkSteps
  PROVE  /\ IsGraph(graph) /\ comp \in Labels(graph) /\ Linker(graph, doing[t])
         /\ \A n \in {doing[t].u, Head(doing[t].left), doing[t].p1, doing[t].p2, High(t), Low(t)} :
              /\ n \in Vertices(graph) /\ SameComponent(graph, doing[t].u, n)
              /\ comp[n] \in Vertices(graph) /\ SameComponent(graph, doing[t].u, comp[n])
<1>1. IsGraph(graph) /\ comp \in Labels(graph) /\ Linker(graph, doing[t])
  BY LinkersByStep DEF CcInv, ThreadsGood
<1>2. /\ doing[t].u \in Vertices(graph) /\ SameComponent(graph, doing[t].u, doing[t].u)
      /\ doing[t].p1 \in Vertices(graph) /\ SameComponent(graph, doing[t].u, doing[t].p1)
      /\ doing[t].p2 \in Vertices(graph) /\ SameComponent(graph, doing[t].u, doing[t].p2)
  BY <1>1, SameIsEquivalence DEF Linker, LinkState
<1>3. Head(doing[t].left) \in Vertices(graph) /\ SameComponent(graph, doing[t].u, Head(doing[t].left))
  BY <1>1, PartsAreNear DEF Linker
<1>4. ASSUME NEW n \in Vertices(graph), SameComponent(graph, doing[t].u, n)
      PROVE  comp[n] \in Vertices(graph) /\ SameComponent(graph, doing[t].u, comp[n])
  BY <1>1, <1>4, SameIsEquivalence DEF Labels
<1>5. /\ High(t) \in Vertices(graph) /\ SameComponent(graph, doing[t].u, High(t))
      /\ Low(t) \in Vertices(graph) /\ SameComponent(graph, doing[t].u, Low(t))
  BY <1>1, HighAndLow
<1> QED
  BY <1>1, <1>2, <1>3, <1>4, <1>5

LEMMA LinkStepsKeepCcInv ==
  ASSUME CcInv, NEW t \in Threads, LinkRead(t) \/ Hook(t) \/ Climb(t)
  PROVE  CcInv'
<1> DEFINE d == doing[t]
<1>1. /\ region # "built" /\ d.step \in LinkSteps
      /\ UNCHANGED <<job, graph, round, frequent, change>>
  BY DEF LinkRead, Hook, Climb, Linking, LinkSteps, ccVars
<1>2. ASSUME NEW next, Good(graph, next), Proceed(t, next), comp' \in Labels(graph)
      PROVE  CcInv'
  BY <1>1, <1>2, MoveKeepsCcInv DEF Proceed
<1>3. /\ IsGraph(graph) /\ comp \in Labels(graph) /\ Linker(graph, d)
      /\ \A n \in {d.u, Head(d.left), d.p1, d.p2, High(t), Low(t)} :
           /\ n \in Vertices(graph) /\ SameComponent(graph, d.u, n)
           /\ comp[n] \in Vertices(graph) /\ SameComponent(graph, d.u, comp[n])
  BY <1>1, LinkerReads
<1>4. Good(graph, NextLink(t)) /\ \A step \in LinkSteps : Good(graph, [d EXCEPT !.step = step])
  BY <1>3, LinkerGoesOn DEF NextLink, LinkSteps
<1>5. ASSUME NEW p2 \in Vertices(graph), SameComponent(graph, d.u, p2)
      PROVE  Good(graph, Compared(t, p2))
  BY <1>3, <1>4, <1>5, LinkerGoesOn DEF Compared, LinkSteps
<1>6. CASE LinkRead(t)
  <2>1. UNCHANGED comp
    BY <1>6 DEF LinkRead, ccVars
  <2>2. CASE d.step = "p1" /\ Proceed(t, [d EXCEPT !.step = "p2", !.p1 = comp[d.u]])
    BY <1>2, <1>3, <2>1, <2>2, LinkerGoesOn DEF LinkSteps
  <2>3. CASE d.step = "p2" /\ Proceed(t, Compared(t, comp[Head(d.left)]))
    BY <1>2, <1>3, <1>5, <2>1, <2>3
  <2>4. CASE \E step \in {"hook", "climb"} :
               Proceed(t, NextLink(t)) \/ Proceed(t, [d EXCEPT !.step = step])
    BY <1>2, <1>3, <1>4, <2>1, <2>4 DEF LinkSteps
  <2> QED
    BY <1>6, <2>2, <2>3, <2>4 DEF LinkRead
<1>7. CASE Hook(t)
  <2>1. CASE comp' = [comp EXCEPT ![High(t)] = Low(t)] /\ Proceed(t, NextLink(t))
    <3>1. comp' \in Labels(graph)
      BY <1>3, <2>1, HighAndLow, Relabelled
    <3> QED
      BY <1>2, <1>4, <2>1, <3>1
  <2>2. CASE comp' = comp /\ Proceed(t, [d EXCEPT !.step = "climb"])
    BY <1>2, <1>3, <1>4, <2>2 DEF LinkSteps
  <2> QED
    BY <1>7, <2>1, <2>2 DEF Hook
<1>8. CASE Climb(t)
  <2>1. UNCHANGED comp
    BY <1>8 DEF Climb, ccVars
  <2>2. CASE Proceed(t, [d EXCEPT !.step = "again", !.p1 = comp[High(t)], !.p2 = Low(t)])
    BY <1>2, <1>3, <2>1, <2>2, LinkerGoesOn DEF LinkSteps
  <2>3. CASE Proceed(t, [d EXCEPT !.step = "low", !.p1 = comp[d.p1]])
    BY <1>2, <1>3, <2>1, <2>3, LinkerGoesOn DEF LinkSteps
  <2>4. CASE Proceed(t, Compared(t, comp[d.p2]))
    BY <1>2, <1>3, <1>5, <2>1, <2>4
  <2> QED
    BY <1>8, <2>2, <2>3, <2>4 DEF Climb
<1> QED
  BY <1>6, <1>7, <1>8

LEMMA HookEdgesKeepsCcInv ==
  ASSUME CcInv, NEW t \in Threads, HookEdges(t)
  PROVE  CcInv'
<1> DEFINE d == doing[t]
<1>1. region = "hook" /\ region # "built" /\ UNCHANGED <<job, graph, round, frequent>>
  BY DEF HookEdges, At, ccVars
<1>2. CASE /\ \E u \in todo : Take(t, u, HookEach(u, out_neigh(graph, u)))
           /\ UNCHANGED <<job, graph, ccVars>>
  BY <1>1, <1>2, BeginningKeepsCcInv
<1>3. CASE d.step \in {"comp_u", "comp_v", "is root", "set parent"}
  <2>1. /\ IsGraph(graph) /\ comp \in Labels(graph) /\ Linker(graph, d)
        /\ \A n \in {d.u, Head(d.left), d.p1, d.p2, High(t), Low(t)} :
             /\ n \in Vertices(graph) /\ SameComponent(graph, d.u, n)
             /\ comp[n] \in Vertices(graph) /\ SameComponent(graph, d.u, comp[n])
    BY <1>1, <1>3, LinkerReads DEF LinkSteps
  <2>2. ASSUME NEW next, Good(graph, next), Proceed(t, next), comp' \in Labels(graph)
        PROVE  CcInv'
    BY <1>1, <2>2, MoveKeepsCcInv DEF Proceed
  <2>3. Good(graph, NextEdge(t)) /\ \A step \in LinkSteps : Good(graph, [d EXCEPT !.step = step])
    BY <2>1, LinkerGoesOn DEF NextEdge, LinkSteps
  <2>4. CASE comp' = comp /\ Proceed(t, [d EXCEPT !.step = "comp_v", !.p1 = comp[d.u]])
    BY <2>1, <2>2, <2>4, LinkerGoesOn DEF LinkSteps
  <2>5. CASE comp' = comp /\ Proceed(t, [d EXCEPT !.step = "is root", !.p2 = comp[Head(d.left)]])
    BY <2>1, <2>2, <2>5, LinkerGoesOn DEF LinkSteps
  <2>6. CASE comp' = comp /\ Proceed(t, NextEdge(t))
    BY <2>1, <2>2, <2>3, <2>6
  <2>7. CASE comp' = comp /\ Proceed(t, [d EXCEPT !.step = "set parent"])
    BY <2>1, <2>2, <2>3, <2>7 DEF LinkSteps
  <2>8. CASE comp' = [comp EXCEPT ![High(t)] = Low(t)] /\ Proceed(t, NextEdge(t))
    <3>1. comp' \in Labels(graph)
      BY <2>1, <2>8, HighAndLow, Relabelled
    <3> QED
      BY <2>2, <2>3, <2>8, <3>1
  <2>9. Idle.step = "idle"
    BY DEF Idle
  <2>10. d # Idle
    BY <1>3, <2>9
  <2>11. ~(\E u \in todo : Take(t, u, HookEach(u, out_neigh(graph, u))))
    BY <2>10 DEF Take
  <2> QED
    BY <2>4, <2>5, <2>6, <2>7, <2>8, <2>11 DEF HookEdges, At, ccVars
<1> QED
  BY <1>2, <1>3 DEF HookEdges, At

LEMMA CompressKeepsCcInv ==
  ASSUME CcInv, NEW t \in Threads, Compress(t)
  PROVE  CcInv'
<1> DEFINE d == doing[t]
<1>1. region \in Compressing /\ region # "built" /\ UNCHANGED <<job, graph, round, frequent, change>>
  BY DEF Compress, Compressing, ccVars
<1>2. CASE /\ \E n \in todo : Take(t, n, Testing(n))
           /\ UNCHANGED <<job, graph, ccVars>>
  BY <1>1, <1>2, BeginningKeepsCcInv
<1>3. CASE d.step \in CompressSteps
  <2>1. IsGraph(graph) /\ comp \in Labels(graph) /\ Compressor(graph, d)
    BY <1>1, <1>3, LinkersByStep DEF CcInv, ThreadsGood
  <2>2. /\ d \in CompressState(graph) /\ d.n \in Vertices(graph) /\ d.label \in Vertices(graph)
        /\ d.label <= d.n /\ SameComponent(graph, d.n, d.label)
    BY <2>1 DEF Compressor, CompressState
  <2>3. ASSUME NEW next, Good(graph, next), Proceed(t, next), comp' \in Labels(graph)
        PROVE  CcInv'
    BY <1>1, <2>3, MoveKeepsCcInv DEF Proceed
  <2>4. CASE comp' = comp /\ Proceed(t, [d EXCEPT !.step = "load"])
    <3>1. Good(graph, [d EXCEPT !.step = "load"])
      BY <2>2 DEF Good, Compressor, CompressState, CompressSteps
    <3> QED
      BY <2>1, <2>3, <2>4, <3>1
  <2>5. CASE comp' = comp /\ Proceed(t, Idle)
    BY <2>1, <2>3, <2>5 DEF Good
  <2>6. CASE comp' = comp /\ Proceed(t, [d EXCEPT !.step = "store", !.label = comp[comp[d.n]]])
    <3>1. comp[d.n] \in Vertices(graph) /\ comp[d.n] <= d.n /\ SameComponent(graph, d.n, comp[d.n])
      BY <2>1, <2>2 DEF Labels
    <3>2. /\ comp[comp[d.n]] \in Vertices(graph) /\ comp[comp[d.n]] <= d.n
          /\ SameComponent(graph, d.n, comp[comp[d.n]])
      BY <2>1, <2>2, <3>1, Relabelled
    <3>3. Good(graph, [d EXCEPT !.step = "store", !.label = comp[comp[d.n]]])
      BY <2>2, <3>2 DEF Good, Compressor, CompressState, CompressSteps
    <3> QED
      BY <2>1, <2>3, <2>6, <3>3
  <2>7. CASE comp' = [comp EXCEPT ![d.n] = d.label] /\ Proceed(t, Testing(d.n))
    <3>1. comp' \in Labels(graph)
      BY <2>1, <2>2, <2>7, Relabelled
    <3> QED
      BY <2>1, <2>2, <2>3, <2>7, <3>1, TestingIsGood
  <2>8. ~(\E n \in todo : Take(t, n, Testing(n)))
    BY <1>3 DEF Take, Idle, CompressSteps
  <2> QED
    BY <2>4, <2>5, <2>6, <2>7, <2>8 DEF Compress, ccVars
<1> QED
  BY <1>2, <1>3 DEF Compress, CompressSteps

LEMMA CcInvHolds == CcSpec => []CcInv
<1>1. CcStart => CcInv
  BY DEF CcStart, CcInv, CcInit, ThreadsGood, Good
<1>2. CcInv /\ [CcNext]_ccAll => CcInv'
  <2> SUFFICES ASSUME CcInv, [CcNext]_ccAll
               PROVE  CcInv'
    OBVIOUS
  <2>1. ASSUME NEW t \in Threads, SampleEdge(t) \/ LinkRest(t)
        PROVE  CcInv'
    BY <2>1, BeginningKeepsCcInv
  <2>2. ASSUME NEW t \in Threads, LinkRead(t) \/ Hook(t) \/ Climb(t)
        PROVE  CcInv'
    BY <2>2, LinkStepsKeepCcInv
  <2>3. CASE UNCHANGED ccAll
    BY <2>3 DEF ccAll, loopVars, ccVars, CcInv, ThreadsGood
  <2> QED
    BY <2>1, <2>2, <2>3, MainKeepsCcInv, CompressKeepsCcInv, HookEdgesKeepsCcInv DEF CcNext
<1> QED
  BY <1>1, <1>2, PTL DEF CcSpec

(* No label is above the node it labels or in another component than it,   *)
(* in any state of either program: hooks that race, compressions that race *)
(* and stale reads included.                                               *)
THEOREM LabelsNeverLeave == CcSpec => []LabelsStayInside
<1>1. CcInv => LabelsStayInside
  BY DEF CcInv, LabelsStayInside, Labels
<1> QED
  BY <1>1, CcInvHolds, PTL

-----------------------------------------------------------------------------
(* Labels agree in the end.                                                *)
(*                                                                         *)
(* Two nodes are joined when every set that all pointers keep to (a node   *)
(* is in it exactly when its label is) holds both or none of them.         *)

Keeps(c, S)         == \A x \in DOMAIN c : x \in S <=> c[x] \in S
KeepsBelow(c, n, S) == \A x \in DOMAIN c : x < n => (x \in S <=> c[x] \in S)

Joined(c, u, v) == \A S \in SUBSET DOMAIN c : Keeps(c, S) => (u \in S <=> v \in S)

(* Joined by the pointers of nodes below n, which n's is none of.          *)
JoinedBelow(c, n, u, v) ==
  \A S \in SUBSET DOMAIN c : KeepsBelow(c, n, S) => (u \in S <=> v \in S)

LEMMA JoinedIsEquivalence ==
  ASSUME NEW c
  PROVE  /\ \A u : Joined(c, u, u)
         /\ \A u, v : Joined(c, u, v) => Joined(c, v, u)
         /\ \A u, v, w : Joined(c, u, v) /\ Joined(c, v, w) => Joined(c, u, w)
         /\ \A u \in DOMAIN c : Joined(c, u, c[u])
BY DEF Joined, Keeps

(* Hooking a root onto any node joins the two and takes nothing apart.     *)
LEMMA HookingJoins ==
  ASSUME NEW c, NEW high \in DOMAIN c, c[high] = high, NEW low
  PROVE  /\ \A u, v : Joined(c, u, v) => Joined([c EXCEPT ![high] = low], u, v)
         /\ Joined([c EXCEPT ![high] = low], high, low)
<1> DEFINE d == [c EXCEPT ![high] = low]
<1>1. DOMAIN d = DOMAIN c /\ \A x \in DOMAIN c : d[x] = IF x = high THEN low ELSE c[x]
  OBVIOUS
<1>2. \A S : Keeps(d, S) => Keeps(c, S) /\ (high \in S <=> low \in S)
  BY <1>1 DEF Keeps
<1> HIDE DEF d
<1>3. (\A u, v : Joined(c, u, v) => Joined(d, u, v)) /\ Joined(d, high, low)
  BY <1>1, <1>2 DEF Joined
<1> QED
  BY <1>3 DEF d

(* So does giving a node a label that pointers below it join to its own.   *)
LEMMA ShortcutJoins ==
  ASSUME NEW c, DOMAIN c \subseteq Int, NEW n \in DOMAIN c, NEW label,
         JoinedBelow(c, n, c[n], label)
  PROVE  /\ \A u, v : Joined(c, u, v) => Joined([c EXCEPT ![n] = label], u, v)
         /\ \A m \in Int : \A u, v :
              JoinedBelow(c, m, u, v) => JoinedBelow([c EXCEPT ![n] = label], m, u, v)
<1> DEFINE d == [c EXCEPT ![n] = label]
<1>1. /\ DOMAIN d = DOMAIN c /\ n \in Int
      /\ \A x \in DOMAIN c : x \in Int /\ d[x] = IF x = n THEN label ELSE c[x]
  OBVIOUS
<1> HIDE DEF d
<1>2. ASSUME NEW m \in Int, NEW S \in SUBSET DOMAIN c, KeepsBelow(d, m, S)
      PROVE  KeepsBelow(c, m, S)
  <2>1. CASE n < m
    <3>1. KeepsBelow(c, n, S) /\ (n \in S <=> label \in S)
      BY <1>1, <1>2, <2>1 DEF KeepsBelow
    <3>2. c[n] \in S <=> label \in S
      BY <3>1 DEF JoinedBelow
    <3> QED
      BY <1>1, <1>2, <3>1, <3>2 DEF KeepsBelow
  <2>2. CASE ~(n < m)
    BY <1>1, <1>2, <2>2 DEF KeepsBelow
  <2> QED
    BY <2>1, <2>2
<1>3. ASSUME NEW S \in SUBSET DOMAIN c, Keeps(d, S)
      PROVE  Keeps(c, S)
  <2>1. KeepsBelow(d, n, S) /\ (n \in S <=> label \in S)
    BY <1>1, <1>3 DEF Keeps, KeepsBelow
  <2>2. KeepsBelow(c, n, S)
    BY <1>1, <1>2, <2>1
  <2>3. c[n] \in S <=> label \in S
    BY <2>2 DEF JoinedBelow
  <2> QED
    BY <1>1, <1>3, <2>1, <2>3 DEF Keeps
<1>4. /\ \A u, v : Joined(c, u, v) => Joined(d, u, v)
      /\ \A m \in Int : \A u, v : JoinedBelow(c, m, u, v) => JoinedBelow(d, m, u, v)
  BY <1>1, <1>2, <1>3 DEF Joined, JoinedBelow
<1> QED
  BY <1>4 DEF d

(* Where all labels are roots, joined nodes have one label.                *)
LEMMA FlatLabelsAgree ==
  ASSUME NEW c, \A x \in DOMAIN c : c[x] \in DOMAIN c /\ c[c[x]] = c[x],
         NEW u \in DOMAIN c, NEW v \in DOMAIN c, Joined(c, u, v)
  PROVE  c[u] = c[v]
<1> DEFINE S == {x \in DOMAIN c : c[x] = c[u]}
<1>1. Keeps(c, S)
  BY DEF Keeps
<1>2. u \in S <=> v \in S
  BY <1>1 DEF Joined
<1> QED
  BY <1>2

-----------------------------------------------------------------------------
(* The invariant.  What a linker knows: with which of its p1 and p2 its    *)
(* node and its neighbour are joined.                                      *)

Knows(c, d) ==
  /\ d.step = "p2" => Joined(c, d.u, d.p1)
  /\ d.step \in {"high", "hook", "climb", "again", "low"} =>
       \/ Joined(c, d.u, d.p1) /\ Joined(c, Head(d.left), d.p2)
       \/ Joined(c, d.u, d.p2) /\ Joined(c, Head(d.left), d.p1)

(* Some thread has still to link u with v, unless that is done.            *)
WillLink(d, u, v) ==
  d.step \in LinkSteps /\ d.u = u /\ \E i \in DOMAIN d.left : d.left[i] = v

InHand(u, v) == \E t \in Threads : WillLink(doing[t], u, v)

Owed(u, v) == Joined(comp, u, v) \/ InHand(u, v)

(* The neighbours at some of the indices, and the indices sampled so far.  *)
Targets(list, indices) == {list[i].v : i \in DOMAIN list \cap indices}

AllTargets(list) == Targets(list, DOMAIN list)

SampledSoFar == 1..(IF region = "compress" THEN round + 1 ELSE round)

LinkInv ==
  /\ region \in Linking => \A t \in Threads : doing[t].step \in LinkSteps => Knows(comp, doing[t])
  /\ region \in {"sample", "compress", "rest"} =>
       \A u \in Vertices(graph) : \A v \in Targets(graph.out[u], SampledSoFar) : Joined(comp, u, v)
  /\ region = "sample" =>
       \A u \in Vertices(graph) \ todo : \A v \in Targets(graph.out[u], {round + 1}) : Owed(u, v)
  /\ region = "rest" =>
       /\ round = job.neighbor_rounds
       /\ \A u \in Vertices(graph) \ todo :
            \/ Joined(comp, u, frequent)
            \/ /\ \A v \in Targets(graph.out[u], DOMAIN graph.out[u] \ 1..round) : Owed(u, v)
               /\ graph.directed => \A v \in AllTargets(graph.in[u]) : Owed(u, v)

(* A node that is being compressed is no root, and what it will be given   *)
(* is joined with its label by nodes below it, which its store leaves as   *)
(* they are.                                                               *)
FlattenState(d) ==
  /\ d.step \in {"load", "store"} => comp[d.n] < d.n
  /\ d.step = "store" => d.label < d.n /\ JoinedBelow(comp, d.n, comp[d.n], d.label)

Flat(n) == comp[comp[n]] = comp[n]

FlattenInv ==
  region \in Compressing =>
    /\ \A t \in Threads : FlattenState(doing[t])
    /\ \A n \in Vertices(graph) \ todo :
         Flat(n) \/ \E t \in Threads : doing[t].step \in CompressSteps /\ doing[t].n = n

AllFlat == \A n \in Vertices(graph) : Flat(n)

EdgesJoined ==
  \A u \in Vertices(graph) : \A v \in AllTargets(graph.out[u]) : Joined(comp, u, v)

EdgesAgree ==
  \A u \in Vertices(graph) : \A v \in AllTargets(graph.out[u]) : comp[u] = comp[v]

(* While Shiloach-Vishkin has changed nothing, what its threads have read  *)
(* is so still, and the edges they have seen have one label at their ends. *)
HookState(d) ==
  /\ d.step # "set parent"
  /\ d.step \in {"comp_v", "is root"} => d.p1 = comp[d.u]
  /\ d.step = "is root" => d.p2 = comp[Head(d.left)]

HookInv ==
  /\ region = "hook" /\ ~change =>
       /\ AllFlat
       /\ \A t \in Threads : HookState(doing[t])
       /\ \A u \in Vertices(graph) \ todo : \A v \in AllTargets(graph.out[u]) :
            comp[u] = comp[v] \/ InHand(u, v)
  /\ region = "flatten" /\ ~change =>
       /\ AllFlat /\ EdgesAgree
       /\ \A t \in Threads : doing[t].step \notin {"load", "store"}

EndInv ==
  /\ region = "compress last" => EdgesJoined
  /\ region = "finished" => AllFlat /\ EdgesAgree

AgreeInv == LinkInv /\ FlattenInv /\ HookInv /\ EndInv

-----------------------------------------------------------------------------
(* What is in hand stays in hand until it is done.                         *)

LEMMA LinkingGoesOn ==
  ASSUME NEW g, NEW d, Linker(g, d), NEW u, NEW v, WillLink(d, u, v), v # Head(d.left)
  PROVE  /\ WillLink(LinkEach(d.u, Tail(d.left)), u, v)
         /\ WillLink(HookEach(d.u, Tail(d.left)), u, v)
<1>1. d.left \in Seq(Vertices(g)) /\ d.left # << >> /\ d.u = u
  BY DEF Linker, Near, WillLink
<1>2. PICK i \in 1..Len(d.left) : d.left[i] = v
  BY <1>1 DEF WillLink
<1>3. i # 1
  BY <1>1, <1>2
<1>4. i - 1 \in DOMAIN Tail(d.left) /\ Tail(d.left)[i - 1] = v
  BY <1>1, <1>2, <1>3
<1>5. Tail(d.left) # << >>
  BY <1>1, <1>4
<1> QED
  BY <1>1, <1>4, <1>5 DEF WillLink, LinkEach, HookEach, UnlessDone, LinkSteps

LEMMA LinkingBegins ==
  ASSUME NEW S, NEW u, NEW nbrs \in Seq(S), NEW i \in DOMAIN nbrs
  PROVE  WillLink(LinkEach(u, nbrs), u, nbrs[i]) /\ WillLink(HookEach(u, nbrs), u, nbrs[i])
<1>1. nbrs # << >>
  OBVIOUS
<1> QED
  BY <1>1 DEF WillLink, LinkEach, HookEach, UnlessDone, LinkSteps

LEMMA IdleLinksNothing ==
  /\ \A u, v : ~WillLink(Idle, u, v)
  /\ Idle.step \notin LinkSteps \cup CompressSteps
BY DEF WillLink, Idle, LinkSteps, CompressSteps

(* Another thread's move leaves it in hand, and so does its own to a state *)
(* that still has it.                                                      *)
LEMMA InHandMoves ==
  ASSUME ThreadsGood, NEW t \in Threads, NEW next, doing' = [doing EXCEPT ![t] = next],
         NEW u, NEW v
  PROVE  /\ InHand(u, v) => InHand(u, v)' \/ WillLink(doing[t], u, v)
         /\ WillLink(next, u, v) => InHand(u, v)'
<1>1. doing'[t] = next /\ \A s \in Threads : s # t => doing'[s] = doing[s]
  BY DEF ThreadsGood
<1> QED
  BY <1>1 DEF InHand

Grows == \A u, v : Joined(comp, u, v) => Joined(comp', u, v)

(* A move that unties nothing, drops no neighbour that is not yet joined,  *)
(* and knows what it must.                                                 *)
LEMMA MoveKeepsLinkInv ==
  ASSUME ThreadsGood, LinkInv, NEW t \in Threads, NEW next,
         doing' = [doing EXCEPT ![t] = next], Grows,
         UNCHANGED <<job, graph, region, todo, round, frequent>>,
         region \in Linking /\ next.step \in LinkSteps => Knows(comp', next),
         \A u, v : WillLink(doing[t], u, v) => WillLink(next, u, v) \/ Joined(comp', u, v)
  PROVE  LinkInv'
<1>1. \A u, v : Owed(u, v) => Owed(u, v)'
  BY InHandMoves DEF Owed, Grows
<1>2. \A d : Knows(comp, d) => Knows(comp', d)
  BY DEF Knows, Grows
<1>3. doing'[t] = next /\ \A s \in Threads : s # t => doing'[s] = doing[s]
  BY DEF ThreadsGood
<1>4. (region \in Linking =>
         \A s \in Threads : doing[s].step \in LinkSteps => Knows(comp, doing[s]))'
  <2> SUFFICES ASSUME region' \in Linking, NEW s \in Threads, doing'[s].step \in LinkSteps
               PROVE  Knows(comp', doing'[s])
    OBVIOUS
  <2>1. CASE s = t
    BY <1>3, <2>1
  <2>2. CASE s # t
    <3>1. doing'[s] = doing[s] /\ Knows(comp, doing[s])
      BY <1>3, <2>2 DEF LinkInv
    <3> QED
      BY <1>2, <3>1
  <2> QED
    BY <2>1, <2>2
<1>5. (region \in {"sample", "compress", "rest"} =>
         \A u \in Vertices(graph) :
           \A v \in Targets(graph.out[u], SampledSoFar) : Joined(comp, u, v))'
  BY DEF LinkInv, Grows, SampledSoFar
<1>6. (region = "sample" =>
         \A u \in Vertices(graph) \ todo : \A v \in Targets(graph.out[u], {round + 1}) : Owed(u, v))'
  BY <1>1 DEF LinkInv
<1>7. (region = "rest" =>
         /\ round = job.neighbor_rounds
         /\ \A u \in Vertices(graph) \ todo :
              \/ Joined(comp, u, frequent)
              \/ /\ \A v \in Targets(graph.out[u], DOMAIN graph.out[u] \ 1..round) : Owed(u, v)
                 /\ graph.directed => \A v \in AllTargets(graph.in[u]) : Owed(u, v))'
  BY <1>1 DEF LinkInv, Grows
<1> QED
  BY <1>4, <1>5, <1>6, <1>7 DEF LinkInv

(* A linker that goes on with its neighbour keeps all of them in hand; one *)
(* that turns to the next gives up the one that is done.                   *)
LEMMA LinkerKeepsLinkInv ==
  ASSUME CcInv, AgreeInv, region \in Linking, NEW t \in Threads, NEW next,
         Linker(graph, doing[t]), Proceed(t, next), Grows,
         UNCHANGED <<job, graph, round, frequent, change>>,
         \/ next = NextLink(t) /\ Joined(comp', doing[t].u, Head(doing[t].left))
         \/ /\ next.u = doing[t].u /\ next.left = doing[t].left
            /\ next.step \in LinkSteps /\ Knows(comp', next)
  PROVE  AgreeInv'
<1>1. CASE next = NextLink(t) /\ Joined(comp', doing[t].u, Head(doing[t].left))
  <2>1. next.step \in LinkSteps => Knows(comp', next)
    BY <1>1, IdleLinksNothing DEF NextLink, LinkEach, UnlessDone, Knows
  <2>2. ASSUME NEW u, NEW v, WillLink(doing[t], u, v)
        PROVE  WillLink(next, u, v) \/ Joined(comp', u, v)
    <3>1. CASE v = Head(doing[t].left)
      BY <1>1, <2>2, <3>1 DEF WillLink
    <3>2. CASE v # Head(doing[t].left)
      BY <1>1, <2>2, <3>2, LinkingGoesOn DEF NextLink
    <3> QED
      BY <3>1, <3>2
  <2>3. LinkInv'
    BY <2>1, <2>2, MoveKeepsLinkInv DEF CcInv, AgreeInv, Proceed
  <2> QED
    BY <2>3 DEF AgreeInv, FlattenInv, HookInv, EndInv, Proceed, Linking, Compressing
<1>2. CASE /\ next.u = doing[t].u /\ next.left = doing[t].left
           /\ next.step \in LinkSteps /\ Knows(comp', next)
  <2>1. \A u, v : WillLink(doing[t], u, v) => WillLink(next, u, v)
    BY <1>2 DEF WillLink
  <2>2. LinkInv'
    BY <1>2, <2>1, MoveKeepsLinkInv DEF CcInv, AgreeInv, Proceed
  <2> QED
    BY <2>2 DEF AgreeInv, FlattenInv, HookInv, EndInv, Proceed, Linking, Compressing
<1> QED
  BY <1>1, <1>2

LEMMA HighAndLowAre ==
  ASSUME NEW g, IsGraph(g), NEW t, Linker(g, doing[t])
  PROVE  \/ High(t) = doing[t].p1 /\ Low(t) = doing[t].p2
         \/ High(t) = doing[t].p2 /\ Low(t) = doing[t].p1
<1>1. doing[t].p1 \in Int /\ doing[t].p2 \in Int
  BY DEF Linker, LinkState, Vertices, IsGraph
<1> QED
  BY <1>1 DEF High, Low, higher, lower

LEMMA LinkStepsKeepAgreeInv ==
  ASSUME CcInv, AgreeInv, NEW t \in Threads, LinkRead(t) \/ Hook(t) \/ Climb(t)
  PROVE  AgreeInv'
<1> DEFINE d == doing[t]
           head == Head(d.left)
<1>1. /\ region \in Linking /\ region # "built" /\ d.step \in LinkSteps
      /\ UNCHANGED <<job, graph, round, frequent, change>>
  BY DEF LinkRead, Hook, Climb, Linking, LinkSteps, ccVars
<1>2. /\ IsGraph(graph) /\ Linker(graph, d)
      /\ DOMAIN comp = Vertices(graph)
      /\ d.u \in DOMAIN comp /\ head \in DOMAIN comp /\ d.p1 \in DOMAIN comp /\ d.p2 \in DOMAIN comp
      /\ High(t) \in DOMAIN comp /\ Low(t) \in DOMAIN comp
  <2>1. comp \in Labels(graph)
    BY <1>1, LinkerReads
  <2> QED
    BY <1>1, <2>1, LinkerReads DEF Labels
<1>3. d \in [step : LinkSteps, u : Vertices(graph), p1 : Vertices(graph), p2 : Vertices(graph),
             left : Seq(Vertices(graph))]
  BY <1>2 DEF Linker, LinkState
<1>4. \A n \in DOMAIN comp : Joined(comp, n, comp[n])
  BY JoinedIsEquivalence
<1>5. \/ High(t) = d.p1 /\ Low(t) = d.p2
      \/ High(t) = d.p2 /\ Low(t) = d.p1
  BY <1>2, HighAndLowAre
<1>6. Knows(comp, d)
  BY <1>1 DEF AgreeInv, LinkInv
<1> HIDE DEF d, head
<1>7. ASSUME UNCHANGED comp, Proceed(t, NextLink(t)), Joined(comp, d.u, head)
      PROVE  AgreeInv'
  BY <1>1, <1>2, <1>7, LinkerKeepsLinkInv DEF Grows, d, head
<1>8. ASSUME UNCHANGED comp, NEW step \in LinkSteps, NEW p1, NEW p2,
             Proceed(t, [d EXCEPT !.step = step, !.p1 = p1, !.p2 = p2]),
             step = "p2" => Joined(comp, d.u, p1),
             step # "p2" => \/ Joined(comp, d.u, p1) /\ Joined(comp, head, p2)
                            \/ Joined(comp, d.u, p2) /\ Joined(comp, head, p1)
      PROVE  AgreeInv'
  <2> DEFINE next == [d EXCEPT !.step = step, !.p1 = p1, !.p2 = p2]
  <2>1. next.u = d.u /\ next.left = d.left /\ next.step = step /\ next.p1 = p1 /\ next.p2 = p2
    BY <1>3
  <2>2. Knows(comp', next)
    BY <1>8, <2>1 DEF Knows, head
  <2> QED
    BY <1>1, <1>2, <1>8, <2>1, <2>2, LinkerKeepsLinkInv DEF Grows, d
<1>9. \A step, a, b : /\ [d EXCEPT !.step = step, !.p1 = a] = [d EXCEPT !.step = step, !.p1 = a, !.p2 = d.p2]
                      /\ [d EXCEPT !.step = step, !.p2 = b] = [d EXCEPT !.step = step, !.p1 = d.p1, !.p2 = b]
                      /\ [d EXCEPT !.step = step] = [d EXCEPT !.step = step, !.p1 = d.p1, !.p2 = d.p2]
  BY <1>3
<1>10. "p2" \in LinkSteps /\ "high" \in LinkSteps /\ "hook" \in LinkSteps /\ "climb" \in LinkSteps
       /\ "again" \in LinkSteps /\ "low" \in LinkSteps
  BY DEF LinkSteps
<1>11. ASSUME UNCHANGED comp, NEW p2, Proceed(t, Compared(t, p2)),
              \/ Joined(comp, d.u, d.p1) /\ Joined(comp, head, p2)
              \/ Joined(comp, d.u, p2) /\ Joined(comp, head, d.p1)
       PROVE  AgreeInv'
  <2>1. CASE d.p1 = p2
    <3>1. Joined(comp, d.u, head)
      BY <1>11, <2>1, JoinedIsEquivalence
    <3> QED
      BY <1>7, <1>11, <2>1, <3>1 DEF Compared, d
  <2>2. CASE d.p1 # p2
    <3>1. Proceed(t, [d EXCEPT !.step = "high", !.p1 = d.p1, !.p2 = p2])
      BY <1>9, <1>11, <2>2 DEF Compared, d
    <3> QED
      BY <1>8, <1>10, <1>11, <3>1
  <2> QED
    BY <2>1, <2>2
<1>12. CASE LinkRead(t)
  <2>0. UNCHANGED comp
    BY <1>12 DEF LinkRead, ccVars
  <2>1. CASE d.step = "p1" /\ Proceed(t, [d EXCEPT !.step = "p2", !.p1 = comp[d.u]])
    <3>1. Proceed(t, [d EXCEPT !.step = "p2", !.p1 = comp[d.u], !.p2 = d.p2])
      BY <1>9, <2>1
    <3>2. Joined(comp, d.u, comp[d.u])
      BY <1>2, <1>4
    <3> QED
      BY <1>8, <1>10, <2>0, <3>1, <3>2
  <2>2. CASE d.step = "p2" /\ Proceed(t, Compared(t, comp[head]))
    <3>1. Joined(comp, d.u, d.p1)
      BY <1>6, <2>2 DEF Knows
    <3> QED
      BY <1>2, <1>4, <1>11, <2>0, <2>2, <3>1
  <2>3. CASE /\ d.step = "high"
             /\ LET p_high == comp[High(t)]
                IN  Proceed(t,
                      IF p_high = Low(t) THEN NextLink(t)
                      ELSE [d EXCEPT !.step = IF p_high = High(t) THEN "hook" ELSE "climb"])
    <3>1. \/ Joined(comp, d.u, d.p1) /\ Joined(comp, head, d.p2)
          \/ Joined(comp, d.u, d.p2) /\ Joined(comp, head, d.p1)
      BY <1>6, <2>3 DEF Knows, head
    <3>2. CASE comp[High(t)] = Low(t)
      <4>1. Joined(comp, d.p1, d.p2)
        BY <1>2, <1>4, <1>5, <3>2, JoinedIsEquivalence
      <4>2. Joined(comp, d.u, head)
        BY <3>1, <4>1, JoinedIsEquivalence
      <4> QED
        BY <1>7, <2>0, <2>3, <3>2, <4>2
    <3>3. ASSUME NEW step \in {"hook", "climb"}, Proceed(t, [d EXCEPT !.step = step])
          PROVE  AgreeInv'
      <4>1. Proceed(t, [d EXCEPT !.step = step, !.p1 = d.p1, !.p2 = d.p2])
        BY <1>9, <3>3
      <4>2. step \in LinkSteps /\ step # "p2"
        BY <1>10, <3>3
      <4> QED
        BY <1>8, <2>0, <3>1, <4>1, <4>2
    <3> QED
      BY <2>3, <3>2, <3>3
  <2> QED
    BY <1>12, <2>1, <2>2, <2>3 DEF LinkRead, d, head
<1>13. CASE Hook(t)
  <2>1. \/ Joined(comp, d.u, d.p1) /\ Joined(comp, head, d.p2)
        \/ Joined(comp, d.u, d.p2) /\ Joined(comp, head, d.p1)
    BY <1>6, <1>13 DEF Knows, Hook, d, head
  <2>2. CASE /\ comp[High(t)] = High(t) /\ comp' = [comp EXCEPT ![High(t)] = Low(t)]
             /\ Proceed(t, NextLink(t))
    <3>1. Grows /\ Joined(comp', High(t), Low(t))
      BY <1>2, <2>2, HookingJoins DEF Grows
    <3>2. Joined(comp', d.u, head)
      BY <1>5, <2>1, <3>1, JoinedIsEquivalence DEF Grows
    <3> QED
      BY <1>1, <1>2, <2>2, <3>1, <3>2, LinkerKeepsLinkInv DEF d, head
  <2>3. CASE comp' = comp /\ Proceed(t, [d EXCEPT !.step = "climb"])
    <3>1. Proceed(t, [d EXCEPT !.step = "climb", !.p1 = d.p1, !.p2 = d.p2])
      BY <1>9, <2>3
    <3> QED
      BY <1>8, <1>10, <2>1, <2>3, <3>1
  <2> QED
    BY <1>13, <2>2, <2>3 DEF Hook, d
<1>14. CASE Climb(t)
  <2>0. UNCHANGED comp
    BY <1>14 DEF Climb, ccVars
  <2>1. \/ Joined(comp, d.u, d.p1) /\ Joined(comp, head, d.p2)
        \/ Joined(comp, d.u, d.p2) /\ Joined(comp, head, d.p1)
    BY <1>6, <1>14 DEF Knows, Climb, d, head
  <2>2. CASE Proceed(t, [d EXCEPT !.step = "again", !.p1 = comp[High(t)], !.p2 = Low(t)])
    <3>1. Joined(comp, High(t), comp[High(t)])
      BY <1>2, <1>4
    <3>2. \/ Joined(comp, d.u, comp[High(t)]) /\ Joined(comp, head, Low(t))
          \/ Joined(comp, d.u, Low(t)) /\ Joined(comp, head, comp[High(t)])
      BY <1>5, <2>1, <3>1, JoinedIsEquivalence
    <3> QED
      BY <1>8, <1>10, <2>0, <2>2, <3>2
  <2>3. CASE Proceed(t, [d EXCEPT !.step = "low", !.p1 = comp[d.p1]])
    <3>1. Joined(comp, d.p1, comp[d.p1])
      BY <1>2, <1>4
    <3>2. \/ Joined(comp, d.u, comp[d.p1]) /\ Joined(comp, head, d.p2)
          \/ Joined(comp, d.u, d.p2) /\ Joined(comp, head, comp[d.p1])
      BY <2>1, <3>1, JoinedIsEquivalence
    <3>3. Proceed(t, [d EXCEPT !.step = "low", !.p1 = comp[d.p1], !.p2 = d.p2])
      BY <1>9, <2>3
    <3> QED
      BY <1>8, <1>10, <2>0, <3>2, <3>3
  <2>4. CASE Proceed(t, Compared(t, comp[d.p2]))
    <3>1. Joined(comp, d.p2, comp[d.p2])
      BY <1>2, <1>4
    <3>2. \/ Joined(comp, d.u, d.p1) /\ Joined(comp, head, comp[d.p2])
          \/ Joined(comp, d.u, comp[d.p2]) /\ Joined(comp, head, d.p1)
      BY <2>1, <3>1, JoinedIsEquivalence
    <3> QED
      BY <1>11, <2>0, <2>4, <3>2
  <2> QED
    BY <1>14, <2>2, <2>3, <2>4 DEF Climb, d
<1> QED
  BY <1>12, <1>13, <1>14

-----------------------------------------------------------------------------
(* Taking a node puts its neighbours in hand.                              *)

LEMMA TakingKeepsInHand ==
  ASSUME ThreadsGood, NEW t \in Threads, NEW w, NEW next, Take(t, w, next),
         NEW u, NEW v, InHand(u, v) \/ WillLink(next, u, v)
  PROVE  InHand(u, v)'
<1>1. ~WillLink(doing[t], u, v)
  BY IdleLinksNothing DEF Take
<1> QED
  BY <1>1, InHandMoves DEF Take

LEMMA FromKeeps ==
  ASSUME NEW S, NEW nbrs \in Seq(S), NEW k \in Nat, NEW i \in 1..Len(nbrs), i > k
  PROVE  /\ From(nbrs, k) \in Seq(S)
         /\ i - k \in 1..Len(From(nbrs, k)) /\ From(nbrs, k)[i - k] = nbrs[i]
<1>1. From(nbrs, k) \in Seq(S) /\ Len(From(nbrs, k)) = Len(nbrs) - k
  BY DEF From
<1>2. \A j \in 1..Len(From(nbrs, k)) : From(nbrs, k)[j] = nbrs[k + j]
  BY <1>1 DEF From
<1>3. i - k \in 1..(Len(nbrs) - k) /\ k + (i - k) = i
  OBVIOUS
<1> QED
  BY <1>1, <1>2, <1>3

LEMMA BeginningsKnow ==
  ASSUME NEW c, NEW u, NEW nbrs
  PROVE  Knows(c, LinkEach(u, nbrs))
BY DEF Knows, LinkEach, UnlessDone, Idle

LEMMA TakenKnow ==
  ASSUME ThreadsGood, NEW t \in Threads, NEW w, NEW nbrs, Take(t, w, LinkEach(w, nbrs)),
         region \in Linking, LinkInv, UNCHANGED comp
  PROVE  \A s \in Threads : doing'[s].step \in LinkSteps => Knows(comp', doing'[s])
<1>1. ASSUME NEW s \in Threads, doing'[s].step \in LinkSteps
      PROVE  Knows(comp, doing'[s])
  <2>1. CASE s = t
    <3>1. doing'[s] = LinkEach(w, nbrs)
      BY <2>1 DEF Take, ThreadsGood
    <3> QED
      BY <3>1, BeginningsKnow
  <2>2. CASE s # t
    <3>1. doing'[s] = doing[s]
      BY <2>2 DEF Take, ThreadsGood
    <3> QED
      BY <1>1, <3>1 DEF LinkInv
  <2> QED
    BY <2>1, <2>2
<1> QED
  BY <1>1

LEMMA SampleEdgeKeepsAgreeInv ==
  ASSUME CcInv, AgreeInv, NEW t \in Threads, SampleEdge(t)
  PROVE  AgreeInv'
<1>1. PICK w \in todo : Take(t, w, LinkEach(w, Sampled(w)))
  BY DEF SampleEdge
<1>2. /\ region = "sample" /\ UNCHANGED <<job, graph, comp, round, frequent, change, region>>
      /\ ThreadsGood /\ IsGraph(graph) /\ round \in Nat /\ w \in Vertices(graph)
      /\ todo' = todo \ {w}
  BY <1>1 DEF SampleEdge, ccVars, CcInv, Take
<1>3. \A u, v : Owed(u, v) => Owed(u, v)'
  BY <1>1, <1>2, TakingKeepsInHand DEF Owed
<1>4. ASSUME NEW v \in Targets(graph.out[w], {round + 1})
      PROVE  Owed(w, v)'
  <2> DEFINE list == graph.out[w]
             near == out_neigh(graph, w)
  <2>1. /\ list \in Seq(Neighbour(graph)) /\ round + 1 \in 1..Len(list) /\ v = list[round + 1].v
    BY <1>2, <1>4 DEF Targets, IsGraph
  <2>2. near \in Seq(Vertices(graph)) /\ Len(near) = Len(list) /\ near[round + 1] = v
    BY <2>1, IdsOfNeighbours DEF out_neigh
  <2> HIDE DEF near, list
  <2>3. /\ From(near, round) # << >> /\ Head(From(near, round)) = v /\ v \in Vertices(graph)
    <3>1. round + 1 \in 1..Len(near) /\ round + 1 > round /\ (round + 1) - round = 1
      BY <1>2, <2>1, <2>2
    <3>2. 1 \in 1..Len(From(near, round)) /\ From(near, round)[1] = v
          /\ From(near, round) \in Seq(Vertices(graph))
      BY <1>2, <2>2, <3>1, FromKeeps
    <3> QED
      BY <3>2
  <2>4. Sampled(w) = <<v>>
    BY <2>3 DEF Sampled, near
  <2>5. <<v>> \in Seq(Vertices(graph)) /\ 1 \in DOMAIN <<v>> /\ <<v>>[1] = v
    BY <2>3
  <2>6. WillLink(LinkEach(w, Sampled(w)), w, v)
    BY <2>4, <2>5, LinkingBegins
  <2> QED
    BY <1>1, <1>2, <2>6, TakingKeepsInHand DEF Owed
<1>5. LinkInv'
  <2>1. \A u \in Vertices(graph) \ todo' : \A v \in Targets(graph.out[u], {round + 1}) : Owed(u, v)'
    BY <1>2, <1>3, <1>4 DEF AgreeInv, LinkInv
  <2>2. \A s \in Threads : doing'[s].step \in LinkSteps => Knows(comp', doing'[s])
    BY <1>1, <1>2, TakenKnow DEF AgreeInv, Linking
  <2> QED
    BY <1>2, <2>1, <2>2 DEF AgreeInv, LinkInv, SampledSoFar
<1> QED
  BY <1>2, <1>5 DEF AgreeInv, FlattenInv, HookInv, EndInv, Compressing

LEMMA LinkRestKeepsAgreeInv ==
  ASSUME CcInv, AgreeInv, NEW t \in Threads, LinkRest(t)
  PROVE  AgreeInv'
<1>1. PICK w \in todo : Take(t, w, LinkEach(w, Rest(w)))
  BY DEF LinkRest
<1>2. /\ region = "rest" /\ UNCHANGED <<job, graph, comp, round, frequent, change, region>>
      /\ ThreadsGood /\ IsGraph(graph) /\ round \in Nat /\ w \in Vertices(graph)
      /\ comp \in Labels(graph)
      /\ todo' = todo \ {w} /\ round = job.neighbor_rounds
  BY <1>1 DEF LinkRest, ccVars, CcInv, Take, AgreeInv, LinkInv
<1>3. \A u, v : Owed(u, v) => Owed(u, v)'
  BY <1>1, <1>2, TakingKeepsInHand DEF Owed
<1>4. ASSUME comp[w] # frequent
      PROVE  /\ \A v \in Targets(graph.out[w], DOMAIN graph.out[w] \ 1..round) : Owed(w, v)'
             /\ graph.directed => \A v \in AllTargets(graph.in[w]) : Owed(w, v)'
  <2> DEFINE outs == out_neigh(graph, w)
             ins  == in_neigh(graph, w)
             tail == From(outs, round)
             more == IF graph.directed THEN ins ELSE << >>
  <2>1. /\ graph.out[w] \in Seq(Neighbour(graph)) /\ graph.in[w] \in Seq(Neighbour(graph))
    BY <1>2 DEF IsGraph
  <2>2. /\ outs \in Seq(Vertices(graph)) /\ DOMAIN outs = DOMAIN graph.out[w]
        /\ \A i \in DOMAIN outs : outs[i] = graph.out[w][i].v
        /\ ins \in Seq(Vertices(graph)) /\ DOMAIN ins = DOMAIN graph.in[w]
        /\ \A i \in DOMAIN ins : ins[i] = graph.in[w][i].v
    BY <2>1, IdsOfNeighbours DEF out_neigh, in_neigh
  <2>3. Rest(w) = tail \o more
    BY <1>2, <1>4 DEF Rest
  <2> HIDE DEF outs, ins
  <2>4. /\ tail \in Seq(Vertices(graph)) /\ more \in Seq(Vertices(graph))
    BY <1>2, <2>2 DEF From
  <2>5. ASSUME NEW v, \E i \in DOMAIN (tail \o more) : (tail \o more)[i] = v
        PROVE  Owed(w, v)'
    <3>1. tail \o more \in Seq(Vertices(graph))
      BY <2>4
    <3>2. WillLink(LinkEach(w, Rest(w)), w, v)
      BY <2>3, <2>5, <3>1, LinkingBegins
    <3> QED
      BY <1>1, <1>2, <3>2, TakingKeepsInHand DEF Owed
  <2>6. ASSUME NEW v \in Targets(graph.out[w], DOMAIN graph.out[w] \ 1..round)
        PROVE  Owed(w, v)'
    <3>1. PICK i \in DOMAIN outs : i \notin 1..round /\ v = outs[i]
      BY <2>2, <2>6 DEF Targets
    <3>2. i \in 1..Len(outs) /\ i > round
      BY <1>2, <2>2, <3>1
    <3>3. i - round \in 1..Len(tail) /\ tail[i - round] = v
      <4>1. outs \in Seq(Vertices(graph)) /\ round \in Nat
        BY <1>2, <2>2
      <4>2. i - round \in 1..Len(From(outs, round)) /\ From(outs, round)[i - round] = outs[i]
        BY <3>2, <4>1, FromKeeps
      <4> QED
        BY <3>1, <4>2
    <3> HIDE DEF tail, more
    <3>4. i - round \in 1..Len(tail \o more) /\ (tail \o more)[i - round] = v
      BY <2>4, <3>3
    <3> QED
      BY <2>4, <2>5, <3>4
  <2>7. ASSUME graph.directed, NEW v \in AllTargets(graph.in[w])
        PROVE  Owed(w, v)'
    <3>1. PICK i \in DOMAIN ins : v = ins[i]
      BY <2>2, <2>7 DEF Targets, AllTargets
    <3>2. more = ins /\ i \in 1..Len(more)
      BY <2>2, <2>7, <3>1
    <3>3. tail \in Seq(Vertices(graph)) /\ Len(tail) \in Nat
      BY <2>4
    <3> HIDE DEF tail, more
    <3>4. Len(tail) + i \in 1..Len(tail \o more) /\ (tail \o more)[Len(tail) + i] = v
      BY <2>4, <3>1, <3>2, <3>3
    <3> QED
      BY <2>4, <2>5, <3>4
  <2> QED
    BY <2>6, <2>7
<1>5. LinkInv'
  <2>1. \A u \in Vertices(graph) \ todo' :
          \/ Joined(comp, u, frequent)
          \/ /\ \A v \in Targets(graph.out[u], DOMAIN graph.out[u] \ 1..round) : Owed(u, v)'
             /\ graph.directed => \A v \in AllTargets(graph.in[u]) : Owed(u, v)'
    <3> SUFFICES ASSUME NEW u \in Vertices(graph) \ todo'
                 PROVE  \/ Joined(comp, u, frequent)
                        \/ /\ \A v \in Targets(graph.out[u], DOMAIN graph.out[u] \ 1..round) : Owed(u, v)'
                           /\ graph.directed => \A v \in AllTargets(graph.in[u]) : Owed(u, v)'
      OBVIOUS
    <3>1. CASE u = w
      <4>1. CASE comp[w] = frequent
        <5>1. w \in DOMAIN comp
          BY <1>2 DEF Labels
        <5> QED
          BY <3>1, <4>1, <5>1, JoinedIsEquivalence
      <4> QED
        BY <1>4, <3>1, <4>1
    <3>2. CASE u # w
      BY <1>2, <1>3, <3>2 DEF AgreeInv, LinkInv
    <3> QED
      BY <3>1, <3>2
  <2>2. \A s \in Threads : doing'[s].step \in LinkSteps => Knows(comp', doing'[s])
    BY <1>1, <1>2, TakenKnow DEF AgreeInv, Linking
  <2> QED
    BY <1>2, <2>1, <2>2 DEF AgreeInv, LinkInv, SampledSoFar
<1> QED
  BY <1>2, <1>5 DEF AgreeInv, FlattenInv, HookInv, EndInv, Compressing

-----------------------------------------------------------------------------
(* Compressing.                                                            *)

LEMMA CompressorReads ==
  ASSUME CcInv, AgreeInv, region \in Compressing, NEW t \in Threads,
         doing[t].step \in CompressSteps
  PROVE  LET d == doing[t]
         IN  /\ comp \in [Vertices(graph) -> Vertices(graph)] /\ Vertices(graph) \subseteq Int
             /\ \A n \in Vertices(graph) : comp[n] <= n
             /\ d.n \in Vertices(graph) /\ d.label \in Vertices(graph)
             /\ d \in CompressState(graph) /\ FlattenState(d)
<1>1. region # "built" /\ Compressor(graph, doing[t]) /\ FlattenState(doing[t])
  BY LinkersByStep DEF CcInv, ThreadsGood, AgreeInv, FlattenInv, Compressing
<1>2. comp \in Labels(graph) /\ IsGraph(graph)
  BY <1>1 DEF CcInv
<1>3. /\ comp \in [Vertices(graph) -> Vertices(graph)] /\ Vertices(graph) \subseteq Int
      /\ \A n \in Vertices(graph) : comp[n] <= n
  BY <1>2 DEF Labels, Vertices, IsGraph
<1>4. /\ doing[t] \in CompressState(graph)
      /\ doing[t].n \in Vertices(graph) /\ doing[t].label \in Vertices(graph)
  BY <1>1 DEF Compressor, CompressState
<1> QED
  BY <1>1, <1>3, <1>4

(* A step that stores nothing, and frees its node only when it is flat.    *)
LEMMA CompressorMovesOn ==
  ASSUME CcInv, AgreeInv, region \in Compressing, NEW t \in Threads, NEW next,
         doing' = [doing EXCEPT ![t] = next], doing[t].step \in CompressSteps,
         UNCHANGED <<job, graph, region, todo, ccVars>>,
         FlattenState(next), next.step \notin LinkSteps,
         region = "flatten" /\ ~change => next.step \notin {"load", "store"},
         \/ next.step \in CompressSteps /\ next.n = doing[t].n
         \/ Flat(doing[t].n)
  PROVE  AgreeInv'
<1>1. doing'[t] = next /\ \A s \in Threads : s # t => doing'[s] = doing[s]
  BY DEF CcInv, ThreadsGood
<1>2. \A d : ~(d.step \in LinkSteps /\ d.step \in CompressSteps)
  BY DEF LinkSteps, CompressSteps
<1>3. UNCHANGED <<comp, round, frequent, change>> /\ region \notin Linking
  BY DEF ccVars, Compressing, Linking
<1>4. LinkInv'
  BY <1>3 DEF AgreeInv, LinkInv, SampledSoFar, Compressing
<1>5. FlattenInv'
  <2>1. ASSUME NEW s \in Threads
        PROVE  FlattenState(doing'[s])
    <3>1. CASE s = t
      BY <1>1, <3>1
    <3>2. CASE s # t
      BY <1>1, <3>2 DEF AgreeInv, FlattenInv
    <3> QED
      BY <3>1, <3>2
  <2>2. ASSUME NEW n \in Vertices(graph) \ todo
        PROVE  Flat(n) \/ \E s \in Threads : doing'[s].step \in CompressSteps /\ doing'[s].n = n
    <3>1. CASE Flat(n)
      BY <3>1
    <3>2. ASSUME NEW s \in Threads, doing[s].step \in CompressSteps, doing[s].n = n, ~Flat(n)
          PROVE  \E r \in Threads : doing'[r].step \in CompressSteps /\ doing'[r].n = n
      BY <1>1, <3>2
    <3> QED
      BY <3>1, <3>2 DEF AgreeInv, FlattenInv
  <2>3. (\A s \in Threads : FlattenState(doing[s]))'
    BY <1>3, <2>1 DEF FlattenState
  <2> QED
    BY <1>3, <2>2, <2>3 DEF FlattenInv, Flat
<1>6. HookInv'
  <2>1. ASSUME region = "flatten", ~change, NEW s \in Threads
        PROVE  doing'[s].step \notin {"load", "store"}
    <3>1. CASE s = t
      BY <1>1, <2>1, <3>1
    <3>2. CASE s # t
      BY <1>1, <2>1, <3>2 DEF AgreeInv, HookInv
    <3> QED
      BY <3>1, <3>2
  <2>2. region # "hook" /\ AllFlat' = AllFlat /\ EdgesAgree' = EdgesAgree
    BY <1>3 DEF Compressing, AllFlat, Flat, EdgesAgree
  <2> QED
    BY <1>3, <2>1, <2>2 DEF AgreeInv, HookInv
<1>7. EndInv'
  BY <1>3 DEF AgreeInv, EndInv, EdgesJoined, AllFlat, EdgesAgree, Flat
<1> QED
  BY <1>4, <1>5, <1>6, <1>7 DEF AgreeInv

LEMMA LoadKeepsAgreeInv ==
  ASSUME CcInv, AgreeInv, NEW t \in Threads, Compress(t), doing[t].step \in {"test", "load"}
  PROVE  AgreeInv'
<1> DEFINE d == doing[t]
<1>1. /\ region \in Compressing /\ d.step \in CompressSteps
      /\ UNCHANGED <<job, graph, region, todo, ccVars>>
  <2>1. ~(\E n \in todo : Take(t, n, Testing(n)))
    BY DEF Take, Idle
  <2> QED
    BY <2>1 DEF Compress, CompressSteps, Proceed
<1>2. /\ comp \in [Vertices(graph) -> Vertices(graph)] /\ Vertices(graph) \subseteq Int
      /\ \A n \in Vertices(graph) : comp[n] <= n
      /\ d.n \in Vertices(graph) /\ d.label \in Vertices(graph)
      /\ d \in CompressState(graph) /\ FlattenState(d)
  BY <1>1, CompressorReads
<1>3. comp[d.n] \in Vertices(graph) /\ comp[comp[d.n]] \in Vertices(graph)
      /\ d.n \in Int /\ comp[d.n] \in Int /\ comp[comp[d.n]] \in Int
  BY <1>2
<1>4. CASE d.step = "test" /\ comp[d.n] # comp[comp[d.n]]
  <2>1. Proceed(t, [d EXCEPT !.step = "load"])
    BY <1>4 DEF Compress, Take, Idle
  <2> DEFINE next == [d EXCEPT !.step = "load"]
  <2>2. next.step = "load" /\ next.n = d.n
    BY <1>2 DEF CompressState
  <2> HIDE DEF next
  <2>3. comp[d.n] < d.n
    BY <1>2, <1>3, <1>4
  <2>4. FlattenState(next) /\ next.step \notin LinkSteps /\ next.step \in CompressSteps
    BY <2>2, <2>3 DEF FlattenState, LinkSteps, CompressSteps
  <2>5. ~(region = "flatten" /\ ~change)
    BY <1>2, <1>4 DEF AgreeInv, HookInv, AllFlat, Flat
  <2> QED
    BY <1>1, <2>1, <2>2, <2>4, <2>5, CompressorMovesOn DEF Proceed, next
<1>5. CASE d.step = "test" /\ comp[d.n] = comp[comp[d.n]]
  <2>1. Proceed(t, Idle) /\ Flat(d.n)
    BY <1>5 DEF Compress, Take, Idle, Flat
  <2>2. FlattenState(Idle) /\ Idle.step \notin LinkSteps /\ Idle.step \notin {"load", "store"}
    BY DEF FlattenState, Idle, LinkSteps
  <2> QED
    BY <1>1, <2>1, <2>2, CompressorMovesOn DEF Proceed
<1>6. CASE d.step = "load"
  <2>1. Proceed(t, [d EXCEPT !.step = "store", !.label = comp[comp[d.n]]])
    BY <1>6 DEF Compress, Take, Idle
  <2> DEFINE next == [d EXCEPT !.step = "store", !.label = comp[comp[d.n]]]
  <2>2. next.step = "store" /\ next.n = d.n /\ next.label = comp[comp[d.n]]
    BY <1>2 DEF CompressState
  <2> HIDE DEF next
  <2>3. comp[d.n] < d.n /\ comp[comp[d.n]] <= comp[d.n]
    BY <1>2, <1>3, <1>6 DEF FlattenState
  <2>4. JoinedBelow(comp, d.n, comp[d.n], comp[comp[d.n]])
    BY <1>2, <1>3, <2>3 DEF JoinedBelow, KeepsBelow
  <2>5. /\ FlattenState(next) /\ next.step \notin LinkSteps /\ next.step \in CompressSteps
    BY <1>3, <2>2, <2>3, <2>4 DEF FlattenState, LinkSteps, CompressSteps
  <2>6. region = "flatten" => change
    BY <1>6 DEF AgreeInv, HookInv
  <2> QED
    BY <1>1, <2>1, <2>2, <2>5, <2>6, CompressorMovesOn DEF Proceed, next
<1> QED
  BY <1>4, <1>5, <1>6

LEMMA StoreKeepsAgreeInv ==
  ASSUME CcInv, AgreeInv, NEW t \in Threads, Compress(t), doing[t].step = "store"
  PROVE  AgreeInv'
<1> DEFINE d == doing[t]
<1>1. /\ region \in Compressing /\ d.step \in CompressSteps
      /\ comp' = [comp EXCEPT ![d.n] = d.label] /\ doing' = [doing EXCEPT ![t] = Testing(d.n)]
      /\ UNCHANGED <<job, graph, region, todo, round, frequent, change>>
  <2>1. ~(\E n \in todo : Take(t, n, Testing(n)))
    BY DEF Take, Idle
  <2> QED
    BY <2>1 DEF Compress, CompressSteps, Proceed
<1>2. /\ comp \in [Vertices(graph) -> Vertices(graph)] /\ Vertices(graph) \subseteq Int
      /\ \A n \in Vertices(graph) : comp[n] <= n
      /\ d.n \in Vertices(graph) /\ d.label \in Vertices(graph)
      /\ FlattenState(d)
  BY <1>1, CompressorReads
<1>3. /\ comp[d.n] < d.n /\ d.label < d.n /\ JoinedBelow(comp, d.n, comp[d.n], d.label)
  BY <1>2 DEF FlattenState
<1>4. /\ Grows
      /\ \A m \in Int : \A u, v : JoinedBelow(comp, m, u, v) => JoinedBelow(comp', m, u, v)
  BY <1>1, <1>2, <1>3, ShortcutJoins DEF Grows
<1>5. /\ comp'[d.n] = d.label
      /\ \A n \in Vertices(graph) : n # d.n => comp'[n] = comp[n]
  BY <1>1, <1>2
<1>6. doing'[t] = Testing(d.n) /\ \A s \in Threads : s # t => doing'[s] = doing[s]
  BY <1>1 DEF CcInv, ThreadsGood
<1> HIDE DEF d
<1>7. region \notin Linking /\ region # "built"
  BY <1>1 DEF Compressing, Linking
<1>8. LinkInv'
  BY <1>1, <1>4, <1>7 DEF AgreeInv, LinkInv, SampledSoFar, Grows, Compressing
<1>9. ASSUME NEW s \in Threads
      PROVE  FlattenState(doing[s])'
  <2>1. CASE s = t
    BY <1>6, <2>1 DEF FlattenState, Testing
  <2>2. CASE s # t /\ doing[s].step \in {"load", "store"}
    <3> DEFINE e == doing[s]
    <3>1. e.n \in Vertices(graph) /\ e.n \in Int /\ FlattenState(e)
      BY <1>1, <2>2, CompressorReads DEF CompressSteps
    <3>2. doing'[s] = e
      BY <1>6, <2>2
    <3>3. e.step \in {"load", "store"} => comp[e.n] < e.n
      BY <3>1 DEF FlattenState
    <3>4. e.step = "store" => e.label < e.n /\ JoinedBelow(comp, e.n, comp[e.n], e.label)
      BY <3>1 DEF FlattenState
    <3> HIDE DEF e
    <3>5. e.step \in {"load", "store"} => comp'[e.n] < e.n
      BY <1>3, <1>5, <3>1, <3>3
    <3>6. e.step = "store" => JoinedBelow(comp', e.n, comp[e.n], e.label)
      BY <1>4, <3>1, <3>4
    <3>7. e.step = "store" => JoinedBelow(comp', e.n, comp'[e.n], e.label)
      <4>1. CASE e.n = d.n
        <5>1. JoinedBelow(comp', d.n, comp[d.n], d.label)
          BY <1>3, <1>4, <3>1, <4>1
        <5> QED
          BY <1>5, <3>6, <4>1, <5>1 DEF JoinedBelow
      <4>2. CASE e.n # d.n
        BY <1>5, <3>1, <3>6, <4>2
      <4> QED
        BY <4>1, <4>2
    <3> QED
      BY <3>2, <3>4, <3>5, <3>7 DEF FlattenState
  <2>3. CASE s # t /\ doing[s].step \notin {"load", "store"}
    BY <1>6, <2>3 DEF FlattenState
  <2> QED
    BY <2>1, <2>2, <2>3
<1>10. ASSUME NEW n \in Vertices(graph) \ todo
       PROVE  Flat(n)' \/ \E s \in Threads : doing'[s].step \in CompressSteps /\ doing'[s].n = n
  <2>1. CASE n = d.n
    BY <1>6, <2>1 DEF Testing, CompressSteps
  <2>2. CASE n # d.n /\ Flat(n)
    <3>1. comp[n] # d.n
      BY <1>2, <1>3, <2>2 DEF Flat
    <3> QED
      BY <1>2, <1>5, <2>2, <3>1 DEF Flat
  <2>3. ASSUME NEW s \in Threads, doing[s].step \in CompressSteps, doing[s].n = n, n # d.n
        PROVE  doing'[s].step \in CompressSteps /\ doing'[s].n = n
    <3>1. s # t
      BY <2>3 DEF d
    <3> QED
      BY <1>6, <2>3, <3>1
  <2> QED
    BY <1>1, <2>1, <2>2, <2>3 DEF AgreeInv, FlattenInv
<1>11. FlattenInv'
  BY <1>1, <1>9, <1>10 DEF FlattenInv
<1>12. HookInv'
  BY <1>1 DEF AgreeInv, HookInv, Compressing
<1>13. EndInv'
  BY <1>1, <1>4 DEF AgreeInv, EndInv, EdgesJoined, Grows, Compressing
<1> QED
  BY <1>8, <1>11, <1>12, <1>13 DEF AgreeInv

LEMMA CompressKeepsAgreeInv ==
  ASSUME CcInv, AgreeInv, NEW t \in Threads, Compress(t)
  PROVE  AgreeInv'
<1>1. ASSUME region \in Compressing, NEW n \in todo, Take(t, n, Testing(n)),
             UNCHANGED <<job, graph, ccVars>>
      PROVE  AgreeInv'
  <2>1. /\ doing'[t] = Testing(n) /\ \A s \in Threads : s # t => doing'[s] = doing[s]
        /\ doing[t] = Idle /\ todo' = todo \ {n}
        /\ UNCHANGED <<comp, round, frequent, change, region>> /\ region \notin Linking
    BY <1>1 DEF CcInv, ThreadsGood, Take, ccVars, Compressing, Linking
  <2>2. LinkInv'
    BY <1>1, <2>1 DEF AgreeInv, LinkInv, SampledSoFar, Compressing
  <2>3. ASSUME NEW s \in Threads
        PROVE  FlattenState(doing'[s])
    <3>1. CASE s = t
      BY <2>1, <3>1 DEF FlattenState, Testing
    <3>2. CASE s # t
      BY <1>1, <2>1, <3>2 DEF AgreeInv, FlattenInv
    <3> QED
      BY <3>1, <3>2
  <2>4. ASSUME NEW m \in Vertices(graph) \ todo'
        PROVE  Flat(m) \/ \E s \in Threads : doing'[s].step \in CompressSteps /\ doing'[s].n = m
    <3>1. CASE m = n
      BY <2>1, <3>1 DEF Testing, CompressSteps
    <3>2. ASSUME m # n, NEW s \in Threads, doing[s].step \in CompressSteps, doing[s].n = m
          PROVE  doing'[s].step \in CompressSteps /\ doing'[s].n = m
      <4>1. s # t
        BY <2>1, <3>2, IdleLinksNothing
      <4> QED
        BY <2>1, <3>2, <4>1
    <3> QED
      BY <1>1, <2>1, <3>1, <3>2 DEF AgreeInv, FlattenInv
  <2>5. FlattenInv'
    <3>1. (\A s \in Threads : FlattenState(doing[s]))'
      BY <2>1, <2>3 DEF FlattenState
    <3> QED
      BY <1>1, <2>1, <2>4, <3>1 DEF FlattenInv, Flat
  <2>6. HookInv'
    <3>1. ASSUME region = "flatten", ~change, NEW s \in Threads
          PROVE  doing'[s].step \notin {"load", "store"}
      <4>1. CASE s = t
        BY <2>1, <4>1 DEF Testing
      <4>2. CASE s # t
        BY <2>1, <3>1, <4>2 DEF AgreeInv, HookInv
      <4> QED
        BY <4>1, <4>2
    <3> QED
      BY <1>1, <2>1, <3>1 DEF AgreeInv, HookInv, AllFlat, EdgesAgree, Flat, Compressing
  <2>7. EndInv'
    BY <1>1, <2>1 DEF AgreeInv, EndInv, EdgesJoined, Compressing
  <2> QED
    BY <2>2, <2>5, <2>6, <2>7 DEF AgreeInv
<1> QED
  BY <1>1, LoadKeepsAgreeInv, StoreKeepsAgreeInv DEF Compress

-----------------------------------------------------------------------------
(* Shiloach-Vishkin's hooking.                                             *)

LEMMA HookMoveKeepsAgreeInv ==
  ASSUME CcInv, AgreeInv, region = "hook", NEW t \in Threads, NEW next,
         doing' = [doing EXCEPT ![t] = next],
         UNCHANGED <<job, graph, region, comp, round, frequent>>,
         \/ change' = TRUE
         \/ /\ UNCHANGED change
            /\ ~change => /\ HookState(next)
                          /\ \A u, v : WillLink(doing[t], u, v) => WillLink(next, u, v) \/ comp[u] = comp[v]
                          /\ \A u \in todo \ todo' : \A v \in AllTargets(graph.out[u]) : WillLink(next, u, v)
  PROVE  AgreeInv'
<1>1. CASE change' = TRUE
  BY <1>1 DEF AgreeInv, LinkInv, FlattenInv, HookInv, EndInv, Linking, Compressing
<1>2. CASE UNCHANGED change /\ change
  BY <1>2 DEF AgreeInv, LinkInv, FlattenInv, HookInv, EndInv, Linking, Compressing
<1>3. CASE UNCHANGED change /\ ~change /\ change' # TRUE
  <2>1. /\ AllFlat /\ \A s \in Threads : HookState(doing[s])
        /\ \A u \in Vertices(graph) \ todo : \A v \in AllTargets(graph.out[u]) :
             comp[u] = comp[v] \/ InHand(u, v)
    BY <1>3 DEF AgreeInv, HookInv
  <2>2. HookState(next)
    BY <1>3
  <2>3. \A u, v : comp[u] = comp[v] \/ InHand(u, v) => comp[u] = comp[v] \/ InHand(u, v)'
    BY <1>3, InHandMoves DEF CcInv
  <2>4. \A u \in Vertices(graph) \ todo' : \A v \in AllTargets(graph.out[u]) :
          comp[u] = comp[v] \/ InHand(u, v)'
    <3> SUFFICES ASSUME NEW u \in Vertices(graph) \ todo', NEW v \in AllTargets(graph.out[u])
                 PROVE  comp[u] = comp[v] \/ InHand(u, v)'
      OBVIOUS
    <3>1. CASE u \in todo
      <4>1. WillLink(next, u, v)
        BY <1>3, <3>1
      <4> QED
        BY <4>1, InHandMoves DEF CcInv
    <3>2. CASE u \notin todo
      BY <2>1, <2>3, <3>2
    <3> QED
      BY <3>1, <3>2
  <2>5. ASSUME NEW s \in Threads
        PROVE  HookState(doing'[s])
    <3>1. doing'[s] = IF s = t THEN next ELSE doing[s]
      BY DEF CcInv, ThreadsGood
    <3> QED
      BY <2>1, <2>2, <3>1
  <2>6. (\A s \in Threads : HookState(doing[s]))'
    BY <2>5 DEF HookState
  <2>7. HookInv'
    BY <2>1, <2>4, <2>6 DEF HookInv, AllFlat, Flat
  <2> QED
    BY <2>7 DEF AgreeInv, LinkInv, FlattenInv, EndInv, Linking, Compressing
<1> QED
  BY <1>1, <1>2, <1>3

LEMMA HookEdgesKeepsAgreeInv ==
  ASSUME CcInv, AgreeInv, NEW t \in Threads, HookEdges(t)
  PROVE  AgreeInv'
<1> DEFINE d == doing[t]
           head == Head(d.left)
<1>1. ASSUME NEW w \in todo, Take(t, w, HookEach(w, out_neigh(graph, w))),
             region = "hook", UNCHANGED <<job, graph, ccVars>>
      PROVE  AgreeInv'
  <2> DEFINE next == HookEach(w, out_neigh(graph, w))
  <2>1. doing[t] = Idle /\ todo' = todo \ {w} /\ w \in Vertices(graph)
        /\ doing' = [doing EXCEPT ![t] = next] /\ IsGraph(graph)
    BY <1>1 DEF Take, CcInv
  <2>2. HookState(next)
    BY DEF HookState, HookEach, UnlessDone, Idle
  <2>3. ASSUME NEW v \in AllTargets(graph.out[w])
        PROVE  WillLink(next, w, v)
    <3>1. graph.out[w] \in Seq(Neighbour(graph))
      BY <2>1 DEF IsGraph
    <3>2. PICK i \in DOMAIN graph.out[w] : v = graph.out[w][i].v
      BY DEF AllTargets, Targets
    <3>3. /\ out_neigh(graph, w) \in Seq(Vertices(graph)) /\ i \in DOMAIN out_neigh(graph, w)
          /\ out_neigh(graph, w)[i] = v
      BY <3>1, <3>2, IdsOfNeighbours DEF out_neigh
    <3> QED
      BY <3>3, LinkingBegins
  <2> HIDE DEF next
  <2>4. \A u \in todo \ todo' : u = w
    BY <2>1
  <2>5. UNCHANGED <<comp, round, frequent, change, region>>
    BY <1>1 DEF ccVars, Take
  <2> QED
    BY <1>1, <2>1, <2>2, <2>3, <2>4, <2>5, IdleLinksNothing, HookMoveKeepsAgreeInv
<1>2. CASE d.step \in {"comp_u", "comp_v", "is root", "set parent"}
  <2>0. region = "hook" /\ region # "built" /\ d.step \in LinkSteps
        /\ ~(\E u \in todo : Take(t, u, HookEach(u, out_neigh(graph, u))))
    <3>1. region = "hook"
      BY DEF HookEdges, At
    <3>2. d.step # Idle.step /\ d.step \in LinkSteps
      BY <1>2 DEF Idle, LinkSteps
    <3> QED
      BY <3>1, <3>2 DEF Take
  <2>1. /\ IsGraph(graph) /\ Linker(graph, d) /\ comp \in Labels(graph)
        /\ d.u \in Vertices(graph) /\ head \in Vertices(graph)
    BY <2>0, LinkerReads
  <2>2. d \in [step : LinkSteps, u : Vertices(graph), p1 : Vertices(graph), p2 : Vertices(graph),
               left : Seq(Vertices(graph))]
    BY <2>1 DEF Linker, LinkState
  <2>3. ~change => HookState(d) /\ \A n \in Vertices(graph) : comp[comp[n]] = comp[n]
    BY <2>0 DEF AgreeInv, HookInv, AllFlat, Flat
  <2>4. ASSUME Proceed(t, NextEdge(t)), UNCHANGED <<job, graph, comp, round, frequent, change>>,
               ~change => comp[d.u] = comp[head]
        PROVE  AgreeInv'
    <3>1. HookState(NextEdge(t))
      BY DEF HookState, NextEdge, HookEach, UnlessDone, Idle
    <3>2. ASSUME ~change, NEW u, NEW v, WillLink(d, u, v)
          PROVE  WillLink(NextEdge(t), u, v) \/ comp[u] = comp[v]
      <4>1. CASE v = head
        BY <2>4, <3>2, <4>1 DEF WillLink
      <4>2. CASE v # head
        BY <2>1, <3>2, <4>2, LinkingGoesOn DEF NextEdge
      <4> QED
        BY <4>1, <4>2
    <3> QED
      BY <2>0, <2>4, <3>1, <3>2, HookMoveKeepsAgreeInv DEF Proceed
  <2>5. ASSUME NEW next, Proceed(t, next), UNCHANGED <<job, graph, comp, round, frequent, change>>,
               next.u = d.u, next.left = d.left, next.step \in LinkSteps,
               ~change => HookState(next)
        PROVE  AgreeInv'
    <3>1. \A u, v : WillLink(d, u, v) => WillLink(next, u, v)
      BY <2>5 DEF WillLink
    <3> QED
      BY <2>0, <2>5, <3>1, HookMoveKeepsAgreeInv DEF Proceed
  <2>6. CASE d.step = "comp_u"
    <3> DEFINE next == [d EXCEPT !.step = "comp_v", !.p1 = comp[d.u]]
    <3>1. Proceed(t, next) /\ UNCHANGED <<job, graph, comp, round, frequent, change>>
      BY <2>0, <2>6 DEF HookEdges, At, ccVars
    <3>2. next.step = "comp_v" /\ next.u = d.u /\ next.left = d.left /\ next.p1 = comp[d.u]
      BY <2>2
    <3> HIDE DEF next
    <3>3. HookState(next) /\ next.step \in LinkSteps
      BY <3>2 DEF HookState, LinkSteps
    <3> QED
      BY <2>5, <3>1, <3>2, <3>3
  <2>7. CASE d.step = "comp_v" /\ d.p1 = comp[head]
    <3>1. Proceed(t, NextEdge(t)) /\ UNCHANGED <<job, graph, comp, round, frequent, change>>
      BY <2>0, <2>7 DEF HookEdges, At, ccVars
    <3>2. ~change => comp[d.u] = comp[head]
      BY <2>3, <2>7 DEF HookState
    <3> QED
      BY <2>4, <3>1, <3>2
  <2>8. CASE d.step = "comp_v" /\ d.p1 # comp[head]
    <3> DEFINE next == [d EXCEPT !.step = "is root", !.p2 = comp[head]]
    <3>1. Proceed(t, next) /\ UNCHANGED <<job, graph, comp, round, frequent, change>>
      BY <2>0, <2>8 DEF HookEdges, At, ccVars
    <3>2. /\ next.step = "is root" /\ next.u = d.u /\ next.left = d.left
          /\ next.p1 = d.p1 /\ next.p2 = comp[head]
      BY <2>2
    <3>3. ~change => d.p1 = comp[d.u]
      BY <2>3, <2>8 DEF HookState
    <3>4. (~change => HookState(next)) /\ next.step \in LinkSteps
      <4> HIDE DEF next
      <4> QED
        BY <3>2, <3>3 DEF HookState, LinkSteps
    <3> HIDE DEF next
    <3> QED
      BY <2>5, <3>1, <3>2, <3>4
  <2>9. CASE d.step = "is root" /\ comp[High(t)] = High(t)
    <3>1. /\ doing' = [doing EXCEPT ![t] = [d EXCEPT !.step = "set parent"]] /\ change' = TRUE
          /\ UNCHANGED <<job, graph, comp, round, frequent, region>>
      BY <2>0, <2>9 DEF HookEdges, At, ccVars, Proceed
    <3> QED
      BY <2>0, <3>1, HookMoveKeepsAgreeInv
  <2>10. CASE d.step = "is root" /\ comp[High(t)] # High(t)
    <3>1. Proceed(t, NextEdge(t)) /\ UNCHANGED <<job, graph, comp, round, frequent, change>>
      BY <2>0, <2>10 DEF HookEdges, At, ccVars
    <3>2. ASSUME ~change
          PROVE  FALSE
      <4>1. d.p1 = comp[d.u] /\ d.p2 = comp[head]
        BY <2>3, <2>10, <3>2 DEF HookState
      <4>2. comp[d.p1] = d.p1 /\ comp[d.p2] = d.p2
        BY <2>1, <2>3, <3>2, <4>1
      <4> QED
        BY <2>1, <2>10, <4>2, HighAndLowAre
    <3> QED
      BY <2>4, <3>1, <3>2
  <2>11. CASE d.step = "set parent"
    <3>1. change
      BY <2>3, <2>11 DEF HookState
    <3>2. region' = "hook" /\ UNCHANGED change
      BY <2>0, <2>11 DEF HookEdges, At, Proceed
    <3> QED
      BY <3>1, <3>2 DEF AgreeInv, LinkInv, FlattenInv, HookInv, EndInv, Linking, Compressing
  <2> QED
    BY <1>2, <2>6, <2>7, <2>8, <2>9, <2>10, <2>11
<1> QED
  BY <1>1, <1>2 DEF HookEdges, At

-----------------------------------------------------------------------------
(* The main thread's steps.                                                *)

LEMMA NothingInHand ==
  ASSUME NEW r, AllDone(r)
  PROVE  /\ \A u, v : Owed(u, v) => Joined(comp, u, v)
         /\ \A u, v : ~InHand(u, v)
         /\ todo = {}
         /\ \A t \in Threads : doing[t].step \notin CompressSteps
BY IdleLinksNothing DEF AllDone, Owed, InHand

LEMMA EntriesOweNothing ==
  ASSUME NEW r, NEW iterations, Enter(r, iterations), NEW c
  PROVE  \A t \in Threads : /\ doing'[t].step \notin LinkSteps \cup CompressSteps
                            /\ doing'[t].step \notin {"load", "store", "set parent", "comp_v", "is root"}
BY IdleLinksNothing DEF Enter, Idle

(* A region of compressions begins.                                        *)
LEMMA EntersFlatten ==
  ASSUME NEW r, Enter(r, Vertices(graph)), UNCHANGED graph
  PROVE  FlattenInv'
BY EntriesOweNothing DEF FlattenInv, FlattenState, Enter

LEMMA EndSampleKeepsAgreeInv ==
  ASSUME CcInv, AgreeInv, EndSample
  PROVE  AgreeInv'
<1>1. /\ region = "sample" /\ region' = "compress"
      /\ Enter("compress", Vertices(graph)) /\ AllDone("sample")
      /\ UNCHANGED <<job, graph, comp, round, frequent, change>>
  BY DEF EndSample, AllDone, Enter, ccVars
<1>2. ASSUME NEW u \in Vertices(graph), NEW v \in Targets(graph.out[u], 1..(round + 1))
      PROVE  Joined(comp, u, v)
  <2>1. v \in Targets(graph.out[u], 1..round) \/ v \in Targets(graph.out[u], {round + 1})
    BY DEF Targets, CcInv
  <2>2. u \in Vertices(graph) \ todo
    BY <1>1, NothingInHand
  <2>3. CASE v \in Targets(graph.out[u], 1..round)
    BY <1>1, <2>3 DEF AgreeInv, LinkInv, SampledSoFar
  <2>4. CASE v \in Targets(graph.out[u], {round + 1})
    <3>1. Owed(u, v)
      BY <1>1, <2>2, <2>4 DEF AgreeInv, LinkInv
    <3> QED
      BY <1>1, <3>1, NothingInHand
  <2> QED
    BY <2>1, <2>3, <2>4
<1>3. LinkInv'
  BY <1>1, <1>2 DEF LinkInv, SampledSoFar, Linking
<1> QED
  BY <1>1, <1>3, EntersFlatten DEF AgreeInv, HookInv, EndInv

LEMMA EndCompressKeepsAgreeInv ==
  ASSUME CcInv, AgreeInv, EndCompress
  PROVE  AgreeInv'
<1>1. /\ region = "compress" /\ UNCHANGED <<job, graph, comp>>
      /\ round \in Nat /\ job.neighbor_rounds \in Nat
      /\ \A u \in Vertices(graph) : \A v \in Targets(graph.out[u], 1..(round + 1)) : Joined(comp, u, v)
  BY DEF EndCompress, AllDone, CcInv, CcJob, AgreeInv, LinkInv, SampledSoFar
<1>2. CASE round' = round + 1 /\ Enter("sample", Vertices(graph))
  <2>1. region' = "sample" /\ todo' = Vertices(graph)
    BY <1>2 DEF Enter
  <2>2. LinkInv'
    BY <1>1, <1>2, <2>1, EntriesOweNothing DEF LinkInv, SampledSoFar
  <2> QED
    BY <2>1, <2>2 DEF AgreeInv, FlattenInv, HookInv, EndInv, Compressing
<1>3. CASE /\ ~(round + 1 < job.neighbor_rounds) /\ round' = job.neighbor_rounds
           /\ Enter("rest", Vertices(graph))
  <2>1. region' = "rest" /\ todo' = Vertices(graph)
    BY <1>3 DEF Enter
  <2>2. \A u \in Vertices(graph) : \A v \in Targets(graph.out[u], 1..round') : Joined(comp, u, v)
    <3>1. 1..round' \subseteq 1..(round + 1)
      BY <1>1, <1>3
    <3> QED
      BY <1>1, <3>1 DEF Targets
  <2>3. LinkInv'
    BY <1>1, <1>3, <2>1, <2>2, EntriesOweNothing DEF LinkInv, SampledSoFar
  <2> QED
    BY <2>1, <2>3 DEF AgreeInv, FlattenInv, HookInv, EndInv, Compressing
<1> QED
  BY <1>2, <1>3 DEF EndCompress

(* Every edge is joined: its start linked it when it was not skipped, and  *)
(* so did its end, unless both have the label that is skipped.             *)
LEMMA EndRestJoins ==
  ASSUME CcInv, AgreeInv, EndRest
  PROVE  EdgesJoined
<1>1. /\ region = "rest" /\ AllDone("rest") /\ IsGraph(graph)
      /\ round = job.neighbor_rounds /\ round \in Nat
  BY DEF EndRest, AllDone, CcInv, AgreeInv, LinkInv
<1>2. ASSUME NEW u \in Vertices(graph)
      PROVE  \/ Joined(comp, u, frequent)
             \/ /\ \A v \in Targets(graph.out[u], DOMAIN graph.out[u] \ 1..round) : Joined(comp, u, v)
                /\ graph.directed => \A v \in AllTargets(graph.in[u]) : Joined(comp, u, v)
  BY <1>1, NothingInHand DEF AgreeInv, LinkInv
<1>3. ASSUME NEW u \in Vertices(graph), NEW v \in AllTargets(graph.out[u]), ~Joined(comp, u, frequent)
      PROVE  Joined(comp, u, v)
  <2>1. v \in Targets(graph.out[u], 1..round) \/ v \in Targets(graph.out[u], DOMAIN graph.out[u] \ 1..round)
    BY DEF Targets, AllTargets
  <2>2. CASE v \in Targets(graph.out[u], 1..round)
    BY <1>1, <2>2 DEF AgreeInv, LinkInv, SampledSoFar
  <2> QED
    BY <1>2, <1>3, <2>1, <2>2
<1>4. ASSUME NEW u \in Vertices(graph), NEW v \in AllTargets(graph.out[u])
      PROVE  Joined(comp, u, v)
  <2>1. v \in Vertices(graph) /\ HasEdge(graph, u, v)
    <3>1. graph.out[u] \in Seq(Neighbour(graph))
      BY <1>1 DEF IsGraph
    <3>2. PICK i \in DOMAIN graph.out[u] : v = graph.out[u][i].v
      BY DEF AllTargets, Targets
    <3> QED
      BY <3>1, <3>2, IdsOfNeighbours DEF HasEdge
  <2>2. CASE Joined(comp, u, frequent) /\ Joined(comp, v, frequent)
    BY <2>2, JoinedIsEquivalence
  <2>3. CASE ~Joined(comp, v, frequent) /\ graph.directed
    <3>1. PICK i \in DOMAIN graph.in[v] : graph.in[v][i].v = u
      BY <1>1, <2>1, <2>3 DEF IsGraph
    <3>2. u \in AllTargets(graph.in[v])
      BY <3>1 DEF AllTargets, Targets
    <3> QED
      BY <1>2, <2>1, <2>3, <3>2, JoinedIsEquivalence
  <2>4. CASE ~Joined(comp, v, frequent) /\ ~graph.directed
    <3>1. HasEdge(graph, v, u)
      BY <1>1, <2>1, <2>4 DEF IsGraph
    <3>2. u \in AllTargets(graph.out[v])
      BY <3>1 DEF AllTargets, Targets, HasEdge
    <3> QED
      BY <1>3, <2>1, <2>4, <3>2, JoinedIsEquivalence
  <2> QED
    BY <1>3, <2>2, <2>3, <2>4
<1> QED
  BY <1>4 DEF EdgesJoined

(* Compressions leave all labels roots.                                    *)
LEMMA FlattenedAreFlat ==
  ASSUME CcInv, AgreeInv, NEW r \in Compressing, AllDone(r)
  PROVE  AllFlat
<1>1. region \in Compressing
  BY DEF AllDone
<1> QED
  BY <1>1, NothingInHand DEF AgreeInv, FlattenInv, AllFlat

LEMMA MainKeepsAgreeInv ==
  ASSUME CcInv, AgreeInv,
         \/ StartAfforest \/ EndRest \/ EndAfforest
         \/ StartShiloachVishkin \/ EndHooking \/ EndFlatten
  PROVE  AgreeInv'
<1>1. CASE StartAfforest
  <2>1. region' = "sample" /\ todo' = Vertices(graph) /\ round' = 0 /\ UNCHANGED graph
        /\ Enter("sample", Vertices(graph))
    BY <1>1 DEF StartAfforest, Enter
  <2>2. \A list : Targets(list, 1..0) = {}
    BY DEF Targets
  <2>3. SampledSoFar' = 1..0
    BY <2>1 DEF SampledSoFar
  <2>4. LinkInv'
    BY <2>1, <2>2, <2>3, EntriesOweNothing DEF LinkInv
  <2> QED
    BY <2>1, <2>4 DEF AgreeInv, FlattenInv, HookInv, EndInv, Compressing
<1>2. CASE EndRest
  <2>1. /\ region' = "compress last" /\ Enter("compress last", Vertices(graph))
        /\ UNCHANGED <<graph, comp>>
    BY <1>2 DEF EndRest, Enter, ccVars
  <2>2. EdgesJoined
    BY <1>2, EndRestJoins
  <2>3. EndInv'
    BY <2>1, <2>2 DEF EndInv, EdgesJoined
  <2> QED
    BY <2>1, <2>3, EntersFlatten DEF AgreeInv, LinkInv, HookInv, Linking
<1>3. CASE EndAfforest
  <2>1. region' = "finished" /\ region = "compress last" /\ UNCHANGED <<graph, comp>>
        /\ comp \in Labels(graph) /\ AllDone("compress last")
    BY <1>3 DEF EndAfforest, Enter, AllDone, ccVars, CcInv
  <2>2. AllFlat /\ EdgesJoined
    BY <2>1, FlattenedAreFlat DEF Compressing, AgreeInv, EndInv
  <2>3. EdgesAgree
    <3> SUFFICES ASSUME NEW u \in Vertices(graph), NEW v \in AllTargets(graph.out[u])
                 PROVE  comp[u] = comp[v]
      BY DEF EdgesAgree
    <3>1. v \in Vertices(graph)
      <4>1. graph.out[u] \in Seq(Neighbour(graph))
        BY DEF CcInv, IsGraph
      <4> QED
        BY <4>1, IdsOfNeighbours DEF AllTargets, Targets
    <3>2. DOMAIN comp = Vertices(graph)
          /\ \A x \in DOMAIN comp : comp[x] \in DOMAIN comp /\ comp[comp[x]] = comp[x]
      BY <2>1, <2>2 DEF Labels, AllFlat, Flat
    <3>3. Joined(comp, u, v)
      BY <2>2 DEF EdgesJoined
    <3> QED
      BY <3>1, <3>2, <3>3, FlatLabelsAgree
  <2> QED
    BY ZenonT(30), <2>1, <2>2, <2>3
    DEF AgreeInv, LinkInv, FlattenInv, HookInv, EndInv, AllFlat, Flat, EdgesAgree, Linking, Compressing
<1>4. CASE StartShiloachVishkin
  <2>1. region' = "hook" /\ todo' = Vertices(graph) /\ comp' = Singletons /\ UNCHANGED graph
        /\ Enter("hook", Vertices(graph))
    BY <1>4 DEF StartShiloachVishkin, Enter
  <2>2. AllFlat'
    BY <2>1 DEF AllFlat, Flat, Singletons
  <2>3. HookInv'
    BY <2>1, <2>2, EntriesOweNothing DEF HookInv, HookState
  <2> QED
    BY <2>1, <2>3 DEF AgreeInv, LinkInv, FlattenInv, EndInv, Linking, Compressing
<1>5. CASE EndHooking
  <2>1. region' = "flatten" /\ region = "hook" /\ AllDone("hook")
        /\ Enter("flatten", Vertices(graph)) /\ UNCHANGED <<graph, comp, change>>
    BY <1>5 DEF EndHooking, Enter, AllDone, ccVars
  <2>2. ~change => AllFlat /\ EdgesAgree
    BY <2>1, NothingInHand DEF AgreeInv, HookInv, EdgesAgree
  <2>3. HookInv'
    BY <2>1, <2>2, EntriesOweNothing DEF HookInv, AllFlat, Flat, EdgesAgree
  <2> QED
    BY <2>1, <2>3, EntersFlatten DEF AgreeInv, LinkInv, EndInv, Linking
<1>6. CASE EndFlatten
  <2>1. AllDone("flatten") /\ region = "flatten" /\ UNCHANGED <<graph, comp>>
    BY <1>6 DEF EndFlatten, AllDone
  <2>2. AllFlat
    BY <2>1, FlattenedAreFlat DEF Compressing
  <2>3. CASE change /\ Enter("hook", Vertices(graph))
    <3>1. region' = "hook" /\ todo' = Vertices(graph) /\ AllFlat'
      BY <2>1, <2>2, <2>3 DEF Enter, AllFlat, Flat
    <3>2. HookInv'
      BY <2>1, <2>3, <3>1, EntriesOweNothing DEF HookInv, HookState
    <3> QED
      BY <3>1, <3>2 DEF AgreeInv, LinkInv, FlattenInv, EndInv, Linking, Compressing
  <2>4. CASE ~change /\ Enter("finished", {})
    <3>1. region' = "finished" /\ EdgesAgree
      BY <2>1, <2>4 DEF Enter, AgreeInv, HookInv
    <3> QED
      BY <2>1, <2>2, <3>1
      DEF AgreeInv, LinkInv, FlattenInv, HookInv, EndInv, AllFlat, Flat, EdgesAgree, Linking, Compressing
  <2> QED
    BY <1>6, <2>3, <2>4 DEF EndFlatten
<1> QED
  BY <1>1, <1>2, <1>3, <1>4, <1>5, <1>6

(* Labels that agree along every edge, and stay inside, are components.    *)
LEMMA AgreeingLabelsAreComponents ==
  ASSUME CcInv, AgreeInv
  PROVE  LabelsAreComponents
<1> SUFFICES ASSUME region = "finished", NEW u \in Vertices(graph), NEW v \in Vertices(graph)
             PROVE  comp[u] = comp[v] <=> SameComponent(graph, u, v)
  BY DEF LabelsAreComponents
<1>1. comp \in Labels(graph) /\ EdgesAgree
  BY DEF CcInv, AgreeInv, EndInv
<1>2. ASSUME comp[u] = comp[v]
      PROVE  SameComponent(graph, u, v)
  <2>1. SameComponent(graph, u, comp[u]) /\ SameComponent(graph, v, comp[v])
    BY <1>1 DEF Labels
  <2> QED
    BY <1>2, <2>1, SameIsEquivalence
<1>3. ASSUME SameComponent(graph, u, v)
      PROVE  comp[u] = comp[v]
  <2> DEFINE S == {x \in Vertices(graph) : comp[x] = comp[u]}
  <2>1. ASSUME NEW a \in Vertices(graph), NEW b \in Vertices(graph), HasEdge(graph, a, b)
        PROVE  comp[a] = comp[b]
    <3>1. b \in AllTargets(graph.out[a])
      BY <2>1 DEF HasEdge, AllTargets, Targets
    <3> QED
      BY <1>1, <3>1 DEF EdgesAgree
  <2>2. S \in ClosedSets(graph)
    BY <2>1 DEF ClosedSets
  <2>3. u \in S <=> v \in S
    BY <1>3, <2>2 DEF SameComponent
  <2> QED
    BY <2>3
<1> QED
  BY <1>2, <1>3

(* In the end two nodes have one label exactly when they are connected:    *)
(* compare_and_swap hooks lose no link, compressions untie none, the label *)
(* that the last round skips is made up for by the other ends, and Shiloach*)
(* and Vishkin's overwritten hooks are found again.                        *)
THEOREM LabelsBecomeComponents == CcSpec => []LabelsAreComponents
<1>1. CcStart => AgreeInv
  BY DEF CcStart, CcInit, AgreeInv, LinkInv, FlattenInv, HookInv, EndInv, Linking, Compressing
<1>2. CcInv /\ AgreeInv /\ [CcNext]_ccAll => AgreeInv'
  <2> SUFFICES ASSUME CcInv, AgreeInv, [CcNext]_ccAll
               PROVE  AgreeInv'
    OBVIOUS
  <2>1. ASSUME NEW t \in Threads, SampleEdge(t) \/ LinkRest(t)
        PROVE  AgreeInv'
    BY <2>1, SampleEdgeKeepsAgreeInv, LinkRestKeepsAgreeInv
  <2>2. ASSUME NEW t \in Threads, LinkRead(t) \/ Hook(t) \/ Climb(t)
        PROVE  AgreeInv'
    BY <2>2, LinkStepsKeepAgreeInv
  <2>3. ASSUME NEW t \in Threads, Compress(t) \/ HookEdges(t)
        PROVE  AgreeInv'
    BY <2>3, CompressKeepsAgreeInv, HookEdgesKeepsAgreeInv
  <2>4. CASE UNCHANGED ccAll
    BY ZenonT(30), <2>4 DEF ccAll, loopVars, ccVars, AgreeInv, LinkInv, FlattenInv, HookInv, EndInv,
                InHand, Owed, SampledSoFar, FlattenState, HookState, Flat, AllFlat, EdgesJoined, EdgesAgree
  <2> QED
    BY <2>1, <2>2, <2>3, <2>4, EndSampleKeepsAgreeInv, EndCompressKeepsAgreeInv, MainKeepsAgreeInv
    DEF CcNext
<1>3. CcInv /\ AgreeInv => LabelsAreComponents
  BY AgreeingLabelsAreComponents
<1> QED
  BY <1>1, <1>2, <1>3, CcInvHolds, PTL DEF CcSpec

-----------------------------------------------------------------------------
(* A set of naturals that holds 0 and, up to a bound, the successors of    *)
(* its members, holds all naturals up to the bound.                        *)
LEMMA Counting ==
  ASSUME NEW bound \in Nat, NEW S, 0 \in S, \A k \in 0..(bound - 1) : k \in S => k + 1 \in S
  PROVE  0..bound \subseteq S
<1> SUFFICES ASSUME ~(0..bound \subseteq S) PROVE FALSE
  OBVIOUS
<1>1. PICK M : M = (0..bound) \ S
  OBVIOUS
<1>2. M \subseteq Nat /\ M # {}
  BY <1>1
<1>3. PICK m \in M : \A n \in M : ~(<<n, m>> \in OpToRel(<, Nat))
  BY <1>2, NatLessThanWellFounded, WFMin
<1>4. \A n \in M : ~(n < m)
  BY <1>2, <1>3 DEF OpToRel
<1>5. m \in 0..bound /\ m \notin S /\ m # 0
  BY <1>1
<1>6. m - 1 \in 0..(bound - 1) /\ m - 1 < m /\ m - 1 + 1 = m
  BY <1>5
<1>7. m - 1 \in S
  BY <1>1, <1>4, <1>6
<1> QED BY <1>5, <1>6, <1>7

-----------------------------------------------------------------------------
(* Shortest paths by delta-stepping                                        *)
(*                                                                         *)
(* The invariant has two sides.  Nothing is forgotten: an edge that could  *)
(* still lower a distance leaves a node that is in a bin, on the frontier  *)
(* or in a thread's hands, never behind the bin being emptied.  And        *)
(* nothing is too small: every potential, a function that no edge climbs   *)
(* faster than its weight, stays below the distances and below what the    *)
(* threads have already added up.  Distances are the greatest potential.   *)

BinOf(x) == x \div job.delta

(* What a thread does, by region.                                          *)
Lists(S) == Seq(S) \ {<< >>}
Thens    == {Idle, [step |-> "fuse"]}
Arc(g)   == [v : Vertices(g), w : Nat]

EdgeSteps == {"old", "new", "swap", "retry"}

RelaxState(g) ==
  [step : {"idle", "fuse", "vote", "barrier"}]
    \cup [step : {"check"}, nodes : {<<u>> : u \in Vertices(g)}, then : {Idle}]
    \cup [step : {"node"}, nodes : Lists(Vertices(g)), then : Thens]
    \cup [step : {"old"}, left : Lists(Arc(g)), nodes : Lists(Vertices(g)), then : Thens]
    \cup [step : {"new"}, left : Lists(Arc(g)), nodes : Lists(Vertices(g)), then : Thens,
          old_dist : Nat]
    \cup [step : {"swap", "retry"}, left : Lists(Arc(g)), nodes : Lists(Vertices(g)),
          then : Thens, old_dist : Nat, new_dist : Nat]

ExchangeState == [step : {"single", "reserve", "end"}] \cup [step : {"copy"}, start : Nat]

(* An edge that no longer lowers a distance.                               *)
Relaxed(u, e) == dist[e.v] <= dist[u] + e.w

(* The nodes a thread has still to begin, and the edges of the one begun   *)
(* it has still to look at; a distance already added up for the first of   *)
(* them is no more than the node's own distance gives.                     *)
Waiting(d) ==
  IF d.step \in {"check", "node"} THEN Range(d.nodes)
  ELSE IF d.step \in EdgeSteps THEN Range(Tail(d.nodes)) ELSE {}

Has(d, u, e) ==
  /\ d.step \in EdgeSteps /\ Head(d.nodes) = u
  /\ \/ e \in Range(Tail(d.left))
     \/ e = Head(d.left) /\ (d.step \in {"swap", "retry"} => d.new_dist <= dist[u] + e.w)

(* Where a node waits whose edges are to be relaxed.                       *)
InBin(u) == \E t \in Threads : u \in Range(local_bins[t][BinOf(dist[u])])

OnFrontier(u) == \E i \in todo : frontier[i] = u

Waits(u) ==
  curr_bin_index <= BinOf(dist[u])
    /\ (InBin(u) \/ OnFrontier(u) \/ \E t \in Threads : u \in Waiting(doing[t]))

(* What a thread has in its hands is not behind the current bin; the       *)
(* distance it will compare with is not below the node's own.              *)
HandGood(d) ==
  /\ d.step \in EdgeSteps \cup {"node"} =>
       \A u \in Range(d.nodes) : curr_bin_index <= BinOf(dist[u])
  /\ d.step \in EdgeSteps => Range(d.left) \subseteq Range(graph.out[Head(d.nodes)])
  /\ d.step \in EdgeSteps \ {"old"} => dist[Head(d.left).v] <= d.old_dist
  /\ d.step \in {"swap", "retry"} => curr_bin_index <= BinOf(d.new_dist)
  /\ d.step = "swap" => d.new_dist < d.old_dist

BinsFrom(b) == \A t \in Threads : \A k \in 0..(b - 1) : local_bins[t][k] = << >>

(* The first half of an iteration.                                         *)
RelaxTypes ==
  /\ doing \in [Threads -> RelaxState(graph)]
  /\ curr_bin_index < kMaxBin /\ frontier_tails[after] = 0
  /\ todo \subseteq 0..(frontier_tails[now] - 1)
  /\ \A i \in todo : frontier[i] \in Vertices(graph)

AtWork(t) ==
  /\ HandGood(doing[t])
  /\ \A u \in Range(local_bins[t][curr_bin_index]) : curr_bin_index <= BinOf(dist[u])
  /\ doing[t].step \in {"vote", "barrier"} => todo = {}
  /\ doing[t].step = "barrier" =>
       \A b \in curr_bin_index..(kMaxBin - 1) : local_bins[t][b] # << >> => next_bin_index <= b

NoneForgotten ==
  \A u \in Vertices(graph) : \A e \in Range(graph.out[u]) :
    dist[u] < kDistInf => Relaxed(u, e) \/ Waits(u) \/ \E t \in Threads : Has(doing[t], u, e)

InRelax ==
  RelaxTypes /\ BinsFrom(curr_bin_index) /\ (\A t \in Threads : AtWork(t)) /\ NoneForgotten

(* The second half: the room a thread has reserved and not yet filled, and *)
(* the nodes that are on the next frontier.                                *)
Room(t) ==
  IF doing[t].step = "copy"
    THEN doing[t].start..(doing[t].start + Len(local_bins[t][next_bin_index]) - 1) ELSE {}

OnNext(u) ==
  \E i \in 0..(frontier_tails[after] - 1) :
    frontier[i] = u /\ \A t \in Threads : i \notin Room(t)

InExchange ==
  /\ doing \in [Threads -> ExchangeState] /\ todo = {}
  /\ next_bin_index = kMaxBin => frontier_tails[after] = 0
  /\ \/ \E t \in Threads : doing[t].step = "single"
     \/ curr_bin_index = kMaxBin /\ frontier_tails[now] = 0
  /\ BinsFrom(next_bin_index)
  /\ \A t \in Threads :
       /\ doing[t].step = "end" /\ next_bin_index < kMaxBin => local_bins[t][next_bin_index] = << >>
       /\ doing[t].step = "copy" => next_bin_index < kMaxBin
       /\ Room(t) \subseteq 0..(frontier_tails[after] - 1)
       /\ \A s \in Threads \ {t} : Room(s) \cap Room(t) = {}
  /\ \A i \in 0..(frontier_tails[after] - 1) :
       frontier[i] \in Vertices(graph) \/ \E t \in Threads : i \in Room(t)
  /\ \A u \in Vertices(graph) : \A e \in Range(graph.out[u]) :
       dist[u] < kDistInf =>
         Relaxed(u, e) \/ (next_bin_index <= BinOf(dist[u]) /\ (InBin(u) \/ OnNext(u)))

(* A function that no edge climbs faster than its weight.                  *)
Potential(F) ==
  /\ F[job.source] <= 0 /\ \A v \in Vertices(graph) : F[v] <= kDistInf
  /\ \A u \in Vertices(graph) : \A e \in Range(graph.out[u]) : F[e.v] <= F[u] + e.w

(* It stays below the distances, and below what is about to be stored.     *)
AboveIt(F) ==
  /\ \A v \in Vertices(graph) : F[v] <= dist[v]
  /\ \A t \in Threads : doing[t].step \in {"swap", "retry"} =>
       F[Head(doing[t].left).v] <= doing[t].new_dist

SsspTypes ==
  /\ dist \in [Vertices(graph) -> 0..kDistInf] /\ dist[job.source] = 0
  /\ local_bins \in [Threads -> [0..(kMaxBin - 1) -> Seq(Vertices(graph))]]
  /\ sssp_iter \in Nat
  /\ shared_indexes \in [0..1 -> 0..kMaxBin] /\ frontier_tails \in [0..1 -> Nat]

GraphGood ==
  /\ IsGraph(graph) /\ \A u \in Vertices(graph) : graph.out[u] \in Seq(Arc(graph))
  /\ job.source \in Vertices(graph) /\ job.delta \in Nat \ {0}

SsspInv ==
  /\ GraphGood
  /\ \/ region = "built" /\ dist = << >>
     \/ /\ SsspTypes
        /\ \A F \in [Vertices(graph) -> Nat] : Potential(F) => AboveIt(F)
        /\ \/ region = "relax" /\ InRelax
           \/ region = "exchange" /\ InExchange
           \/ /\ region = "finished"
              /\ \A u \in Vertices(graph) : \A e \in Range(graph.out[u]) :
                   dist[u] < kDistInf => Relaxed(u, e)

-----------------------------------------------------------------------------
(* Bins, and sequences taken from the front.                               *)

(* A bin of one thread changes.                                            *)
LEMMA OneBinChanges ==
  ASSUME NEW T, NEW B, NEW S, NEW f \in [T -> [B -> S]], NEW t \in T, NEW b \in B, NEW x \in S,
         NEW g, g = [f EXCEPT ![t] = [f[t] EXCEPT ![b] = x]]
  PROVE  /\ g \in [T -> [B -> S]] /\ g[t][b] = x
         /\ \A k \in B : k # b => g[t][k] = f[t][k]
         /\ \A s \in T \ {t} : g[s] = f[s]
<1>1. PICK h : h = [f[t] EXCEPT ![b] = x]
  OBVIOUS
<1>2. h \in [B -> S] /\ h[b] = x /\ \A k \in B : k # b => h[k] = f[t][k]
  BY <1>1
<1>3. g = [f EXCEPT ![t] = h]
  BY <1>1
<1> QED BY <1>2, <1>3

LEMMA Bins ==
  ASSUME NEW delta \in Nat \ {0}, NEW x \in Nat
  PROVE  /\ x \div delta \in Nat /\ x \div delta <= x
         /\ \A b \in Nat : x >= delta * b <=> b <= x \div delta
<1>1. x \div delta \in Int /\ x % delta \in Nat /\ x % delta < delta
      /\ x = (delta * (x \div delta)) + (x % delta)
  OBVIOUS
<1>2. PICK q \in Int : q = x \div delta
  BY <1>1
<1>3. PICK r \in Nat : r = x % delta
  BY <1>1
<1>4. x = delta * q + r /\ r < delta
  BY <1>1, <1>2, <1>3
<1>5. q >= 0
  <2>1. SUFFICES ASSUME q <= -1 PROVE FALSE
    BY <1>2
  <2>2. delta * q <= -delta
    BY <2>1
  <2> QED BY <2>2, <1>4
<1>6. q <= x
  <2>1. delta * q >= q
    BY <1>5
  <2> QED BY <2>1, <1>4
<1>7. ASSUME NEW b \in Nat, b <= q PROVE x >= delta * b
  <2>1. delta * b <= delta * q
    BY <1>7
  <2> QED BY <2>1, <1>4
<1>8. ASSUME NEW b \in Nat, b > q PROVE ~(x >= delta * b)
  <2>1. delta * b >= delta * (q + 1)
    BY <1>8
  <2>2. delta * (q + 1) = delta * q + delta
    OBVIOUS
  <2>3. delta * b \in Int /\ delta * q \in Int
    OBVIOUS
  <2> QED BY <2>1, <2>2, <2>3, <1>4
<1> QED BY <1>2, <1>5, <1>6, <1>7, <1>8

LEMMA FromTheFront ==
  ASSUME NEW S, NEW s \in Seq(S), s # << >>
  PROVE  /\ Head(s) \in S /\ Tail(s) \in Seq(S)
         /\ Head(s) \in Range(s) /\ Range(Tail(s)) \subseteq Range(s)
         /\ \A x \in Range(s) : x = Head(s) \/ x \in Range(Tail(s))
         /\ Tail(s) # << >> <=> Len(s) > 1
<1>1. Len(s) \in Nat /\ Len(s) > 0 /\ DOMAIN s = 1..Len(s) /\ Head(s) = s[1] /\ \A i \in 1..Len(s) : s[i] \in S
  OBVIOUS
<1>2. Tail(s) \in Seq(S) /\ Len(Tail(s)) = Len(s) - 1 /\ \A i \in 1..(Len(s) - 1) : Tail(s)[i] = s[i + 1]
  OBVIOUS
<1>3. DOMAIN Tail(s) = 1..(Len(s) - 1)
  BY <1>2
<1>4. ASSUME NEW x \in Range(Tail(s)) PROVE x \in Range(s)
  <2>1. PICK i \in 1..(Len(s) - 1) : x = Tail(s)[i]
    BY <1>3, <1>4 DEF Range
  <2>2. x = s[i + 1] /\ i + 1 \in DOMAIN s
    BY <2>1, <1>1, <1>2
  <2> QED BY <2>2 DEF Range
<1>5. ASSUME NEW x \in Range(s), x # Head(s) PROVE x \in Range(Tail(s))
  <2>1. PICK i \in 1..Len(s) : x = s[i]
    BY <1>1 DEF Range
  <2>2. i - 1 \in 1..(Len(s) - 1) /\ x = Tail(s)[i - 1]
    BY <2>1, <1>1, <1>2, <1>5
  <2> QED BY <2>2, <1>3 DEF Range
<1>6. Head(s) \in Range(s)
  BY <1>1 DEF Range
<1>7. Tail(s) # << >> <=> Len(s) > 1
  <2>1. Tail(s) = << >> <=> Len(Tail(s)) = 0
    BY <1>2
  <2> QED BY <2>1, <1>1, <1>2
<1> QED BY <1>1, <1>2, <1>4, <1>5, <1>6, <1>7

LEMMA RangeIn ==
  ASSUME NEW S, NEW s \in Seq(S) PROVE Range(s) \subseteq S
BY DEF Range

LEMMA AppendedRange ==
  ASSUME NEW S, NEW s \in Seq(S), NEW x \in S
  PROVE  Append(s, x) \in Seq(S) /\ Range(Append(s, x)) = Range(s) \cup {x}
<1>1. DOMAIN Append(s, x) = 1..(Len(s) + 1) /\ DOMAIN s = 1..Len(s)
  OBVIOUS
<1>2. \A i \in 1..Len(s) : Append(s, x)[i] = s[i]
  OBVIOUS
<1>3. Append(s, x)[Len(s) + 1] = x
  OBVIOUS
<1> QED BY <1>1, <1>2, <1>3 DEF Range

(* A thread at an edge.                                                    *)
LEMMA AtAnEdge ==
  ASSUME NEW d \in RelaxState(graph), d.step \in EdgeSteps
  PROVE  /\ d.left \in Lists(Arc(graph)) /\ d.nodes \in Lists(Vertices(graph)) /\ d.then \in Thens
         /\ d.step # "old" => d.old_dist \in Nat
         /\ d.step \in {"swap", "retry"} => d.new_dist \in Nat
BY DEF RelaxState, EdgeSteps

(* What a thread goes on with.                                             *)
LEMMA GoesOn ==
  ASSUME GraphGood,
         NEW d, d.nodes \in Lists(Vertices(graph)), d.then \in Thens,
         NEW left \in Seq(Arc(graph)), Range(left) \subseteq Range(graph.out[Head(d.nodes)]),
         NEW next, next = Continue(d, left)
  PROVE  /\ next \in RelaxState(graph) /\ next.step \in {"idle", "fuse", "node", "old"}
         /\ next.step \in {"node", "old"} =>
              next.nodes \in Lists(Vertices(graph)) /\ Range(next.nodes) \subseteq Range(d.nodes)
         /\ next.step = "old" => Range(next.left) \subseteq Range(graph.out[Head(next.nodes)])
         /\ \A e \in Range(left) : Has(next, Head(d.nodes), e)
         /\ \A u \in Range(Tail(d.nodes)) : u \in Waiting(next)
<1> DEFINE mine == d.nodes
<1>0. /\ mine \in Seq(Vertices(graph)) /\ mine # << >>
      /\ Tail(mine) \in Seq(Vertices(graph)) /\ Range(Tail(mine)) \subseteq Range(mine)
      /\ Tail(mine) # << >> <=> Len(mine) > 1
  <2>1. mine \in Seq(Vertices(graph)) /\ mine # << >>
    BY DEF Lists
  <2> QED BY <2>1, FromTheFront
<1> HIDE DEF mine
<1>1. CASE left # << >>
  <2>1. next = [step |-> "old", left |-> left, nodes |-> mine, then |-> d.then]
    BY <1>1 DEF Continue, mine
  <2>2. next \in RelaxState(graph)
    BY <2>1, <1>0, <1>1 DEF RelaxState, Lists
  <2>3. \A e \in Range(left) : e = Head(left) \/ e \in Range(Tail(left))
    BY FromTheFront, <1>1
  <2>4. \A e \in Range(left) : Has(next, Head(d.nodes), e)
    BY <2>1, <2>3 DEF Has, EdgeSteps, mine
  <2>5. \A u \in Range(Tail(d.nodes)) : u \in Waiting(next)
    BY <2>1 DEF Waiting, EdgeSteps, mine
  <2> QED BY <2>1, <2>2, <2>4, <2>5, <1>0 DEF Lists, mine
<1>2. CASE left = << >>
  <2>1. \A e \in Range(left) : FALSE
    BY <1>2 DEF Range
  <2>2. CASE Len(mine) > 1
    <3>1. next = [step |-> "node", nodes |-> Tail(mine), then |-> d.then]
      BY <1>2, <2>2 DEF Continue, Then, mine
    <3>2. next \in RelaxState(graph)
      BY <3>1, <1>0, <2>2 DEF RelaxState, Lists
    <3>3. \A u \in Range(Tail(d.nodes)) : u \in Waiting(next)
      BY <3>1 DEF Waiting, mine
    <3>4. next.step = "node" /\ next.nodes = Tail(mine)
      BY <3>1
    <3>5. Tail(mine) \in Lists(Vertices(graph)) /\ Range(Tail(mine)) \subseteq Range(d.nodes)
      BY <1>0, <2>2 DEF Lists, mine
    <3> QED BY <3>2, <3>3, <3>4, <3>5, <2>1
  <2>3. CASE ~(Len(mine) > 1)
    <3>1. next = d.then
      BY <1>2, <2>3 DEF Continue, mine
    <3>2. next \in RelaxState(graph) /\ next.step \in {"idle", "fuse"}
      BY <3>1 DEF RelaxState, Thens, Idle
    <3>3. Range(Tail(mine)) = {}
      BY <1>0, <2>3 DEF Range
    <3> QED BY <3>2, <3>3, <2>1 DEF mine
  <2> QED BY <2>2, <2>3
<1> QED BY <1>1, <1>2

(* A thread at an edge passes on what it has.                              *)
LEMMA PassesOn ==
  ASSUME GraphGood, NEW d \in RelaxState(graph), d.step \in EdgeSteps, HandGood(d),
         NEW next, next = Continue(d, Tail(d.left))
  PROVE  /\ next \in RelaxState(graph) /\ next.step \in {"idle", "fuse", "node", "old"}
         /\ HandGood(next)
         /\ next.step \in {"node", "old"} => Range(next.nodes) \subseteq Range(d.nodes)
         /\ next.step = "old" => Range(next.left) \subseteq Range(graph.out[Head(next.nodes)])
         /\ \A u \in Waiting(d) : u \in Waiting(next)
         /\ \A u, e : Has(d, u, e) => Has(next, u, e) \/ (u = Head(d.nodes) /\ e = Head(d.left))
<1>1. d.left \in Seq(Arc(graph)) /\ d.left # << >> /\ d.nodes \in Lists(Vertices(graph)) /\ d.then \in Thens
  BY AtAnEdge DEF Lists
<1>2. Tail(d.left) \in Seq(Arc(graph)) /\ Range(Tail(d.left)) \subseteq Range(d.left)
  BY <1>1, FromTheFront
<1>3. Range(Tail(d.left)) \subseteq Range(graph.out[Head(d.nodes)])
  BY <1>2 DEF HandGood
<1>4. /\ next \in RelaxState(graph) /\ next.step \in {"idle", "fuse", "node", "old"}
      /\ next.step \in {"node", "old"} =>
              next.nodes \in Lists(Vertices(graph)) /\ Range(next.nodes) \subseteq Range(d.nodes)
      /\ next.step = "old" => Range(next.left) \subseteq Range(graph.out[Head(next.nodes)])
      /\ \A e \in Range(Tail(d.left)) : Has(next, Head(d.nodes), e)
      /\ \A u \in Range(Tail(d.nodes)) : u \in Waiting(next)
  BY <1>1, <1>2, <1>3, GoesOn
<1>5. HandGood(next)
  <2>1. next.step \in EdgeSteps \cup {"node"} => next.step \in {"node", "old"}
    BY <1>4 DEF EdgeSteps
  <2>2. \A u \in Range(d.nodes) : curr_bin_index <= BinOf(dist[u])
    BY DEF HandGood
  <2> QED BY <1>4, <2>1, <2>2 DEF HandGood, EdgeSteps
<1>6. Waiting(d) = Range(Tail(d.nodes))
  BY DEF Waiting, EdgeSteps
<1>7. \A u, e : Has(d, u, e) => u = Head(d.nodes) /\ (e \in Range(Tail(d.left)) \/ e = Head(d.left))
  BY DEF Has
<1> QED BY <1>4, <1>5, <1>6, <1>7

LEMMA InRelaxRegion ==
  ASSUME SsspInv, region = "relax"
  PROVE  /\ GraphGood /\ SsspTypes /\ InRelax
         /\ \A F \in [Vertices(graph) -> Nat] : Potential(F) => AboveIt(F)
BY DEF SsspInv

LEMMA Indexes ==
  ASSUME SsspTypes
  PROVE  /\ now \in 0..1 /\ after \in 0..1 /\ now # after
         /\ curr_bin_index \in 0..kMaxBin /\ next_bin_index \in 0..kMaxBin
         /\ frontier_tails[now] \in Nat /\ frontier_tails[after] \in Nat
<1>1. now \in 0..1 /\ after \in 0..1 /\ now # after
  <2>1. PICK n \in Nat : n = sssp_iter
    BY DEF SsspTypes
  <2>2. n % 2 \in 0..1 /\ (n + 1) % 2 \in 0..1 /\ n % 2 # (n + 1) % 2
    OBVIOUS
  <2> QED BY <2>1, <2>2 DEF now, after
<1> QED BY <1>1 DEF SsspTypes, curr_bin_index, next_bin_index

(* A thread takes a step on its own, without a store to what is shared.    *)
LEMMA HandStep ==
  ASSUME SsspInv, region = "relax", NEW t \in Threads, NEW next \in RelaxState(graph),
         doing' = [doing EXCEPT ![t] = next], todo' \subseteq todo,
         HandGood(next), next.step # "barrier", next.step = "vote" => todo' = {},
         \A F \in [Vertices(graph) -> Nat] : Potential(F) =>
           (next.step \in {"swap", "retry"} => F[Head(next.left).v] <= next.new_dist),
         \A u \in Vertices(graph) : \A e \in Range(graph.out[u]) :
           /\ Has(doing[t], u, e) => Relaxed(u, e) \/ Has(next, u, e)
           /\ /\ curr_bin_index <= BinOf(dist[u])
              /\ u \in Waiting(doing[t]) \/ \E i \in todo \ todo' : frontier[i] = u
              => Relaxed(u, e) \/ Has(next, u, e) \/ u \in Waiting(next),
         UNCHANGED <<job, graph, region, ssspVars>>
  PROVE  SsspInv'
<1>0. /\ GraphGood /\ SsspTypes /\ InRelax
      /\ \A F \in [Vertices(graph) -> Nat] : Potential(F) => AboveIt(F)
  BY InRelaxRegion
<1>1. /\ RelaxTypes /\ BinsFrom(curr_bin_index) /\ (\A s \in Threads : AtWork(s)) /\ NoneForgotten
  BY <1>0 DEF InRelax
<1>2. doing \in [Threads -> RelaxState(graph)]
  BY <1>1 DEF RelaxTypes
<1>3. doing'[t] = next /\ \A s \in Threads \ {t} : doing'[s] = doing[s]
  BY <1>2
<1>4. GraphGood' /\ SsspTypes' /\ BinsFrom(curr_bin_index)'
  BY <1>0, <1>1 DEF GraphGood, SsspTypes, BinsFrom, ssspVars, curr_bin_index, now
<1>5. RelaxTypes'
  BY <1>1 DEF RelaxTypes, ssspVars, curr_bin_index, now, after
<1>6. ASSUME NEW F \in [Vertices(graph)' -> Nat], Potential(F)' PROVE AboveIt(F)'
  <2>1. F \in [Vertices(graph) -> Nat] /\ Potential(F)
    BY <1>6 DEF Potential
  <2>2. AboveIt(F)
    BY <2>1, <1>0
  <2>3. next.step \in {"swap", "retry"} => F[Head(next.left).v] <= next.new_dist
    BY <2>1
  <2> QED BY <2>2, <2>3, <1>3 DEF AboveIt, ssspVars
<1>7. ASSUME NEW s \in Threads PROVE AtWork(s)'
  <2>1. AtWork(s) /\ AtWork(t)
    BY <1>1
  <2>2. HandGood(doing[s])'
    <3>1. HandGood(doing'[s])
      BY <2>1, <1>3 DEF AtWork
    <3> QED BY <3>1 DEF HandGood, ssspVars, curr_bin_index, now, BinOf
  <2>3. /\ \A u \in Range(local_bins[s][curr_bin_index]) : curr_bin_index <= BinOf(dist[u])
        /\ doing'[s].step \in {"vote", "barrier"} => todo' = {}
        /\ doing'[s].step = "barrier" =>
             \A b \in curr_bin_index..(kMaxBin - 1) : local_bins[s][b] # << >> => next_bin_index <= b
    BY <2>1, <1>3 DEF AtWork
  <2> QED BY <2>2, <2>3 DEF AtWork, ssspVars, curr_bin_index, next_bin_index, now, after, BinOf
<1>8. NoneForgotten'
  <2>1. SUFFICES ASSUME NEW u \in Vertices(graph), NEW e \in Range(graph.out[u]), dist[u] < kDistInf,
                        ~Relaxed(u, e), ~(\E s \in Threads : Has(doing'[s], u, e))
                 PROVE  Waits(u)'
    BY DEF NoneForgotten, Relaxed, Has, ssspVars
  <2>2. ~Has(doing[t], u, e) /\ ~Has(next, u, e)
    BY <2>1, <1>3
  <2>3. ~(\E s \in Threads : Has(doing[s], u, e))
    BY <2>1, <2>2, <1>3
  <2>4. Waits(u)
    BY <2>1, <2>3, <1>1 DEF NoneForgotten
  <2>5. curr_bin_index <= BinOf(dist[u]) /\ (curr_bin_index <= BinOf(dist[u]))'
    BY <2>4 DEF Waits, ssspVars, curr_bin_index, now, BinOf
  <2>6. CASE InBin(u)
    BY <2>5, <2>6 DEF Waits, InBin, ssspVars, BinOf
  <2>7. CASE \E i \in todo \ todo' : frontier[i] = u
    <3>1. u \in Waiting(next)
      BY <2>1, <2>2, <2>5, <2>7
    <3> QED BY <3>1, <2>5, <1>3 DEF Waits
  <2>8. CASE \E i \in todo' : frontier[i] = u
    BY <2>5, <2>8 DEF Waits, OnFrontier, ssspVars
  <2>9. CASE u \in Waiting(doing[t])
    <3>1. u \in Waiting(next)
      BY <2>1, <2>2, <2>5, <2>9
    <3> QED BY <3>1, <2>5, <1>3 DEF Waits
  <2>10. CASE \E s \in Threads \ {t} : u \in Waiting(doing[s])
    <3>1. \E s \in Threads : u \in Waiting(doing'[s])
      BY <2>10, <1>3
    <3> QED BY <3>1, <2>5 DEF Waits
  <2> QED BY <2>4, <2>6, <2>7, <2>8, <2>9, <2>10 DEF Waits, OnFrontier
<1> QED BY <1>4, <1>5, <1>6, <1>7, <1>8 DEF SsspInv, InRelax

LEMMA TakesANode ==
  ASSUME SsspInv, NEW t \in Threads, TakeNode(t)
  PROVE  SsspInv'
<1>0. region = "relax" /\ GraphGood /\ SsspTypes /\ InRelax
  BY InRelaxRegion DEF TakeNode
<1>1. PICK i \in todo : Take(t, i, [step |-> "check", nodes |-> <<frontier[i]>>, then |-> Idle])
  BY DEF TakeNode
<1>2. PICK next : next = [step |-> "check", nodes |-> <<frontier[i]>>, then |-> Idle]
  OBVIOUS
<1>3. frontier[i] \in Vertices(graph)
  BY <1>0, <1>1 DEF InRelax, RelaxTypes
<1>4. doing[t] = Idle /\ doing' = [doing EXCEPT ![t] = next] /\ todo' = todo \ {i}
      /\ UNCHANGED <<job, graph, region, ssspVars>>
  BY <1>1, <1>2 DEF Take, TakeNode
<1>5. next \in RelaxState(graph) /\ next.step = "check"
  BY <1>2, <1>3 DEF RelaxState
<1>6. Waiting(next) = {frontier[i]}
  <2>1. Waiting(next) = Range(<<frontier[i]>>)
    BY <1>2 DEF Waiting
  <2>2. DOMAIN <<frontier[i]>> = {1} /\ <<frontier[i]>>[1] = frontier[i]
    OBVIOUS
  <2> QED BY <2>1, <2>2 DEF Range
<1>7. HandGood(next)
  BY <1>5 DEF HandGood, EdgeSteps
<1>8. \A u, e : ~Has(doing[t], u, e) /\ u \notin Waiting(doing[t])
  BY <1>4 DEF Has, Waiting, Idle, EdgeSteps
<1>9. \A u \in Vertices(graph) : (\E j \in todo \ todo' : frontier[j] = u) => u \in Waiting(next)
  BY <1>4, <1>6, <1>1
<1> QED BY <1>0, <1>4, <1>5, <1>7, <1>8, <1>9, HandStep

(* The steps of RelaxEdges but the compare-and-swap.                       *)
LEMMA AtEdge ==
  ASSUME SsspInv, region = "relax", NEW t \in Threads, NEW d, d = doing[t], d.step \in EdgeSteps,
         NEW next \in RelaxState(graph), doing' = [doing EXCEPT ![t] = next],
         HandGood(next), next.step # "barrier", next.step # "vote",
         \A F \in [Vertices(graph) -> Nat] : Potential(F) /\ AboveIt(F) =>
           (next.step \in {"swap", "retry"} => F[Head(next.left).v] <= next.new_dist),
         \A u, e : Has(d, u, e) => Relaxed(u, e) \/ Has(next, u, e),
         \A u \in Waiting(d) : u \in Waiting(next),
         UNCHANGED <<job, graph, region, todo, ssspVars>>
  PROVE  SsspInv'
<1>1. \A F \in [Vertices(graph) -> Nat] : Potential(F) =>
           (next.step \in {"swap", "retry"} => F[Head(next.left).v] <= next.new_dist)
  BY InRelaxRegion
<1>2. ~(\E i \in todo \ todo' : TRUE)
  OBVIOUS
<1> QED BY <1>1, <1>2, HandStep

LEMMA Hand ==
  ASSUME SsspInv, region = "relax", NEW t \in Threads
  PROVE  /\ GraphGood /\ SsspTypes /\ doing[t] \in RelaxState(graph) /\ HandGood(doing[t])
         /\ curr_bin_index \in Nat
BY InRelaxRegion, Indexes DEF InRelax, RelaxTypes, AtWork

(* The distances at an edge.                                               *)
LEMMA EdgeAt ==
  ASSUME GraphGood, SsspTypes, NEW d \in RelaxState(graph), d.step \in EdgeSteps, HandGood(d)
  PROVE  /\ Head(d.nodes) \in Vertices(graph) /\ Head(d.left).v \in Vertices(graph) /\ Head(d.left).w \in Nat
         /\ Head(d.left) \in Range(graph.out[Head(d.nodes)])
         /\ dist[Head(d.nodes)] \in 0..kDistInf /\ dist[Head(d.left).v] \in 0..kDistInf
         /\ curr_bin_index <= BinOf(dist[Head(d.nodes)])
         /\ d.left # << >> /\ Head(d.left) \in Range(d.left)
<1>1. d.left \in Seq(Arc(graph)) /\ d.left # << >> /\ d.nodes \in Seq(Vertices(graph)) /\ d.nodes # << >>
  BY AtAnEdge DEF Lists
<1>2. Head(d.left) \in Arc(graph) /\ Head(d.left) \in Range(d.left)
      /\ Head(d.nodes) \in Vertices(graph) /\ Head(d.nodes) \in Range(d.nodes)
  BY <1>1, FromTheFront
<1>3. Head(d.left).v \in Vertices(graph) /\ Head(d.left).w \in Nat
  BY <1>2 DEF Arc
<1>4. Range(d.left) \subseteq Range(graph.out[Head(d.nodes)])
      /\ \A u \in Range(d.nodes) : curr_bin_index <= BinOf(dist[u])
  BY DEF HandGood
<1>5. dist \in [Vertices(graph) -> 0..kDistInf]
  BY DEF SsspTypes
<1> QED BY <1>1, <1>2, <1>3, <1>4, <1>5

LEMMA RelaxesEdges ==
  ASSUME SsspInv, NEW t \in Threads, RelaxEdges(t)
  PROVE  SsspInv'
<1>0. region = "relax"
  BY DEF RelaxEdges, At
<1>1. PICK d : d = doing[t]
  OBVIOUS
<1>2. /\ GraphGood /\ SsspTypes /\ d \in RelaxState(graph) /\ HandGood(d) /\ curr_bin_index \in Nat
  BY <1>0, <1>1, Hand
<1>a. job.delta \in Nat \ {0} /\ dist \in [Vertices(graph) -> 0..kDistInf] /\ kDistInf \in Nat
  BY <1>2, DeltaSteppingAssumption DEF GraphGood, SsspTypes
<1>b. \A x \in Nat : BinOf(x) \in Nat /\ (x >= job.delta * curr_bin_index <=> curr_bin_index <= BinOf(x))
  BY <1>a, <1>2, Bins DEF BinOf
<1>3. CASE /\ At(t, "relax", "check")
           /\ Proceed(t, IF dist[Relaxing(t)] >= job.delta * curr_bin_index
                           THEN [doing[t] EXCEPT !.step = "node"] ELSE Idle)
           /\ UNCHANGED <<job, graph, ssspVars>>
  <2>1. d.step = "check" /\ UNCHANGED <<job, graph, region, todo, ssspVars>>
    BY <1>3, <1>1 DEF At, Proceed
  <2>2. PICK u \in Vertices(graph) : d = [step |-> "check", nodes |-> <<u>>, then |-> Idle]
    BY <1>2, <2>1 DEF RelaxState, Idle
  <2>3. Relaxing(t) = u
    BY <2>2, <1>1 DEF Relaxing
  <2>4. \A x, e : ~Has(d, x, e)
    BY <2>1 DEF Has, EdgeSteps
  <2>5. Range(d.nodes) = {u} /\ Waiting(d) = {u}
    <3>1. DOMAIN <<u>> = {1} /\ <<u>>[1] = u
      OBVIOUS
    <3> QED BY <3>1, <2>2 DEF Range, Waiting
  <2>6. dist[u] \in Nat
    BY <1>a
  <2>7. CASE dist[u] >= job.delta * curr_bin_index
    <3>1. PICK next : next = [step |-> "node", nodes |-> <<u>>, then |-> Idle]
      OBVIOUS
    <3>2. doing' = [doing EXCEPT ![t] = next]
      <4>1. [d EXCEPT !.step = "node"] = next
        BY <2>2, <3>1
      <4> QED BY <1>3, <2>3, <2>7, <4>1, <1>1 DEF Proceed
    <3>3. next \in RelaxState(graph)
      BY <3>1 DEF RelaxState, Lists, Thens
    <3>4. Waiting(next) = {u}
      BY <3>1, <2>5, <2>2 DEF Waiting
    <3>5. HandGood(next)
      BY <3>1, <2>2, <2>5, <2>6, <2>7, <1>b DEF HandGood, EdgeSteps
    <3> QED BY <3>1, <3>2, <3>3, <3>4, <3>5, <2>1, <2>4, <2>5, <1>0, <1>1, HandStep
  <2>8. CASE ~(dist[u] >= job.delta * curr_bin_index)
    <3>1. doing' = [doing EXCEPT ![t] = Idle]
      BY <1>3, <2>3, <2>8 DEF Proceed
    <3>2. Idle \in RelaxState(graph) /\ HandGood(Idle) /\ Idle.step = "idle"
      BY DEF RelaxState, Idle, HandGood, EdgeSteps
    <3>3. ~(curr_bin_index <= BinOf(dist[u]))
      BY <2>6, <2>8, <1>b
    <3> QED BY <3>1, <3>2, <3>3, <2>1, <2>4, <2>5, <1>0, <1>1, HandStep
  <2> QED BY <2>7, <2>8
<1>4. CASE /\ At(t, "relax", "node")
           /\ Proceed(t, Continue(doing[t], graph.out[Relaxing(t)]))
           /\ UNCHANGED <<job, graph, ssspVars>>
  <2>1. d.step = "node" /\ UNCHANGED <<job, graph, region, todo, ssspVars>>
    BY <1>4, <1>1 DEF At, Proceed
  <2>2. d.nodes \in Lists(Vertices(graph)) /\ d.then \in Thens
    BY <1>2, <2>1 DEF RelaxState
  <2>3. d.nodes \in Seq(Vertices(graph)) /\ d.nodes # << >>
    BY <2>2 DEF Lists
  <2>4. PICK next : next = Continue(d, graph.out[Head(d.nodes)])
    OBVIOUS
  <2>5. doing' = [doing EXCEPT ![t] = next]
    BY <1>4, <2>4, <1>1 DEF Proceed, Relaxing
  <2>6. Head(d.nodes) \in Vertices(graph) /\ \A u \in Range(d.nodes) : u = Head(d.nodes) \/ u \in Range(Tail(d.nodes))
    BY <2>3, FromTheFront
  <2>7. graph.out[Head(d.nodes)] \in Seq(Arc(graph))
    BY <2>6, <1>2 DEF GraphGood
  <2>8. /\ next \in RelaxState(graph) /\ next.step \in {"idle", "fuse", "node", "old"}
        /\ next.step \in {"node", "old"} =>
              next.nodes \in Lists(Vertices(graph)) /\ Range(next.nodes) \subseteq Range(d.nodes)
        /\ next.step = "old" => Range(next.left) \subseteq Range(graph.out[Head(next.nodes)])
        /\ \A e \in Range(graph.out[Head(d.nodes)]) : Has(next, Head(d.nodes), e)
        /\ \A u \in Range(Tail(d.nodes)) : u \in Waiting(next)
    BY <1>2, <2>2, <2>4, <2>7, GoesOn
  <2>9. \A u \in Range(d.nodes) : curr_bin_index <= BinOf(dist[u])
    BY <1>2, <2>1 DEF HandGood
  <2>10. HandGood(next)
    BY <2>8, <2>9 DEF HandGood, EdgeSteps
  <2>11. \A u, e : ~Has(d, u, e)
    BY <2>1 DEF Has, EdgeSteps
  <2>12. Waiting(d) = Range(d.nodes)
    BY <2>1 DEF Waiting
  <2>13. \A u \in Vertices(graph) : \A e \in Range(graph.out[u]) : u \in Waiting(d) => Has(next, u, e) \/ u \in Waiting(next)
    BY <2>6, <2>8, <2>12
  <2> QED BY <2>1, <2>5, <2>8, <2>10, <2>11, <2>13, <1>0, <1>1, HandStep
<1>5. CASE /\ At(t, "relax", "old")
           /\ Proceed(t, [step |-> "new", left |-> doing[t].left, nodes |-> doing[t].nodes,
                          then |-> doing[t].then, old_dist |-> dist[Head(doing[t].left).v]])
           /\ UNCHANGED <<job, graph, ssspVars>>
  <2>1. d.step = "old" /\ d.step \in EdgeSteps /\ UNCHANGED <<job, graph, region, todo, ssspVars>>
    BY <1>5, <1>1 DEF At, Proceed, EdgeSteps
  <2>2. PICK next : next = [step |-> "new", left |-> d.left, nodes |-> d.nodes,
                          then |-> d.then, old_dist |-> dist[Head(d.left).v]]
    OBVIOUS
  <2>3. doing' = [doing EXCEPT ![t] = next]
    BY <1>5, <2>2, <1>1 DEF Proceed
  <2>4. dist[Head(d.left).v] \in Nat
    BY <2>1, <1>2, <1>a, EdgeAt
  <2>5. d.left \in Lists(Arc(graph)) /\ d.nodes \in Lists(Vertices(graph)) /\ d.then \in Thens
    BY <2>1, <1>2, AtAnEdge
  <2>6. next \in RelaxState(graph)
    BY <2>2, <2>4, <2>5 DEF RelaxState
  <2>7. HandGood(next)
    BY <2>1, <2>2, <2>4, <1>2 DEF HandGood, EdgeSteps
  <2>8. \A u, e : Has(d, u, e) => Has(next, u, e)
    BY <2>1, <2>2 DEF Has, EdgeSteps
  <2>9. \A u \in Waiting(d) : u \in Waiting(next)
    BY <2>1, <2>2 DEF Waiting, EdgeSteps
  <2> QED BY <2>1, <2>2, <2>3, <2>6, <2>7, <2>8, <2>9, <1>0, <1>1, AtEdge
<1>6. CASE /\ At(t, "relax", "new")
           /\ LET new_dist == dist[Relaxing(t)] + Head(doing[t].left).w
              IN  Proceed(t, IF new_dist < doing[t].old_dist
                    THEN [step |-> "swap", left |-> doing[t].left, nodes |-> doing[t].nodes,
                          then |-> doing[t].then, old_dist |-> doing[t].old_dist, new_dist |-> new_dist]
                    ELSE Continue(doing[t], Tail(doing[t].left)))
           /\ UNCHANGED <<job, graph, ssspVars>>
  <2>1. d.step = "new" /\ d.step \in EdgeSteps /\ UNCHANGED <<job, graph, region, todo, ssspVars>>
    BY <1>6, <1>1 DEF At, Proceed, EdgeSteps
  <2>2. /\ Head(d.nodes) \in Vertices(graph) /\ Head(d.left).v \in Vertices(graph) /\ Head(d.left).w \in Nat
        /\ Head(d.left) \in Range(graph.out[Head(d.nodes)])
        /\ dist[Head(d.nodes)] \in 0..kDistInf /\ dist[Head(d.left).v] \in 0..kDistInf
        /\ curr_bin_index <= BinOf(dist[Head(d.nodes)])
        /\ d.left # << >>
    BY <2>1, <1>2, EdgeAt
  <2>3. d.left \in Lists(Arc(graph)) /\ d.nodes \in Lists(Vertices(graph)) /\ d.then \in Thens
        /\ d.old_dist \in Nat
    BY <2>1, <1>2, AtAnEdge
  <2>4. PICK new : new = dist[Head(d.nodes)] + Head(d.left).w
    OBVIOUS
  <2>5. new \in Nat /\ new >= dist[Head(d.nodes)] /\ dist[Head(d.nodes)] \in Nat
    BY <2>2, <2>4, <1>a
  <2>6. dist[Head(d.left).v] <= d.old_dist
    BY <2>1, <1>2 DEF HandGood, EdgeSteps
  <2>7. CASE new < d.old_dist
    <3>1. PICK next : next = [step |-> "swap", left |-> d.left, nodes |-> d.nodes,
                              then |-> d.then, old_dist |-> d.old_dist, new_dist |-> new]
      OBVIOUS
    <3>2. doing' = [doing EXCEPT ![t] = next]
      BY <1>6, <2>4, <2>7, <3>1, <1>1 DEF Proceed, Relaxing
    <3>3. next \in RelaxState(graph)
      BY <3>1, <2>3, <2>5 DEF RelaxState
    <3>4. curr_bin_index <= BinOf(new)
      <4>1. dist[Head(d.nodes)] >= job.delta * curr_bin_index
        BY <2>2, <2>5, <1>b
      <4>2. job.delta * curr_bin_index \in Nat
        BY <1>a, <1>2
      <4>3. new >= job.delta * curr_bin_index
        BY <4>1, <4>2, <2>5
      <4> QED BY <4>3, <2>5, <1>b
    <3>5. HandGood(next)
      BY <2>1, <2>6, <2>7, <3>1, <3>4, <1>2 DEF HandGood, EdgeSteps
    <3>6. \A u, e : Has(d, u, e) => Has(next, u, e)
      BY <2>1, <3>1, <2>4, <2>5 DEF Has, EdgeSteps
    <3>7. \A u \in Waiting(d) : u \in Waiting(next)
      BY <2>1, <3>1 DEF Waiting, EdgeSteps
    <3>8. ASSUME NEW F \in [Vertices(graph) -> Nat], Potential(F), AboveIt(F)
          PROVE  F[Head(next.left).v] <= next.new_dist
      <4>1. F[Head(d.left).v] <= F[Head(d.nodes)] + Head(d.left).w
        BY <3>8, <2>2 DEF Potential
      <4>2. F[Head(d.nodes)] <= dist[Head(d.nodes)]
        BY <3>8, <2>2 DEF AboveIt
      <4>3. F[Head(d.left).v] \in Nat /\ F[Head(d.nodes)] \in Nat
        BY <3>8, <2>2
      <4>4. F[Head(d.left).v] <= new
        BY <4>1, <4>2, <4>3, <2>2, <2>4, <2>5
      <4> QED BY <4>4, <3>1
    <3> QED BY <2>1, <3>1, <3>2, <3>3, <3>5, <3>6, <3>7, <3>8, <1>0, <1>1, AtEdge
  <2>8. CASE ~(new < d.old_dist)
    <3>1. PICK next : next = Continue(d, Tail(d.left))
      OBVIOUS
    <3>2. doing' = [doing EXCEPT ![t] = next]
      BY <1>6, <2>4, <2>8, <3>1, <1>1 DEF Proceed, Relaxing
    <3>3. /\ next \in RelaxState(graph) /\ next.step \in {"idle", "fuse", "node", "old"}
          /\ HandGood(next)
          /\ \A u \in Waiting(d) : u \in Waiting(next)
          /\ \A u, e : Has(d, u, e) => Has(next, u, e) \/ (u = Head(d.nodes) /\ e = Head(d.left))
      BY <2>1, <3>1, <1>2, PassesOn
    <3>4. Relaxed(Head(d.nodes), Head(d.left))
      BY <2>2, <2>3, <2>4, <2>5, <2>6, <2>8 DEF Relaxed
    <3> QED BY <2>1, <3>2, <3>3, <3>4, <1>0, <1>1, AtEdge
  <2> QED BY <2>7, <2>8
<1>7. CASE /\ At(t, "relax", "retry")
           /\ LET old_dist == dist[Head(doing[t].left).v]
              IN  Proceed(t, IF doing[t].new_dist < old_dist
                    THEN [doing[t] EXCEPT !.step = "swap", !.old_dist = old_dist]
                    ELSE Continue(doing[t], Tail(doing[t].left)))
           /\ UNCHANGED <<job, graph, ssspVars>>
  <2>1. d.step = "retry" /\ d.step \in EdgeSteps /\ UNCHANGED <<job, graph, region, todo, ssspVars>>
    BY <1>7, <1>1 DEF At, Proceed, EdgeSteps
  <2>2. /\ Head(d.nodes) \in Vertices(graph) /\ Head(d.left).v \in Vertices(graph) /\ Head(d.left).w \in Nat
        /\ dist[Head(d.left).v] \in Nat /\ dist[Head(d.nodes)] \in Nat
        /\ d.left # << >>
    BY <2>1, <1>2, <1>a, EdgeAt
  <2>3. d.left \in Lists(Arc(graph)) /\ d.nodes \in Lists(Vertices(graph)) /\ d.then \in Thens
        /\ d.old_dist \in Nat /\ d.new_dist \in Nat
    BY <2>1, <1>2, AtAnEdge
  <2>4. PICK old : old = dist[Head(d.left).v]
    OBVIOUS
  <2>5. curr_bin_index <= BinOf(d.new_dist)
    BY <2>1, <1>2 DEF HandGood, EdgeSteps
  <2>7. CASE d.new_dist < old
    <3>1. PICK next : next = [d EXCEPT !.step = "swap", !.old_dist = old]
      OBVIOUS
    <3>0. next = [step |-> "swap", left |-> d.left, nodes |-> d.nodes,
                  then |-> d.then, old_dist |-> old, new_dist |-> d.new_dist]
      <4>1. d \in [step : {"swap", "retry"}, left : Lists(Arc(graph)), nodes : Lists(Vertices(graph)),
                   then : Thens, old_dist : Nat, new_dist : Nat]
        BY <2>1, <1>2 DEF RelaxState
      <4> QED BY <3>1, <4>1
    <3>2. doing' = [doing EXCEPT ![t] = next]
      BY <1>7, <2>4, <2>7, <3>1, <1>1 DEF Proceed
    <3>3. next \in RelaxState(graph)
      BY <3>0, <2>2, <2>3, <2>4 DEF RelaxState
    <3>5. HandGood(next)
      BY <2>1, <2>2, <2>4, <2>5, <2>7, <3>0, <1>2 DEF HandGood, EdgeSteps
    <3>6. \A u, e : Has(d, u, e) => Has(next, u, e)
      BY <2>1, <3>0 DEF Has, EdgeSteps
    <3>7. \A u \in Waiting(d) : u \in Waiting(next)
      BY <2>1, <3>0 DEF Waiting, EdgeSteps
    <3>8. ASSUME NEW F \in [Vertices(graph) -> Nat], Potential(F), AboveIt(F)
          PROVE  F[Head(next.left).v] <= next.new_dist
      BY <3>8, <3>0, <2>1, <1>1 DEF AboveIt
    <3> QED BY <2>1, <3>0, <3>2, <3>3, <3>5, <3>6, <3>7, <3>8, <1>0, <1>1, AtEdge
  <2>8. CASE ~(d.new_dist < old)
    <3>1. PICK next : next = Continue(d, Tail(d.left))
      OBVIOUS
    <3>2. doing' = [doing EXCEPT ![t] = next]
      BY <1>7, <2>4, <2>8, <3>1, <1>1 DEF Proceed
    <3>3. /\ next \in RelaxState(graph) /\ next.step \in {"idle", "fuse", "node", "old"}
          /\ HandGood(next)
          /\ \A u \in Waiting(d) : u \in Waiting(next)
          /\ \A u, e : Has(d, u, e) => Has(next, u, e) \/ (u = Head(d.nodes) /\ e = Head(d.left))
      BY <2>1, <3>1, <1>2, PassesOn
    <3>4. ASSUME NEW u, NEW e, Has(d, u, e) PROVE Relaxed(u, e) \/ Has(next, u, e)
      <4>1. SUFFICES ASSUME ~Has(next, u, e) PROVE Relaxed(u, e)
        OBVIOUS
      <4>2. u = Head(d.nodes) /\ e = Head(d.left)
        BY <3>3, <3>4, <4>1
      <4>3. CASE e \in Range(Tail(d.left))
        <5>1. Tail(d.left) \in Seq(Arc(graph)) /\ Range(Tail(d.left)) \subseteq Range(d.left)
          BY <2>3, FromTheFront DEF Lists
        <5>2. Range(Tail(d.left)) \subseteq Range(graph.out[Head(d.nodes)])
          BY <5>1, <2>1, <1>2 DEF HandGood
        <5>3. Has(next, Head(d.nodes), e)
          BY <5>1, <5>2, <4>3, <3>1, <2>3, <1>2, GoesOn
        <5> QED BY <5>3, <4>1, <4>2
      <4>4. CASE e \notin Range(Tail(d.left))
        <5>1. d.new_dist <= dist[u] + e.w
          BY <3>4, <4>4, <2>1 DEF Has
        <5>2. dist[e.v] <= d.new_dist
          BY <4>2, <2>2, <2>3, <2>4, <2>8
        <5> QED BY <5>1, <5>2, <4>2, <2>2, <2>3 DEF Relaxed
      <4> QED BY <4>3, <4>4
    <3> QED BY <2>1, <3>2, <3>3, <3>4, <1>0, <1>1, AtEdge
  <2> QED BY <2>7, <2>8
<1> QED BY <1>3, <1>4, <1>5, <1>6, <1>7 DEF RelaxEdges

(* A distance is lowered: the node is in the thread's bin for it.          *)
LEMMA LowersDistance ==
  ASSUME SsspInv, region = "relax", NEW t \in Threads, NEW d, d = doing[t], d.step = "swap",
         NEW v, v = Head(d.left).v, NEW new, new = d.new_dist, dist[v] = d.old_dist,
         dist' = [dist EXCEPT ![v] = new],
         local_bins' = [local_bins EXCEPT ![t][BinOf(new)] = Append(@, v)],
         NEW next, next = Continue(d, Tail(d.left)), doing' = [doing EXCEPT ![t] = next],
         UNCHANGED <<job, graph, region, todo, frontier, shared_indexes, frontier_tails, sssp_iter>>
  PROVE  SsspInv'
<1>0. /\ GraphGood /\ SsspTypes /\ InRelax
      /\ \A F \in [Vertices(graph) -> Nat] : Potential(F) => AboveIt(F)
  BY InRelaxRegion
<1>1. /\ RelaxTypes /\ BinsFrom(curr_bin_index) /\ (\A s \in Threads : AtWork(s)) /\ NoneForgotten
  BY <1>0 DEF InRelax
<1>2. /\ d \in RelaxState(graph) /\ HandGood(d) /\ d.step \in EdgeSteps
      /\ curr_bin_index \in 0..kMaxBin /\ next_bin_index \in 0..kMaxBin
      /\ doing \in [Threads -> RelaxState(graph)]
  BY <1>0, <1>1, Hand, Indexes DEF EdgeSteps, RelaxTypes
<1>3. /\ v \in Vertices(graph) /\ new \in Nat /\ Head(d.left) \in Range(graph.out[Head(d.nodes)])
      /\ d.old_dist \in 0..kDistInf /\ new < d.old_dist /\ curr_bin_index <= BinOf(new)
  <2>1. v \in Vertices(graph) /\ Head(d.left) \in Range(graph.out[Head(d.nodes)]) /\ dist[v] \in 0..kDistInf
    BY <1>0, <1>2, EdgeAt
  <2>2. new \in Nat
    BY <1>2, AtAnEdge
  <2>3. new < d.old_dist /\ curr_bin_index <= BinOf(new)
    BY <1>2 DEF HandGood
  <2> QED BY <2>1, <2>2, <2>3
<1>4. /\ job.delta \in Nat \ {0} /\ dist \in [Vertices(graph) -> 0..kDistInf] /\ kDistInf \in Nat
      /\ kDistInf <= kMaxBin /\ kMaxBin \in Nat
      /\ local_bins \in [Threads -> [0..(kMaxBin - 1) -> Seq(Vertices(graph))]]
      /\ IsGraph(graph) /\ \A u \in Vertices(graph) : graph.out[u] \in Seq(Arc(graph))
      /\ job.source \in Vertices(graph) /\ dist[job.source] = 0
  BY <1>0, DeltaSteppingAssumption DEF GraphGood, SsspTypes
<1>5. PICK b \in Nat : b = BinOf(new)
  BY <1>3, <1>4, Bins DEF BinOf
<1>6. b \in 0..(kMaxBin - 1) /\ curr_bin_index <= b
  <2>1. b <= new
    BY <1>3, <1>4, <1>5, Bins DEF BinOf
  <2>2. new < kDistInf
    BY <1>3, <1>4
  <2> QED BY <2>1, <2>2, <1>3, <1>4, <1>5
<1>7. /\ dist' \in [Vertices(graph) -> 0..kDistInf]
      /\ dist'[v] = new /\ \A u \in Vertices(graph) \ {v} : dist'[u] = dist[u]
      /\ \A u \in Vertices(graph) : dist'[u] <= dist[u]
  BY <1>3, <1>4
<1>8. /\ local_bins' \in [Threads -> [0..(kMaxBin - 1) -> Seq(Vertices(graph))]]
      /\ local_bins'[t][b] = Append(local_bins[t][b], v)
      /\ \A k \in 0..(kMaxBin - 1) : k # b => local_bins'[t][k] = local_bins[t][k]
      /\ \A s \in Threads \ {t} : local_bins'[s] = local_bins[s]
  <2>1. local_bins[t] \in [0..(kMaxBin - 1) -> Seq(Vertices(graph))]
    BY <1>4
  <2>2. Append(local_bins[t][b], v) \in Seq(Vertices(graph))
    BY <1>3, <1>6, <2>1, AppendedRange
  <2>3. local_bins' = [local_bins EXCEPT ![t] = [local_bins[t] EXCEPT ![b] = Append(local_bins[t][b], v)]]
    BY <1>5
  <2> QED BY <2>2, <2>3, <1>4, <1>6, OneBinChanges
<1>9. /\ \A s \in Threads : \A k \in 0..(kMaxBin - 1) : Range(local_bins[s][k]) \subseteq Range(local_bins'[s][k])
      /\ \A s \in Threads : \A k \in 0..(kMaxBin - 1) : Range(local_bins'[s][k]) \subseteq Range(local_bins[s][k]) \cup {v}
      /\ v \in Range(local_bins'[t][b])
  <2>1. local_bins[t][b] \in Seq(Vertices(graph))
    BY <1>4, <1>6
  <2>2. Range(local_bins'[t][b]) = Range(local_bins[t][b]) \cup {v}
    <3>1. Range(Append(local_bins[t][b], v)) = Range(local_bins[t][b]) \cup {v}
      BY <2>1, <1>3, AppendedRange
    <3> QED BY <3>1, <1>8
  <2> QED BY <2>2, <1>8
<1>10. /\ next \in RelaxState(graph) /\ next.step \in {"idle", "fuse", "node", "old"}
       /\ HandGood(next)
       /\ \A u \in Waiting(d) : u \in Waiting(next)
       /\ \A u, e : Has(d, u, e) => Has(next, u, e) \/ (u = Head(d.nodes) /\ e = Head(d.left))
  BY <1>0, <1>2, PassesOn
<1>11. doing'[t] = next /\ \A s \in Threads \ {t} : doing'[s] = doing[s]
  BY <1>2
<1>12. curr_bin_index' = curr_bin_index /\ next_bin_index' = next_bin_index
       /\ \A u \in Vertices(graph) : curr_bin_index <= BinOf(dist[u]) => curr_bin_index <= BinOf(dist'[u])
  BY <1>3, <1>7 DEF curr_bin_index, next_bin_index, now, after
<1>13. SsspTypes'
  <2>1. job.source # v
    BY <1>3, <1>4
  <2> QED BY <2>1, <1>0, <1>4, <1>7, <1>8 DEF SsspTypes
<1>14. ASSUME NEW F \in [Vertices(graph)' -> Nat], Potential(F)' PROVE AboveIt(F)'
  <2>1. F \in [Vertices(graph) -> Nat] /\ Potential(F)
    BY <1>14 DEF Potential
  <2>2. AboveIt(F)
    BY <2>1, <1>0
  <2>3. F[v] <= new
    BY <2>2 DEF AboveIt
  <2>4. \A u \in Vertices(graph) : F[u] <= dist'[u]
    BY <2>2, <2>3, <1>7 DEF AboveIt
  <2>5. \A s \in Threads : doing'[s].step \in {"swap", "retry"} => s # t /\ doing'[s] = doing[s]
    BY <1>10, <1>11
  <2> QED BY <2>2, <2>4, <2>5 DEF AboveIt
<1>15. RelaxTypes'
  BY <1>1, <1>2, <1>10 DEF RelaxTypes, curr_bin_index, now, after
<1>16. BinsFrom(curr_bin_index)'
  <2>1. \A k \in 0..(curr_bin_index - 1) : k \in 0..(kMaxBin - 1) /\ k # b
    BY <1>2, <1>4, <1>6
  <2>2. \A s \in Threads : \A k \in 0..(curr_bin_index - 1) : local_bins'[s][k] = local_bins[s][k]
    BY <2>1, <1>8
  <2>3. \A s \in Threads : \A k \in 0..(curr_bin_index - 1) : local_bins'[s][k] = << >>
    <3>1. \A s \in Threads : \A k \in 0..(curr_bin_index - 1) : local_bins[s][k] = << >>
      BY <1>1 DEF BinsFrom
    <3> QED BY <2>2, <3>1
  <2> QED BY <1>12, <2>3 DEF BinsFrom
<1>17. ASSUME NEW s \in Threads PROVE AtWork(s)'
  <2>1. AtWork(s)
    BY <1>1
  <2>2. HandGood(doing'[s]) /\ doing'[s] \in RelaxState(graph)
    BY <2>1, <1>2, <1>10, <1>11 DEF AtWork
  <2>3. HandGood(doing[s])'
    <3>1. PICK h : h = doing'[s]
      OBVIOUS
    <3>2. h.step \in EdgeSteps \cup {"node"} => \A u \in Range(h.nodes) : u \in Vertices(graph)
      <4>1. h.step \in EdgeSteps \cup {"node"} => h.nodes \in Seq(Vertices(graph))
        BY <2>2, <3>1 DEF RelaxState, EdgeSteps, Lists
      <4> QED BY <4>1, RangeIn
    <3>3. h.step \in EdgeSteps \cup {"node"} => \A u \in Range(h.nodes) : curr_bin_index <= BinOf(dist'[u])
      BY <3>1, <3>2, <2>2, <1>12 DEF HandGood
    <3>4. h.step \in EdgeSteps \ {"old"} => dist'[Head(h.left).v] <= h.old_dist
      <4>1. SUFFICES ASSUME h.step \in EdgeSteps, h.step # "old" PROVE dist'[Head(h.left).v] <= h.old_dist
        BY DEF EdgeSteps
      <4>2. Head(h.left).v \in Vertices(graph)
        BY <4>1, <3>1, <2>2, <1>0, EdgeAt
      <4>3. dist[Head(h.left).v] <= h.old_dist /\ h.old_dist \in Nat
        BY <4>1, <3>1, <2>2, AtAnEdge DEF HandGood
      <4> QED BY SMTT(30), <4>2, <4>3, <1>7, <1>4
    <3>5. HandGood(h)
      BY <3>1, <2>2
    <3>6. /\ h.step \in EdgeSteps => Range(h.left) \subseteq Range(graph.out[Head(h.nodes)])
          /\ h.step \in {"swap", "retry"} => curr_bin_index <= BinOf(h.new_dist)
          /\ h.step = "swap" => h.new_dist < h.old_dist
      BY <3>5 DEF HandGood
    <3> QED BY <3>1, <3>3, <3>4, <3>6, <1>12 DEF HandGood, BinOf
  <2>4. \A u \in Range(local_bins'[s][curr_bin_index]) : curr_bin_index <= BinOf(dist'[u])
    <3>1. curr_bin_index \in 0..(kMaxBin - 1)
      BY <1>2, <1>4, <1>6
    <3>2. local_bins[s][curr_bin_index] \in Seq(Vertices(graph))
      BY <1>4, <3>1
    <3>3. \A u \in Range(local_bins[s][curr_bin_index]) : u \in Vertices(graph) /\ curr_bin_index <= BinOf(dist[u])
      BY <2>1, <3>2, RangeIn DEF AtWork
    <3>4. \A u \in Range(local_bins'[s][curr_bin_index]) : u = v \/ u \in Range(local_bins[s][curr_bin_index])
      BY <1>9, <3>1
    <3> QED BY <3>3, <3>4, <1>3, <1>7, <1>12
  <2>5. doing'[s].step \in {"vote", "barrier"} => todo' = {}
    BY <2>1, <1>10, <1>11 DEF AtWork
  <2>6. doing'[s].step = "barrier" =>
             \A k \in curr_bin_index..(kMaxBin - 1) : local_bins'[s][k] # << >> => next_bin_index <= k
    BY SMTT(30), <2>1, <1>8, <1>10, <1>11 DEF AtWork
  <2>7. AtWork(s)' <=> /\ HandGood(doing[s])'
                       /\ \A u \in Range(local_bins'[s][curr_bin_index']) : curr_bin_index' <= BinOf(dist[u])'
                       /\ doing'[s].step \in {"vote", "barrier"} => todo' = {}
                       /\ doing'[s].step = "barrier" =>
                            \A k \in (curr_bin_index')..(kMaxBin - 1) :
                              local_bins'[s][k] # << >> => next_bin_index' <= k
    BY DEF AtWork
  <2> QED BY <2>3, <2>4, <2>5, <2>6, <2>7, <1>12 DEF BinOf
<1>18. NoneForgotten'
  <2>1. SUFFICES ASSUME NEW u \in Vertices(graph), NEW e \in Range(graph.out[u]), dist'[u] < kDistInf
                 PROVE  Relaxed(u, e)' \/ Waits(u)' \/ \E s \in Threads : Has(doing[s], u, e)'
    BY DEF NoneForgotten
  <2>2. CASE u = v
    <3>1. curr_bin_index <= BinOf(dist'[u]) /\ u \in Range(local_bins'[t][BinOf(dist'[u])])
      BY <2>2, <1>3, <1>5, <1>7, <1>9
    <3>2. InBin(u)'
      BY <3>1 DEF InBin, BinOf
    <3> QED BY <3>1, <3>2, <1>12 DEF Waits, BinOf
  <2>3. CASE u # v
    <3>1. dist'[u] = dist[u] /\ dist[u] \in Nat
      BY <2>1, <2>3, <1>4, <1>7
    <3>2. e.v \in Vertices(graph) /\ e.w \in Nat
      <4>1. e \in Arc(graph)
        BY <2>1, <1>4, RangeIn
      <4> QED BY <4>1 DEF Arc
    <3>3. CASE Relaxed(u, e)
      <4>1. dist'[e.v] <= dist'[u] + e.w
        BY <3>1, <3>2, <3>3, <1>4, <1>7 DEF Relaxed
      <4> QED BY <4>1 DEF Relaxed
    <3>4. CASE Waits(u)
      <4>1. curr_bin_index <= BinOf(dist'[u])
        BY <3>1, <3>4 DEF Waits
      <4>2. CASE InBin(u)
        <5>1. BinOf(dist[u]) \in 0..(kMaxBin - 1)
          <6>1. BinOf(dist[u]) \in Nat /\ BinOf(dist[u]) <= dist[u]
            BY <3>1, <1>4, Bins DEF BinOf
          <6> QED BY <6>1, <2>1, <3>1, <1>4
        <5>2. \E s \in Threads : u \in Range(local_bins'[s][BinOf(dist'[u])])
          BY <5>1, <4>2, <3>1, <1>9 DEF InBin
        <5>3. InBin(u)'
          BY <5>2 DEF InBin, BinOf
        <5> QED BY <5>3, <4>1, <1>12 DEF Waits, BinOf
      <4>3. CASE OnFrontier(u)
        <5>1. OnFrontier(u)'
          BY <4>3 DEF OnFrontier
        <5> QED BY <5>1, <4>1, <1>12 DEF Waits, BinOf
      <4>4. CASE \E s \in Threads : u \in Waiting(doing[s])
        <5>1. \E s \in Threads : u \in Waiting(doing'[s])
          BY <4>4, <1>10, <1>11
        <5> QED BY <5>1, <4>1, <1>12 DEF Waits, BinOf
      <4> QED BY <3>4, <4>2, <4>3, <4>4 DEF Waits
    <3>5. CASE \E s \in Threads : Has(doing[s], u, e)
      <4>1. PICK s \in Threads : Has(doing[s], u, e)
        BY <3>5
      <4>2. CASE s # t
        <5>1. doing'[s] = doing[s]
          BY <4>2, <1>11
        <5>2. Has(doing[s], u, e)'
          BY <4>1, <5>1, <3>1 DEF Has
        <5> QED BY <5>2
      <4>3. CASE s = t /\ Has(next, u, e)
        <5>1. Has(doing[t], u, e)'
          <6>1. Has(doing'[t], u, e)
            BY <4>3, <1>11
          <6> QED BY <6>1, <3>1 DEF Has
        <5> QED BY <5>1
      <4>4. CASE s = t /\ ~Has(next, u, e)
        <5>1. u = Head(d.nodes) /\ e = Head(d.left) /\ Has(d, u, e)
          BY <4>1, <4>4, <1>10
        <5>2. CASE e \in Range(Tail(d.left))
          <6>1. d.left \in Seq(Arc(graph)) /\ d.left # << >> /\ d.nodes \in Lists(Vertices(graph)) /\ d.then \in Thens
            BY <1>2, AtAnEdge DEF Lists
          <6>2. Tail(d.left) \in Seq(Arc(graph)) /\ Range(Tail(d.left)) \subseteq Range(d.left)
            BY <6>1, FromTheFront
          <6>3. Range(Tail(d.left)) \subseteq Range(graph.out[Head(d.nodes)])
            BY <6>2, <1>2 DEF HandGood
          <6>4. Has(next, Head(d.nodes), e)
            BY <6>1, <6>2, <6>3, <5>2, <1>0, GoesOn
          <6> QED BY <6>4, <5>1, <4>4
        <5>3. CASE e \notin Range(Tail(d.left))
          <6>1. new <= dist[u] + e.w
            BY <5>1, <5>3 DEF Has
          <6>2. e.v = v
            BY <5>1
          <6>3. dist'[e.v] <= dist'[u] + e.w
            BY <6>1, <6>2, <3>1, <1>7
          <6> QED BY <6>3 DEF Relaxed
        <5> QED BY <5>2, <5>3
      <4> QED BY <4>2, <4>3, <4>4
    <3> QED BY <2>1, <3>1, <3>3, <3>4, <3>5, <1>1 DEF NoneForgotten
  <2> QED BY <2>2, <2>3
<1> QED BY <1>0, <1>13, <1>14, <1>15, <1>16, <1>17, <1>18 DEF SsspInv, InRelax, GraphGood

LEMMA Lowers ==
  ASSUME SsspInv, NEW t \in Threads, Lower(t)
  PROVE  SsspInv'
<1>0. region = "relax" /\ doing[t].step = "swap" /\ doing[t].step \in EdgeSteps
  BY DEF Lower, At, EdgeSteps
<1>1. PICK d : d = doing[t]
  OBVIOUS
<1>2. PICK v, new : v = Head(d.left).v /\ new = d.new_dist
  OBVIOUS
<1>3. UNCHANGED <<job, graph, region, todo, frontier, shared_indexes, frontier_tails, sssp_iter>>
  BY DEF Lower, Proceed
<1>4. CASE dist[v] = d.old_dist
  <2>1. PICK next : next = Continue(d, Tail(d.left))
    OBVIOUS
  <2>2. /\ dist' = [dist EXCEPT ![v] = new]
        /\ local_bins' = [local_bins EXCEPT ![t][BinOf(new)] = Append(@, v)]
        /\ doing' = [doing EXCEPT ![t] = next]
    BY <1>1, <1>2, <1>4, <2>1 DEF Lower, Proceed, BinOf
  <2> QED BY <1>0, <1>1, <1>2, <1>3, <1>4, <2>1, <2>2, LowersDistance
<1>5. CASE dist[v] # d.old_dist
  <2>1. PICK next : next = [d EXCEPT !.step = "retry"]
    OBVIOUS
  <2>2. doing' = [doing EXCEPT ![t] = next] /\ UNCHANGED ssspVars
    BY <1>1, <1>2, <1>3, <1>5, <2>1 DEF Lower, Proceed, ssspVars
  <2>3. d \in RelaxState(graph) /\ HandGood(d)
    BY <1>0, <1>1, Hand
  <2>4. d \in [step : {"swap", "retry"}, left : Lists(Arc(graph)), nodes : Lists(Vertices(graph)),
               then : Thens, old_dist : Nat, new_dist : Nat]
    BY <2>3, <1>0, <1>1 DEF RelaxState
  <2>5. next = [step |-> "retry", left |-> d.left, nodes |-> d.nodes,
                then |-> d.then, old_dist |-> d.old_dist, new_dist |-> d.new_dist]
    BY <2>1, <2>4
  <2>6. next \in RelaxState(graph)
    BY <2>4, <2>5 DEF RelaxState
  <2>7. HandGood(next)
    BY <2>3, <2>5, <1>0, <1>1 DEF HandGood, EdgeSteps
  <2>8. \A u, e : Has(d, u, e) => Has(next, u, e)
    BY <2>5, <1>0, <1>1 DEF Has, EdgeSteps
  <2>9. \A u \in Waiting(d) : u \in Waiting(next)
    BY <2>5, <1>0, <1>1 DEF Waiting, EdgeSteps
  <2>10. \A F \in [Vertices(graph) -> Nat] : AboveIt(F) => F[Head(next.left).v] <= next.new_dist
    BY <2>5, <1>0, <1>1 DEF AboveIt
  <2> QED BY <1>0, <1>1, <1>3, <2>2, <2>5, <2>6, <2>7, <2>8, <2>9, <2>10, AtEdge
<1> QED BY <1>4, <1>5

(* A thread takes its bin over.                                            *)
LEMMA TakesItsBin ==
  ASSUME SsspInv, region = "relax", todo = {}, NEW t \in Threads,
         doing[t].step \in {"idle", "fuse"},
         NEW bin, bin = local_bins[t][curr_bin_index], bin # << >>,
         NEW next, next = Then(bin, [step |-> "fuse"]),
         doing' = [doing EXCEPT ![t] = next],
         local_bins' = [local_bins EXCEPT ![t][curr_bin_index] = << >>],
         UNCHANGED <<job, graph, region, todo, dist, frontier, shared_indexes, frontier_tails, sssp_iter>>
  PROVE  SsspInv'
<1>0. /\ GraphGood /\ SsspTypes /\ InRelax
      /\ \A F \in [Vertices(graph) -> Nat] : Potential(F) => AboveIt(F)
  BY InRelaxRegion
<1>1. /\ RelaxTypes /\ BinsFrom(curr_bin_index) /\ (\A s \in Threads : AtWork(s)) /\ NoneForgotten
  BY <1>0 DEF InRelax
<1>2. PICK b : b = curr_bin_index
  OBVIOUS
<1>3. /\ kMaxBin \in Nat /\ b \in 0..(kMaxBin - 1)
      /\ doing \in [Threads -> RelaxState(graph)]
      /\ local_bins \in [Threads -> [0..(kMaxBin - 1) -> Seq(Vertices(graph))]]
  BY SMTT(30), <1>0, <1>1, <1>2, Indexes, DeltaSteppingAssumption DEF RelaxTypes, SsspTypes
<1>4. bin \in Seq(Vertices(graph))
  BY <1>2, <1>3
<1>5. /\ local_bins' \in [Threads -> [0..(kMaxBin - 1) -> Seq(Vertices(graph))]]
      /\ local_bins'[t][b] = << >>
      /\ \A k \in 0..(kMaxBin - 1) : k # b => local_bins'[t][k] = local_bins[t][k]
      /\ \A s \in Threads \ {t} : local_bins'[s] = local_bins[s]
  <2>1. local_bins[t] \in [0..(kMaxBin - 1) -> Seq(Vertices(graph))]
    BY <1>3
  <2>2. << >> \in Seq(Vertices(graph))
    OBVIOUS
  <2>3. local_bins' = [local_bins EXCEPT ![t] = [local_bins[t] EXCEPT ![b] = << >>]]
    BY <1>2, <1>3
  <2> QED BY <2>2, <2>3, <1>2, <1>3, OneBinChanges
<1>6. /\ next = [step |-> "node", nodes |-> bin, then |-> [step |-> "fuse"]]
      /\ next \in RelaxState(graph) /\ Waiting(next) = Range(bin)
  <2>1. next = [step |-> "node", nodes |-> bin, then |-> [step |-> "fuse"]]
    BY DEF Then
  <2> QED BY <2>1, <1>4 DEF RelaxState, Waiting, Lists, Thens
<1>7. doing'[t] = next /\ \A s \in Threads \ {t} : doing'[s] = doing[s]
  BY <1>3
<1>8. \A s \in Threads : Range(local_bins'[s][b]) \subseteq Range(local_bins[s][b])
  BY <1>5 DEF Range
<1>9. curr_bin_index' = curr_bin_index /\ next_bin_index' = next_bin_index
  BY DEF curr_bin_index, next_bin_index, now, after
<1>10. GraphGood' /\ SsspTypes' /\ RelaxTypes'
  BY <1>0, <1>1, <1>3, <1>5, <1>6 DEF GraphGood, SsspTypes, RelaxTypes, curr_bin_index, now, after
<1>11. BinsFrom(curr_bin_index)'
  <2>1. \A k \in 0..(b - 1) : k \in 0..(kMaxBin - 1) /\ k # b
    BY <1>3
  <2>2. \A s \in Threads : \A k \in 0..(b - 1) : local_bins'[s][k] = local_bins[s][k]
    BY <2>1, <1>5
  <2> QED BY <2>2, <1>1, <1>2, <1>9 DEF BinsFrom
<1>12. ASSUME NEW F \in [Vertices(graph)' -> Nat], Potential(F)' PROVE AboveIt(F)'
  <2>1. F \in [Vertices(graph) -> Nat] /\ Potential(F)
    BY <1>12 DEF Potential
  <2>2. AboveIt(F)
    BY <2>1, <1>0
  <2>3. \A s \in Threads : doing'[s].step \in {"swap", "retry"} => s # t /\ doing'[s] = doing[s]
    BY <1>6, <1>7
  <2> QED BY <2>2, <2>3 DEF AboveIt
<1>13. \A s \in Threads : \A u \in Range(local_bins'[s][b]) : b <= BinOf(dist[u])
  BY <1>1, <1>2, <1>8 DEF AtWork
<1>14. ASSUME NEW s \in Threads PROVE AtWork(s)'
  <2>1. AtWork(s) /\ AtWork(t)
    BY <1>1
  <2>2. HandGood(next)
    <3>1. \A u \in Range(bin) : curr_bin_index <= BinOf(dist[u])
      BY <2>1 DEF AtWork
    <3> QED BY <3>1, <1>6 DEF HandGood, EdgeSteps
  <2>3. HandGood(doing[s])'
    <3>1. HandGood(doing'[s])
      BY <2>1, <2>2, <1>7 DEF AtWork
    <3> QED BY <3>1 DEF HandGood, curr_bin_index, now, BinOf
  <2>4. /\ doing'[s].step \in {"vote", "barrier"} => todo' = {}
        /\ doing'[s].step = "barrier" =>
             \A k \in curr_bin_index..(kMaxBin - 1) : local_bins'[s][k] # << >> => next_bin_index <= k
    BY <2>1, <1>5, <1>6, <1>7 DEF AtWork
  <2>5. AtWork(s)' <=> /\ HandGood(doing[s])'
                       /\ \A u \in Range(local_bins'[s][curr_bin_index']) : curr_bin_index' <= BinOf(dist[u])'
                       /\ doing'[s].step \in {"vote", "barrier"} => todo' = {}
                       /\ doing'[s].step = "barrier" =>
                            \A k \in (curr_bin_index')..(kMaxBin - 1) :
                              local_bins'[s][k] # << >> => next_bin_index' <= k
    BY DEF AtWork
  <2> QED BY <2>3, <2>4, <2>5, <1>2, <1>9, <1>13 DEF BinOf
<1>15. NoneForgotten'
  <2>1. SUFFICES ASSUME NEW u \in Vertices(graph), NEW e \in Range(graph.out[u]), dist[u] < kDistInf
                 PROVE  Relaxed(u, e)' \/ Waits(u)' \/ \E s \in Threads : Has(doing[s], u, e)'
    BY DEF NoneForgotten
  <2>2. CASE Relaxed(u, e)
    BY <2>2 DEF Relaxed
  <2>3. CASE \E s \in Threads : Has(doing[s], u, e)
    <3>1. PICK s \in Threads : Has(doing[s], u, e)
      BY <2>3
    <3>2. s # t
      BY <3>1 DEF Has, EdgeSteps
    <3>3. Has(doing'[s], u, e)
      BY <3>1, <3>2, <1>7
    <3> QED BY <3>3 DEF Has
  <2>4. CASE Waits(u)
    <3>1. b <= BinOf(dist[u])
      BY <2>4, <1>2 DEF Waits
    <3>2. CASE u \in Range(bin)
      <4>1. u \in Waiting(doing'[t])
        BY <3>2, <1>6, <1>7
      <4> QED BY <4>1, <3>1, <1>2, <1>9 DEF Waits, BinOf
    <3>3. CASE InBin(u) /\ u \notin Range(bin)
      <4>1. PICK s \in Threads : u \in Range(local_bins[s][BinOf(dist[u])])
        BY <3>3 DEF InBin
      <4>2. BinOf(dist[u]) \in 0..(kMaxBin - 1)
        <5>1. dist[u] \in Nat /\ job.delta \in Nat \ {0} /\ kDistInf \in Nat /\ kDistInf <= kMaxBin
          BY <1>0, DeltaSteppingAssumption DEF SsspTypes, GraphGood
        <5>2. BinOf(dist[u]) \in Nat /\ BinOf(dist[u]) <= dist[u]
          BY <5>1, Bins DEF BinOf
        <5> QED BY <5>1, <5>2, <2>1, <1>3
      <4>3. ~(s = t /\ BinOf(dist[u]) = b)
        BY <4>1, <3>3, <1>2
      <4>4. local_bins'[s][BinOf(dist[u])] = local_bins[s][BinOf(dist[u])]
        BY <4>2, <4>3, <1>5
      <4>5. InBin(u)'
        BY <4>1, <4>4 DEF InBin, BinOf
      <4> QED BY <4>5, <3>1, <1>2, <1>9 DEF Waits, BinOf
    <3>4. CASE \E s \in Threads : u \in Waiting(doing[s])
      <4>1. PICK s \in Threads : u \in Waiting(doing[s])
        BY <3>4
      <4>2. s # t
        BY <4>1 DEF Waiting, EdgeSteps
      <4>3. u \in Waiting(doing'[s])
        BY <4>1, <4>2, <1>7
      <4> QED BY <4>3, <3>1, <1>2, <1>9 DEF Waits, BinOf
    <3>5. ~OnFrontier(u)
      BY DEF OnFrontier
    <3> QED BY <2>4, <3>2, <3>3, <3>4, <3>5 DEF Waits
  <2> QED BY <2>1, <2>2, <2>3, <2>4, <1>1 DEF NoneForgotten
<1> QED BY <1>10, <1>11, <1>12, <1>14, <1>15 DEF SsspInv, InRelax

LEMMA Fuses ==
  ASSUME SsspInv, NEW t \in Threads, Fuse(t)
  PROVE  SsspInv'
<1>0. region = "relax" /\ todo = {} /\ doing[t].step \in {"idle", "fuse"}
  BY DEF Fuse, Idle
<1>1. PICK bin : bin = local_bins[t][curr_bin_index]
  OBVIOUS
<1>2. CASE bin # << >> /\ Len(bin) < kBinSizeThreshold
  <2>1. PICK next : next = Then(bin, [step |-> "fuse"])
    OBVIOUS
  <2>2. /\ doing' = [doing EXCEPT ![t] = next]
        /\ local_bins' = [local_bins EXCEPT ![t][curr_bin_index] = << >>]
        /\ UNCHANGED <<job, graph, region, todo, dist, frontier, shared_indexes, frontier_tails, sssp_iter>>
    BY <1>1, <1>2, <2>1 DEF Fuse, Proceed
  <2> QED BY <1>0, <1>1, <1>2, <2>1, <2>2, TakesItsBin
<1>3. CASE ~(bin # << >> /\ Len(bin) < kBinSizeThreshold)
  <2>1. PICK next : next = [step |-> "vote"]
    OBVIOUS
  <2>2. doing' = [doing EXCEPT ![t] = next] /\ UNCHANGED <<job, graph, region, todo, ssspVars>>
    BY <1>1, <1>3, <2>1 DEF Fuse, Proceed, ssspVars
  <2>3. next \in RelaxState(graph) /\ next.step = "vote" /\ HandGood(next)
    BY <2>1 DEF RelaxState, HandGood, EdgeSteps
  <2>4. \A u, e : ~Has(doing[t], u, e) /\ u \notin Waiting(doing[t])
    BY <1>0 DEF Has, Waiting, EdgeSteps
  <2> QED BY <1>0, <2>2, <2>3, <2>4, HandStep
<1> QED BY <1>2, <1>3

LEMMA LeastOf ==
  ASSUME NEW S, S \subseteq Nat, S # {}
  PROVE  Min(S) \in S /\ \A n \in S : Min(S) <= n
<1>1. PICK m \in S : \A n \in S : ~(<<n, m>> \in OpToRel(<, Nat))
  BY NatLessThanWellFounded, WFMin
<1>2. \A n \in S : ~(n < m)
  BY <1>1 DEF OpToRel
<1>3. m \in S /\ \A n \in S : m <= n
  BY <1>2
<1> QED BY <1>3 DEF Min

(* A thread's vote: no bin of its own is lower than the next.              *)
LEMMA Votes ==
  ASSUME SsspInv, NEW t \in Threads, Vote(t)
  PROVE  SsspInv'
<1>0. region = "relax" /\ doing[t].step = "vote"
      /\ UNCHANGED <<job, graph, region, todo, dist, frontier, frontier_tails, sssp_iter, local_bins>>
  BY DEF Vote, At, Proceed
<1>1. /\ GraphGood /\ SsspTypes /\ InRelax
      /\ \A F \in [Vertices(graph) -> Nat] : Potential(F) => AboveIt(F)
  BY <1>0, InRelaxRegion
<1>2. /\ RelaxTypes /\ BinsFrom(curr_bin_index) /\ (\A s \in Threads : AtWork(s)) /\ NoneForgotten
  BY <1>1 DEF InRelax
<1>3. PICK next : next = [step |-> "barrier"]
  OBVIOUS
<1>4. doing' = [doing EXCEPT ![t] = next] /\ doing \in [Threads -> RelaxState(graph)]
      /\ next \in RelaxState(graph) /\ next.step = "barrier"
  BY <1>2, <1>3 DEF Vote, Proceed, RelaxTypes, RelaxState
<1>5. doing'[t] = next /\ \A s \in Threads \ {t} : doing'[s] = doing[s]
  BY <1>4
<1>6. /\ now \in 0..1 /\ after \in 0..1 /\ now # after
      /\ curr_bin_index \in 0..kMaxBin /\ next_bin_index \in 0..kMaxBin
      /\ now' = now /\ after' = after /\ kMaxBin \in Nat
  BY <1>0, <1>1, Indexes, DeltaSteppingAssumption DEF now, after
<1>7. PICK nonempty : nonempty = {b \in curr_bin_index..(kMaxBin - 1) : local_bins[t][b] # << >>}
  OBVIOUS
<1>8. shared_indexes' =
           IF nonempty = {} THEN shared_indexes
           ELSE [shared_indexes EXCEPT ![after] = lowest(shared_indexes[after], Min(nonempty))]
  BY <1>7 DEF Vote
<1>9. /\ shared_indexes' \in [0..1 -> 0..kMaxBin] /\ shared_indexes'[now] = shared_indexes[now]
      /\ shared_indexes'[after] <= shared_indexes[after]
      /\ \A b \in nonempty : shared_indexes'[after] <= b
  <2>1. shared_indexes \in [0..1 -> 0..kMaxBin]
    BY <1>1 DEF SsspTypes
  <2>2. CASE nonempty = {}
    BY <1>6, <1>8, <2>1, <2>2
  <2>3. CASE nonempty # {}
    <3>1. nonempty \subseteq Nat /\ nonempty \subseteq 0..kMaxBin
      BY <1>6, <1>7
    <3>2. Min(nonempty) \in nonempty /\ \A b \in nonempty : Min(nonempty) <= b
      BY <2>3, <3>1, LeastOf
    <3>3. PICK m : m = Min(nonempty)
      OBVIOUS
    <3>4. m \in 0..kMaxBin /\ \A b \in nonempty : m <= b
      BY <3>1, <3>2, <3>3
    <3>5. shared_indexes' = [shared_indexes EXCEPT ![after] = IF shared_indexes[after] < m THEN shared_indexes[after] ELSE m]
      BY <1>8, <2>3, <3>3 DEF lowest
    <3>6. PICK low : low = IF shared_indexes[after] < m THEN shared_indexes[after] ELSE m
      OBVIOUS
    <3>7. low \in 0..kMaxBin /\ low <= shared_indexes[after] /\ low <= m
      BY <2>1, <3>4, <3>6, <1>6
    <3>8. \A b \in nonempty : low <= b
      BY <3>1, <3>4, <3>7
    <3>9. shared_indexes' = [shared_indexes EXCEPT ![after] = low]
      BY <3>5, <3>6
    <3> QED BY <2>1, <3>7, <3>8, <3>9, <1>6
  <2> QED BY <2>2, <2>3
<1>10. /\ curr_bin_index' = curr_bin_index /\ next_bin_index' <= next_bin_index /\ next_bin_index' \in 0..kMaxBin
       /\ \A b \in nonempty : next_bin_index' <= b
  BY <1>6, <1>9 DEF curr_bin_index, next_bin_index
<1>11. GraphGood' /\ SsspTypes' /\ BinsFrom(curr_bin_index)'
  BY <1>0, <1>1, <1>2, <1>9, <1>10 DEF GraphGood, SsspTypes, BinsFrom
<1>12. RelaxTypes'
  BY <1>0, <1>2, <1>4, <1>6, <1>10 DEF RelaxTypes
<1>13. ASSUME NEW F \in [Vertices(graph)' -> Nat], Potential(F)' PROVE AboveIt(F)'
  <2>1. F \in [Vertices(graph) -> Nat] /\ Potential(F)
    BY <1>0, <1>13 DEF Potential
  <2>2. AboveIt(F)
    BY <2>1, <1>1
  <2> QED BY <2>2, <1>0, <1>4, <1>5 DEF AboveIt
<1>14. ASSUME NEW s \in Threads PROVE AtWork(s)'
  <2>1. AtWork(s) /\ AtWork(t)
    BY <1>2
  <2>2. HandGood(doing[s])'
    <3>1. HandGood(doing'[s])
      BY <2>1, <1>4, <1>5 DEF AtWork, HandGood, EdgeSteps
    <3> QED BY <3>1, <1>0, <1>10 DEF HandGood, BinOf
  <2>3. doing'[s].step \in {"vote", "barrier"} => todo' = {}
    BY <2>1, <1>0, <1>5 DEF AtWork
  <2>4. ASSUME doing'[s].step = "barrier", NEW b \in curr_bin_index..(kMaxBin - 1), local_bins[s][b] # << >>
        PROVE  next_bin_index' <= b
    <3>1. CASE s = t
      BY <3>1, <2>4, <1>7, <1>10
    <3>2. CASE s # t
      <4>1. next_bin_index <= b
        BY <3>2, <2>1, <2>4, <1>5 DEF AtWork
      <4> QED BY <4>1, <1>6, <1>10
    <3> QED BY <3>1, <3>2
  <2>5. \A u \in Range(local_bins'[s][curr_bin_index']) : curr_bin_index' <= BinOf(dist[u])'
    BY <2>1, <1>0, <1>10 DEF AtWork, BinOf
  <2>6. AtWork(s)' <=> /\ HandGood(doing[s])'
                       /\ \A u \in Range(local_bins'[s][curr_bin_index']) : curr_bin_index' <= BinOf(dist[u])'
                       /\ doing'[s].step \in {"vote", "barrier"} => todo' = {}
                       /\ doing'[s].step = "barrier" =>
                            \A k \in (curr_bin_index')..(kMaxBin - 1) :
                              local_bins'[s][k] # << >> => next_bin_index' <= k
    BY DEF AtWork
  <2> QED BY <2>2, <2>3, <2>4, <2>5, <2>6, <1>0, <1>10
<1>15. NoneForgotten'
  <2>1. \A u, e : ~Has(doing[t], u, e) /\ u \notin Waiting(doing[t])
    BY <1>0 DEF Has, Waiting, EdgeSteps
  <2>2. ASSUME NEW u, NEW e, \E s \in Threads : Has(doing[s], u, e) PROVE \E s \in Threads : Has(doing[s], u, e)'
    <3>1. \E s \in Threads : Has(doing'[s], u, e)
      BY <2>1, <2>2, <1>5
    <3> QED BY <3>1, <1>0 DEF Has
  <2>3. ASSUME NEW u, Waits(u) PROVE Waits(u)'
    <3>1. (\E s \in Threads : u \in Waiting(doing[s])) => \E r \in Threads : u \in Waiting(doing'[r])
      BY <2>1, <1>5
    <3> QED BY <2>3, <3>1, <1>0, <1>10 DEF Waits, InBin, OnFrontier, BinOf
  <2> QED BY <2>2, <2>3, <1>0, <1>2 DEF NoneForgotten, Relaxed
<1> QED BY <1>0, <1>11, <1>12, <1>13, <1>14, <1>15 DEF SsspInv, InRelax

(* All have voted: only bins hold nodes, none below the next.              *)
LEMMA PassesFirstBarrier ==
  ASSUME SsspInv, FirstBarrier
  PROVE  SsspInv'
<1>0. region = "relax" /\ AllAt("barrier") /\ region' = "exchange"
      /\ UNCHANGED <<job, graph, todo, dist, frontier, shared_indexes, frontier_tails, sssp_iter, local_bins>>
  BY DEF FirstBarrier, ssspVars
<1>1. /\ GraphGood /\ SsspTypes /\ InRelax
      /\ \A F \in [Vertices(graph) -> Nat] : Potential(F) => AboveIt(F)
  BY <1>0, InRelaxRegion
<1>2. /\ RelaxTypes /\ BinsFrom(curr_bin_index) /\ (\A s \in Threads : AtWork(s)) /\ NoneForgotten
  BY <1>1 DEF InRelax
<1>3. PICK first \in Threads :
       doing' = [t \in Threads |-> [step |-> IF t = first THEN "single" ELSE "reserve"]]
  BY DEF FirstBarrier
<1>4. \A t \in Threads : doing'[t].step = (IF t = first THEN "single" ELSE "reserve")
  BY <1>3
<1>5. doing' \in [Threads -> ExchangeState]
  BY <1>3 DEF ExchangeState
<1>6. /\ curr_bin_index \in 0..kMaxBin /\ next_bin_index \in 0..kMaxBin /\ kMaxBin \in Nat
      /\ now' = now /\ after' = after
      /\ curr_bin_index' = curr_bin_index /\ next_bin_index' = next_bin_index
  BY <1>0, <1>1, Indexes, DeltaSteppingAssumption DEF now, after, curr_bin_index, next_bin_index
<1>7. \A s \in Threads : doing[s].step = "barrier"
  BY <1>0 DEF AllAt
<1>8. todo = {}
  BY <1>2, <1>3, <1>7 DEF AtWork
<1>9. \A s \in Threads : \A k \in 0..(kMaxBin - 1) : local_bins[s][k] # << >> => next_bin_index <= k
  <2>1. ASSUME NEW s \in Threads, NEW k \in 0..(kMaxBin - 1), local_bins[s][k] # << >>
        PROVE  next_bin_index <= k
    <3>1. k \notin 0..(curr_bin_index - 1)
      BY <2>1, <1>2 DEF BinsFrom
    <3>2. k \in curr_bin_index..(kMaxBin - 1)
      BY <3>1, <1>6
    <3>3. AtWork(s)
      BY <1>2
    <3> QED BY <2>1, <3>2, <3>3, <1>7 DEF AtWork
  <2> QED BY <2>1
<1>10. BinsFrom(next_bin_index)
  <2>1. \A k \in 0..(next_bin_index - 1) : k \in 0..(kMaxBin - 1) /\ ~(next_bin_index <= k)
    BY <1>6
  <2> QED BY <1>9, <2>1 DEF BinsFrom
<1>11. \A t \in Threads : Room(t)' = {}
  BY <1>4 DEF Room
<1>12. frontier_tails[after] = 0
  BY <1>2 DEF RelaxTypes
<1>13. ASSUME NEW u \in Vertices(graph), NEW e \in Range(graph.out[u]), dist[u] < kDistInf, ~Relaxed(u, e)
       PROVE  next_bin_index <= BinOf(dist[u]) /\ InBin(u)
  <2>1. Waits(u)
    <3>1. \A s \in Threads : ~Has(doing[s], u, e)
      BY <1>7 DEF Has, EdgeSteps
    <3> QED BY <3>1, <1>2, <1>13 DEF NoneForgotten
  <2>2. InBin(u)
    BY <2>1, <1>7, <1>8 DEF Waits, OnFrontier, Waiting, EdgeSteps
  <2>3. PICK s \in Threads : u \in Range(local_bins[s][BinOf(dist[u])])
    BY <2>2 DEF InBin
  <2>4. BinOf(dist[u]) \in 0..(kMaxBin - 1)
    <3>1. dist[u] \in Nat /\ job.delta \in Nat \ {0} /\ kDistInf \in Nat /\ kDistInf <= kMaxBin
      BY <1>1, DeltaSteppingAssumption DEF SsspTypes, GraphGood
    <3>2. BinOf(dist[u]) \in Nat /\ BinOf(dist[u]) <= dist[u]
      BY <3>1, Bins DEF BinOf
    <3> QED BY <3>1, <3>2, <1>6, <1>13
  <2>5. local_bins[s][BinOf(dist[u])] # << >>
    BY <2>3 DEF Range
  <2> QED BY <2>2, <2>4, <2>5, <1>9
<1>14. ASSUME NEW F \in [Vertices(graph)' -> Nat], Potential(F)' PROVE AboveIt(F)'
  <2>1. F \in [Vertices(graph) -> Nat] /\ Potential(F)
    BY <1>0, <1>14 DEF Potential
  <2>2. AboveIt(F)
    BY <2>1, <1>1
  <2> QED BY <2>2, <1>0, <1>4 DEF AboveIt
<1>15. GraphGood' /\ SsspTypes'
  BY <1>0, <1>1 DEF GraphGood, SsspTypes
<1>16. InExchange'
  <2>1. BinsFrom(next_bin_index)'
    BY <1>0, <1>6, <1>10 DEF BinsFrom
  <2>2. 0..(frontier_tails'[after'] - 1) = {}
    BY <1>0, <1>6, <1>12
  <2>3. \A u \in Vertices(graph) : \A e \in Range(graph.out[u]) :
          (dist[u] < kDistInf => Relaxed(u, e) \/ (next_bin_index <= BinOf(dist[u]) /\ (InBin(u) \/ OnNext(u))))'
    BY <1>0, <1>6, <1>13 DEF Relaxed, InBin, BinOf
  <2>4. \A t \in Threads : doing'[t].step # "end" /\ doing'[t].step # "copy"
    BY <1>4
  <2>5. \E t \in Threads : doing'[t].step = "single"
    BY <1>4
  <2> QED BY <1>0, <1>5, <1>6, <1>8, <1>11, <1>12, <2>1, <2>2, <2>3, <2>4, <2>5 DEF InExchange
<1> QED BY <1>0, <1>14, <1>15, <1>16 DEF SsspInv

LEMMA InExchangeRegion ==
  ASSUME SsspInv, region = "exchange"
  PROVE  /\ GraphGood /\ SsspTypes /\ InExchange
         /\ \A F \in [Vertices(graph) -> Nat] : Potential(F) => AboveIt(F)
         /\ now \in 0..1 /\ after \in 0..1 /\ now # after /\ kMaxBin \in Nat
         /\ curr_bin_index \in 0..kMaxBin /\ next_bin_index \in 0..kMaxBin
         /\ frontier_tails[now] \in Nat /\ frontier_tails[after] \in Nat
         /\ local_bins \in [Threads -> [0..(kMaxBin - 1) -> Seq(Vertices(graph))]]
<1>1. GraphGood /\ SsspTypes /\ InExchange
      /\ \A F \in [Vertices(graph) -> Nat] : Potential(F) => AboveIt(F)
  BY DEF SsspInv
<1> QED BY <1>1, Indexes, DeltaSteppingAssumption DEF SsspTypes

(* A potential stays below distances that are kept.                        *)
LEMMA AboveItKept ==
  ASSUME \A F \in [Vertices(graph) -> Nat] : Potential(F) => AboveIt(F),
         UNCHANGED <<job, graph, dist>>,
         \A t \in Threads : doing'[t].step \notin {"swap", "retry"}
  PROVE  (\A F \in [Vertices(graph) -> Nat] : Potential(F) => AboveIt(F))'
<1> SUFFICES ASSUME NEW F \in [Vertices(graph)' -> Nat], Potential(F)' PROVE AboveIt(F)'
  OBVIOUS
<1>1. F \in [Vertices(graph) -> Nat] /\ Potential(F)
  BY DEF Potential
<1>2. AboveIt(F)
  BY <1>1
<1> QED BY <1>2 DEF AboveIt

LEMMA ResetsCurrent ==
  ASSUME SsspInv, NEW t \in Threads, ResetCurrent(t)
  PROVE  SsspInv'
<1>0. /\ region = "exchange" /\ doing[t].step = "single"
      /\ shared_indexes' = [shared_indexes EXCEPT ![now] = kMaxBin]
      /\ frontier_tails' = [frontier_tails EXCEPT ![now] = 0]
      /\ doing' = [doing EXCEPT ![t] = [step |-> "reserve"]]
      /\ UNCHANGED <<job, graph, region, todo, dist, frontier, sssp_iter, local_bins>>
  BY DEF ResetCurrent, At, Proceed
<1>1. /\ GraphGood /\ SsspTypes /\ InExchange
      /\ \A F \in [Vertices(graph) -> Nat] : Potential(F) => AboveIt(F)
      /\ now \in 0..1 /\ after \in 0..1 /\ now # after /\ kMaxBin \in Nat
  BY <1>0, InExchangeRegion
<1>2. /\ shared_indexes \in [0..1 -> 0..kMaxBin] /\ frontier_tails \in [0..1 -> Nat]
      /\ doing \in [Threads -> ExchangeState]
  BY <1>1 DEF SsspTypes, InExchange
<1>3. /\ shared_indexes' \in [0..1 -> 0..kMaxBin] /\ frontier_tails' \in [0..1 -> Nat]
      /\ shared_indexes'[now] = kMaxBin /\ shared_indexes'[after] = shared_indexes[after]
      /\ frontier_tails'[now] = 0 /\ frontier_tails'[after] = frontier_tails[after]
      /\ now' = now /\ after' = after
  BY <1>0, <1>1, <1>2 DEF now, after
<1>4. /\ curr_bin_index' = kMaxBin /\ next_bin_index' = next_bin_index
      /\ frontier_tails'[now'] = 0 /\ frontier_tails'[after'] = frontier_tails[after]
  BY <1>3 DEF curr_bin_index, next_bin_index
<1>5. /\ doing' \in [Threads -> ExchangeState]
      /\ doing'[t].step = "reserve" /\ \A s \in Threads \ {t} : doing'[s] = doing[s]
  BY <1>0, <1>2 DEF ExchangeState
<1>6. \A s \in Threads : Room(s)' = Room(s)
  BY <1>0, <1>4, <1>5 DEF Room
<1>7. \A u : OnNext(u) => OnNext(u)'
  BY <1>0, <1>4, <1>6 DEF OnNext
<1>8. \A u : InBin(u) => InBin(u)'
  BY <1>0 DEF InBin, BinOf
<1>9. BinsFrom(next_bin_index)'
  BY <1>0, <1>1, <1>4 DEF BinsFrom, InExchange
<1>10. \A u \in Vertices(graph) : \A e \in Range(graph.out[u]) :
         (dist[u] < kDistInf => Relaxed(u, e) \/ (next_bin_index <= BinOf(dist[u]) /\ (InBin(u) \/ OnNext(u))))'
  <2>1. \A u \in Vertices(graph) : \A e \in Range(graph.out[u]) :
          dist[u] < kDistInf => Relaxed(u, e) \/ (next_bin_index <= BinOf(dist[u]) /\ (InBin(u) \/ OnNext(u)))
    BY <1>1 DEF InExchange
  <2> QED BY <2>1, <1>0, <1>4, <1>7, <1>8 DEF Relaxed, BinOf
<1>11. \A s \in Threads :
         /\ (doing[s].step = "end" /\ next_bin_index < kMaxBin => local_bins[s][next_bin_index] = << >>)'
         /\ (doing[s].step = "copy" => next_bin_index < kMaxBin)'
         /\ (Room(s) \subseteq 0..(frontier_tails[after] - 1))'
         /\ \A r \in Threads \ {s} : (Room(r) \cap Room(s) = {})'
  BY <1>0, <1>1, <1>4, <1>5, <1>6 DEF InExchange
<1>12. \A i \in 0..(frontier_tails[after] - 1)' :
         (frontier[i] \in Vertices(graph) \/ \E s \in Threads : i \in Room(s))'
  BY <1>0, <1>1, <1>4, <1>6 DEF InExchange
<1>13. InExchange'
  BY <1>0, <1>1, <1>4, <1>5, <1>9, <1>10, <1>11, <1>12 DEF InExchange
<1>14. GraphGood' /\ SsspTypes'
  BY <1>0, <1>1, <1>3 DEF GraphGood, SsspTypes
<1>15. \A s \in Threads : doing'[s].step \notin {"swap", "retry"}
  BY <1>5 DEF ExchangeState
<1> QED BY <1>0, <1>1, <1>13, <1>14, <1>15, AboveItKept DEF SsspInv

(* A thread reserves room on the frontier, or has nothing to copy.         *)
LEMMA ReservesRoom ==
  ASSUME SsspInv, region = "exchange", NEW t \in Threads, doing[t].step = "reserve",
         NEW next,
         doing' = [doing EXCEPT ![t] = next],
         \/ /\ next_bin_index = kMaxBin \/ local_bins[t][next_bin_index] = << >>
            /\ next = [step |-> "end"] /\ frontier_tails' = frontier_tails
         \/ /\ ~(next_bin_index = kMaxBin \/ local_bins[t][next_bin_index] = << >>)
            /\ next = [step |-> "copy", start |-> frontier_tails[after]]
            /\ frontier_tails' = [frontier_tails EXCEPT ![after] = @ + Len(local_bins[t][next_bin_index])],
         UNCHANGED <<job, graph, region, todo, dist, frontier, shared_indexes, sssp_iter, local_bins>>
  PROVE  SsspInv'
<1>1. /\ GraphGood /\ SsspTypes /\ InExchange
      /\ \A F \in [Vertices(graph) -> Nat] : Potential(F) => AboveIt(F)
      /\ now \in 0..1 /\ after \in 0..1 /\ now # after /\ kMaxBin \in Nat
      /\ next_bin_index \in 0..kMaxBin
      /\ frontier_tails[now] \in Nat /\ frontier_tails[after] \in Nat
      /\ local_bins \in [Threads -> [0..(kMaxBin - 1) -> Seq(Vertices(graph))]]
  BY InExchangeRegion
<1>2. frontier_tails \in [0..1 -> Nat] /\ doing \in [Threads -> ExchangeState]
  BY <1>1 DEF SsspTypes, InExchange
<1>3. PICK tail \in Nat : tail = frontier_tails[after]
  BY <1>1
<1>4. PICK new : new = frontier_tails'[after]
  OBVIOUS
<1>5. /\ new \in Nat /\ tail <= new /\ frontier_tails' \in [0..1 -> Nat]
      /\ frontier_tails'[now] = frontier_tails[now]
      /\ \/ /\ next = [step |-> "end"] /\ new = tail
            /\ next_bin_index = kMaxBin \/ local_bins[t][next_bin_index] = << >>
         \/ /\ next = [step |-> "copy", start |-> tail] /\ next_bin_index < kMaxBin
            /\ new = tail + Len(local_bins[t][next_bin_index])
  <2>1. CASE next_bin_index = kMaxBin \/ local_bins[t][next_bin_index] = << >>
    BY <2>1, <1>2, <1>3, <1>4
  <2>2. CASE ~(next_bin_index = kMaxBin \/ local_bins[t][next_bin_index] = << >>)
    <3>1. next_bin_index \in 0..(kMaxBin - 1)
      BY <2>2, <1>1
    <3>2. Len(local_bins[t][next_bin_index]) \in Nat
      <4>1. local_bins[t][next_bin_index] \in Seq(Vertices(graph))
        BY <3>1, <1>1
      <4> QED BY <4>1
    <3>3. PICK n \in Nat : n = Len(local_bins[t][next_bin_index])
      BY <3>2
    <3>4. frontier_tails' = [frontier_tails EXCEPT ![after] = tail + n]
      BY <2>2, <3>3, <1>3
    <3>5. new = tail + n /\ frontier_tails' \in [0..1 -> Nat] /\ frontier_tails'[now] = frontier_tails[now]
      BY <3>4, <1>1, <1>2, <1>4
    <3>6. next = [step |-> "copy", start |-> tail] /\ next_bin_index < kMaxBin /\ tail <= new
      BY <2>2, <3>1, <3>5, <1>1, <1>3
    <3>7. new = tail + Len(local_bins[t][next_bin_index]) /\ new \in Nat
      BY <3>3, <3>5
    <3> QED BY <3>5, <3>6, <3>7
  <2> QED BY <2>1, <2>2
<1>6. /\ now' = now /\ after' = after
      /\ curr_bin_index' = curr_bin_index /\ next_bin_index' = next_bin_index
  BY DEF curr_bin_index, next_bin_index, now, after
<1>7. /\ doing' \in [Threads -> ExchangeState]
      /\ doing'[t] = next /\ \A s \in Threads \ {t} : doing'[s] = doing[s]
  BY <1>2, <1>5 DEF ExchangeState
<1>8. /\ Room(t) = {} /\ \A s \in Threads \ {t} : Room(s)' = Room(s)
      /\ \A i \in Room(t)' : i >= tail /\ i <= new - 1 /\ i \in Nat
  <2>1. Room(t) = {}
    BY DEF Room
  <2>2. \A s \in Threads \ {t} : Room(s)' = Room(s)
    BY <1>6, <1>7 DEF Room
  <2>3. CASE next = [step |-> "end"]
    BY <2>1, <2>2, <2>3, <1>7 DEF Room
  <2>4. CASE /\ next = [step |-> "copy", start |-> tail] /\ new = tail + Len(local_bins[t][next_bin_index])
    <3>1. PICK n : n = Len(local_bins[t][next_bin_index])
      OBVIOUS
    <3>2. Room(t)' = tail..(tail + n - 1)
      BY <2>4, <3>1, <1>6, <1>7 DEF Room
    <3>3. new = tail + n
      BY <2>4, <3>1
    <3>4. n \in Int
      BY <3>3, <1>5, <2>4, <1>1, <3>1
    <3> QED BY <2>1, <2>2, <3>2, <3>3, <3>4, <1>5
  <2> QED BY <2>3, <2>4, <1>5
<1>9. /\ \A s \in Threads : Room(s) \subseteq 0..(tail - 1)
      /\ \A s, r \in Threads : s # r => Room(r) \cap Room(s) = {}
      /\ \A i \in 0..(tail - 1) : frontier[i] \in Vertices(graph) \/ \E s \in Threads : i \in Room(s)
  BY <1>1, <1>3 DEF InExchange
<1>10. /\ \A s \in Threads : Room(s)' \subseteq 0..(new - 1)
       /\ \A s, r \in Threads : s # r => (Room(r) \cap Room(s))' = {}
  <2>1. \A s \in Threads : Room(s)' \subseteq 0..(new - 1)
    <3>1. Room(t)' \subseteq 0..(new - 1)
      BY <1>5, <1>8
    <3>2. ASSUME NEW s \in Threads \ {t} PROVE Room(s)' \subseteq 0..(new - 1)
      BY <1>5, <1>8, <1>9
    <3> QED BY <3>1, <3>2
  <2>2. \A s \in Threads \ {t} : Room(s)' \cap Room(t)' = {}
    BY <1>8, <1>9
  <2>3. \A s, r \in Threads \ {t} : s # r => Room(r)' \cap Room(s)' = {}
    BY <1>8, <1>9
  <2>4. \A s, r \in Threads : s # r => Room(r)' \cap Room(s)' = {}
    BY <2>2, <2>3
  <2> QED BY <2>1, <2>4
<1>11. ASSUME NEW i \in 0..(new - 1) PROVE frontier[i] \in Vertices(graph) \/ \E s \in Threads : i \in Room(s)'
  <2>1. CASE i \in 0..(tail - 1)
    <3>1. \A s \in Threads : i \in Room(s) => s # t /\ i \in Room(s)'
      BY <1>8
    <3> QED BY <2>1, <3>1, <1>9
  <2>2. CASE i \notin 0..(tail - 1)
    <3>1. next = [step |-> "copy", start |-> tail] /\ new = tail + Len(local_bins[t][next_bin_index])
      BY <2>2, <1>5
    <3>2. Room(t)' = tail..(tail + Len(local_bins[t][next_bin_index]) - 1)
      BY <3>1, <1>6, <1>7 DEF Room
    <3>3. Room(t)' = tail..(new - 1)
      BY <3>1, <3>2
    <3> QED BY <2>2, <3>3, <1>5
  <2> QED BY <2>1, <2>2
<1>12. ASSUME NEW u, OnNext(u) PROVE OnNext(u)'
  <2>1. PICK i \in 0..(tail - 1) : frontier[i] = u /\ \A s \in Threads : i \notin Room(s)
    BY <1>3, <1>12 DEF OnNext
  <2>2. \A s \in Threads : i \notin Room(s)'
    BY <2>1, <1>8
  <2>3. i \in 0..(new - 1)
    BY <1>5
  <2>4. i \in 0..(frontier_tails'[after'] - 1)
    BY <2>3, <1>4, <1>6
  <2> QED BY <2>1, <2>2, <2>4 DEF OnNext
<1>13. \A u \in Vertices(graph) : \A e \in Range(graph.out[u]) :
         (dist[u] < kDistInf => Relaxed(u, e) \/ (next_bin_index <= BinOf(dist[u]) /\ (InBin(u) \/ OnNext(u))))'
  <2>1. \A u \in Vertices(graph) : \A e \in Range(graph.out[u]) :
          dist[u] < kDistInf => Relaxed(u, e) \/ (next_bin_index <= BinOf(dist[u]) /\ (InBin(u) \/ OnNext(u)))
    BY <1>1 DEF InExchange
  <2>2. \A u : InBin(u) => InBin(u)'
    BY DEF InBin, BinOf
  <2> QED BY <2>1, <2>2, <1>6, <1>12 DEF Relaxed, BinOf
<1>14. \A s \in Threads :
         /\ doing'[s].step = "end" /\ next_bin_index < kMaxBin => local_bins[s][next_bin_index] = << >>
         /\ doing'[s].step = "copy" => next_bin_index < kMaxBin
  <2>1. \A s \in Threads \ {t} :
         /\ doing'[s].step = "end" /\ next_bin_index < kMaxBin => local_bins[s][next_bin_index] = << >>
         /\ doing'[s].step = "copy" => next_bin_index < kMaxBin
    BY <1>1, <1>7 DEF InExchange
  <2>2. /\ doing'[t].step = "end" /\ next_bin_index < kMaxBin => local_bins[t][next_bin_index] = << >>
        /\ doing'[t].step = "copy" => next_bin_index < kMaxBin
    BY <1>1, <1>5, <1>7
  <2> QED BY <2>1, <2>2
<1>15. /\ next_bin_index = kMaxBin => new = 0
       /\ \/ \E s \in Threads : doing'[s].step = "single"
          \/ curr_bin_index = kMaxBin /\ frontier_tails'[now] = 0
  <2>1. next_bin_index = kMaxBin => new = 0
    BY <1>1, <1>3, <1>5 DEF InExchange
  <2>2. ASSUME NEW s \in Threads, doing[s].step = "single" PROVE doing'[s].step = "single"
    BY <2>2, <1>7
  <2> QED BY <2>1, <2>2, <1>1, <1>5 DEF InExchange
<1>16. BinsFrom(next_bin_index)' /\ todo' = {}
  BY <1>1, <1>6 DEF BinsFrom, InExchange
<1>17. InExchange'
  <2>1. \A s \in Threads :
         /\ (doing[s].step = "end" /\ next_bin_index < kMaxBin => local_bins[s][next_bin_index] = << >>)'
         /\ (doing[s].step = "copy" => next_bin_index < kMaxBin)'
         /\ (Room(s) \subseteq 0..(frontier_tails[after] - 1))'
         /\ \A r \in Threads \ {s} : (Room(r) \cap Room(s) = {})'
    BY <1>4, <1>6, <1>10, <1>14
  <2>2. \A i \in 0..(frontier_tails[after] - 1)' :
         (frontier[i] \in Vertices(graph) \/ \E s \in Threads : i \in Room(s))'
    BY <1>4, <1>6, <1>11
  <2>3. /\ doing' \in [Threads -> ExchangeState] /\ todo' = {}
        /\ (next_bin_index = kMaxBin => frontier_tails[after] = 0)'
        /\ (\/ \E s \in Threads : doing[s].step = "single"
            \/ curr_bin_index = kMaxBin /\ frontier_tails[now] = 0)'
    BY <1>4, <1>6, <1>7, <1>15, <1>16
  <2> QED BY <2>1, <2>2, <2>3, <1>13, <1>16 DEF InExchange
<1>18. GraphGood' /\ SsspTypes'
  BY <1>1, <1>5 DEF GraphGood, SsspTypes
<1>19. \A s \in Threads : doing'[s].step \notin {"swap", "retry"}
  BY <1>7 DEF ExchangeState
<1> QED BY <1>1, <1>17, <1>18, <1>19, AboveItKept DEF SsspInv

(* A thread copies its bin into the room it has reserved.                  *)
LEMMA CopiesItsBin ==
  ASSUME SsspInv, FrontierFits, region = "exchange", NEW t \in Threads, doing[t].step = "copy",
         NEW bin, bin = local_bins[t][next_bin_index], NEW start, start = doing[t].start,
         frontier' = [i \in DOMAIN frontier |->
              IF i - start + 1 \in DOMAIN bin THEN bin[i - start + 1] ELSE frontier[i]],
         local_bins' = [local_bins EXCEPT ![t][next_bin_index] = << >>],
         doing' = [doing EXCEPT ![t] = [step |-> "end"]],
         UNCHANGED <<job, graph, region, todo, dist, shared_indexes, frontier_tails, sssp_iter>>
  PROVE  SsspInv'
<1>1. /\ GraphGood /\ SsspTypes /\ InExchange
      /\ \A F \in [Vertices(graph) -> Nat] : Potential(F) => AboveIt(F)
      /\ now \in 0..1 /\ after \in 0..1 /\ now # after /\ kMaxBin \in Nat
      /\ local_bins \in [Threads -> [0..(kMaxBin - 1) -> Seq(Vertices(graph))]]
  BY InExchangeRegion
<1>2. doing \in [Threads -> ExchangeState]
  BY <1>1 DEF InExchange
<1>3. PICK b : b = next_bin_index
  OBVIOUS
<1>4. PICK tail : tail = frontier_tails[after]
  OBVIOUS
<1>5. /\ b \in 0..(kMaxBin - 1) /\ tail \in Nat /\ start \in Nat /\ bin \in Seq(Vertices(graph))
      /\ Len(bin) \in Nat /\ DOMAIN bin = 1..Len(bin)
  <2>1. b \in 0..(kMaxBin - 1)
    BY <1>1, <1>3, InExchangeRegion DEF InExchange
  <2>2. start \in Nat
    BY <1>2 DEF ExchangeState
  <2>3. bin \in Seq(Vertices(graph))
    BY <2>1, <1>1, <1>3
  <2>4. Len(bin) \in Nat /\ DOMAIN bin = 1..Len(bin)
    BY <2>3
  <2>5. tail \in Nat
    BY <1>4, InExchangeRegion
  <2> QED BY <2>1, <2>2, <2>3, <2>4, <2>5
<1>6. /\ now' = now /\ after' = after
      /\ curr_bin_index' = curr_bin_index /\ next_bin_index' = b
  BY <1>3 DEF curr_bin_index, next_bin_index, now, after
<1>7. /\ doing' \in [Threads -> ExchangeState]
      /\ doing'[t].step = "end" /\ \A s \in Threads \ {t} : doing'[s] = doing[s]
  BY <1>2 DEF ExchangeState
<1>8. /\ local_bins' \in [Threads -> [0..(kMaxBin - 1) -> Seq(Vertices(graph))]]
      /\ local_bins'[t][b] = << >>
      /\ \A k \in 0..(kMaxBin - 1) : k # b => local_bins'[t][k] = local_bins[t][k]
      /\ \A s \in Threads \ {t} : local_bins'[s] = local_bins[s]
  <2>1. local_bins[t] \in [0..(kMaxBin - 1) -> Seq(Vertices(graph))]
    BY <1>1
  <2>2. << >> \in Seq(Vertices(graph))
    OBVIOUS
  <2>3. local_bins' = [local_bins EXCEPT ![t] = [local_bins[t] EXCEPT ![b] = << >>]]
    BY <1>1, <1>3, <1>5
  <2> QED BY <2>2, <2>3, <1>1, <1>3, <1>5, OneBinChanges
<1>9. /\ Room(t) = start..(start + Len(bin) - 1) /\ Room(t)' = {}
      /\ \A s \in Threads \ {t} : Room(s)' = Room(s)
  <2>1. Room(t) = start..(start + Len(bin) - 1)
    BY DEF Room
  <2>2. Room(t)' = {}
    BY <1>7 DEF Room
  <2>3. \A s \in Threads \ {t} : local_bins'[s][next_bin_index'] = local_bins[s][next_bin_index]
    BY <1>3, <1>6, <1>8
  <2>4. \A s \in Threads \ {t} : Room(s)' = Room(s)
    BY <2>3, <1>7 DEF Room
  <2> QED BY <2>1, <2>2, <2>4
<1>10. /\ \A s \in Threads : Room(s) \subseteq 0..(tail - 1)
       /\ \A s, r \in Threads : s # r => Room(r) \cap Room(s) = {}
       /\ \A i \in 0..(tail - 1) : frontier[i] \in Vertices(graph) \/ \E s \in Threads : i \in Room(s)
  BY <1>1, <1>4 DEF InExchange
<1>11. \A i \in 0..(tail - 1) : i \in DOMAIN frontier
  <2>1. dist # << >>
    <3>1. dist \in [Vertices(graph) -> 0..kDistInf] /\ job.source \in Vertices(graph)
      BY <1>1 DEF SsspTypes, GraphGood
    <3>2. DOMAIN dist # {}
      BY <3>1
    <3> QED BY <3>2
  <2> QED BY <2>1, <1>1, <1>4 DEF FrontierFits
<1>12. \A i \in 0..(tail - 1) : i \in Room(t) <=> i - start + 1 \in 1..Len(bin)
  <2>1. /\ start \in Int /\ tail \in Int /\ Len(bin) \in Int
        /\ Room(t) = start..(start + Len(bin) - 1)
    BY <1>5, <1>9
  <2> QED BY SMTT(30), <2>1
<1>13. \A i \in 0..(tail - 1) :
         frontier'[i] = IF i \in Room(t) THEN bin[i - start + 1] ELSE frontier[i]
  <2>1. \A i \in DOMAIN frontier :
          frontier'[i] = IF i - start + 1 \in DOMAIN bin THEN bin[i - start + 1] ELSE frontier[i]
    OBVIOUS
  <2> QED BY <2>1, <1>5, <1>11, <1>12
<1>14. ASSUME NEW i \in 0..(tail - 1) PROVE frontier'[i] \in Vertices(graph) \/ \E s \in Threads : i \in Room(s)'
  <2>1. CASE i \in Room(t)
    <3>1. bin[i - start + 1] \in Vertices(graph)
      BY <2>1, <1>5, <1>12
    <3> QED BY <2>1, <3>1, <1>13
  <2>2. CASE i \notin Room(t)
    <3>1. (\E s \in Threads : i \in Room(s)) => \E s \in Threads \ {t} : i \in Room(s)'
      BY <2>2, <1>9
    <3> QED BY <2>2, <3>1, <1>10, <1>13
  <2> QED BY <2>1, <2>2
<1>15. ASSUME NEW u, OnNext(u) PROVE OnNext(u)'
  <2>1. PICK i \in 0..(tail - 1) : frontier[i] = u /\ \A s \in Threads : i \notin Room(s)
    BY <1>4, <1>15 DEF OnNext
  <2>2. frontier'[i] = u /\ \A s \in Threads : i \notin Room(s)'
    BY <2>1, <1>9, <1>13
  <2>3. i \in 0..(frontier_tails'[after'] - 1)
    BY <1>4, <1>6
  <2> QED BY <2>2, <2>3 DEF OnNext
<1>16. ASSUME NEW u \in Range(bin) PROVE OnNext(u)'
  <2>1. PICK k \in 1..Len(bin) : u = bin[k]
    BY <1>5, <1>16 DEF Range
  <2>2. PICK i : i = start + k - 1
    OBVIOUS
  <2>3. i \in Room(t) /\ i - start + 1 = k
    BY <2>2, <1>5, <1>9
  <2>4. i \in 0..(tail - 1)
    BY <2>3, <1>10
  <2>5. frontier'[i] = u
    BY <2>1, <2>3, <2>4, <1>13
  <2>6. \A s \in Threads : i \notin Room(s)'
    <3>1. i \notin Room(t)'
      BY <1>9
    <3>2. \A s \in Threads \ {t} : i \notin Room(s)
      BY <2>3, <1>10
    <3> QED BY <3>1, <3>2, <1>9
  <2>7. i \in 0..(frontier_tails'[after'] - 1)
    BY <2>4, <1>4, <1>6
  <2> QED BY <2>5, <2>6, <2>7 DEF OnNext
<1>17. ASSUME NEW u \in Vertices(graph), dist[u] < kDistInf, InBin(u)
       PROVE  InBin(u)' \/ OnNext(u)'
  <2>1. PICK s \in Threads : u \in Range(local_bins[s][BinOf(dist[u])])
    BY <1>17 DEF InBin
  <2>2. CASE s = t /\ BinOf(dist[u]) = b
    <3>1. u \in Range(bin)
      BY <2>1, <2>2, <1>3
    <3> QED BY <3>1, <1>16
  <2>3. CASE ~(s = t /\ BinOf(dist[u]) = b)
    <3>1. BinOf(dist[u]) \in 0..(kMaxBin - 1)
      <4>1. dist[u] \in Nat /\ job.delta \in Nat \ {0} /\ kDistInf \in Nat /\ kDistInf <= kMaxBin
        BY <1>1, DeltaSteppingAssumption DEF SsspTypes, GraphGood
      <4>2. BinOf(dist[u]) \in Nat /\ BinOf(dist[u]) <= dist[u]
        BY <4>1, Bins DEF BinOf
      <4> QED BY <4>1, <4>2, <1>1, <1>17
    <3>2. local_bins'[s][BinOf(dist[u])] = local_bins[s][BinOf(dist[u])]
      BY <2>3, <3>1, <1>8
    <3>3. InBin(u)'
      BY <2>1, <3>2 DEF InBin, BinOf
    <3> QED BY <3>3
  <2> QED BY <2>2, <2>3
<1>18. \A u \in Vertices(graph) : \A e \in Range(graph.out[u]) :
         (dist[u] < kDistInf => Relaxed(u, e) \/ (next_bin_index <= BinOf(dist[u]) /\ (InBin(u) \/ OnNext(u))))'
  <2>1. \A u \in Vertices(graph) : \A e \in Range(graph.out[u]) :
          dist[u] < kDistInf => Relaxed(u, e) \/ (next_bin_index <= BinOf(dist[u]) /\ (InBin(u) \/ OnNext(u)))
    BY <1>1 DEF InExchange
  <2> QED BY <2>1, <1>3, <1>6, <1>15, <1>17 DEF Relaxed, BinOf
<1>19. BinsFrom(next_bin_index)' /\ todo' = {}
  <2>1. \A s \in Threads : \A k \in 0..(b - 1) : local_bins[s][k] = << >>
    BY <1>1, <1>3 DEF InExchange, BinsFrom
  <2>2. \A k \in 0..(b - 1) : k \in 0..(kMaxBin - 1) /\ k # b
    BY <1>1, <1>5
  <2>3. \A s \in Threads : \A k \in 0..(b - 1) : local_bins'[s][k] = << >>
    BY <2>1, <2>2, <1>8
  <2> QED BY <2>3, <1>1, <1>6 DEF BinsFrom, InExchange
<1>20. InExchange'
  <2>1. ASSUME NEW s \in Threads
        PROVE  /\ (doing[s].step = "end" /\ next_bin_index < kMaxBin => local_bins[s][next_bin_index] = << >>)'
               /\ (doing[s].step = "copy" => next_bin_index < kMaxBin)'
    <3>1. CASE s = t
      BY <3>1, <1>6, <1>7, <1>8
    <3>2. CASE s # t
      BY <3>2, <1>1, <1>3, <1>6, <1>7, <1>8 DEF InExchange
    <3> QED BY <3>1, <3>2
  <2>2. \A s \in Threads :
         /\ (Room(s) \subseteq 0..(frontier_tails[after] - 1))'
         /\ \A r \in Threads \ {s} : (Room(r) \cap Room(s) = {})'
    <3>1. \A s \in Threads : Room(s)' \subseteq Room(s)
      BY <1>9
    <3>2. \A s, r \in Threads : s # r => Room(r)' \cap Room(s)' = {}
      BY <3>1, <1>10
    <3> QED BY <3>1, <3>2, <1>4, <1>6, <1>10
  <2>3. \A i \in 0..(frontier_tails[after] - 1)' :
         (frontier[i] \in Vertices(graph) \/ \E s \in Threads : i \in Room(s))'
    BY <1>4, <1>6, <1>14
  <2>4. (\E s \in Threads : doing[s].step = "single") => \E s \in Threads : doing'[s].step = "single"
    BY <1>7
  <2>5. /\ doing' \in [Threads -> ExchangeState] /\ todo' = {}
        /\ (next_bin_index = kMaxBin => frontier_tails[after] = 0)'
        /\ (\/ \E s \in Threads : doing[s].step = "single"
            \/ curr_bin_index = kMaxBin /\ frontier_tails[now] = 0)'
    BY <2>4, <1>1, <1>3, <1>6, <1>7, <1>19 DEF InExchange
  <2> QED BY <2>1, <2>2, <2>3, <2>5, <1>18, <1>19 DEF InExchange
<1>21. GraphGood' /\ SsspTypes'
  BY <1>1, <1>8 DEF GraphGood, SsspTypes
<1>22. \A s \in Threads : doing'[s].step \notin {"swap", "retry"}
  BY <1>7 DEF ExchangeState
<1> QED BY <1>1, <1>20, <1>21, <1>22, AboveItKept DEF SsspInv

LEMMA CopiesBin ==
  ASSUME SsspInv, FrontierFits, NEW t \in Threads, CopyBin(t)
  PROVE  SsspInv'
<1>1. region = "exchange" /\ UNCHANGED <<job, graph, region, todo, dist, shared_indexes, sssp_iter>>
  BY DEF CopyBin, At, Proceed
<1>2. CASE At(t, "exchange", "reserve")
  <2>1. doing[t].step = "reserve" /\ UNCHANGED <<frontier, local_bins>>
    BY <1>2 DEF CopyBin, At
  <2>2. CASE next_bin_index = kMaxBin \/ local_bins[t][next_bin_index] = << >>
    <3>1. frontier_tails' = frontier_tails /\ doing' = [doing EXCEPT ![t] = [step |-> "end"]]
      BY <1>2, <2>2 DEF CopyBin, At, Proceed
    <3> QED BY <1>1, <2>1, <2>2, <3>1, ReservesRoom
  <2>3. CASE ~(next_bin_index = kMaxBin \/ local_bins[t][next_bin_index] = << >>)
    <3>1. /\ frontier_tails' = [frontier_tails EXCEPT ![after] = @ + Len(local_bins[t][next_bin_index])]
          /\ doing' = [doing EXCEPT ![t] = [step |-> "copy", start |-> frontier_tails[after]]]
      BY <1>2, <2>3 DEF CopyBin, At, Proceed
    <3> QED BY <1>1, <2>1, <2>3, <3>1, ReservesRoom
  <2> QED BY <2>2, <2>3
<1>3. CASE At(t, "exchange", "copy")
  <2>1. PICK bin, start : bin = local_bins[t][next_bin_index] /\ start = doing[t].start
    OBVIOUS
  <2>2. /\ doing[t].step = "copy" /\ frontier_tails' = frontier_tails
        /\ frontier' = [i \in DOMAIN frontier |->
              IF i - start + 1 \in DOMAIN bin THEN bin[i - start + 1] ELSE frontier[i]]
        /\ local_bins' = [local_bins EXCEPT ![t][next_bin_index] = << >>]
        /\ doing' = [doing EXCEPT ![t] = [step |-> "end"]]
    BY <1>3, <2>1 DEF CopyBin, At, Proceed
  <2> QED BY <1>1, <2>1, <2>2, CopiesItsBin
<1> QED BY <1>2, <1>3 DEF CopyBin

(* The next iteration, or the end: no bin is left.                         *)
LEMMA PassesSecondBarrier ==
  ASSUME SsspInv, SecondBarrier
  PROVE  SsspInv'
<1>0. region = "exchange" /\ AllAt("end") /\ sssp_iter' = sssp_iter + 1
      /\ UNCHANGED <<job, graph, dist, frontier, shared_indexes, frontier_tails, local_bins>>
  BY DEF SecondBarrier
<1>1. /\ GraphGood /\ SsspTypes /\ InExchange
      /\ \A F \in [Vertices(graph) -> Nat] : Potential(F) => AboveIt(F)
      /\ now \in 0..1 /\ after \in 0..1 /\ now # after /\ kMaxBin \in Nat
      /\ next_bin_index \in 0..kMaxBin
      /\ local_bins \in [Threads -> [0..(kMaxBin - 1) -> Seq(Vertices(graph))]]
  BY <1>0, InExchangeRegion
<1>2. now' = after /\ after' = now
  <2>1. PICK n \in Nat : n = sssp_iter
    BY <1>1 DEF SsspTypes
  <2>2. (n + 1 + 1) % 2 = n % 2
    OBVIOUS
  <2> QED BY <2>1, <2>2, <1>0 DEF now, after
<1>3. curr_bin_index' = next_bin_index /\ next_bin_index' = curr_bin_index
  BY <1>0, <1>2 DEF curr_bin_index, next_bin_index
<1>4. /\ \A t \in Threads : doing[t].step = "end"
      /\ \A t \in Threads : Room(t) = {}
      /\ curr_bin_index = kMaxBin /\ frontier_tails[now] = 0
  <2>1. \A t \in Threads : doing[t].step = "end"
    BY <1>0 DEF AllAt
  <2>2. \A t \in Threads : Room(t) = {}
    BY <2>1 DEF Room
  <2>3. ~\E t \in Threads : doing[t].step = "single"
    BY <2>1
  <2> QED BY <2>1, <2>2, <2>3, <1>1 DEF InExchange
<1>5. GraphGood' /\ SsspTypes'
  BY <1>0, <1>1 DEF GraphGood, SsspTypes
<1>6. doing' = [t \in Threads |-> Idle]
  BY DEF SecondBarrier, Enter
<1>7. \A t \in Threads : doing'[t] = Idle /\ doing'[t].step = "idle"
  BY <1>6 DEF Idle
<1>8. (\A F \in [Vertices(graph) -> Nat] : Potential(F) => AboveIt(F))'
  <2>1. \A t \in Threads : doing'[t].step \notin {"swap", "retry"}
    BY <1>7
  <2> QED BY <2>1, <1>0, <1>1, AboveItKept
<1>9. \A u \in Vertices(graph) : \A e \in Range(graph.out[u]) :
          dist[u] < kDistInf => Relaxed(u, e) \/ (next_bin_index <= BinOf(dist[u]) /\ (InBin(u) \/ OnNext(u)))
  BY <1>1 DEF InExchange
<1>10. ASSUME NEW u \in Vertices(graph), dist[u] < kDistInf PROVE BinOf(dist[u]) \in 0..(kMaxBin - 1)
  <2>1. dist[u] \in Nat /\ job.delta \in Nat \ {0} /\ kDistInf \in Nat /\ kDistInf <= kMaxBin
    BY <1>1, DeltaSteppingAssumption DEF SsspTypes, GraphGood
  <2>2. BinOf(dist[u]) \in Nat /\ BinOf(dist[u]) <= dist[u]
    BY <2>1, Bins DEF BinOf
  <2> QED BY <2>1, <2>2, <1>1, <1>10
<1>11. CASE next_bin_index # kMaxBin
  <2>1. region' = "relax" /\ todo' = 0..(frontier_tails[after] - 1)
    BY <1>11 DEF SecondBarrier, Enter
  <2>2. RelaxTypes'
    <3>1. \A i \in 0..(frontier_tails[after] - 1) : frontier[i] \in Vertices(graph)
      BY <1>1, <1>4 DEF InExchange
    <3>2. doing' \in [Threads -> RelaxState(graph)]
      BY <1>6 DEF RelaxState, Idle
    <3> QED BY <2>1, <3>1, <3>2, <1>0, <1>1, <1>2, <1>3, <1>4, <1>11 DEF RelaxTypes
  <2>3. BinsFrom(curr_bin_index)'
    <3>1. BinsFrom(next_bin_index)
      BY <1>1 DEF InExchange
    <3> QED BY <3>1, <1>0, <1>3 DEF BinsFrom
  <2>4. ASSUME NEW t \in Threads PROVE AtWork(t)'
    <3>1. local_bins[t][next_bin_index] = << >>
      BY <1>1, <1>4, <1>11 DEF InExchange
    <3>2. Range(<< >>) = {}
      BY DEF Range
    <3>3. HandGood(doing[t])'
      BY <1>7 DEF HandGood, EdgeSteps
    <3> QED BY <3>1, <3>2, <3>3, <1>0, <1>3, <1>7 DEF AtWork
  <2>5. NoneForgotten'
    <3>1. SUFFICES ASSUME NEW u \in Vertices(graph), NEW e \in Range(graph.out[u]), dist[u] < kDistInf,
                          ~Relaxed(u, e)
                   PROVE  Waits(u)'
      BY <1>0 DEF NoneForgotten, Relaxed
    <3>2. next_bin_index <= BinOf(dist[u]) /\ (InBin(u) \/ OnNext(u))
      BY <3>1, <1>9
    <3>3. InBin(u) => InBin(u)'
      BY <1>0 DEF InBin, BinOf
    <3>4. OnNext(u) => OnFrontier(u)'
      BY <2>1, <1>0 DEF OnNext, OnFrontier
    <3> QED BY <3>2, <3>3, <3>4, <1>0, <1>3 DEF Waits, BinOf
  <2> QED BY <2>1, <2>2, <2>3, <2>4, <2>5, <1>5, <1>8 DEF SsspInv, InRelax
<1>12. CASE next_bin_index = kMaxBin
  <2>1. region' = "finished"
    BY <1>12 DEF SecondBarrier, Enter
  <2>2. ASSUME NEW u \in Vertices(graph), NEW e \in Range(graph.out[u]), dist[u] < kDistInf
        PROVE  Relaxed(u, e)
    <3>1. ~(next_bin_index <= BinOf(dist[u]))
      BY <2>2, <1>1, <1>10, <1>12
    <3> QED BY <2>2, <3>1, <1>9
  <2>3. (\A u \in Vertices(graph) : \A e \in Range(graph.out[u]) : dist[u] < kDistInf => Relaxed(u, e))'
    BY <2>2, <1>0 DEF Relaxed
  <2> QED BY <2>1, <2>3, <1>5, <1>8 DEF SsspInv
<1> QED BY <1>11, <1>12

(* The search begins: the source is on the frontier.                       *)
LEMMA Starts ==
  ASSUME SsspInv, StartSssp, FrontierFits'
  PROVE  SsspInv'
<1>0. /\ region = "built" /\ UNCHANGED <<job, graph>> /\ GraphGood
      /\ dist' = [[n \in Vertices(graph) |-> kDistInf] EXCEPT ![job.source] = 0]
      /\ frontier' = [i \in 0..(num_edges_directed(graph) - 1) |-> IF i = 0 THEN job.source ELSE -1]
      /\ shared_indexes' = Pair(0, kMaxBin)
      /\ frontier_tails' = Pair(1, 0)
      /\ sssp_iter' = 0
      /\ local_bins' = [t \in Threads |-> NoBins]
      /\ region' = "relax" /\ todo' = {0} /\ doing' = [t \in Threads |-> Idle]
  BY DEF StartSssp, Enter, SsspInv
<1>1. job.source \in Vertices(graph) /\ job.delta \in Nat \ {0}
      /\ kDistInf \in Nat \ {0} /\ kMaxBin \in Nat \ {0}
      /\ \A u \in Vertices(graph) : graph.out[u] \in Seq(Arc(graph))
  BY <1>0, DeltaSteppingAssumption DEF GraphGood
<1>2. /\ dist' \in [Vertices(graph) -> 0..kDistInf] /\ dist'[job.source] = 0
      /\ \A n \in Vertices(graph) \ {job.source} : dist'[n] = kDistInf
  BY <1>0, <1>1
<1>3. now' = 0 /\ after' = 1
  <2>1. 0 % 2 = 0 /\ (0 + 1) % 2 = 1
    OBVIOUS
  <2> QED BY <2>1, <1>0 DEF now, after
<1>4. /\ shared_indexes' \in [0..1 -> 0..kMaxBin] /\ shared_indexes'[0] = 0 /\ shared_indexes'[1] = kMaxBin
      /\ frontier_tails' \in [0..1 -> Nat] /\ frontier_tails'[0] = 1 /\ frontier_tails'[1] = 0
  BY <1>0, <1>1 DEF Pair
<1>5. curr_bin_index' = 0 /\ next_bin_index' = kMaxBin
  BY <1>3, <1>4 DEF curr_bin_index, next_bin_index
<1>6. /\ local_bins' \in [Threads -> [0..(kMaxBin - 1) -> Seq(Vertices(graph))]]
      /\ \A t \in Threads : \A b \in 0..(kMaxBin - 1) : local_bins'[t][b] = << >>
  BY <1>0 DEF NoBins
<1>7. GraphGood' /\ SsspTypes'
  <2>1. 0 \in Nat
    OBVIOUS
  <2> QED BY <2>1, <1>0, <1>2, <1>4, <1>6 DEF GraphGood, SsspTypes
<1>8. frontier'[0] = job.source
  <2>1. dist' # << >>
    <3>1. DOMAIN dist' # {}
      BY <1>1, <1>2
    <3> QED BY <3>1
  <2>2. 0..(frontier_tails'[0] - 1) \subseteq DOMAIN frontier'
    BY <2>1 DEF FrontierFits
  <2>3. 0 \in DOMAIN frontier'
    BY <2>2, <1>4
  <2> QED BY <2>3, <1>0
<1>9. \A t \in Threads : doing'[t] = Idle /\ doing'[t].step = "idle"
  BY <1>0 DEF Idle
<1>10. (\A F \in [Vertices(graph) -> Nat] : Potential(F) => AboveIt(F))'
  <2> SUFFICES ASSUME NEW F \in [Vertices(graph)' -> Nat], Potential(F)' PROVE AboveIt(F)'
    OBVIOUS
  <2>1. Potential(F) /\ F \in [Vertices(graph) -> Nat]
    BY <1>0 DEF Potential
  <2>2. \A v \in Vertices(graph) : F[v] <= dist'[v]
    BY <2>1, <1>1, <1>2 DEF Potential
  <2> QED BY <2>2, <1>0, <1>9 DEF AboveIt
<1>11. RelaxTypes'
  <2>1. doing' \in [Threads -> RelaxState(graph)]
    BY <1>0 DEF RelaxState, Idle
  <2> QED BY <2>1, <1>0, <1>1, <1>3, <1>4, <1>5, <1>8 DEF RelaxTypes
<1>12. BinsFrom(curr_bin_index)'
  <2>1. 0..(0 - 1) = {}
    OBVIOUS
  <2> QED BY <2>1, <1>5 DEF BinsFrom
<1>13. ASSUME NEW t \in Threads PROVE AtWork(t)'
  <2>1. local_bins'[t][curr_bin_index'] = << >>
    BY <1>1, <1>5, <1>6
  <2>2. Range(<< >>) = {}
    BY DEF Range
  <2>3. HandGood(doing[t])'
    BY <1>9 DEF HandGood, EdgeSteps
  <2> QED BY <2>1, <2>2, <2>3, <1>9 DEF AtWork
<1>14. NoneForgotten'
  <2>1. SUFFICES ASSUME NEW u \in Vertices(graph), dist'[u] < kDistInf PROVE Waits(u)'
    BY <1>0 DEF NoneForgotten
  <2>2. u = job.source
    BY <2>1, <1>1, <1>2
  <2>3. OnFrontier(u)'
    BY <2>2, <1>0, <1>8 DEF OnFrontier
  <2>4. BinOf(dist[u])' \in Nat
    <3>1. dist'[u] \in Nat
      BY <2>2, <1>2
    <3>2. dist'[u] \div job.delta \in Nat
      BY <3>1, <1>1, Bins
    <3> QED BY <3>2, <1>0 DEF BinOf
  <2> QED BY <2>3, <2>4, <1>5 DEF Waits
<1> QED BY <1>0, <1>7, <1>10, <1>11, <1>12, <1>13, <1>14 DEF SsspInv, InRelax

LEMMA SsspSteps ==
  ASSUME SsspInv, FrontierFits, FrontierFits', [SsspNext]_ssspAll
  PROVE  SsspInv'
<1>1. CASE UNCHANGED ssspAll
  <2>1. UNCHANGED <<job, graph, region, todo, doing, dist, frontier, shared_indexes, frontier_tails,
                    sssp_iter, local_bins>>
    BY <1>1 DEF ssspAll, loopVars, ssspVars
  <2>2. /\ curr_bin_index' = curr_bin_index /\ next_bin_index' = next_bin_index
        /\ now' = now /\ after' = after
    BY <2>1 DEF curr_bin_index, next_bin_index, now, after
  <2>3. GraphGood' = GraphGood /\ SsspTypes' = SsspTypes
    BY <2>1 DEF GraphGood, SsspTypes
  <2>4. InRelax => InRelax'
    <3>1. RelaxTypes => RelaxTypes'
      BY <2>1, <2>2 DEF RelaxTypes
    <3>2. \A t \in Threads : AtWork(t) => AtWork(t)'
      BY <2>1, <2>2 DEF AtWork, HandGood, BinOf
    <3>3. NoneForgotten => NoneForgotten'
      BY <2>1, <2>2 DEF NoneForgotten, Relaxed, Waits, Has, InBin, OnFrontier, BinOf
    <3> QED BY <2>1, <2>2, <3>1, <3>2, <3>3 DEF InRelax, BinsFrom
  <2>5. InExchange => InExchange'
    BY <2>1, <2>2 DEF InExchange, BinsFrom, Room, OnNext, InBin, Relaxed, BinOf
  <2>6. (\A F \in [Vertices(graph) -> Nat] : Potential(F) => AboveIt(F))
          => (\A F \in [Vertices(graph) -> Nat] : Potential(F) => AboveIt(F))'
    BY <2>1 DEF Potential, AboveIt
  <2> QED BY <2>1, <2>3, <2>4, <2>5, <2>6 DEF SsspInv, Relaxed
<1>2. CASE \E t \in Threads : TakeNode(t) \/ RelaxEdges(t) \/ Lower(t) \/ Fuse(t) \/ Vote(t)
                              \/ ResetCurrent(t) \/ CopyBin(t)
  BY <1>2, TakesANode, RelaxesEdges, Lowers, Fuses, Votes, ResetsCurrent, CopiesBin
<1>3. CASE StartSssp \/ FirstBarrier \/ SecondBarrier
  BY <1>3, Starts, PassesFirstBarrier, PassesSecondBarrier
<1> QED BY <1>1, <1>2, <1>3 DEF SsspNext

LEMMA SsspInvHolds == SsspSpec /\ []FrontierFits => []SsspInv
<1>1. SsspStart => SsspInv
  BY DEF SsspStart, SsspInv, GraphGood, SsspInit, Arc
<1>2. SsspInv /\ FrontierFits /\ FrontierFits' /\ [SsspNext]_ssspAll => SsspInv'
  BY SsspSteps
<1> QED BY <1>1, <1>2, PTL DEF SsspSpec

-----------------------------------------------------------------------------
(* The greatest potential is the lengths of the shortest paths.            *)

RoundsUpTo(s, b, m) ==
  b = [k \in 0..m |-> IF k = 0 THEN Unreached(s) ELSE Shortened(b[k - 1])]

LEMMA RoundsAre ==
  ASSUME graph.num_nodes \in Nat, NEW s
  PROVE  RoundsUpTo(s, Rounds(s), graph.num_nodes)
<1>1. PICK S : S = {m \in 0..graph.num_nodes : \E b : RoundsUpTo(s, b, m)}
  OBVIOUS
<1>2. 0 \in S
  <2>1. PICK b : b = [k \in 0..0 |-> Unreached(s)]
    OBVIOUS
  <2>2. RoundsUpTo(s, b, 0)
    BY <2>1 DEF RoundsUpTo
  <2> QED BY <1>1, <2>2
<1>3. ASSUME NEW m \in 0..(graph.num_nodes - 1), m \in S PROVE m + 1 \in S
  <2>1. PICK b : RoundsUpTo(s, b, m)
    BY <1>1, <1>3
  <2>2. PICK next : next = [k \in 0..(m + 1) |-> IF k = m + 1 THEN Shortened(b[m]) ELSE b[k]]
    OBVIOUS
  <2>3. /\ next[m + 1] = Shortened(b[m])
        /\ \A k \in 0..m : next[k] = b[k]
    BY <2>2
  <2>4. \A k \in 0..m : b[k] = IF k = 0 THEN Unreached(s) ELSE Shortened(b[k - 1])
    BY <2>1 DEF RoundsUpTo
  <2>5. ASSUME NEW k \in 0..(m + 1)
        PROVE  next[k] = IF k = 0 THEN Unreached(s) ELSE Shortened(next[k - 1])
    <3>1. CASE k = 0
      <4>1. 0 \in 0..m
        OBVIOUS
      <4>2. next[0] = b[0] /\ b[0] = Unreached(s)
        BY <2>3, <2>4, <4>1
      <4> QED BY <3>1, <4>2
    <3>2. CASE k = m + 1
      <4>1. k # 0 /\ k - 1 = m /\ next[m] = b[m]
        BY <2>3, <3>2
      <4> QED BY <2>3, <3>2, <4>1
    <3>3. CASE k # 0 /\ k # m + 1
      <4>1. k \in 0..m /\ k - 1 \in 0..m
        BY <3>3
      <4>2. next[k] = b[k] /\ next[k - 1] = b[k - 1]
        BY <2>3, <4>1
      <4> QED BY <2>4, <3>3, <4>1, <4>2
    <3> QED BY <3>1, <3>2, <3>3
  <2>6. next = [k \in 0..(m + 1) |-> next[k]]
    BY <2>2
  <2>7. RoundsUpTo(s, next, m + 1)
    BY <2>5, <2>6 DEF RoundsUpTo
  <2> QED BY <1>1, <2>7
<1>4. graph.num_nodes \in S
  BY <1>2, <1>3, Counting
<1>5. \E b : RoundsUpTo(s, b, graph.num_nodes)
  BY <1>1, <1>4
<1> QED BY <1>5 DEF Rounds, RoundsUpTo

(* There is a greatest potential.                                          *)
LEMMA GreatestPotential ==
  ASSUME GraphGood
  PROVE  \E D \in [Vertices(graph) -> Nat] :
           Potential(D) /\ \A F \in [Vertices(graph) -> Nat] : Potential(F) =>
                             \A v \in Vertices(graph) : F[v] <= D[v]
<1>0. /\ kDistInf \in Nat /\ job.source \in Vertices(graph)
      /\ \A u \in Vertices(graph) : graph.out[u] \in Seq(Arc(graph))
  BY DeltaSteppingAssumption DEF GraphGood
<1>a. \A u \in Vertices(graph) : \A e \in Range(graph.out[u]) : e.v \in Vertices(graph) /\ e.w \in Nat
  BY <1>0, RangeIn DEF Arc
<1>1. PICK P : P = {F \in [Vertices(graph) -> Nat] : Potential(F)}
  OBVIOUS
<1>2. [v \in Vertices(graph) |-> 0] \in P
  BY <1>0, <1>1, <1>a DEF Potential
<1>3. PICK D : D = [v \in Vertices(graph) |-> Min({m \in Nat : \A F \in P : F[v] <= m})]
  OBVIOUS
<1>4. ASSUME NEW v \in Vertices(graph)
      PROVE  /\ D[v] \in Nat /\ \A F \in P : F[v] <= D[v]
             /\ \E F \in P : F[v] = D[v]
  <2>1. PICK M : M = {m \in Nat : \A F \in P : F[v] <= m}
    OBVIOUS
  <2>2. kDistInf \in M
    BY <1>0, <1>1, <2>1 DEF Potential
  <2>3. Min(M) \in M /\ \A m \in M : Min(M) <= m
    BY <2>1, <2>2, LeastOf
  <2>4. D[v] = Min(M)
    BY <1>3, <2>1
  <2>5. PICK d \in Nat : d = D[v]
    BY <2>1, <2>3, <2>4
  <2>6. d \in M /\ \A m \in M : d <= m
    BY <2>3, <2>4, <2>5
  <2>7. \E F \in P : F[v] = d
    <3>1. CASE d = 0
      BY <3>1, <1>2
    <3>2. CASE d # 0
      <4>1. d - 1 \in Nat /\ d - 1 \notin M
        BY <2>6, <3>2
      <4>2. PICK F \in P : ~(F[v] <= d - 1)
        BY <2>1, <4>1
      <4>3. F[v] \in Nat /\ F[v] <= d
        BY <1>1, <2>1, <2>6
      <4> QED BY <4>2, <4>3
    <3> QED BY <3>1, <3>2
  <2> QED BY <2>1, <2>5, <2>6, <2>7
<1>5. D \in [Vertices(graph) -> Nat]
  BY <1>3, <1>4
<1>6. Potential(D)
  <2>1. D[job.source] <= 0
    <3>1. PICK F \in P : F[job.source] = D[job.source]
      BY <1>0, <1>4
    <3> QED BY <3>1, <1>1 DEF Potential
  <2>2. ASSUME NEW v \in Vertices(graph) PROVE D[v] <= kDistInf
    <3>1. PICK F \in P : F[v] = D[v]
      BY <1>4
    <3> QED BY <3>1, <1>1 DEF Potential
  <2>3. ASSUME NEW u \in Vertices(graph), NEW e \in Range(graph.out[u]) PROVE D[e.v] <= D[u] + e.w
    <3>1. e.v \in Vertices(graph) /\ e.w \in Nat
      BY <1>a
    <3>2. PICK F \in P : F[e.v] = D[e.v]
      BY <1>4, <3>1
    <3>3. F[e.v] <= F[u] + e.w /\ F[u] \in Nat
      BY <1>1 DEF Potential
    <3>4. F[u] <= D[u] /\ D[u] \in Nat /\ D[e.v] \in Nat
      BY <1>4, <3>1
    <3> QED BY <3>1, <3>2, <3>3, <3>4
  <2> QED BY <2>1, <2>2, <2>3 DEF Potential
<1> QED BY <1>1, <1>4, <1>5, <1>6

(* What one can reach with one edge more.                                  *)
LEMMA Shortening ==
  ASSUME GraphGood, NEW b \in [Vertices(graph) -> Nat], NEW v \in Vertices(graph)
  PROVE  /\ Shortened(b)[v] \in Nat /\ Shortened(b)[v] <= b[v]
         /\ \A u \in Vertices(graph) : \A e \in Range(graph.out[u]) :
              e.v = v => Shortened(b)[v] <= b[u] + e.w
         /\ \/ Shortened(b)[v] = b[v]
            \/ \E u \in Vertices(graph) : \E e \in Range(graph.out[u]) :
                 e.v = v /\ Shortened(b)[v] = b[u] + e.w
<1>0. \A u \in Vertices(graph) : graph.out[u] \in Seq(Arc(graph))
  BY DEF GraphGood
<1>1. \A u \in Vertices(graph) : \A i \in DOMAIN graph.out[u] :
        graph.out[u][i] \in Range(graph.out[u]) /\ graph.out[u][i].w \in Nat
  <2>1. \A u \in Vertices(graph) : \A i \in DOMAIN graph.out[u] : graph.out[u][i] \in Arc(graph)
    BY <1>0
  <2> QED BY <2>1 DEF Range, Arc
<1>2. PICK R : R = Reached(b, v)
  OBVIOUS
<1>3. b[v] \in R
  BY <1>2 DEF Reached
<1>4. ASSUME NEW u \in Vertices(graph), NEW e \in Range(graph.out[u]), e.v = v PROVE b[u] + e.w \in R
  <2>1. PICK i \in DOMAIN graph.out[u] : e = graph.out[u][i]
    BY DEF Range
  <2>2. b[u] + e.w \in {b[u] + graph.out[u][j].w : j \in {j \in DOMAIN graph.out[u] : graph.out[u][j].v = v}}
    BY <2>1, <1>4
  <2> QED BY <2>2, <1>2 DEF Reached
<1>5. ASSUME NEW x \in R
      PROVE  /\ x \in Nat
             /\ \/ x = b[v]
                \/ \E u \in Vertices(graph) : \E e \in Range(graph.out[u]) : e.v = v /\ x = b[u] + e.w
  <2>1. CASE x = b[v]
    BY <2>1
  <2>2. CASE x # b[v]
    <3>1. PICK u \in Vertices(graph) :
            x \in {b[u] + graph.out[u][i].w : i \in {i \in DOMAIN graph.out[u] : graph.out[u][i].v = v}}
      BY <1>2, <1>5, <2>2 DEF Reached
    <3>2. PICK i \in DOMAIN graph.out[u] : graph.out[u][i].v = v /\ x = b[u] + graph.out[u][i].w
      BY <3>1
    <3> QED BY <3>2, <1>1
  <2> QED BY <2>1, <2>2
<1>6. Min(R) \in R /\ \A x \in R : Min(R) <= x
  BY <1>3, <1>5, LeastOf
<1>7. Shortened(b)[v] = Min(R)
  BY <1>2 DEF Shortened
<1> QED BY <1>3, <1>4, <1>5, <1>6, <1>7

(* Distances are the greatest potential: with every edge more one reaches  *)
(* another node at it, as the others could be raised together if not.      *)
LEMMA DistancesArePotential ==
  ASSUME GraphGood, NEW D \in [Vertices(graph) -> Nat], Potential(D),
         \A F \in [Vertices(graph) -> Nat] : Potential(F) => \A v \in Vertices(graph) : F[v] <= D[v]
  PROVE  Distances(job.source) = D
<1>0. /\ kDistInf \in Nat /\ job.source \in Vertices(graph) /\ graph.num_nodes \in Nat
      /\ \A u \in Vertices(graph) : graph.out[u] \in Seq(Arc(graph))
  BY DeltaSteppingAssumption DEF GraphGood, IsGraph
<1>a. ASSUME NEW u \in Vertices(graph), NEW e \in Range(graph.out[u])
      PROVE  e.v \in Vertices(graph) /\ e.w \in Nat
  <2>1. graph.out[u] \in Seq(Arc(graph))
    BY <1>0
  <2>2. e \in Arc(graph)
    BY <2>1, RangeIn
  <2> QED BY <2>2 DEF Arc
<1>1. PICK N \in Nat : N = graph.num_nodes
  BY <1>0
<1>2. PICK best : best = Rounds(job.source)
  OBVIOUS
<1>3. best[0] = Unreached(job.source) /\ \A k \in 0..(N - 1) : best[k + 1] = Shortened(best[k])
  <2>1. RoundsUpTo(job.source, best, N)
    BY <1>0, <1>1, <1>2, RoundsAre
  <2>2. \A k \in 0..N : best[k] = IF k = 0 THEN Unreached(job.source) ELSE Shortened(best[k - 1])
    BY <2>1 DEF RoundsUpTo
  <2>3. best[0] = Unreached(job.source)
    BY <2>2
  <2>4. ASSUME NEW k \in 0..(N - 1) PROVE best[k + 1] = Shortened(best[k])
    <3>1. PICK i \in 0..N : i = k + 1
      OBVIOUS
    <3>2. i # 0 /\ i - 1 = k
      BY <3>1
    <3> QED BY <2>2, <3>1, <3>2
  <2> QED BY <2>3, <2>4
<1> DEFINE Exact(k) == {v \in Vertices(graph) : best[k][v] = D[v]}
<1>4. /\ best[0] \in [Vertices(graph) -> Nat] /\ best[0][job.source] = 0
      /\ \A v \in Vertices(graph) : best[0][v] <= kDistInf /\ D[v] <= best[0][v]
  BY <1>0, <1>3 DEF Unreached, Potential
<1>5. D[job.source] = 0 /\ \A v \in Vertices(graph) : D[v] <= kDistInf
  BY <1>0 DEF Potential
<1>6. PICK S : S = {k \in 0..N :
                      /\ best[k] \in [Vertices(graph) -> Nat] /\ job.source \in Exact(k)
                      /\ \A v \in Vertices(graph) : best[k][v] <= kDistInf /\ D[v] <= best[k][v]
                      /\ Exact(k) = Vertices(graph) \/ Cardinality(Exact(k)) >= k + 1}
  OBVIOUS
<1>7. /\ IsFiniteSet(Vertices(graph)) /\ Cardinality(Vertices(graph)) = N
  <2>1. /\ IsFiniteSet(0..(N - 1)) /\ Cardinality(0..(N - 1)) = IF 0 > N - 1 THEN 0 ELSE N - 1 - 0 + 1
    BY SMTT(30), FS_Interval
  <2> QED BY <2>1, <1>1 DEF Vertices
<1>8. \A k : IsFiniteSet(Exact(k)) /\ Cardinality(Exact(k)) \in Nat
  BY <1>7, FS_Subset, FS_CardinalityType
<1>9. 0 \in S
  <2>1. job.source \in Exact(0)
    BY <1>0, <1>4, <1>5
  <2>2. Cardinality(Exact(0)) # 0
    BY <2>1, <1>8, FS_EmptySet
  <2>3. Cardinality(Exact(0)) >= 0 + 1
    BY <2>2, <1>8
  <2> QED BY <2>1, <2>3, <1>4, <1>6
<1>10. ASSUME NEW k \in 0..(N - 1), k \in S PROVE k + 1 \in S
  <2>1. PICK b, c : b = best[k] /\ c = best[k + 1]
    OBVIOUS
  <2>2. /\ b \in [Vertices(graph) -> Nat] /\ c = Shortened(b)
        /\ \A v \in Vertices(graph) : b[v] <= kDistInf /\ D[v] <= b[v]
        /\ Exact(k) = Vertices(graph) \/ Cardinality(Exact(k)) >= k + 1
        /\ job.source \in Exact(k)
    BY <2>1, <1>3, <1>6, <1>10
  <2>3. c \in [Vertices(graph) -> Nat]
    <3>1. \A v \in Vertices(graph) : c[v] \in Nat
      BY <2>2, Shortening
    <3>2. c = [v \in Vertices(graph) |-> c[v]]
      BY <2>2 DEF Shortened
    <3> QED BY <3>1, <3>2
  <2>4. ASSUME NEW v \in Vertices(graph) PROVE c[v] <= b[v] /\ c[v] <= kDistInf /\ D[v] <= c[v]
    <3>1. c[v] \in Nat /\ c[v] <= b[v]
      BY <2>2, Shortening
    <3>2. D[v] <= c[v]
      <4>1. CASE c[v] = b[v]
        BY <4>1, <2>2
      <4>2. CASE c[v] # b[v]
        <5>1. PICK u \in Vertices(graph) : \E e \in Range(graph.out[u]) : e.v = v /\ c[v] = b[u] + e.w
          BY <2>2, <4>2, Shortening
        <5>2. PICK e \in Range(graph.out[u]) : e.v = v /\ c[v] = b[u] + e.w
          BY <5>1
        <5>3. D[v] <= D[u] + e.w /\ e.w \in Nat
          BY <5>2, <1>a DEF Potential
        <5>4. D[u] <= b[u] /\ D[u] \in Nat /\ b[u] \in Nat /\ D[v] \in Nat
          BY <2>2
        <5> QED BY <5>2, <5>3, <5>4
      <4> QED BY <4>1, <4>2
    <3> QED BY <3>1, <3>2, <2>2, <1>0
  <2>5. Exact(k) \subseteq Exact(k + 1)
    <3> SUFFICES ASSUME NEW v \in Exact(k) PROVE v \in Exact(k + 1)
      OBVIOUS
    <3>1. v \in Vertices(graph) /\ b[v] = D[v]
      BY <2>1
    <3>2. c[v] <= b[v] /\ D[v] <= c[v] /\ c[v] \in Nat /\ D[v] \in Nat
      BY <2>3, <2>4, <3>1
    <3>3. c[v] = D[v]
      BY <3>1, <3>2
    <3> QED BY <2>1, <3>1, <3>3
  <2>6. CASE Exact(k) = Vertices(graph)
    <3>1. Exact(k + 1) = Vertices(graph)
      BY <2>5, <2>6
    <3>2. k + 1 \in 0..N /\ job.source \in Exact(k + 1)
      BY <2>2, <2>5
    <3> HIDE DEF Exact
    <3> QED BY <2>1, <2>3, <2>4, <3>1, <3>2, <1>6
  <2>7. CASE Exact(k) # Vertices(graph)
    <3>1. Exact(k + 1) # Exact(k)
      <4>1. SUFFICES ASSUME Exact(k + 1) = Exact(k) PROVE FALSE
        OBVIOUS
      <4>2. PICK E : E = Exact(k)
        OBVIOUS
      <4>3. /\ E \subseteq Vertices(graph) /\ E # Vertices(graph) /\ job.source \in E
            /\ \A v \in Vertices(graph) : (v \in E <=> b[v] = D[v]) /\ (v \in E <=> c[v] = D[v])
        BY <2>1, <2>2, <2>7, <4>1, <4>2
      <4> HIDE DEF Exact
      <4>4. PICK F : F = [v \in Vertices(graph) |-> IF v \in E THEN D[v] ELSE D[v] + 1]
        OBVIOUS
      <4>5. F \in [Vertices(graph) -> Nat]
        BY <4>4
      <4>6. ASSUME NEW v \in Vertices(graph) PROVE F[v] <= kDistInf
        <5>1. CASE v \in E
          BY <5>1, <4>4, <1>5
        <5>2. CASE v \notin E
          <6>1. b[v] # D[v] /\ D[v] <= b[v] /\ b[v] <= kDistInf /\ b[v] \in Nat /\ D[v] \in Nat
            BY <5>2, <4>3, <2>2
          <6> QED BY <6>1, <5>2, <4>4, <1>0
        <5> QED BY <5>1, <5>2
      <4>7. ASSUME NEW u \in Vertices(graph), NEW e \in Range(graph.out[u]) PROVE F[e.v] <= F[u] + e.w
        <5>1. e.v \in Vertices(graph) /\ e.w \in Nat /\ D[e.v] <= D[u] + e.w
          BY <1>a DEF Potential
        <5>2. D[u] \in Nat /\ D[e.v] \in Nat
          BY <5>1
        <5>3. CASE u \notin E \/ e.v \in E
          BY <5>1, <5>2, <5>3, <4>4
        <5>4. CASE u \in E /\ e.v \notin E
          <6>1. c[e.v] <= b[u] + e.w
            BY <5>1, <2>2, Shortening
          <6>2. D[e.v] # c[e.v] /\ D[e.v] <= c[e.v] /\ b[u] = D[u] /\ c[e.v] \in Nat
            BY <5>1, <5>4, <4>3, <2>3, <2>4
          <6>3. D[e.v] + 1 <= D[u] + e.w
            BY <6>1, <6>2, <5>1, <5>2
          <6> QED BY <6>3, <5>1, <5>4, <4>4
        <5> QED BY <5>3, <5>4
      <4>8. F[job.source] <= 0
        BY <4>3, <4>4, <1>0, <1>5
      <4>9. Potential(F)
        BY <4>6, <4>7, <4>8 DEF Potential
      <4>10. PICK v \in Vertices(graph) : v \notin E
        BY <4>3
      <4>11. F[v] <= D[v] /\ F[v] = D[v] + 1 /\ D[v] \in Nat
        BY <4>4, <4>5, <4>9, <4>10
      <4> QED BY <4>11
    <3>2. Cardinality(Exact(k)) < Cardinality(Exact(k + 1))
      <4> HIDE DEF Exact
      <4> QED BY <2>5, <3>1, <1>8, FS_Subset
    <3>3. Cardinality(Exact(k + 1)) >= k + 1 + 1
      <4> HIDE DEF Exact
      <4>1. Cardinality(Exact(k)) \in Nat /\ Cardinality(Exact(k + 1)) \in Nat
        BY <1>8
      <4> QED BY <3>2, <4>1, <2>2, <2>7
    <3>4. k + 1 \in 0..N /\ job.source \in Exact(k + 1)
      BY <2>2, <2>5
    <3> HIDE DEF Exact
    <3> QED BY <2>1, <2>3, <2>4, <3>3, <3>4, <1>6 DEF Exact
  <2> QED BY <2>6, <2>7
<1>11. N \in S
  BY <1>9, <1>10, Counting
<1>12. Exact(N) = Vertices(graph)
  <2>1. Cardinality(Exact(N)) <= N
    BY <1>7, FS_Subset
  <2>2. Exact(N) = Vertices(graph) \/ Cardinality(Exact(N)) >= N + 1
    BY <1>6, <1>11
  <2> HIDE DEF Exact
  <2>3. Cardinality(Exact(N)) \in Nat
    BY <1>8
  <2> QED BY <2>1, <2>2, <2>3
<1>13. best[N] \in [Vertices(graph) -> Nat] /\ \A v \in Vertices(graph) : best[N][v] = D[v]
  BY <1>6, <1>11, <1>12
<1>14. best[N] = D
  BY <1>13
<1> QED BY <1>1, <1>2, <1>14 DEF Distances

(* However the threads interleave, and whichever bins their votes choose,  *)
(* no distance is ever less than a shortest path's, and at the end all are *)
(* what shortest paths are (sssp.cc:68), if the frontier has had room for  *)
(* what was copied to it.                                                  *)
THEOREM DistancesBecomeShortest == SsspSpec /\ []FrontierFits => []DistancesAreShortest
<1>1. SsspInv => DistancesAreShortest
  <2> SUFFICES ASSUME SsspInv, dist # << >>
               PROVE  /\ \A v \in Vertices(graph) : dist[v] >= Distances(job.source)[v]
                      /\ region = "finished" => dist = Distances(job.source)
    BY DEF DistancesAreShortest
  <2>1. /\ GraphGood /\ SsspTypes
        /\ \A F \in [Vertices(graph) -> Nat] : Potential(F) => AboveIt(F)
        /\ region = "finished" => \A u \in Vertices(graph) : \A e \in Range(graph.out[u]) :
                                    dist[u] < kDistInf => Relaxed(u, e)
    BY DEF SsspInv
  <2>2. PICK D \in [Vertices(graph) -> Nat] :
          Potential(D) /\ \A F \in [Vertices(graph) -> Nat] : Potential(F) =>
                             \A v \in Vertices(graph) : F[v] <= D[v]
    BY <2>1, GreatestPotential
  <2>3. Distances(job.source) = D
    BY <2>1, <2>2, DistancesArePotential
  <2>4. \A v \in Vertices(graph) : dist[v] \in Nat /\ D[v] \in Nat /\ dist[v] >= D[v]
    BY <2>1, <2>2 DEF AboveIt, SsspTypes
  <2>5. ASSUME region = "finished" PROVE dist = D
    <3>1. /\ dist \in [Vertices(graph) -> Nat] /\ kDistInf \in Nat
          /\ \A v \in Vertices(graph) : dist[v] <= kDistInf
          /\ dist[job.source] = 0
      BY <2>1, DeltaSteppingAssumption DEF SsspTypes
    <3>2. ASSUME NEW u \in Vertices(graph), NEW e \in Range(graph.out[u]) PROVE dist[e.v] <= dist[u] + e.w
      <4>1. e.v \in Vertices(graph) /\ e.w \in Nat
        <5>1. graph.out[u] \in Seq(Arc(graph))
          BY <2>1 DEF GraphGood
        <5>2. e \in Arc(graph)
          BY <5>1, RangeIn
        <5> QED BY <5>2 DEF Arc
      <4>2. CASE dist[u] < kDistInf
        BY <4>2, <2>1, <2>5 DEF Relaxed
      <4>3. CASE ~(dist[u] < kDistInf)
        BY <4>1, <4>3, <3>1
      <4> QED BY <4>2, <4>3
    <3>3. Potential(dist)
      BY <3>1, <3>2 DEF Potential
    <3>4. \A v \in Vertices(graph) : dist[v] <= D[v]
      BY <2>2, <3>1, <3>3
    <3>5. \A v \in Vertices(graph) : dist[v] = D[v]
      BY <2>4, <3>4
    <3> QED BY <2>2, <3>1, <3>5
  <2> QED BY <2>3, <2>4, <2>5
<1> QED BY <1>1, SsspInvHolds, PTL

-----------------------------------------------------------------------------
(* Building a graph                                                        *)
(*                                                                         *)
(* MakeCSR, run by MakeGraphFromEL alone, on any list of edges and with    *)
(* any number of threads.  A pass goes through the list twice.  While      *)
(* edges are counted, a node's count is that of the parts of edges that    *)
(* threads have finished. The prefix sums of the counts set a range of     *)
(* slots apart for each node; while entries are stored, the slots given    *)
(* out by fetch-and-add are distinct, fill each node's range from its      *)
(* start, and hold what is stored, or belong to the one thread that is     *)
(* about to store there.  So when all is stored a node's range holds its   *)
(* entries, each once.                                                     *)

(* A bounded set of numbers that is not empty has a greatest.              *)
LEMMA GreatestOf ==
  ASSUME NEW S, S \subseteq Nat, S # {}, NEW n \in Nat, \A x \in S : x <= n
  PROVE  Max(S) \in S /\ \A x \in S : x <= Max(S)
<1>1. PICK G : G = {n - x : x \in S}
  OBVIOUS
<1>2. G \subseteq Nat /\ G # {}
  <2>1. \A x \in S : n - x \in Nat
    OBVIOUS
  <2> QED BY <1>1, <2>1
<1>3. Min(G) \in G /\ \A g \in G : Min(G) <= g
  BY <1>2, LeastOf
<1>4. PICK m \in S : Min(G) = n - m
  BY <1>1, <1>3
<1>5. \A x \in S : n - m <= n - x
  BY <1>1, <1>3, <1>4
<1>6. \A x \in S : m >= x
  BY <1>5
<1> QED BY <1>6 DEF Max

(* Sums of natural numbers are numbers of cells.                           *)
Cells(f, S) == {p \in S \X Nat : p[2] < f[p[1]]}

Total(f, a, b) == Cardinality(Cells(f, a..(b - 1)))

(* The cells of one element, of finitely many, and of two ranges together. *)
LEMMA CellsOfOne ==
  ASSUME NEW f, NEW x, f[x] \in Nat
  PROVE  IsFiniteSet(Cells(f, {x})) /\ Cardinality(Cells(f, {x})) = f[x]
<1>1. Cells(f, {x}) = {x} \X (0..(f[x] - 1))
  BY DEF Cells
<1>2. IsFiniteSet({x}) /\ Cardinality({x}) = 1
  BY FS_Singleton
<1>3. PICK k \in Nat : k = f[x]
  OBVIOUS
<1>4. IsFiniteSet(0..(k - 1)) /\ Cardinality(0..(k - 1)) = k
  BY FS_Interval
<1>5. PICK A, B : A = {x} /\ B = 0..(k - 1)
  OBVIOUS
<1>6. IsFiniteSet(A \X B) /\ Cardinality(A \X B) = Cardinality(A) * Cardinality(B)
  BY <1>2, <1>4, <1>5, FS_Product
<1>7. Cardinality(A) * Cardinality(B) = k
  BY <1>2, <1>4, <1>5
<1>8. Cells(f, {x}) = A \X B
  BY <1>1, <1>3, <1>5
<1> QED BY <1>3, <1>6, <1>7, <1>8

LEMMA CellsAreFinite ==
  ASSUME NEW f, NEW S, IsFiniteSet(S), \A x \in S : f[x] \in Nat
  PROVE  IsFiniteSet(Cells(f, S)) /\ Cardinality(Cells(f, S)) \in Nat
<1>1. PICK F : F = {Cells(f, {x}) : x \in S}
  OBVIOUS
<1>2. PICK h : h = [x \in S |-> Cells(f, {x})]
  OBVIOUS
<1>3. h \in Surjection(S, F)
  BY <1>1, <1>2 DEF Surjection
<1>4. IsFiniteSet(F)
  BY <1>3, FS_Surjection
<1>5. \A A \in F : IsFiniteSet(A)
  BY <1>1, CellsOfOne
<1>6. Cells(f, S) = UNION F
  <2>1. \A p : p \in UNION F <=> \E x \in S : p \in Cells(f, {x})
    BY <1>1
  <2>2. \A p : p \in Cells(f, S) <=> \E x \in S : p \in Cells(f, {x})
    BY DEF Cells
  <2> QED BY <2>1, <2>2
<1> QED BY <1>4, <1>5, <1>6, FS_UNION, FS_CardinalityType

LEMMA CellsAddUp ==
  ASSUME NEW f, NEW S, NEW T, IsFiniteSet(S), IsFiniteSet(T), S \cap T = {},
         \A x \in S \cup T : f[x] \in Nat
  PROVE  Cardinality(Cells(f, S \cup T)) = Cardinality(Cells(f, S)) + Cardinality(Cells(f, T))
<1>1. PICK A, B : A = Cells(f, S) /\ B = Cells(f, T)
  OBVIOUS
<1>2. IsFiniteSet(A) /\ IsFiniteSet(B) /\ Cardinality(A) \in Nat /\ Cardinality(B) \in Nat
  BY <1>1, CellsAreFinite
<1>3. Cells(f, S \cup T) = A \cup B /\ A \cap B = {}
  BY <1>1 DEF Cells
<1>4. Cardinality(A \cup B) = Cardinality(A) + Cardinality(B) - Cardinality(A \cap B)
  BY <1>2, FS_Union
<1>5. Cardinality(A \cap B) = 0
  BY <1>3, FS_EmptySet
<1>6. Cardinality(A \cup B) = Cardinality(A) + Cardinality(B)
  BY <1>2, <1>4, <1>5
<1> QED BY <1>1, <1>3, <1>6

LEMMA TotalsAddUp ==
  ASSUME NEW f, NEW a \in Int, NEW b \in Int, NEW c \in Int, a <= b, b <= c,
         \A x \in a..(c - 1) : f[x] \in Nat
  PROVE  /\ Total(f, a, b) \in Nat /\ Total(f, b, c) \in Nat
         /\ Total(f, a, c) = Total(f, a, b) + Total(f, b, c)
         /\ Total(f, a, a) = 0
         /\ b < c => Total(f, b, b + 1) = f[b]
<1>1. PICK S, T : S = a..(b - 1) /\ T = b..(c - 1)
  OBVIOUS
<1>2. S \cup T = a..(c - 1) /\ S \cap T = {}
  BY <1>1
<1>3. IsFiniteSet(S) /\ IsFiniteSet(T)
  BY <1>1, FS_Interval
<1>4. (\A x \in S : f[x] \in Nat) /\ (\A x \in T : f[x] \in Nat) /\ (\A x \in S \cup T : f[x] \in Nat)
  BY <1>2
<1>5. Cardinality(Cells(f, S)) \in Nat /\ Cardinality(Cells(f, T)) \in Nat
  BY <1>3, <1>4, CellsAreFinite
<1>6. Cardinality(Cells(f, S \cup T)) = Cardinality(Cells(f, S)) + Cardinality(Cells(f, T))
  BY <1>2, <1>3, <1>4, CellsAddUp
<1>7. Total(f, a, a) = 0
  <2>1. a..(a - 1) = {}
    OBVIOUS
  <2>2. Cells(f, {}) = {}
    BY DEF Cells
  <2> QED BY <2>1, <2>2, FS_EmptySet DEF Total
<1>8. ASSUME b < c PROVE Total(f, b, b + 1) = f[b]
  <2>1. b..(b + 1 - 1) = {b} /\ f[b] \in Nat
    BY <1>8
  <2> QED BY <2>1, CellsOfOne DEF Total
<1> QED BY <1>1, <1>2, <1>5, <1>6, <1>7, <1>8 DEF Total

(* SumOver sums.                                                           *)
LEMMA SumsAreTotals ==
  ASSUME NEW f, NEW a \in Int, NEW b \in Int, a <= b, \A x \in a..(b - 1) : f[x] \in Nat
  PROVE  SumOver(f, a, b) = Total(f, a, b)
<1> DEFINE n == b - a
           At1(s) == {a + k - 1 : k \in s}
           seq == [k \in 1..n |-> a + k - 1]
           h == [s \in SUBSET (1..n) |-> Cardinality(Cells(f, At1(s)))]
           P(g) == g = [s \in SUBSET (1..n) |->
                          IF s = {} THEN 0 ELSE LET x == Max(s) IN g[s \ {x}] + f[seq[x]]]
           g == CHOOSE g : P(g)
<1>1. n \in Nat
  OBVIOUS
<1>2. ASSUME NEW s \in SUBSET (1..n), s # {}
      PROVE  /\ Max(s) \in s
             /\ h[s] = h[s \ {Max(s)}] + f[seq[Max(s)]]
  <2>1. Max(s) \in s
    <3>1. s \subseteq Nat /\ \A x \in s : x <= n
      OBVIOUS
    <3> HIDE DEF n
    <3> QED BY <1>1, <1>2, <3>1, GreatestOf
  <2>2. PICK x \in s : x = Max(s)
    BY <2>1
  <2>3. PICK S, T, y : S = At1(s \ {x}) /\ y = a + x - 1 /\ T = {y}
    OBVIOUS
  <2>4. At1(s) = S \cup T /\ S \cap T = {} /\ S \subseteq a..(b - 1) /\ y \in a..(b - 1) /\ seq[x] = y
    BY <2>3
  <2>5. IsFiniteSet(a..(b - 1)) /\ IsFiniteSet(T)
    <3>1. a \in Int /\ b - 1 \in Int
      OBVIOUS
    <3> QED BY <2>3, <3>1, FS_Interval, FS_Singleton
  <2>6. IsFiniteSet(S)
    BY <2>4, <2>5, FS_Subset
  <2>7. \A z \in S \cup T : f[z] \in Nat
    BY <2>3, <2>4
  <2>8. Cardinality(Cells(f, S \cup T)) = Cardinality(Cells(f, S)) + Cardinality(Cells(f, T))
    BY <2>4, <2>5, <2>6, <2>7, CellsAddUp
  <2>9. Cardinality(Cells(f, T)) = f[y]
    BY <2>3, <2>4, CellsOfOne
  <2>10. h[s] = Cardinality(Cells(f, At1(s))) /\ h[s \ {x}] = Cardinality(Cells(f, At1(s \ {x})))
    OBVIOUS
  <2> HIDE DEF h, At1, seq
  <2> QED BY <2>1, <2>2, <2>3, <2>4, <2>8, <2>9, <2>10
<1>3. h[{}] = 0
  <2>1. At1({}) = {} /\ Cells(f, {}) = {}
    BY DEF Cells
  <2>2. h[{}] = Cardinality(Cells(f, At1({})))
    OBVIOUS
  <2> QED BY <2>1, <2>2, FS_EmptySet
<1>4. P(h)
  <2>1. \A s \in SUBSET (1..n) :
          h[s] = IF s = {} THEN 0 ELSE LET x == Max(s) IN h[s \ {x}] + f[seq[x]]
    <3> HIDE DEF h, seq, n
    <3> QED BY <1>2, <1>3
  <2>2. PICK h2 : h2 = h
    OBVIOUS
  <2>3. h2 = [s \in SUBSET (1..n) |-> h2[s]]
    BY <2>2
  <2> HIDE DEF h, seq, n
  <2> QED BY <2>1, <2>2, <2>3
<1>5. P(g)
  <2> HIDE DEF P, h
  <2> QED BY <1>4, Zenon
<1>6. DOMAIN seq = 1..n
  OBVIOUS
<1>7. SumOver(f, a, b) = g[1..n]
  BY <1>6, Zenon DEF SumOver, FoldLeft, MapThenFoldSet
<1>8. g = h
  <2> DEFINE S == {j \in Nat : \A s \in SUBSET (1..j) : s \in SUBSET (1..n) => g[s] = h[s]}
  <2>1. 0 \in S
    <3>1. g[{}] = 0
      <4>1. {} \in SUBSET (1..n)
        OBVIOUS
      <4> HIDE DEF g
      <4> QED BY <1>5, <4>1
    <3>2. 1..0 = {}
      OBVIOUS
    <3> HIDE DEF g, h, n
    <3> QED BY <1>3, <3>1, <3>2
  <2>2. ASSUME NEW k \in 0..(n - 1), k \in S PROVE k + 1 \in S
    <3>1. ASSUME NEW s \in SUBSET (1..(k + 1)), s \in SUBSET (1..n) PROVE g[s] = h[s]
      <4>1. CASE s = {}
        <5>1. s \in SUBSET (1..k)
          BY <4>1
        <5> HIDE DEF g, h
        <5> QED BY <2>2, <5>1, <3>1
      <4>2. CASE s # {}
        <5>1. Max(s) \in s /\ h[s] = h[s \ {Max(s)}] + f[seq[Max(s)]]
              /\ \A x \in s : x <= Max(s)
          <6>1. s \subseteq Nat /\ \A x \in s : x <= k + 1
            OBVIOUS
          <6>2. k + 1 \in Nat
            BY <1>1
          <6> HIDE DEF g, h, seq, n
          <6> QED BY <1>2, <3>1, <4>2, <6>1, <6>2, GreatestOf
        <5> HIDE DEF h, seq
        <5>2. g[s] = g[s \ {Max(s)}] + f[seq[Max(s)]]
          <6> HIDE DEF g, n
          <6> QED BY <1>5, <3>1, <4>2
        <5>3. s \ {Max(s)} \in SUBSET (1..k) /\ s \ {Max(s)} \in SUBSET (1..n)
          <6> HIDE DEF g, n
          <6>1. k \in Nat
            BY <1>1
          <6>2. PICK m \in s : m = Max(s)
            BY <5>1
          <6>3. \A x \in s : x \in 1..(k + 1) /\ x <= m
            BY <3>1, <5>1, <6>2
          <6>4. \A x \in s : x # m => x \in 1..k
            BY <6>1, <6>3
          <6> QED BY <3>1, <6>2, <6>4
        <5> HIDE DEF g, n
        <5>4. g[s \ {Max(s)}] = h[s \ {Max(s)}]
          BY <2>2, <5>3
        <5> QED BY <5>1, <5>2, <5>4
      <4> QED BY <4>1, <4>2
    <3> HIDE DEF g, h
    <3> QED BY <3>1
  <2>3. 0..n \subseteq S
    <3> HIDE DEF S, n
    <3> QED BY <1>1, <2>1, <2>2, Counting
  <2>4. n \in S
    <3> HIDE DEF S, n
    <3> QED BY <1>1, <2>3
  <2>5. \A s \in SUBSET (1..n) : g[s] = h[s]
    BY <2>4
  <2>6. g = [s \in SUBSET (1..n) |-> g[s]]
    <3> HIDE DEF n, seq, h
    <3>1. PICK g2 : g2 = g
      OBVIOUS
    <3>2. P(g2)
      BY <1>5, <3>1
    <3>3. g2 = [s \in SUBSET (1..n) |-> g2[s]]
      BY <3>2
    <3> HIDE DEF g
    <3> QED BY <3>1, <3>3
  <2>7. h = [s \in SUBSET (1..n) |-> h[s]]
    OBVIOUS
  <2> HIDE DEF g, h, n
  <2> QED BY <2>5, <2>6, <2>7
<1>9. At1(1..n) = a..(b - 1)
  <2>1. ASSUME NEW x \in a..(b - 1) PROVE \E k \in 1..n : x = a + k - 1
    <3>1. x - a + 1 \in 1..n /\ a + (x - a + 1) - 1 = x
      OBVIOUS
    <3> QED BY <3>1
  <2>2. \A k \in 1..n : a + k - 1 \in a..(b - 1)
    OBVIOUS
  <2> HIDE DEF n
  <2> QED BY <2>1, <2>2
<1>10. h[1..n] = Cardinality(Cells(f, At1(1..n)))
  OBVIOUS
<1> HIDE DEF g, h, At1, n
<1> QED BY <1>7, <1>8, <1>9, <1>10 DEF Total

(* Where the blocks begin that the sums are added up by.                   *)
LEMMA Blocks ==
  ASSUME NEW i \in Nat
  PROVE  /\ i \div PrefixBlock \in Nat
         /\ (i \div PrefixBlock) * PrefixBlock \in 0..i
         /\ \A k \in Nat : /\ k * PrefixBlock \in Nat
                           /\ (k + 1) * PrefixBlock = k * PrefixBlock + PrefixBlock
                           /\ k <= i \div PrefixBlock => k * PrefixBlock <= i
<1>1. PICK B \in Nat \ {0} : B = PrefixBlock
  BY PrefixBlockAssumption
<1>2. PICK d : d = i \div B
  OBVIOUS
<1>3. d \in Int /\ i - d * B \in 0..(B - 1)
  BY <1>1, <1>2
<1>4. d >= 0
  <2>1. CASE d <= -1
    <3>1. d * B <= -B
      BY <1>1, <1>3, <2>1
    <3> QED BY <3>1, <1>3
  <2> QED BY <2>1, <1>3
<1>5. d \in Nat /\ d * B \in 0..i
  <2>1. d * B \in Nat
    BY <1>3, <1>4
  <2> QED BY <1>3, <1>4, <2>1
<1>6. ASSUME NEW k \in Nat
      PROVE  k * B \in Nat /\ (k + 1) * B = k * B + B /\ (k <= d => k * B <= d * B)
  <2>1. k * B \in Nat /\ (k + 1) * B = k * B + B
    OBVIOUS
  <2>2. ASSUME k <= d PROVE k * B <= d * B
    <3>1. PICK e \in Nat : d = k + e
      <4>1. d - k \in Nat /\ d = k + (d - k)
        BY <1>5, <2>2
      <4> QED BY <4>1
    <3>2. d * B = k * B + e * B /\ e * B \in Nat
      BY <3>1
    <3> QED BY <2>1, <3>2
  <2> QED BY <2>1, <2>2
<1> QED BY <1>1, <1>2, <1>5, <1>6

(* The prefix sums, added up by blocks, are the sums of all that is before. *)
LEMMA PrefixSumsAreTotals ==
  ASSUME NEW n \in Nat, NEW c \in [0..(n - 1) -> Nat]
  PROVE  ParallelPrefixSum(c) = [i \in 0..n |-> Total(c, 0, i)]
<1> DEFINE B == PrefixBlock
           local == [b \in 0..(n \div B) |-> SumOver(c, b * B, Min({(b + 1) * B, n}))]
<1>1. B \in Nat \ {0}
  BY PrefixBlockAssumption
<1>2. DOMAIN c = 0..(n - 1) /\ Cardinality(0..(n - 1)) = n
  BY FS_Interval
<1>3. PICK m : m = n \div B
  OBVIOUS
<1>4. m \in Nat /\ \A k \in Nat : /\ k * B \in Nat /\ (k + 1) * B = k * B + B
                                  /\ k <= m => k * B <= n
  BY <1>3, Blocks
<1>5. ASSUME NEW b \in 0..m, NEW e, e = Min({(b + 1) * B, n})
      PROVE  e \in Nat /\ b * B <= e /\ e <= n /\ ((b + 1) * B <= n => e = (b + 1) * B)
             /\ local[b] = Total(c, b * B, e) /\ local[b] \in Nat
  <2>0. b \in Nat /\ b <= m
    BY <1>4
  <2>1. PICK x, y : x = b * B /\ y = (b + 1) * B
    OBVIOUS
  <2>2. x \in Nat /\ y \in Nat /\ x <= y /\ x <= n
    <3>1. b * B \in Nat /\ (b + 1) * B = b * B + B /\ b * B <= n
      <4> HIDE DEF local, B
      <4> QED BY <1>4, <2>0
    <3> HIDE DEF local, B
    <3> QED BY <1>1, <2>1, <3>1
  <2>3. e \in {y, n} /\ e <= y /\ e <= n
    <3>1. {y, n} \subseteq Nat
      BY <2>2
    <3> QED BY <1>5, <2>1, <3>1, LeastOf
  <2>4. e \in Nat /\ x <= e /\ e <= n /\ (y <= n => e = y)
    BY <2>2, <2>3
  <2>5. \A k \in x..(e - 1) : c[k] \in Nat
    BY <2>2, <2>4
  <2>6. SumOver(c, x, e) = Total(c, x, e)
    BY <2>2, <2>4, <2>5, SumsAreTotals
  <2>7. Total(c, x, e) \in Nat
    <3>1. x \in Int /\ e \in Int /\ x <= x /\ x <= e
      BY <2>2, <2>4
    <3> HIDE DEF local
    <3> QED BY <2>5, <3>1, TotalsAddUp
  <2>8. local[b] = SumOver(c, x, e)
    BY <1>3, <1>5, <2>1
  <2> HIDE DEF local
  <2> QED BY <2>1, <2>4, <2>6, <2>7, <2>8
<1>6. ASSUME NEW k \in 0..m, k * B <= n PROVE Total(local, 0, k) = Total(c, 0, k * B)
  <2> DEFINE S == {j \in Nat : j <= k => Total(local, 0, j) = Total(c, 0, j * B)}
  <2>0. \A j \in 0..m : local[j] \in Nat
    <3> HIDE DEF local
    <3> QED BY <1>5
  <2>1. 0 \in S
    <3>1. 0 * B = 0
      BY <1>1
    <3>2. (\A x \in 0..(0 - 1) : local[x] \in Nat) /\ \A x \in 0..(0 - 1) : c[x] \in Nat
      OBVIOUS
    <3>3. Total(local, 0, 0) = 0 /\ Total(c, 0, 0) = 0
      <4> HIDE DEF local
      <4> QED BY <3>2, TotalsAddUp
    <3> HIDE DEF local, B
    <3> QED BY <3>1, <3>3
  <2>2. ASSUME NEW j \in 0..(k - 1), j \in S PROVE j + 1 \in S
    <3>0. j \in Nat /\ j + 1 \in Nat /\ j < m /\ j + 1 <= k
      BY <1>4
    <3>1. PICK x, y : x = j * B /\ y = (j + 1) * B
      OBVIOUS
    <3>2. x \in Nat /\ y \in Nat /\ x <= y /\ y <= n
      <4> HIDE DEF local
      <4>1. j * B \in Nat /\ (j + 1) * B = j * B + B
        <5> HIDE DEF B
        <5> QED BY <1>4, <3>0
      <4>2. (j + 1) * B <= n
        <5>1. j + 1 <= m
          BY <1>4, <3>0
        <5> HIDE DEF B
        <5> QED BY <1>4, <3>0, <5>1
      <4> HIDE DEF B
      <4> QED BY <1>1, <3>1, <4>1, <4>2
    <3>3. local[j] = Total(c, x, y)
      <4>1. j \in 0..m
        BY <3>0, <1>4
      <4>2. (j + 1) * B <= n
        BY <3>1, <3>2
      <4> HIDE DEF local, B
      <4> QED BY <1>5, <3>1, <4>1, <4>2
    <3>4. Total(local, 0, j + 1) = Total(local, 0, j) + local[j]
      <4>1. 0 \in Int /\ j \in Int /\ j + 1 \in Int /\ 0 <= j /\ j <= j + 1 /\ j < j + 1
        BY <3>0
      <4>2. \A i \in 0..(j + 1 - 1) : local[i] \in Nat
        <5>1. \A i \in 0..(j + 1 - 1) : i \in 0..m
          BY <3>0, <1>4
        <5> HIDE DEF local
        <5> QED BY <2>0, <5>1
      <4> HIDE DEF local
      <4>3. Total(local, j, j + 1) = local[j]
        <5>1. PICK e \in Int : e = j + 1
          BY <4>1
        <5>2. /\ 0 \in Int /\ j \in Int /\ 0 <= j /\ j <= e /\ j < e
              /\ \A i \in 0..(e - 1) : local[i] \in Nat
          BY <4>1, <4>2, <5>1
        <5>3. Total(local, j, j + 1) = local[j]
          BY <5>2, TotalsAddUp
        <5> QED BY <5>3
      <4>4. Total(local, 0, j + 1) = Total(local, 0, j) + Total(local, j, j + 1)
        <5>1. PICK e \in Int : e = j + 1
          BY <4>1
        <5>2. 0 \in Int /\ j \in Int /\ 0 <= j /\ j <= e /\ \A i \in 0..(e - 1) : local[i] \in Nat
          BY <4>1, <4>2, <5>1
        <5>3. Total(local, 0, e) = Total(local, 0, j) + Total(local, j, e)
          BY <5>2, TotalsAddUp
        <5> QED BY <5>1, <5>3
      <4> QED BY <4>3, <4>4
    <3>5. Total(c, 0, y) = Total(c, 0, x) + Total(c, x, y)
      <4>1. \A i \in 0..(y - 1) : c[i] \in Nat
        BY <3>2
      <4> HIDE DEF local
      <4> QED BY <3>2, <4>1, TotalsAddUp
    <3> HIDE DEF local, B
    <3> QED BY <2>2, <3>0, <3>1, <3>3, <3>4, <3>5
  <2>3. 0..k \subseteq S
    <3>1. k \in Nat
      OBVIOUS
    <3> HIDE DEF S
    <3> QED BY <2>1, <2>2, <3>1, Counting
  <2>4. k \in S
    <3>1. k \in 0..k
      OBVIOUS
    <3> HIDE DEF S
    <3> QED BY <2>3, <3>1
  <2> HIDE DEF local, B
  <2> QED BY <2>4
<1>7. ASSUME NEW i \in 0..n
      PROVE  SumOver(local, 0, i \div B) + SumOver(c, (i \div B) * B, i) = Total(c, 0, i)
  <2>1. PICK k, x : k = i \div B /\ x = k * B
    OBVIOUS
  <2>2. k \in Nat /\ x \in 0..i /\ x <= n
    BY <2>1, Blocks
  <2>3. k <= m
    <3>1. CASE m + 1 <= k
      <4>1. (m + 1) * B <= i
        BY <1>4, <2>1, <3>1, Blocks
      <4>2. n - m * B \in 0..(B - 1)
        BY <1>1, <1>3
      <4>3. (m + 1) * B = m * B + B /\ m * B \in Nat
        BY <1>4
      <4> HIDE DEF local
      <4> QED BY <1>1, <4>1, <4>2, <4>3
    <3> QED BY <1>4, <2>2, <3>1
  <2>4. \A j \in 0..(k - 1) : local[j] \in Nat
    <3>1. \A j \in 0..(k - 1) : j \in 0..m
      BY <1>4, <2>2, <2>3
    <3> HIDE DEF local
    <3> QED BY <1>5, <3>1
  <2>5. SumOver(local, 0, k) = Total(local, 0, k)
    <3> HIDE DEF local
    <3> QED BY <2>2, <2>4, SumsAreTotals
  <2>6. Total(local, 0, k) = Total(c, 0, x)
    <3>1. k \in 0..m /\ k * B <= n
      BY <1>4, <2>1, <2>2, <2>3
    <3> HIDE DEF local, B
    <3> QED BY <1>6, <2>1, <3>1
  <2>7. (\A j \in x..(i - 1) : c[j] \in Nat) /\ \A j \in 0..(i - 1) : c[j] \in Nat
    BY <2>2
  <2>8. SumOver(c, x, i) = Total(c, x, i)
    BY <2>2, <2>7, SumsAreTotals
  <2>9. Total(c, 0, i) = Total(c, 0, x) + Total(c, x, i)
    BY <2>2, <2>7, TotalsAddUp
  <2> HIDE DEF local, B
  <2> QED BY <2>1, <2>5, <2>6, <2>8, <2>9
<1>8. ParallelPrefixSum(c) = [i \in 0..n |-> SumOver(local, 0, i \div B) + SumOver(c, (i \div B) * B, i)]
  BY <1>2, Zenon DEF ParallelPrefixSum
<1> HIDE DEF local, B
<1> QED BY <1>7, <1>8

(* What the sums of the counts set apart: a range for each node, one after *)
(* the other.                                                              *)
LEMMA RangesAreApart ==
  ASSUME NEW n \in Nat, NEW c \in [0..(n - 1) -> Nat], NEW begins, begins = ParallelPrefixSum(c)
  PROVE  /\ begins \in [0..n -> Nat] /\ begins[0] = 0
         /\ \A i \in 0..(n - 1) : begins[i + 1] = begins[i] + c[i]
         /\ \A i, j \in 0..n : i <= j => begins[i] <= begins[j]
<1>1. begins = [i \in 0..n |-> Total(c, 0, i)]
  BY PrefixSumsAreTotals
<1>2. ASSUME NEW i \in 0..n, NEW j \in 0..n, i <= j
      PROVE  /\ begins[i] \in Nat /\ begins[i] <= begins[j]
             /\ begins[0] = 0
             /\ i < j => Total(c, i, i + 1) = c[i]
             /\ begins[j] = begins[i] + Total(c, i, j)
  <2>1. \A x \in 0..(j - 1) : c[x] \in Nat
    OBVIOUS
  <2>2. /\ Total(c, 0, i) \in Nat /\ Total(c, i, j) \in Nat
        /\ Total(c, 0, j) = Total(c, 0, i) + Total(c, i, j)
        /\ Total(c, 0, 0) = 0 /\ (i < j => Total(c, i, i + 1) = c[i])
    <3>1. 0 \in Int /\ i \in Int /\ j \in Int /\ 0 <= i
      OBVIOUS
    <3> QED BY <1>2, <2>1, <3>1, TotalsAddUp
  <2> QED BY <1>1, <2>2
<1>3. ASSUME NEW i \in 0..(n - 1) PROVE begins[i + 1] = begins[i] + c[i]
  <2>1. i \in 0..n /\ i + 1 \in 0..n /\ i < i + 1
    OBVIOUS
  <2>2. Total(c, i, i + 1) = c[i] /\ begins[i + 1] = begins[i] + Total(c, i, i + 1)
    BY <1>2, <2>1
  <2> QED BY <2>2
<1>4. begins[0] = 0 /\ \A i \in 0..n : begins[i] \in Nat
  BY <1>2
<1> QED BY <1>1, <1>2, <1>3, <1>4

(* The parts of the edges that a pass goes through, and where a thread is  *)
(* in the edge it has taken.                                               *)
Listing(lists, X) ==
  \A k \in DOMAIN lists : lists[k] \in Seq(X) /\ Len(lists[k]) \in {1, 2}

Parts(lists) == {u \in (DOMAIN lists) \X {1, 2} : u[2] <= Len(lists[u[1]])}

Part(lists, u) == lists[u[1]][u[2]]

First(lists, k, left) == <<k, Len(lists[k]) - Len(left) + 1>>

EndOf(left, list) ==
  /\ Len(left) \in 1..Len(list)
  /\ \A j \in 1..Len(left) : left[j] = list[Len(list) - Len(left) + j]

Hands(X) == {d \in [step : {"count", "reserve"}, left : Seq(X)]
                     \cup [step : {"store"}, left : Seq(X), slot : Nat] : d.left # << >>}

Taking(lists, td, dg) ==
  {cur \in [Threads -> Nat] :
     /\ \A t \in Threads : dg[t] # Idle =>
          cur[t] \in (DOMAIN lists) \ td /\ EndOf(dg[t].left, lists[cur[t]])
     /\ \A s, t \in Threads : dg[s] # Idle /\ dg[t] # Idle /\ cur[s] = cur[t] => s = t}

Awaiting(lists, td, dg, cur) ==
  {u \in Parts(lists) :
     \/ u[1] \in td
     \/ \E t \in Threads : /\ dg[t] # Idle /\ cur[t] = u[1]
                           /\ u[2] > Len(lists[u[1]]) - Len(dg[t].left)}

(* A function with another value at one point, and a set without an element. *)
With(f, x, y) == [f EXCEPT ![x] = y]

Without(S, x) == S \ {x}

Promised(lists, dg, cur) ==
  {First(lists, cur[t], dg[t].left) : t \in {s \in Threads : dg[s].step = "store"}}

GoingOn(lists, td, dg, waiting, promised) ==
  {cur \in Taking(lists, td, dg) :
     Awaiting(lists, td, dg, cur) = waiting /\ Promised(lists, dg, cur) = promised}

(* The first part that a thread has left is the head of its list.          *)
LEMMA FirstIsHead ==
  ASSUME NEW X, NEW lists, Listing(lists, X), NEW k \in DOMAIN lists,
         NEW left \in Seq(X), EndOf(left, lists[k])
  PROVE  /\ First(lists, k, left) \in Parts(lists)
         /\ Part(lists, First(lists, k, left)) = Head(left)
         /\ Head(left) \in X /\ left # << >>
         /\ Tail(left) \in Seq(X) /\ Len(Tail(left)) = Len(left) - 1
         /\ Tail(left) # << >> => EndOf(Tail(left), lists[k])
<1>1. PICK list : list = lists[k]
  OBVIOUS
<1>2. list \in Seq(X) /\ Len(list) \in {1, 2} /\ Len(left) \in 1..Len(list)
  BY <1>1 DEF Listing, EndOf
<1>3. \A j \in 1..Len(left) : left[j] = list[Len(list) - Len(left) + j]
  BY <1>1 DEF EndOf
<1>4. /\ left # << >> /\ Head(left) = left[1] /\ Head(left) \in X
      /\ Tail(left) \in Seq(X) /\ Len(Tail(left)) = Len(left) - 1
      /\ \A j \in 1..(Len(left) - 1) : Tail(left)[j] = left[j + 1]
  <2>1. left # << >>
    BY <1>2, EmptySeq
  <2> QED BY <2>1, HeadTailProperties
<1>5. Len(list) - Len(left) + 1 \in {1, 2} /\ Len(list) - Len(left) + 1 <= Len(list)
  <2>1. PICK m \in {1, 2} : m = Len(list)
    BY <1>2
  <2>2. PICK n \in 1..m : n = Len(left)
    BY <1>2, <2>1
  <2>3. m - n + 1 \in {1, 2} /\ m - n + 1 <= m
    OBVIOUS
  <2> QED BY <2>1, <2>2, <2>3
<1>6. First(lists, k, left) \in Parts(lists)
  BY <1>1, <1>5 DEF First, Parts
<1>7. Part(lists, First(lists, k, left)) = Head(left)
  <2>1. left[1] = list[Len(list) - Len(left) + 1]
    BY <1>2, <1>3
  <2> QED BY <1>1, <1>4, <2>1 DEF Part, First
<1>8. ASSUME Tail(left) # << >> PROVE EndOf(Tail(left), list)
  <2>1. PICK rest \in Seq(X) : rest = Tail(left)
    BY <1>4
  <2>2. Len(rest) = Len(left) - 1 /\ Len(rest) # 0 /\ Len(rest) \in Nat
    BY <1>4, <1>8, <2>1, EmptySeq
  <2>3. ASSUME NEW j \in 1..Len(rest) PROVE rest[j] = list[Len(list) - Len(rest) + j]
    <3>1. j + 1 \in 1..Len(left) /\ j \in 1..(Len(left) - 1)
      BY <2>2, <1>2
    <3>2. Len(list) - Len(left) + (j + 1) = Len(list) - Len(rest) + j
      BY <1>2, <2>2
    <3>3. rest[j] = left[j + 1] /\ left[j + 1] = list[Len(list) - Len(left) + (j + 1)]
      BY <1>3, <1>4, <2>1, <3>1
    <3> QED BY <3>2, <3>3
  <2>4. Len(rest) \in 1..Len(list)
    BY <1>2, <2>2
  <2> QED BY <2>1, <2>3, <2>4 DEF EndOf
<1> QED BY <1>1, <1>4, <1>6, <1>7, <1>8

(* Taking an edge changes nothing of what is to be done.                   *)
LEMMA TakingAnEdge ==
  ASSUME NEW X, NEW lists, Listing(lists, X), NEW td, td \subseteq DOMAIN lists,
         NEW dg \in [Threads -> {Idle} \cup Hands(X)], NEW cur \in Taking(lists, td, dg),
         NEW t \in Threads, dg[t] = Idle, NEW k \in td, k \in Nat,
         NEW next \in Hands(X), next.left = lists[k], next.step # "store",
         NEW dg2, dg2 = With(dg, t, next),
         NEW cur2, cur2 = With(cur, t, k),
         NEW td2, td2 = Without(td, k),
         NEW A, A = Awaiting(lists, td, dg, cur), NEW P, P = Promised(lists, dg, cur)
  PROVE  cur2 \in GoingOn(lists, td2, dg2, A, P)
<1>1. /\ next # Idle /\ lists[k] \in Seq(X) /\ Len(lists[k]) \in {1, 2} /\ k \in DOMAIN lists
      /\ dg2[t] = next /\ cur2[t] = k
      /\ \A s \in Threads : s # t => dg2[s] = dg[s] /\ cur2[s] = cur[s]
  BY DEF Hands, Idle, Listing, Taking, With, Without
<1>2. cur2 \in [Threads -> Nat] /\ dg2 \in [Threads -> {Idle} \cup Hands(X)]
  BY DEF Taking, With
<1>3. EndOf(dg2[t].left, lists[k])
  <2>1. PICK list \in Seq(X) : list = lists[k] /\ list = dg2[t].left
    BY <1>1
  <2>2. Len(list) \in 1..Len(list)
    <3>1. 1 \in 1..1 /\ 2 \in 1..2
      OBVIOUS
    <3> QED BY <1>1, <2>1, <3>1
  <2>3. \A j \in 1..Len(list) : Len(list) - Len(list) + j = j
    OBVIOUS
  <2> QED BY <2>1, <2>2, <2>3 DEF EndOf
<1>4. cur2 \in Taking(lists, td2, dg2)
  <2>1. /\ \A s \in Threads : dg2[s] # Idle =>
             cur2[s] \in (DOMAIN lists) \ td2 /\ EndOf(dg2[s].left, lists[cur2[s]])
        /\ \A r, s \in Threads : dg2[r] # Idle /\ dg2[s] # Idle /\ cur2[r] = cur2[s] => r = s
    BY <1>1, <1>3 DEF Taking, Without
  <2> QED BY <1>2, <2>1 DEF Taking
<1>5. ASSUME NEW u \in Parts(lists)
      PROVE  u \in Awaiting(lists, td2, dg2, cur2) <=> u \in Awaiting(lists, td, dg, cur)
  <2>0. u[2] \in {1, 2} /\ u[1] \in DOMAIN lists
    BY DEF Parts
  <2>1. CASE u[1] = k
    <3>1. u[2] > Len(lists[u[1]]) - Len(dg2[t].left)
      BY <1>1, <2>0, <2>1
    <3> QED BY <1>1, <2>1, <3>1 DEF Awaiting
  <2>2. CASE u[1] # k
    BY <1>1, <2>2 DEF Awaiting, Without
  <2> QED BY <2>1, <2>2
<1>6. {s \in Threads : dg2[s].step = "store"} = {s \in Threads : dg[s].step = "store"}
      /\ dg[t].step # "store"
  BY <1>1 DEF Idle
<1>7. Promised(lists, dg2, cur2) = Promised(lists, dg, cur)
  BY <1>1, <1>6 DEF Promised
<1>8. Awaiting(lists, td2, dg2, cur2) = Awaiting(lists, td, dg, cur)
  BY <1>5 DEF Awaiting
<1> QED BY <1>4, <1>7, <1>8 DEF GoingOn

(* A slot is promised to the first part a thread has left.                 *)
LEMMA PromisingASlot ==
  ASSUME NEW X, NEW lists, Listing(lists, X), NEW td,
         NEW dg \in [Threads -> {Idle} \cup Hands(X)], NEW cur \in Taking(lists, td, dg),
         NEW t \in Threads, dg[t] # Idle, dg[t].step # "store",
         NEW next \in Hands(X), next.left = dg[t].left, next.step = "store",
         NEW dg2, dg2 = With(dg, t, next),
         NEW u, u = First(lists, cur[t], dg[t].left)
  PROVE  /\ dg2 \in [Threads -> {Idle} \cup Hands(X)]
         /\ cur \in Taking(lists, td, dg2)
         /\ Awaiting(lists, td, dg2, cur) = Awaiting(lists, td, dg, cur)
         /\ Promised(lists, dg2, cur) = Promised(lists, dg, cur) \cup {u}
         /\ u \in Awaiting(lists, td, dg, cur) \ Promised(lists, dg, cur)
         /\ u \in Parts(lists) /\ Part(lists, u) = Head(dg[t].left)
<1>1. /\ next # Idle /\ dg2[t] = next
      /\ \A s \in Threads : s # t => dg2[s] = dg[s]
      /\ dg[t].left \in Seq(X) /\ cur[t] \in DOMAIN lists /\ EndOf(dg[t].left, lists[cur[t]])
  BY DEF Hands, Idle, Taking, With
<1>2. dg2 \in [Threads -> {Idle} \cup Hands(X)]
  BY DEF With
<1>3. cur \in Taking(lists, td, dg2)
  BY <1>1 DEF Taking
<1>4. Awaiting(lists, td, dg2, cur) = Awaiting(lists, td, dg, cur)
  BY <1>1 DEF Awaiting
<1>5. Promised(lists, dg2, cur) = Promised(lists, dg, cur) \cup {u}
  BY <1>1 DEF Promised
<1>6. u \in Parts(lists) /\ Part(lists, u) = Head(dg[t].left)
  BY <1>1, FirstIsHead
<1>7. u \in Awaiting(lists, td, dg, cur)
  <2>1. u[1] = cur[t] /\ u[2] = Len(lists[cur[t]]) - Len(dg[t].left) + 1
    BY DEF First
  <2>2. Len(dg[t].left) \in Nat /\ Len(lists[cur[t]]) \in Nat
    BY <1>1 DEF Listing
  <2>3. u[2] > Len(lists[cur[t]]) - Len(dg[t].left)
    <3>1. PICK m \in Nat, n \in Nat : m = Len(lists[cur[t]]) /\ n = Len(dg[t].left)
      BY <2>2
    <3>2. m - n + 1 > m - n
      OBVIOUS
    <3> QED BY <2>1, <3>1, <3>2
  <2> QED BY <1>6, <2>1, <2>3 DEF Awaiting
<1>8. ASSUME NEW s \in Threads, dg[s].step = "store" PROVE u # First(lists, cur[s], dg[s].left)
  <2>1. dg[s] # Idle /\ s # t
    BY <1>8 DEF Idle
  <2>2. cur[s] # cur[t]
    BY <2>1 DEF Taking
  <2> QED BY <2>2 DEF First
<1>9. u \notin Promised(lists, dg, cur)
  BY <1>8 DEF Promised
<1> QED BY <1>2, <1>3, <1>4, <1>5, <1>6, <1>7, <1>9

(* The first part a thread has left is done.                               *)
LEMMA FinishingAPart ==
  ASSUME NEW X, NEW lists, Listing(lists, X), NEW td,
         NEW dg \in [Threads -> {Idle} \cup Hands(X)], NEW cur \in Taking(lists, td, dg),
         NEW t \in Threads, dg[t] # Idle,
         NEW next, next.left = Tail(dg[t].left), next.step # "store",
         Tail(dg[t].left) # << >> => next \in Hands(X),
         NEW dg2, dg2 = With(dg, t, UnlessDone(next)),
         NEW u, u = First(lists, cur[t], dg[t].left)
  PROVE  /\ dg2 \in [Threads -> {Idle} \cup Hands(X)]
         /\ cur \in Taking(lists, td, dg2)
         /\ Awaiting(lists, td, dg2, cur) = Without(Awaiting(lists, td, dg, cur), u)
         /\ Promised(lists, dg2, cur) = Without(Promised(lists, dg, cur), u)
         /\ u \in Awaiting(lists, td, dg, cur)
         /\ dg[t].step = "store" <=> u \in Promised(lists, dg, cur)
         /\ u \in Parts(lists) /\ Part(lists, u) = Head(dg[t].left)
<1> DEFINE left == dg[t].left  list == lists[cur[t]]
<1>1. /\ left \in Seq(X) /\ cur[t] \in (DOMAIN lists) \ td /\ EndOf(left, list)
      /\ list \in Seq(X)
  BY DEF Hands, Taking, Listing
<1>2. /\ u \in Parts(lists) /\ Part(lists, u) = Head(left)
      /\ Tail(left) \in Seq(X) /\ Len(Tail(left)) = Len(left) - 1
      /\ Tail(left) # << >> => EndOf(Tail(left), list)
  BY <1>1, FirstIsHead
<1>3. /\ dg2[t] = UnlessDone(next) /\ UnlessDone(next).step # "store"
      /\ UnlessDone(next) \in {Idle} \cup Hands(X)
      /\ UnlessDone(next) # Idle => UnlessDone(next).left = Tail(left) /\ Tail(left) # << >>
      /\ UnlessDone(next) = Idle => Tail(left) = << >>
      /\ \A s \in Threads : s # t => dg2[s] = dg[s]
  BY DEF UnlessDone, Idle, Hands, With
<1>4. dg2 \in [Threads -> {Idle} \cup Hands(X)]
  BY <1>3 DEF With
<1>5. cur \in Taking(lists, td, dg2)
  <2>1. \A s \in Threads : dg2[s] # Idle => dg[s] # Idle
    BY <1>3
  <2>2. ASSUME NEW s \in Threads, dg2[s] # Idle
        PROVE  cur[s] \in (DOMAIN lists) \ td /\ EndOf(dg2[s].left, lists[cur[s]])
    <3>1. CASE s = t
      BY <1>1, <1>2, <1>3, <2>2, <3>1
    <3>2. CASE s # t
      BY <1>3, <2>2, <3>2 DEF Taking
    <3> QED BY <3>1, <3>2
  <2> QED BY <2>1, <2>2 DEF Taking
<1>6. Len(left) \in Nat /\ Len(left) >= 1 /\ Len(list) \in Nat
  BY <1>1 DEF EndOf
<1>7. u[1] = cur[t] /\ u[2] = Len(list) - Len(left) + 1
  BY DEF First
<1>8. u \in Awaiting(lists, td, dg, cur)
  <2>1. u[2] > Len(list) - Len(left)
    <3>1. PICK m \in Nat, n \in Nat : m = Len(list) /\ n = Len(left)
      BY <1>6
    <3>2. m - n + 1 > m - n
      OBVIOUS
    <3> QED BY <1>7, <3>1, <3>2
  <2> QED BY <1>2, <1>7, <2>1 DEF Awaiting
<1>9. ASSUME NEW v \in Parts(lists)
      PROVE  v \in Awaiting(lists, td, dg2, cur) <=> v \in Awaiting(lists, td, dg, cur) /\ v # u
  <2>0. v[2] \in {1, 2} /\ v[1] \in DOMAIN lists /\ v = <<v[1], v[2]>> /\ v[2] <= Len(lists[v[1]])
    BY DEF Parts
  <2>1. CASE v[1] # cur[t]
    <3>1. v # u
      BY <1>7, <2>1
    <3> QED BY <1>3, <2>1, <3>1 DEF Awaiting
  <2>2. CASE v[1] = cur[t]
    <3>1. v[1] \notin td
      BY <1>1, <2>2
    <3>2. \A s \in Threads : (dg[s] # Idle /\ cur[s] = v[1]) => s = t
      BY <2>2 DEF Taking
    <3>3. \A s \in Threads : (dg2[s] # Idle /\ cur[s] = v[1]) => s = t
      BY <1>3, <3>2
    <3>4. v \in Awaiting(lists, td, dg, cur) <=> v[2] > Len(list) - Len(left)
      BY <2>2, <3>1, <3>2 DEF Awaiting
    <3>5. v \in Awaiting(lists, td, dg2, cur)
            <=> dg2[t] # Idle /\ v[2] > Len(list) - Len(dg2[t].left)
      BY <2>2, <3>1, <3>3 DEF Awaiting
    <3>6. v = u <=> v[2] = u[2]
      BY <1>7, <2>0, <2>2 DEF First
    <3>7. CASE dg2[t] = Idle
      <4>1. Len(left) = 1
        <5>1. Tail(left) = << >>
          BY <1>3, <3>7
        <5>2. Len(Tail(left)) = 0
          BY <1>2, <5>1, EmptySeq
        <5> HIDE DEF left
        <5>3. PICK n \in Nat : n = Len(left)
          BY <1>6
        <5>4. n - 1 = 0
          BY <1>2, <5>2, <5>3
        <5>5. n = 1
          BY <5>4
        <5> QED BY <5>3, <5>5
      <4> QED BY <1>6, <1>7, <2>0, <2>2, <3>4, <3>5, <3>6, <3>7, <4>1
    <3>8. CASE dg2[t] # Idle
      <4>1. Len(dg2[t].left) = Len(left) - 1
        BY <1>2, <1>3, <3>8
      <4>2. PICK m \in Nat, n \in Nat : m = Len(list) /\ n = Len(left)
        BY <1>6
      <4>3. PICK i \in Nat : i = v[2]
        BY <2>0
      <4>4. i > m - (n - 1) <=> i > m - n /\ i # m - n + 1
        OBVIOUS
      <4> HIDE DEF left, list
      <4> QED BY <1>7, <3>4, <3>5, <3>6, <3>8, <4>1, <4>2, <4>3, <4>4
    <3> QED BY <3>7, <3>8
  <2> QED BY <2>1, <2>2
<1>10. Awaiting(lists, td, dg2, cur) = Without(Awaiting(lists, td, dg, cur), u)
  BY <1>9 DEF Awaiting, Without
<1>11. ASSUME NEW s \in Threads, s # t, dg[s].step = "store" PROVE u # First(lists, cur[s], dg[s].left)
  <2>1. dg[s] # Idle
    BY <1>11 DEF Idle
  <2>2. cur[s] # cur[t]
    BY <1>11, <2>1 DEF Taking
  <2> QED BY <2>2 DEF First
<1>12. {s \in Threads : dg2[s].step = "store"} = {s \in Threads : dg[s].step = "store"} \ {t}
  BY <1>3
<1>13. Promised(lists, dg2, cur) = Without(Promised(lists, dg, cur), u)
  BY <1>3, <1>11, <1>12 DEF Promised, Without
<1>14. dg[t].step = "store" <=> u \in Promised(lists, dg, cur)
  BY <1>11 DEF Promised
<1> QED BY <1>2, <1>4, <1>5, <1>8, <1>10, <1>13, <1>14

(* The slots given out: to each part one, in the range of its node, which  *)
(* they fill from its start.                                               *)
PartsAt(at, n, S) == {u \in S : at[u] = n}

Slots(at, nodes, begins, ends, given) ==
  {place \in [DOMAIN at -> Int] :
     /\ \A n \in nodes : ends[n] = begins[n] + Cardinality(PartsAt(at, n, given))
     /\ \A u, v \in given : place[u] = place[v] => u = v
     /\ \A u \in given : place[u] \in begins[at[u]]..(ends[at[u]] - 1)
     /\ \A n \in nodes : \A i \in begins[n]..(ends[n] - 1) :
          \E u \in PartsAt(at, n, given) : place[u] = i}

(* How many parts each node has.                                           *)
Sizes(at, nodes, E) ==
  {c \in [nodes -> Nat] : \A n \in nodes : c[n] = Cardinality(PartsAt(at, n, E))}

Adding(S, x) == S \cup {x}

(* Finishing a part adds one to its node and nothing to others.            *)
LEMMA OnePartMore ==
  ASSUME NEW at, NEW S, IsFiniteSet(S), NEW u, u \notin S, NEW n
  PROVE  /\ IsFiniteSet(PartsAt(at, n, S)) /\ Cardinality(PartsAt(at, n, S)) \in Nat
         /\ at[u] = n => Cardinality(PartsAt(at, n, S \cup {u})) = Cardinality(PartsAt(at, n, S)) + 1
         /\ at[u] # n => Cardinality(PartsAt(at, n, S \cup {u})) = Cardinality(PartsAt(at, n, S))
<1>1. PICK A : A = PartsAt(at, n, S)
  OBVIOUS
<1>2. IsFiniteSet(A) /\ Cardinality(A) \in Nat
  BY <1>1, FS_Subset, FS_CardinalityType DEF PartsAt
<1>3. u \notin A
  BY <1>1 DEF PartsAt
<1>4. ASSUME at[u] = n
      PROVE  Cardinality(PartsAt(at, n, S \cup {u})) = Cardinality(A) + 1
  <2>1. PartsAt(at, n, S \cup {u}) = A \cup {u}
    BY <1>1, <1>4 DEF PartsAt
  <2> QED BY <1>2, <1>3, <2>1, FS_AddElement
<1>5. ASSUME at[u] # n PROVE PartsAt(at, n, S \cup {u}) = A
  BY <1>1, <1>5 DEF PartsAt
<1> QED BY <1>1, <1>2, <1>4, <1>5

(* A node's slots end where the next node's begin, at the latest.          *)
LEMMA SlotsInRange ==
  ASSUME NEW N \in Nat, NEW E, IsFiniteSet(E), NEW at \in [E -> 0..(N - 1)],
         NEW c \in Sizes(at, 0..(N - 1), E),
         NEW begins, begins = ParallelPrefixSum(c),
         NEW ends, NEW given \in SUBSET E, NEW place \in Slots(at, 0..(N - 1), begins, ends, given)
  PROVE  /\ begins \in [0..N -> Nat] /\ begins[0] = 0
         /\ \A n \in 0..(N - 1) : /\ ends[n] \in begins[n]..begins[n + 1]
                                  /\ begins[n + 1] = begins[n] + c[n]
         /\ \A i, j \in 0..N : i <= j => begins[i] <= begins[j]
         /\ \A u \in given : place[u] \in 0..(begins[N] - 1)
         /\ \A u \in E \ given : ends[at[u]] < begins[at[u] + 1]
<1>1. c \in [0..(N - 1) -> Nat] /\ \A n \in 0..(N - 1) : c[n] = Cardinality(PartsAt(at, n, E))
  BY DEF Sizes
<1>2. /\ begins \in [0..N -> Nat] /\ begins[0] = 0
      /\ \A i \in 0..(N - 1) : begins[i + 1] = begins[i] + c[i]
      /\ \A i, j \in 0..N : i <= j => begins[i] <= begins[j]
  BY <1>1, RangesAreApart
<1>3. IsFiniteSet(given)
  BY FS_Subset
<1>4. ASSUME NEW n \in 0..(N - 1)
      PROVE  /\ ends[n] \in begins[n]..begins[n + 1]
             /\ begins[n] \in Nat /\ begins[n + 1] \in Nat
             /\ \A u \in E \ given : at[u] = n => ends[n] < begins[n + 1]
  <2>1. PICK a, b : a = Cardinality(PartsAt(at, n, given)) /\ b = begins[n]
    OBVIOUS
  <2>2. IsFiniteSet(PartsAt(at, n, E)) /\ PartsAt(at, n, given) \subseteq PartsAt(at, n, E)
    <3>1. PartsAt(at, n, E) \subseteq E
      BY DEF PartsAt
    <3> QED BY <3>1, FS_Subset DEF PartsAt
  <2>3. a \in Nat /\ a <= c[n]
    BY <1>1, <2>1, <2>2, FS_Subset, FS_CardinalityType
  <2>4. b \in Nat /\ c[n] \in Nat /\ begins[n + 1] = b + c[n] /\ ends[n] = b + a
    BY <1>1, <1>2, <2>1 DEF Slots
  <2>5. ASSUME NEW u \in E \ given, at[u] = n PROVE ends[n] < begins[n + 1]
    <3>1. Cardinality(PartsAt(at, n, given \cup {u})) = a + 1
      BY <1>3, <2>1, <2>5, OnePartMore
    <3>2. PartsAt(at, n, given \cup {u}) \subseteq PartsAt(at, n, E)
      BY DEF PartsAt
    <3>3. a + 1 <= c[n]
      <4>1. PICK A, B : A = PartsAt(at, n, given \cup {u}) /\ B = PartsAt(at, n, E)
        OBVIOUS
      <4>2. IsFiniteSet(B) /\ A \in SUBSET B
        BY <2>2, <3>2, <4>1
      <4>3. Cardinality(A) <= Cardinality(B)
        BY <4>2, FS_Subset
      <4>4. Cardinality(A) = a + 1 /\ Cardinality(B) = c[n]
        BY <1>1, <3>1, <4>1
      <4> QED BY <4>3, <4>4
    <3> QED BY <2>3, <2>4, <3>3
  <2> QED BY <2>1, <2>3, <2>4, <2>5
<1>5. ASSUME NEW u \in given PROVE place[u] \in 0..(begins[N] - 1)
  <2>1. PICK n \in 0..(N - 1) : n = at[u]
    OBVIOUS
  <2>2. place[u] \in begins[n]..(ends[n] - 1)
    BY <2>1 DEF Slots
  <2>3. n + 1 \in 0..N /\ N \in 0..N /\ n + 1 <= N
    OBVIOUS
  <2>4. begins[n + 1] <= begins[N] /\ begins[N] \in Nat
    BY <1>2, <2>3
  <2>5. PICK en \in Int, bn \in Nat, bn1 \in Nat, bN \in Nat, q \in Int :
          /\ en = ends[n] /\ bn = begins[n] /\ bn1 = begins[n + 1] /\ bN = begins[N]
          /\ q = place[u]
    <3>1. ends[n] \in Int
      BY <1>4
    <3>2. place[u] \in Int
      BY <1>4, <2>2, <3>1
    <3> QED BY <1>4, <2>4, <3>1, <3>2
  <2>6. bn <= q /\ q <= en - 1 /\ en <= bn1 /\ bn1 <= bN
    BY <1>4, <2>2, <2>4, <2>5
  <2>7. q \in 0..(bN - 1)
    BY <2>6
  <2> QED BY <2>5, <2>7
<1>6. \A u \in E \ given : ends[at[u]] < begins[at[u] + 1]
  BY <1>4
<1> QED BY <1>2, <1>4, <1>5, <1>6

(* The next slot of a node goes to a part that has none yet.               *)
LEMMA GivingASlot ==
  ASSUME NEW N \in Nat, NEW E, IsFiniteSet(E), NEW at \in [E -> 0..(N - 1)],
         NEW c \in Sizes(at, 0..(N - 1), E),
         NEW begins, begins = ParallelPrefixSum(c),
         NEW ends \in [0..N -> Nat], NEW given \in SUBSET E, NEW place \in Slots(at, 0..(N - 1), begins, ends, given),
         NEW u \in E, u \notin given, NEW home, home = at[u],
         NEW ends2, ends2 = With(ends, home, ends[home] + 1),
         NEW place2, place2 = With(place, u, ends[home])
  PROVE  /\ ends2 \in [0..N -> Nat]
         /\ place2 \in Slots(at, 0..(N - 1), begins, ends2, Adding(given, u))
<1>1. PICK m \in 0..(N - 1) : m = at[u]
  OBVIOUS
<1>2. PICK p \in Nat : p = ends[m]
  BY <1>1
<1>3. place \in [E -> Int] /\ m \in 0..N
  BY <1>1 DEF Slots
<1>4. ends2 = [ends EXCEPT ![m] = p + 1] /\ place2 = [place EXCEPT ![u] = p]
  BY <1>1, <1>2 DEF With
<1>5. ends2 \in [0..N -> Nat] /\ ends2[m] = p + 1 /\ \A n \in 0..(N - 1) : n # m => ends2[n] = ends[n]
  BY ONLY ends \in [0..N -> Nat], N \in Nat, <1>2, <1>3, <1>4
<1>6. place2 \in [E -> Int] /\ place2[u] = p /\ \A v \in E : v # u => place2[v] = place[v]
  BY <1>3, <1>4
<1>7. /\ begins \in [0..N -> Nat]
      /\ \A n \in 0..(N - 1) : ends[n] \in begins[n]..begins[n + 1]
      /\ \A i, j \in 0..N : i <= j => begins[i] <= begins[j]
      /\ p < begins[m + 1]
  BY <1>1, <1>2, SlotsInRange
<1>8. /\ ends2 \in [0..N -> Nat] /\ place2 \in [E -> Int]
      /\ ends2[m] = p + 1 /\ \A n \in 0..(N - 1) : n # m => ends2[n] = ends[n]
      /\ place2[u] = p /\ \A v \in given : place2[v] = place[v]
  BY <1>5, <1>6
<1>9. ASSUME NEW n \in 0..(N - 1)
      PROVE  ends2[n] = begins[n] + Cardinality(PartsAt(at, n, given \cup {u}))
  <2>1. PICK a : a = Cardinality(PartsAt(at, n, given))
    OBVIOUS
  <2>2. IsFiniteSet(given)
    BY FS_Subset
  <2>3. /\ a \in Nat
        /\ n = m => Cardinality(PartsAt(at, n, given \cup {u})) = a + 1
        /\ n # m => Cardinality(PartsAt(at, n, given \cup {u})) = a
    BY <1>1, <2>1, <2>2, OnePartMore
  <2>4. ends[n] = begins[n] + a /\ begins[n] \in Nat
    <3>1. n \in 0..N
      OBVIOUS
    <3> QED BY <1>7, <2>1, <3>1 DEF Slots
  <2>5. PICK b \in Nat : b = begins[n]
    BY <2>4
  <2>6. CASE n = m
    <3>1. ends2[n] = p + 1 /\ p = b + a
      BY <1>2, <1>8, <2>4, <2>5, <2>6
    <3>2. Cardinality(PartsAt(at, n, given \cup {u})) = a + 1
      BY <2>3, <2>6
    <3>3. p + 1 = b + (a + 1)
      BY <2>3, <3>1
    <3> QED BY <2>5, <3>1, <3>2, <3>3
  <2>7. CASE n # m
    BY <1>8, <2>3, <2>4, <2>7
  <2> QED BY <2>6, <2>7
<1>10. ASSUME NEW v \in given PROVE place[v] # p
  <2>1. PICK n \in 0..(N - 1) : n = at[v]
    OBVIOUS
  <2>2. PICK q \in Int : q = place[v]
    BY DEF Slots
  <2>3. q \in begins[n]..(ends[n] - 1)
    BY <2>1, <2>2 DEF Slots
  <2>4. /\ n \in 0..N /\ n + 1 \in 0..N /\ m \in 0..N /\ m + 1 \in 0..N
    OBVIOUS
  <2>5. PICK bn \in Nat, bn1 \in Nat, bm \in Nat, bm1 \in Nat, en \in Nat :
          /\ bn = begins[n] /\ bn1 = begins[n + 1] /\ bm = begins[m] /\ bm1 = begins[m + 1]
          /\ en = ends[n]
    BY <1>7, <2>4
  <2>6. bn <= q /\ q <= en - 1 /\ en <= bn1 /\ bm <= p /\ p < bm1
    BY <1>2, <1>7, <2>2, <2>3, <2>5
  <2>7. CASE n = m
    BY <1>2, <2>2, <2>5, <2>6, <2>7
  <2>8. CASE n < m
    <3>1. bn1 <= bm
      <4>1. n + 1 <= m
        BY <2>8
      <4> QED BY <1>7, <2>4, <2>5, <4>1
    <3> QED BY <2>2, <2>6, <3>1
  <2>9. CASE n > m
    <3>1. bm1 <= bn
      <4>1. m + 1 <= n
        BY <2>9
      <4> QED BY <1>7, <2>4, <2>5, <4>1
    <3> QED BY <2>2, <2>6, <3>1
  <2> QED BY <2>7, <2>8, <2>9
<1>11. \A v, w \in given \cup {u} : place2[v] = place2[w] => v = w
  <2>1. \A v, w \in given : place[v] = place[w] => v = w
    BY DEF Slots
  <2> QED BY ONLY <2>1, <1>8, <1>10
<1>12. ASSUME NEW v \in given \cup {u} PROVE place2[v] \in begins[at[v]]..(ends2[at[v]] - 1)
  <2>1. PICK n \in 0..(N - 1) : n = at[v]
    OBVIOUS
  <2>2. begins[n] \in Nat /\ ends[n] \in Nat /\ begins[n] <= ends[n]
    <3>1. n \in 0..N /\ n + 1 \in 0..N
      OBVIOUS
    <3>2. begins[n] \in Nat /\ begins[n + 1] \in Nat /\ ends[n] \in Nat
      BY <1>7, <3>1
    <3>3. ends[n] \in begins[n]..begins[n + 1]
      BY <1>7
    <3> QED BY <3>2, <3>3
  <2>3. CASE v = u
    BY <1>1, <1>2, <1>8, <2>1, <2>2, <2>3
  <2>4. CASE v # u
    <3>1. v \in given /\ place2[v] = place[v]
      BY <1>8, <2>4
    <3>2. place[v] \in begins[n]..(ends[n] - 1)
      BY <2>1, <3>1 DEF Slots
    <3>3. ends2[n] = ends[n] \/ ends2[n] = ends[n] + 1
      BY <1>2, <1>8
    <3>4. PICK a \in Nat, b \in Nat : a = begins[n] /\ b = ends[n]
      BY <2>2
    <3>5. PICK q : q = place[v]
      OBVIOUS
    <3>6. q \in a..(b - 1) /\ (ends2[n] = b \/ ends2[n] = b + 1)
      BY <3>2, <3>3, <3>4, <3>5
    <3>7. q \in a..(ends2[n] - 1)
      BY ONLY <3>4, <3>6, a \in Nat, b \in Nat
    <3> QED BY <2>1, <3>1, <3>4, <3>5, <3>7
  <2> QED BY <2>3, <2>4
<1>13. ASSUME NEW n \in 0..(N - 1), NEW i \in begins[n]..(ends2[n] - 1)
      PROVE  \E v \in PartsAt(at, n, given \cup {u}) : place2[v] = i
  <2>1. CASE n = m /\ i = p
    BY <1>1, <1>8, <2>1 DEF PartsAt
  <2>2. CASE ~(n = m /\ i = p)
    <3>1. i \in begins[n]..(ends[n] - 1)
      <4>1. n \in 0..N
        OBVIOUS
      <4>2. begins[n] \in Nat /\ ends[n] \in Nat
        BY <1>7, <4>1
      <4>3. PICK a \in Nat, b \in Nat : a = begins[n] /\ b = ends[n]
        BY <4>2
      <4>4. ends2[n] = IF n = m THEN p + 1 ELSE b
        BY <1>8, <4>3
      <4>5. n = m => b = p
        BY <1>2, <4>3
      <4>6. i \in a..(ends2[n] - 1)
        BY <4>3
      <4>7. i \in a..(b - 1)
        BY ONLY <2>2, <4>4, <4>5, <4>6, a \in Nat, b \in Nat, p \in Nat
      <4> QED BY <4>3, <4>7
    <3>2. PICK v \in PartsAt(at, n, given) : place[v] = i
      BY <3>1 DEF Slots
    <3> QED BY <1>8, <3>2 DEF PartsAt
  <2> QED BY <2>1, <2>2
<1>14. place2 \in Slots(at, 0..(N - 1), begins, ends2, given \cup {u})
  BY <1>8, <1>9, <1>11, <1>12, <1>13 DEF Slots
<1> QED BY <1>8, <1>14 DEF Adding

Holding(S, place, array, dest) == \A u \in S : array[place[u]] = dest[u]

ListsAll(slice, S, dest) ==
  \E which \in Bijection(DOMAIN slice, S) : \A i \in DOMAIN slice : slice[i] = dest[which[i]]

(* When all slots are given out, a node's range is its parts'.             *)
LEMMA AllSlotsGiven ==
  ASSUME NEW N \in Nat, NEW E, IsFiniteSet(E), NEW at \in [E -> 0..(N - 1)],
         NEW c \in Sizes(at, 0..(N - 1), E),
         NEW begins, begins = ParallelPrefixSum(c),
         NEW ends, NEW place \in Slots(at, 0..(N - 1), begins, ends, E),
         NEW array, NEW dest, Holding(E, place, array, dest),
         NEW n \in 0..(N - 1), NEW slice, slice = Slice(array, begins[n], begins[n + 1])
  PROVE  ListsAll(slice, PartsAt(at, n, E), dest)
<1>1. c \in [0..(N - 1) -> Nat] /\ \A m \in 0..(N - 1) : c[m] = Cardinality(PartsAt(at, m, E))
  BY DEF Sizes
<1>2. PICK b \in Nat, e \in Nat : b = begins[n] /\ e = begins[n + 1] /\ e = b + c[n]
  <2>1. n \in 0..N /\ n + 1 \in 0..N
    OBVIOUS
  <2>2. begins \in [0..N -> Nat] /\ begins[n + 1] = begins[n] + c[n]
    BY <1>1, RangesAreApart
  <2> QED BY <1>1, <2>1, <2>2
<1>3. ends[n] = e
  BY <1>1, <1>2 DEF Slots
<1>4. DOMAIN slice = 1..(e - b) /\ \A i \in 1..(e - b) : slice[i] = array[b + i - 1]
  BY <1>2 DEF Slice
<1>5. \A i \in 1..(e - b) : \E u \in PartsAt(at, n, E) : place[u] = b + i - 1
  <2>1. \A i \in 1..(e - b) : b + i - 1 \in b..(e - 1)
    OBVIOUS
  <2> QED BY <1>2, <1>3, <2>1 DEF Slots
<1>6. PICK which : which = [i \in 1..(e - b) |-> CHOOSE u \in PartsAt(at, n, E) : place[u] = b + i - 1]
  OBVIOUS
<1>7. \A i \in 1..(e - b) : which[i] \in PartsAt(at, n, E) /\ place[which[i]] = b + i - 1
  BY <1>5, <1>6
<1>8. which \in [1..(e - b) -> PartsAt(at, n, E)]
  BY <1>6, <1>7
<1>9. \A i, j \in 1..(e - b) : which[i] = which[j] => i = j
  <2> TAKE i, j \in 1..(e - b)
  <2>1. which[i] = which[j] => b + i - 1 = b + j - 1
    BY <1>7
  <2> QED BY <2>1
<1>10. ASSUME NEW u \in PartsAt(at, n, E) PROVE \E i \in 1..(e - b) : which[i] = u
  <2>1. u \in E /\ place[u] \in b..(e - 1)
    BY <1>2, <1>3 DEF Slots, PartsAt
  <2>2. PICK i : i = place[u] - b + 1
    OBVIOUS
  <2>3. i \in 1..(e - b) /\ b + i - 1 = place[u]
    <3>1. PICK q \in Int : q = place[u]
      BY <2>1
    <3>2. q \in b..(e - 1)
      BY <2>1, <3>1
    <3>3. i = q - b + 1
      BY <2>2, <3>1
    <3>4. i \in 1..(e - b) /\ b + i - 1 = q
      BY <3>2, <3>3
    <3> QED BY <3>1, <3>4
  <2>4. which[i] \in E /\ place[which[i]] = place[u]
    BY <1>7, <2>3 DEF PartsAt
  <2> QED BY <2>1, <2>3, <2>4 DEF Slots
<1>11. which \in Bijection(1..(e - b), PartsAt(at, n, E))
  BY <1>8, <1>9, <1>10 DEF Bijection, Injection, IsInjective, Surjection
<1>12. \A i \in 1..(e - b) : slice[i] = dest[which[i]]
  BY <1>4, <1>7 DEF PartsAt, Holding
<1>13. DOMAIN slice = 1..(e - b)
  BY <1>4
<1>14. \A i \in DOMAIN slice : slice[i] = dest[which[i]]
  BY <1>12, <1>13
<1>15. which \in Bijection(DOMAIN slice, PartsAt(at, n, E))
  BY <1>11, <1>13
<1> QED BY <1>14, <1>15 DEF ListsAll

EntryLists(tr) == [k \in DOMAIN el |-> Entries(el[k], tr)]
CountLists(tr) == [k \in DOMAIN el |-> CountedAt(el[k], tr)]

Arcs    == [v : Nodes, w : Int]
PassEntry == [at : Nodes, dest : Arcs]

AtNode(tr) == [u \in AllEntries(tr) |-> Entry(u, tr).at]

(* What the list counts and stores are nodes of the graph.                 *)
LEMMA EndsAreNodes ==
  ASSUME BuildJob
  PROVE  /\ num_nodes \in Nat
         /\ \A k \in DOMAIN el : el[k].u \in Nodes /\ el[k].v.v \in Nodes /\ el[k].v.w \in Int
<1> DEFINE S == {j \in Nat : j <= Len(el) => \E b \in Nat : \A k \in 1..j : el[k].u <= b /\ el[k].v.v <= b}
           ends == {0} \cup UNION {{el[k].u, el[k].v.v} : k \in DOMAIN el}
<1>1. PICK n \in Nat : n = Len(el)
  BY DEF BuildJob
<1>2. DOMAIN el = 1..n /\ \A k \in 1..n : el[k].u \in Nat /\ el[k].v.v \in Nat /\ el[k].v.w \in Int
  <2>1. DOMAIN el = 1..n /\ \A k \in 1..n : el[k] \in ListedEdge
    BY <1>1, ElementOfSeq DEF BuildJob
  <2>2. \A e \in ListedEdge : e.u \in Nat /\ e.v.v \in Nat /\ e.v.w \in Int
    BY DEF ListedEdge
  <2> QED BY <2>1, <2>2
<1>3. 0 \in S
  <2>1. \A k \in 1..0 : el[k].u <= 0 /\ el[k].v.v <= 0
    OBVIOUS
  <2> QED BY <2>1
<1>4. ASSUME NEW j \in 0..(n - 1), j \in S PROVE j + 1 \in S
  <2>1. PICK b \in Nat : \A k \in 1..j : el[k].u <= b /\ el[k].v.v <= b
    BY <1>1, <1>4
  <2>2. PICK x \in Nat, y \in Nat : x = el[j + 1].u /\ y = el[j + 1].v.v
    <3>1. j + 1 \in 1..n
      OBVIOUS
    <3> QED BY <1>2, <3>1
  <2>3. \A k \in 1..(j + 1) : el[k].u <= b + x + y /\ el[k].v.v <= b + x + y
    <3> TAKE k \in 1..(j + 1)
    <3>1. PICK p \in Nat, q \in Nat : p = el[k].u /\ q = el[k].v.v
      <4>1. k \in 1..n
        OBVIOUS
      <4> QED BY <1>2, <4>1
    <3>2. CASE k = j + 1
      BY <2>2, <3>1, <3>2
    <3>3. CASE k # j + 1
      <4>1. k \in 1..j
        BY <3>3
      <4>2. p <= b /\ q <= b
        BY <2>1, <3>1, <4>1
      <4> QED BY <2>2, <3>1, <4>2
    <3> QED BY <3>2, <3>3
  <2>4. b + x + y \in Nat /\ j + 1 \in Nat
    OBVIOUS
  <2> QED BY <2>3, <2>4
<1>5. n \in S
  <2>1. n \in 0..n
    OBVIOUS
  <2> HIDE DEF S
  <2> QED BY <1>3, <1>4, <2>1, Counting
<1>6. PICK b \in Nat : \A k \in 1..n : el[k].u <= b /\ el[k].v.v <= b
  <2>1. n <= Len(el)
    <3>1. n <= n
      OBVIOUS
    <3> QED BY <1>1, <3>1
  <2>2. n <= Len(el) => \E b \in Nat : \A k \in 1..n : el[k].u <= b /\ el[k].v.v <= b
    BY ONLY <1>5
  <2> QED BY <2>1, <2>2
<1>7. \A x \in ends : x \in Nat /\ x <= b
  BY <1>2, <1>6
<1>8. ends \subseteq Nat /\ ends # {}
  BY <1>7
<1>9. Max(ends) \in ends /\ \A x \in ends : x <= Max(ends)
  <2> HIDE DEF ends
  <2> QED BY <1>7, <1>8, GreatestOf
<1>10. PICK m \in Nat : m = Max(ends)
  <2> HIDE DEF ends
  <2> QED BY <1>8, <1>9
<1>11. num_nodes = m + 1
  BY <1>10 DEF num_nodes, FindMaxNodeID
<1>12. Nodes = 0..m
  BY <1>11 DEF Nodes
<1>13. \A k \in DOMAIN el : el[k].u \in ends /\ el[k].v.v \in ends
  OBVIOUS
<1>14. \A k \in DOMAIN el : el[k].u \in 0..m /\ el[k].v.v \in 0..m
  <2> HIDE DEF ends
  <2> QED BY <1>7, <1>9, <1>10, <1>13
<1> QED BY <1>2, <1>11, <1>12, <1>14

(* A list of one part and another.                                         *)
LEMMA OneAndOther ==
  ASSUME NEW x, NEW y
  PROVE  <<x>> \o << >> = <<x>> /\ << >> \o <<y>> = <<y>> /\ <<x>> \o <<y>> = <<x, y>>
<1>1. <<x>> \in Seq({x, y}) /\ <<y>> \in Seq({x, y})
  OBVIOUS
<1>2. <<x>> \o << >> = <<x>> /\ << >> \o <<y>> = <<y>>
  BY <1>1, ConcatEmptySeq
<1>3. <<x>> \o <<y>> = <<x, y>>
  <2>1. PICK a, b, c, d : a = <<x>> /\ b = <<y>> /\ c = a \o b /\ d = <<x, y>>
    OBVIOUS
  <2>2. /\ a \in Seq({x, y}) /\ b \in Seq({x, y}) /\ Len(a) = 1 /\ Len(b) = 1
        /\ a[1] = x /\ b[1] = y
    BY <2>1
  <2>3. c \in Seq({x, y}) /\ Len(c) = 2
    BY <2>1, <2>2, ConcatProperties
  <2>4. c[1] = x /\ c[2] = y
    <3>1. 1 \in 1..2 /\ 2 \in 1..2 /\ 2 - 1 = 1 /\ ~(2 <= 1) /\ 1 <= 1
      OBVIOUS
    <3>2. \A i \in 1..2 : c[i] = IF i <= 1 THEN a[i] ELSE b[i - 1]
      BY <2>1, <2>2, ConcatProperties
    <3> QED BY <2>2, <3>1, <3>2
  <2>5. d \in Seq({x, y}) /\ Len(d) = 2 /\ d[1] = x /\ d[2] = y
    BY <2>1
  <2>6. \A i \in 1..2 : c[i] = d[i]
    <3>1. \A i \in 1..2 : i = 1 \/ i = 2
      OBVIOUS
    <3> QED BY <2>4, <2>5, <3>1
  <2>7. c = d
    BY <2>3, <2>5, <2>6, SeqEqual
  <2> QED BY <2>1, <2>7
<1> QED BY <1>2, <1>3

(* An edge is counted at the nodes at which its entries are stored, in one *)
(* order.                                                                  *)
LEMMA ListsAgree ==
  ASSUME BuildJob, ~in_place, NEW tr \in BOOLEAN
  PROVE  /\ Listing(CountLists(tr), Nodes) /\ Listing(EntryLists(tr), PassEntry)
         /\ Parts(CountLists(tr)) = AllEntries(tr) /\ Parts(EntryLists(tr)) = AllEntries(tr)
         /\ DOMAIN CountLists(tr) = DOMAIN el /\ DOMAIN EntryLists(tr) = DOMAIN el
         /\ DOMAIN el \subseteq Nat
         /\ \A u \in AllEntries(tr) : /\ Part(EntryLists(tr), u) = Entry(u, tr)
                           /\ Part(CountLists(tr), u) = AtNode(tr)[u]
         /\ AtNode(tr) \in [AllEntries(tr) -> Nodes] /\ IsFiniteSet(AllEntries(tr))
<1>1. ASSUME NEW k \in DOMAIN el
      PROVE  /\ CountLists(tr)[k] \in Seq(Nodes) /\ EntryLists(tr)[k] \in Seq(PassEntry)
             /\ Len(EntryLists(tr)[k]) \in {1, 2}
             /\ Len(CountLists(tr)[k]) = Len(EntryLists(tr)[k])
             /\ \A i \in 1..Len(EntryLists(tr)[k]) : CountLists(tr)[k][i] = EntryLists(tr)[k][i].at
  <2> DEFINE e == el[k]
             x == [at |-> e.u, dest |-> e.v]
             y == [at |-> e.v.v, dest |-> Dest(e.u, e.v.w)]
  <2>1. e.u \in Nodes /\ e.v.v \in Nodes /\ e.v.w \in Int /\ e.v \in Arcs
    <3>1. e.v \in [v : Nat, w : Int]
      <4>1. e \in ListedEdge
        BY ElementOfSeq DEF BuildJob
      <4> QED BY <4>1 DEF ListedEdge
    <3> QED BY <3>1, EndsAreNodes DEF Arcs
  <2>2. x \in PassEntry /\ y \in PassEntry /\ x.at = e.u /\ y.at = e.v.v
    BY <2>1 DEF PassEntry, Dest, Arcs
  <2>3. EntryLists(tr)[k] = Entries(e, tr) /\ CountLists(tr)[k] = CountedAt(e, tr)
    BY DEF EntryLists, CountLists
  <2>4. \/ EntryLists(tr)[k] = <<x>> /\ CountLists(tr)[k] = <<e.u>>
        \/ EntryLists(tr)[k] = <<y>> /\ CountLists(tr)[k] = <<e.v.v>>
        \/ EntryLists(tr)[k] = <<x, y>> /\ CountLists(tr)[k] = <<e.u, e.v.v>>
    <3>1. symmetrize \in BOOLEAN
      BY DEF BuildJob
    <3>2. PICK f, g : f = <<x>> /\ g = <<y>>
      OBVIOUS
    <3>3. f \o << >> = <<x>> /\ << >> \o g = <<y>> /\ f \o g = <<x, y>>
      BY <3>2, OneAndOther
    <3>4. PICK a, b : a = <<e.u>> /\ b = <<e.v.v>>
      OBVIOUS
    <3>5. a \o << >> = <<e.u>> /\ << >> \o b = <<e.v.v>> /\ a \o b = <<e.u, e.v.v>>
      BY <3>4, OneAndOther
    <3> HIDE DEF x, y, e
    <3>6. CASE symmetrize
      BY <2>3, <3>2, <3>3, <3>4, <3>5, <3>6 DEF Entries, CountedAt, x, y
    <3>7. CASE ~symmetrize /\ tr
      BY <2>3, <3>2, <3>3, <3>4, <3>5, <3>7 DEF Entries, CountedAt, x, y
    <3>8. CASE ~symmetrize /\ ~tr
      BY <2>3, <3>2, <3>3, <3>4, <3>5, <3>8 DEF Entries, CountedAt, x, y
    <3> QED BY <3>1, <3>6, <3>7, <3>8
  <2> HIDE DEF x, y, e
  <2>5. CASE EntryLists(tr)[k] = <<x>> /\ CountLists(tr)[k] = <<e.u>>
    BY <2>1, <2>2, <2>5
  <2>6. CASE EntryLists(tr)[k] = <<y>> /\ CountLists(tr)[k] = <<e.v.v>>
    BY <2>1, <2>2, <2>6
  <2>7. CASE EntryLists(tr)[k] = <<x, y>> /\ CountLists(tr)[k] = <<e.u, e.v.v>>
    BY <2>1, <2>2, <2>7
  <2> QED BY <2>4, <2>5, <2>6, <2>7
<1>2. /\ DOMAIN CountLists(tr) = DOMAIN el /\ DOMAIN EntryLists(tr) = DOMAIN el
      /\ \A k \in DOMAIN el : EntryLists(tr)[k] = Entries(el[k], tr)
  BY DEF CountLists, EntryLists
<1>3. Parts(CountLists(tr)) = Parts(EntryLists(tr))
  BY <1>1, <1>2 DEF Parts
<1>4. Parts(EntryLists(tr)) = AllEntries(tr)
  BY <1>2 DEF Parts, AllEntries
<1>5. ASSUME NEW u \in AllEntries(tr)
      PROVE  /\ Part(EntryLists(tr), u) = Entry(u, tr)
             /\ Part(CountLists(tr), u) = Entry(u, tr).at
             /\ Entry(u, tr).at \in Nodes
  <2>1. u[1] \in DOMAIN el /\ u[2] \in {1, 2} /\ u[2] <= Len(EntryLists(tr)[u[1]])
    BY <1>2 DEF AllEntries
  <2>2. u[2] \in 1..Len(EntryLists(tr)[u[1]])
    BY <1>1, <2>1
  <2>3. Part(EntryLists(tr), u) = Entry(u, tr)
    BY <1>2, <2>1 DEF Part, Entry
  <2>4. Part(CountLists(tr), u) = Part(EntryLists(tr), u).at
    BY <1>1, <2>1, <2>2 DEF Part
  <2>5. Part(EntryLists(tr), u) \in PassEntry
    BY <1>1, <2>1, <2>2, ElementOfSeq DEF Part
  <2> QED BY <2>3, <2>4, <2>5 DEF PassEntry
<1>6. AtNode(tr) \in [AllEntries(tr) -> Nodes] /\ \A u \in AllEntries(tr) : AtNode(tr)[u] = Entry(u, tr).at
  BY <1>5 DEF AtNode
<1>7. IsFiniteSet(AllEntries(tr)) /\ DOMAIN el \subseteq Nat
  <2>1. PICK n \in Nat : DOMAIN el = 1..n
    BY DEF BuildJob
  <2>2. IsFiniteSet(1..n) /\ IsFiniteSet(1..2)
    <3>1. 1 \in Int /\ 2 \in Int /\ n \in Int
      OBVIOUS
    <3> QED BY <3>1, FS_Interval
  <2>3. IsFiniteSet((1..n) \X (1..2))
    BY <2>2, FS_Product
  <2>4. AllEntries(tr) \subseteq (1..n) \X (1..2)
    BY <2>1 DEF AllEntries
  <2> QED BY <2>1, <2>3, <2>4, FS_Subset
<1> QED BY <1>1, <1>2, <1>3, <1>4, <1>5, <1>6, <1>7 DEF Listing

(* What is counted and stored depends on the job alone.                    *)
LEMMA ListsStay ==
  ASSUME UNCHANGED job, NEW tr, tr = transpose'
  PROVE  /\ CountLists(transpose)' = CountLists(tr) /\ EntryLists(transpose)' = EntryLists(tr)
         /\ AtNode(transpose)' = AtNode(tr) /\ AllEntries(transpose)' = AllEntries(tr)
         /\ Nodes' = Nodes /\ num_nodes' = num_nodes /\ el' = el
         /\ PassEntry' = PassEntry /\ Arcs' = Arcs
         /\ \A u : Entry(u, transpose)' = Entry(u, tr)
         /\ BuildJob' = BuildJob /\ in_place' = in_place /\ symmetrize' = symmetrize
<1>1. /\ el' = el /\ symmetrize' = symmetrize /\ in_place' = in_place
      /\ num_nodes' = num_nodes /\ Nodes' = Nodes
  BY DEF el, symmetrize, in_place, num_nodes, Nodes
<1>2. /\ \A e : Entries(e, transpose)' = Entries(e, tr)
      /\ \A e : CountedAt(e, transpose)' = CountedAt(e, tr)
  BY DEF Entries, CountedAt, symmetrize, in_place
<1>3. /\ CountLists(transpose)' = CountLists(tr) /\ EntryLists(transpose)' = EntryLists(tr)
  BY DEF CountLists, EntryLists, Entries, CountedAt, symmetrize, in_place, el
<1>4. AllEntries(transpose)' = AllEntries(tr) /\ \A u : Entry(u, transpose)' = Entry(u, tr)
  BY DEF AllEntries, Entry, Entries, symmetrize, el
<1>5. AtNode(transpose)' = AtNode(tr)
  BY DEF AtNode, AllEntries, Entry, Entries, symmetrize, el
<1>6. Arcs' = Arcs /\ PassEntry' = PassEntry /\ BuildJob' = BuildJob
  BY <1>1 DEF Arcs, PassEntry, BuildJob
<1> QED BY <1>1, <1>3, <1>4, <1>5, <1>6

(* What a pass has stored stays what the list has.                         *)
LEMMA HoldsStays ==
  ASSUME UNCHANGED job, NEW tr, NEW index, index = outgoing'
  PROVE  HoldsEntries(outgoing, tr)' <=> HoldsEntries(index, tr)
<1>1. Nodes' = Nodes
  BY DEF Nodes, num_nodes, el
<1>2. \A n : EntriesAt(n, tr)' = EntriesAt(n, tr)
  BY DEF EntriesAt, AllEntries, Entry, Entries, el, symmetrize
<1>3. \A u : Entry(u, tr)' = Entry(u, tr)
  BY DEF Entry, Entries, el, symmetrize
<1> QED BY <1>1, <1>2, <1>3 DEF HoldsEntries

(* What the threads have done of the parts.                                *)
Finished(lists, td, dg, cur) == Parts(lists) \ Awaiting(lists, td, dg, cur)

PartsOf(lists) == [u \in Parts(lists) |-> Part(lists, u)]

(* The edges that the threads can be at, given each node's count.          *)
Tally(lists, at, td, dg, counts) ==
  {cur \in Taking(lists, td, dg) : \A n \in DOMAIN counts :
     counts[n] = Cardinality(PartsAt(at, n, Finished(lists, td, dg, cur)))}

(* The slots the parts can have, given what is stored and which slots the  *)
(* threads hold.                                                           *)
Placing(lists, at, dest, nodes, begins, ends, array, td, dg, cur) ==
  {place \in Slots(at, nodes, begins, ends,
                   Finished(lists, td, dg, cur) \cup Promised(lists, dg, cur)) :
     /\ \A u \in Finished(lists, td, dg, cur) : array[place[u]] = dest[u]
     /\ \A t \in Threads : dg[t].step = "store" =>
          dg[t].slot = place[First(lists, cur[t], dg[t].left)]}

(* What the threads can do while edges are counted, and while entries are  *)
(* stored.                                                                 *)
CountingHands(X, lists, at, td, counts) ==
  {dg \in [Threads -> {Idle} \cup Hands(X)] : \E cur : cur \in Tally(lists, at, td, dg, counts)}

StoringHands(X, lists, at, dest, nodes, begins, ends, array, td) ==
  {dg \in [Threads -> {Idle} \cup Hands(X)] :
     \E cur \in Taking(lists, td, dg) :
       \E place : place \in Placing(lists, at, dest, nodes, begins, ends, array, td, dg, cur)}

(* As a pass begins nothing is done, and when it ends everything is.       *)
LEMMA OnEntering ==
  ASSUME NEW lists, NEW td, td = DOMAIN lists, NEW dg, dg = [t \in Threads |-> Idle],
         NEW cur \in [Threads -> Nat]
  PROVE  /\ cur \in Taking(lists, td, dg)
         /\ Finished(lists, td, dg, cur) = {}
         /\ Promised(lists, dg, cur) = {}
<1>1. \A t \in Threads : dg[t] = Idle /\ dg[t].step # "store"
  BY DEF Idle
<1>2. cur \in Taking(lists, td, dg)
  BY <1>1 DEF Taking
<1>3. Promised(lists, dg, cur) = {}
  BY <1>1 DEF Promised
<1>4. \A u \in Parts(lists) : u \in Awaiting(lists, td, dg, cur)
  BY DEF Awaiting, Parts
<1> QED BY <1>2, <1>3, <1>4 DEF Finished

LEMMA OnLeaving ==
  ASSUME NEW lists, NEW td, td = {}, NEW dg, \A t \in Threads : dg[t] = Idle, NEW cur
  PROVE  Finished(lists, td, dg, cur) = Parts(lists) /\ Promised(lists, dg, cur) = {}
<1>1. \A t \in Threads : dg[t].step # "store"
  BY DEF Idle
<1>2. Promised(lists, dg, cur) = {}
  BY <1>1 DEF Promised
<1>3. \A u : u \notin Awaiting(lists, td, dg, cur)
  BY DEF Awaiting
<1> QED BY <1>2, <1>3 DEF Finished

(* Counting.                                                               *)
LEMMA TallyTakes ==
  ASSUME NEW X, NEW lists, Listing(lists, X), DOMAIN lists \subseteq Nat,
         NEW td \in SUBSET DOMAIN lists,
         NEW at, NEW counts, NEW dg \in CountingHands(X, lists, at, td, counts),
         NEW t \in Threads, dg[t] = Idle, NEW k \in td,
         NEW next, next = [step |-> "count", left |-> lists[k]],
         NEW dg2, dg2 = With(dg, t, UnlessDone(next)),
         NEW td2, td2 = Without(td, k)
  PROVE  dg2 \in CountingHands(X, lists, at, td2, counts)
<1>1. PICK cur : cur \in Tally(lists, at, td, dg, counts)
  BY DEF CountingHands
<1>2. dg \in [Threads -> {Idle} \cup Hands(X)]
  BY DEF CountingHands
<1>3. PICK list \in Seq(X) : list = lists[k] /\ Len(list) \in {1, 2}
  BY DEF Listing
<1>4. list # << >>
  <2>1. \A m \in {1, 2} : m # 0
    OBVIOUS
  <2>2. Len(list) # 0
    BY <1>3, <2>1, Zenon
  <2> QED BY <2>2, EmptySeq
<1>5. next \in Hands(X) /\ next.left = lists[k] /\ next.step # "store" /\ UnlessDone(next) = next
  BY <1>3, <1>4 DEF Hands, UnlessDone
<1>6. cur \in Taking(lists, td, dg) /\ k \in Nat
  BY <1>1 DEF Tally
<1>7. PICK cur2 : cur2 = With(cur, t, k)
  OBVIOUS
<1>8. dg2 = With(dg, t, next)
  BY <1>5
<1>9. /\ dg2 \in [Threads -> {Idle} \cup Hands(X)]
      /\ cur2 \in Taking(lists, td2, dg2)
      /\ Awaiting(lists, td2, dg2, cur2) = Awaiting(lists, td, dg, cur)
  <2>1. td \subseteq DOMAIN lists /\ dg \in [Threads -> {Idle} \cup Hands(X)] /\ Listing(lists, X)
        /\ dg[t] = Idle /\ t \in Threads /\ k \in td /\ td2 = Without(td, k)
    BY <1>2
  <2>2. dg2 \in [Threads -> {Idle} \cup Hands(X)]
    BY <1>2, <1>5, <1>8 DEF With
  <2>3. PICK A, P : A = Awaiting(lists, td, dg, cur) /\ P = Promised(lists, dg, cur)
    OBVIOUS
  <2>4. cur2 \in GoingOn(lists, td2, dg2, A, P)
    BY ONLY <2>1, <2>3, <1>5, <1>6, <1>7, <1>8, TakingAnEdge
  <2> QED BY <2>2, <2>3, <2>4 DEF GoingOn
<1>10. cur2 \in Tally(lists, at, td2, dg2, counts)
  BY <1>1, <1>9 DEF Tally, Finished
<1> QED BY <1>9, <1>10 DEF CountingHands

(* Adding one to a node's count finishes the part that is counted.         *)
LEMMA TallyCounts ==
  ASSUME NEW X, NEW lists, Listing(lists, X),
         NEW td \in SUBSET DOMAIN lists,
         IsFiniteSet(Parts(lists)), NEW at, at = PartsOf(lists),
         NEW counts \in [X -> Nat], NEW dg \in CountingHands(X, lists, at, td, counts),
         NEW t \in Threads, dg[t] # Idle,
         NEW next, next.left = Tail(dg[t].left), next.step # "store",
         Tail(dg[t].left) # << >> => next \in Hands(X),
         NEW dg2, dg2 = With(dg, t, UnlessDone(next)),
         NEW n, n = Head(dg[t].left), NEW counts2, counts2 = FetchAndAdd(counts, n)
  PROVE  dg2 \in CountingHands(X, lists, at, td, counts2)
<1>1. PICK cur : cur \in Tally(lists, at, td, dg, counts)
  BY DEF CountingHands
<1>2. dg \in [Threads -> {Idle} \cup Hands(X)] /\ dg[t] \in Hands(X)
  BY DEF CountingHands
<1>3. PICK left \in Seq(X) : left = dg[t].left /\ left # << >>
  BY <1>2 DEF Hands
<1>4. Tail(left) \in Seq(X) /\ Head(left) \in X
  BY <1>3, HeadTailProperties
<1>5. /\ next.left = Tail(dg[t].left) /\ next.step # "store"
      /\ Tail(dg[t].left) # << >> => next \in Hands(X)
  OBVIOUS
<1>6. cur \in Taking(lists, td, dg)
  BY <1>1 DEF Tally
<1>7. PICK u : u = First(lists, cur[t], dg[t].left)
  OBVIOUS
<1>8. /\ dg2 \in [Threads -> {Idle} \cup Hands(X)]
      /\ cur \in Taking(lists, td, dg2)
      /\ Awaiting(lists, td, dg2, cur) = Without(Awaiting(lists, td, dg, cur), u)
      /\ u \in Awaiting(lists, td, dg, cur)
      /\ u \in Parts(lists) /\ Part(lists, u) = Head(dg[t].left)
  <2>1. /\ dg \in [Threads -> {Idle} \cup Hands(X)] /\ Listing(lists, X)
        /\ dg[t] # Idle /\ t \in Threads /\ dg2 = With(dg, t, UnlessDone(next))
    BY <1>2
  <2> QED BY ONLY <2>1, <1>5, <1>6, <1>7, FinishingAPart
<1>9. PICK S : S = Finished(lists, td, dg, cur)
  OBVIOUS
<1>10. Finished(lists, td, dg2, cur) = S \cup {u} /\ u \notin S /\ IsFiniteSet(S)
  <2>1. S \subseteq Parts(lists)
    BY <1>9 DEF Finished
  <2>2. IsFiniteSet(S)
    BY <2>1, FS_Subset
  <2> QED BY <1>8, <1>9, <2>2 DEF Finished, Without
<1>11. PICK m \in X : m = n /\ m = Head(dg[t].left) /\ at[u] = m
  BY <1>3, <1>4, <1>8 DEF PartsOf
<1>12. counts2 = [counts EXCEPT ![m] = @ + 1]
  BY <1>11 DEF FetchAndAdd
<1>13. counts2 \in [X -> Nat]
  BY <1>12
<1>14. ASSUME NEW x \in X PROVE counts2[x] = Cardinality(PartsAt(at, x, S \cup {u}))
  <2>1. PICK a : a = Cardinality(PartsAt(at, x, S))
    OBVIOUS
  <2>2. /\ a \in Nat
        /\ x = m => Cardinality(PartsAt(at, x, S \cup {u})) = a + 1
        /\ x # m => Cardinality(PartsAt(at, x, S \cup {u})) = a
    <3>1. /\ IsFiniteSet(S) /\ u \notin S /\ at[u] = m
          /\ a = Cardinality(PartsAt(at, x, S))
      BY <1>10, <1>11, <2>1
    <3> QED BY ONLY <3>1, OnePartMore
  <2>3. counts[x] = a
    BY <1>1, <1>9, <2>1 DEF Tally
  <2> QED BY <1>12, <2>2, <2>3
<1>15. cur \in Tally(lists, at, td, dg2, counts2)
  <2>1. DOMAIN counts2 = X
    BY <1>13
  <2> QED BY <1>8, <1>10, <1>14, <2>1 DEF Tally
<1> QED BY <1>8, <1>15 DEF CountingHands

(* Storing.                                                                *)
LEMMA PlacingStarts ==
  ASSUME NEW lists, NEW at, NEW dest, NEW N \in Nat,
         DOMAIN at = Parts(lists),
         NEW begins \in [0..N -> Nat],
         NEW array, NEW td, td = DOMAIN lists, NEW dg, dg = [t \in Threads |-> Idle],
         NEW cur \in [Threads -> Nat]
  PROVE  \E place : place \in Placing(lists, at, dest, 0..(N - 1), begins, begins, array, td, dg, cur)
<1>1. /\ Finished(lists, td, dg, cur) = {} /\ Promised(lists, dg, cur) = {}
      /\ \A t \in Threads : dg[t].step # "store"
  BY OnEntering DEF Idle
<1>2. PICK none : none = {}
  OBVIOUS
<1>3. PICK place : place = [u \in DOMAIN at |-> 0]
  OBVIOUS
<1>4. place \in Slots(at, 0..(N - 1), begins, begins, none)
  <2>1. ASSUME NEW n \in 0..(N - 1)
        PROVE  /\ begins[n] = begins[n] + Cardinality(PartsAt(at, n, none))
               /\ \A i \in begins[n]..(begins[n] - 1) : \E u \in PartsAt(at, n, none) : place[u] = i
    <3>1. n \in 0..N
      OBVIOUS
    <3>2. PICK b \in Nat : b = begins[n]
      BY <3>1
    <3>3. PartsAt(at, n, none) = {}
      BY <1>2 DEF PartsAt
    <3>4. Cardinality(PartsAt(at, n, none)) = 0
      BY <3>3, FS_EmptySet
    <3>5. b = b + 0 /\ b..(b - 1) = {}
      OBVIOUS
    <3> QED BY <3>2, <3>4, <3>5
  <2>2. place \in [DOMAIN at -> Int]
    BY <1>3
  <2> QED BY <1>2, <2>1, <2>2 DEF Slots
<1> QED BY <1>1, <1>2, <1>4 DEF Placing

(* Taking an edge, reserving a slot and storing in it.                     *)
LEMMA PlacingTakes ==
  ASSUME NEW X, NEW lists, Listing(lists, X), DOMAIN lists \subseteq Nat,
         NEW td \in SUBSET DOMAIN lists,
         NEW at, NEW dest, NEW nodes, NEW begins, NEW ends, NEW array,
         NEW dg \in StoringHands(X, lists, at, dest, nodes, begins, ends, array, td),
         NEW t \in Threads, dg[t] = Idle, NEW k \in td,
         NEW next, next = [step |-> "reserve", left |-> lists[k]],
         NEW dg2, dg2 = With(dg, t, UnlessDone(next)),
         NEW td2, td2 = Without(td, k)
  PROVE  dg2 \in StoringHands(X, lists, at, dest, nodes, begins, ends, array, td2)
<1>1. PICK cur \in Taking(lists, td, dg) :
        \E place : place \in Placing(lists, at, dest, nodes, begins, ends, array, td, dg, cur)
  BY DEF StoringHands
<1>2. PICK place : place \in Placing(lists, at, dest, nodes, begins, ends, array, td, dg, cur)
  BY <1>1
<1>3. dg \in [Threads -> {Idle} \cup Hands(X)]
  BY DEF StoringHands
<1>4. PICK list \in Seq(X) : list = lists[k] /\ Len(list) \in {1, 2}
  BY DEF Listing
<1>5. list # << >>
  <2>1. PICK m \in {1, 2} : m = Len(list)
    BY <1>4
  <2>2. Len(list) # 0
    BY <2>1
  <2> QED BY <2>2, EmptySeq
<1>6. next \in Hands(X) /\ next.left = lists[k] /\ next.step # "store" /\ UnlessDone(next) = next
  BY <1>4, <1>5 DEF Hands, UnlessDone
<1>7. k \in Nat
  OBVIOUS
<1>8. PICK cur2 : cur2 = With(cur, t, k)
  OBVIOUS
<1>9. dg2 = With(dg, t, next)
  BY <1>6
<1>10. /\ dg2 \in [Threads -> {Idle} \cup Hands(X)]
      /\ cur2 \in Taking(lists, td2, dg2)
      /\ Awaiting(lists, td2, dg2, cur2) = Awaiting(lists, td, dg, cur)
      /\ Promised(lists, dg2, cur2) = Promised(lists, dg, cur)
  <2>1. td \subseteq DOMAIN lists /\ dg \in [Threads -> {Idle} \cup Hands(X)] /\ Listing(lists, X)
        /\ dg[t] = Idle /\ t \in Threads /\ k \in td /\ td2 = Without(td, k)
    BY <1>3
  <2>2. dg2 \in [Threads -> {Idle} \cup Hands(X)]
    BY <1>3, <1>6, <1>9 DEF With
  <2>3. PICK A, P : A = Awaiting(lists, td, dg, cur) /\ P = Promised(lists, dg, cur)
    OBVIOUS
  <2>4. cur2 \in GoingOn(lists, td2, dg2, A, P)
    BY ONLY <2>1, <2>3, <1>6, <1>7, <1>8, <1>9, TakingAnEdge
  <2> QED BY <2>2, <2>3, <2>4 DEF GoingOn
<1>11. Finished(lists, td2, dg2, cur2) = Finished(lists, td, dg, cur)
  BY <1>10 DEF Finished
<1>12. ASSUME NEW s \in Threads, dg2[s].step = "store"
      PROVE  dg2[s].slot = place[First(lists, cur2[s], dg2[s].left)]
  <2>1. s # t
    BY <1>3, <1>6, <1>9, <1>12 DEF With
  <2>2. dg2[s] = dg[s] /\ cur2[s] = cur[s]
    BY <1>8, <1>9, <2>1 DEF With, Taking
  <2> QED BY <1>2, <1>12, <2>2 DEF Placing
<1>13. place \in Placing(lists, at, dest, nodes, begins, ends, array, td2, dg2, cur2)
  BY <1>2, <1>10, <1>11, <1>12 DEF Placing
<1> QED BY <1>10, <1>13 DEF StoringHands

(* The node and the neighbour of each entry.                               *)
Labelled(lists, at, dest) ==
  \A u \in Parts(lists) : at[u] = Part(lists, u).at /\ dest[u] = Part(lists, u).dest

LEMMA PlacingReserves ==
  ASSUME NEW X, NEW lists, Listing(lists, X), IsFiniteSet(Parts(lists)),
         NEW N \in Nat, NEW at \in [Parts(lists) -> 0..(N - 1)],
         NEW counts \in Sizes(at, 0..(N - 1), Parts(lists)),
         NEW begins, begins = ParallelPrefixSum(counts), NEW ends \in [0..N -> Nat],
         NEW dest, Labelled(lists, at, dest), NEW array, NEW td,
         NEW dg \in StoringHands(X, lists, at, dest, 0..(N - 1), begins, ends, array, td),
         NEW t \in Threads, dg[t] # Idle, dg[t].step = "reserve",
         NEW n, n = Head(dg[t].left).at,
         NEW next, next = [step |-> "store", left |-> dg[t].left, slot |-> ends[n]],
         NEW dg2, dg2 = With(dg, t, next),
         NEW ends2, ends2 = FetchAndAdd(ends, n)
  PROVE  dg2 \in StoringHands(X, lists, at, dest, 0..(N - 1), begins, ends2, array, td)
<1>1. PICK cur \in Taking(lists, td, dg) :
        \E place : place \in Placing(lists, at, dest, 0..(N - 1), begins, ends, array, td, dg, cur)
  BY DEF StoringHands
<1>2. PICK place : place \in Placing(lists, at, dest, 0..(N - 1), begins, ends, array, td, dg, cur)
  BY <1>1
<1>3. dg \in [Threads -> {Idle} \cup Hands(X)]
  BY DEF StoringHands
<1>4. PICK u : u = First(lists, cur[t], dg[t].left)
  OBVIOUS
<1>5. PICK left \in Seq(X) : left = dg[t].left /\ left # << >>
  <2>1. dg[t] \in Hands(X)
    BY <1>3
  <2> QED BY <2>1 DEF Hands
<1>6. dg[t].step # "store" /\ next.left = dg[t].left /\ next.step = "store" /\ next.slot = ends[n]
  OBVIOUS
<1>7. PICK S, P : S = Finished(lists, td, dg, cur) /\ P = Promised(lists, dg, cur)
  OBVIOUS
<1>8. cur[t] \in DOMAIN lists /\ EndOf(left, lists[cur[t]])
  BY <1>5 DEF Taking
<1>9. /\ u \in Parts(lists) /\ Part(lists, u) = Head(left)
  BY <1>4, <1>5, <1>8, FirstIsHead
<1>10. n \in 0..(N - 1) /\ at[u] = n
  BY <1>5, <1>9 DEF Labelled
<1>11. ends[n] \in Nat
  <2>1. n \in 0..N
    BY <1>10
  <2> QED BY <2>1
<1>12. next \in Hands(X)
  BY <1>5, <1>11 DEF Hands
<1>13. /\ dg2 \in [Threads -> {Idle} \cup Hands(X)]
       /\ cur \in Taking(lists, td, dg2)
       /\ Awaiting(lists, td, dg2, cur) = Awaiting(lists, td, dg, cur)
       /\ Promised(lists, dg2, cur) = Promised(lists, dg, cur) \cup {u}
       /\ u \in Awaiting(lists, td, dg, cur) \ Promised(lists, dg, cur)
  <2>1. /\ dg \in [Threads -> {Idle} \cup Hands(X)] /\ Listing(lists, X) /\ cur \in Taking(lists, td, dg)
        /\ dg[t] # Idle /\ t \in Threads /\ dg2 = With(dg, t, next)
    BY <1>3
  <2> QED BY ONLY <2>1, <1>4, <1>6, <1>12, PromisingASlot
<1>14. /\ Finished(lists, td, dg2, cur) = S /\ Promised(lists, dg2, cur) = P \cup {u}
       /\ u \in Parts(lists) \ (S \cup P) /\ S \cup P \in SUBSET Parts(lists)
  <2>1. P \subseteq Parts(lists)
    <3>1. ASSUME NEW s \in Threads, dg[s].step = "store"
          PROVE  First(lists, cur[s], dg[s].left) \in Parts(lists)
      <4>1. dg[s] \in Hands(X)
        BY <1>3, <3>1 DEF Idle
      <4>2. PICK rest \in Seq(X) : rest = dg[s].left
        BY <4>1 DEF Hands
      <4>3. cur[s] \in DOMAIN lists /\ EndOf(rest, lists[cur[s]])
        BY <3>1, <4>2 DEF Taking, Idle
      <4> QED BY <4>2, <4>3, FirstIsHead
    <3> QED BY <1>7, <3>1 DEF Promised
  <2> QED BY <1>7, <1>9, <1>13, <2>1 DEF Finished
<1>15. PICK G : G = S \cup P
  OBVIOUS
<1>16. PICK place2, G2 : place2 = With(place, u, ends[n]) /\ G2 = Adding(G, u)
  OBVIOUS
<1>17. /\ ends2 \in [0..N -> Nat]
       /\ place2 \in Slots(at, 0..(N - 1), begins, ends2, G2)
  <2>1. place \in Slots(at, 0..(N - 1), begins, ends, G)
    BY <1>2, <1>7, <1>15 DEF Placing
  <2>2. G \in SUBSET Parts(lists) /\ u \in Parts(lists) /\ u \notin G
    BY <1>14, <1>15
  <2>3. n = at[u] /\ ends2 = With(ends, n, ends[n] + 1)
    BY <1>10, <1>11 DEF FetchAndAdd, With
  <2>4. /\ N \in Nat /\ IsFiniteSet(Parts(lists)) /\ at \in [Parts(lists) -> 0..(N - 1)]
        /\ counts \in Sizes(at, 0..(N - 1), Parts(lists))
        /\ begins = ParallelPrefixSum(counts) /\ ends \in [0..N -> Nat]
    OBVIOUS
  <2>5. place2 = With(place, u, ends[n])
    BY <1>16
  <2>6. place2 \in Slots(at, 0..(N - 1), begins, ends2, Adding(G, u))
    BY ONLY <2>1, <2>2, <2>3, <2>4, <2>5, GivingASlot
  <2>7. ends2 \in [0..N -> Nat]
    <3>1. n \in 0..N /\ ends[n] + 1 \in Nat
      <4>1. N \in Nat /\ n \in 0..(N - 1)
        BY <1>10
      <4>2. n \in 0..N
        BY ONLY <4>1
      <4>3. ends[n] + 1 \in Nat
        BY ONLY <1>11
      <4> QED BY <4>2, <4>3
    <3>2. ends \in [0..N -> Nat] /\ ends2 = [ends EXCEPT ![n] = ends[n] + 1]
      BY <2>3 DEF With
    <3> QED BY ONLY <3>1, <3>2
  <2> QED BY <1>16, <2>6, <2>7
<1>18. place \in [Parts(lists) -> Int]
  BY <1>2 DEF Placing, Slots
<1>19. place2[u] = ends[n] /\ \A v \in Parts(lists) : v # u => place2[v] = place[v]
  BY <1>9, <1>10, <1>16, <1>18 DEF With
<1>20. \A v \in S : array[place2[v]] = dest[v]
  BY <1>2, <1>7, <1>14, <1>19 DEF Placing
<1>21. ASSUME NEW s \in Threads, dg2[s].step = "store"
       PROVE  dg2[s].slot = place2[First(lists, cur[s], dg2[s].left)]
  <2>1. CASE s = t
    <3>1. dg2[s] = next
      BY <1>3, <2>1 DEF With
    <3> QED BY <1>4, <1>6, <1>19, <2>1, <3>1
  <2>2. CASE s # t
    <3>1. dg2[s] = dg[s]
      BY <1>3, <2>2 DEF With
    <3>2. First(lists, cur[s], dg[s].left) \in P
      BY <1>7, <1>21, <3>1 DEF Promised
    <3>3. First(lists, cur[s], dg[s].left) # u /\ First(lists, cur[s], dg[s].left) \in Parts(lists)
      BY <1>14, <3>2
    <3>4. dg[s].slot = place[First(lists, cur[s], dg[s].left)]
      BY <1>2, <1>21, <3>1 DEF Placing
    <3> QED BY <1>19, <3>1, <3>3, <3>4
  <2> QED BY <2>1, <2>2
<1>22. place2 \in Placing(lists, at, dest, 0..(N - 1), begins, ends2, array, td, dg2, cur)
  <2>1. S \cup (P \cup {u}) = G2
    BY <1>15, <1>16 DEF Adding
  <2> QED BY <1>14, <1>17, <1>20, <1>21, <2>1 DEF Placing
<1> QED BY <1>13, <1>22 DEF StoringHands

LEMMA PlacingStores ==
  ASSUME NEW X, NEW lists, Listing(lists, X), IsFiniteSet(Parts(lists)),
         NEW N \in Nat, NEW at \in [Parts(lists) -> 0..(N - 1)],
         NEW counts \in Sizes(at, 0..(N - 1), Parts(lists)),
         NEW begins, begins = ParallelPrefixSum(counts), NEW ends,
         NEW dest, Labelled(lists, at, dest),
         NEW array, DOMAIN array = 0..(begins[N] - 1), NEW td,
         NEW dg \in StoringHands(X, lists, at, dest, 0..(N - 1), begins, ends, array, td),
         NEW t \in Threads, dg[t] # Idle, dg[t].step = "store",
         NEW next, next.left = Tail(dg[t].left), next.step # "store",
         Tail(dg[t].left) # << >> => next \in Hands(X),
         NEW dg2, dg2 = With(dg, t, UnlessDone(next)),
         NEW slot, slot = dg[t].slot, NEW d, d = Head(dg[t].left).dest,
         NEW array2, array2 = With(array, slot, d)
  PROVE  dg2 \in StoringHands(X, lists, at, dest, 0..(N - 1), begins, ends, array2, td)
<1>1. PICK cur \in Taking(lists, td, dg) :
        \E place : place \in Placing(lists, at, dest, 0..(N - 1), begins, ends, array, td, dg, cur)
  BY DEF StoringHands
<1>2. PICK place : place \in Placing(lists, at, dest, 0..(N - 1), begins, ends, array, td, dg, cur)
  BY <1>1
<1>3. dg \in [Threads -> {Idle} \cup Hands(X)]
  BY DEF StoringHands
<1>4. PICK u : u = First(lists, cur[t], dg[t].left)
  OBVIOUS
<1>5. PICK left \in Seq(X) : left = dg[t].left /\ left # << >>
  <2>1. dg[t] \in Hands(X)
    BY <1>3
  <2> QED BY <2>1 DEF Hands
<1>6. Tail(left) \in Seq(X) /\ Head(left) \in X
  BY <1>5, HeadTailProperties
<1>7. /\ next.left = Tail(dg[t].left) /\ next.step # "store"
      /\ Tail(dg[t].left) # << >> => next \in Hands(X)
  OBVIOUS
<1>8. /\ dg2 \in [Threads -> {Idle} \cup Hands(X)]
      /\ cur \in Taking(lists, td, dg2)
      /\ Awaiting(lists, td, dg2, cur) = Without(Awaiting(lists, td, dg, cur), u)
      /\ Promised(lists, dg2, cur) = Without(Promised(lists, dg, cur), u)
      /\ u \in Awaiting(lists, td, dg, cur)
      /\ u \in Parts(lists) /\ Part(lists, u) = Head(dg[t].left)
  <2>1. /\ dg \in [Threads -> {Idle} \cup Hands(X)] /\ Listing(lists, X)
        /\ dg[t] # Idle /\ t \in Threads /\ dg2 = With(dg, t, UnlessDone(next))
        /\ cur \in Taking(lists, td, dg)
    BY <1>3
  <2> QED BY ONLY <2>1, <1>7, <1>4, FinishingAPart
<1>9. PICK S, P : S = Finished(lists, td, dg, cur) /\ P = Promised(lists, dg, cur)
  OBVIOUS
<1>10. u \in P
  BY <1>4, <1>9 DEF Promised
<1>11. Finished(lists, td, dg2, cur) = S \cup {u} /\ Promised(lists, dg2, cur) = P \ {u} /\ u \notin S
  BY <1>8, <1>9 DEF Finished, Without
<1>12. P \subseteq Parts(lists) /\ S \subseteq Parts(lists)
  <2>1. ASSUME NEW s \in Threads, dg[s].step = "store"
        PROVE  First(lists, cur[s], dg[s].left) \in Parts(lists)
    <3>1. dg[s] \in Hands(X)
      BY <1>3, <2>1 DEF Idle
    <3>2. PICK rest \in Seq(X) : rest = dg[s].left
      BY <3>1 DEF Hands
    <3>3. cur[s] \in DOMAIN lists /\ EndOf(rest, lists[cur[s]])
      BY <2>1, <3>2 DEF Taking, Idle
    <3> QED BY <3>2, <3>3, FirstIsHead
  <2> QED BY <1>9, <2>1 DEF Promised, Finished
<1>13. PICK G : G = S \cup P
  OBVIOUS
<1>14. place \in Slots(at, 0..(N - 1), begins, ends, G) /\ G \in SUBSET Parts(lists)
  BY <1>2, <1>9, <1>12, <1>13 DEF Placing
<1>15. \A v \in G : place[v] \in 0..(begins[N] - 1)
  <2>1. /\ N \in Nat /\ IsFiniteSet(Parts(lists)) /\ at \in [Parts(lists) -> 0..(N - 1)]
        /\ counts \in Sizes(at, 0..(N - 1), Parts(lists))
        /\ begins = ParallelPrefixSum(counts)
    OBVIOUS
  <2> QED BY ONLY <1>14, <2>1, SlotsInRange
<1>16. dg[t].slot = place[u] /\ place[u] \in 0..(begins[N] - 1)
  BY <1>2, <1>4, <1>10, <1>13, <1>15 DEF Placing
<1>17. d = dest[u]
  BY <1>8 DEF Labelled
<1>18. array2 = [array EXCEPT ![place[u]] = dest[u]]
  BY <1>16, <1>17 DEF With
<1>19. ASSUME NEW v \in S \cup {u} PROVE array2[place[v]] = dest[v]
  <2>1. CASE v = u
    BY <1>16, <1>18, <2>1
  <2>2. CASE v # u
    <3>1. v \in G /\ u \in G
      BY <1>10, <1>13, <2>2
    <3>2. place[v] # place[u]
      BY <1>14, <2>2, <3>1 DEF Slots
    <3>3. place[v] \in 0..(begins[N] - 1)
      BY <1>15, <3>1
    <3>4. array2[place[v]] = array[place[v]]
      BY <1>18, <3>2, <3>3
    <3> QED BY <1>2, <1>9, <2>2, <3>4 DEF Placing
  <2> QED BY <2>1, <2>2
<1>20. ASSUME NEW s \in Threads, dg2[s].step = "store"
       PROVE  dg2[s].slot = place[First(lists, cur[s], dg2[s].left)]
  <2>1. UnlessDone(next).step # "store" /\ dg2[t] = UnlessDone(next)
    BY <1>3, <1>7 DEF UnlessDone, Idle, With
  <2>2. dg2[s] = dg[s]
    BY <1>3, <1>20, <2>1 DEF With
  <2> QED BY <1>2, <1>20, <2>2 DEF Placing
<1>21. place \in Placing(lists, at, dest, 0..(N - 1), begins, ends, array2, td, dg2, cur)
  <2>1. (S \cup {u}) \cup (P \ {u}) = G
    BY <1>10, <1>13
  <2> QED BY <1>11, <1>14, <1>19, <1>20, <2>1 DEF Placing
<1> QED BY <1>8, <1>21 DEF StoringHands

DestOf(tr) == [u \in AllEntries(tr) |-> Entry(u, tr).dest]

(* While edges are counted: each node's count is that of its parts that    *)
(* are done.                                                               *)
CountingAt(tr, td, dg, counts) ==
  /\ td \in SUBSET DOMAIN el
  /\ counts \in [Nodes -> Nat]
  /\ dg \in CountingHands(Nodes, CountLists(tr), AtNode(tr), td, counts)

CountInv == CountingAt(transpose, todo, doing, degrees)

(* While they are stored: the slots given out are those of the parts that  *)
(* are stored, and of the heads of the threads about to store.             *)
FillingAt(tr, td, dg, counts, ends, array) ==
  /\ td \in SUBSET DOMAIN el
  /\ counts \in Sizes(AtNode(tr), Nodes, AllEntries(tr))
  /\ ends \in [0..num_nodes -> Nat]
  /\ DOMAIN array = 0..(ParallelPrefixSum(counts)[num_nodes] - 1)
  /\ dg \in StoringHands(PassEntry, EntryLists(tr), AtNode(tr), DestOf(tr), Nodes,
                    ParallelPrefixSum(counts), ends, array, td)

FillInv == FillingAt(transpose, todo, doing, degrees, offsets, neighs)

BuildInv ==
  /\ BuildJob /\ transpose \in BOOLEAN
  /\ transpose => region \in {"count", "fill"} /\ HoldsEntries(outgoing, FALSE)
  /\ region \in {"count", "fill"} => ~in_place
  /\ region = "count" => CountInv
  /\ region = "fill" => FillInv

(* The invariants of the next state, from their parts.                     *)
LEMMA CountInvNext ==
  ASSUME UNCHANGED job, NEW tr, tr = transpose', NEW td, td = todo', NEW dg, dg = doing',
         NEW counts, counts = degrees', CountingAt(tr, td, dg, counts)
  PROVE  CountInv'
<1>1. /\ CountLists(transpose)' = CountLists(tr) /\ AtNode(transpose)' = AtNode(tr)
      /\ Nodes' = Nodes /\ el' = el
  BY ListsStay
<1>2. CountInv' = CountingAt(tr, td, dg, counts)
  BY <1>1 DEF CountInv, CountingAt
<1> QED BY <1>2

LEMMA FillInvNext ==
  ASSUME UNCHANGED job, NEW tr, tr = transpose', NEW td, td = todo', NEW dg, dg = doing',
         NEW counts, counts = degrees', NEW ends, ends = offsets', NEW array, array = neighs',
         FillingAt(tr, td, dg, counts, ends, array)
  PROVE  FillInv'
<1>1. /\ EntryLists(transpose)' = EntryLists(tr) /\ AtNode(transpose)' = AtNode(tr)
      /\ AllEntries(transpose)' = AllEntries(tr) /\ Nodes' = Nodes /\ el' = el
      /\ num_nodes' = num_nodes /\ PassEntry' = PassEntry
      /\ \A u : Entry(u, transpose)' = Entry(u, tr)
  BY ListsStay
<1>2. DestOf(transpose)' = DestOf(tr)
  BY <1>1 DEF DestOf
<1>3. FillInv' = FillingAt(tr, td, dg, counts, ends, array)
  BY <1>1, <1>2 DEF FillInv, FillingAt
<1> QED BY <1>3

(* Each step keeps the invariant.                                          *)
LEMMA PassStarts ==
  ASSUME BuildJob, ~in_place, UNCHANGED job, NEW tr \in BOOLEAN, StartPass(tr)
  PROVE  /\ CountInv' /\ region' = "count" /\ transpose' = tr
<1>1. PICK td, dg, counts : td = todo' /\ dg = doing' /\ counts = degrees'
  OBVIOUS
<1>2. /\ td = DOMAIN el /\ dg = [t \in Threads |-> Idle] /\ counts = [n \in Nodes |-> 0]
      /\ region' = "count" /\ tr = transpose'
  BY <1>1 DEF StartPass, Enter
<1>3. PICK lists, at, X : lists = CountLists(tr) /\ at = AtNode(tr) /\ X = Nodes
  OBVIOUS
<1>4. td = DOMAIN lists
  BY <1>2, <1>3 DEF CountLists
<1>5. PICK cur \in [Threads -> Nat] : cur = [t \in Threads |-> 0]
  OBVIOUS
<1>6. cur \in Taking(lists, td, dg) /\ Finished(lists, td, dg, cur) = {}
  BY <1>2, <1>4, OnEntering
<1>7. \A n \in X : counts[n] = Cardinality(PartsAt(at, n, Finished(lists, td, dg, cur)))
  <2>1. \A n : PartsAt(at, n, Finished(lists, td, dg, cur)) = {}
    BY <1>6 DEF PartsAt
  <2> QED BY <1>2, <1>3, <2>1, FS_EmptySet
<1>8. cur \in Tally(lists, at, td, dg, counts)
  <2>1. DOMAIN counts = X
    BY <1>2, <1>3
  <2> QED BY <1>6, <1>7, <2>1 DEF Tally
<1>9. counts \in [Nodes -> Nat] /\ dg \in [Threads -> {Idle} \cup Hands(Nodes)]
  BY <1>2
<1>10. CountingAt(tr, td, dg, counts)
  BY <1>2, <1>3, <1>8, <1>9 DEF CountingAt, CountingHands
<1> QED BY <1>1, <1>2, <1>10, CountInvNext

LEMMA CountEdgeKeepsCountInv ==
  ASSUME BuildJob, ~in_place, transpose \in BOOLEAN, CountInv, NEW t \in Threads, CountEdge(t)
  PROVE  CountInv'
<1>1. PICK tr, td, dg, counts, td2, dg2, counts2, lists, at, X :
        /\ tr = transpose /\ td = todo /\ dg = doing /\ counts = degrees
        /\ td2 = todo' /\ dg2 = doing' /\ counts2 = degrees'
        /\ lists = CountLists(tr) /\ at = AtNode(tr) /\ X = Nodes
  OBVIOUS
<1>2. /\ Listing(lists, X) /\ DOMAIN lists = DOMAIN el /\ DOMAIN lists \subseteq Nat
      /\ at = PartsOf(lists) /\ IsFiniteSet(Parts(lists))
  <2>1. /\ Listing(lists, X) /\ Parts(lists) = AllEntries(tr) /\ DOMAIN lists = DOMAIN el
        /\ at \in [AllEntries(tr) -> X]
        /\ \A u \in AllEntries(tr) : at[u] = Part(lists, u)
        /\ DOMAIN el \subseteq Nat /\ IsFiniteSet(AllEntries(tr))
    BY <1>1, ListsAgree
  <2> QED BY <2>1 DEF PartsOf
<1>3. /\ td \in SUBSET DOMAIN lists /\ counts \in [X -> Nat]
      /\ dg \in CountingHands(X, lists, at, td, counts)
  BY <1>1, <1>2 DEF CountInv, CountingAt
<1>4. dg \in [Threads -> {Idle} \cup Hands(X)]
  BY <1>3 DEF CountingHands
<1>5. UNCHANGED job /\ tr = transpose'
  BY <1>1 DEF CountEdge, passVars
<1>6. SUFFICES CountingAt(tr, td2, dg2, counts2)
  BY <1>1, <1>5, CountInvNext
<1>7. SUFFICES /\ td2 \in SUBSET DOMAIN lists /\ counts2 \in [X -> Nat]
               /\ dg2 \in CountingHands(X, lists, at, td2, counts2)
  BY <1>1, <1>2 DEF CountingAt
<1>8. ASSUME NEW k \in todo,
             Take(t, k, UnlessDone([step |-> "count", left |-> CountedAt(el[k], transpose)])),
             UNCHANGED passVars
      PROVE  /\ td2 \in SUBSET DOMAIN lists /\ counts2 \in [X -> Nat]
             /\ dg2 \in CountingHands(X, lists, at, td2, counts2)
  <2>1. k \in td /\ k \in DOMAIN el /\ t \in Threads
    BY <1>1, <1>2, <1>3
  <2>2. lists[k] = CountedAt(el[k], transpose)
    BY <1>1, <2>1 DEF CountLists
  <2>3. PICK next : next = [step |-> "count", left |-> lists[k]]
    OBVIOUS
  <2>4. /\ dg[t] = Idle /\ td2 = Without(td, k) /\ dg2 = With(dg, t, UnlessDone(next))
        /\ counts2 = counts
    BY <1>1, <1>8, <2>2, <2>3 DEF Take, passVars, Without, With
  <2>5. dg2 \in CountingHands(X, lists, at, td2, counts)
    BY ONLY <1>2, <1>3, <2>1, <2>3, <2>4, TallyTakes
  <2>6. td2 \in SUBSET DOMAIN lists
    BY <1>3, <2>4 DEF Without
  <2> QED BY <1>3, <2>4, <2>5, <2>6
<1>9. ASSUME At(t, "count", "count"),
             degrees' = FetchAndAdd(degrees, Head(doing[t].left)),
             Proceed(t, UnlessDone([step |-> "count", left |-> Tail(doing[t].left)]))
      PROVE  /\ td2 \in SUBSET DOMAIN lists /\ counts2 \in [X -> Nat]
             /\ dg2 \in CountingHands(X, lists, at, td2, counts2)
  <2>1. PICK next, n : next = [step |-> "count", left |-> Tail(dg[t].left)] /\ n = Head(dg[t].left)
    OBVIOUS
  <2>2. /\ dg[t] # Idle /\ t \in Threads /\ td2 = td /\ dg2 = With(dg, t, UnlessDone(next))
        /\ counts2 = FetchAndAdd(counts, n)
    BY <1>1, <1>9, <2>1 DEF At, Idle, Proceed, With
  <2>3. PICK left \in Seq(X) : left = dg[t].left /\ left # << >>
    BY <1>4, <2>2 DEF Hands
  <2>4. Tail(left) \in Seq(X) /\ Head(left) \in X
    BY <2>3, HeadTailProperties
  <2>5. /\ next.left = Tail(dg[t].left) /\ next.step # "store"
        /\ Tail(dg[t].left) # << >> => next \in Hands(X)
        /\ n = Head(dg[t].left)
    BY <2>1, <2>3, <2>4 DEF Hands
  <2>6. dg2 \in CountingHands(X, lists, at, td, counts2)
    BY ONLY <1>2, <1>3, <2>2, <2>5, TallyCounts
  <2>7. counts2 \in [X -> Nat]
    BY <1>3, <2>1, <2>2, <2>3, <2>4 DEF FetchAndAdd
  <2> QED BY <1>3, <2>2, <2>6, <2>7
<1> QED BY <1>8, <1>9 DEF CountEdge

(* What ListsAgree says of the entries.                                    *)
LEMMA EntriesAgree ==
  ASSUME BuildJob, ~in_place, NEW tr \in BOOLEAN
  PROVE  /\ num_nodes \in Nat /\ Nodes = 0..(num_nodes - 1)
         /\ Listing(EntryLists(tr), PassEntry) /\ Parts(EntryLists(tr)) = AllEntries(tr)
         /\ DOMAIN EntryLists(tr) = DOMAIN el /\ DOMAIN EntryLists(tr) \subseteq Nat
         /\ IsFiniteSet(AllEntries(tr)) /\ AtNode(tr) \in [AllEntries(tr) -> Nodes]
         /\ Labelled(EntryLists(tr), AtNode(tr), DestOf(tr))
<1>1. num_nodes \in Nat /\ Nodes = 0..(num_nodes - 1)
  BY EndsAreNodes DEF Nodes
<1>2. /\ Listing(EntryLists(tr), PassEntry) /\ Parts(EntryLists(tr)) = AllEntries(tr)
      /\ DOMAIN EntryLists(tr) = DOMAIN el /\ DOMAIN el \subseteq Nat
      /\ IsFiniteSet(AllEntries(tr)) /\ AtNode(tr) \in [AllEntries(tr) -> Nodes]
      /\ \A u \in AllEntries(tr) : Part(EntryLists(tr), u) = Entry(u, tr)
  BY ListsAgree
<1>3. Labelled(EntryLists(tr), AtNode(tr), DestOf(tr))
  BY <1>2 DEF Labelled, AtNode, DestOf
<1> QED BY <1>1, <1>2, <1>3

(* When all are counted, each node's count is that of its entries.         *)
LEMMA EndCountingStartsFilling ==
  ASSUME BuildJob, ~in_place, transpose \in BOOLEAN, CountInv, EndCounting
  PROVE  FillInv'
<1>1. PICK tr, td, dg, counts, ends, array, td2, dg2 :
        /\ tr = transpose /\ td = todo /\ dg = doing /\ counts = degrees
        /\ ends = offsets' /\ array = neighs' /\ td2 = todo' /\ dg2 = doing'
  OBVIOUS
<1>2. /\ UNCHANGED job /\ tr = transpose' /\ counts = degrees'
      /\ td = {} /\ \A t \in Threads : dg[t] = Idle
      /\ ends = ParallelPrefixSum(counts)
      /\ array = [i \in 0..(ParallelPrefixSum(counts)[num_nodes] - 1) |-> Unset]
      /\ td2 = DOMAIN el /\ dg2 = [t \in Threads |-> Idle]
  BY <1>1 DEF EndCounting, AllDone, Enter
<1>3. SUFFICES FillingAt(tr, td2, dg2, counts, ends, array)
  BY <1>1, <1>2, FillInvNext
<1>4. PICK N, X, E, counted, lists, at, dest, begins :
        /\ N = num_nodes /\ X = PassEntry /\ E = AllEntries(tr)
        /\ counted = CountLists(tr) /\ lists = EntryLists(tr) /\ at = AtNode(tr) /\ dest = DestOf(tr)
        /\ begins = ParallelPrefixSum(counts)
  OBVIOUS
<1>5. /\ N \in Nat /\ Nodes = 0..(N - 1) /\ Parts(lists) = E /\ Parts(counted) = E
      /\ DOMAIN lists = DOMAIN el /\ at \in [E -> Nodes]
  BY <1>1, <1>4, EntriesAgree, ListsAgree
<1>6. counts \in [0..(N - 1) -> Nat]
  BY <1>1, <1>5 DEF CountInv, CountingAt
<1>7. PICK cur : cur \in Tally(counted, at, td, dg, counts)
  BY <1>1, <1>4 DEF CountInv, CountingAt, CountingHands
<1>8. Finished(counted, td, dg, cur) = E
  BY <1>2, <1>5, OnLeaving
<1>9. counts \in Sizes(at, Nodes, E)
  <2>1. DOMAIN counts = Nodes
    BY <1>5, <1>6
  <2> QED BY <1>5, <1>6, <1>7, <1>8, <2>1 DEF Tally, Sizes
<1>10. begins \in [0..N -> Nat]
  BY <1>4, <1>5, <1>6, RangesAreApart
<1>11. PICK cur2 \in [Threads -> Nat] : cur2 = [t \in Threads |-> 0]
  OBVIOUS
<1>12. td2 = DOMAIN lists
  BY <1>2, <1>5
<1>13. cur2 \in Taking(lists, td2, dg2)
  BY <1>2, <1>12, OnEntering
<1>14. \E place : place \in Placing(lists, at, dest, 0..(N - 1), begins, begins, array, td2, dg2, cur2)
  <2>1. N \in Nat /\ DOMAIN at = Parts(lists) /\ dg2 = [t \in Threads |-> Idle]
    BY <1>2, <1>5
  <2> QED BY ONLY <1>10, <1>12, <2>1, cur2 \in [Threads -> Nat], PlacingStarts
<1>15. dg2 \in [Threads -> {Idle} \cup Hands(X)]
  BY <1>2
<1>16. dg2 \in StoringHands(X, lists, at, dest, 0..(N - 1), begins, begins, array, td2)
  BY <1>13, <1>14, <1>15 DEF StoringHands
<1>17. DOMAIN array = 0..(begins[N] - 1) /\ ends = begins /\ td2 \in SUBSET DOMAIN el
  BY <1>2, <1>4
<1> QED BY <1>4, <1>5, <1>9, <1>10, <1>16, <1>17 DEF FillingAt

LEMMA FillSlotKeepsFillInv ==
  ASSUME BuildJob, ~in_place, transpose \in BOOLEAN, FillInv, NEW t \in Threads, FillSlot(t)
  PROVE  FillInv'
<1>1. PICK tr, td, dg, counts, ends, array, td2, dg2, ends2, array2, N, X, E, lists, at, dest, begins :
        /\ tr = transpose /\ td = todo /\ dg = doing /\ counts = degrees
        /\ ends = offsets /\ array = neighs
        /\ td2 = todo' /\ dg2 = doing' /\ ends2 = offsets' /\ array2 = neighs'
        /\ N = num_nodes /\ X = PassEntry /\ E = AllEntries(tr)
        /\ lists = EntryLists(tr) /\ at = AtNode(tr) /\ dest = DestOf(tr)
        /\ begins = ParallelPrefixSum(counts)
  OBVIOUS
<1>2. /\ N \in Nat /\ Nodes = 0..(N - 1) /\ Parts(lists) = E /\ IsFiniteSet(Parts(lists))
      /\ Listing(lists, X) /\ DOMAIN lists = DOMAIN el /\ DOMAIN lists \subseteq Nat
      /\ at \in [Parts(lists) -> 0..(N - 1)] /\ Labelled(lists, at, dest)
  BY <1>1, EntriesAgree
<1>3. /\ td \in SUBSET DOMAIN lists /\ counts \in Sizes(at, 0..(N - 1), Parts(lists))
      /\ ends \in [0..N -> Nat] /\ DOMAIN array = 0..(begins[N] - 1)
      /\ dg \in StoringHands(X, lists, at, dest, 0..(N - 1), begins, ends, array, td)
  BY <1>1, <1>2 DEF FillInv, FillingAt
<1>4. dg \in [Threads -> {Idle} \cup Hands(X)] /\ begins = ParallelPrefixSum(counts) /\ t \in Threads
  BY <1>1, <1>3 DEF StoringHands
<1>5. UNCHANGED job /\ tr = transpose' /\ counts = degrees'
  BY <1>1 DEF FillSlot, passVars
<1>6. SUFFICES FillingAt(tr, td2, dg2, counts, ends2, array2)
  BY <1>1, <1>5, FillInvNext
<1>7. SUFFICES /\ td2 \in SUBSET DOMAIN lists
               /\ ends2 \in [0..N -> Nat] /\ DOMAIN array2 = DOMAIN array
               /\ dg2 \in StoringHands(X, lists, at, dest, 0..(N - 1), begins, ends2, array2, td2)
  BY <1>1, <1>2, <1>3 DEF FillingAt
<1>8. ASSUME NEW k \in todo,
             Take(t, k, UnlessDone([step |-> "reserve", left |-> Entries(el[k], transpose)])),
             UNCHANGED passVars
      PROVE  /\ td2 \in SUBSET DOMAIN lists
             /\ ends2 \in [0..N -> Nat] /\ DOMAIN array2 = DOMAIN array
             /\ dg2 \in StoringHands(X, lists, at, dest, 0..(N - 1), begins, ends2, array2, td2)
  <2>1. k \in td /\ k \in DOMAIN el
    BY <1>1, <1>2, <1>3
  <2>2. lists[k] = Entries(el[k], transpose)
    BY <1>1, <2>1 DEF EntryLists
  <2>3. PICK next, nodes : next = [step |-> "reserve", left |-> lists[k]] /\ nodes = 0..(N - 1)
    OBVIOUS
  <2>4. /\ dg[t] = Idle /\ td2 = Without(td, k) /\ dg2 = With(dg, t, UnlessDone(next))
        /\ ends2 = ends /\ array2 = array
    BY <1>1, <1>8, <2>2, <2>3 DEF Take, passVars, Without, With
  <2>5. dg \in StoringHands(X, lists, at, dest, nodes, begins, ends, array, td)
    BY <1>3, <2>3
  <2>6. dg2 \in StoringHands(X, lists, at, dest, nodes, begins, ends, array, td2)
    BY ONLY <1>2, <1>3, <1>4, <2>1, <2>3, <2>4, <2>5, PlacingTakes
  <2>7. td2 \in SUBSET DOMAIN lists
    BY <1>3, <2>4 DEF Without
  <2> QED BY <1>3, <2>3, <2>4, <2>6, <2>7
<1>9. ASSUME At(t, "fill", "reserve"),
             offsets' = FetchAndAdd(offsets, Head(doing[t].left).at),
             Proceed(t, [step |-> "store", left |-> doing[t].left,
                         slot |-> offsets[Head(doing[t].left).at]]),
             neighs' = neighs
      PROVE  /\ td2 \in SUBSET DOMAIN lists
             /\ ends2 \in [0..N -> Nat] /\ DOMAIN array2 = DOMAIN array
             /\ dg2 \in StoringHands(X, lists, at, dest, 0..(N - 1), begins, ends2, array2, td2)
  <2>1. PICK n : n = Head(dg[t].left).at
    OBVIOUS
  <2>2. PICK next : next = [step |-> "store", left |-> dg[t].left, slot |-> ends[n]]
    OBVIOUS
  <2>3. /\ dg[t] # Idle /\ dg[t].step = "reserve" /\ td2 = td /\ dg2 = With(dg, t, next)
        /\ ends2 = FetchAndAdd(ends, n) /\ array2 = array
    BY <1>1, <1>9, <2>1, <2>2 DEF At, Idle, Proceed, With
  <2>4. dg2 \in StoringHands(X, lists, at, dest, 0..(N - 1), begins, ends2, array, td)
    BY ONLY <1>2, <1>3, <1>4, <2>1, <2>2, <2>3, PlacingReserves
  <2>5. ends2 \in [0..N -> Nat]
    <3>1. PICK left \in Seq(X) : left = dg[t].left /\ left # << >>
      BY <1>4, <2>3 DEF Hands
    <3>2. Head(left) \in X
      BY <3>1, HeadTailProperties
    <3>3. n \in 0..(N - 1)
      BY <1>1, <1>2, <2>1, <3>1, <3>2 DEF PassEntry
    <3>4. n \in 0..N
      BY <1>2, <3>3
    <3> QED BY <1>3, <2>3, <3>4 DEF FetchAndAdd
  <2> QED BY <1>3, <2>3, <2>4, <2>5
<1>10. ASSUME At(t, "fill", "store"),
              neighs' = [neighs EXCEPT ![doing[t].slot] = Head(doing[t].left).dest],
              Proceed(t, UnlessDone([step |-> "reserve", left |-> Tail(doing[t].left)])),
              offsets' = offsets
       PROVE  /\ td2 \in SUBSET DOMAIN lists
              /\ ends2 \in [0..N -> Nat] /\ DOMAIN array2 = DOMAIN array
              /\ dg2 \in StoringHands(X, lists, at, dest, 0..(N - 1), begins, ends2, array2, td2)
  <2>1. PICK next, slot, d :
          /\ next = [step |-> "reserve", left |-> Tail(dg[t].left)]
          /\ slot = dg[t].slot /\ d = Head(dg[t].left).dest
    OBVIOUS
  <2>2. /\ dg[t] # Idle /\ dg[t].step = "store" /\ td2 = td /\ dg2 = With(dg, t, UnlessDone(next))
        /\ ends2 = ends /\ array2 = With(array, slot, d)
    BY <1>1, <1>10, <2>1 DEF At, Idle, Proceed, With
  <2>3. PICK left \in Seq(X) : left = dg[t].left /\ left # << >>
    BY <1>4, <2>2 DEF Hands
  <2>4. Tail(left) \in Seq(X)
    BY <2>3, HeadTailProperties
  <2>5. /\ next.left = Tail(dg[t].left) /\ next.step # "store"
        /\ Tail(dg[t].left) # << >> => next \in Hands(X)
        /\ slot = dg[t].slot /\ d = Head(dg[t].left).dest
    BY <2>1, <2>3, <2>4 DEF Hands
  <2>6. dg2 \in StoringHands(X, lists, at, dest, 0..(N - 1), begins, ends, array2, td)
    BY ONLY <1>2, <1>3, <1>4, <2>2, <2>5, PlacingStores
  <2>7. DOMAIN array2 = DOMAIN array
    BY <2>2 DEF With
  <2> QED BY <1>3, <2>2, <2>6, <2>7
<1> QED BY <1>8, <1>9, <1>10 DEF FillSlot

(* When all are stored, each node's range holds its entries.               *)
LEMMA AllAreStored ==
  ASSUME BuildJob, ~in_place, transpose \in BOOLEAN, FillInv, AllDone("fill")
  PROVE  HoldsEntries(Index(neighs, ParallelPrefixSum(degrees)), transpose)
<1>1. PICK tr, td, dg, counts, ends, array, N, X, E, lists, at, dest, begins :
        /\ tr = transpose /\ td = todo /\ dg = doing /\ counts = degrees
        /\ ends = offsets /\ array = neighs
        /\ N = num_nodes /\ X = PassEntry /\ E = AllEntries(tr)
        /\ lists = EntryLists(tr) /\ at = AtNode(tr) /\ dest = DestOf(tr)
        /\ begins = ParallelPrefixSum(counts)
  OBVIOUS
<1>2. /\ N \in Nat /\ Nodes = 0..(N - 1) /\ Parts(lists) = E /\ IsFiniteSet(E)
      /\ at \in [E -> 0..(N - 1)]
  BY <1>1, EntriesAgree
<1>3. /\ counts \in Sizes(at, 0..(N - 1), E)
      /\ dg \in StoringHands(X, lists, at, dest, 0..(N - 1), begins, ends, array, td)
      /\ begins = ParallelPrefixSum(counts)
  BY <1>1, <1>2 DEF FillInv, FillingAt
<1>4. PICK cur \in Taking(lists, td, dg) :
        \E place : place \in Placing(lists, at, dest, 0..(N - 1), begins, ends, array, td, dg, cur)
  BY <1>3 DEF StoringHands
<1>5. PICK place : place \in Placing(lists, at, dest, 0..(N - 1), begins, ends, array, td, dg, cur)
  BY <1>4
<1>6. Finished(lists, td, dg, cur) = E /\ Promised(lists, dg, cur) = {}
  <2>1. td = {} /\ \A t \in Threads : dg[t] = Idle
    BY <1>1 DEF AllDone
  <2> QED BY <1>2, <2>1, OnLeaving
<1>7. place \in Slots(at, 0..(N - 1), begins, ends, E) /\ Holding(E, place, array, dest)
  <2>1. E \cup {} = E
    OBVIOUS
  <2> QED BY <1>5, <1>6, <2>1 DEF Placing, Holding
<1>8. ASSUME NEW n \in Nodes
      PROVE  LET list == Index(neighs, ParallelPrefixSum(degrees))[n]
             IN  \E which \in Bijection(DOMAIN list, EntriesAt(n, transpose)) :
                   \A i \in DOMAIN list : list[i] = Entry(which[i], transpose).dest
  <2>1. PICK slice : slice = Slice(array, begins[n], begins[n + 1])
    OBVIOUS
  <2>2. Index(neighs, ParallelPrefixSum(degrees))[n] = slice
    BY <1>1, <2>1 DEF Index
  <2>3. n \in 0..(N - 1)
    BY <1>2
  <2>4. ListsAll(slice, PartsAt(at, n, E), dest)
    BY ONLY <1>2, <1>3, <1>7, <2>1, <2>3, AllSlotsGiven
  <2>5. PartsAt(at, n, E) = EntriesAt(n, tr)
    BY <1>1 DEF PartsAt, EntriesAt, AtNode
  <2>6. PICK which \in Bijection(DOMAIN slice, EntriesAt(n, tr)) :
          \A i \in DOMAIN slice : slice[i] = dest[which[i]]
    BY <2>4, <2>5 DEF ListsAll
  <2>7. \A i \in DOMAIN slice : which[i] \in E
    BY <1>1, <2>6 DEF Bijection, Injection, EntriesAt
  <2>8. \A i \in DOMAIN slice : slice[i] = Entry(which[i], tr).dest
    BY <1>1, <2>6, <2>7 DEF DestOf
  <2> QED BY <1>1, <2>2, <2>6, <2>8
<1> QED BY <1>8 DEF HoldsEntries

LEMMA EndFillingKeepsBuildInv ==
  ASSUME BuildInv, EndFilling
  PROVE  BuildInv'
<1>1. /\ region = "fill" /\ AllDone("fill") /\ UNCHANGED job
      /\ BuildJob /\ ~in_place /\ transpose \in BOOLEAN /\ FillInv
  BY DEF EndFilling, AllDone, BuildInv
<1>2. PICK tr : tr = transpose'
  OBVIOUS
<1>3. BuildJob' /\ (~in_place)'
  BY <1>1, <1>2, ListsStay
<1>4. CASE region' = "built" /\ transpose' = FALSE
  BY <1>3, <1>4 DEF BuildInv
<1>5. CASE ~transpose /\ StartPass(TRUE) /\ outgoing' = Index(neighs, ParallelPrefixSum(degrees))
  <2>1. CountInv' /\ region' = "count" /\ transpose' = TRUE
    BY <1>1, <1>5, PassStarts
  <2>2. PICK index : index = Index(neighs, ParallelPrefixSum(degrees))
    OBVIOUS
  <2>3. HoldsEntries(index, FALSE)
    BY <1>1, <1>5, <2>2, AllAreStored
  <2>4. HoldsEntries(outgoing, FALSE)'
    <3>1. index = outgoing'
      BY <1>5, <2>2
    <3> QED BY <1>1, <2>3, <3>1, HoldsStays
  <2> QED BY <1>3, <2>1, <2>4 DEF BuildInv
<1>6. symmetrize \/ transpose => region' = "built" /\ transpose' = FALSE
  BY <1>1 DEF EndFilling, Enter, FreeMemory
<1>7. ~symmetrize /\ ~transpose => StartPass(TRUE) /\ outgoing' = Index(neighs, ParallelPrefixSum(degrees))
  BY DEF EndFilling
<1> QED BY <1>4, <1>5, <1>6, <1>7

(* Building never leaves its invariant.                                    *)
LEMMA BuildInvHolds == BuildSpec => []BuildInv
<1>1. BuildJob /\ BuilderInit => BuildInv
  BY DEF BuilderInit, BuildInv
<1>2. BuildInv /\ [BuilderNext]_buildAll => BuildInv'
  <2> SUFFICES ASSUME BuildInv, [BuilderNext]_buildAll PROVE BuildInv'
    OBVIOUS
  <2>1. ASSUME NEW t \in Threads, CountEdge(t) PROVE BuildInv'
    <3>1. /\ region = "count" /\ region' = "count" /\ UNCHANGED <<job, transpose, outgoing>>
      BY <2>1 DEF CountEdge, Take, Proceed, At, passVars
    <3>2. BuildJob /\ ~in_place /\ transpose \in BOOLEAN /\ CountInv
      BY <3>1 DEF BuildInv
    <3>3. CountInv'
      BY <2>1, <3>2, CountEdgeKeepsCountInv
    <3>4. BuildJob' /\ (~in_place)' /\ (HoldsEntries(outgoing, FALSE) => HoldsEntries(outgoing, FALSE)')
      <4>1. PICK tr, index : tr = transpose' /\ index = outgoing'
        OBVIOUS
      <4> QED BY <3>1, <3>2, <4>1, ListsStay, HoldsStays
    <3> QED BY <3>1, <3>3, <3>4 DEF BuildInv
  <2>2. ASSUME NEW t \in Threads, FillSlot(t) PROVE BuildInv'
    <3>1. /\ region = "fill" /\ region' = "fill" /\ UNCHANGED <<job, transpose, outgoing>>
      BY <2>2 DEF FillSlot, Take, Proceed, At, passVars
    <3>2. BuildJob /\ ~in_place /\ transpose \in BOOLEAN /\ FillInv
      BY <3>1 DEF BuildInv
    <3>3. FillInv'
      BY <2>2, <3>2, FillSlotKeepsFillInv
    <3>4. BuildJob' /\ (~in_place)' /\ (HoldsEntries(outgoing, FALSE) => HoldsEntries(outgoing, FALSE)')
      <4>1. PICK tr, index : tr = transpose' /\ index = outgoing'
        OBVIOUS
      <4> QED BY <3>1, <3>2, <4>1, ListsStay, HoldsStays
    <3> QED BY <3>1, <3>3, <3>4 DEF BuildInv
  <2>3. CASE StartBuilding
    <3>1. BuildJob /\ ~in_place /\ UNCHANGED job /\ StartPass(FALSE)
      BY <2>3 DEF StartBuilding, BuildInv
    <3>2. CountInv' /\ region' = "count" /\ transpose' = FALSE
      BY <3>1, PassStarts
    <3>3. BuildJob' /\ (~in_place)'
      <4>1. PICK tr : tr = transpose'
        OBVIOUS
      <4> QED BY <3>1, <4>1, ListsStay
    <3> QED BY <3>2, <3>3 DEF BuildInv
  <2>4. CASE EndCounting
    <3>1. /\ region = "count" /\ region' = "fill" /\ UNCHANGED <<job, transpose, outgoing>>
      BY <2>4 DEF EndCounting, AllDone, Enter
    <3>2. BuildJob /\ ~in_place /\ transpose \in BOOLEAN /\ CountInv
      BY <3>1 DEF BuildInv
    <3>3. FillInv'
      BY <2>4, <3>2, EndCountingStartsFilling
    <3>4. BuildJob' /\ (~in_place)' /\ (HoldsEntries(outgoing, FALSE) => HoldsEntries(outgoing, FALSE)')
      <4>1. PICK tr, index : tr = transpose' /\ index = outgoing'
        OBVIOUS
      <4> QED BY <3>1, <3>2, <4>1, ListsStay, HoldsStays
    <3> QED BY <3>1, <3>3, <3>4 DEF BuildInv
  <2>5. CASE EndFilling
    BY <2>5, EndFillingKeepsBuildInv
  <2>6. CASE \/ CleanEdges \/ CountClean \/ OverwriteList \/ FinishDirected \/ CountInverses
             \/ Widen \/ SpreadOut \/ AddInverse \/ FinishSymmetrized
    <3>1. /\ region \notin {"count", "fill"} /\ region' \notin {"count", "fill"} /\ UNCHANGED job
          /\ transpose' = transpose \/ transpose' = FALSE
      BY <2>6 DEF CleanEdges, CountClean, OverwriteList, FinishDirected, CountInverses,
                  Widen, SpreadOut, AddInverse, FinishSymmetrized, Enter, FreeMemory
    <3>2. transpose = FALSE /\ transpose' = FALSE
      BY <3>1 DEF BuildInv
    <3>3. BuildJob'
      <4>1. PICK tr : tr = transpose'
        OBVIOUS
      <4> QED BY <3>1, <4>1, ListsStay DEF BuildInv
    <3> QED BY <3>1, <3>2, <3>3 DEF BuildInv
  <2>7. CASE UNCHANGED buildAll
    <3>1. UNCHANGED <<job, region, todo, doing, transpose, degrees, offsets, neighs, outgoing>>
      BY <2>7 DEF buildAll, loopVars, passVars
    <3>2. PICK tr, td, dg, counts, ends, array :
            /\ tr = transpose' /\ td = todo' /\ dg = doing' /\ counts = degrees'
            /\ ends = offsets' /\ array = neighs'
      OBVIOUS
    <3>3. /\ tr = transpose /\ td = todo /\ dg = doing /\ counts = degrees
          /\ ends = offsets /\ array = neighs
      BY <3>1, <3>2
    <3>4. CountInv => CountInv'
      BY <3>1, <3>2, <3>3, CountInvNext DEF CountInv
    <3>5. FillInv => FillInv'
      BY <3>1, <3>2, <3>3, FillInvNext DEF FillInv
    <3>6. BuildJob' = BuildJob /\ in_place' = in_place
          /\ (HoldsEntries(outgoing, FALSE) => HoldsEntries(outgoing, FALSE)')
      <4>1. PICK index : index = outgoing'
        OBVIOUS
      <4> QED BY <3>1, <3>2, <4>1, ListsStay, HoldsStays
    <3> QED BY <3>1, <3>4, <3>5, <3>6 DEF BuildInv
  <2> QED BY <2>1, <2>2, <2>3, <2>4, <2>5, <2>6, <2>7 DEF BuilderNext
<1> QED BY <1>1, <1>2, PTL DEF BuildSpec

(* However threads interleave in MakeGraphFromEL (builder.h:80-91,         *)
(* 300-315), a pass that has ended has stored each edge of the list once   *)
(* at each node it belongs to, with the right neighbour, whichever threads *)
(* counted it and stored it.                                               *)
THEOREM EveryEdgeIsKept == BuildSpec => []EdgesAreKept
<1>1. BuildInv => EdgesAreKept
  <2> SUFFICES ASSUME BuildInv PROVE EdgesAreKept
    OBVIOUS
  <2>1. ASSUME AllDone("fill")
        PROVE  HoldsEntries(Index(neighs, ParallelPrefixSum(degrees)), transpose)
    <3>1. BuildJob /\ ~in_place /\ transpose \in BOOLEAN /\ FillInv
      BY <2>1 DEF BuildInv, AllDone
    <3> QED BY <2>1, <3>1, AllAreStored
  <2> QED BY <2>1 DEF BuildInv, EdgesAreKept
<1> QED BY <1>1, BuildInvHolds, PTL
=============================================================================
