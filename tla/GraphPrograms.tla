--------------------------- MODULE GraphPrograms ---------------------------
(***************************************************************************)
(* The programs of the GAP suite as they are run: a graph is built from a  *)
(* list of edges, then one kernel, or the converter or the trace dumper,   *)
(* works on it.  `job` says which, and with which options.                 *)
(***************************************************************************)
EXTENDS Bfs, Betweenness, Components, DeltaStepping, TriangleCount, GraphFiles

CONSTANT Jobs

vars == <<job, graph, loopVars, passVars, queueVars, bfsVars, bcVars, ccVars,
          ssspVars, tcVars, file>>

Init ==
  /\ job \in Jobs
  /\ BuilderInit
  /\ queue = EmptyQueue(0) /\ lqueue = NoBuffers
  /\ BfsInit /\ BcInit /\ CcInit /\ SsspInit /\ TcInit /\ FilesInit

Building ==
  /\ ~NothingToDump /\ BuilderNext
  /\ UNCHANGED <<queueVars, bfsVars, bcVars, ccVars, ssspVars, tcVars, file>>

Searching ==
  /\ job.program = "bfs" /\ BfsNext
  /\ UNCHANGED <<passVars, bcVars, ccVars, ssspVars, tcVars, file>>

Scoring ==
  /\ job.program = "bc" /\ BcNext
  /\ UNCHANGED <<passVars, bfsVars, ccVars, ssspVars, tcVars, file>>

Connecting ==
  /\ job.program \in {"cc", "cc_sv"} /\ CcNext
  /\ UNCHANGED <<passVars, queueVars, bfsVars, bcVars, ssspVars, tcVars, file>>

Stepping ==
  /\ job.program = "sssp" /\ SsspNext
  /\ UNCHANGED <<passVars, queueVars, bfsVars, bcVars, ccVars, tcVars, file>>

Counting ==
  /\ CountTriangles
  /\ UNCHANGED <<passVars, queueVars, bfsVars, bcVars, ccVars, ssspVars, file>>

Storing ==
  /\ Convert \/ ReadSerializedGraph \/ RefuseDump \/ DumpTrace
  /\ UNCHANGED <<passVars, queueVars, bfsVars, bcVars, ccVars, ssspVars, tcVars>>

Next ==
  Building \/ Searching \/ Scoring \/ Connecting \/ Stepping \/ Counting \/ Storing

(* Some thread that can go on does.                                        *)
Spec == Init /\ [][Next]_vars /\ WF_vars(Next)

-----------------------------------------------------------------------------

(* The neighbours a list of edges gives a node, and the weight of each.    *)
Listed(u, v) ==
  {el[k].v.w : k \in {k \in DOMAIN el : el[k].u = u /\ el[k].v.v = v}}
    \cup IF symmetrize THEN {el[k].v.w : k \in {k \in DOMAIN el : el[k].u = v /\ el[k].v.v = u}}
         ELSE {}

Canonical(index, weights(_, _)) ==
  \A u \in Nodes :
    index[u] = SetToSortSeq({Dest(v, Min(weights(u, v))) :
                               v \in {v \in Nodes \ {u} : weights(u, v) # {}}}, Lighter)

(* In whichever order the threads store the edges, and in place too, each  *)
(* node gets its neighbours in order, each once and with its lowest        *)
(* weight, without itself; incoming edges are the inverse of the outgoing. *)
GraphIsAsListed ==
  /\ EdgesAreKept
  /\ region = "built" =>
       /\ graph.num_nodes = num_nodes
       /\ Canonical(graph.out, Listed)
       /\ Canonical(graph.in, LAMBDA u, v : Listed(v, u))

(* Breadth-first search, in both directions, and the search for            *)
(* betweenness centrality are searches by levels.                          *)
Searched == IF job.program \in {"bfs", "bc"} THEN Vertices(graph) ELSE {}

Search == INSTANCE LevelSearch WITH
  nodes <- Searched,
  edges <- {e \in Searched \X Searched : HasEdge(graph, e[1], e[2])},
  level <- CASE job.program = "bfs" -> LevelByParents
             [] job.program = "bc"  -> depths
             [] OTHER               -> << >>,
  over  <- region \in {"start", "count", "fill", "clean", "overwrite", "in place", "widen",
                      "spread", "add", "built", "back", "finished"}
             \/ job.program \notin {"bfs", "bc"}

(* Nodes are found level by level, and none that can be reached is left.   *)
SearchesByLevels == Search!Spec

(* Every program ends: no thread waits for ever at a barrier, and no loop  *)
(* that retries after losing a race goes round for ever.                   *)
Terminates == <>(region \in {"finished", "refused"})
=============================================================================
