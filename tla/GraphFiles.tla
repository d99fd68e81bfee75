----------------------------- MODULE GraphFiles -----------------------------
(***************************************************************************)
(* What the GAP suite and byte-select's own tool make of a graph:          *)
(* serialized graphs, written by the converter                             *)
(* (src/gapbs-master/src/writer.h) and read back by Reader (reader.h), and *)
(* the trace of a graph's arrays (src/tools/gapbs_dump_trace.cc), which    *)
(* byte-select then reads as blocks.                                       *)
(***************************************************************************)
EXTENDS GraphBuilder

CONSTANT Byte   (* how many values a byte has                              *)

VARIABLES
  file     (* the fields of a serialized graph, or the bytes of a trace    *)

FilesInit == file = << >>

WriteOutgoingTwice(g) ==
  <<g.directed, num_edges_directed(g), g.num_nodes>>
    \o VertexOffsets(g, g.out) \o Neighbors(g, g.out)
    \o (IF g.directed THEN VertexOffsets(g, g.in) \o Neighbors(g, g.out) ELSE << >>)

WriteSerializedGraph(g) ==
  <<g.directed, num_edges_directed(g), g.num_nodes>>
    \o VertexOffsets(g, g.out) \o Neighbors(g, g.out)
    \o (IF g.directed THEN VertexOffsets(g, g.in) \o Neighbors(g, g.in) ELSE << >>)

Convert ==
  /\ region = "built" /\ job.program = "converter"
  /\ file' = WriteSerializedGraph(graph)
  /\ Enter("written", {})
  /\ UNCHANGED <<job, graph>>

(* As many neighbours are read for each direction as the file says edges.  *)
Loaded(fields) ==
  LET edges == fields[2]
      n     == fields[3]
      index(from) ==
        LET begins == SubSeq(fields, from, from + n)
            array  == SubSeq(fields, from + n + 1, from + n + edges)
        IN  [u \in 0..(n - 1) |-> SubSeq(array, begins[u + 1] + 1, begins[u + 2])]
  IN  IF fields[1]
        THEN DirectedGraph(n, index(4), index(4 + n + 1 + edges))
        ELSE UndirectedGraph(n, index(4))

ReadSerializedGraph ==
  /\ region = "written"
  /\ graph' = Loaded(file)
  /\ Enter("finished", {})
  /\ UNCHANGED <<job, file>>

-----------------------------------------------------------------------------

LittleEndian(value, width) ==
  [i \in 1..width |-> (value \div Byte^(i - 1)) % Byte]

OffsetBytes(g) ==
  FlattenSeq([k \in 1..(g.num_nodes + 1) |-> LittleEndian(VertexOffsets(g, g.out)[k], 8)])

NeighborBytes(g) ==
  LET array == Neighbors(g, g.out)
  IN  FlattenSeq([i \in DOMAIN array |-> LittleEndian(array[i].v, 4)])

(* main() of the dumper refuses to dump nothing, before it builds a graph.  *)
NothingToDump == job.program = "dump" /\ ~job.dump_offsets /\ ~job.dump_neighbors

RefuseDump ==
  /\ region = "start" /\ NothingToDump
  /\ Enter("refused", {})
  /\ UNCHANGED <<job, graph, file>>

DumpTrace ==
  /\ region = "built" /\ job.program = "dump"
  /\ file' = (IF job.dump_offsets THEN OffsetBytes(graph) ELSE << >>)
             \o (IF job.dump_neighbors THEN NeighborBytes(graph) ELSE << >>)
  /\ Enter("finished", {})
  /\ UNCHANGED <<job, graph>>

-----------------------------------------------------------------------------

(* What a program finds that knows the layout of the arrays in a trace.    *)
ValueAt(bytes, from, width) ==
  FoldLeft(LAMBDA sum, i : sum + bytes[from + i] * Byte^(i - 1), 0, [i \in 1..width |-> i])

TraceNeighbors(bytes, n, u) ==
  LET begin(k) == ValueAt(bytes, 8 * k, 8)
  IN  [i \in 1..(begin(u + 1) - begin(u)) |->
         ValueAt(bytes, 8 * (n + 1) + 4 * (begin(u) + i - 1), 4)]

(* A serialized graph is read back as it was written, in both directions   *)
(* and with its weights; the trace of both arrays gives every node its     *)
(* neighbours.                                                             *)
FilesHoldTheGraph ==
  /\ region = "written" => Loaded(file) = graph
  /\ region = "finished" /\ job.program = "dump" /\ job.dump_offsets /\ job.dump_neighbors =>
       \A u \in Vertices(graph) :
         TraceNeighbors(file, graph.num_nodes, u) = out_neigh(graph, u)
=============================================================================
