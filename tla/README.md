# Verification of byte-select

byte-select trains *patterns* from memory traces, compresses cache blocks with
them, stores compressed data in a container, and generates hardware from them.
Its traces come from a Pin tool and from the programs of the GAP benchmark
suite, which the repository holds too.  This directory holds TLA+ models of
the program, the TLC runs that check them on small instances, and TLAPS proofs
of what holds for every value of the constants.  Paths below are relative to the repository.  `PROJECT.json` maps
every definition to the lines it stands for.

    tlc -workers 2 -config MCTrainer.cfg MCTrainer.tla     # a run
    tlapm TrainerProofs.tla                                # a proof module

## 1. The system

A *pattern* assigns a symbol to each byte position of a block; positions with
equal symbols must hold equal bytes.  Canonical patterns (symbols numbered in
order of first appearance) are ordered by refinement and have least upper
bounds.  A *pattern set* compresses a block described by one of its patterns
to `target_size` bytes: metadata naming the pattern, and a dictionary with one
byte per symbol.  A *model* is a list of pattern sets.

| Component | Source | State | Operations | Hard behaviour |
|---|---|---|---|---|
| Pattern algebra | `src/pattern.cpp` | none (values) | canonicalize, simplest, rank, describes, less_equal, least_upper_bound | 16-bit symbol counter; two definitions of "describes" that must agree |
| Trainer | `src/trainer.cpp` | count map, candidates, uncovered blocks, heap of stale bounds, result | filter, maximal patterns, greedy merging, exhaustive or lazy selection | stale bounds, ties, chains of merges, termination |
| Block codec | `src/codec.cpp` | the model; totals of an evaluation | validate_model, metadata encode/decode, compress, decompress, evaluate, upper bound | bit layout, padding, order in which sets are tried |
| Training driver | `src/main.cpp` 91-477, `src/paper_config.cpp` | options, block counts and holdout positions per trace | parse_train_options, train_from_traces | a trace read three times, truncating divisions |
| Model file | `src/model_io.cpp` | a text file, a stream's state and its reader's variables | save_model, load_model | files cut short, streams that are not tested, two formats |
| Container | `src/main.cpp` 1081-1215 | the stream's buffer, the file, the reader's position and output | compress, decompress | kills, full disks, a reader that starts too early, two versions |
| Trace tool | `tools/pin/cacheline_trace.cpp` | LRU cache, depths of threads, counters, lock | enter/leave routine, record_access | threads, recursion, exceptions, warm-up and maximum |
| RTL generation | `src/rtl.cpp` | none | generate_rtl | logic written a second time, widths of ports and constants |
| Baseline codecs | `src/baseline.cpp` | per-block dictionaries, windows, bit streams; totals | FPC, BDI, C-Pack, BPC, LZ77-lite, Huffman, Zstd, LZ4, evaluate_baseline | encoder and decoder in lockstep |
| FPC-BSEL program | `fpc-bsel/src` | its own model and container files | train, compress, decompress, evaluate | segment lengths the decoder must derive, files cut short |
| Reporting commands | `src/main.cpp` 487-1078 | sums per method and group, the rows printed | evaluate, analyze, compare, each for one trace, a list or groups | traces read again for each group and method, reports that end early |
| GAP graphs | `gapbs-master/src/builder.h`, `graph.h`, `platform_atomics.h` | counters of a node's edges, the neighbours' array | MakeGraphFromEL, MakeCSRInPlace, SquishGraph, RelabelByDegree | threads that store edges through shared counters; building inside the array that is read |
| GAP kernels | `bfs.cc`, `bc.cc`, `cc.cc`, `cc_sv.cc`, `sssp.cc`, `tc.cc`, `sliding_queue.h`, `bitmap.h` | parents, depths and path counts, labels, distances and bins, queue and bitmaps | one program each | compare-and-swap next to plain stores, loops without a barrier, words that share bits |
| GAP files, trace dump | `writer.h`, `reader.h`, `converter.cc`, `tools/gapbs_dump_trace.cc` | a serialized graph, a trace | WriteSerializedGraph, ReadSerializedGraph, dump | one or both directions, what is left out |

Interactions.  Traces are files of blocks, written by the trace tool (or the
GAP dump) and read by the training driver, which counts each block's simplest
pattern (`Trainer::train`) and calls `train_counts` once per target.  The
patterns become the sets of a model, which `save_model` writes after
`validate_model`; `load_model` reads and validates it again for `analyze`,
`compress`, `decompress` and `rtl`.  compress and decompress share only the
container file and a model each is given by name.  All of byte-select is
sequential code inside one process, and so is the FPC-BSEL program;
concurrency there comes from files, since a process may be killed while it
writes one, and another may read it, or change it, meanwhile.  The callbacks
of the trace tool run on the threads of the instrumented program under one Pin
lock.  The programs of the GAP suite are OpenMP programs of the usual form: a
main thread builds a graph from a list of edges, then runs a kernel on it, the
converter, or the dump that writes the graph's arrays as a trace byte-select
reads; most loops of building and kernels are parallel.

What makes the components correct, in one line each:

- *patterns*: a join semilattice, in which a pattern describes exactly the
  blocks whose simplest pattern is below it (this is why counting by patterns
  is the same as counting blocks);
- *trainer*: merging loses no pattern and leaves no illegal one; both selection
  modes make the same greedy picks with the same counts; both end;
- *training driver*: no block is both trained on and tested, none is forgotten,
  and the model saved is complete;
- *codec*: what is compressed is decompressed exactly; the smallest target is
  taken; metadata names one pattern; the reported ideal sizes are a bound;
- *circuits*: they answer what the codec answers;
- *model file*: what is saved is loaded; what is not all there is refused;
- *container*: what is accepted is the original, what is whole is accepted;
- *trace tool*: the cache is LRU for all accesses whatever is recorded, and
  exactly the misses inside the routine, after warm-up, up to the maximum, are
  recorded;
- *baselines*: each size measured is that of a stream that decodes to the
  block, and no part of it could be left away;
- *FPC-BSEL*: the shortest stream is taken, restored exactly, and a file that
  was cut is refused;
- *reports*: each row is the sum of the traces it names, and rows set side by
  side were measured on the same blocks;
- *GAP programs*: whatever the threads do first, the graph is the one listed,
  and parents, labels, distances, scores and triangles are those of their
  definitions; every program ends.

## 2. Modules

| Module | Models | Correspondence |
|---|---|---|
| `Patterns` | class Pattern; CountMap and `coverage()` | operators with the names of the methods; `SymbolLimit` is 2^16, `Canonicalize` and `LeastUpperBound` number modulo it; counts as the cardinality of a set of numbered blocks, so that monotonicity is provable |
| `PatternAlgebra` | two patterns and a third, built from blocks by `simplest` and joined | a state machine whose reachable values are the patterns the program can build |
| `GreedyCover` | what selection promises | abstract specification: at each pick the best candidate, ties to the smaller |
| `Trainer` | `train_counts` | one action per loop iteration of each phase; vectors kept sorted are sets with the order `Before`; the heap is a set of entries with a total order |
| `BlockCodec` | one block: validate, metadata, compress, decompress | operators; an operation that throws returns the empty set |
| `OnlineCodec` | OnlineCompressor, OnlineDecompressor, evaluate, upper bound | a session that opens a model and feeds blocks in any order |
| `Hardware` | the generated SystemVerilog | ports as functions of the inputs, on the state of an `OnlineCodec` session |
| `TraceTraining` | parse_train_options, train_from_traces | one action per option, per trace counted and per block visited; training of a target gives any result the trainer may have; other programs change the traces between two steps |
| `ModelFile` | save_model, load_model | fields of the text, the stream's good bit, the variables that keep old values |
| `Container` | compress and decompress commands | a writer through a buffered stream, a reader, kills, a disk that fills |
| `RecencyCache` | an LRU cache | abstract specification: each set a linear order on the lines it holds |
| `CacheTrace` | the Pin tool | threads, the lock, callbacks, the stamped slots |
| `BitStreams`, `Fpc` | BitWriter, BitReader, the FPC word codes | shared by the two programs that have them; `ByteBits` is 8 |
| `WordBaselines`, `ByteBaselines` | BDI, C-Pack, BPC; LZ77-lite, Huffman | a function per encoder, a set-valued function per decoder, loops as folds over the words, planes or tokens |
| `BaselineEvaluation` | evaluate_baseline | targets made ready, then one block a step |
| `FpcBsel` | encode_block, decode_block, train_bsel | functions, as above |
| `FpcBselTool` | the program's commands | one action per command, whose output file may be cut anywhere |
| `Reports` | evaluate, analyze, compare | next to training in one command (`BselNext`); one action per trace read and per list, pass or report that ends; traces change as in `TraceTraining` |
| `GapSuite` | CSRGraph; parallel loops | a graph as sequences of neighbours; a region of a program, the iterations left and what each thread does |
| `GraphBuilder` | MakeGraphFromEL, SquishGraph | one action per load or store a thread shares; the sequential steps of in-place building each an action |
| `SlidingQueue` | SlidingQueue, QueueBuffer | the shared array and the threads' buffers, whose `flush` reserves its range by fetch-and-add; what a queue promises any search |
| `Bfs`, `Betweenness`, `Components`, `DeltaStepping`, `TriangleCount` | a kernel each, the last with RelabelByDegree | one action per region entered, and per shared access of a thread |
| `GraphFiles` | writer, reader, converter, trace dump | one action per file written or read |
| `GraphPrograms` | the programs: build, then a kernel or a file | a disjunct per program |
| `LevelSearch` | what a search by levels promises | abstract specification: a node is found from a lowest level that still has undiscovered successors |
| `MC*` | instances | the small models, count maps and inputs of the runs |
| `PatternTheorems`, `TrainerProofs`, `CodecProofs`, `ToolProofs`, `TrainingProofs`, `GraphProofs`, `SearchProofs` | proofs, and `PatternAlgebra` those of its own theorems | section 5 |

Composition: `Trainer` and `GreedyCover` build on `Patterns`; `OnlineCodec`, `Container`, `ModelFile` and `TraceTraining` build
on `BlockCodec`, that on `Patterns`; `Hardware` extends `OnlineCodec`, so that
circuit and software answer for the same model and block; `Reports` extends
`TraceTraining`, whose traces it reads.  `GraphPrograms` joins the kernels to
`GraphBuilder`: they share the graph, the threads and the region, and each has
variables of its own.  `Trainer` implements `GreedyCover`, `CacheTrace`
implements `RecencyCache`, and `Bfs` in both directions and `Betweenness`
implement `LevelSearch`, by refinement mappings given with them.

A thread's accesses to memory are one action each when another thread may
access the same place and the outcome depends on it; local work goes with the
access before it.  Memory is sequentially consistent: the accesses that race
in `cc`, `cc_sv` and `sssp` are of aligned words that the compiler keeps, and
weaker orders of the hardware are not modelled.

Type invariants are stated where proofs rest on them, and proved: those of
`Trainer` and `PatternAlgebra`, and, as parts of the inductive invariants of
the proof modules, those of `OnlineCodec`, `Container`, `CacheTrace`,
`TraceTraining`, `Components`, `Bfs`, `Betweenness`, `DeltaStepping` and
`LevelSearch`.

Operators named for a mistake (`RefreshKeepsBound`, `TagInLowBits`, ...) stand
before the definition they differ from.  They are used by nothing: each is a
version of the definition that breaks the property PROJECT.json pairs it with,
which shows that the property depends on the code's being as it is.

## 3. Runs

| Run | Question | Bounds, and why they are enough |
|---|---|---|
| `pattern_algebra` | are canonical patterns a semilattice, do the two notions of describing agree | all 15 patterns of four bytes and all triples of them: the laws relate at most three patterns, and four positions give incomparable ones of every rank |
| `trainer` | filtering, maximality, merging, selection in both modes, lazy against greedy | blocks of five bytes, dictionary of four, three picks. Every map of two or three of the 15 patterns that leave the last byte alone: chains of merges, prunings, patterns above the dictionary and below the threshold. Six crossing patterns whose merges leave a candidate that covers nothing when its turn comes. Five of nine competing ones: stale bounds, ties, and selections that end at the maximum with blocks left over |
| `online_codec` | round trip, metadata, smallest target, upper bound; do the circuits agree | ten models, valid and refused, every block of four bytes over three values, three blocks a session; bytes of two bits put pattern counts at the capacity. The circuits' size port has three bits; every value of the decompressor's ports is tried |
| `training` | what is trained on, tested and saved; what a report's rows are sums of | fourteen training command lines over two traces of one to three blocks, with the same trace twice, each kind of holdout, legal, repeated, oversized and conflicting targets; eleven reports of every kind and form, over a trace named twice, two groups with a trace in common, repeated and unknown baselines; at most one change of a trace (`MaxChanges`), at any step |
| `model_file` | what a file cut anywhere loads as | models of one or two sets with 0 to 3 patterns; every cut, within numbers too (base 2, so that a cut number is another number) |
| `model_file_cut` | *violation*: what loads is what was saved | as above |
| `container` | what kills, full disks and early readers do | up to two blocks and a tail of 0 to 3 bytes, raw and compressed; the reader is given the right model or another; both versions |
| `cache_trace` | is the cache LRU; what is recorded | two threads, depth 2, routines left by exceptions too; two sets of two ways, four lines, spanning accesses; four accesses, one more than fill a set and evict from it |
| `cache_trace_unwind` | *violation* of README.md:344 | one thread |
| `baselines` | do the streams decode, is anything in them superfluous, do the totals add up | blocks of six words of four 4-bit bytes. Between them they use every tag of FPC, mode of BDI, code of C-Pack and of BPC, Huffman codes of one to five bits and LZ matches that overlap themselves; the C-Pack dictionary has two entries, so that it overflows. Words in even places stay below 2^15, since two make a number of TLC's |
| `fpc_bsel` | is the shortest stream taken, counted and restored, and a cut file refused | blocks of six such words: the arrangements of zeros and two incompressible words, and the words at the bounds of each FPC form; one training of at most three patterns, one input; every cut of model and container |
| `graph_programs` | do the GAP programs compute what they are named for, do the searches go by levels, do all end | two threads, in every interleaving. Per program the smallest graph in which its races meet: duplicates, loops and weights for the builder; for `bfs` a chain behind a diamond and a star of two levels, with `alpha` and `beta` that switch direction early, late and more than once; two shortest paths and two sources for `bc`; a path whose roots are hooked in turn, with one and two neighbour rounds, for `cc`, and for `cc_sv`; two roads that lower one node at once for `sssp`, with `delta` 1, 2 and 4; four triangles that share edges for `tc`; directed and undirected |

Every named bound is a constant: `MaxBlocks` (blocks a session compresses),
`MaxDepth` and `MaxAccesses` (the trace tool), `MaxAtoms` and `MaxCount` (count
maps), `MaxChanges` (traces).  The program has none of them.  Constants of the
GAP programs are scaled down, so that small graphs reach them: buffers of a
queue hold one node (`LocalSize`), a word of a bitmap two bits, a chunk of a
bottom-up step two nodes, bins are fused below two entries
(`kBinSizeThreshold`), a prefix sum has blocks of two, and `tc` relabels from
an average degree of one.  Scores of `bc` are multiples of 1/`Unit`, which the
dependencies of these graphs are.

Widths.  A byte has two bits in the codec's runs and four in those of the
baselines; fields that the code gives as 4, 8, 16 or 32 bits are half a byte,
a byte, two bytes and a word, while tags, positions and run lengths keep their
own widths.

Fairness.  `Trainer` is a sequential function: weak fairness of the next step
says that it keeps running.  So it says for `GraphPrograms` that some thread
which can go on does.  That is enough: no thread of these programs waits for
another except at the barrier that ends a loop, where the others are the ones
that can go on; a loop that retries goes round only because another thread
has changed what it read.  The other modules claim safety only, and assume
nothing of the instrumented program, of other programs or of users.

`CHECK_DEADLOCK FALSE` is set where the system comes to an end: a trained set,
a finished process, a session whose bound is reached.

## 4. What the code does differently from what is said

Each is a run of its own (`findings` in PROJECT.json quotes both sides).

1. `load_model` accepts model files that were cut short (`model_file_cut`).
   The last pattern line stands for all that are missing, or a set keeps its
   default sizes and no patterns.  What does hold: `SavedLinesLoadBack`.
2. A thread that leaves the routine of interest by an exception is recorded
   from then on (`cache_trace_unwind`).

Seen while modelling, and visible in the definitions, without a run:

- `validate_model` accepts a tagged set whose metadata is wider than a
  `size_t`, say nine bytes of which ten bits are the tag: `codec.cpp:42-45`
  limits only the bits beside the tag and the tag's value.  The encoder then
  shifts bits of the tag out (`codec.cpp:145`, `ShiftLeft`), the decoder finds
  another tag (line 159) and refuses what the encoder returned, and a
  container written by `compress` is refused by `decompress`.  It never
  decodes to another block.  `MetadataNamesThePattern` and
  `RefusesOnlyIncomplete` ask for `TagFitsWord`, which excludes such sets; the
  models of the runs stay within a word.
- `-max-blocks` bounds the trace but not the run time: accesses are simulated
  after the maximum was recorded (README.md:350 names both).
- The 16-bit counter of `least_upper_bound` wraps for blocks of more than
  65536 bytes.  `JoinsAreLeastUpperBounds` proves that smaller ones are safe.
- A trace that is named twice on the command line and grows between its two
  counts is split in two ways: a block may be trained on through one entry
  and tested through the other.  `TrainedNeverTested` excludes that case.
- A container, of either program, does not name the model it was written with.
- Reports by groups read the traces again for each method.  A trace that
  changes in between makes rows that stand side by side the sums of different
  blocks; `ReportsAddUp` excludes that case.
- `sssp` gives its frontier as many entries as the graph has directed edges
  (`sssp.cc:92`) and never tests it.  A node that is lowered several times
  within one bin is copied as often, so that more may be copied than there is
  room for.  One thread is enough: with edges 0->1 of weight 3, 0->2 and 2->1
  of weight 1, four edges of weight 10 from 1 to nodes of their own, and a
  delta of 4, there are seven edges, and eight entries for one frontier.
  `FrontierFits` names the condition; the graphs of the run leave room.
- `bc` divides by the largest score, which is 0 when `-r` names a source from
  which nothing is passed through.  Normalisation is not modelled.
- `SourcePicker::PickNext` draws until it finds a node with an outgoing edge,
  for ever when there is none.  The sources of the model have one.
- `bfs` counts a node without outgoing edges as one edge, so that
  `edges_to_check` may fall below what is left, or below zero; it only decides
  the direction, and `Quotient` divides as C++ does.

## 5. What is proved

TLAPS proves these for every value of the constants that the named
assumptions of the modules allow.

*Patterns* (`PatternTheorems`, `PatternAlgebra`).  Canonicalization and
joins preserve which positions are told apart, hence the laws: upper bound,
least, canonical, describing = being above the simplest pattern, order against
rank.  Those that number symbols assume `BlockSize <= SymbolLimit`.  The rank
of a pattern is the number of its first positions; ranks are compared by an
injection between those.

*Coverage and sums* (the head of `TrainerProofs`).  Coverage is the cardinality
of a finite set, smaller for smaller sets of atoms, zero exactly when nothing
is below.  A sum that the model folds is shown to be the one function that
starts at 0 and adds a value at each index, by the least index at which two
such functions would differ; the same argument stands for induction in all
proof modules.

*Trainer* (`TrainerProofs`), in layers, each an inductive invariant:

1. `TypeInv`: the types, and what each phase has initialised.
1. `PickInv` adds: bounds are admissible, the heap holds each unselected
   candidate once, every pick was the best when it was made, and marginals do
   not grow.  `BoundsAdmissible` is not inductive alone, since a selection
   makes all bounds stale; it needs that coverage only shrinks with
   `uncovered`.  That a current entry on top of the heap is the best candidate
   (`CurrentTopIsBest`) needs admissibility for every *other* entry.  From
   this layer follows that both modes implement `GreedyCover`.
2. `MergeInv` adds: candidates are canonical, fit the dictionary, are pairwise
   incomparable, and every filtered atom is below a candidate or a selected
   pattern, or no longer uncovered.  It needs the join laws, so it assumes
   `BlockSize <= SymbolLimit`.  From it follow `CandidatesLegal`, `NoAtomLost`
   and `StopsOnlyWhenCovered`.
3. `AccountInv` adds to `PickInv` that the marginals so far and what is
   uncovered make up the atoms that passed the filter (`EveryBlockAccounted`):
   a pick takes away exactly the atoms its marginal counts.
4. `CostInv` adds to `PickInv` a reserve: the evaluations made, and one more
   for every stale entry of the heap, are within what the exhaustive loop
   makes up to this pick.  `LazyNeverCostsMore` alone is not inductive, since
   a selection makes every entry stale at once; it also pays for them, with
   the round the exhaustive loop would make.

*Codec* (`CodecProofs`).  `SessionInv` says that an open session's model is
valid and that `encoded` is the compression of `block`; the round trip and the
smallest target follow from lemmas on one block.  `UpperInv` adds the
inequality of totals, step by step from `BoundOfBlock`: a block's number of
distinct bytes is at most the rank of any pattern describing it.

*Metadata and circuits* (`CodecProofs`).  2^n is handled as the number of
subsets of 1..n, which makes its laws theorems about finite sets.  From them
a tag lies above every index that the set may use, within its field, and the
decoder finds both again (`MetadataNamesPattern`, for sets whose metadata a
word holds).  `CircuitsAgreeWithSoftware`: the comparators answer `describes`,
the priority chain chooses what `compress` chooses, the symbols in use are the
dictionary's, and the decompressor's ports give the block back, for every
model of a session, as long as the symbol counter cannot wrap and `PortBits`
numbers every byte of a block.

*Container* (the second half of `CodecProofs`).  `FilesInv`: what is in the file and then in
the buffer is a prefix of the whole container, at all times and wherever the
writer was killed or the disk filled.  `ReaderInv`: a reader with the writer's
model has decoded some number of whole blocks and stands exactly where the
next one is recorded.  The theorems need both: that a field read is the field
meant follows from where the reader stands, which follows from what it has
decoded, which follows from the fields.  Each kind of record (raw, tagged, of
version 1) is shown to be taken whole or refused for want of fields, and to
decode to its block by the round trip of the codec.  Hence
`AcceptedIsOriginal`, for every input, model, version, kill and reader, and
`CompleteIsAccepted`, an action property.

*Trace tool* (`ToolProofs`).  `TraceInv`: the access under way is the
lock holder's, and what it knows of the routine is still so; with it
`TraceIsAsAsked`.  `DepthsExact` adds that depths are those of the routines
entered, so that without unwinding only misses inside are recorded
(`OnlyInsideIsRecorded`).  `CacheInv`: no line is held twice, each is in its
own set, and stamps differ and do not exceed the clock.  The refinement maps
stamps to the linear order of `RecencyCache`; a miss fills an invalid slot or
the one with the smallest stamp, which is the line no other is older than.

*FPC-BSEL program* (the end of `ToolProofs`).  A model file announces the length
of its first set before the set and of its second before that one; cut
anywhere, it ends in front of what a count in it announces, and whole, the
parts between the counts are the sets (`CutModelsAreRefused`).  Hence
`FpcModelsLoadOrAreRefused`, of every command that loads a model.

*Training driver* (`TrainingProofs`), of the whole command (`BselSpec`), with
reports and changes of traces at any moment.  `TrainingInv`: the splits made
are well formed for any length and percentage, those of unchanged traces are
their own, and each block used is on its side of the split of its entry; so
`NothingIsTrainedAndTested`.  It says nothing of the blocks not used.
`ExactInv` adds that, while no trace has changed, each pass has used exactly
the blocks behind the reader's position (`PassesAreExact`).  The counts the
program folds over the splits are the cardinalities of those sets of blocks,
entry by entry, hence `EveryBlockIsUsedOnce`: also that no pass for testing is
made exactly when nothing is held out.
`SavedInv` is about the model: while arguments are parsed, the targets are those
of the arguments behind (`TargetsAfter`: the n-th target is that of the n-th
`--target`, or all are those of the one `--paper-config`), and each set trained
so far passes every check of `validate_model` that concerns one set, by the
conditions under which its target is fitted and because whatever patterns are
selected are sorted without loss (`InOrderLists`).  So `save_model` can only
refuse two sets of one size (`SavedModelsAreComplete`).  Assumed of the named
configurations: what `paper_config.cpp` lists, tags of as many bits as they say
and at least one target each.

*Model file* (the end of `TrainingProofs`), for every model, either format, and a
writer that may be killed at any field.  Lines are known by what begins the file:
`Upto` is the file up to the k-th pattern line of the s-th set.  `FileInv`: while
the lines read so far are whole, the reader stands right behind the last of
them, the stream is still good and the variables of `load_model` hold what these
lines say; so every set and every pattern whose line is whole is read as it was
written, whatever the reader makes of the rest (`SetsRead`).  `NotPast` keeps the
reader in front of the missing pattern where a file ends with a whole line.
Hence `SavedModelsLoadBack`: it is the first cut line, and nothing before it,
that may be misread (section 4).

*Components* (`GraphProofs`), Afforest and Shiloach-Vishkin run alone on any
graph by any number of threads (`CcSpec`).  `CcInv`: a label is never above its
node or in another component, and the same of every local variable of every
thread.  That makes it inductive: what a thread read long ago may be stale,
but it is still in the component, and so is whatever it stores
(`LabelsNeverLeave`).  `AgreeInv` says when labels meet.  Two nodes are joined
when every set of nodes that all labels keep to holds both or neither, and
joined nodes stay joined by every store and swap.  `LinkInv`: each edge that has been taken up is
joined, or in the hands of a thread that has still to link it.  `FlattenInv`:
while labels are compressed each node is flat, or waiting, or in the hands of
a thread, whose store keeps it joined by the labels of lower nodes alone,
which that store leaves as they are.
`HookInv`: a round of Shiloach-Vishkin that has changed nothing has read
nothing stale, so every edge it has seen has one label at both ends.
`EndInv` carries these to the end: labels are flat and agree along edges, and
`LabelsBecomeComponents` follows along the path that joins two nodes.

*Searches* (`SearchProofs`).  `LevelsBecomeDistances`: when a search by
levels is over, exactly one node has level 0, every other discovered node is
one above a predecessor, no edge climbs by more than one level and all that
can be reached is discovered.  `LevelInv` needs `TwoLevels`: nothing is more
than a level above a node that still has something to discover.

*The queue of the searches* (`SearchProofs`), of `bfs` in both directions
(`BfsSpec`) and of `bc` for any number of sources (`BcSpec`), each run alone on
any graph, by any number of threads, with buffers of any size
(`SearchQueuesNodesOnce`, `ScoringQueuesNodesOnce`).  The array itself is not
enough for an invariant: between a thread's fetch-and-add and its copy there is
a gap, and others reserve, copy and find nodes meanwhile.  `Tidy` is about the
array as it will be, which is fixed as soon as room is reserved: an entry is
already there, or is that of one buffer reserved for it; each node is in it at
most once, only found nodes are, and a node that a thread still has to put into
the queue, from its buffer or because the buffer was full, is neither in it nor
with another thread.  Entries of the window are no longer reserved, so that
what threads read there is final.  Reserving (`TidyWhenReserved`), copying
(`TidyWhenCopied`), appending and sliding the window keep this for both
programs.  Finding a node is what makes it belong to one thread: a
compare-and-swap in `bfs` top-down and in `bc`; bottom-up, nodes found go to no
thread, but stay out of the queue and stand in `curr` until `BitmapToQueue`
takes each once (`InRegion`).  That no more room is needed than the array has
follows by counting.

*Betweenness searches by levels* (`SearchProofs`).  `bc` alone implements
`LevelSearch` (`ScoringSearchesByLevels`), by the refinement mapping of the
run.  `BcLevels` adds to the invariant of the queue what its entries mean: the
window is the level above the one being found, what is behind it or on its way
there, by a buffer or by the thread that found it, is the level being found,
and whatever is above the window is followed.  In between, a node of the window
is followed, or waits, or some thread still has in hand every edge of it that
leads to a node not found yet (`VisitGood`), also while that thread is away to
flush a full buffer.  So a node is found from the lowest level that has
something left to find, and when a level's threads have met at the barrier
nothing is left of it.  The same invariant gives distances themselves:
`DepthsBecomeDistances`, since the balls of the definition of `Depth` hold
exactly the nodes up to a level, and no level is skipped, so that there are
fewer than there are nodes.

*Breadth-first search by levels* (`SearchProofs`).  `bfs` alone, in whichever
direction it looks and however often it changes, implements `LevelSearch`
(`SearchingGoesByLevels`) by the refinement mapping of the run: a node's level
is the number of parents above it.  The queue no longer holds all there is to
know: bottom-up a level stands in a bitmap only, so `BfsLevels` says for each
region where the level being searched and the one being found are.  Top-down
it is as for `bc`.  While a queue becomes a bitmap, a node of the window has
its bit, or waits, or a thread goes on trying to set it.  Bottom-up, a node is found,
or no node of the front leads to it, or it is still ahead of a thread in its
chunk or in a chunk nobody has taken (`Ahead`); and the nodes of the next level
are the bits of `curr` and those a thread has computed and not stored yet.
These stores are not atomic (`set_bit`, bitmap.h:39): none is lost because
threads are in different chunks (`ChunksApart`) and a word is in one chunk,
which is what `BfsAssumption` says of the two sizes (64 bits and 1024 nodes,
bfs.cc:50), so a word does not change between a thread's load and its store
(`BitsHold`).  A thread tests a node found in its own chunk only, and its
incoming edges; that they are the edges of the graph is `IsGraph`, with one
array for both directions when it is undirected (graph.h:138).  Back to the
queue, the front is what waits, what is in buffers and what is behind the
window (`ToQueueAt`).  `ParentsBecomeDistances`: at the end a node is as many
parents away from the source as a shortest path has edges.

*Shortest paths* (`GraphProofs`), delta-stepping run alone on any graph without
negative weights by any number of threads (`SsspSpec`).  `SsspInv` has two
sides.  Nothing is forgotten (`NoneForgotten`): an edge that could still lower
a distance leaves a node that waits in a bin, on the frontier or with a thread,
never behind the bin being emptied, or the edge itself is in a thread's hands.
While bins are copied, the node is in the next bin or on the next frontier,
where each reserved range belongs to one thread until it is filled.  And nothing
is too small: every potential, a function of the nodes that is 0 at the source
and climbs along no edge by more than its weight, stays below all distances and
below each sum a thread is about to store.  So the distances at the end are the
greatest potential.  That these are the lengths of shortest paths goes by the
rounds of the definition of `Distances`: as long as a round is not yet a
potential, one more node has its final value.  `DistancesBecomeShortest` assumes
`FrontierFits` at all times, which the code relies on and does not test
(section 4), and that bins reach as far as distances, as their types do.

*Building a graph* (`GraphProofs`), `MakeCSR` as `MakeGraphFromEL` calls it,
alone (`BuildSpec`), on any list of edges, symmetrized or not, with any number
of threads and blocks of any size in the prefix sum.  Each edge has one or two
parts, which are counted in one region and stored in another, in the same
order.  `CountInv`: a node's count is the number of its parts that are done,
where a part a thread has in hand is done as soon as its fetch-and-add is.
Sums over blocks are shown to be the number of all parts at lower nodes, so each
node has a range of its own.  `FillInv` assigns slots to parts: those given out
fill each range from its start, none is given twice, and a slot given holds its
neighbour or is held by the one thread that is about to store in it, which is
what the gap between fetch-and-add and store needs.  So when a pass ends each
node's range holds its entries, one to one (`EveryEdgeIsKept`), and the pass
for incoming edges leaves the outgoing ones.  Sorting and squishing them, the
rest of `GraphIsAsListed`, folds over data and stays with TLC, and so does
building in place.

Only model-checked:

- termination, which rests on fairness;
- the streams and containers of the baselines and of FPC-BSEL, and their
  totals, which need induction over the data;
- `ReportsAddUp`, whose sums are over data, by an operator that takes an operator;
- that path counts and scores of betweenness centrality are exact, squishing and
  building graphs in place, counting triangles and the files of the GAP suite.

## 6. What is not modelled

- Text of messages and reports, ratios (doubles), command-line syntax.
- The bytes of a cache line while threads of the program write it.
- Sizes that overflow 64 bits in products (metadata of 2^61 bytes).
- Model files and containers that no writer of the program produced.
- Zstd and LZ4 (calls to libraries) and `bpc_encoded_size_legacy`, which is
  not called.
- The two circuits for sets without metadata bytes, whose ports would have no
  bits; the text of the SystemVerilog.
- PageRank: floating-point sums with a tolerance; `pr.cc` reads contributions
  while other threads write them and is defined by what it converges to.
- Generators (random edges and weights), the text formats of graphs, option
  parsing, timers, and the verifiers of the GAP programs, which the properties
  of `graph_programs` replace.  A kernel runs once, not `num_trials` times.
- The normalisation of betweenness scores (floats).
- Serialized graphs that are missing or cut; two programs at one file.
- Simplifications that no property depends on: `ReadTrace` prints all rows of a
  trace in one step, though a baseline or an upper bound may throw between two
  (main.cpp:832, 928-931, 1047); the throws for invalid upper-bound targets and
  for metadata of too many bits (codec.cpp:280-285) are left out;
  `OrderedCount` counts pairs of a set, since a squished graph has no neighbour
  twice; `StartAfforest` takes at least one round of sampling (the program
  always asks for two).  The jobs of `tc` build in place, so of the race for
  slots (builder.h:310) it is `GraphIsAsListed` that speaks, and `EveryEdgeIsKept`.
- `patterns`, which prints a model; build files, tests and scripts.

## 7. Plan

Done: all components of section 1 that are modelled, and the proofs about
the patterns, the trainer, the codec, the circuits, the container, the trace
tool, the training driver, connected components, the queue of the searches,
both breadth-first searches, delta-stepping and the building of graphs.
Left:

1. `Reports`: that a row's terms are those of the traces read, by an invariant
   on `sums` and `out`.
2. `GraphBuilder`: that squishing keeps one edge of each neighbour, and that
   building in place loses none, hence all of `GraphIsAsListed`.
3. `TriangleCount`: each triangle has one order of its nodes.
4. `BaselineEvaluation`: the totals against the targets, for any codec.
