----------------------------- MODULE FpcBselTool -----------------------------
(***************************************************************************)
(* The commands of the FPC-BSEL program (src/fpc-bsel/src/main.cpp and     *)
(* model.cpp): train writes a model file, evaluate and compress read it,   *)
(* decompress reads it and a container.  A file is written from its first  *)
(* byte to its last into its final place, so that a command that is killed *)
(* or runs out of disk leaves a part of it.                                *)
(*                                                                         *)
(* A file is a sequence of fields in the order they are written: in a      *)
(* model, the name, the version, and for each of the two sets its block    *)
(* size, its number of patterns and the patterns; in a container, the      *)
(* name, the original size and then bytes.  A field that is cut counts as  *)
(* missing: reading it throws in either case.                              *)
(*                                                                         *)
(* A session trains once: a container does not name the model it was made  *)
(* with, and what decompress gives with another one is nobody's promise.   *)
(***************************************************************************)
EXTENDS FpcBsel

CONSTANTS
  Traces,        (* what a model may be trained on: sequences of blocks    *)
  MaxPatterns,   (* the values of --max-patterns                           *)
  Inputs         (* what may be compressed: sequences of blocks            *)

ASSUME BlocksAssumption ==
  Traces \cup Inputs \subseteq Seq([1..BlockSize -> Byte]) \ {<< >>}
ASSUME MaxPatternsAssumption == MaxPatterns \subseteq Nat \ {0}

VARIABLES
  trace,         (* the blocks trained on                                  *)
  trained,       (* the models trained in this session, at most one        *)
  modelFile,
  totals,        (* what evaluate prints, {} before                        *)
  source,        (* the blocks last given to compress                      *)
  container,
  restored       (* what decompress wrote: {"none"}, {} when it threw      *)

toolVars == <<trace, trained, modelFile, totals, source, container, restored>>

-----------------------------------------------------------------------------
(* The model file.                                                         *)

Split(blocks) ==
  [prefix   |-> [b \in DOMAIN blocks |-> Tags(blocks[b])],
   residual |-> [b \in DOMAIN blocks |-> ResidualBlock(blocks[b])]]

TrainModel(blocks, max) ==
  [prefix   |-> TrainBsel(Split(blocks).prefix, max),
   residual |-> TrainBsel(Split(blocks).residual, max)]

WriteSet(size, patterns) == <<size, Len(patterns)>> \o patterns

SaveModel(model) ==
  <<"FPCBSEL1", 1>> \o WriteSet(WordCount, model.prefix)
                    \o WriteSet(BlockSize, model.residual)

SetEndAtMost(file, at) ==
  IF at + 1 <= Len(file) THEN Least(Len(file), at + 1 + file[at + 1]) ELSE 0

(* read_set(): where the set at a field ends, 0 when it throws.            *)
SetEnd(file, at) ==
  IF at + 1 <= Len(file) /\ at + 1 + file[at + 1] <= Len(file)
    THEN at + 1 + file[at + 1] ELSE 0

LoadModel(file) ==
  LET prefixEnd   == SetEnd(file, 3)
      residualEnd == SetEnd(file, prefixEnd + 1)
  IN  IF prefixEnd # 0 /\ residualEnd = Len(file)
        THEN {[prefix   |-> SubSeq(file, 5, prefixEnd),
               residual |-> SubSeq(file, prefixEnd + 3, residualEnd)]}
        ELSE {}

-----------------------------------------------------------------------------
(* The container.                                                          *)

Frame(block, model) ==
  LET bytes == EncodeBlock(block, model).bytes
  IN  LittleEndian(Len(bytes), 2) \o bytes

CompressFile(blocks, model) ==
  <<"FPCBSF1", BlockSize * Len(blocks)>>
    \o FlattenSeq([b \in DOMAIN blocks |-> Frame(blocks[b], model)])

(* The blocks of the frames from a byte on; none when one of them throws.  *)
ReadFrames(file, model) ==
  LET size(at) == LoadLittleEndian(SubSeq(file, at, at + 1))
      from[at \in 1..(Len(file) + 1)] ==
        IF at = Len(file) + 1 THEN {<< >>}
        ELSE IF at + 1 > Len(file) \/ at + 1 + size(at) > Len(file) THEN {}
        ELSE {<<block>> \o rest :
                block \in DecodeBlock(SubSeq(file, at + 2, at + 1 + size(at)), model),
                rest \in from[at + 2 + size(at)]}
  IN  from[3]

DecompressFile(file, model) ==
  IF Len(file) < 2 THEN {}
  ELSE {blocks \in ReadFrames(file, model) : BlockSize * Len(blocks) = file[2]}

(* evaluate: the mode byte is counted as physical, not as encoded.         *)
Evaluation(blocks, model) ==
  LET size(b) == Len(EncodeBlock(blocks[b], model).bytes)
  IN  [physical |-> Total([b \in DOMAIN blocks |-> size(b)]),
       encoded  |-> Total([b \in DOMAIN blocks |-> size(b) - 1])]

-----------------------------------------------------------------------------

ToolInit ==
  /\ trace = << >> /\ trained = {} /\ modelFile = << >>
  /\ totals = {} /\ source = << >> /\ container = << >>
  /\ restored = {"none"}

(* train, whole or killed after the first n fields.                        *)
Train(blocks, max) ==
  LET model == TrainModel(blocks, max)
  IN  /\ trained = {}
      /\ trace' = blocks
      /\ trained' = {model}
      /\ \E n \in 0..Len(SaveModel(model)) : modelFile' = SubSeq(SaveModel(model), 1, n)
      /\ UNCHANGED <<totals, source, container, restored>>

Evaluate(blocks) ==
  /\ trained # {} /\ source = << >>
  /\ \E model \in LoadModel(modelFile) : totals' = {Evaluation(blocks, model)}
  /\ source' = blocks
  /\ UNCHANGED <<trace, trained, modelFile, container, restored>>

(* compress, whole or killed after the first n fields.                     *)
Compress(blocks) ==
  /\ trained # {} /\ source = << >>
  /\ source' = blocks
  /\ \E model \in LoadModel(modelFile) :
       LET file == CompressFile(blocks, model)
       IN  \E n \in 0..Len(file) : container' = SubSeq(file, 1, n)
  /\ UNCHANGED <<trace, trained, modelFile, totals, restored>>

Decompress ==
  /\ source # << >> /\ totals = {} /\ restored = {"none"}
  /\ \E model \in LoadModel(modelFile) :
       restored' = DecompressFile(container, model)
  /\ UNCHANGED <<trace, trained, modelFile, totals, source, container>>

ToolNext ==
  \/ \E blocks \in Traces, max \in MaxPatterns : Train(blocks, max)
  \/ \E blocks \in Inputs : Evaluate(blocks) \/ Compress(blocks)
  \/ Decompress

ToolSpec == ToolInit /\ [][ToolNext]_toolVars

-----------------------------------------------------------------------------

(* A whole container gives back the compressed blocks byte for byte; one   *)
(* that is cut anywhere is refused, as each segment's length is derived    *)
(* from the segments before it.                                            *)
RestoresOrRefuses ==
  restored # {"none"} =>
    \A model \in trained :
      restored = IF container = CompressFile(source, model) THEN {source} ELSE {}

(* A model file is refused when it is cut anywhere, and otherwise loads as *)
(* the model that was trained.                                             *)
LoadsTrainedOrRefuses ==
  \A model \in trained :
    LoadModel(modelFile) = IF modelFile = SaveModel(model) THEN {model} ELSE {}

(* The fewest bytes of any mode; in the combined one each segment stands   *)
(* as it is or is encoded by the smallest pattern of its set that matches. *)
SmallestSize(block, model) ==
  LET sizes(set, segment, plain) ==
        {Len(plain)} \cup {2 + Rank(p) : p \in {p \in Range(set) : Matches(p, segment)}}
      prefixes  == sizes(model.prefix, Tags(block), PackTags(Tags(block)))
      residuals == sizes(model.residual, ResidualBlock(block), RawResidual(block))
  IN  Min({1 + BlockSize, 1 + Len(FpcEncode(block)),
           2 + Min(prefixes) + Len(RegularPayload(block)) + Min(residuals)})

(* "The final block is the smallest real stream among raw, conventional    *)
(* FPC, and FPC+BSEL" (fpc-bsel/README.md:11), each part of the last one   *)
(* with or without BSEL, whichever is smaller; and what evaluate reports   *)
(* is the sum of those sizes, with the mode bytes and without them.        *)
SmallestStream ==
  \A model \in trained :
    LET smallest == [b \in DOMAIN source |-> SmallestSize(source[b], model)]
    IN  /\ \A b \in DOMAIN source : Len(EncodeBlock(source[b], model).bytes) = smallest[b]
        /\ \A t \in totals : /\ t.physical = Total(smallest)
                             /\ t.encoded = Total(smallest) - Len(source)
=============================================================================
