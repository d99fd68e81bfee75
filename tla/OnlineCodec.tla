----------------------------- MODULE OnlineCodec -----------------------------
(***************************************************************************)
(* A session of the online codec (src/src/codec.cpp): OnlineCompressor and *)
(* OnlineDecompressor built on the same model, fed with blocks in any      *)
(* order, while evaluate() and evaluate_byte_select_upper_bound()          *)
(* accumulate over the same blocks, as `bsel analyze` does.                *)
(***************************************************************************)
EXTENDS BlockCodec, FiniteSetsExt

CONSTANTS
  Models,          (* the models a session may be opened with              *)
  IdealMetadata,   (* metadata bytes charged by the upper bound            *)
  MaxBlocks        (* bound: blocks compressed in a session                *)

ASSUME ModelsAssumption        == Models \subseteq Seq(PatternSets)
ASSUME IdealMetadataAssumption == IdealMetadata \in Nat
ASSUME MaxBlocksAssumption     == MaxBlocks \in Nat

VARIABLES
  model,
  status,          (* "new", "rejected" by validate_model, or "open"       *)
  block,           (* the block last given to the compressor               *)
  encoded,         (* what the compressor returned for it, {} before       *)
  totals,          (* struct Evaluation                                    *)
  upper            (* struct UpperBoundEvaluation                          *)

vars == <<model, status, block, encoded, totals, upper>>

Sets == 1..Len(model)

NoTotals == [blocks |-> 0, encoded_bytes |-> 0, allocated_bytes |-> 0,
             set_blocks |-> [s \in Sets |-> 0]]

NoUpper == [unique_with_metadata_bytes |-> 0, quantized_bytes |-> 0]

Init ==
  /\ model \in Models
  /\ status = "new"
  /\ block \in {[i \in Pos |-> 0]}
  /\ encoded = {}
  /\ totals = NoTotals
  /\ upper = NoUpper

(* The constructors validate the model.                                    *)
Open ==
  /\ status = "new"
  /\ status' = IF ValidModel(model) THEN "open" ELSE "rejected"
  /\ UNCHANGED <<model, block, encoded, totals, upper>>

(* One block of evaluate(): compress and add to the totals.                *)
Evaluated(e) ==
  [blocks          |-> totals.blocks + 1,
   encoded_bytes   |-> totals.encoded_bytes + e.encoded_size,
   allocated_bytes |-> totals.allocated_bytes + e.allocated_size,
   set_blocks      |-> [s \in Sets |-> totals.set_blocks[s]
                          + (IF e.compressed /\ s = e.set_index THEN 1 ELSE 0)]]

(* One block of evaluate_byte_select_upper_bound(): its distinct bytes,    *)
(* the ideal metadata, and the smallest target that holds both.            *)
TargetSizes == {model[s].target_size : s \in Sets}

RoomForOneMore(unique) == {t \in TargetSizes : unique < t - IdealMetadata}
Roomy(unique) == {t \in TargetSizes : unique <= t - IdealMetadata}

UpperBounded(b) ==
  LET unique == Rank(Simplest(b))
  IN  [unique_with_metadata_bytes |-> upper.unique_with_metadata_bytes
         + Min({BlockSize, unique + IdealMetadata}),
       quantized_bytes |-> upper.quantized_bytes
         + (IF Roomy(unique) = {} THEN BlockSize ELSE Min(Roomy(unique)))]

CompressBlock(b) ==
  /\ status = "open"
  /\ totals.blocks < MaxBlocks
  /\ block'   = b
  /\ encoded' = {Compress(b, model)}
  /\ totals'  = Evaluated(Compress(b, model))
  /\ upper'   = UpperBounded(b)
  /\ UNCHANGED <<model, status>>

Next ==
  \/ Open
  \/ \E b \in Block : CompressBlock(b)

Spec == Init /\ [][Next]_vars

-----------------------------------------------------------------------------

(* What the compressor returns the decompressor accepts and gives back     *)
(* byte for byte, whatever set and pattern were chosen and however far the *)
(* dictionary was padded.                                                  *)
RoundTrip == \A e \in encoded : Decompress(e, model) = {block}

(* The metadata fits the bytes reserved for it, names the pattern used and *)
(* nothing else, and is refused by a set of the same width with another    *)
(* tag (tests/tests.cpp:337, "metadata uses high target tag and low        *)
(* pattern index bits").                                                   *)
MetadataNamesThePattern ==
  \A e \in encoded :
    LET set == model[e.set_index]
    IN  e.compressed /\ TagFitsWord(set) =>
          /\ Fits(e.metadata, MetadataBits(set))
          /\ DecodePatternMetadata(set, e.metadata) = {e.pattern_index}
          /\ \A s \in Sets :
               /\ MetadataBits(model[s]) = MetadataBits(set)
               /\ model[s].tag_bits = set.tag_bits
               /\ DecodePatternMetadata(model[s], e.metadata) # {}
               => model[s].tag_value = set.tag_value

(* The compressed block takes the smallest target that any pattern allows, *)
(* and exactly that many bytes with its metadata and padded dictionary.    *)
SmallestTarget ==
  \A e \in encoded :
    /\ \A s \in Sets : \A k \in 1..Len(model[s].patterns) :
         Describes(model[s].patterns[k], block)
           => e.compressed /\ e.allocated_size <= model[s].target_size
    /\ e.compressed =>
         /\ e.encoded_size <= e.allocated_size
         /\ model[e.set_index].metadata_bytes + Len(e.dictionary) = e.allocated_size

(* The upper bound is one: charged no more metadata than any set uses, the *)
(* ideal sizes never exceed the sizes the model reaches on the same blocks.*)
UpperBoundHolds ==
  status = "open" /\ (\A s \in Sets : IdealMetadata <= model[s].metadata_bytes) =>
    /\ upper.unique_with_metadata_bytes <= totals.encoded_bytes
    /\ upper.quantized_bytes <= totals.allocated_bytes
=============================================================================
