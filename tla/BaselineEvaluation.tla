------------------------- MODULE BaselineEvaluation -------------------------
(***************************************************************************)
(* evaluate_baseline() (src/src/baseline.cpp): the blocks of a trace are   *)
(* encoded one after the other with one baseline, and their sizes added    *)
(* up, as they are and rounded up to the target sizes.  Zstd and LZ4 are   *)
(* calls of libraries and left out.                                        *)
(***************************************************************************)
EXTENDS WordBaselines, ByteBaselines

CONSTANTS
  BlockSize,
  Traces,          (* sequences of blocks of BlockSize bytes               *)
  TargetLists      (* the targets as given, in any order, also twice       *)

Block == [1..BlockSize -> Byte]

ASSUME BlockSizeAssumption   == BlockSize \in Nat \ {0} /\ BlockSize % 8 = 0
ASSUME TracesAssumption      == Traces \subseteq Seq(Block)
ASSUME TargetListsAssumption == TargetLists \subseteq Seq(Nat)

Kinds == {"fpc", "bdi", "hybrid", "cpack", "bpc", "lz77-lite", "huffman"}

VARIABLES
  kind,
  trace,
  targets,         (* as given, then sorted and without repetitions        *)
  status,          (* "new", "refused", "measuring"                        *)
  result           (* struct BaselineEvaluation                            *)

vars == <<kind, trace, targets, status, result>>

-----------------------------------------------------------------------------

Encode(name, block) ==
  CASE name = "fpc"       -> FpcEncode(block)
    [] name = "bdi"       -> BdiEncode(block)
    [] name = "cpack"     -> CpackEncode(block)
    [] name = "bpc"       -> BpcEncode(block)
    [] name = "lz77-lite" -> LzEncode(block)
    [] name = "huffman"   -> HuffmanEncode(block)

Decode(name, bytes) ==
  CASE name = "fpc"       -> FpcDecode(bytes, BlockSize)
    [] name = "bdi"       -> BdiDecode(bytes, BlockSize)
    [] name = "cpack"     -> CpackDecode(bytes, BlockSize)
    [] name = "bpc"       -> BpcDecode(bytes, BlockSize)
    [] name = "lz77-lite" -> LzDecode(bytes, BlockSize)
    [] name = "huffman"   -> HuffmanDecode(bytes, BlockSize)

(* The codecs a kind measures; the best of them counts, and no block is    *)
(* charged more than its raw bytes.                                        *)
Codecs(name) == IF name = "hybrid" THEN {"fpc", "bdi"} ELSE {name}

EncodedSize(block, name) ==
  Min({BlockSize} \cup {Len(Encode(c, block)) : c \in Codecs(name)})

(* quantized_size(): the first target that holds the block, 0 for none.    *)
HasRoomToSpare(size) == {t \in DOMAIN targets : size < targets[t]}

Holding(size) == {t \in DOMAIN targets : size <= targets[t]}

TargetIndex(size) ==
  IF size >= BlockSize \/ Holding(size) = {} THEN 0 ELSE Min(Holding(size))

QuantizedSize(size) == IF TargetIndex(size) = 0 THEN BlockSize ELSE targets[TargetIndex(size)]

NoResult == [blocks |-> 0, original_bytes |-> 0, encoded_bytes |-> 0, allocated_bytes |-> 0,
             compressed_blocks |-> 0, target_blocks |-> [t \in DOMAIN targets |-> 0]]

-----------------------------------------------------------------------------

Init ==
  /\ kind \in Kinds /\ trace \in Traces /\ targets \in TargetLists
  /\ status = "new"
  /\ result = NoResult

(* Sorted and made unique; with blocks to measure, each target is checked. *)
Prepare ==
  /\ status = "new"
  /\ targets' = SetToSortSeq(Range(targets), LAMBDA a, b : a < b)
  /\ status' = IF trace # << >> /\ \E t \in Range(targets) : t = 0 \/ t >= BlockSize
                 THEN "refused" ELSE "measuring"
  /\ result' = NoResult'
  /\ UNCHANGED <<kind, trace>>

Measure ==
  /\ status = "measuring" /\ result.blocks < Len(trace)
  /\ LET encoded == EncodedSize(trace[result.blocks + 1], kind)
         target  == TargetIndex(encoded)
         one(condition) == IF condition THEN 1 ELSE 0
     IN  result' =
           [blocks            |-> result.blocks + 1,
            original_bytes    |-> result.original_bytes + BlockSize,
            encoded_bytes     |-> result.encoded_bytes + encoded,
            allocated_bytes   |-> result.allocated_bytes + QuantizedSize(encoded),
            compressed_blocks |-> result.compressed_blocks
                                    + one(QuantizedSize(encoded) < BlockSize),
            target_blocks     |-> [t \in DOMAIN targets |->
                                     result.target_blocks[t] + one(t = target)]]
  /\ UNCHANGED <<kind, trace, targets, status>>

Next == Prepare \/ Measure

Spec == Init /\ [][Next]_vars

-----------------------------------------------------------------------------

(* The streams of the block last measured.                                 *)
Streams ==
  IF result.blocks = 0 THEN {}
  ELSE {<<c, Encode(c, trace[result.blocks])>> : c \in Codecs(kind)}

(* "Real, round-trippable baseline bitstreams" (baseline.hpp:44): what is  *)
(* measured, and no shorter beginning of it, can be decoded when only the  *)
(* block size is known, and it decodes to the block.  The sizes count      *)
(* neither too little nor a byte that decoding could do without.           *)
DecodesExactly ==
  \A s \in Streams : \A n \in 0..Len(s[2]) :
    Decode(s[1], SubSeq(s[2], 1, n)) =
      IF n = Len(s[2]) THEN {trace[result.blocks]} ELSE {}

(* No code is the beginning of another, the codes leave no gap, and a byte *)
(* that occurs more often never has the longer code.                       *)
HuffmanCodesAreComplete ==
  \A s \in {s \in Streams : s[1] = "huffman"} :
    \A lengths \in HuffmanTable(s[2]) :
      LET block   == trace[result.blocks]
          longest == Max(Range(lengths))
      IN  /\ \A a, b \in DOMAIN lengths :
               /\ a # b => ~IsPrefix(CodeOf(a, lengths), CodeOf(b, lengths))
               /\ Occurrences(block, a) > Occurrences(block, b) => lengths[a] <= lengths[b]
          /\ Cardinality(DOMAIN lengths) > 1 =>
               MapThenSumSet(LAMBDA a : 2^(longest - lengths[a]), DOMAIN lengths) = 2^longest

(* The totals agree with each other and with the blocks: every block is    *)
(* charged the smallest target that holds it, if any, and counted there.   *)
TotalsExplained ==
  LET sizes(b)  == EncodedSize(trace[b], kind)
      fit(b)    == {t \in Range(targets) : sizes(b) <= t}
      counted   == MapThenSumSet(LAMBDA t : result.target_blocks[t], DOMAIN targets)
  IN  status = "measuring" =>
        /\ result.allocated_bytes =
             MapThenSumSet(LAMBDA b : Min({BlockSize} \cup fit(b)), 1..result.blocks)
        /\ counted = result.compressed_blocks
        /\ result.allocated_bytes =
             MapThenSumSet(LAMBDA t : result.target_blocks[t] * targets[t], DOMAIN targets)
               + (result.blocks - counted) * BlockSize
        /\ result.encoded_bytes <= result.allocated_bytes
        /\ result.allocated_bytes <= result.original_bytes
=============================================================================
