------------------------------ MODULE Hardware ------------------------------
(***************************************************************************)
(* The values the generated SystemVerilog computes (src/src/rtl.cpp), next *)
(* to the software codec it is generated from.  The modules are purely     *)
(* combinational, so their ports are functions of their inputs: an output  *)
(* is a record of the ports' values, a port of several bytes a function of *)
(* the byte's number, and an assignment to a narrower port keeps the low   *)
(* bits.  Assignments under "if (!success_o && ...)" leave the first that  *)
(* applies, and of equal case labels the first counts.                     *)
(*                                                                         *)
(* A set without metadata bytes would have ports of no bits, which         *)
(* SystemVerilog does not have; the circuit exists when no set is such.    *)
(***************************************************************************)
EXTENDS OnlineCodec

CONSTANT PortBits      (* width of the target size ports, 16               *)

ASSUME PortBitsAssumption == PortBits \in Nat \ {0}

LowBits(value, bits) == value % 2^bits

-----------------------------------------------------------------------------
(* bsel_compressor_s<i>: a comparator per position against the position    *)
(* its symbol is met for the first time.                                   *)

FirstPosition(p, symbol) ==
  CHOOSE i \in Pos : p[i] = symbol /\ \A h \in 1..(i - 1) : p[h] # symbol

ComparatorsAgree(p, b) == \A i \in Pos : b[i] = b[FirstPosition(p, p[i])]

Matching(set, b) ==
  {k \in 1..Len(set.patterns) : ComparatorsAgree(set.patterns[k], b)}

CompressorDictionary(set, p, b) ==
  [d \in 1..DictionarySize(set) |->
     IF d <= Rank(p) THEN b[FirstPosition(p, d - 1)] ELSE 0]

Compressor(set, b) ==
  IF Matching(set, b) = {}
    THEN [success |-> FALSE, pattern_id |-> 0,
          dictionary |-> [d \in 1..DictionarySize(set) |-> 0]]
    ELSE LET k == Min(Matching(set, b))
         IN  [success |-> TRUE,
              pattern_id |-> LowBits(EncodePatternMetadata(set, k - 1),
                                     MetadataBits(set)),
              dictionary |-> CompressorDictionary(set, set.patterns[k], b)]

(* bsel_decompressor_s<i>: a case over the metadata of every pattern.      *)
Selected(set, id) ==
  {k \in 1..Len(set.patterns) :
     LowBits(EncodePatternMetadata(set, k - 1), MetadataBits(set)) = id}

Decompressor(set, id, dictionary) ==
  IF Selected(set, id) = {}
    THEN [valid |-> FALSE, block |-> [i \in Pos |-> 0]]
    ELSE LET p == set.patterns[Min(Selected(set, id))]
         IN  [valid |-> TRUE, block |-> [i \in Pos |-> dictionary[p[i] + 1]]]

-----------------------------------------------------------------------------
(* The top modules, whose metadata and dictionary ports are as wide as the *)
(* widest set's.                                                           *)

TopIdBits == Max({MetadataBits(model[s]) : s \in Sets})
TopDictionary == 1..Max({DictionarySize(model[s]) : s \in Sets})

(* The set that answers: the stable sort keeps equal targets in order.     *)
Successful(b) == {s \in Sets : Compressor(model[s], b).success}

SetBefore(s, t) ==
  \/ model[s].target_size < model[t].target_size
  \/ model[s].target_size = model[t].target_size /\ s < t

TopCompressor(b) ==
  IF Successful(b) = {}
    THEN [success |-> FALSE, pattern_id |-> 0,
          dictionary |-> [d \in TopDictionary |-> 0],
          target_size |-> LowBits(BlockSize, PortBits)]
    ELSE LET s   == CHOOSE s \in Successful(b) :
                      \A t \in Successful(b) \ {s} : SetBefore(s, t)
             out == Compressor(model[s], b)
         IN  [success |-> TRUE, pattern_id |-> out.pattern_id,
              dictionary |-> [d \in TopDictionary |->
                 IF d \in DOMAIN out.dictionary THEN out.dictionary[d] ELSE 0],
              target_size |-> LowBits(model[s].target_size, PortBits)]

(* Each set's decompressor receives the low bits of the ports; the target  *)
(* size selects among them.                                                *)
SetsOf(target) == {s \in Sets : LowBits(model[s].target_size, PortBits) = target}

WholePorts(set, id, dictionary) == Decompressor(set, id, dictionary)

Sliced(set, id, dictionary) ==
  Decompressor(set, LowBits(id, MetadataBits(set)),
               [d \in 1..DictionarySize(set) |-> dictionary[d]])

TopDecompressor(target, id, dictionary) ==
  IF SetsOf(target) = {}
    THEN [valid |-> FALSE, block |-> [i \in Pos |-> 0]]
    ELSE Sliced(model[Min(SetsOf(target))], id, dictionary)

-----------------------------------------------------------------------------

HasCircuit == /\ status = "open"
              /\ \A s \in Sets : model[s].metadata_bytes > 0 /\ TagFitsWord(model[s])

(* For every block the circuit answers what the software compressor        *)
(* answered: whether it compresses, into which target, with which          *)
(* metadata, and with which dictionary, padded with zero bytes to the      *)
(* port (tests/expect_rtl_simulation.cmake compares three blocks).         *)
CompressorAgrees ==
  HasCircuit => \A e \in encoded :
    TopCompressor(block) =
      [success |-> e.compressed, pattern_id |-> e.metadata,
       dictionary |-> [d \in TopDictionary |->
          IF d <= Len(e.dictionary) THEN e.dictionary[d] ELSE 0],
       target_size |-> LowBits(e.allocated_size, PortBits)]

(* The decompressor circuit returns the block for what the compressor      *)
(* circuit produced, and of all other target sizes and metadata accepts    *)
(* exactly those the software decodes, with the pattern it decodes ("wrong *)
(* tagged target metadata must be invalid").                               *)
DecompressorAgrees ==
  HasCircuit /\ encoded # {} =>
    LET out == TopCompressor(block)
    IN  /\ out.success =>
             TopDecompressor(out.target_size, out.pattern_id, out.dictionary)
               = [valid |-> TRUE, block |-> block]
        /\ \A target \in 0..(2^PortBits - 1), id \in 0..(2^TopIdBits - 1) :
             LET got     == TopDecompressor(target, id, out.dictionary)
                 decoded ==
                   UNION {{<<s, index>> : index \in
                       DecodePatternMetadata(model[s], LowBits(id, MetadataBits(model[s])))}
                     : s \in {s \in Sets : model[s].target_size = target}}
             IN  /\ got.valid <=> decoded # {}
                 /\ \A c \in decoded : \A i \in Pos :
                      got.block[i] = out.dictionary[model[c[1]].patterns[c[2] + 1][i] + 1]

(* Hardware and software compress alike and decompress alike.              *)
CircuitsAgree == CompressorAgrees /\ DecompressorAgrees
=============================================================================
