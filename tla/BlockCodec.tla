----------------------------- MODULE BlockCodec -----------------------------
(***************************************************************************)
(* Compression and decompression of one block with a model                 *)
(* (src/src/codec.cpp).                                                    *)
(*                                                                         *)
(* A model is a sequence of pattern sets; a pattern set has a target size, *)
(* a number of metadata bytes whose high bits hold a tag and whose low     *)
(* bits hold a pattern index, and a sequence of patterns.  Patterns and    *)
(* blocks have BlockSize positions, the model's block size.                *)
(*                                                                         *)
(* ByteBits is the number of bits of a byte, 8 in the program, WordBits    *)
(* that of a std::size_t, 64.  The checks on products that overflow a word *)
(* (metadata_bytes * 8) concern metadata no target can hold; they are left *)
(* out.                                                                    *)
(***************************************************************************)
EXTENDS Patterns, Sequences

CONSTANTS
  Byte,           (* the values of a byte, 0 among them                    *)
  ByteBits,
  WordBits

ASSUME ByteAssumption == Byte \subseteq Nat /\ 0 \in Byte
ASSUME BitsAssumption == ByteBits \in Nat \ {0} /\ WordBits \in Nat \ {0}

Block == [Pos -> Byte]

PatternSet(target, metadata, tagBits, tagValue, patterns) ==
  [target_size |-> target, metadata_bytes |-> metadata, tag_bits |-> tagBits,
   tag_value |-> tagValue, patterns |-> patterns]

(* The types of the fields, numbers that a word holds; everything else     *)
(* about a model is validated.                                             *)
Size == 0..(2^WordBits - 1)

PatternSets ==
  {set \in [target_size : Size, metadata_bytes : Size, tag_bits : Size, tag_value : Size,
            patterns : Seq({p \in [Pos -> Symbol] : IsCanonical(p)})] :
     Len(set.patterns) \in Size}

DictionarySize(set) == set.target_size - set.metadata_bytes
MetadataBits(set)   == ByteBits * set.metadata_bytes
PatternIdBits(set)  == MetadataBits(set) - set.tag_bits

-----------------------------------------------------------------------------
(* Words and bits.  Comparisons with the width come first because the      *)
(* program never shifts by WordBits or more.                               *)

Fits(value, bits)      == bits >= WordBits \/ value < 2^bits
CountFits(count, bits) == bits >= WordBits \/ count <= 2^bits

ShiftLeft(value, bits) == (value * 2^bits) % 2^WordBits

(* The tag of the set, then the pattern index in the low bits.             *)
ValidLayout(set) ==
  /\ set.tag_bits <= MetadataBits(set)
  /\ set.tag_bits <= WordBits
  /\ set.tag_bits # 0 => PatternIdBits(set) < WordBits
  /\ Fits(set.tag_value, set.tag_bits)

ValidSet(set) ==
  /\ set.target_size # 0
  /\ set.metadata_bytes < set.target_size
  /\ set.target_size < BlockSize
  /\ ValidLayout(set)
  /\ CountFits(Len(set.patterns), PatternIdBits(set))
  /\ \A k \in 1..Len(set.patterns) : Rank(set.patterns[k]) <= DictionarySize(set)

(* validate_model()                                                        *)
ValidModel(model) ==
  /\ model # << >>
  /\ \A s \in 1..Len(model) : ValidSet(model[s])
  /\ \A s, t \in 1..Len(model) :
       model[s].target_size = model[t].target_size => s = t

-----------------------------------------------------------------------------
(* Pattern metadata.  Pattern indices count from zero.                     *)

TagInLowBits(set, index) ==
  IF set.tag_bits = 0 THEN index ELSE set.tag_value + ShiftLeft(index, set.tag_bits)

EncodePatternMetadata(set, index) ==
  IF set.tag_bits = 0
    THEN index
    ELSE ShiftLeft(set.tag_value, PatternIdBits(set)) + index

(* decode_pattern_metadata(): the index, or none when it throws.           *)
DecodePatternMetadata(set, metadata) ==
  {index \in 0..(Len(set.patterns) - 1) :
     /\ Fits(metadata, MetadataBits(set))
     /\ IF set.tag_bits = 0
          THEN index = metadata
          ELSE /\ metadata \div 2^PatternIdBits(set) = set.tag_value
               /\ metadata % 2^PatternIdBits(set) = index}

(* A word holds the metadata of a tagged set.  validate_model accepts sets *)
(* that have more; encode_pattern_metadata shifts bits of their tags out   *)
(* of the word, and decode_pattern_metadata refuses what is left.          *)
TagFitsWord(set) == set.tag_bits # 0 => MetadataBits(set) <= WordBits

-----------------------------------------------------------------------------
(* The choices of compress(): sets by increasing target size, equal ones   *)
(* in their order, then patterns in theirs; the first that describes the   *)
(* block within the dictionary is taken.                                   *)

Describing(block, model) ==
  UNION {{<<s, k>> : k \in {j \in 1..Len(model[s].patterns) :
                              /\ Describes(model[s].patterns[j], block)
                              /\ Rank(model[s].patterns[j]) <= DictionarySize(model[s])}}
           : s \in 1..Len(model)}

DeclarationOrder(a, b, model) ==
  a[1] < b[1] \/ (a[1] = b[1] /\ a[2] < b[2])

TriedBefore(a, b, model) ==
  LET size(c) == model[c[1]].target_size
  IN  \/ size(a) < size(b)
      \/ size(a) = size(b) /\ a[1] < b[1]
      \/ a[1] = b[1] /\ a[2] < b[2]

FirstDescribing(block, model) ==
  CHOOSE c \in Describing(block, model) :
    \A d \in Describing(block, model) \ {c} : TriedBefore(c, d, model)

(* make_dictionary(), then resize to the set's dictionary with zero bytes. *)
PadsInFront(block, set, p) ==
  LET pad == DictionarySize(set) - Rank(p)
  IN  [d \in 1..DictionarySize(set) |->
         IF d <= pad THEN 0 ELSE block[CHOOSE i \in Pos : p[i] = d - pad - 1]]

Dictionary(block, set, p) ==
  [d \in 1..DictionarySize(set) |->
     IF \E i \in Pos : p[i] = d - 1
       THEN block[CHOOSE i \in Pos : /\ p[i] = d - 1
                                     /\ \A h \in 1..(i - 1) : p[h] # d - 1]
       ELSE 0]

(* struct EncodedBlock; original_size is BlockSize throughout, set_index   *)
(* counts from one as sequences do.                                        *)
RawBlock(block) ==
  [compressed |-> FALSE, encoded_size |-> BlockSize,
   allocated_size |-> BlockSize, set_index |-> 0, pattern_index |-> 0,
   metadata |-> 0, dictionary |-> << >>, raw |-> block]

CompressedBlock(block, model, s, k) ==
  LET set == model[s]
  IN  [compressed |-> TRUE,
       encoded_size |-> set.metadata_bytes + Rank(set.patterns[k]),
       allocated_size |-> set.target_size, set_index |-> s,
       pattern_index |-> k - 1,
       metadata |-> EncodePatternMetadata(set, k - 1),
       dictionary |-> Dictionary(block, set, set.patterns[k]),
       raw |-> << >>]

Compress(block, model) ==
  IF Describing(block, model) = {}
    THEN RawBlock(block)
    ELSE LET c == FirstDescribing(block, model)
         IN  CompressedBlock(block, model, c[1], c[2])

(* decompress(): the blocks it returns, at most one; none when it throws.  *)
Consistent(encoded, model) ==
  /\ encoded.set_index \in 1..Len(model)
  /\ encoded.pattern_index < Len(model[encoded.set_index].patterns)
  /\ encoded.metadata
       = EncodePatternMetadata(model[encoded.set_index], encoded.pattern_index)
  /\ Len(encoded.dictionary) = DictionarySize(model[encoded.set_index])

Expanded(encoded, model) ==
  LET p == model[encoded.set_index].patterns[encoded.pattern_index + 1]
  IN  [i \in Pos |-> encoded.dictionary[p[i] + 1]]

Decompress(encoded, model) ==
  IF encoded.compressed
    THEN IF Consistent(encoded, model) THEN {Expanded(encoded, model)} ELSE {}
    ELSE {encoded.raw}
=============================================================================
