------------------------------- MODULE FpcBsel -------------------------------
(***************************************************************************)
(* The block format of the standalone FPC-BSEL program (src/fpc-bsel/src): *)
(* a block is split into FPC tags, the payloads of regular words and the   *)
(* words FPC cannot shorten, and the tags and those words may each be      *)
(* compressed with a Byte-Select model of their own.                       *)
(*                                                                         *)
(* A Byte-Select model is a sequence of patterns, a pattern a sequence of  *)
(* symbols; a model has one for tag vectors and one for residual blocks.   *)
(* A function that may throw gives a set of results, empty when it does.   *)
(***************************************************************************)
EXTENDS Fpc

CONSTANT WordCount     (* words of a block, kWordCount, 16                 *)

ASSUME WordCountAssumption == WordCount \in Nat \ {0}

BlockSize == 4 * WordCount
WordIndex == 1..WordCount

-----------------------------------------------------------------------------
(* Byte-Select (bsel.cpp).                                                 *)

Rank(pattern) == 1 + CHOOSE m \in Range(pattern) : \A s \in Range(pattern) : s <= m

MetBefore(block, i) == {block[j] : j \in 1..(i - 1)}

FirstOf(block, i) == CHOOSE j \in 1..i : /\ block[j] = block[i]
                                         /\ block[i] \notin MetBefore(block, j)

SimplestPattern(block) ==
  [i \in DOMAIN block |-> Cardinality(MetBefore(block, FirstOf(block, i)))]

(* train_bsel(): the patterns by falling count, then by rank and symbols;  *)
(* the first max_patterns are kept.                                        *)
CountOf(pattern, blocks) ==
  Cardinality({b \in DOMAIN blocks : SimplestPattern(blocks[b]) = pattern})

SymbolsBefore(p, q) ==
  \E i \in DOMAIN p : p[i] < q[i] /\ \A j \in 1..(i - 1) : p[j] = q[j]

RankedBefore(p, q, blocks) ==
  \/ CountOf(p, blocks) > CountOf(q, blocks)
  \/ /\ CountOf(p, blocks) = CountOf(q, blocks)
     /\ \/ Rank(p) < Rank(q)
        \/ Rank(p) = Rank(q) /\ SymbolsBefore(p, q)

TrainBsel(blocks, max) ==
  LET patterns  == {SimplestPattern(blocks[b]) : b \in DOMAIN blocks}
      before(p) == {q \in patterns : RankedBefore(q, p, blocks)}
  IN  [k \in 1..Least(max, Cardinality(patterns)) |->
         CHOOSE p \in patterns : Cardinality(before(p)) = k - 1]

(* bsel_encode(): a two-byte pattern number, then a byte for every symbol  *)
(* (zero for one the pattern does not use); the first of the shortest.     *)
Matches(pattern, block) ==
  \A i, j \in DOMAIN block : pattern[i] = pattern[j] => block[i] = block[j]

Dictionary(pattern, block) ==
  [d \in 1..Rank(pattern) |->
     IF d - 1 \in Range(pattern)
       THEN block[CHOOSE i \in DOMAIN pattern : pattern[i] = d - 1] ELSE 0]

BselEncode(block, patterns) ==
  LET matching == {k \in DOMAIN patterns : Matches(patterns[k], block)}
  IN  {LittleEndian(k - 1, 2) \o Dictionary(patterns[k], block) :
         k \in {k \in matching : \A j \in matching :
                  \/ Rank(patterns[k]) < Rank(patterns[j])
                  \/ Rank(patterns[k]) = Rank(patterns[j]) /\ k <= j}}

(* bsel_stream_size() and bsel_decode(), for a stream that starts after    *)
(* the first `at` bytes.                                                   *)
BselStreams(bytes, at, patterns) ==
  {k \in DOMAIN patterns :
     /\ at + 2 <= Len(bytes)
     /\ LoadLittleEndian(SubSeq(bytes, at + 1, at + 2)) = k - 1
     /\ at + 2 + Rank(patterns[k]) <= Len(bytes)}

BselDecoded(bytes, at, pattern) ==
  [i \in DOMAIN pattern |-> bytes[at + 3 + pattern[i]]]

-----------------------------------------------------------------------------
(* split_fpc() and the sizes that follow from the tags (fpc.cpp).          *)

Tags(block) == [k \in WordIndex |-> Classify(WordsOf(block)[k])]

WholeWords(tags) == SelectSeq([k \in WordIndex |-> k], LAMBDA k : tags[k] = 7)

PackTags(tags) == Pack(FlattenSeq([k \in WordIndex |-> Bits(tags[k], 3)]))
TagBytes       == RoundedUpBytes(3 * WordCount)

UnpackTags(bytes) ==
  [k \in WordIndex |-> GetBits(Unpack(bytes), 3 * (k - 1), 3)]

Total(numbers) == FoldLeft(LAMBDA sum, n : sum + n, 0, numbers)

RegularBits(tags) ==
  [k \in WordIndex |-> IF tags[k] = 7 THEN 0 ELSE PayloadBits(tags[k])]

RegularPayload(block) ==
  LET tags == Tags(block)
  IN  Pack(FlattenSeq([k \in WordIndex |->
             IF tags[k] = 7 THEN << >> ELSE Payload(tags[k], WordsOf(block)[k])]))

RegularPayloadSize(tags) == RoundedUpBytes(Total(RegularBits(tags)))

RawResidual(block) ==
  BlockOf([k \in DOMAIN WholeWords(Tags(block)) |->
             WordsOf(block)[WholeWords(Tags(block))[k]]])

ResidualBlock(block) ==
  BlockOf([k \in WordIndex |->
             IF Tags(block)[k] = 7 THEN WordsOf(block)[k] ELSE 0])

(* join_fpc(): regular words from the payload, the others from the         *)
(* residual block.                                                         *)
JoinFpc(tags, regular, residual) ==
  LET bits == Unpack(regular)
      at(k) == Total(SubSeq(RegularBits(tags), 1, k - 1))
  IN  BlockOf([k \in WordIndex |->
        IF tags[k] = 7
          THEN WordsOf(residual)[k]
          ELSE ReadPayload(tags[k], SubSeq(bits, at(k) + 1, at(k) + PayloadBits(tags[k])))])

-----------------------------------------------------------------------------
(* encode_block() (codec.cpp): Raw = 0, Fpc = 1, FpcBsel = 2; a later form *)
(* replaces an earlier one only when it is shorter.                        *)

Matching(candidates, bytes) == candidates

Shorter(candidates, bytes) == {c \in candidates : Len(c) < Len(bytes)}

ShorterOf(candidates, bytes) ==
  IF Shorter(candidates, bytes) = {} THEN bytes ELSE CHOOSE c \in candidates : TRUE

Combined(block, model) ==
  LET tags         == Tags(block)
      prefixes     == BselEncode(tags, model.prefix)
      residuals    == BselEncode(ResidualBlock(block), model.residual)
      prefixBsel   == Shorter(prefixes, PackTags(tags)) # {}
      residualBsel == Shorter(residuals, RawResidual(block)) # {}
  IN  [mode |-> 2, prefix_bsel |-> prefixBsel, residual_bsel |-> residualBsel,
       bytes |-> <<2, (IF prefixBsel THEN 1 ELSE 0) + (IF residualBsel THEN 2 ELSE 0)>>
                   \o ShorterOf(prefixes, PackTags(tags))
                   \o RegularPayload(block)
                   \o ShorterOf(residuals, RawResidual(block))]

Plain(mode, bytes) ==
  [mode |-> mode, prefix_bsel |-> FALSE, residual_bsel |-> FALSE, bytes |-> <<mode>> \o bytes]

EncodeBlock(block, model) ==
  LET raw      == Plain(0, block)
      fpc      == Plain(1, FpcEncode(block))
      combined == Combined(block, model)
      first    == IF Len(fpc.bytes) < Len(raw.bytes) THEN fpc ELSE raw
  IN  IF Len(combined.bytes) < Len(first.bytes) THEN combined ELSE first

-----------------------------------------------------------------------------
(* decode_block(): each segment's length follows from what was decoded     *)
(* before it.                                                              *)

(* The tags and where they end.                                            *)
ReadTags(bytes, bsel, model) ==
  IF bsel
    THEN {[tags |-> BselDecoded(bytes, 2, model.prefix[k]),
           at   |-> 4 + Rank(model.prefix[k])] : k \in BselStreams(bytes, 2, model.prefix)}
    ELSE IF 2 + TagBytes > Len(bytes) THEN {}
    ELSE {[tags |-> UnpackTags(SubSeq(bytes, 3, 2 + TagBytes)), at |-> 2 + TagBytes]}

(* The residual block and where it ends.                                   *)
FromRaw(raw, tags) ==
  BlockOf([k \in WordIndex |->
    IF tags[k] = 7
      THEN WordsOf(raw)[Cardinality({j \in 1..k : tags[j] = 7})] ELSE 0])

ReadResidual(bytes, at, tags, bsel, model) ==
  LET size == 4 * Len(WholeWords(tags))
  IN  IF bsel
        THEN {[block |-> BselDecoded(bytes, at, model.residual[k]),
               at    |-> at + 2 + Rank(model.residual[k])] :
                k \in BselStreams(bytes, at, model.residual)}
        ELSE IF at + size > Len(bytes) THEN {}
        ELSE {[block |-> FromRaw(SubSeq(bytes, at + 1, at + size), tags), at |-> at + size]}

DecodeCombined(bytes, model) ==
  LET flags == bytes[2]
  IN  UNION {
        LET regularEnd == read.at + RegularPayloadSize(read.tags)
        IN  {JoinFpc(read.tags, SubSeq(bytes, read.at + 1, regularEnd), residual.block) :
               residual \in {r \in ReadResidual(bytes, regularEnd, read.tags,
                                                flags \in {2, 3}, model) :
                               regularEnd <= Len(bytes) /\ r.at = Len(bytes)}}
        : read \in {r \in ReadTags(bytes, flags \in {1, 3}, model) : Range(r.tags) \subseteq Tag}}

DecodeBlock(bytes, model) ==
  IF bytes = << >> THEN {}
  ELSE CASE bytes[1] = 0 -> IF Len(bytes) = 1 + BlockSize THEN {Tail(bytes)} ELSE {}
         [] bytes[1] = 1 -> FpcDecodeExactly(Tail(bytes), BlockSize)
         [] OTHER -> IF bytes[1] = 2 /\ Len(bytes) >= 2 /\ bytes[2] \in 0..3
                       THEN DecodeCombined(bytes, model) ELSE {}
=============================================================================
