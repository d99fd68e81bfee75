--------------------------------- MODULE Fpc ---------------------------------
(***************************************************************************)
(* Frequent Pattern Compression of 32-bit words.  The repository has it    *)
(* twice, as a baseline (src/src/baseline.cpp) and as a part of FPC-BSEL   *)
(* (src/fpc-bsel/src/fpc.cpp); the word codes are the same.                *)
(***************************************************************************)
EXTENDS BitStreams

Tag == 0..7

Repeated(byte) == byte * (1 + 2^ByteBits + 2^(2 * ByteBits) + 2^(3 * ByteBits))

LowHalf(word)  == word % 2^Half
HighHalf(word) == word \div 2^Half

(* Whether a word has the form a tag stands for; the smallest such tag is  *)
(* the word's.                                                             *)
HasForm(tag, word) ==
  CASE tag = 0 -> word = 0
    [] tag = 1 -> IsSignExtended(word, Nibble, WordWidth)
    [] tag = 2 -> word = Repeated(word % 2^ByteBits)
    [] tag = 3 -> IsSignExtended(word, ByteBits, WordWidth)
    [] tag = 4 -> IsSignExtended(word, Half, WordWidth)
    [] tag = 5 -> LowHalf(word) = 0
    [] tag = 6 -> /\ IsSignExtended(LowHalf(word), ByteBits, Half)
                  /\ IsSignExtended(HighHalf(word), ByteBits, Half)
    [] tag = 7 -> TRUE

Classify(word) == CHOOSE t \in Tag : /\ HasForm(t, word)
                                     /\ \A s \in 0..(t - 1) : ~HasForm(s, word)

PayloadBits(tag) ==
  CASE tag = 0 -> 0
    [] tag = 1 -> Nibble
    [] tag \in {2, 3} -> ByteBits
    [] tag \in {4, 5, 6} -> Half
    [] tag = 7 -> WordWidth

LowHalfOnly(tag, word) == Bits(word, PayloadBits(tag))

Payload(tag, word) ==
  CASE tag = 5 -> Bits(HighHalf(word), Half)
    [] tag = 6 -> Bits(word, ByteBits) \o Bits(HighHalf(word), ByteBits)
    [] OTHER   -> Bits(word, PayloadBits(tag))

(* The word a tag and its payload stand for.                               *)
ReadPayload(tag, bits) ==
  LET value == Number(bits)
      low   == value % 2^ByteBits
      high  == value \div 2^ByteBits
  IN  CASE tag = 0 -> 0
        [] tag = 1 -> SignExtend(value, Nibble, WordWidth)
        [] tag = 2 -> Repeated(value)
        [] tag = 3 -> SignExtend(value, ByteBits, WordWidth)
        [] tag = 4 -> SignExtend(value, Half, WordWidth)
        [] tag = 5 -> value * 2^Half
        [] tag = 6 -> SignExtend(low, ByteBits, Half)
                        + SignExtend(high, ByteBits, Half) * 2^Half
        [] tag = 7 -> value

(* fpc_encode(): every word's tag and payload, one after the other.        *)
FpcEncode(block) ==
  LET words == WordsOf(block)
  IN  Pack(FlattenSeq([k \in DOMAIN words |->
             Bits(Classify(words[k]), 3) \o Payload(Classify(words[k]), words[k])]))

(* The first words of a stream, and the bits they take; ok when there are  *)
(* that many.                                                              *)
ReadWords(bits, count) ==
  LET next(read, k) ==
        LET tag   == GetBits(bits, read.at, 3)
            after == read.at + 3 + PayloadBits(tag)
        IN  IF read.ok /\ HasBits(bits, read.at, 3) /\ after <= Len(bits)
              THEN [ok |-> TRUE, at |-> after,
                    words |-> Append(read.words,
                      ReadPayload(tag, SubSeq(bits, read.at + 4, after)))]
              ELSE [read EXCEPT !.ok = FALSE]
  IN  FoldLeftDomain(next, [ok |-> TRUE, at |-> 0, words |-> << >>],
                     [k \in 1..count |-> k])

(* The baseline's fpc_decode(): what follows the last word is not read.    *)
FpcDecode(bytes, size) ==
  LET read == ReadWords(Unpack(bytes), size \div 4)
  IN  IF read.ok THEN {BlockOf(read.words)} ELSE {}

(* FPC-BSEL's fpc_decode(): the stream has no byte more than it needs.     *)
FpcDecodeExactly(bytes, size) ==
  LET read == ReadWords(Unpack(bytes), size \div 4)
  IN  IF read.ok /\ Len(bytes) = RoundedUpBytes(read.at)
        THEN {BlockOf(read.words)} ELSE {}
=============================================================================
