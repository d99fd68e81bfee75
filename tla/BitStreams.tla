----------------------------- MODULE BitStreams -----------------------------
(***************************************************************************)
(* Bytes, little-endian numbers and bit streams, as the two FPC codecs and *)
(* the baselines use them (src/src/baseline.cpp, src/fpc-bsel/src/fpc.cpp).*)
(* The low bit comes first.  ByteBits is 8 in the program; a word is four  *)
(* bytes, and what the program calls 4, 8, 16 and 32 bits is half a byte,  *)
(* a byte, two bytes and a word.                                           *)
(***************************************************************************)
EXTENDS Integers, Sequences, SequencesExt

CONSTANT ByteBits

ASSUME ByteBitsAssumption == ByteBits \in Nat \ {0} /\ ByteBits % 2 = 0

Nibble    == ByteBits \div 2
Half      == 2 * ByteBits
WordWidth == 4 * ByteBits

Byte == 0..(2^ByteBits - 1)

(* A value as the bytes or bits that hold its low part, and back.          *)
LittleEndian(value, n) == [i \in 1..n |-> (value \div 2^(ByteBits * (i - 1))) % 2^ByteBits]
LoadLittleEndian(bytes) == FoldRight(LAMBDA b, rest : b + 2^ByteBits * rest, bytes, 0)

Bits(value, n) == [i \in 1..n |-> (value \div 2^(i - 1)) % 2]
Number(bits)   == FoldRight(LAMBDA b, rest : b + 2 * rest, bits, 0)

(* The 4-byte words of a block, and the block of words.                    *)
WordsOf(block) ==
  [k \in 1..(Len(block) \div 4) |-> LoadLittleEndian(SubSeq(block, 4 * k - 3, 4 * k))]
BlockOf(words) == FlattenSeq([k \in DOMAIN words |-> LittleEndian(words[k], 4)])

(* BitWriter: the last byte is filled up with zero bits.                   *)
RoundedUpBytes(bits) == (bits + ByteBits - 1) \div ByteBits

Least(a, b) == IF a <= b THEN a ELSE b

Pack(bits) ==
  [k \in 1..RoundedUpBytes(Len(bits)) |->
     Number(SubSeq(bits, ByteBits * (k - 1) + 1, Least(ByteBits * k, Len(bits))))]

Unpack(bytes) ==
  [i \in 1..(ByteBits * Len(bytes)) |->
     (bytes[(i - 1) \div ByteBits + 1] \div 2^((i - 1) % ByteBits)) % 2]

(* BitReader: n bits after the first `at`; it throws past the end.         *)
HasBits(bits, at, n) == at + n <= Len(bits)
GetBits(bits, at, n) == Number(SubSeq(bits, at + 1, at + n))

(* Two's complement: the value of width bits with the same number as its   *)
(* n low bits, and whether a value is one.                                 *)
SignExtend(low, n, width) ==
  IF low < 2^(n - 1) THEN low ELSE low + 2^width - 2^n

IsSignExtended(value, n, width) == value = SignExtend(value % 2^n, n, width)
=============================================================================
