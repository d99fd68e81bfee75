---------------------------- MODULE ByteBaselines ----------------------------
(***************************************************************************)
(* The baseline codecs that work on bytes: LZ77-lite and Huffman           *)
(* (src/src/baseline.cpp).                                                 *)
(***************************************************************************)
EXTENDS BitStreams

-----------------------------------------------------------------------------
(* LZ77-lite: literals and matches with earlier bytes, a byte of flags     *)
(* before as many of them as it has bits.  Offsets and lengths fill a byte.*)

Window   == 2^ByteBits - 1
MinMatch == 3

(* find_lz_match(): the first of the longest matches; positions count from *)
(* zero.                                                                   *)
MatchLength(block, candidate, position) ==
  Max({n \in 0..Least(Window, Len(block) - position) :
         \A i \in 1..n : block[candidate + i] = block[position + i]})

LongestMatches(block, position) ==
  LET candidates == {c \in 0..(position - 1) : position - c <= Window}
  IN  {c \in candidates : \A d \in candidates :
         \/ MatchLength(block, c, position) > MatchLength(block, d, position)
         \/ MatchLength(block, c, position) = MatchLength(block, d, position) /\ c <= d}

(* The tokens from a position on: whether a match, its bytes, its length.  *)
Token(block, position) ==
  LET matches == {c \in LongestMatches(block, position) :
                    MatchLength(block, c, position) >= MinMatch}
  IN  IF matches = {}
        THEN [match |-> 0, bytes |-> <<block[position + 1]>>, length |-> 1]
        ELSE LET c      == CHOOSE c \in matches : TRUE
                 length == MatchLength(block, c, position)
             IN  [match |-> 1, bytes |-> <<position - c, length>>, length |-> length]

Tokens(block) ==
  LET from[position \in 0..Len(block)] ==
        IF position = Len(block) THEN << >>
        ELSE LET token == Token(block, position)
             IN  <<token>> \o from[position + token.length]
  IN  from[0]

LzEncode(block) ==
  LET tokens   == Tokens(block)
      group(g) == SubSeq(tokens, ByteBits * (g - 1) + 1, Least(ByteBits * g, Len(tokens)))
  IN  FlattenSeq([g \in 1..RoundedUpBytes(Len(tokens)) |->
        <<Number([t \in DOMAIN group(g) |-> group(g)[t].match])>>
          \o FlattenSeq([t \in DOMAIN group(g) |-> group(g)[t].bytes])])

(* Copying byte by byte: a match may reach into the bytes it writes.       *)
CopyAtOnce(output, offset, length) ==
  output \o [i \in 1..length |->
               IF Len(output) - offset + i <= Len(output)
                 THEN output[Len(output) - offset + i] ELSE 0]

Copy(output, offset, length) ==
  FoldLeft(LAMBDA out, i : Append(out, out[Len(out) - offset + 1]),
           output, [i \in 1..length |-> i])

(* One token of the decoder, which has read `at` bytes, with the flags     *)
(* still to use; none when it throws.                                      *)
LzToken(bytes, size, state) ==
  LET at    == state.at + IF state.flags = << >> THEN 1 ELSE 0
      flags == IF state.flags = << >> THEN Bits(bytes[at], ByteBits) ELSE state.flags
      after(n, output) == [at |-> at + n, flags |-> Tail(flags), output |-> output]
  IN  IF at > Len(bytes) THEN {}
      ELSE IF flags[1] = 0
        THEN IF at + 1 > Len(bytes) THEN {}
             ELSE {after(1, Append(state.output, bytes[at + 1]))}
        ELSE IF \/ at + 2 > Len(bytes)
                \/ bytes[at + 1] \notin 1..Len(state.output)
                \/ bytes[at + 2] < MinMatch
                \/ Len(state.output) + bytes[at + 2] > size
             THEN {}
             ELSE {after(2, Copy(state.output, bytes[at + 1], bytes[at + 2]))}

LzDecode(bytes, size) ==
  LET next(states, k) ==
        UNION {IF Len(state.output) = size THEN {state} ELSE LzToken(bytes, size, state)
                 : state \in states}
      start == [at |-> 0, flags |-> << >>, output |-> << >>]
  IN  {s.output : s \in FoldLeftDomain(next, {start}, [k \in 1..size |-> k])}

-----------------------------------------------------------------------------
(* Huffman with canonical codes: a table of the code lengths, then the     *)
(* codes, each from its high bit.                                          *)

Occurrences(block, symbol) == Cardinality({i \in DOMAIN block : block[i] = symbol})

(* Nodes leave the heap by frequency, then by number.                      *)
LeavesLater(n, m) ==
  n.frequency > m.frequency \/ (n.frequency = m.frequency /\ n.number < m.number)

LeavesBefore(n, m) ==
  n.frequency < m.frequency \/ (n.frequency = m.frequency /\ n.number < m.number)

Top(heap) == CHOOSE n \in heap : \A m \in heap \ {n} : LeavesBefore(n, m)

(* The nodes are numbered as they are made, the symbols' first.            *)
Leaves(block) ==
  {[frequency |-> Occurrences(block, s), symbols |-> {s},
    number |-> Cardinality({r \in Range(block) : r < s})] : s \in Range(block)}

(* huffman_code_lengths(): a symbol's depth is the number of merges it     *)
(* takes part in.                                                          *)
CodeLengths(block) ==
  LET symbols == Range(block)
      merge(state, k) ==
        LET left   == Top(state.heap)
            right  == Top(state.heap \ {left})
            merged == left.symbols \cup right.symbols
        IN  [heap  |-> (state.heap \ {left, right})
                         \cup {[frequency |-> left.frequency + right.frequency,
                                symbols   |-> merged,
                                number    |-> Cardinality(symbols) + k - 1]},
             depth |-> [s \in symbols |-> state.depth[s] + (IF s \in merged THEN 1 ELSE 0)]]
      start == [heap |-> Leaves(block), depth |-> [s \in symbols |-> 0]]
  IN  IF Cardinality(symbols) = 1
        THEN [s \in symbols |-> 1]
        ELSE FoldLeftDomain(merge, start, [k \in 1..(Cardinality(symbols) - 1) |-> k]).depth

(* canonical_huffman_codes(): codes count up by length, then by symbol,    *)
(* and are shifted whenever the length grows.                              *)
CodeOf(symbol, lengths) ==
  LET before == {t \in DOMAIN lengths :
                   \/ lengths[t] < lengths[symbol]
                   \/ lengths[t] = lengths[symbol] /\ t < symbol}
      code   == MapThenSumSet(LAMBDA t : 2^(lengths[symbol] - lengths[t]), before)
      length == lengths[symbol]
  IN  [i \in 1..length |-> (code \div 2^(length - i)) % 2]

HuffmanEncode(block) ==
  LET lengths == CodeLengths(block)
      symbols == [k \in 1..Cardinality(DOMAIN lengths) |->
                    CHOOSE s \in DOMAIN lengths :
                      Cardinality({r \in DOMAIN lengths : r < s}) = k - 1]
  IN  LittleEndian(Len(symbols), 2)
        \o FlattenSeq([k \in DOMAIN symbols |-> <<symbols[k], lengths[symbols[k]]>>])
        \o Pack(FlattenSeq([i \in DOMAIN block |-> CodeOf(block[i], lengths)]))

(* The table of a stream, none when its header is refused.                 *)
HuffmanTable(bytes) ==
  LET count == LoadLittleEndian(SubSeq(bytes, 1, 2))
      symbol(k) == bytes[2 * k + 1]
      length(k) == bytes[2 * k + 2]
  IN  IF \/ Len(bytes) < 2
         \/ count \notin 1..2^ByteBits
         \/ Len(bytes) < 2 + 2 * count
         \/ \E k \in 1..count : \/ length(k) = 0
                                \/ \E h \in 1..(k - 1) : symbol(h) = symbol(k)
        THEN {}
        ELSE {[s \in {symbol(k) : k \in 1..count} |->
                 length(CHOOSE k \in 1..count : symbol(k) = s)]}

HuffmanDecode(bytes, size) ==
  UNION {LET bits  == Unpack(SubSeq(bytes, 3 + 2 * Cardinality(DOMAIN lengths), Len(bytes)))
             codes == [s \in DOMAIN lengths |-> CodeOf(s, lengths)]
             found(at)  == {s \in DOMAIN lengths :
                              /\ HasBits(bits, at, lengths[s])
                              /\ SubSeq(bits, at + 1, at + lengths[s]) = codes[s]}
             next(states, k) ==
               UNION {{[at |-> state.at + lengths[s], output |-> Append(state.output, s)] :
                         s \in {s \in found(state.at) :
                                  \A t \in found(state.at) : lengths[s] <= lengths[t]}}
                      : state \in states}
         IN  {s.output : s \in FoldLeftDomain(next, {[at |-> 0, output |-> << >>]},
                                              [k \in 1..size |-> k])}
         : lengths \in HuffmanTable(bytes)}
=============================================================================
