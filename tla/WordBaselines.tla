---------------------------- MODULE WordBaselines ----------------------------
(***************************************************************************)
(* The baseline codecs that work on numbers of a fixed width: BDI, C-Pack  *)
(* and BPC (src/src/baseline.cpp), as functions from blocks to byte        *)
(* streams and back; a decoder gives a set, empty when it throws.          *)
(*                                                                         *)
(* Fields that the program gives 8, 16, 32 or 64 bits are 1, 2, 4 and 8    *)
(* bytes of ByteBits bits here; the fields whose width does not come from  *)
(* bytes (tags, positions, runs) keep theirs.                              *)
(***************************************************************************)
EXTENDS Fpc

CONSTANTS
  DictionaryEntries,   (* of C-Pack's dictionary, 16                       *)
  IndexBits            (* of an index into it, 4                           *)

ASSUME DictionaryAssumption ==
  DictionaryEntries \in Nat \ {0} /\ IndexBits \in Nat /\ DictionaryEntries <= 2^IndexBits

-----------------------------------------------------------------------------
(* Base-Delta-Immediate.  Code 0 is the raw block, 1 a block of zeros, 2   *)
(* one 8-byte value repeated, 3 to 8 a base and deltas of the given width. *)

BdiModes == <<<<8, 1>>, <<8, 2>>, <<8, 4>>, <<4, 1>>, <<4, 2>>, <<2, 1>>>>
BdiCodes == 0..8

ValuesForWidth(bytes, width) ==
  [k \in 1..(Len(bytes) \div width) |->
     LoadLittleEndian(SubSeq(bytes, width * (k - 1) + 1, width * k))]

DeltaRangeFits(values, deltaBytes) ==
  Max(Range(values)) - Min(Range(values)) <= 2^(ByteBits * deltaBytes) - 1

BdiApplies(block, code) ==
  CASE code = 0 -> TRUE
    [] code = 1 -> Range(block) = {0}
    [] code = 2 -> Cardinality(Range(ValuesForWidth(block, 8))) = 1
    [] OTHER    -> DeltaRangeFits(ValuesForWidth(block, BdiModes[code - 2][1]),
                                  BdiModes[code - 2][2])

BdiDeltas(block, width, deltaBytes) ==
  LET values == ValuesForWidth(block, width)
      base   == Min(Range(values))
  IN  LittleEndian(base, width)
        \o FlattenSeq([k \in DOMAIN values |-> LittleEndian(values[k] - base, deltaBytes)])

BdiStream(block, code) ==
  <<code>> \o (CASE code = 0 -> block
                 [] code = 1 -> << >>
                 [] code = 2 -> SubSeq(block, 1, 8)
                 [] OTHER    -> BdiDeltas(block, BdiModes[code - 2][1], BdiModes[code - 2][2]))

(* bdi_encode(): the shortest stream, the first of equal ones.             *)
BdiEncode(block) ==
  LET applies == {c \in BdiCodes : BdiApplies(block, c)}
  IN  BdiStream(block, CHOOSE c \in applies : \A d \in applies :
        \/ Len(BdiStream(block, c)) < Len(BdiStream(block, d))
        \/ Len(BdiStream(block, c)) = Len(BdiStream(block, d)) /\ c <= d)

BdiExpanded(bytes, width, deltaBytes) ==
  LET base   == LoadLittleEndian(SubSeq(bytes, 2, 1 + width))
      deltas == ValuesForWidth(SubSeq(bytes, 2 + width, Len(bytes)), deltaBytes)
  IN  FlattenSeq([k \in DOMAIN deltas |-> LittleEndian(base + deltas[k], width)])

BdiDecode(bytes, size) ==
  IF bytes = << >> THEN {}
  ELSE LET code == bytes[1] IN
    CASE code = 0 -> IF Len(bytes) = size + 1 THEN {Tail(bytes)} ELSE {}
      [] code = 1 -> {[i \in 1..size |-> 0]}
      [] code = 2 -> IF Len(bytes) = 9
                       THEN {[i \in 1..size |-> bytes[2 + ((i - 1) % 8)]]} ELSE {}
      [] code > 2 ->
           IF code \in BdiCodes
                /\ Len(bytes) = 1 + BdiModes[code - 2][1]
                                  + (size \div BdiModes[code - 2][1]) * BdiModes[code - 2][2]
             THEN {BdiExpanded(bytes, BdiModes[code - 2][1], BdiModes[code - 2][2])}
             ELSE {}

-----------------------------------------------------------------------------
(* C-Pack: words are compared with a FIFO dictionary of the words before,  *)
(* which encoder and decoder keep alike.                                   *)

Push(dictionary, word) ==
  Append(IF Len(dictionary) < DictionaryEntries THEN dictionary ELSE Tail(dictionary), word)

(* The bytes a word shares with an entry from its high end, 0 for one.     *)
MatchedBytes(word, entry) ==
  CASE word = entry -> 4
    [] word # entry /\ word \div 2^ByteBits = entry \div 2^ByteBits -> 3
    [] word \div 2^ByteBits # entry \div 2^ByteBits /\ HighHalf(word) = HighHalf(entry) -> 2
    [] OTHER -> 0

(* The first of the entries that match best, in two bytes at least.        *)
BestMatches(word, dictionary) ==
  {e \in DOMAIN dictionary :
     /\ MatchedBytes(word, dictionary[e]) >= 2
     /\ \A f \in DOMAIN dictionary :
          \/ MatchedBytes(word, dictionary[e]) > MatchedBytes(word, dictionary[f])
          \/ MatchedBytes(word, dictionary[e]) = MatchedBytes(word, dictionary[f]) /\ e <= f}

EntersDictionary(word) == word \div 2^ByteBits # 0

CpackCode(word, dictionary) ==
  CASE word = 0 -> Bits(0, 2)
    [] word # 0 /\ ~EntersDictionary(word) -> Bits(11, 4) \o Bits(word, ByteBits)
    [] EntersDictionary(word) /\ BestMatches(word, dictionary) = {} ->
         Bits(2, 2) \o Bits(word, WordWidth)
    [] EntersDictionary(word) /\ BestMatches(word, dictionary) # {} ->
         LET best    == CHOOSE e \in BestMatches(word, dictionary) : TRUE
             matched == MatchedBytes(word, dictionary[best])
             index   == Bits(best - 1, IndexBits)
         IN  CASE matched = 4 -> Bits(1, 2) \o index
               [] matched = 3 -> Bits(7, 4) \o index \o Bits(word, ByteBits)
               [] matched = 2 -> Bits(3, 4) \o index \o Bits(word, Half)

CpackEncode(block) ==
  LET words == WordsOf(block)
      next(state, k) ==
        [bits       |-> state.bits \o CpackCode(words[k], state.dictionary),
         dictionary |-> IF EntersDictionary(words[k])
                          THEN Push(state.dictionary, words[k]) ELSE state.dictionary]
  IN  Pack(FoldLeftDomain(next, [bits |-> << >>, dictionary |-> << >>], words).bits)

(* The next word of a stream: its low part's bits and the entry its high   *)
(* part comes from.  The word enters the decoder's dictionary unless it    *)
(* was written as zero or as one byte.                                     *)
Fields(entry, low, enters) == [entry |-> entry, low |-> low, enters |-> enters]

CpackFields(bits, at) ==
  LET first   == GetBits(bits, at, 2)
      subtype == GetBits(bits, at + 2, 2)
  IN  IF ~HasBits(bits, at, 2) THEN {}
      ELSE IF first < 3
        THEN {<<at + 2, CASE first = 0 -> Fields(FALSE, 0, FALSE)
                          [] first = 1 -> Fields(TRUE, 0, TRUE)
                          [] first = 2 -> Fields(FALSE, WordWidth, TRUE)>>}
      ELSE IF ~HasBits(bits, at + 2, 2) \/ subtype = 3 THEN {}
        ELSE {<<at + 4, CASE subtype = 0 -> Fields(TRUE, Half, TRUE)
                          [] subtype = 1 -> Fields(TRUE, ByteBits, TRUE)
                          [] subtype = 2 -> Fields(FALSE, ByteBits, FALSE)>>}

IndexField(c) == IF c[2].entry THEN IndexBits ELSE 0

CpackNext(bits, state) ==
  {[at |-> c[1] + IndexField(c) + c[2].low, enters |-> c[2].enters,
    word |-> LET low == GetBits(bits, c[1] + IndexField(c), c[2].low)
             IN  IF c[2].entry
                   THEN LET entry == state.dictionary[1 + GetBits(bits, c[1], IndexBits)]
                        IN  (entry - (entry % 2^(c[2].low))) + low
                   ELSE low] :
     c \in {c \in CpackFields(bits, state.at) :
              /\ HasBits(bits, c[1], IndexField(c) + c[2].low)
              /\ c[2].entry => GetBits(bits, c[1], IndexBits) < Len(state.dictionary)}}

CpackDecode(bytes, size) ==
  LET bits == Unpack(bytes)
      next(states, k) ==
        UNION {{[at         |-> read.at,
                 words      |-> Append(state.words, read.word),
                 dictionary |-> IF read.enters THEN Push(state.dictionary, read.word)
                                ELSE state.dictionary] :
                  read \in CpackNext(bits, state)} : state \in states}
      start == [at |-> 0, words |-> << >>, dictionary |-> << >>]
  IN  {BlockOf(s.words) : s \in FoldLeftDomain(next, {start}, [k \in 1..(size \div 4) |-> k])}

-----------------------------------------------------------------------------
(* Bit-Plane Compression: the first word, then the differences of          *)
(* neighbouring words as bit planes from the high bit down, each combined  *)
(* with the one above by exclusive or.  A plane is a sequence of bits, one *)
(* per difference.  A run of zero planes has at most WordWidth, which is   *)
(* less than the 33 that one code can count.                               *)

CeilLog2(n) == CHOOSE b \in 0..n : 2^b >= n /\ \A c \in 0..(b - 1) : 2^c < n

Xor(p, q) == [i \in DOMAIN p |-> (p[i] + q[i]) % 2]

Differences(words) ==
  [i \in 1..(Len(words) - 1) |-> (words[i + 1] - words[i]) % 2^WordWidth]

(* Counted from the high bit, as the stream has them.                      *)
Plane(differences, j) ==
  [i \in DOMAIN differences |-> (differences[i] \div 2^(WordWidth - j)) % 2]

Planes(words) ==
  [j \in 1..WordWidth |->
     IF j = 1 THEN Plane(Differences(words), 1)
     ELSE Xor(Plane(Differences(words), j), Plane(Differences(words), j - 1))]

Ones(plane)   == {i \in DOMAIN plane : plane[i] = 1}
IsZero(plane) == Ones(plane) = {}

RunAt(planes, j) ==
  Max({n \in 1..(Len(planes) - j + 1) : \A h \in j..(j + n - 1) : IsZero(planes[h])})

PlaneCode(planes, j, positionWidth) ==
  LET plane == planes[j]
      first == Min(Ones(plane))
  IN  IF IsZero(plane)
        THEN CASE j > 1 /\ IsZero(planes[j - 1]) -> << >>
               [] (j = 1 \/ ~IsZero(planes[j - 1])) /\ RunAt(planes, j) = 1 -> Bits(4, 3)
               [] OTHER -> Bits(2, 2) \o Bits(RunAt(planes, j) - 2, 5)
        ELSE CASE Ones(plane) = DOMAIN plane -> Bits(0, 5)
               [] Ones(plane) # DOMAIN plane /\ Ones(plane) = {first, first + 1} ->
                    Bits(8, 5) \o Bits(first - 1, positionWidth)
               [] Ones(plane) # DOMAIN plane /\ Ones(plane) = {first} ->
                    Bits(24, 5) \o Bits(first - 1, positionWidth)
               [] OTHER -> <<1>> \o plane

BaseCode(word) ==
  IF word = 0 THEN Bits(0, 3)
  ELSE IF IsSignExtended(word, Nibble, WordWidth) THEN Bits(4, 3) \o Bits(word, Nibble)
  ELSE IF IsSignExtended(word, ByteBits, WordWidth) THEN Bits(2, 3) \o Bits(word, ByteBits)
  ELSE IF IsSignExtended(word, Half, WordWidth) THEN Bits(6, 3) \o Bits(word, Half)
  ELSE <<1>> \o Bits(word, WordWidth)

BpcEncode(block) ==
  LET words  == WordsOf(block)
      planes == Planes(words)
  IN  Pack(BaseCode(words[1])
             \o FlattenSeq([j \in DOMAIN planes |->
                              PlaneCode(planes, j, CeilLog2(Len(words)))]))

(* The bits of the base field, and the word it stands for.                 *)
BaseWidth(bits) ==
  IF GetBits(bits, 0, 1) = 1 THEN WordWidth
  ELSE CASE GetBits(bits, 1, 2) = 0 -> 0
         [] GetBits(bits, 1, 2) = 1 -> ByteBits
         [] GetBits(bits, 1, 2) = 2 -> Nibble
         [] GetBits(bits, 1, 2) = 3 -> Half

ReadBase(bits) ==
  LET width == BaseWidth(bits)
      at    == IF width = WordWidth THEN 1 ELSE 3
  IN  IF ~HasBits(bits, 0, 3) \/ ~HasBits(bits, at, width) THEN {}
      ELSE {[at   |-> at + width,
             base |-> IF width = 0 THEN 0
                      ELSE SignExtend(GetBits(bits, at, width), width, WordWidth),
             planes |-> << >>]}

(* One code of the loop that fills the planes: the planes it adds and      *)
(* where it ends, none when the reader or a check throws.                  *)
Starts(bits, at, code) ==
  HasBits(bits, at, Len(code)) /\ SubSeq(bits, at + 1, at + Len(code)) = code

ReadPlanes(bits, at, width, positionWidth) ==
  LET zeros(n) == [k \in 1..n |-> [i \in 1..width |-> 0]]
      ones(n)  ==
        {[at |-> at + 5 + positionWidth,
          planes |-> <<[i \in 1..width |-> IF i \in first..(first + n - 1) THEN 1 ELSE 0]>>] :
           first \in {f \in 1..width : /\ HasBits(bits, at + 5, positionWidth)
                                       /\ GetBits(bits, at + 5, positionWidth) = f - 1}}
  IN  CASE Starts(bits, at, <<1>>) ->
             IF HasBits(bits, at + 1, width)
               THEN {[at |-> at + 1 + width,
                      planes |-> <<SubSeq(bits, at + 2, at + 1 + width)>>]} ELSE {}
        [] Starts(bits, at, <<0, 1>>) ->
             IF HasBits(bits, at + 2, 5)
               THEN {[at |-> at + 7, planes |-> zeros(2 + GetBits(bits, at + 2, 5))]} ELSE {}
        [] Starts(bits, at, <<0, 0, 1>>) -> {[at |-> at + 3, planes |-> zeros(1)]}
        [] Starts(bits, at, <<0, 0, 0, 0, 0>>) ->
             {[at |-> at + 5, planes |-> <<[i \in 1..width |-> 1]>>]}
        [] Starts(bits, at, <<0, 0, 0, 1, 0>>) -> ones(2)
        [] Starts(bits, at, <<0, 0, 0, 1, 1>>) -> ones(1)
        [] OTHER -> {}

(* Each plane from the one above, then each word from the one before.      *)
FromPlanes(base, planes) ==
  LET plane[j \in 1..WordWidth] ==
        IF j = 1 THEN planes[1] ELSE Xor(planes[j], plane[j - 1])
      difference(i) == Number([b \in 1..WordWidth |-> plane[WordWidth + 1 - b][i]])
      word[k \in 1..(Len(planes[1]) + 1)] ==
        IF k = 1 THEN base ELSE (word[k - 1] + difference(k - 1)) % 2^WordWidth
  IN  BlockOf([k \in DOMAIN word |-> word[k]])

(* bpc_decode(): a code adds a plane at least, so WordWidth steps suffice. *)
BpcDecode(bytes, size) ==
  LET bits  == Unpack(bytes)
      words == size \div 4
      next(states, k) ==
        UNION {IF Len(state.planes) = WordWidth THEN {state}
               ELSE {[state EXCEPT !.at = c.at, !.planes = @ \o c.planes] :
                       c \in {c \in ReadPlanes(bits, state.at, words - 1, CeilLog2(words)) :
                                Len(state.planes) + Len(c.planes) <= WordWidth}}
               : state \in states}
  IN  {FromPlanes(s.base, s.planes) :
         s \in FoldLeftDomain(next, ReadBase(bits), [k \in 1..WordWidth |-> k])}
=============================================================================
