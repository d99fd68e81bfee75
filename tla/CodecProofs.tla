----------------------------- MODULE CodecProofs -----------------------------
(***************************************************************************)
(* Sessions of the codec, the circuits generated for a model, and the      *)
(* containers of compressed blocks, for every block size, alphabet, width  *)
(* of bytes and words, and model.                                          *)
(***************************************************************************)
EXTENDS Hardware, Container, PatternTheorems, SequenceTheorems

-----------------------------------------------------------------------------
(* Powers of two                                                            *)

LEMMA PowersMultiply ==
  ASSUME NEW m \in Nat, NEW n \in Nat
  PROVE  2^(m + n) = 2^m * 2^n
<1> DEFINE Bad == {k \in Nat : 2^(m + k) # 2^m * 2^k}
<1>1. ASSUME Bad # {}
      PROVE  FALSE
  <2>1. PICK k \in Bad : \A j \in Bad : k <= j
    BY <1>1, LeastNatural
  <2>2. 2^m \in Nat
    BY PowerOfTwo
  <2>3. k # 0
    <3>1. m + 0 = m /\ 2^m * 1 = 2^m
      BY <2>2
    <3>2. 2^(m + 0) = 2^m * 2^0
      BY <3>1, ZerothPower
    <3> QED
      BY <2>1, <3>2
  <2>4. k - 1 \in Nat /\ k - 1 \notin Bad /\ (k - 1) + 1 = k /\ m + (k - 1) \in Nat
        /\ (m + (k - 1)) + 1 = m + k
    BY <2>1, <2>3
  <2>5. 2^(m + (k - 1)) = 2^m * 2^(k - 1)
    BY <2>4
  <2>6. 2^k = 2 * 2^(k - 1) /\ 2^(k - 1) \in Nat
    BY <2>4, PowerOfTwo
  <2>7. 2^(m + k) = 2 * 2^(m + (k - 1))
    BY <2>4, PowerOfTwo
  <2>8. \A a, b \in Nat : a * (2 * b) = 2 * (a * b)
    OBVIOUS
  <2> QED
    BY <2>1, <2>2, <2>5, <2>6, <2>7, <2>8
<1> QED
  BY <1>1

LEMMA PowersGrow ==
  ASSUME NEW m \in Nat, NEW n \in Nat, m <= n
  PROVE  2^m <= 2^n
<1>1. n - m \in Nat /\ m + (n - m) = n
  OBVIOUS
<1>2. 2^n = 2^m * 2^(n - m) /\ 2^m \in Nat /\ 2^(n - m) \in Nat \ {0}
  BY <1>1, PowersMultiply, PowerOfTwo
<1>3. \A a \in Nat, b \in Nat \ {0} : a <= a * b
  OBVIOUS
<1> QED
  BY <1>2, <1>3
-----------------------------------------------------------------------------
(* Facts about a model that validate_model accepted.                       *)
WellFormed(m) ==
  /\ m \in Seq(PatternSets)
  /\ ValidModel(m)

LEMMA SetFields ==
  ASSUME NEW set \in PatternSets
  PROVE  /\ set.target_size \in Nat /\ set.metadata_bytes \in Nat /\ set.tag_bits \in Nat
         /\ set.tag_value \in Nat /\ set.tag_value < 2^WordBits
         /\ set.patterns \in Seq({p \in [Pos -> Symbol] : IsCanonical(p)})
         /\ Len(set.patterns) \in Nat /\ Len(set.patterns) < 2^WordBits
<1>1. \A x \in Size : x \in Nat /\ x < 2^WordBits
  BY PowerOfTwo, BitsAssumption DEF Size
<1> QED
  BY <1>1 DEF PatternSets

LEMMA WellFormedSet ==
  ASSUME NEW m, WellFormed(m), NEW s \in 1..Len(m)
  PROVE  /\ m[s] \in PatternSets
         /\ m[s].target_size \in Nat /\ m[s].metadata_bytes \in Nat
         /\ m[s].target_size < BlockSize
         /\ DictionarySize(m[s]) \in Nat
         /\ m[s].target_size = m[s].metadata_bytes + DictionarySize(m[s])
         /\ \A k \in 1..Len(m[s].patterns) :
              /\ m[s].patterns[k] \in [Pos -> Symbol]
              /\ IsCanonical(m[s].patterns[k])
              /\ Rank(m[s].patterns[k]) <= DictionarySize(m[s])
<1>1. m[s] \in PatternSets /\ ValidSet(m[s])
  BY ElementOfSeq DEF WellFormed, ValidModel
<1>2. /\ m[s].target_size \in Nat /\ m[s].metadata_bytes \in Nat
      /\ m[s].patterns \in Seq({p \in [Pos -> Symbol] : IsCanonical(p)})
      /\ m[s].metadata_bytes < m[s].target_size
      /\ m[s].target_size < BlockSize
  BY <1>1, SetFields DEF ValidSet
<1>3. \A k \in 1..Len(m[s].patterns) :
        m[s].patterns[k] \in [Pos -> Symbol] /\ IsCanonical(m[s].patterns[k])
  BY <1>2, ElementOfSeq
<1> QED
  BY <1>1, <1>2, <1>3 DEF ValidSet, DictionarySize

-----------------------------------------------------------------------------
(* The choice compress() makes                                             *)

(* Among the patterns that describe a block one is tried before all others. *)
LEMMA FirstDescribingExists ==
  ASSUME NEW b, NEW m, WellFormed(m), Describing(b, m) # {}
  PROVE  /\ FirstDescribing(b, m) \in Describing(b, m)
         /\ \A d \in Describing(b, m) \ {FirstDescribing(b, m)} :
              TriedBefore(FirstDescribing(b, m), d, m)
<1> DEFINE D == Describing(b, m)
           Targets == {m[c[1]].target_size : c \in D}
<1>1. \A c \in D : /\ c = <<c[1], c[2]>> /\ c[1] \in 1..Len(m) /\ c[1] \in Nat
                   /\ c[2] \in Nat /\ m[c[1]].target_size \in Nat
  <2> TAKE c \in D
  <2>1. PICK s \in 1..Len(m) : \E k \in 1..Len(m[s].patterns) : c = <<s, k>>
    BY DEF Describing
  <2>2. PICK k \in 1..Len(m[s].patterns) : c = <<s, k>>
    BY <2>1
  <2>3. Len(m) \in Nat /\ m[s].target_size \in Nat /\ m[s].patterns \in Seq([Pos -> Symbol])
    <3>1. m[s].patterns \in Seq({p \in [Pos -> Symbol] : IsCanonical(p)})
      BY WellFormedSet, SetFields
    <3> QED
      BY <3>1, WellFormedSet, LenProperties, SeqMonotonic DEF WellFormed
  <2>4. Len(m[s].patterns) \in Nat
    BY <2>3, LenProperties
  <2> QED
    BY <2>1, <2>2, <2>3, <2>4
<1>2. Targets \in SUBSET Nat /\ Targets # {}
  BY <1>1
<1>3. PICK t \in Targets : \A u \in Targets : t <= u
  BY <1>2, LeastNatural
<1> DEFINE Sets1 == {c[1] : c \in {d \in D : m[d[1]].target_size = t}}
<1>4. Sets1 \in SUBSET Nat /\ Sets1 # {}
  BY <1>1, <1>3
<1>5. PICK s \in Sets1 : \A r \in Sets1 : s <= r
  BY <1>4, LeastNatural
<1> DEFINE Indices == {c[2] : c \in {d \in D : d[1] = s}}
<1>6. Indices \in SUBSET Nat /\ Indices # {}
  BY <1>1, <1>5
<1>7. PICK k \in Indices : \A r \in Indices : k <= r
  BY <1>6, LeastNatural
<1>8. <<s, k>> \in D /\ m[s].target_size = t /\ s \in Nat /\ k \in Nat /\ t \in Nat
  BY <1>1, <1>2, <1>3, <1>4, <1>5, <1>7
<1>9. ASSUME NEW d \in D \ {<<s, k>>} PROVE TriedBefore(<<s, k>>, d, m)
  <2>1. t <= m[d[1]].target_size /\ m[d[1]].target_size \in Nat
    BY <1>1, <1>3
  <2>2. CASE t < m[d[1]].target_size
    BY <1>8, <2>2 DEF TriedBefore
  <2>3. CASE t = m[d[1]].target_size /\ d[1] # s
    <3>1. s <= d[1] /\ d[1] \in Nat
      BY <1>1, <1>5, <2>3
    <3> QED
      BY <1>8, <2>3, <3>1 DEF TriedBefore
  <2>4. CASE d[1] = s
    <3>1. k <= d[2] /\ d[2] \in Nat /\ d[2] # k
      BY <1>1, <1>7, <2>4
    <3> QED
      BY <1>8, <2>4, <3>1 DEF TriedBefore
  <2> QED
    BY <1>8, <2>1, <2>2, <2>3, <2>4
<1> QED
  BY <1>8, <1>9 DEF FirstDescribing

(* What compress() returns for a block some pattern describes.             *)
LEMMA CompressChooses ==
  ASSUME NEW b, NEW m, WellFormed(m), Describing(b, m) # {}
  PROVE  \E s \in 1..Len(m) : \E k \in 1..Len(m[s].patterns) :
           /\ Describes(m[s].patterns[k], b)
           /\ Compress(b, m) = CompressedBlock(b, m, s, k)
           /\ \A t \in 1..Len(m) : \A l \in 1..Len(m[t].patterns) :
                Describes(m[t].patterns[l], b)
                  => m[s].target_size <= m[t].target_size
<1> DEFINE c == FirstDescribing(b, m)
<1>1. /\ c \in Describing(b, m)
      /\ \A d \in Describing(b, m) \ {c} : TriedBefore(c, d, m)
  BY FirstDescribingExists
<1>2. PICK s \in 1..Len(m) : \E k \in 1..Len(m[s].patterns) :
        c = <<s, k>> /\ Describes(m[s].patterns[k], b)
  BY <1>1 DEF Describing
<1>3. PICK k \in 1..Len(m[s].patterns) :
        c = <<s, k>> /\ Describes(m[s].patterns[k], b)
  BY <1>2
<1>4. ASSUME NEW t \in 1..Len(m), NEW l \in 1..Len(m[t].patterns),
             Describes(m[t].patterns[l], b)
      PROVE  m[s].target_size <= m[t].target_size
  <2>0. m[s].target_size \in Nat /\ m[t].target_size \in Nat
    BY WellFormedSet
  <2>1. <<t, l>> \in Describing(b, m)
    BY SMTT(30), <1>4, WellFormedSet DEF Describing
  <2>2. CASE <<t, l>> = c
    BY <1>3, <2>0, <2>2
  <2>3. CASE <<t, l>> # c
    <3>1. TriedBefore(<<s, k>>, <<t, l>>, m)
      BY <1>1, <1>3, <2>1, <2>3
    <3> QED
      BY <2>0, <3>1 DEF TriedBefore
  <2> QED
    BY <2>2, <2>3
<1>5. Compress(b, m) = CompressedBlock(b, m, s, k)
  BY <1>3 DEF Compress
<1> QED
  BY <1>3, <1>4, <1>5

(* The dictionary holds at each symbol the byte of all its positions.      *)
LEMMA DictionaryGivesBytes ==
  ASSUME NEW set, NEW p \in [Pos -> Symbol], NEW b, Describes(p, b),
         DictionarySize(set) \in Nat, Rank(p) <= DictionarySize(set), NEW i \in Pos
  PROVE  /\ p[i] + 1 \in 1..DictionarySize(set)
         /\ Dictionary(b, set, p)[p[i] + 1] = b[i]
<1>1. p[i] \in Nat /\ p[i] < Rank(p) /\ Rank(p) \in Nat
  BY RankExceedsSymbols, SymbolLimitAssumption DEF Symbol
<1>2. p[i] + 1 \in 1..DictionarySize(set) /\ (p[i] + 1) - 1 = p[i]
  BY <1>1
<1>3. PICK a \in FirstPositions(p) : p[a] = p[i]
  BY FirstPositionExists
<1>4. a \in Pos /\ \A h \in 1..(a - 1) : p[h] # p[i]
  BY <1>3 DEF FirstPositions
<1> DEFINE w == CHOOSE j \in Pos : /\ p[j] = (p[i] + 1) - 1
                                   /\ \A h \in 1..(j - 1) : p[h] # (p[i] + 1) - 1
<1>5. w \in Pos /\ p[w] = p[i]
  BY <1>2, <1>3, <1>4
<1>6. Dictionary(b, set, p)[p[i] + 1] = b[w]
  BY <1>2 DEF Dictionary
<1>7. b[w] = b[i]
  BY <1>5 DEF Describes
<1> QED
  BY <1>2, <1>6, <1>7

(* decompress() gives back what compress() was given.                      *)
LEMMA DecompressInverts ==
  ASSUME NEW b \in Block, NEW m, WellFormed(m)
  PROVE  Decompress(Compress(b, m), m) = {b}
<1>1. CASE Describing(b, m) = {}
  BY <1>1 DEF Decompress, Compress, RawBlock
<1>2. CASE Describing(b, m) # {}
  <2>0. PICK s \in 1..Len(m) : \E k \in 1..Len(m[s].patterns) :
          /\ Describes(m[s].patterns[k], b)
          /\ Compress(b, m) = CompressedBlock(b, m, s, k)
    BY <1>2, CompressChooses
  <2>1. PICK k \in 1..Len(m[s].patterns) :
          /\ Describes(m[s].patterns[k], b)
          /\ Compress(b, m) = CompressedBlock(b, m, s, k)
    BY <2>0
  <2> DEFINE p   == m[s].patterns[k]
             set == m[s]
             e   == Compress(b, m)
  <2>2. /\ p \in [Pos -> Symbol] /\ Rank(p) <= DictionarySize(set)
        /\ DictionarySize(set) \in Nat
    BY WellFormedSet
  <2>3. /\ e.compressed /\ e.set_index = s /\ e.pattern_index = k - 1
        /\ e.metadata = EncodePatternMetadata(m[s], k - 1)
        /\ e.dictionary = Dictionary(b, set, p)
    BY <2>1 DEF CompressedBlock
  <2>4. k \in Nat /\ k <= Len(m[s].patterns) /\ (k - 1) + 1 = k /\ Len(m[s].patterns) \in Nat
    <3>1. m[s].patterns \in Seq({q \in [Pos -> Symbol] : IsCanonical(q)})
      BY WellFormedSet, SetFields
    <3>2. Len(m[s].patterns) \in Nat
      BY <3>1, LenProperties
    <3> QED
      BY <3>2
  <2>5. Len(Dictionary(b, set, p)) = DictionarySize(set)
    BY <2>2 DEF Dictionary
  <2>6. Consistent(e, m)
    BY <2>3, <2>4, <2>5 DEF Consistent
  <2>7. Expanded(e, m) = [i \in Pos |-> Dictionary(b, set, p)[p[i] + 1]]
    BY <2>3, <2>4 DEF Expanded
  <2>8. \A i \in Pos : Dictionary(b, set, p)[p[i] + 1] = b[i]
    BY <2>1, <2>2, DictionaryGivesBytes
  <2>9. Expanded(e, m) = b
    BY <2>7, <2>8 DEF Block
  <2> QED
    BY <2>3, <2>6, <2>9 DEF Decompress
<1> QED
  BY <1>1, <1>2

-----------------------------------------------------------------------------
(* Sessions                                                                *)

(* The session's model was accepted, and `encoded` is what compress()      *)
(* makes of the last block.                                                *)
SessionInv ==
  /\ model \in Models
  /\ status = "open" => ValidModel(model)
  /\ block \in Block
  /\ encoded # {} => status = "open" /\ encoded = {Compress(block, model)}

LEMMA SessionInvHolds == Spec => []SessionInv
<1>1. Init => SessionInv
  BY ByteAssumption DEF Init, SessionInv, Block
<1>2. SessionInv /\ [Next]_vars => SessionInv'
  <2> SUFFICES ASSUME SessionInv, [Next]_vars PROVE SessionInv'
    OBVIOUS
  <2>1. CASE Open
    BY <2>1 DEF Open, SessionInv
  <2>2. ASSUME NEW b \in Block, CompressBlock(b) PROVE SessionInv'
    BY <2>2 DEF CompressBlock, SessionInv
  <2>3. CASE UNCHANGED vars
    BY <2>3 DEF vars, SessionInv
  <2> QED
    BY <2>1, <2>2, <2>3 DEF Next
<1> QED
  BY <1>1, <1>2, PTL DEF Spec

LEMMA SessionModelWellFormed ==
  ASSUME SessionInv, status = "open"
  PROVE  WellFormed(model)
BY ModelsAssumption DEF SessionInv, WellFormed

(* Every block compressed with an accepted model is given back byte for    *)
(* byte, whatever the widths of blocks, metadata and counters.             *)
THEOREM RoundTripHolds == Spec => []RoundTrip
<1>1. SessionInv => RoundTrip
  BY SessionModelWellFormed, DecompressInverts DEF SessionInv, RoundTrip
<1> QED
  BY <1>1, SessionInvHolds, PTL

(* Compress takes the smallest target that any pattern allows, and fills   *)
(* it exactly.                                                             *)
THEOREM SmallestTargetTaken == Spec => []SmallestTarget
<1>1. SessionInv => SmallestTarget
  <2> SUFFICES ASSUME SessionInv, NEW e \in encoded
               PROVE  /\ \A s \in Sets : \A k \in 1..Len(model[s].patterns) :
                           Describes(model[s].patterns[k], block)
                             => e.compressed /\ e.allocated_size <= model[s].target_size
                      /\ e.compressed =>
                           /\ e.encoded_size <= e.allocated_size
                           /\ model[e.set_index].metadata_bytes + Len(e.dictionary)
                                = e.allocated_size
    BY DEF SmallestTarget
  <2>1. WellFormed(model) /\ e = Compress(block, model)
    BY SessionModelWellFormed DEF SessionInv
  <2>2. CASE Describing(block, model) = {}
    <3>1. ~e.compressed
      BY <2>1, <2>2 DEF Compress, RawBlock
    <3>2. \A s \in Sets : \A k \in 1..Len(model[s].patterns) :
            ~Describes(model[s].patterns[k], block)
      <4> SUFFICES ASSUME NEW s \in 1..Len(model), NEW k \in 1..Len(model[s].patterns),
                          Describes(model[s].patterns[k], block)
                   PROVE  FALSE
        BY DEF Sets
      <4>1. Rank(model[s].patterns[k]) <= DictionarySize(model[s])
        BY <2>1, WellFormedSet
      <4>2. <<s, k>> \in Describing(block, model)
        BY <4>1 DEF Describing
      <4> QED
        BY <2>2, <4>2
    <3> QED
      BY <3>1, <3>2
  <2>3. CASE Describing(block, model) # {}
    <3>1. PICK s \in 1..Len(model) : \E k \in 1..Len(model[s].patterns) :
            /\ e = CompressedBlock(block, model, s, k)
            /\ \A t \in 1..Len(model) : \A l \in 1..Len(model[t].patterns) :
                 Describes(model[t].patterns[l], block)
                   => model[s].target_size <= model[t].target_size
      BY <2>1, <2>3, CompressChooses
    <3>2. PICK k \in 1..Len(model[s].patterns) :
            /\ e = CompressedBlock(block, model, s, k)
            /\ \A t \in 1..Len(model) : \A l \in 1..Len(model[t].patterns) :
                 Describes(model[t].patterns[l], block)
                   => model[s].target_size <= model[t].target_size
      BY <3>1
    <3>3. /\ DictionarySize(model[s]) \in Nat /\ model[s].metadata_bytes \in Nat
          /\ model[s].target_size = model[s].metadata_bytes + DictionarySize(model[s])
          /\ Rank(model[s].patterns[k]) <= DictionarySize(model[s])
          /\ Rank(model[s].patterns[k]) \in 1..SymbolLimit
      BY <2>1, WellFormedSet, RankExceedsSymbols
    <3>4. /\ e.compressed /\ e.set_index = s /\ e.allocated_size = model[s].target_size
          /\ e.encoded_size = model[s].metadata_bytes + Rank(model[s].patterns[k])
          /\ e.dictionary = Dictionary(block, model[s], model[s].patterns[k])
      BY <3>2 DEF CompressedBlock
    <3>5. Len(e.dictionary) = DictionarySize(model[s])
      BY <3>3, <3>4 DEF Dictionary
    <3>6. e.encoded_size <= e.allocated_size
      BY <3>3, <3>4, SymbolLimitAssumption
    <3> QED
      BY <3>2, <3>3, <3>4, <3>5, <3>6 DEF Sets
  <2> QED
    BY <2>2, <2>3
<1> QED
  BY <1>1, SessionInvHolds, PTL

-----------------------------------------------------------------------------
(* The upper bound                                                         *)

IdealIsCheap == \A s \in Sets : IdealMetadata <= model[s].metadata_bytes

UpperInv ==
  /\ totals.encoded_bytes \in Nat /\ totals.allocated_bytes \in Nat
  /\ upper.unique_with_metadata_bytes \in Nat /\ upper.quantized_bytes \in Nat
  /\ IdealIsCheap => /\ upper.unique_with_metadata_bytes <= totals.encoded_bytes
                     /\ upper.quantized_bytes <= totals.allocated_bytes

(* The minimum of a set of naturals.                                       *)
LEMMA MinIsLeast ==
  ASSUME NEW S \in SUBSET Nat, S # {}
  PROVE  Min(S) \in S /\ \A x \in S : Min(S) <= x
BY LeastNatural DEF Min

(* What the upper bound adds for one block is a natural number, and no     *)
(* more than the model needs for that block.                               *)
LEMMA BoundOfBlock ==
  ASSUME BlockSize <= SymbolLimit, WellFormed(model), NEW b \in Block
  PROVE  LET unique == Rank(Simplest(b))
             ideal  == Min({BlockSize, unique + IdealMetadata})
             target == IF Roomy(unique) = {} THEN BlockSize ELSE Min(Roomy(unique))
             e      == Compress(b, model)
         IN  /\ ideal \in Nat /\ target \in Nat
             /\ e.encoded_size \in Nat /\ e.allocated_size \in Nat
             /\ IdealIsCheap => ideal <= e.encoded_size /\ target <= e.allocated_size
<1> DEFINE unique == Rank(Simplest(b))
           ideal  == Min({BlockSize, unique + IdealMetadata})
           target == IF Roomy(unique) = {} THEN BlockSize ELSE Min(Roomy(unique))
           e      == Compress(b, model)
<1>1. IsCanonical(Simplest(b)) /\ unique \in Nat
  BY CanonicalizeIdempotent, RankIsCount, BlockSizeAssumption DEF Simplest
<1> HIDE DEF unique
<1>2. /\ ideal \in Nat /\ ideal <= BlockSize /\ ideal <= unique + IdealMetadata
  <2>1. {BlockSize, unique + IdealMetadata} \in SUBSET Nat
    BY <1>1, BlockSizeAssumption, IdealMetadataAssumption
  <2> QED
    BY <2>1, MinIsLeast
<1>3. Roomy(unique) \in SUBSET Nat
  BY WellFormedSet DEF Roomy, TargetSizes, Sets
<1>4. /\ target \in Nat /\ target <= BlockSize
      /\ \A t \in Roomy(unique) : target <= t
  <2>1. \A t \in Roomy(unique) : t < BlockSize
    BY WellFormedSet DEF Roomy, TargetSizes, Sets
  <2>2. CASE Roomy(unique) = {}
    BY <2>2, BlockSizeAssumption
  <2>3. CASE Roomy(unique) # {}
    <3>1. Min(Roomy(unique)) \in Roomy(unique)
          /\ \A t \in Roomy(unique) : Min(Roomy(unique)) <= t
      BY <1>3, <2>3, MinIsLeast
    <3> QED
      BY <1>3, <2>1, <2>3, <3>1, BlockSizeAssumption
  <2> QED
    BY <2>2, <2>3
<1> HIDE DEF ideal, target
<1>5. CASE Describing(b, model) = {}
  <2>1. e.encoded_size = BlockSize /\ e.allocated_size = BlockSize
    BY <1>5 DEF Compress, RawBlock
  <2> QED
    BY <1>2, <1>4, <2>1, BlockSizeAssumption DEF unique, ideal, target
<1>6. CASE Describing(b, model) # {}
  <2>1. PICK s \in 1..Len(model) : \E k \in 1..Len(model[s].patterns) :
          /\ Describes(model[s].patterns[k], b)
          /\ e = CompressedBlock(b, model, s, k)
    BY <1>6, CompressChooses
  <2>2. PICK k \in 1..Len(model[s].patterns) :
          /\ Describes(model[s].patterns[k], b)
          /\ e = CompressedBlock(b, model, s, k)
    BY <2>1
  <2> DEFINE p == model[s].patterns[k]
  <2>3. /\ e.encoded_size = model[s].metadata_bytes + Rank(p)
        /\ e.allocated_size = model[s].target_size
    BY <2>2 DEF CompressedBlock
  <2>4. /\ p \in [Pos -> Symbol] /\ IsCanonical(p)
        /\ DictionarySize(model[s]) \in Nat
        /\ model[s].target_size \in Nat /\ model[s].metadata_bytes \in Nat
        /\ model[s].target_size = model[s].metadata_bytes + DictionarySize(model[s])
        /\ Rank(p) <= DictionarySize(model[s])
    BY WellFormedSet
  <2>5. unique <= Rank(p) /\ Rank(p) \in Nat
    <3>1. LessEqual(Simplest(b), p)
      BY <2>2, DescribesIsAboveSimplest
    <3>2. unique <= Rank(p)
      BY <1>1, <2>4, <3>1, RankMonotone DEF unique
    <3>3. Rank(p) \in 1..BlockSize
      BY <2>4, RankIsCount
    <3> QED
      BY <3>2, <3>3, BlockSizeAssumption
  <2> HIDE DEF p
  <2>6. ASSUME IdealIsCheap PROVE ideal <= e.encoded_size /\ target <= e.allocated_size
    <3>1. IdealMetadata <= model[s].metadata_bytes
      BY <2>6 DEF IdealIsCheap, Sets
    <3>2. ideal <= e.encoded_size
      BY <1>1, <1>2, <2>3, <2>4, <2>5, <3>1, IdealMetadataAssumption
    <3>3. unique <= model[s].target_size - IdealMetadata
      BY <1>1, <2>4, <2>5, <3>1, IdealMetadataAssumption
    <3>4. model[s].target_size \in Roomy(unique)
      BY <3>3 DEF Roomy, TargetSizes, Sets
    <3> QED
      BY <1>4, <2>3, <3>2, <3>4
  <2> QED
    BY SMTT(30), <1>2, <1>4, <2>3, <2>4, <2>5, <2>6 DEF unique, ideal, target
<1> QED
  BY <1>5, <1>6

(* Over any blocks, the upper bound is one: charged no more metadata than  *)
(* any set uses, its sizes never exceed those the model reaches.           *)
THEOREM UpperBoundIsBound ==
  ASSUME BlockSize <= SymbolLimit
  PROVE  Spec => []UpperBoundHolds
<1>1. Init => UpperInv
  BY DEF Init, UpperInv, NoTotals, NoUpper
<1>2. SessionInv /\ UpperInv /\ [Next]_vars => UpperInv'
  <2> SUFFICES ASSUME SessionInv, UpperInv, [Next]_vars PROVE UpperInv'
    OBVIOUS
  <2>1. CASE Open \/ UNCHANGED vars
    BY <2>1 DEF Open, vars, UpperInv, IdealIsCheap, Sets
  <2>2. ASSUME NEW b \in Block, CompressBlock(b) PROVE UpperInv'
    <3> DEFINE unique == Rank(Simplest(b))
               ideal  == Min({BlockSize, unique + IdealMetadata})
               target == IF Roomy(unique) = {} THEN BlockSize ELSE Min(Roomy(unique))
               e      == Compress(b, model)
    <3>1. WellFormed(model)
      BY <2>2, SessionModelWellFormed DEF CompressBlock
    <3>2. /\ ideal \in Nat /\ target \in Nat
          /\ e.encoded_size \in Nat /\ e.allocated_size \in Nat
          /\ IdealIsCheap => ideal <= e.encoded_size /\ target <= e.allocated_size
      BY <3>1, BoundOfBlock
    <3>3. /\ totals'.encoded_bytes = totals.encoded_bytes + e.encoded_size
          /\ totals'.allocated_bytes = totals.allocated_bytes + e.allocated_size
          /\ model' = model
      BY <2>2 DEF CompressBlock, Evaluated
    <3>4. /\ upper'.unique_with_metadata_bytes
               = upper.unique_with_metadata_bytes + ideal
          /\ upper'.quantized_bytes = upper.quantized_bytes + target
      BY <2>2 DEF CompressBlock, UpperBounded
    <3>5. IdealIsCheap' <=> IdealIsCheap
      BY <3>3 DEF IdealIsCheap, Sets
    <3> HIDE DEF ideal, target, e
    <3> QED
      BY <3>2, <3>3, <3>4, <3>5 DEF UpperInv
  <2> QED
    BY <2>1, <2>2 DEF Next
<1>3. UpperInv => UpperBoundHolds
  BY DEF UpperInv, UpperBoundHolds, IdealIsCheap
<1> QED
  BY <1>1, <1>2, <1>3, SessionInvHolds, PTL DEF Spec

-----------------------------------------------------------------------------
(* Pattern metadata                                                        *)

LEMMA DivideBack ==
  ASSUME NEW n \in Nat \ {0}, NEW q \in Nat, NEW r \in 0..(n - 1)
  PROVE  (q * n + r) \div n = q /\ (q * n + r) % n = r
OBVIOUS

LEMMA Divided ==
  ASSUME NEW n \in Nat \ {0}, NEW x \in Nat
  PROVE  /\ x \div n \in Nat /\ x % n \in 0..(n - 1)
         /\ (x \div n) * n + (x % n) = x
OBVIOUS

(* The sizes of a set that was accepted are numbers of bits, and a pattern *)
(* index fits the bits that its tag leaves.                                *)
LEMMA SetBits ==
  ASSUME NEW m, WellFormed(m), NEW s \in 1..Len(m)
  PROVE  /\ MetadataBits(m[s]) \in Nat /\ m[s].tag_bits \in Nat /\ m[s].tag_value \in Nat
         /\ PatternIdBits(m[s]) \in Nat /\ m[s].tag_value < 2^WordBits
         /\ MetadataBits(m[s]) = m[s].tag_bits + PatternIdBits(m[s])
         /\ Len(m[s].patterns) \in Nat
         /\ m[s].tag_bits # 0 => PatternIdBits(m[s]) < WordBits
         /\ Fits(m[s].tag_value, m[s].tag_bits)
         /\ CountFits(Len(m[s].patterns), PatternIdBits(m[s]))
<1>1. m[s] \in PatternSets /\ ValidSet(m[s])
  BY ElementOfSeq DEF WellFormed, ValidModel
<1>2. /\ m[s].metadata_bytes \in Nat /\ m[s].tag_bits \in Nat /\ m[s].tag_value \in Nat
      /\ m[s].tag_value < 2^WordBits /\ Len(m[s].patterns) \in Nat /\ Len(m[s].patterns) < 2^WordBits
  BY <1>1, SetFields
<1>3. \A a, b \in Nat : a * b \in Nat
  OBVIOUS
<1>4. MetadataBits(m[s]) \in Nat
  BY <1>2, <1>3, BitsAssumption DEF MetadataBits
<1>5. ValidLayout(m[s]) /\ CountFits(Len(m[s].patterns), PatternIdBits(m[s]))
  BY <1>1 DEF ValidSet
<1> QED
  BY <1>2, <1>4, <1>5 DEF ValidLayout, PatternIdBits

(* The tag is not shifted out of the word.                                 *)
LEMMA TagAboveIndex ==
  ASSUME NEW m, WellFormed(m), NEW s \in 1..Len(m), TagFitsWord(m[s]),
         m[s].tag_bits # 0, NEW index \in 0..(Len(m[s].patterns) - 1)
  PROVE  LET n == 2^PatternIdBits(m[s])
         IN  /\ n \in Nat \ {0} /\ index \in 0..(n - 1)
             /\ EncodePatternMetadata(m[s], index) = m[s].tag_value * n + index
             /\ EncodePatternMetadata(m[s], index) < 2^MetadataBits(m[s])
<1> DEFINE set == m[s]
           T == set.tag_bits
           P == PatternIdBits(set)
           M == MetadataBits(set)
           v == set.tag_value
<1>1. /\ M \in Nat /\ T \in Nat \ {0} /\ v \in Nat /\ P \in Nat /\ M = T + P
      /\ v < 2^WordBits
      /\ Len(set.patterns) \in Nat /\ P < WordBits /\ M <= WordBits
      /\ Fits(v, T) /\ CountFits(Len(set.patterns), P)
  BY SetBits DEF TagFitsWord
<1>2. EncodePatternMetadata(set, index) = ((v * 2^P) % 2^WordBits) + index
  BY <1>1 DEF EncodePatternMetadata, ShiftLeft
<1>3. WordBits \in Nat \ {0}
  BY BitsAssumption
<1>4. /\ 2^P \in Nat \ {0} /\ 2^T \in Nat \ {0} /\ 2^M = 2^T * 2^P
      /\ 2^M <= 2^WordBits /\ 2^WordBits \in Nat \ {0} /\ 2^M \in Nat
  <2> HIDE DEF T, P, M
  <2> QED
    BY <1>1, <1>3, PowerOfTwo, PowersMultiply, PowersGrow
<1>5. index \in 0..(2^P - 1)
  <2>1. Len(set.patterns) <= 2^P
    BY <1>1, <1>3 DEF CountFits
  <2> QED
    BY SMTT(30), <1>1, <1>4, <2>1
<1>6. v < 2^T
  <2>1. CASE T >= WordBits
    <3>1. T = WordBits
      BY <1>1, <1>3, <2>1
    <3> QED
      BY <1>1, <3>1
  <2>2. CASE ~(T >= WordBits)
    BY <1>1, <2>2 DEF Fits
  <2> QED
    BY <2>1, <2>2
<1>7. v * 2^P + index < 2^T * 2^P
  <2>1. ASSUME NEW a \in Nat, NEW b \in Nat, NEW n \in Nat \ {0}, NEW r \in 0..(n - 1), a < b
        PROVE  a * n + r < b * n /\ a * n \in Nat
    <3>1. (a + 1) * n <= b * n /\ (a + 1) * n = a * n + n
      BY <2>1
    <3> QED
      BY <3>1
  <2> HIDE DEF v, T, P
  <2> QED
    BY <1>1, <1>4, <1>5, <1>6, <2>1
<1>8. v * 2^P \in Nat /\ v * 2^P < 2^WordBits
  <2>1. \A a, b \in Nat : a * b \in Nat
    OBVIOUS
  <2>2. v * 2^P \in Nat
    BY <1>1, <1>4, <2>1
  <2> HIDE DEF v, P, T, M
  <2> QED
    BY <1>1, <1>4, <1>5, <1>7, <2>2
<1>9. (v * 2^P) % 2^WordBits = v * 2^P
  <2>1. \A x \in Nat, n \in Nat \ {0} : x < n => x % n = x
    OBVIOUS
  <2> QED
    BY <1>4, <1>8, <2>1
<1> QED
  BY <1>2, <1>4, <1>5, <1>7, <1>9

(* What encode_pattern_metadata() makes of an index fits the metadata.     *)
LEMMA MetadataFits ==
  ASSUME NEW m, WellFormed(m), NEW s \in 1..Len(m), TagFitsWord(m[s]),
         NEW index \in 0..(Len(m[s].patterns) - 1)
  PROVE  /\ EncodePatternMetadata(m[s], index) \in Nat
         /\ EncodePatternMetadata(m[s], index) < 2^MetadataBits(m[s])
         /\ 2^MetadataBits(m[s]) \in Nat \ {0}
<1>1. /\ MetadataBits(m[s]) \in Nat /\ PatternIdBits(m[s]) \in Nat /\ m[s].tag_value \in Nat
      /\ MetadataBits(m[s]) = m[s].tag_bits + PatternIdBits(m[s]) /\ m[s].tag_bits \in Nat
      /\ Len(m[s].patterns) \in Nat /\ index \in Nat
      /\ CountFits(Len(m[s].patterns), PatternIdBits(m[s]))
  BY SetBits
<1>2. 2^MetadataBits(m[s]) \in Nat \ {0} /\ WordBits \in Nat /\ 2^WordBits \in Nat
  BY <1>1, PowerOfTwo, BitsAssumption
<1>3. CASE m[s].tag_bits = 0
  <2>1. EncodePatternMetadata(m[s], index) = index /\ PatternIdBits(m[s]) = MetadataBits(m[s])
    BY <1>1, <1>3 DEF EncodePatternMetadata
  <2>2. Len(m[s].patterns) <= 2^MetadataBits(m[s])
    <3>1. CASE MetadataBits(m[s]) >= WordBits
      <4>1. 2^WordBits <= 2^MetadataBits(m[s])
        BY <1>1, <1>2, <3>1, PowersGrow
      <4>2. Len(m[s].patterns) < 2^WordBits
        BY ElementOfSeq, SetFields DEF WellFormed
      <4> QED
        BY <1>1, <1>2, <4>1, <4>2
    <3>2. CASE ~(MetadataBits(m[s]) >= WordBits)
      BY <1>1, <2>1, <3>2 DEF CountFits
    <3> QED
      BY <3>1, <3>2
  <2> QED
    BY <1>1, <1>2, <2>1, <2>2
<1>4. CASE m[s].tag_bits # 0
  <2> DEFINE n == 2^PatternIdBits(m[s])
             v == m[s].tag_value
  <2>1. /\ n \in Nat \ {0}
        /\ EncodePatternMetadata(m[s], index) = v * n + index
        /\ EncodePatternMetadata(m[s], index) < 2^MetadataBits(m[s])
    BY <1>4, TagAboveIndex
  <2>2. v \in Nat /\ index \in Nat
    BY <1>1
  <2>3. \A a, b, c \in Nat : a * b + c \in Nat
    OBVIOUS
  <2> HIDE DEF n, v
  <2>4. EncodePatternMetadata(m[s], index) \in Nat
    BY <2>1, <2>2, <2>3
  <2> QED
    BY <1>2, <2>1, <2>4
<1> QED
  BY <1>3, <1>4

(* The set decodes what it encodes, and nothing else.                      *)
LEMMA MetadataDecodes ==
  ASSUME NEW m, WellFormed(m), NEW s \in 1..Len(m), TagFitsWord(m[s]),
         NEW metadata \in Nat, metadata < 2^MetadataBits(m[s]),
         NEW index \in 0..(Len(m[s].patterns) - 1)
  PROVE  index \in DecodePatternMetadata(m[s], metadata)
           <=> metadata = EncodePatternMetadata(m[s], index)
<1>1. Fits(metadata, MetadataBits(m[s]))
  BY DEF Fits
<1>2. CASE m[s].tag_bits = 0
  BY <1>1, <1>2 DEF DecodePatternMetadata, EncodePatternMetadata
<1>3. CASE m[s].tag_bits # 0
  <2> DEFINE n == 2^PatternIdBits(m[s])
             v == m[s].tag_value
  <2>1. n \in Nat \ {0} /\ index \in 0..(n - 1) /\ EncodePatternMetadata(m[s], index) = v * n + index
    BY <1>3, TagAboveIndex
  <2>2. v \in Nat
    BY SetBits
  <2>3. index \in DecodePatternMetadata(m[s], metadata) <=> metadata \div n = v /\ metadata % n = index
    BY <1>1, <1>3 DEF DecodePatternMetadata
  <2> HIDE DEF n, v
  <2>4. (v * n + index) \div n = v /\ (v * n + index) % n = index
    BY <2>1, <2>2, DivideBack
  <2>5. (metadata \div n) * n + (metadata % n) = metadata
    BY <2>1, Divided
  <2> QED
    BY <2>1, <2>3, <2>4, <2>5
<1> QED
  BY <1>2, <1>3

(* Two patterns of a set have different metadata.                          *)
LEMMA MetadataSeparates ==
  ASSUME NEW m, WellFormed(m), NEW s \in 1..Len(m), TagFitsWord(m[s]),
         NEW i \in 0..(Len(m[s].patterns) - 1), NEW j \in 0..(Len(m[s].patterns) - 1),
         EncodePatternMetadata(m[s], i) = EncodePatternMetadata(m[s], j)
  PROVE  i = j
<1>1. CASE m[s].tag_bits = 0
  BY <1>1 DEF EncodePatternMetadata
<1>2. CASE m[s].tag_bits # 0
  <2> DEFINE n == 2^PatternIdBits(m[s])
             v == m[s].tag_value
  <2>1. /\ n \in Nat \ {0} /\ i \in 0..(n - 1) /\ j \in 0..(n - 1)
        /\ v * n + i = v * n + j
    BY <1>2, TagAboveIndex
  <2>2. v \in Nat
    BY SetBits
  <2> HIDE DEF n, v
  <2>3. \A a, b \in Nat : a * b \in Nat
    OBVIOUS
  <2> QED
    BY <2>1, <2>2, <2>3
<1> QED
  BY <1>1, <1>2

(* What encode_pattern_metadata() makes of an index is decoded as it.      *)
LEMMA DecodesWhatItEncodes ==
  ASSUME NEW m, WellFormed(m), NEW s \in 1..Len(m), TagFitsWord(m[s]),
         NEW index \in 0..(Len(m[s].patterns) - 1)
  PROVE  \A i : i \in DecodePatternMetadata(m[s], EncodePatternMetadata(m[s], index)) <=> i = index
<1> DEFINE metadata == EncodePatternMetadata(m[s], index)
<1>1. metadata \in Nat /\ metadata < 2^MetadataBits(m[s])
  BY MetadataFits
<1>2. index \in DecodePatternMetadata(m[s], metadata)
  BY <1>1, MetadataDecodes
<1>3. ASSUME NEW i \in DecodePatternMetadata(m[s], metadata) PROVE i = index
  <2>1. i \in 0..(Len(m[s].patterns) - 1)
    BY DEF DecodePatternMetadata
  <2>2. metadata = EncodePatternMetadata(m[s], i)
    BY <1>1, <1>3, <2>1, MetadataDecodes
  <2> QED
    BY <2>1, <2>2, MetadataSeparates
<1> QED
  BY <1>2, <1>3

(* A set of the same width that decodes some metadata of another has its   *)
(* tag.                                                                    *)
LEMMA DecodersShareTheTag ==
  ASSUME NEW m, WellFormed(m), NEW s \in 1..Len(m), NEW t \in 1..Len(m), TagFitsWord(m[s]),
         MetadataBits(m[t]) = MetadataBits(m[s]), m[t].tag_bits = m[s].tag_bits,
         NEW index \in 0..(Len(m[s].patterns) - 1),
         DecodePatternMetadata(m[t], EncodePatternMetadata(m[s], index)) # {}
  PROVE  m[t].tag_value = m[s].tag_value
<1>1. CASE m[s].tag_bits = 0
  <2>1. /\ Fits(m[s].tag_value, 0) /\ m[s].tag_value \in Nat
        /\ Fits(m[t].tag_value, 0) /\ m[t].tag_value \in Nat
    BY <1>1, SetBits
  <2>2. 2^0 = 1 /\ ~(0 >= WordBits)
    BY ZerothPower, BitsAssumption
  <2>3. m[s].tag_value < 1 /\ m[t].tag_value < 1
    BY <2>1, <2>2 DEF Fits
  <2> QED
    BY <2>1, <2>3
<1>2. CASE m[s].tag_bits # 0
  <2> DEFINE n == 2^PatternIdBits(m[s])
             v == m[s].tag_value
  <2>1. n \in Nat \ {0} /\ index \in 0..(n - 1) /\ EncodePatternMetadata(m[s], index) = v * n + index
    BY <1>2, TagAboveIndex
  <2>2. v \in Nat /\ PatternIdBits(m[t]) = PatternIdBits(m[s])
    BY SetBits DEF PatternIdBits
  <2>3. EncodePatternMetadata(m[s], index) \div n = m[t].tag_value
    BY <1>2, <2>2 DEF DecodePatternMetadata
  <2> HIDE DEF n, v
  <2>4. (v * n + index) \div n = v
    BY <2>1, <2>2, DivideBack
  <2> QED
    BY <2>1, <2>3, <2>4 DEF v
<1> QED
  BY <1>1, <1>2

(* Of every block compressed, the metadata fits the bytes kept for it and  *)
(* names the pattern used, in its own set and under no other tag.          *)
THEOREM MetadataNamesPattern == Spec => []MetadataNamesThePattern
<1>1. SessionInv => MetadataNamesThePattern
  <2> SUFFICES ASSUME SessionInv, NEW e \in encoded, e.compressed, TagFitsWord(model[e.set_index])
               PROVE  LET set == model[e.set_index]
                      IN  /\ Fits(e.metadata, MetadataBits(set))
                          /\ DecodePatternMetadata(set, e.metadata) = {e.pattern_index}
                          /\ \A s \in Sets :
                               /\ MetadataBits(model[s]) = MetadataBits(set)
                               /\ model[s].tag_bits = set.tag_bits
                               /\ DecodePatternMetadata(model[s], e.metadata) # {}
                               => model[s].tag_value = set.tag_value
    BY DEF MetadataNamesThePattern
  <2>1. WellFormed(model) /\ e = Compress(block, model)
    BY SessionModelWellFormed DEF SessionInv
  <2>2. Describing(block, model) # {}
    BY <2>1 DEF Compress, RawBlock
  <2>3. PICK r \in 1..Len(model) : \E k \in 1..Len(model[r].patterns) :
          e = CompressedBlock(block, model, r, k)
    BY <2>1, <2>2, CompressChooses
  <2>4. PICK k \in 1..Len(model[r].patterns) : e = CompressedBlock(block, model, r, k)
    BY <2>3
  <2> DEFINE index == k - 1
  <2>5. /\ e.set_index = r /\ e.pattern_index = index
        /\ e.metadata = EncodePatternMetadata(model[r], index)
    BY <2>4 DEF CompressedBlock
  <2>6. index \in 0..(Len(model[r].patterns) - 1)
    BY <2>1, SetBits
  <2>7. TagFitsWord(model[r])
    BY <2>5
  <2> HIDE DEF index
  <2>8. Fits(e.metadata, MetadataBits(model[r]))
    BY <2>1, <2>5, <2>6, <2>7, MetadataFits DEF Fits
  <2>9. DecodePatternMetadata(model[r], e.metadata) = {e.pattern_index}
    <3>1. \A i : i \in DecodePatternMetadata(model[r], EncodePatternMetadata(model[r], index))
                  <=> i = index
      BY <2>1, <2>6, <2>7, DecodesWhatItEncodes
    <3> QED
      BY <2>5, <3>1
  <2>10. ASSUME NEW s \in Sets, MetadataBits(model[s]) = MetadataBits(model[r]),
                model[s].tag_bits = model[r].tag_bits,
                DecodePatternMetadata(model[s], e.metadata) # {}
         PROVE  model[s].tag_value = model[r].tag_value
    BY <2>1, <2>5, <2>6, <2>7, <2>10, DecodersShareTheTag DEF Sets
  <2> QED
    BY <2>5, <2>8, <2>9, <2>10
<1> QED
  BY <1>1, SessionInvHolds, PTL

-----------------------------------------------------------------------------
(* The generated circuits                                                  *)

LEMMA FirstPositionOf ==
  ASSUME NEW p, NEW i \in Pos
  PROVE  FirstPosition(p, p[i]) \in Pos /\ p[FirstPosition(p, p[i])] = p[i]
<1>1. PICK a \in FirstPositions(p) : p[a] = p[i]
  BY FirstPositionExists
<1>2. a \in Pos /\ \A h \in 1..(a - 1) : p[h] # p[i]
  BY <1>1 DEF FirstPositions
<1> QED
  BY <1>1, <1>2 DEF FirstPosition

(* The comparators check what Pattern::describes checks.                   *)
LEMMA ComparatorsDescribe ==
  ASSUME NEW p, NEW b
  PROVE  ComparatorsAgree(p, b) <=> Describes(p, b)
<1>1. ASSUME Describes(p, b) PROVE ComparatorsAgree(p, b)
  BY <1>1, FirstPositionOf DEF Describes, ComparatorsAgree
<1>2. ASSUME ComparatorsAgree(p, b) PROVE Describes(p, b)
  BY <1>2 DEF Describes, ComparatorsAgree
<1> QED
  BY <1>1, <1>2

(* A canonical pattern uses every symbol below its rank.                   *)
LEMMA SymbolsInUse ==
  ASSUME BlockSize <= SymbolLimit, NEW p, IsCanonical(p), NEW d \in 0..(Rank(p) - 1)
  PROVE  \E i \in Pos : p[i] = d
<1> DEFINE F == FirstPositions(p)
           n == Rank(p)
           f == [a \in F |-> p[a]]
<1>1. F \in SUBSET Pos /\ IsFiniteSet(F) /\ Cardinality(F) = n /\ n \in Nat \ {0}
  BY MetBeforeFinite, RankIsCount, BlockSizeAssumption DEF FirstPositions
<1>2. \A i \in Pos : p[i] \in 0..(n - 1)
  BY RankIsCount
<1>3. ASSUME NEW a \in F, NEW b \in F, p[a] = p[b] PROVE a = b
  <2>1. /\ a \in Nat \ {0} /\ b \in Nat \ {0}
        /\ \A h \in 1..(a - 1) : p[h] # p[a]
        /\ \A h \in 1..(b - 1) : p[h] # p[b]
    BY <1>1, BlockSizeAssumption DEF FirstPositions, Pos
  <2>2. ~(a < b) /\ ~(b < a)
    BY <1>3, <2>1
  <2> QED
    BY <2>1, <2>2
<1>4. f \in Injection(F, 0..(n - 1))
  BY <1>1, <1>2, <1>3 DEF Injection, IsInjective
<1>5. IsFiniteSet(0..(n - 1)) /\ Cardinality(0..(n - 1)) = n
  BY <1>1, FS_Interval
<1>6. f \in Surjection(F, 0..(n - 1))
  BY <1>1, <1>4, <1>5, FS_Injection
<1>7. PICK a \in F : f[a] = d
  BY <1>6 DEF Surjection
<1> QED
  BY <1>1, <1>7

(* The circuit's dictionary is make_dictionary()'s, zero bytes above.      *)
LEMMA DictionariesAgree ==
  ASSUME BlockSize <= SymbolLimit, NEW set, NEW p, IsCanonical(p), NEW b,
         DictionarySize(set) \in Nat
  PROVE  CompressorDictionary(set, p, b) = Dictionary(b, set, p)
<1>1. Rank(p) \in Nat
  BY RankIsCount, BlockSizeAssumption
<1>2. ASSUME NEW d \in 1..DictionarySize(set)
      PROVE  CompressorDictionary(set, p, b)[d] = Dictionary(b, set, p)[d]
  <2>1. CASE d <= Rank(p)
    <3>1. d - 1 \in 0..(Rank(p) - 1)
      BY <1>1, <2>1
    <3>2. \E i \in Pos : p[i] = d - 1
      BY <3>1, SymbolsInUse
    <3> QED
      BY <2>1, <3>2 DEF CompressorDictionary, Dictionary, FirstPosition
  <2>2. CASE ~(d <= Rank(p))
    <3>1. \A i \in Pos : p[i] \in 0..(Rank(p) - 1)
      BY RankIsCount
    <3>2. ~\E i \in Pos : p[i] = d - 1
      BY <1>1, <2>2, <3>1
    <3> QED
      BY <2>2, <3>2 DEF CompressorDictionary, Dictionary
  <2> QED
    BY <2>1, <2>2
<1> QED
  BY <1>2 DEF CompressorDictionary, Dictionary

(* The greatest of bounded naturals.                                       *)
LEMMA MaxIsGreatest ==
  ASSUME NEW S \in SUBSET Nat, S # {}, NEW n \in Nat, \A x \in S : x <= n
  PROVE  Max(S) \in S /\ \A x \in S : x <= Max(S)
<1> DEFINE Gaps == {n - x : x \in S}
<1>1. Gaps \in SUBSET Nat /\ Gaps # {}
  <2>1. \A x \in S : n - x \in Nat
    OBVIOUS
  <2> QED
    BY <2>1
<1>2. PICK g \in Gaps : \A h \in Gaps : g <= h
  BY <1>1, LeastNatural
<1>3. PICK m \in S : g = n - m
  BY <1>2
<1>4. \A x \in S : n - m <= n - x
  BY <1>2, <1>3
<1>5. \A x \in S : m >= x
  BY <1>4
<1>6. Max(S) \in S /\ \A x \in S : Max(S) >= x
  BY <1>5 DEF Max
<1> QED
  BY <1>6

(* The comparators of a set answer for the patterns that describe a block. *)
LEMMA MatchingDescribe ==
  ASSUME WellFormed(model), NEW s \in Sets, NEW b
  PROVE  /\ Matching(model[s], b)
              = {k \in 1..Len(model[s].patterns) : Describes(model[s].patterns[k], b)}
         /\ Matching(model[s], b) \in SUBSET Nat
         /\ \A k : <<s, k>> \in Describing(b, model) <=> k \in Matching(model[s], b)
         /\ s \in Successful(b) <=> Matching(model[s], b) # {}
<1>1. Matching(model[s], b)
        = {k \in 1..Len(model[s].patterns) : Describes(model[s].patterns[k], b)}
  BY ComparatorsDescribe DEF Matching
<1>2. Matching(model[s], b) \in SUBSET Nat
  <2>1. Len(model[s].patterns) \in Nat
    BY SetBits DEF Sets
  <2> QED
    BY <1>1, <2>1
<1>3. \A k \in 1..Len(model[s].patterns) : Rank(model[s].patterns[k]) <= DictionarySize(model[s])
  BY WellFormedSet DEF Sets
<1>4. \A k : <<s, k>> \in Describing(b, model) <=> k \in Matching(model[s], b)
  BY <1>1, <1>3 DEF Describing, Sets
<1>5. s \in Successful(b) <=> Matching(model[s], b) # {}
  BY DEF Successful, Compressor
<1> QED
  BY <1>1, <1>2, <1>4, <1>5

(* For a block no pattern describes the circuit leaves success_o low.      *)
LEMMA CircuitLeavesRaw ==
  ASSUME WellFormed(model), NEW b, Describing(b, model) = {}
  PROVE  Successful(b) = {}
BY MatchingDescribe DEF Successful

(* The set and the pattern that answer are those compress() takes.         *)
LEMMA CircuitChooses ==
  ASSUME BlockSize <= SymbolLimit, WellFormed(model),
         NEW b, Describing(b, model) # {},
         \A s \in Sets : TagFitsWord(model[s])
  PROVE  \E s \in Sets : \E k \in 1..Len(model[s].patterns) :
           /\ Describes(model[s].patterns[k], b)
           /\ Compress(b, model) = CompressedBlock(b, model, s, k)
           /\ TopCompressor(b) =
                [success |-> TRUE,
                 pattern_id |-> EncodePatternMetadata(model[s], k - 1),
                 dictionary |-> [d \in TopDictionary |->
                   IF d \in 1..DictionarySize(model[s])
                     THEN Dictionary(b, model[s], model[s].patterns[k])[d] ELSE 0],
                 target_size |-> LowBits(model[s].target_size, PortBits)]
<1> DEFINE c == FirstDescribing(b, model)
<1>1. c \in Describing(b, model) /\ \A d \in Describing(b, model) \ {c} : TriedBefore(c, d, model)
  BY FirstDescribingExists
<1>2. PICK s \in Sets : \E k \in 1..Len(model[s].patterns) :
        c = <<s, k>> /\ Describes(model[s].patterns[k], b)
  BY <1>1 DEF Describing, Sets
<1>3. PICK k \in 1..Len(model[s].patterns) : c = <<s, k>> /\ Describes(model[s].patterns[k], b)
  BY <1>2
<1>4. Compress(b, model) = CompressedBlock(b, model, s, k)
  BY <1>1, <1>3 DEF Compress
<1> DEFINE M == Matching(model[s], b)
<1>5. k \in M /\ M \in SUBSET Nat /\ s \in Successful(b)
  BY <1>1, <1>3, MatchingDescribe
<1>6. Min(M) = k
  <2>1. \A t \in Sets : model[t].target_size \in Nat /\ t \in Nat
    <3>1. Len(model) \in Nat
      BY LenProperties DEF WellFormed
    <3> QED
      BY <3>1, WellFormedSet DEF Sets
  <2>2. ASSUME NEW j \in M PROVE k <= j
    <3>1. <<s, j>> \in Describing(b, model)
      BY <2>2, MatchingDescribe
    <3>2. CASE j # k
      <4>1. TriedBefore(<<s, k>>, <<s, j>>, model)
        BY <1>1, <1>3, <3>1, <3>2
      <4>2. k < j
        BY <1>5, <2>1, <4>1 DEF TriedBefore
      <4> QED
        BY <1>5, <4>2
    <3> QED
      BY <1>5, <3>2
  <2>3. Min(M) \in M /\ \A j \in M : Min(M) <= j
    BY <1>5, MinIsLeast
  <2> HIDE DEF M
  <2>4. Min(M) <= k /\ k <= Min(M) /\ Min(M) \in Nat /\ k \in Nat
    BY <1>5, <2>2, <2>3
  <2> QED
    BY <2>4
<1> DEFINE t == CHOOSE r \in Successful(b) : \A q \in Successful(b) \ {r} : SetBefore(r, q)
<1>7. t = s
  <2>1. \A r \in Sets : model[r].target_size \in Nat /\ r \in Nat
    <3>1. Len(model) \in Nat
      BY LenProperties DEF WellFormed
    <3> QED
      BY <3>1, WellFormedSet DEF Sets
  <2>2. ASSUME NEW q \in Successful(b) \ {s} PROVE SetBefore(s, q)
    <3>1. q \in Sets
      BY DEF Successful
    <3>2. PICK j \in Matching(model[q], b) : TRUE
      BY <3>1, MatchingDescribe
    <3>3. <<q, j>> \in Describing(b, model) \ {c}
      BY <1>3, <3>1, <3>2, MatchingDescribe
    <3>4. TriedBefore(<<s, k>>, <<q, j>>, model)
      BY <1>1, <1>3, <3>3
    <3> QED
      BY <3>4 DEF TriedBefore, SetBefore
  <2>3. t \in Successful(b) /\ \A q \in Successful(b) \ {t} : SetBefore(t, q)
    BY <1>5, <2>2
  <2>4. t \in Sets
    BY <2>3 DEF Successful
  <2>5. CASE t # s
    <3>1. SetBefore(s, t) /\ SetBefore(t, s)
      BY <1>5, <2>2, <2>3, <2>5
    <3> HIDE DEF t
    <3> QED
      BY <2>1, <2>4, <3>1 DEF SetBefore
  <2> QED
    BY <2>5
<1> DEFINE set == model[s]
           p   == model[s].patterns[k]
           out == Compressor(set, b)
<1>8. out = [success |-> TRUE,
             pattern_id |-> LowBits(EncodePatternMetadata(set, k - 1), MetadataBits(set)),
             dictionary |-> CompressorDictionary(set, p, b)]
  BY <1>5, <1>6 DEF Compressor
<1>9. k - 1 \in 0..(Len(set.patterns) - 1) /\ s \in 1..Len(model)
  BY SetBits DEF Sets
<1>10. LowBits(EncodePatternMetadata(set, k - 1), MetadataBits(set)) = EncodePatternMetadata(set, k - 1)
  <2>1. /\ EncodePatternMetadata(set, k - 1) \in Nat
        /\ EncodePatternMetadata(set, k - 1) < 2^MetadataBits(set)
        /\ 2^MetadataBits(set) \in Nat \ {0}
    BY <1>9, MetadataFits
  <2>2. \A x \in Nat, n \in Nat \ {0} : x < n => x % n = x
    OBVIOUS
  <2> QED
    BY <2>1, <2>2 DEF LowBits
<1>11. CompressorDictionary(set, p, b) = Dictionary(b, set, p)
  <2>1. IsCanonical(p) /\ DictionarySize(set) \in Nat
    BY <1>9, WellFormedSet
  <2> QED
    BY <2>1, DictionariesAgree
<1>12. DOMAIN Dictionary(b, set, p) = 1..DictionarySize(set)
  BY DEF Dictionary
<1>13. TopCompressor(b) =
         [success |-> TRUE, pattern_id |-> out.pattern_id,
          dictionary |-> [d \in TopDictionary |->
             IF d \in DOMAIN out.dictionary THEN out.dictionary[d] ELSE 0],
          target_size |-> LowBits(set.target_size, PortBits)]
  <2>1. Successful(b) # {}
    BY <1>5
  <2>2. TopCompressor(b) =
          [success |-> TRUE, pattern_id |-> Compressor(model[t], b).pattern_id,
           dictionary |-> [d \in TopDictionary |->
              IF d \in DOMAIN Compressor(model[t], b).dictionary
                THEN Compressor(model[t], b).dictionary[d] ELSE 0],
           target_size |-> LowBits(model[t].target_size, PortBits)]
    BY <2>1, Zenon DEF TopCompressor
  <2> HIDE DEF t
  <2> QED
    BY <1>7, <2>2
<1>14. out.pattern_id = EncodePatternMetadata(set, k - 1) /\ out.dictionary = Dictionary(b, set, p)
  BY <1>8, <1>10, <1>11
<1> HIDE DEF out
<1>15. TopCompressor(b) =
         [success |-> TRUE, pattern_id |-> EncodePatternMetadata(set, k - 1),
          dictionary |-> [d \in TopDictionary |->
             IF d \in 1..DictionarySize(set) THEN Dictionary(b, set, p)[d] ELSE 0],
          target_size |-> LowBits(set.target_size, PortBits)]
  BY <1>12, <1>13, <1>14
<1> QED
  BY <1>3, <1>4, <1>15

(* The dictionary port holds every set's dictionary.                       *)
LEMMA PortsAreWide ==
  ASSUME WellFormed(model)
  PROVE  /\ TopDictionary \in SUBSET (Nat \ {0})
         /\ \A s \in Sets : 1..DictionarySize(model[s]) \subseteq TopDictionary
         /\ TopIdBits \in Nat
<1>0. Len(model) \in Nat /\ 1 \in Sets
  <2>1. model \in Seq(PatternSets) /\ model # << >>
    BY DEF WellFormed, ValidModel
  <2>2. Len(model) \in Nat /\ Len(model) # 0
    BY <2>1, LenProperties, EmptySeq
  <2> QED
    BY <2>2 DEF Sets
<1>1. \A s \in Sets : /\ DictionarySize(model[s]) \in Nat
                      /\ DictionarySize(model[s]) <= BlockSize
                      /\ model[s].metadata_bytes \in Nat /\ model[s].metadata_bytes <= BlockSize
                      /\ MetadataBits(model[s]) \in Nat
  <2> TAKE s \in Sets
  <2>1. /\ DictionarySize(model[s]) \in Nat /\ model[s].metadata_bytes \in Nat
        /\ model[s].target_size < BlockSize
        /\ model[s].target_size = model[s].metadata_bytes + DictionarySize(model[s])
    BY WellFormedSet DEF Sets
  <2>2. MetadataBits(model[s]) \in Nat
    BY SetBits DEF Sets
  <2> QED
    BY <2>1, <2>2, BlockSizeAssumption
<1> DEFINE D == {DictionarySize(model[s]) : s \in Sets}
           I == {MetadataBits(model[s]) : s \in Sets}
<1>2. D \in SUBSET Nat /\ D # {} /\ \A x \in D : x <= BlockSize
  BY <1>0, <1>1
<1>3. Max(D) \in Nat /\ \A s \in Sets : DictionarySize(model[s]) <= Max(D)
  BY <1>2, MaxIsGreatest, BlockSizeAssumption
<1>4. ByteBits * BlockSize \in Nat /\ \A s \in Sets : MetadataBits(model[s]) <= ByteBits * BlockSize
  <2>1. \A a, x, y \in Nat : x <= y => a * x <= a * y /\ a * y \in Nat
    OBVIOUS
  <2> QED
    BY <1>1, <2>1, BlockSizeAssumption, BitsAssumption DEF MetadataBits
<1>5. I \in SUBSET Nat /\ I # {} /\ \A x \in I : x <= ByteBits * BlockSize
  BY <1>0, <1>1, <1>4
<1>6. Max(I) \in Nat
  BY <1>4, <1>5, MaxIsGreatest
<1>7. TopDictionary = 1..Max(D) /\ TopIdBits = Max(I)
  BY DEF TopDictionary, TopIdBits
<1> HIDE DEF D, I
<1>8. \A s \in Sets : 1..DictionarySize(model[s]) \subseteq 1..Max(D)
  BY <1>1, <1>3
<1> QED
  BY <1>3, <1>6, <1>7, <1>8

(* The compressor circuit answers what compress() answers.                 *)
LEMMA CompressorsAgree ==
  ASSUME BlockSize <= SymbolLimit, SessionInv
  PROVE  CompressorAgrees
<1> SUFFICES ASSUME HasCircuit, NEW e \in encoded
             PROVE  TopCompressor(block) =
                      [success |-> e.compressed, pattern_id |-> e.metadata,
                       dictionary |-> [d \in TopDictionary |->
                          IF d <= Len(e.dictionary) THEN e.dictionary[d] ELSE 0],
                       target_size |-> LowBits(e.allocated_size, PortBits)]
  BY DEF CompressorAgrees
<1>1. WellFormed(model) /\ e = Compress(block, model) /\ \A s \in Sets : TagFitsWord(model[s])
  BY SessionModelWellFormed DEF SessionInv, HasCircuit
<1>2. TopDictionary \in SUBSET (Nat \ {0})
  BY <1>1, PortsAreWide
<1>3. CASE Describing(block, model) = {}
  <2>1. Successful(block) = {}
    BY <1>1, <1>3, CircuitLeavesRaw
  <2>2. /\ e.compressed = FALSE /\ e.metadata = 0 /\ e.dictionary = << >>
        /\ e.allocated_size = BlockSize
    BY <1>1, <1>3 DEF Compress, RawBlock
  <2>3. Len(e.dictionary) = 0
    BY <2>2, EmptySeq
  <2>4. \A d \in TopDictionary : ~(d <= Len(e.dictionary))
    BY <1>2, <2>3
  <2>5. [d \in TopDictionary |-> IF d <= Len(e.dictionary) THEN e.dictionary[d] ELSE 0]
          = [d \in TopDictionary |-> 0]
    BY <2>4
  <2> QED
    BY <2>1, <2>2, <2>5 DEF TopCompressor
<1>4. CASE Describing(block, model) # {}
  <2>1. PICK s \in Sets : \E k \in 1..Len(model[s].patterns) :
          /\ e = CompressedBlock(block, model, s, k)
          /\ TopCompressor(block) =
               [success |-> TRUE,
                pattern_id |-> EncodePatternMetadata(model[s], k - 1),
                dictionary |-> [d \in TopDictionary |->
                  IF d \in 1..DictionarySize(model[s])
                    THEN Dictionary(block, model[s], model[s].patterns[k])[d] ELSE 0],
                target_size |-> LowBits(model[s].target_size, PortBits)]
    BY <1>1, <1>4, CircuitChooses
  <2>2. PICK k \in 1..Len(model[s].patterns) :
          /\ e = CompressedBlock(block, model, s, k)
          /\ TopCompressor(block) =
               [success |-> TRUE,
                pattern_id |-> EncodePatternMetadata(model[s], k - 1),
                dictionary |-> [d \in TopDictionary |->
                  IF d \in 1..DictionarySize(model[s])
                    THEN Dictionary(block, model[s], model[s].patterns[k])[d] ELSE 0],
                target_size |-> LowBits(model[s].target_size, PortBits)]
    BY <2>1
  <2>3. /\ e.compressed = TRUE /\ e.metadata = EncodePatternMetadata(model[s], k - 1)
        /\ e.dictionary = Dictionary(block, model[s], model[s].patterns[k])
        /\ e.allocated_size = model[s].target_size
    BY <2>2 DEF CompressedBlock
  <2>4. DictionarySize(model[s]) \in Nat
    BY <1>1, WellFormedSet DEF Sets
  <2>5. Len(e.dictionary) = DictionarySize(model[s])
    BY <2>3, <2>4 DEF Dictionary
  <2>6. \A d \in TopDictionary : d <= Len(e.dictionary) <=> d \in 1..DictionarySize(model[s])
    BY <1>2, <2>4, <2>5
  <2>7. [d \in TopDictionary |-> IF d <= Len(e.dictionary) THEN e.dictionary[d] ELSE 0]
          = [d \in TopDictionary |->
               IF d \in 1..DictionarySize(model[s])
                 THEN Dictionary(block, model[s], model[s].patterns[k])[d] ELSE 0]
    BY <2>3, <2>6
  <2> QED
    BY <2>2, <2>3, <2>7
<1> QED
  BY <1>3, <1>4

(* The decompressor of a set selects the pattern that decode_pattern_metadata *)
(* decodes, and it alone.                                                  *)
LEMMA SelectedIsDecoded ==
  ASSUME WellFormed(model), NEW s \in Sets, TagFitsWord(model[s]),
         NEW id \in Nat, id < 2^MetadataBits(model[s])
  PROVE  /\ \A index : index \in DecodePatternMetadata(model[s], id)
                         => index + 1 \in Selected(model[s], id) /\ index \in Nat
         /\ \A k \in Selected(model[s], id) :
              /\ k - 1 \in DecodePatternMetadata(model[s], id)
              /\ Min(Selected(model[s], id)) = k /\ k \in Nat
<1> DEFINE set == model[s]
<1>1. s \in 1..Len(model) /\ Len(set.patterns) \in Nat
  BY SetBits DEF Sets
<1>2. ASSUME NEW index \in 0..(Len(set.patterns) - 1)
      PROVE  LowBits(EncodePatternMetadata(set, index), MetadataBits(set)) = EncodePatternMetadata(set, index)
  <2>1. /\ EncodePatternMetadata(set, index) \in Nat
        /\ EncodePatternMetadata(set, index) < 2^MetadataBits(set)
        /\ 2^MetadataBits(set) \in Nat \ {0}
    BY <1>1, MetadataFits
  <2>2. \A x \in Nat, n \in Nat \ {0} : x < n => x % n = x
    OBVIOUS
  <2> QED
    BY <2>1, <2>2 DEF LowBits
<1>3. ASSUME NEW index \in DecodePatternMetadata(set, id)
      PROVE  index + 1 \in Selected(set, id) /\ index \in Nat
  <2>1. index \in 0..(Len(set.patterns) - 1)
    BY DEF DecodePatternMetadata
  <2>2. id = EncodePatternMetadata(set, index)
    BY <1>1, <1>3, <2>1, MetadataDecodes
  <2>3. index + 1 \in 1..Len(set.patterns) /\ (index + 1) - 1 = index
    BY <1>1, <2>1
  <2>4. LowBits(EncodePatternMetadata(set, (index + 1) - 1), MetadataBits(set)) = id
    BY <1>2, <2>1, <2>2, <2>3
  <2> QED
    BY <2>1, <2>3, <2>4 DEF Selected
<1>4. ASSUME NEW k \in Selected(set, id)
      PROVE  k \in Nat /\ k - 1 \in 0..(Len(set.patterns) - 1) /\ EncodePatternMetadata(set, k - 1) = id
  <2>1. k \in 1..Len(set.patterns) /\ LowBits(EncodePatternMetadata(set, k - 1), MetadataBits(set)) = id
    BY DEF Selected
  <2>2. k \in Nat /\ k - 1 \in 0..(Len(set.patterns) - 1)
    BY <1>1, <2>1
  <2> QED
    BY <1>2, <2>1, <2>2
<1>5. ASSUME NEW k \in Selected(set, id)
      PROVE  k - 1 \in DecodePatternMetadata(set, id) /\ Min(Selected(set, id)) = k
  <2>1. k - 1 \in DecodePatternMetadata(set, id)
    BY <1>1, <1>4, MetadataDecodes
  <2>2. \A j \in Selected(set, id) : j - 1 = k - 1 /\ j \in Nat /\ k \in Nat
    <3> TAKE j \in Selected(set, id)
    <3>1. /\ j - 1 \in 0..(Len(set.patterns) - 1) /\ k - 1 \in 0..(Len(set.patterns) - 1)
          /\ EncodePatternMetadata(set, j - 1) = EncodePatternMetadata(set, k - 1)
          /\ j \in Nat /\ k \in Nat
      BY <1>4
    <3> QED
      BY <1>1, <3>1, MetadataSeparates
  <2>3. Selected(set, id) \in SUBSET Nat /\ Selected(set, id) # {}
    BY <2>2
  <2>4. Min(Selected(set, id)) \in Selected(set, id)
    BY <2>3, MinIsLeast
  <2> QED
    BY <2>1, <2>2, <2>4
<1> QED
  BY <1>3, <1>4, <1>5

(* At most one set answers to a target size.                               *)
LEMMA TargetsSelect ==
  ASSUME WellFormed(model), BlockSize <= 2^PortBits, NEW target
  PROVE  /\ SetsOf(target) = {s \in Sets : model[s].target_size = target}
         /\ \A s \in SetsOf(target) : Min(SetsOf(target)) = s
         /\ \A s \in Sets : LowBits(model[s].target_size, PortBits) = model[s].target_size
<1>1. 2^PortBits \in Nat \ {0} /\ Len(model) \in Nat
  BY PowerOfTwo, PortBitsAssumption, LenProperties DEF WellFormed
<1>2. ASSUME NEW s \in Sets
      PROVE  LowBits(model[s].target_size, PortBits) = model[s].target_size
  <2>1. model[s].target_size \in Nat /\ model[s].target_size < 2^PortBits
    BY <1>1, WellFormedSet, BlockSizeAssumption DEF Sets
  <2>2. \A x \in Nat, n \in Nat \ {0} : x < n => x % n = x
    OBVIOUS
  <2> QED
    BY <1>1, <2>1, <2>2 DEF LowBits
<1>3. SetsOf(target) = {s \in Sets : model[s].target_size = target}
  BY <1>2 DEF SetsOf
<1>4. \A s, t \in SetsOf(target) : s = t /\ s \in Nat
  <2>1. \A s, t \in Sets : model[s].target_size = model[t].target_size => s = t
    BY DEF WellFormed, ValidModel, Sets
  <2> QED
    BY <1>1, <1>3, <2>1 DEF Sets
<1>5. ASSUME NEW s \in SetsOf(target) PROVE Min(SetsOf(target)) = s
  <2>1. Min(SetsOf(target)) \in SetsOf(target)
    BY <1>4, <1>5, MinIsLeast
  <2> QED
    BY <1>4, <2>1
<1> QED
  BY <1>2, <1>3, <1>5

(* The decompressor circuit gives back the block the compressor circuit    *)
(* was given.                                                              *)
LEMMA CircuitGivesBack ==
  ASSUME BlockSize <= SymbolLimit, BlockSize <= 2^PortBits, SessionInv, HasCircuit,
         encoded # {}, TopCompressor(block).success
  PROVE  LET out == TopCompressor(block)
         IN  TopDecompressor(out.target_size, out.pattern_id, out.dictionary)
               = [valid |-> TRUE, block |-> block]
<1> DEFINE out == TopCompressor(block)
<1>1. WellFormed(model) /\ block \in Block /\ \A s \in Sets : TagFitsWord(model[s])
  BY SessionModelWellFormed DEF SessionInv, HasCircuit
<1>2. Describing(block, model) # {}
  <2>1. Successful(block) # {}
    BY DEF TopCompressor
  <2> QED
    BY <1>1, <2>1, CircuitLeavesRaw
<1>3. PICK s \in Sets : \E k \in 1..Len(model[s].patterns) :
        /\ Describes(model[s].patterns[k], block)
        /\ out = [success |-> TRUE,
                  pattern_id |-> EncodePatternMetadata(model[s], k - 1),
                  dictionary |-> [d \in TopDictionary |->
                    IF d \in 1..DictionarySize(model[s])
                      THEN Dictionary(block, model[s], model[s].patterns[k])[d] ELSE 0],
                  target_size |-> LowBits(model[s].target_size, PortBits)]
  BY <1>1, <1>2, CircuitChooses
<1>4. PICK k \in 1..Len(model[s].patterns) :
        /\ Describes(model[s].patterns[k], block)
        /\ out = [success |-> TRUE,
                  pattern_id |-> EncodePatternMetadata(model[s], k - 1),
                  dictionary |-> [d \in TopDictionary |->
                    IF d \in 1..DictionarySize(model[s])
                      THEN Dictionary(block, model[s], model[s].patterns[k])[d] ELSE 0],
                  target_size |-> LowBits(model[s].target_size, PortBits)]
  BY <1>3
<1> HIDE DEF out
<1> DEFINE set == model[s]
           p   == model[s].patterns[k]
           id  == EncodePatternMetadata(set, k - 1)
           dictionary == [d \in 1..DictionarySize(set) |-> out.dictionary[d]]
<1>5. s \in 1..Len(model) /\ k - 1 \in 0..(Len(set.patterns) - 1)
  BY <1>1, SetBits DEF Sets
<1>6. id \in Nat /\ id < 2^MetadataBits(set) /\ LowBits(id, MetadataBits(set)) = id
  <2>1. id \in Nat /\ id < 2^MetadataBits(set) /\ 2^MetadataBits(set) \in Nat \ {0}
    BY <1>1, <1>5, MetadataFits
  <2>2. \A x \in Nat, n \in Nat \ {0} : x < n => x % n = x
    OBVIOUS
  <2> QED
    BY <2>1, <2>2 DEF LowBits
<1>7. k \in Selected(set, id) /\ Min(Selected(set, id)) = k
  <2>1. k \in Selected(set, id)
    BY <1>6 DEF Selected
  <2> QED
    BY <1>1, <1>6, <2>1, SelectedIsDecoded
<1>8. \A d \in 1..DictionarySize(set) : dictionary[d] = Dictionary(block, set, p)[d]
  <2>1. 1..DictionarySize(set) \subseteq TopDictionary
    BY <1>1, PortsAreWide
  <2> QED
    BY <1>4, <2>1
<1>9. \A i \in Pos : dictionary[p[i] + 1] = block[i]
  <2>1. p \in [Pos -> Symbol] /\ Rank(p) <= DictionarySize(set) /\ DictionarySize(set) \in Nat
    BY <1>1, <1>5, WellFormedSet
  <2>2. \A i \in Pos : /\ p[i] + 1 \in 1..DictionarySize(set)
                       /\ Dictionary(block, set, p)[p[i] + 1] = block[i]
    BY <1>4, <2>1, DictionaryGivesBytes
  <2> HIDE DEF dictionary
  <2> QED
    BY <1>8, <2>2
<1>10. [i \in Pos |-> dictionary[p[i] + 1]] = block
  BY <1>1, <1>9 DEF Block
<1>11. Decompressor(set, id, dictionary) = [valid |-> TRUE, block |-> [i \in Pos |-> dictionary[p[i] + 1]]]
  <2>1. Selected(set, id) # {} /\ Min(Selected(set, id)) = k
    BY <1>7
  <2> HIDE DEF id, dictionary, set
  <2>2. Decompressor(set, id, dictionary) =
          [valid |-> TRUE,
           block |-> [i \in Pos |-> dictionary[set.patterns[Min(Selected(set, id))][i] + 1]]]
    BY <2>1, Zenon DEF Decompressor
  <2> QED
    BY <2>1, <2>2 DEF set
<1>12. s \in SetsOf(out.target_size) /\ Min(SetsOf(out.target_size)) = s
  <2>1. s \in SetsOf(out.target_size)
    BY <1>4 DEF SetsOf
  <2> QED
    BY <1>1, <2>1, TargetsSelect
<1>13. Sliced(set, out.pattern_id, out.dictionary) = Decompressor(set, id, dictionary)
  BY <1>4, <1>6 DEF Sliced
<1>14. TopDecompressor(out.target_size, out.pattern_id, out.dictionary)
         = Sliced(set, out.pattern_id, out.dictionary)
  BY <1>12 DEF TopDecompressor
<1> QED
  BY <1>10, <1>11, <1>13, <1>14 DEF out

(* What the decompressor circuit and decode_pattern_metadata() make of the *)
(* same ports, as DecompressorAgrees compares them.                        *)
AnswersAlike(target, id, dictionary) ==
  LET got     == TopDecompressor(target, id, dictionary)
      decoded ==
        UNION {{<<s, index>> : index \in
            DecodePatternMetadata(model[s], LowBits(id, MetadataBits(model[s])))}
          : s \in {s \in Sets : model[s].target_size = target}}
  IN  /\ got.valid <=> decoded # {}
      /\ \A c \in decoded : \A i \in Pos :
           got.block[i] = dictionary[model[c[1]].patterns[c[2] + 1][i] + 1]

(* Whatever target size and metadata the ports carry, the decompressor     *)
(* circuit is valid when the software decodes them, and uses the pattern   *)
(* the software decodes.                                                   *)
LEMMA CircuitDecodes ==
  ASSUME BlockSize <= SymbolLimit, BlockSize <= 2^PortBits, WellFormed(model),
         \A s \in Sets : TagFitsWord(model[s]),
         NEW target, NEW id \in Nat, NEW dictionary
  PROVE  AnswersAlike(target, id, dictionary)
<1> DEFINE got == TopDecompressor(target, id, dictionary)
           low(s) == LowBits(id, MetadataBits(model[s]))
           decoded ==
             UNION {{<<s, index>> : index \in DecodePatternMetadata(model[s], low(s))}
               : s \in {s \in Sets : model[s].target_size = target}}
<1>1. SetsOf(target) = {s \in Sets : model[s].target_size = target}
  BY TargetsSelect
<1>2. CASE SetsOf(target) = {}
  <2>1. decoded = {}
    BY <1>1, <1>2
  <2>2. got.valid = FALSE
    BY <1>2 DEF TopDecompressor
  <2> QED
    BY <2>1, <2>2 DEF AnswersAlike
<1>3. ASSUME NEW s \in SetsOf(target)
      PROVE  /\ got.valid <=> decoded # {}
             /\ \A c \in decoded : \A i \in Pos :
                  got.block[i] = dictionary[model[c[1]].patterns[c[2] + 1][i] + 1]
  <2>1. s \in Sets /\ Min(SetsOf(target)) = s /\ \A t \in SetsOf(target) : t = s
    BY <1>1, TargetsSelect
  <2> DEFINE set == model[s]
             slice == [d \in 1..DictionarySize(set) |-> dictionary[d]]
  <2>2. got = Decompressor(set, low(s), slice)
    BY <1>3, <2>1 DEF TopDecompressor, Sliced
  <2>3. low(s) \in Nat /\ low(s) < 2^MetadataBits(set)
    <3>1. 2^MetadataBits(set) \in Nat \ {0}
      BY <2>1, SetBits, PowerOfTwo DEF Sets
    <3>2. \A x \in Nat, n \in Nat \ {0} : x % n \in Nat /\ x % n < n
      OBVIOUS
    <3> QED
      BY <3>1, <3>2 DEF LowBits
  <2>4. decoded = {<<s, index>> : index \in DecodePatternMetadata(set, low(s))}
    BY <1>1, <2>1
  <2> HIDE DEF low, got, decoded
  <2>5. \A index \in DecodePatternMetadata(set, low(s)) :
          index + 1 \in Selected(set, low(s)) /\ index \in Nat
    BY <2>1, <2>3, SelectedIsDecoded
  <2>6. \A k \in Selected(set, low(s)) :
          /\ k - 1 \in DecodePatternMetadata(set, low(s))
          /\ Min(Selected(set, low(s))) = k
    BY <2>1, <2>3, SelectedIsDecoded
  <2>7. got.valid <=> decoded # {}
    <3>1. decoded # {} <=> Selected(set, low(s)) # {}
      <4>1. decoded # {} <=> DecodePatternMetadata(set, low(s)) # {}
        BY <2>4
      <4>2. DecodePatternMetadata(set, low(s)) # {} <=> Selected(set, low(s)) # {}
        BY <2>5, <2>6
      <4> QED
        BY <4>1, <4>2
    <3>2. got.valid <=> Selected(set, low(s)) # {}
      BY <2>2 DEF Decompressor
    <3> QED
      BY <3>1, <3>2
  <2>8. ASSUME NEW c \in decoded, NEW i \in Pos
        PROVE  got.block[i] = dictionary[model[c[1]].patterns[c[2] + 1][i] + 1]
    <3>1. PICK index \in DecodePatternMetadata(set, low(s)) : c = <<s, index>>
      BY <2>4, <2>8
    <3>2. index + 1 \in Selected(set, low(s)) /\ Min(Selected(set, low(s))) = index + 1
      BY <2>5, <2>6
    <3> DEFINE p == set.patterns[index + 1]
    <3>3. got = [valid |-> TRUE, block |-> [j \in Pos |-> slice[p[j] + 1]]]
      BY <2>2, <3>2 DEF Decompressor
    <3>4. p[i] + 1 \in 1..DictionarySize(set)
      <4>1. index + 1 \in 1..Len(set.patterns)
        BY <3>2 DEF Selected
      <4>2. p \in [Pos -> Symbol] /\ Rank(p) <= DictionarySize(set) /\ DictionarySize(set) \in Nat
        BY <2>1, <4>1, WellFormedSet DEF Sets
      <4>3. p[i] \in Nat /\ p[i] < Rank(p) /\ Rank(p) \in Nat
        BY <4>2, RankExceedsSymbols, SymbolLimitAssumption DEF Symbol
      <4> QED
        BY <4>2, <4>3
    <3> HIDE DEF p
    <3>5. got.block[i] = dictionary[p[i] + 1]
      BY <3>3, <3>4
    <3> QED
      BY <3>1, <3>5 DEF p
  <2> QED
    BY <2>7, <2>8
<1> QED
  BY <1>2, <1>3 DEF AnswersAlike

(* Of a model whose tags fit a word, whose blocks the 16-bit ports can     *)
(* count, the generated circuits compress and decompress as the software   *)
(* does: every block, every target size and every value of the metadata    *)
(* port.                                                                   *)
THEOREM CircuitsAgreeWithSoftware ==
  ASSUME BlockSize <= SymbolLimit, BlockSize <= 2^PortBits
  PROVE  Spec => []CircuitsAgree
<1>1. SessionInv => CircuitsAgree
  <2> SUFFICES ASSUME SessionInv PROVE CompressorAgrees /\ DecompressorAgrees
    BY DEF CircuitsAgree
  <2>1. CompressorAgrees
    BY CompressorsAgree
  <2>2. ASSUME HasCircuit, encoded # {} PROVE DecompressorAgrees
    <3>1. WellFormed(model) /\ \A s \in Sets : TagFitsWord(model[s])
      BY <2>2, SessionModelWellFormed DEF SessionInv, HasCircuit
    <3>2. \A id \in 0..(2^TopIdBits - 1) : id \in Nat
      <4>1. 2^TopIdBits \in Nat
        BY <3>1, PortsAreWide, PowerOfTwo
      <4> QED
        BY <4>1
    <3> DEFINE out == TopCompressor(block)
    <3>3. out.success =>
            TopDecompressor(out.target_size, out.pattern_id, out.dictionary)
              = [valid |-> TRUE, block |-> block]
      BY <2>2, CircuitGivesBack
    <3>4. \A target \in 0..(2^PortBits - 1), id \in 0..(2^TopIdBits - 1) :
            AnswersAlike(target, id, out.dictionary)
      <4> HIDE DEF out
      <4> TAKE target \in 0..(2^PortBits - 1), id \in 0..(2^TopIdBits - 1)
      <4> QED
        BY <3>1, <3>2, CircuitDecodes
    <3> QED
      BY <3>3, <3>4 DEF DecompressorAgrees, AnswersAlike
  <2>3. ASSUME ~(HasCircuit /\ encoded # {}) PROVE DecompressorAgrees
    BY <2>3 DEF DecompressorAgrees
  <2> QED
    BY <2>1, <2>2, <2>3
<1> QED
  BY <1>1, SessionInvHolds, PTL

-----------------------------------------------------------------------------
(* Containers that reach their file only in part: what decompress accepts  *)
(* is the input, for every input, model and moment of a failure.           *)

-----------------------------------------------------------------------------
(* The layout of a file                                                    *)

Fields == Nat \cup {Magic}

(* The fields of every block, and the file up to the first n blocks.       *)
Recorded(o, m, v) == [i \in 1..Len(o.blocks) |-> BlockFields(o.blocks[i], m, v)]

UpTo(o, m, v, n) == HeaderFields(o, v) \o Firsts(Recorded(o, m, v), n)

LEMMA InputTypes ==
  ASSUME NEW o \in Originals, NEW m \in FileModels
  PROVE  /\ WellFormed(m)
         /\ o.blocks \in Seq(Block) /\ Len(o.blocks) \in Nat
         /\ o.tail \in Seq(Byte) /\ Len(o.tail) \in Nat /\ Len(o.tail) < BlockSize
         /\ \A i \in 1..Len(o.blocks) : o.blocks[i] \in Block
<1>1. /\ WellFormed(m) /\ o.blocks \in Seq(Block)
      /\ o.tail \in Seq(Byte) /\ Len(o.tail) < BlockSize
  BY ContainerAssumption DEF WellFormed
<1> QED
  BY <1>1, LenProperties, ElementOfSeq

LEMMA BlockIsSequence ==
  ASSUME NEW b \in Block
  PROVE  b \in Seq(Byte) /\ Len(b) = BlockSize
BY BlockSizeAssumption DEF Block, Pos

LEMMA EncodeIsNatural ==
  ASSUME NEW m, WellFormed(m), NEW s \in 1..Len(m), NEW index \in Nat
  PROVE  EncodePatternMetadata(m[s], index) \in Nat
<1>1. CASE m[s].tag_bits = 0
  BY <1>1 DEF EncodePatternMetadata
<1>2. CASE m[s].tag_bits # 0
  <2> DEFINE v == m[s].tag_value
             n == 2^PatternIdBits(m[s])
             w == 2^WordBits
  <2>1. v \in Nat /\ n \in Nat /\ w \in Nat \ {0}
    BY SetBits, PowerOfTwo, BitsAssumption
  <2>2. EncodePatternMetadata(m[s], index) = ((v * n) % w) + index
    BY <1>2 DEF EncodePatternMetadata, ShiftLeft
  <2> HIDE DEF v, n, w
  <2>3. \A a, c \in Nat : a * c \in Nat
    OBVIOUS
  <2>4. \A a \in Nat, c \in Nat \ {0} : a % c \in Nat
    OBVIOUS
  <2>5. v * n \in Nat
    BY <2>1, <2>3
  <2>6. (v * n) % w \in Nat
    BY <2>1, <2>4, <2>5
  <2> QED
    BY <2>2, <2>6
<1> QED
  BY <1>1, <1>2

LEMMA DictionaryIsBytes ==
  ASSUME NEW b \in Block, NEW set, DictionarySize(set) \in Nat, NEW p
  PROVE  Dictionary(b, set, p) \in Seq(Byte) /\ Len(Dictionary(b, set, p)) = DictionarySize(set)
<1>1. ASSUME NEW d \in 1..DictionarySize(set) PROVE Dictionary(b, set, p)[d] \in Byte
  <2>1. CASE \E i \in Pos : p[i] = d - 1
    <3>1. PICK i \in Pos : p[i] = d - 1
      BY <2>1
    <3>2. PICK a \in FirstPositions(p) : p[a] = p[i]
      BY FirstPositionExists
    <3>3. a \in Pos /\ p[a] = d - 1 /\ \A h \in 1..(a - 1) : p[h] # d - 1
      BY <3>1, <3>2 DEF FirstPositions
    <3> DEFINE w == CHOOSE j \in Pos : p[j] = d - 1 /\ \A h \in 1..(j - 1) : p[h] # d - 1
    <3>4. w \in Pos
      BY <3>3
    <3>5. Dictionary(b, set, p)[d] = b[w]
      BY <2>1 DEF Dictionary
    <3> HIDE DEF w
    <3> QED
      BY <3>4, <3>5 DEF Block
  <2>2. CASE ~\E i \in Pos : p[i] = d - 1
    BY <2>2, ByteAssumption DEF Dictionary
  <2> QED
    BY <2>1, <2>2
<1>2. Dictionary(b, set, p) = [d \in 1..DictionarySize(set) |-> Dictionary(b, set, p)[d]]
  BY DEF Dictionary
<1> QED
  BY <1>1, <1>2

LEMMA FlagFirst ==
  /\ \A x, y \in Nat : <<1>> \o <<x, y>> = <<1, x, y>>
  /\ \A x, y, z \in Nat : <<1>> \o <<x, y, z>> = <<1, x, y, z>>
<1>1. ASSUME NEW x \in Nat, NEW y \in Nat PROVE <<1>> \o <<x, y>> = <<1, x, y>>
  <2> DEFINE a == <<1>>
             b == <<x, y>>
             c == <<1, x, y>>
  <2>1. /\ a \in Seq(Nat) /\ b \in Seq(Nat) /\ c \in Seq(Nat)
        /\ Len(a) = 1 /\ Len(b) = 2 /\ Len(c) = 3
        /\ a[1] = 1 /\ b[1] = x /\ b[2] = y /\ c[1] = 1 /\ c[2] = x /\ c[3] = y
    OBVIOUS
  <2> HIDE DEF a, b, c
  <2>2. /\ a \o b \in Seq(Nat) /\ Len(a \o b) = 3
        /\ \A i \in 1..3 : (a \o b)[i] = IF i <= 1 THEN a[i] ELSE b[i - 1]
    <3>1. /\ a \o b \in Seq(Nat) /\ Len(a \o b) = Len(a) + Len(b)
          /\ \A i \in 1 .. Len(a) + Len(b) :
               (a \o b)[i] = IF i <= Len(a) THEN a[i] ELSE b[i - Len(a)]
      BY <2>1, ConcatProperties
    <3>2. Len(a) + Len(b) = 3 /\ 1 .. Len(a) + Len(b) = 1..3
      BY <2>1
    <3> QED
      BY <2>1, <3>1, <3>2
  <2>3. (a \o b)[1] = a[1] /\ (a \o b)[2] = b[1] /\ (a \o b)[3] = b[2]
    BY <2>2
  <2>4. \A i \in 1..3 : (a \o b)[i] = c[i]
    <3>1. \A i \in 1..3 : i = 1 \/ i = 2 \/ i = 3
      OBVIOUS
    <3> QED
      BY <2>1, <2>3, <3>1
  <2>5. a \o b = c
    BY <2>1, <2>2, <2>4, SeqEqual
  <2> QED
    BY <2>5 DEF a, b, c
<1>2. ASSUME NEW x \in Nat, NEW y \in Nat, NEW z \in Nat
      PROVE  <<1>> \o <<x, y, z>> = <<1, x, y, z>>
  <2> DEFINE a == <<1>>
             b == <<x, y, z>>
             c == <<1, x, y, z>>
  <2>1. /\ a \in Seq(Nat) /\ b \in Seq(Nat) /\ c \in Seq(Nat)
        /\ Len(a) = 1 /\ Len(b) = 3 /\ Len(c) = 4
        /\ a[1] = 1 /\ b[1] = x /\ b[2] = y /\ b[3] = z
        /\ c[1] = 1 /\ c[2] = x /\ c[3] = y /\ c[4] = z
    OBVIOUS
  <2> HIDE DEF a, b, c
  <2>2. /\ a \o b \in Seq(Nat) /\ Len(a \o b) = 4
        /\ \A i \in 1..4 : (a \o b)[i] = IF i <= 1 THEN a[i] ELSE b[i - 1]
    <3>1. /\ a \o b \in Seq(Nat) /\ Len(a \o b) = Len(a) + Len(b)
          /\ \A i \in 1 .. Len(a) + Len(b) :
               (a \o b)[i] = IF i <= Len(a) THEN a[i] ELSE b[i - Len(a)]
      BY <2>1, ConcatProperties
    <3>2. Len(a) + Len(b) = 4 /\ 1 .. Len(a) + Len(b) = 1..4
      BY <2>1
    <3> QED
      BY <2>1, <3>1, <3>2
  <2>3. (a \o b)[1] = a[1] /\ (a \o b)[2] = b[1] /\ (a \o b)[3] = b[2] /\ (a \o b)[4] = b[3]
    BY SMTT(30), <2>2
  <2>4. \A i \in 1..4 : (a \o b)[i] = c[i]
    <3>1. \A i \in 1..4 : i = 1 \/ i = 2 \/ i = 3 \/ i = 4
      OBVIOUS
    <3> QED
      BY <2>1, <2>3, <3>1
  <2>5. a \o b = c
    BY <2>1, <2>2, <2>4, SeqEqual
  <2> QED
    BY <2>5 DEF a, b, c
<1> QED
  BY <1>1, <1>2

(* The fields of a block are its bytes, or name the set and the pattern.   *)

LEMMA BlockShape ==
  ASSUME NEW m, WellFormed(m), NEW b \in Block, NEW v \in {1, 2}
  PROVE  \/ BlockFields(b, m, v) = <<0>> \o b
         \/ \E s \in 1..Len(m) : \E k \in 1..Len(m[s].patterns) :
              /\ Describes(m[s].patterns[k], b)
              /\ Compress(b, m) = CompressedBlock(b, m, s, k)
              /\ Dictionary(b, m[s], m[s].patterns[k]) \in Seq(Byte)
              /\ Len(Dictionary(b, m[s], m[s].patterns[k])) = DictionarySize(m[s])
              /\ s \in Nat \ {0} /\ k \in Nat \ {0} /\ DictionarySize(m[s]) \in Nat
              /\ m[s].target_size \in Nat /\ EncodePatternMetadata(m[s], k - 1) \in Nat
              /\ BlockFields(b, m, v) =
                   (IF v = 1 THEN <<1, s - 1, k - 1, DictionarySize(m[s])>>
                    ELSE <<1, m[s].target_size, EncodePatternMetadata(m[s], k - 1)>>)
                   \o Dictionary(b, m[s], m[s].patterns[k])
<1>1. CASE Describing(b, m) = {}
  BY <1>1 DEF BlockFields, Compress, RawBlock
<1>2. CASE Describing(b, m) # {}
  <2>1. PICK s \in 1..Len(m) : \E k \in 1..Len(m[s].patterns) :
          Describes(m[s].patterns[k], b) /\ Compress(b, m) = CompressedBlock(b, m, s, k)
    BY <1>2, CompressChooses
  <2>2. PICK k \in 1..Len(m[s].patterns) :
          Describes(m[s].patterns[k], b) /\ Compress(b, m) = CompressedBlock(b, m, s, k)
    BY <2>1
  <2> DEFINE dictionary == Dictionary(b, m[s], m[s].patterns[k])
             e == Compress(b, m)
  <2>3. /\ DictionarySize(m[s]) \in Nat /\ m[s].target_size \in Nat
        /\ dictionary \in Seq(Byte) /\ Len(dictionary) = DictionarySize(m[s])
    BY WellFormedSet, DictionaryIsBytes
  <2>4. s \in Nat \ {0} /\ k \in Nat \ {0} /\ k - 1 \in Nat
    <3>1. Len(m) \in Nat /\ Len(m[s].patterns) \in Nat
      BY SetBits, LenProperties DEF WellFormed
    <3> QED
      BY <3>1
  <2>5. EncodePatternMetadata(m[s], k - 1) \in Nat
    BY <2>4, EncodeIsNatural
  <2>6. /\ e.compressed = TRUE /\ e.set_index = s /\ e.pattern_index = k - 1
        /\ e.metadata = EncodePatternMetadata(m[s], k - 1)
        /\ e.allocated_size = m[s].target_size /\ e.dictionary = dictionary
    BY <2>2 DEF CompressedBlock
  <2> HIDE DEF e, dictionary
  <2>7. BlockFields(b, m, v) =
          <<1>> \o (IF v = 1 THEN <<s - 1, k - 1, DictionarySize(m[s])>>
                    ELSE <<m[s].target_size, EncodePatternMetadata(m[s], k - 1)>>)
                \o dictionary
    BY <2>3, <2>6 DEF BlockFields, LegacyIndexFields, IndexFields, e
  <2>8. /\ <<1>> \o <<s - 1, k - 1, DictionarySize(m[s])>> = <<1, s - 1, k - 1, DictionarySize(m[s])>>
        /\ <<1>> \o <<m[s].target_size, EncodePatternMetadata(m[s], k - 1)>>
             = <<1, m[s].target_size, EncodePatternMetadata(m[s], k - 1)>>
    <3>1. s - 1 \in Nat /\ k - 1 \in Nat
      BY <2>4
    <3> QED
      BY <2>3, <2>5, <3>1, FlagFirst
  <2>9. BlockFields(b, m, v) =
          (IF v = 1 THEN <<1, s - 1, k - 1, DictionarySize(m[s])>>
           ELSE <<1, m[s].target_size, EncodePatternMetadata(m[s], k - 1)>>) \o dictionary
    BY <2>7, <2>8
  <2> QED
    BY <2>2, <2>3, <2>4, <2>5, <2>9 DEF dictionary
<1> QED
  BY <1>1, <1>2

LEMMA BlockFieldsTypes ==
  ASSUME NEW m, WellFormed(m), NEW b \in Block, NEW v \in {1, 2}
  PROVE  BlockFields(b, m, v) \in Seq(Fields)
<1>0. Byte \subseteq Fields /\ Nat \subseteq Fields
  BY ByteAssumption DEF Fields
<1>1. b \in Seq(Fields)
  BY <1>0, BlockIsSequence, SeqMonotonic
<1>2. CASE BlockFields(b, m, v) = <<0>> \o b
  <2>1. <<0>> \in Seq(Fields)
    BY DEF Fields
  <2> QED
    BY <1>1, <1>2, <2>1, ConcatProperties
<1>3. ASSUME NEW s \in 1..Len(m), NEW k \in 1..Len(m[s].patterns),
             Dictionary(b, m[s], m[s].patterns[k]) \in Seq(Byte),
             s \in Nat \ {0}, k \in Nat \ {0}, DictionarySize(m[s]) \in Nat,
             m[s].target_size \in Nat, EncodePatternMetadata(m[s], k - 1) \in Nat,
             BlockFields(b, m, v) =
                   (IF v = 1 THEN <<1, s - 1, k - 1, DictionarySize(m[s])>>
                    ELSE <<1, m[s].target_size, EncodePatternMetadata(m[s], k - 1)>>)
                   \o Dictionary(b, m[s], m[s].patterns[k])
      PROVE  BlockFields(b, m, v) \in Seq(Fields)
  <2>1. Dictionary(b, m[s], m[s].patterns[k]) \in Seq(Fields)
    BY <1>0, <1>3, SeqMonotonic
  <2>2. \A x, y, z \in Nat : <<1, x, y, z>> \in Seq(Fields) /\ <<1, x, y>> \in Seq(Fields)
    BY <1>0
  <2>3. s - 1 \in Nat /\ k - 1 \in Nat
    BY SMTT(30), <1>3
  <2>4. <<1, s - 1, k - 1, DictionarySize(m[s])>> \in Seq(Fields)
    BY <1>3, <2>2, <2>3
  <2>5. <<1, m[s].target_size, EncodePatternMetadata(m[s], k - 1)>> \in Seq(Fields)
    BY <1>3, <2>2, <2>3
  <2>6. (IF v = 1 THEN <<1, s - 1, k - 1, DictionarySize(m[s])>>
         ELSE <<1, m[s].target_size, EncodePatternMetadata(m[s], k - 1)>>) \in Seq(Fields)
    BY <2>4, <2>5
  <2> QED
    BY <1>3, <2>1, <2>6, ConcatProperties
<1> QED
  BY <1>2, <1>3, BlockShape

(* The file is the header, the blocks one after the other, and the tail.   *)
LEMMA Layout ==
  ASSUME NEW o \in Originals, NEW m \in FileModels, NEW v \in {1, 2}
  PROVE  /\ HeaderFields(o, v) \in Seq(Fields) /\ Len(HeaderFields(o, v)) = 5
         /\ TailFields(o) \in Seq(Fields)
         /\ WholeFile(o, m, v) \in Seq(Fields)
         /\ WholeFile(o, m, v) = UpTo(o, m, v, Len(o.blocks)) \o TailFields(o)
         /\ UpTo(o, m, v, 0) = HeaderFields(o, v)
         /\ \A n \in 0..Len(o.blocks) : UpTo(o, m, v, n) \in Seq(Fields)
         /\ \A n \in 0..(Len(o.blocks) - 1) :
              UpTo(o, m, v, n + 1) = UpTo(o, m, v, n) \o BlockFields(o.blocks[n + 1], m, v)
<1> DEFINE N == Len(o.blocks)
           R == Recorded(o, m, v)
           H == HeaderFields(o, v)
<1>0. WellFormed(m) /\ N \in Nat /\ \A i \in 1..N : o.blocks[i] \in Block
  BY InputTypes
<1>1. R \in Seq(Seq(Fields)) /\ Len(R) = N /\ \A i \in 1..N : R[i] = BlockFields(o.blocks[i], m, v)
  <2>1. \A i \in 1..N : BlockFields(o.blocks[i], m, v) \in Seq(Fields)
    BY <1>0, BlockFieldsTypes
  <2> QED
    BY <1>0, <2>1 DEF Recorded
<1>2. H \in Seq(Fields) /\ Len(H) = 5
  <2>1. Len(Bytes(o)) \in Nat
    <3>1. o.blocks \in Seq(Seq(Byte)) /\ o.tail \in Seq(Byte)
      <4>1. Block \subseteq Seq(Byte)
        BY BlockIsSequence
      <4> QED
        BY <4>1, InputTypes, SeqMonotonic
    <3>2. FlattenSeq(o.blocks) \in Seq(Byte)
      BY <1>0, <3>1, FirstsSteps
    <3> QED
      BY <3>1, <3>2, ConcatProperties, LenProperties DEF Bytes
  <2>2. v \in Nat /\ BlockSize \in Nat /\ N \in Nat /\ Magic \in Fields /\ Nat \subseteq Fields
    BY <1>0, BlockSizeAssumption DEF Fields
  <2> QED
    BY <2>1, <2>2 DEF HeaderFields
<1>3. TailFields(o) \in Seq(Fields)
  <2>1. o.tail \in Seq(Fields) /\ Len(o.tail) \in Fields
    <3>1. Byte \subseteq Fields
      BY ByteAssumption DEF Fields
    <3> QED
      BY <3>1, InputTypes, SeqMonotonic DEF Fields
  <2> QED
    BY <2>1, ConcatProperties DEF TailFields
<1> HIDE DEF H, R, N
<1>4. /\ Firsts(R, 0) = << >> /\ Firsts(R, N) = FlattenSeq(R)
      /\ \A n \in 0..N : Firsts(R, n) \in Seq(Fields)
      /\ \A n \in 0..(N - 1) : Firsts(R, n + 1) = Firsts(R, n) \o R[n + 1]
  BY <1>1, FirstsSteps
<1>5. UpTo(o, m, v, 0) = H
  BY <1>2, <1>4, ConcatEmptySeq DEF UpTo, H, R
<1>6. \A n \in 0..N : UpTo(o, m, v, n) \in Seq(Fields)
  BY <1>2, <1>4, ConcatProperties DEF UpTo, H, R
<1>7. ASSUME NEW n \in 0..(N - 1)
      PROVE  UpTo(o, m, v, n + 1) = UpTo(o, m, v, n) \o BlockFields(o.blocks[n + 1], m, v)
  <2>1. n \in 0..N /\ n + 1 \in 1..N
    BY <1>0 DEF N
  <2>2. R[n + 1] \in Seq(Fields) /\ R[n + 1] = BlockFields(o.blocks[n + 1], m, v)
    BY <1>1, <2>1, ElementOfSeq
  <2>3. H \o (Firsts(R, n) \o R[n + 1]) = (H \o Firsts(R, n)) \o R[n + 1]
    <3> DEFINE P == Firsts(R, n)
               B == R[n + 1]
    <3>1. P \in Seq(Fields) /\ B \in Seq(Fields) /\ H \in Seq(Fields)
      BY <1>2, <1>4, <2>1, <2>2
    <3> HIDE DEF P, B
    <3>2. (H \o P) \o B = H \o (P \o B)
      BY <3>1, ConcatAssociative
    <3> QED
      BY <3>2 DEF P, B
  <2> QED
    BY <1>4, <2>2, <2>3 DEF UpTo, H, R
<1>8. WholeFile(o, m, v) = UpTo(o, m, v, N) \o TailFields(o)
  BY <1>4 DEF WholeFile, UpTo, H, R, Recorded, N
<1>9. WholeFile(o, m, v) \in Seq(Fields)
  <2>1. N \in 0..N
    BY <1>0 DEF N
  <2> QED
    BY <1>3, <1>6, <1>8, <2>1, ConcatProperties
<1> QED
  BY <1>2, <1>3, <1>5, <1>6, <1>7, <1>8, <1>9 DEF H, N

(* Every prefix begins the file.                                           *)
LEMMA UpToBegins ==
  ASSUME NEW o \in Originals, NEW m \in FileModels, NEW v \in {1, 2}
  PROVE  \A n \in 0..Len(o.blocks) : Begins(UpTo(o, m, v, n), WholeFile(o, m, v))
<1> DEFINE N == Len(o.blocks)
           W == WholeFile(o, m, v)
           U(n) == UpTo(o, m, v, n)
           F(n) == BlockFields(o.blocks[n], m, v)
           Bad == {d \in 0..N : ~Begins(U(N - d), W)}
<1>1. WellFormed(m) /\ N \in Nat /\ \A i \in 1..N : F(i) \in Seq(Fields)
  BY InputTypes, BlockFieldsTypes
<1>2. /\ W \in Seq(Fields) /\ TailFields(o) \in Seq(Fields) /\ W = U(N) \o TailFields(o)
      /\ \A n \in 0..N : U(n) \in Seq(Fields)
      /\ \A n \in 0..(N - 1) : U(n + 1) = U(n) \o F(n + 1)
  BY Layout
<1> HIDE DEF N, W, U, F
<1>3. ASSUME Bad # {} PROVE FALSE
  <2>1. PICK d \in Bad : \A j \in Bad : d <= j
    <3>1. Bad \in SUBSET Nat
      BY <1>1
    <3> HIDE DEF Bad
    <3> QED
      BY <1>3, <3>1, LeastNatural
  <2>2. d # 0
    <3>1. N \in 0..N /\ N - 0 = N
      BY <1>1
    <3>2. U(N) \in Seq(Fields) /\ W = U(N) \o TailFields(o)
      BY <1>2, <3>1
    <3>3. Begins(U(N), W)
      <4> DEFINE s == U(N)
                 u == TailFields(o)
      <4>1. s \in Seq(Fields) /\ u \in Seq(Fields) /\ W = s \o u
        BY <1>2, <3>2
      <4> HIDE DEF s, u
      <4>2. Begins(s, W)
        BY <4>1, BeginsConcat
      <4> QED
        BY <4>2 DEF s
    <3> QED
      BY <2>1, <3>1, <3>3
  <2>3. /\ d - 1 \in 0..N /\ d - 1 < d /\ d - 1 \notin Bad
        /\ N - d \in 0..(N - 1) /\ N - d \in 0..N /\ (N - d) + 1 = N - (d - 1)
        /\ N - (d - 1) \in 0..N /\ (N - d) + 1 \in 1..N
    <3>1. d \in 0..N
      OBVIOUS
    <3>2. /\ d - 1 \in 0..N /\ d - 1 < d
          /\ N - d \in 0..(N - 1) /\ N - d \in 0..N /\ (N - d) + 1 = N - (d - 1)
          /\ N - (d - 1) \in 0..N /\ (N - d) + 1 \in 1..N
      BY <1>1, <2>2, <3>1
    <3>3. \A j \in Bad : ~(j < d)
      <4>1. Bad \subseteq 0..N
        OBVIOUS
      <4> HIDE DEF Bad
      <4> QED
        BY <1>1, <2>1, <3>1, <4>1
    <3> QED
      BY <3>2, <3>3
  <2> DEFINE s == U(N - d)
             t == U(N - (d - 1))
             u == F((N - d) + 1)
  <2>4. s \in Seq(Fields) /\ t \in Seq(Fields) /\ u \in Seq(Fields) /\ t = s \o u
    BY <1>1, <1>2, <2>3
  <2>5. Begins(t, W)
    BY <2>3
  <2> HIDE DEF s, t, u
  <2>6. Begins(s, t)
    BY <2>4, BeginsConcat
  <2>7. Begins(s, W)
    BY <1>2, <2>4, <2>5, <2>6, BeginsTransitive
  <2> QED
    BY <2>1, <2>7 DEF s
<1>4. ASSUME NEW n \in 0..N PROVE Begins(U(n), W)
  <2>1. N - n \in 0..N /\ N - (N - n) = n
    BY <1>1
  <2>2. N - n \notin Bad
    <3> HIDE DEF Bad
    <3> QED
      BY <1>3
  <2> QED
    BY <2>1, <2>2
<1> QED
  BY <1>4 DEF N, U, W

(* Where the header, each block and the tail are in the file.              *)
LEMMA Places ==
  ASSUME NEW o \in Originals, NEW m \in FileModels, NEW v \in {1, 2}
  PROVE  /\ Len(UpTo(o, m, v, 0)) = 5
         /\ \A i \in 1..5 : WholeFile(o, m, v)[i] = HeaderFields(o, v)[i]
         /\ \A n \in 0..Len(o.blocks) : Len(UpTo(o, m, v, n)) \in Nat
         /\ \A n \in 0..(Len(o.blocks) - 1) :
              /\ Len(UpTo(o, m, v, n + 1))
                   = Len(UpTo(o, m, v, n)) + Len(BlockFields(o.blocks[n + 1], m, v))
              /\ Len(UpTo(o, m, v, n + 1)) <= Len(WholeFile(o, m, v))
              /\ \A i \in 1..Len(BlockFields(o.blocks[n + 1], m, v)) :
                   WholeFile(o, m, v)[Len(UpTo(o, m, v, n)) + i]
                     = BlockFields(o.blocks[n + 1], m, v)[i]
         /\ Len(WholeFile(o, m, v)) = Len(UpTo(o, m, v, Len(o.blocks))) + Len(TailFields(o))
         /\ \A i \in 1..Len(TailFields(o)) :
              WholeFile(o, m, v)[Len(UpTo(o, m, v, Len(o.blocks))) + i] = TailFields(o)[i]
<1> DEFINE N == Len(o.blocks)
           W == WholeFile(o, m, v)
           H == HeaderFields(o, v)
           T == TailFields(o)
           U(n) == UpTo(o, m, v, n)
           F(n) == BlockFields(o.blocks[n], m, v)
<1>1. WellFormed(m) /\ N \in Nat /\ \A i \in 1..N : F(i) \in Seq(Fields)
  BY InputTypes, BlockFieldsTypes
<1>2. /\ W \in Seq(Fields) /\ T \in Seq(Fields) /\ W = U(N) \o T
      /\ H \in Seq(Fields) /\ Len(H) = 5 /\ U(0) = H
      /\ \A n \in 0..N : U(n) \in Seq(Fields)
      /\ \A n \in 0..(N - 1) : U(n + 1) = U(n) \o F(n + 1)
  BY Layout
<1>3. \A n \in 0..N : Begins(U(n), W)
  BY UpToBegins
<1> HIDE DEF N, W, H, T, U, F
<1>4. Len(U(0)) = 5 /\ \A i \in 1..5 : W[i] = H[i]
  <2>1. Begins(H, W) /\ Len(H) = 5
    <3>1. 0 \in 0..N
      BY <1>1
    <3> QED
      BY <1>2, <1>3, <3>1
  <2> QED
    BY <1>2, <2>1 DEF Begins
<1>5. \A n \in 0..N : Len(U(n)) \in Nat
  BY <1>2, LenProperties
<1>6. ASSUME NEW n \in 0..(N - 1)
      PROVE  /\ Len(U(n + 1)) = Len(U(n)) + Len(F(n + 1))
             /\ Len(U(n + 1)) <= Len(W)
             /\ \A i \in 1..Len(F(n + 1)) : W[Len(U(n)) + i] = F(n + 1)[i]
  <2>1. n \in 0..N /\ n + 1 \in 0..N /\ n + 1 \in 1..N
    BY <1>1
  <2> DEFINE s == U(n)
             t == U(n + 1)
             u == F(n + 1)
  <2>2. s \in Seq(Fields) /\ t \in Seq(Fields) /\ u \in Seq(Fields) /\ t = s \o u /\ Begins(t, W)
    BY <1>1, <1>2, <1>3, <2>1
  <2> HIDE DEF s, t, u
  <2>3. Len(t) = Len(s) + Len(u) /\ Len(s) \in Nat /\ Len(u) \in Nat
    BY <2>2, ConcatProperties, LenProperties
  <2>4. \A i \in 1..Len(u) : t[Len(s) + i] = u[i]
    BY <2>2, BeginsConcat
  <2>5. \A i \in 1..Len(u) : Len(s) + i \in 1..Len(t)
    BY <2>3
  <2>6. \A i \in 1..Len(u) : W[Len(s) + i] = u[i]
    BY <2>2, <2>4, <2>5 DEF Begins
  <2> QED
    BY <2>2, <2>3, <2>6 DEF s, t, u, Begins
<1>7. Len(W) = Len(U(N)) + Len(T) /\ \A i \in 1..Len(T) : W[Len(U(N)) + i] = T[i]
  <2> DEFINE s == U(N)
  <2>1. s \in Seq(Fields) /\ W = s \o T
    <3>1. N \in 0..N
      BY <1>1
    <3> QED
      BY <1>2, <3>1
  <2> HIDE DEF s
  <2>2. Len(W) = Len(s) + Len(T) /\ \A i \in 1..Len(T) : W[Len(s) + i] = T[i]
    BY <1>2, <2>1, BeginsConcat, ConcatProperties
  <2> QED
    BY <2>2 DEF s
<1> QED
  BY <1>4, <1>5, <1>6, <1>7 DEF N, W, H, T, U, F

-----------------------------------------------------------------------------
(* The writer                                                              *)

(* What a step of the writer does to the file and the stream buffer.       *)

LEMMA FlushMoves ==
  ASSUME NEW S, NEW f \in Seq(S), NEW b \in Seq(S), b # << >>
  PROVE  /\ Append(f, Head(b)) \in Seq(S) /\ Tail(b) \in Seq(S)
         /\ Append(f, Head(b)) \o Tail(b) = f \o b
<1> DEFINE h == <<Head(b)>>
           t == Tail(b)
<1>1. Head(b) \in S /\ t \in Seq(S) /\ Append(f, Head(b)) \in Seq(S)
  BY HeadTailProperties, AppendProperties
<1>2. h \in Seq(S) /\ Append(f, Head(b)) = f \o h
  BY <1>1, AppendIsConcat
<1>3. b = h \o t
  <2>1. Len(b) \in Nat /\ Len(b) # 0
    BY LenProperties, EmptySeq
  <2>2. 1 \in 1..Len(b) /\ Len(b) \in 1..Len(b)
    BY <2>1
  <2>3. SubSeq(b, 1, Len(b)) = <<b[1]>> \o SubSeq(b, 1 + 1, Len(b))
    BY <2>2, SubSeqRecursiveFirst
  <2>4. SubSeq(b, 1, Len(b)) = b /\ t = SubSeq(b, 2, Len(b)) /\ Head(b) = b[1]
    BY SubSeqFull, TailIsSubSeq
  <2> QED
    BY <2>3, <2>4
<1> HIDE DEF h, t
<1>4. (f \o h) \o t = f \o (h \o t)
  BY <1>1, <1>2, ConcatAssociative
<1> QED
  BY <1>1, <1>2, <1>3, <1>4 DEF t

(* While the device takes what it is given, file and buffer together are   *)
(* what has been written so far; afterwards the file is what it was.       *)
Given ==
  CASE writer = "closed" -> << >>
    [] writer = "writing" -> UpTo(original, writeModel, 2, written)
    [] OTHER -> WholeFile(original, writeModel, 2)

FilesInv ==
  /\ original \in Originals /\ writeModel \in FileModels /\ readModel \in FileModels
  /\ version \in {1, 2}
  /\ writer \in {"closed", "writing", "closing", "exited", "killed"}
  /\ written \in 0..Len(original.blocks)
  /\ file \in Seq(Fields) /\ buffer \in Seq(Fields)
  /\ Begins(file, WholeFile(original, writeModel, version))
  /\ writer # "exited" => version = 2
  /\ writer = "closed" => written = 0
  /\ disk = "good" /\ writer \in {"closed", "writing", "closing"} => file \o buffer = Given

LEMMA PutGives ==
  ASSUME FilesInv, writer \in {"closed", "writing"}, NEW fields \in Seq(Fields), Put(fields)
  PROVE  /\ buffer' \in Seq(Fields)
         /\ disk = "good" => file \o buffer' = Given \o fields
<1>1. << >> \in Seq(Fields)
  BY EmptySeq
<1>2. buffer \o fields \in Seq(Fields) /\ (file \o buffer) \o fields = file \o (buffer \o fields)
  BY SMTT(30), ConcatProperties, ConcatAssociative DEF FilesInv
<1>3. disk = "good" => buffer' = buffer \o fields
  BY DEF Put
<1>4. disk # "good" => buffer' = << >>
  BY DEF Put
<1>5. disk = "good" => file \o buffer = Given
  BY DEF FilesInv
<1> QED
  BY <1>1, <1>2, <1>3, <1>4, <1>5

LEMMA WholeTypes ==
  ASSUME NEW o \in Originals, NEW m \in FileModels, NEW v \in {1, 2}
  PROVE  /\ HeaderFields(o, v) \in Seq(Fields) /\ TailFields(o) \in Seq(Fields)
         /\ WholeFile(o, m, v) \in Seq(Fields)
         /\ \A n \in 1..Len(o.blocks) : BlockFields(o.blocks[n], m, v) \in Seq(Fields)
<1>1. WellFormed(m) /\ \A n \in 1..Len(o.blocks) : o.blocks[n] \in Block
  BY InputTypes
<1> QED
  BY <1>1, Layout, BlockFieldsTypes

LEMMA FilesInvInit == ContainerInit => FilesInv
<1> SUFFICES ASSUME ContainerInit PROVE FilesInv
  OBVIOUS
<1>1. /\ original \in Originals /\ writeModel \in FileModels /\ readModel \in FileModels
      /\ version \in {1, 2} /\ written = 0 /\ buffer = << >>
  BY DEF ContainerInit
<1>2. << >> \in Seq(Fields) /\ Len(<< >>) = 0 /\ << >> \o << >> = << >>
  BY EmptySeq
<1>3. 0 \in 0..Len(original.blocks)
  BY <1>1, InputTypes
<1>4. WholeFile(original, writeModel, version) \in Seq(Fields)
  BY <1>1, WholeTypes
<1>5. CASE version = 1
  <2>1. file = WholeFile(original, writeModel, version) /\ writer = "exited"
    BY <1>5 DEF ContainerInit
  <2>2. Begins(file, WholeFile(original, writeModel, version))
    BY <1>4, <2>1, BeginsConcat
  <2> QED
    BY <1>1, <1>2, <1>3, <1>4, <2>1, <2>2 DEF FilesInv
<1>6. CASE version = 2
  <2>1. file = << >> /\ writer = "closed"
    BY <1>6 DEF ContainerInit
  <2>2. Begins(file, WholeFile(original, writeModel, version))
    <3>1. Len(WholeFile(original, writeModel, version)) \in Nat
      BY <1>4, LenProperties
    <3> QED
      BY <1>2, <2>1, <3>1 DEF Begins
  <2>3. Given = << >>
    BY <2>1 DEF Given
  <2> QED
    BY <1>1, <1>2, <1>3, <1>6, <2>1, <2>2, <2>3 DEF FilesInv
<1> QED
  BY <1>1, <1>5, <1>6

LEMMA FilesInvStep == FilesInv /\ [ContainerNext]_containerVars => FilesInv'
<1> SUFFICES ASSUME FilesInv, [ContainerNext]_containerVars PROVE FilesInv'
  OBVIOUS
<1> DEFINE N == Len(original.blocks)
           W == WholeFile(original, writeModel, version)
<1>0. N \in Nat /\ W \in Seq(Fields)
  BY InputTypes, WholeTypes DEF FilesInv
<1>1. CASE OpenOutput
  <2>1. /\ writer = "closed" /\ writer' = "writing" /\ Put(HeaderFields(original, 2))
        /\ UNCHANGED <<original, writeModel, version, written, file, disk, readModel>>
    BY <1>1 DEF OpenOutput, readerVars
  <2>2. HeaderFields(original, 2) \in Seq(Fields) /\ UpTo(original, writeModel, 2, 0) = HeaderFields(original, 2)
    BY Layout DEF FilesInv
  <2>3. << >> \o HeaderFields(original, 2) = HeaderFields(original, 2)
    BY <2>2, ConcatEmptySeq
  <2>4. buffer' \in Seq(Fields) /\ (disk = "good" => file \o buffer' = Given \o HeaderFields(original, 2))
    BY <2>1, <2>2, PutGives
  <2>5. Given = << >> /\ Given' = UpTo(original, writeModel, 2, written) /\ written = 0
    BY <2>1 DEF Given, FilesInv
  <2> QED
    BY <2>1, <2>2, <2>3, <2>4, <2>5 DEF FilesInv
<1>2. CASE WriteBlock
  <2> DEFINE F == BlockFields(original.blocks[written + 1], writeModel, 2)
  <2>1. /\ writer = "writing" /\ writer' = writer /\ Put(F) /\ written' = written + 1
        /\ written < N
        /\ UNCHANGED <<original, writeModel, version, file, disk, readModel>>
    BY <1>2 DEF WriteBlock, readerVars
  <2>2. written \in 0..(N - 1) /\ written + 1 \in 1..N /\ written + 1 \in 0..N
    BY <1>0, <2>1 DEF FilesInv
  <2>3. F \in Seq(Fields) /\ UpTo(original, writeModel, 2, written + 1) = UpTo(original, writeModel, 2, written) \o F
    BY <2>2, Layout, WholeTypes DEF FilesInv
  <2> HIDE DEF F
  <2>4. buffer' \in Seq(Fields) /\ (disk = "good" => file \o buffer' = Given \o F)
    BY <2>1, <2>3, PutGives
  <2>5. Given = UpTo(original, writeModel, 2, written) /\ Given' = UpTo(original, writeModel, 2, written + 1)
    BY <2>1 DEF Given
  <2> QED
    BY <2>1, <2>2, <2>3, <2>4, <2>5 DEF FilesInv
<1>3. CASE WriteTail
  <2> DEFINE T == TailFields(original)
  <2>1. /\ writer = "writing" /\ writer' = "closing" /\ Put(T) /\ written = N
        /\ UNCHANGED <<original, writeModel, version, written, file, disk, readModel>>
    BY <1>3 DEF WriteTail, readerVars
  <2>2. /\ T \in Seq(Fields)
        /\ WholeFile(original, writeModel, 2) = UpTo(original, writeModel, 2, N) \o T
    BY Layout DEF FilesInv
  <2> HIDE DEF T
  <2>3. buffer' \in Seq(Fields) /\ (disk = "good" => file \o buffer' = Given \o T)
    BY <2>1, <2>2, PutGives
  <2>4. Given = UpTo(original, writeModel, 2, N) /\ Given' = WholeFile(original, writeModel, 2)
    BY <2>1 DEF Given
  <2> QED
    BY <2>1, <2>2, <2>3, <2>4 DEF FilesInv
<1>4. CASE Flush
  <2>1. /\ writer \in {"writing", "closing"} /\ disk = "good" /\ buffer # << >>
        /\ file' = Append(file, Head(buffer)) /\ buffer' = Tail(buffer)
        /\ UNCHANGED <<original, writeModel, version, writer, written, disk, readModel>>
    BY <1>4 DEF Flush, readerVars
  <2>2. /\ file' \in Seq(Fields) /\ buffer' \in Seq(Fields) /\ file' \o buffer' = file \o buffer
    BY SMTT(30), <2>1, FlushMoves DEF FilesInv
  <2>3. file \o buffer = Given /\ Given' = Given
    BY <2>1 DEF FilesInv, Given
  <2>4. version = 2
    BY <2>1 DEF FilesInv
  <2>5. Begins(Given, W)
    <3>1. CASE writer = "writing"
      BY <2>4, <3>1, UpToBegins DEF Given, FilesInv
    <3>2. CASE writer = "closing"
      <4>1. Begins(W, W)
        BY <1>0, BeginsConcat
      <4> QED
        BY <2>4, <3>2, <4>1 DEF Given
    <3> QED
      BY <2>1, <3>1, <3>2
  <2>6. Begins(file', W)
    <3>1. Begins(file', file' \o buffer') /\ file' \o buffer' \in Seq(Fields)
      BY <2>2, BeginsConcat, ConcatProperties
    <3> QED
      BY <1>0, <2>2, <2>3, <2>5, <3>1, BeginsTransitive
  <2> QED
    BY <2>1, <2>2, <2>3, <2>4, <2>6 DEF FilesInv
<1>5. CASE Exit
  BY <1>5 DEF Exit, readerVars, FilesInv
<1>6. CASE Kill
  BY <1>6, EmptySeq DEF Kill, readerVars, FilesInv
<1>7. CASE DiskFull
  BY <1>7, EmptySeq DEF DiskFull, readerVars, FilesInv
<1>8. CASE Reader \/ UNCHANGED containerVars
  <2>1. UNCHANGED <<writerVars, readModel>>
    BY <1>8 DEF Reader, ReadHeader, ReadBlock, ReadTail, WriteOutput, Reject, containerVars, readerVars
  <2> QED
    BY <2>1 DEF writerVars, FilesInv, Given
<1> QED
  BY <1>1, <1>2, <1>3, <1>4, <1>5, <1>6, <1>7, <1>8 DEF ContainerNext, Writer

-----------------------------------------------------------------------------
(* One record of the reader                                                *)

(* A set never encodes two indices as one number, whether or not a word    *)
(* holds its tag.                                                          *)
LEMMA EncodesOnce ==
  ASSUME NEW m, WellFormed(m), NEW s \in 1..Len(m), NEW i \in Nat, NEW j \in Nat,
         EncodePatternMetadata(m[s], i) = EncodePatternMetadata(m[s], j)
  PROVE  i = j
<1>1. CASE m[s].tag_bits = 0
  BY <1>1 DEF EncodePatternMetadata
<1>2. CASE m[s].tag_bits # 0
  <2> DEFINE tag == ShiftLeft(m[s].tag_value, PatternIdBits(m[s]))
  <2>1. EncodePatternMetadata(m[s], 0) = tag + 0 /\ tag + i = tag + j
    BY <1>2 DEF EncodePatternMetadata
  <2>2. tag \in Nat
    <3> DEFINE v == m[s].tag_value
               n == 2^PatternIdBits(m[s])
               w == 2^WordBits
    <3>1. v \in Nat /\ n \in Nat /\ w \in Nat \ {0}
      BY SetBits, PowerOfTwo, BitsAssumption
    <3>2. tag = (v * n) % w
      BY DEF ShiftLeft
    <3> HIDE DEF v, n, w, tag
    <3>3. \A a, c \in Nat : a * c \in Nat
      OBVIOUS
    <3>4. \A a \in Nat, c \in Nat \ {0} : a % c \in Nat
      OBVIOUS
    <3>5. v * n \in Nat
      BY <3>1, <3>3
    <3> QED
      BY <3>1, <3>2, <3>4, <3>5
  <2> HIDE DEF tag
  <2> QED
    BY <2>1, <2>2
<1> QED
  BY <1>1, <1>2

(* What names the set and the metadata of a block and holds its dictionary *)
(* decompresses to the block or not at all.                                *)
LEMMA DecompressesTo ==
  ASSUME NEW m, WellFormed(m), NEW b \in Block, NEW s \in 1..Len(m),
         NEW k \in 1..Len(m[s].patterns), Describes(m[s].patterns[k], b),
         NEW e, e.compressed = TRUE, e.set_index = s, e.pattern_index \in Nat,
         e.metadata = EncodePatternMetadata(m[s], k - 1),
         e.dictionary = Dictionary(b, m[s], m[s].patterns[k])
  PROVE  /\ \A x \in Decompress(e, m) : x = b
         /\ e.pattern_index = k - 1 => b \in Decompress(e, m)
<1> DEFINE p   == m[s].patterns[k]
           set == m[s]
<1>1. /\ p \in [Pos -> Symbol] /\ Rank(p) <= DictionarySize(set)
      /\ DictionarySize(set) \in Nat
  BY WellFormedSet
<1>2. k \in Nat /\ k - 1 \in Nat /\ k - 1 < Len(m[s].patterns) /\ (k - 1) + 1 = k
  <2>1. Len(m[s].patterns) \in Nat
    BY SetBits
  <2> QED
    BY <2>1
<1>3. e.pattern_index = k - 1 => Expanded(e, m) = b
  <2> HAVE e.pattern_index = k - 1
  <2>1. Expanded(e, m) = [i \in Pos |-> Dictionary(b, set, p)[p[i] + 1]]
    BY <1>2 DEF Expanded
  <2>2. \A i \in Pos : Dictionary(b, set, p)[p[i] + 1] = b[i]
    BY <1>1, DictionaryGivesBytes
  <2> QED
    BY <2>1, <2>2 DEF Block
<1>4. Consistent(e, m) <=> e.pattern_index = k - 1
  <2>1. Len(Dictionary(b, set, p)) = DictionarySize(set)
    BY <1>1, DictionaryIsBytes
  <2>2. Consistent(e, m) => e.pattern_index = k - 1
    <3> HAVE Consistent(e, m)
    <3>1. EncodePatternMetadata(m[s], e.pattern_index) = EncodePatternMetadata(m[s], k - 1)
      BY DEF Consistent
    <3> QED
      BY <1>2, <3>1, EncodesOnce
  <2> QED
    BY <1>2, <2>1, <2>2 DEF Consistent
<1>5. Decompress(e, m) = IF Consistent(e, m) THEN {Expanded(e, m)} ELSE {}
  BY DEF Decompress
<1> QED
  BY <1>3, <1>4, <1>5

(* What the reader takes where the file continues with pre and d.          *)
LEMMA Taken ==
  ASSUME FilesInv, position \in Nat, NEW pre \in Seq(Fields), NEW d \in Seq(Fields),
         \A i \in 1..Len(pre \o d) :
           WholeFile(original, writeModel, version)[position + i] = (pre \o d)[i]
  PROVE  /\ Len(pre \o d) = Len(pre) + Len(d) /\ Len(pre) \in Nat /\ Len(d) \in Nat
         /\ \A i \in 1..Len(pre) : Available(i) => Field(i) = pre[i]
         /\ Available(Len(pre) + Len(d)) => FieldsFrom(Len(pre) + 1, Len(d)) = d
<1> DEFINE W == WholeFile(original, writeModel, version)
           c == pre \o d
           P == Len(pre)
           D == Len(d)
<1>1. /\ P \in Nat /\ D \in Nat /\ Len(c) = P + D /\ file \in Seq(Fields) /\ Len(file) \in Nat
      /\ \A i \in 1 .. P + D : c[i] = IF i <= P THEN pre[i] ELSE d[i - P]
  BY LenProperties, ConcatProperties DEF FilesInv
<1>2. \A i \in 1..Len(file) : file[i] = W[i]
  BY DEF FilesInv, Begins
<1>3. \A i \in 1..Len(c) : W[position + i] = c[i]
  OBVIOUS
<1> HIDE DEF W, c, P, D
<1>4. ASSUME NEW i \in 1..(P + D), position + i <= Len(file) PROVE file[position + i] = c[i]
  <2>1. position + i \in 1..Len(file)
    BY <1>1, <1>4
  <2> QED
    BY <1>1, <1>2, <1>3, <2>1
<1>5. ASSUME NEW i \in 1..P, Available(i) PROVE Field(i) = pre[i]
  <2>1. i \in 1..(P + D) /\ i <= P /\ position + i <= Len(file)
    BY <1>1, <1>5 DEF Available
  <2> QED
    BY <1>1, <1>4, <2>1 DEF Field
<1>6. ASSUME Available(P + D) PROVE FieldsFrom(P + 1, D) = d
  <2> DEFINE lo == position + (P + 1)
             hi == position + (P + 1) + D - 1
             q  == FieldsFrom(P + 1, D)
  <2>1. lo \in Int /\ hi \in Int /\ position + (P + D) <= Len(file) /\ hi - lo + 1 = D
    BY <1>1, <1>6 DEF Available
  <2>2. \A i \in lo..hi : i \in 1..Len(file)
    BY <1>1, <2>1
  <2>3. \A i \in lo..hi : file[i] \in Fields
    BY <1>1, <2>2, ElementOfSeq
  <2>4. q = SubSeq(file, lo, hi)
    BY DEF FieldsFrom
  <2>5. /\ q \in Seq(Fields) /\ Len(q) = (IF lo <= hi THEN hi - lo + 1 ELSE 0)
        /\ \A i \in 1 .. hi - lo + 1 : q[i] = file[lo + i - 1]
    <3> HIDE DEF lo, hi, q
    <3>1. lo \in Int /\ hi \in Int
      BY <2>1
    <3>2. /\ SubSeq(file, lo, hi) \in Seq(Fields)
          /\ Len(SubSeq(file, lo, hi)) = (IF lo <= hi THEN hi - lo + 1 ELSE 0)
          /\ \A i \in 1 .. hi - lo + 1 : SubSeq(file, lo, hi)[i] = file[lo + i - 1]
      BY <2>3, <3>1, SubSeqProperties
    <3> QED
      BY <2>4, <3>2
  <2>6. Len(q) = D
    BY <1>1, <2>1, <2>5
  <2>7. ASSUME NEW i \in 1..D PROVE q[i] = d[i]
    <3>1. /\ i \in 1 .. hi - lo + 1 /\ lo + i - 1 = position + (P + i) /\ P + i \in 1..(P + D)
          /\ position + (P + i) <= Len(file) /\ ~(P + i <= P) /\ (P + i) - P = i
      BY <1>1, <2>1
    <3>2. q[i] = file[position + (P + i)]
      BY <2>5, <3>1
    <3>3. c[P + i] = d[i]
      BY <1>1, <3>1
    <3> QED
      BY <1>4, <3>1, <3>2, <3>3
  <2> HIDE DEF q
  <2>8. q = d
    BY <2>5, <2>6, <2>7, SeqEqual DEF D
  <2> QED
    BY <2>8 DEF q
<1> QED
  BY <1>1, <1>5, <1>6 DEF P, D, c

(* The reader stands where block n + 1 is recorded, and has the model the  *)
(* file was written with.                                                  *)
AtBlock(n) ==
  /\ FilesInv
  /\ readModel = writeModel
  /\ header.version = version
  /\ n \in 0..(Len(original.blocks) - 1)
  /\ position = Len(UpTo(original, writeModel, version, n))

Recording(n) == BlockFields(original.blocks[n + 1], writeModel, version)

LEMMA AtBlockContinues ==
  ASSUME NEW n, AtBlock(n)
  PROVE  /\ position \in Nat /\ n + 1 \in 1..Len(original.blocks)
         /\ original.blocks[n + 1] \in Block /\ WellFormed(writeModel)
         /\ \A i \in 1..Len(Recording(n)) :
              WholeFile(original, writeModel, version)[position + i] = Recording(n)[i]
<1>1. /\ original \in Originals /\ writeModel \in FileModels /\ version \in {1, 2}
      /\ n \in 0..(Len(original.blocks) - 1)
      /\ position = Len(UpTo(original, writeModel, version, n))
  BY DEF AtBlock, FilesInv
<1>2. /\ WellFormed(writeModel) /\ Len(original.blocks) \in Nat
      /\ \A i \in 1..Len(original.blocks) : original.blocks[i] \in Block
  BY <1>1, InputTypes
<1>3. n + 1 \in 1..Len(original.blocks) /\ n \in 0..Len(original.blocks)
  BY <1>1, <1>2
<1>4. position \in Nat
  BY <1>1, <1>3, Places
<1>5. \A i \in 1..Len(Recording(n)) :
        WholeFile(original, writeModel, version)[position + i] = Recording(n)[i]
  BY <1>1, Places DEF Recording
<1> QED
  BY <1>2, <1>3, <1>4, <1>5

(* A record that is all there is read as the block; one that is not, not.  *)
ReadsAs(b, size) ==
  /\ \A r \in DecodedRecord : r.fields = size /\ r.block = b
  /\ Available(size) /\ (\A s \in 1..Len(writeModel) : TagFitsWord(writeModel[s]))
       => DecodedRecord # {}

LEMMA DecodedIsDecompressed ==
  \A r : r \in DecodedRecord <=>
    \E q \in NextRecord : \E x \in Decompress(q.encoded, readModel) :
      r = [fields |-> q.fields, block |-> x]
<1> DEFINE R(q, x) == [fields |-> q.fields, block |-> x]
           X(q) == Decompress(q.encoded, readModel)
<1>1. DecodedRecord = UNION {{R(q, x) : x \in X(q)} : q \in NextRecord}
  BY DEF DecodedRecord
<1> HIDE DEF R, X
<1>2. \A r : r \in DecodedRecord <=> \E q \in NextRecord : \E x \in X(q) : r = R(q, x)
  BY <1>1
<1> QED
  BY <1>2 DEF R, X

LEMMA RawReads ==
  ASSUME NEW n, AtBlock(n), Recording(n) = << 0 >> \o original.blocks[n + 1]
  PROVE  ReadsAs(original.blocks[n + 1], Len(Recording(n)))
<1> DEFINE b   == original.blocks[n + 1]
           pre == <<0>>
<1>1. /\ position \in Nat /\ b \in Block /\ FilesInv
      /\ \A i \in 1..Len(Recording(n)) :
           WholeFile(original, writeModel, version)[position + i] = Recording(n)[i]
  BY AtBlockContinues DEF AtBlock
<1>2. b \in Seq(Fields) /\ Len(b) = BlockSize /\ BlockSize \in Nat
  <2>1. Byte \subseteq Fields
    BY ByteAssumption DEF Fields
  <2> QED
    BY <1>1, <2>1, BlockIsSequence, SeqMonotonic, BlockSizeAssumption
<1>3. pre \in Seq(Fields) /\ Len(pre) = 1 /\ pre[1] = 0
  BY DEF Fields
<1> HIDE DEF b, pre
<1>4. Recording(n) = pre \o b
  BY DEF b, pre
<1>5. /\ Len(Recording(n)) = 1 + BlockSize
      /\ Available(1) => Field(1) = 0
      /\ Available(1 + BlockSize) => FieldsFrom(2, BlockSize) = b
  <2>1. \A i \in 1..Len(pre \o b) :
          WholeFile(original, writeModel, version)[position + i] = (pre \o b)[i]
    BY <1>1, <1>4
  <2>2. /\ Len(pre \o b) = Len(pre) + Len(b)
        /\ \A i \in 1..Len(pre) : Available(i) => Field(i) = pre[i]
        /\ Available(Len(pre) + Len(b)) => FieldsFrom(Len(pre) + 1, Len(b)) = b
    BY <1>1, <1>2, <1>3, <2>1, Taken
  <2> QED
    BY <1>2, <1>3, <1>4, <2>2
<1>6. Available(1 + BlockSize) => Available(1)
  BY <1>1, <1>2, LenProperties DEF Available, FilesInv
<1>7. NextRecord = IF Available(1) THEN RawRecord ELSE {}
  BY <1>5 DEF NextRecord
<1>8. ASSUME NEW r \in DecodedRecord PROVE r.fields = 1 + BlockSize /\ r.block = b
  <2>1. PICK q \in NextRecord : \E x \in Decompress(q.encoded, readModel) :
          r = [fields |-> q.fields, block |-> x]
    BY <1>8, DecodedIsDecompressed
  <2>2. PICK x \in Decompress(q.encoded, readModel) : r = [fields |-> q.fields, block |-> x]
    BY <2>1
  <2>3. /\ Available(1 + BlockSize)
        /\ q = [fields |-> 1 + BlockSize, encoded |-> RawBlock(FieldsFrom(2, BlockSize))]
    BY <1>7, <2>1 DEF RawRecord
  <2>4. x = b
    BY <1>5, <2>2, <2>3 DEF Decompress, RawBlock
  <2> QED
    BY <2>2, <2>3, <2>4
<1>9. ASSUME Available(1 + BlockSize) PROVE DecodedRecord # {}
  <2> DEFINE q == [fields |-> 1 + BlockSize, encoded |-> RawBlock(FieldsFrom(2, BlockSize))]
  <2>1. q \in NextRecord
    BY <1>6, <1>7, <1>9 DEF RawRecord
  <2>2. q.encoded.raw \in Decompress(q.encoded, readModel)
    BY DEF Decompress, RawBlock
  <2> HIDE DEF q
  <2>3. [fields |-> q.fields, block |-> q.encoded.raw] \in DecodedRecord
    BY <2>1, <2>2, DecodedIsDecompressed
  <2> QED
    BY <2>3
<1> QED
  BY <1>5, <1>8, <1>9 DEF ReadsAs, b

(* The flag and the names at the reader's position lead to the pattern    *)
(* and the metadata of block n + 1, and its dictionary comes next.         *)
Leads(n, s, k, from, metadata) ==
  /\ AtBlock(n)
  /\ s \in 1..Len(writeModel) /\ k \in 1..Len(writeModel[s].patterns)
  /\ Describes(writeModel[s].patterns[k], original.blocks[n + 1])
  /\ from \in Nat \ {0}
  /\ metadata = EncodePatternMetadata(writeModel[s], k - 1)
  /\ Available(from - 1 + DictionarySize(writeModel[s]))
       => FieldsFrom(from, DictionarySize(writeModel[s]))
            = Dictionary(original.blocks[n + 1], writeModel[s], writeModel[s].patterns[k])

LEMMA RecordReads ==
  ASSUME NEW n, NEW s, NEW k, NEW from, NEW metadata, Leads(n, s, k, from, metadata),
         NEW index \in Nat, NEW q \in Record(s, index, metadata, from)
  PROVE  /\ q.fields = from - 1 + DictionarySize(writeModel[s])
         /\ \A x \in Decompress(q.encoded, readModel) : x = original.blocks[n + 1]
         /\ index = k - 1 => original.blocks[n + 1] \in Decompress(q.encoded, readModel)
<1>0. /\ AtBlock(n)
      /\ s \in 1..Len(writeModel) /\ k \in 1..Len(writeModel[s].patterns)
      /\ Describes(writeModel[s].patterns[k], original.blocks[n + 1])
      /\ from \in Nat \ {0}
      /\ metadata = EncodePatternMetadata(writeModel[s], k - 1)
      /\ Available(from - 1 + DictionarySize(writeModel[s]))
           => FieldsFrom(from, DictionarySize(writeModel[s]))
                = Dictionary(original.blocks[n + 1], writeModel[s], writeModel[s].patterns[k])
  BY DEF Leads
<1> DEFINE m == writeModel
           D == DictionarySize(m[s])
           b == original.blocks[n + 1]
           e == q.encoded
<1>1. readModel = m /\ b \in Block /\ WellFormed(m) /\ D \in Nat
  BY <1>0, AtBlockContinues, WellFormedSet DEF AtBlock
<1>2. from + D - 1 = from - 1 + D
  BY <1>0, <1>1
<1>3. /\ Available(from - 1 + D)
      /\ q = [fields |-> from - 1 + D,
              encoded |-> [compressed |-> TRUE, set_index |-> s,
                           pattern_index |-> index, metadata |-> metadata,
                           dictionary |-> FieldsFrom(from, D)]]
  BY <1>1, <1>2 DEF Record
<1>4. /\ e.compressed = TRUE /\ e.set_index = s /\ e.pattern_index = index
      /\ e.metadata = EncodePatternMetadata(m[s], k - 1)
      /\ e.dictionary = Dictionary(b, m[s], m[s].patterns[k])
  BY <1>0, <1>3
<1>5. Describes(m[s].patterns[k], b) /\ s \in 1..Len(m) /\ k \in 1..Len(m[s].patterns)
  BY <1>0
<1>6. q.fields = from - 1 + D
  BY <1>3
<1> HIDE DEF e, b, m, D
<1>7. e.pattern_index \in Nat
  BY <1>4
<1>8. /\ \A x \in Decompress(e, m) : x = b
      /\ e.pattern_index = k - 1 => b \in Decompress(e, m)
  BY ZenonT(30), <1>1, <1>4, <1>5, <1>7, DecompressesTo
<1> QED
  BY <1>1, <1>4, <1>6, <1>8 DEF e, b, m, D

LEMMA LeadsReads ==
  ASSUME NEW n, NEW s, NEW k, NEW from, NEW metadata, Leads(n, s, k, from, metadata),
         \A q \in NextRecord : \E index \in Nat : q \in Record(s, index, metadata, from),
         Available(from - 1 + DictionarySize(writeModel[s]))
           /\ (\A t \in 1..Len(writeModel) : TagFitsWord(writeModel[t]))
           => Record(s, k - 1, metadata, from) \subseteq NextRecord
  PROVE  ReadsAs(original.blocks[n + 1], from - 1 + DictionarySize(writeModel[s]))
<1>0. AtBlock(n) /\ s \in 1..Len(writeModel) /\ k \in 1..Len(writeModel[s].patterns) /\ from \in Nat \ {0}
  BY DEF Leads
<1> DEFINE D == DictionarySize(writeModel[s])
           b == original.blocks[n + 1]
           size == from - 1 + D
<1>1. readModel = writeModel /\ WellFormed(writeModel) /\ D \in Nat
  BY <1>0, AtBlockContinues, WellFormedSet DEF AtBlock
<1>2. k - 1 \in Nat
  <2>1. Len(writeModel[s].patterns) \in Nat
    BY <1>0, <1>1, SetBits
  <2> QED
    BY <1>0, <2>1
<1>3. ASSUME NEW index \in Nat, NEW q \in Record(s, index, metadata, from)
      PROVE  /\ q.fields = size
             /\ \A x \in Decompress(q.encoded, readModel) : x = b
             /\ index = k - 1 => b \in Decompress(q.encoded, readModel)
  BY RecordReads
<1>4. Available(size) => Record(s, k - 1, metadata, from) # {}
  <2>1. from + D - 1 = size
    BY <1>0, <1>1
  <2> QED
    BY <1>1, <2>1 DEF Record
<1>5. /\ \A q \in NextRecord : \E index \in Nat : q \in Record(s, index, metadata, from)
      /\ Available(size) /\ (\A t \in 1..Len(writeModel) : TagFitsWord(writeModel[t]))
           => Record(s, k - 1, metadata, from) \subseteq NextRecord
  OBVIOUS
<1> HIDE DEF size, b, D
<1>6. ASSUME NEW r \in DecodedRecord PROVE r.fields = size /\ r.block = b
  <2>1. PICK q \in NextRecord : \E x \in Decompress(q.encoded, readModel) :
          r = [fields |-> q.fields, block |-> x]
    BY <1>6, DecodedIsDecompressed
  <2>2. PICK x \in Decompress(q.encoded, readModel) : r = [fields |-> q.fields, block |-> x]
    BY <2>1
  <2>3. PICK index \in Nat : q \in Record(s, index, metadata, from)
    BY <1>5, <2>1
  <2> QED
    BY <1>3, <2>2, <2>3
<1>7. ASSUME Available(size), \A t \in 1..Len(writeModel) : TagFitsWord(writeModel[t])
      PROVE  DecodedRecord # {}
  <2>1. PICK q \in Record(s, k - 1, metadata, from) : q \in NextRecord
    BY <1>4, <1>5, <1>7
  <2>2. b \in Decompress(q.encoded, readModel)
    BY <1>2, <1>3
  <2>3. [fields |-> q.fields, block |-> b] \in DecodedRecord
    BY <2>1, <2>2, DecodedIsDecompressed
  <2> QED
    BY <2>3
<1> QED
  BY <1>6, <1>7 DEF ReadsAs, size, b, D

LEMMA TaggedReads ==
  ASSUME NEW n, AtBlock(n), version = 2, NEW s \in 1..Len(writeModel),
         NEW k \in 1..Len(writeModel[s].patterns),
         Describes(writeModel[s].patterns[k], original.blocks[n + 1]),
         NEW d \in Seq(Byte),
         d = Dictionary(original.blocks[n + 1], writeModel[s], writeModel[s].patterns[k]),
         Len(d) = DictionarySize(writeModel[s]),
         NEW target \in Nat, target = writeModel[s].target_size,
         NEW metadata \in Nat, metadata = EncodePatternMetadata(writeModel[s], k - 1),
         Recording(n) = <<1, target, metadata>> \o d
  PROVE  ReadsAs(original.blocks[n + 1], Len(Recording(n)))
<1> DEFINE pre == <<1, target, metadata>>
           D == DictionarySize(writeModel[s])
<1>1. /\ position \in Nat /\ FilesInv /\ readModel = writeModel /\ header.version = 2
      /\ WellFormed(writeModel) /\ D \in Nat
      /\ \A i \in 1..Len(Recording(n)) :
           WholeFile(original, writeModel, version)[position + i] = Recording(n)[i]
  BY AtBlockContinues, WellFormedSet DEF AtBlock
<1>2. d \in Seq(Fields) /\ Len(d) = D
  <2>1. Byte \subseteq Fields
    BY ByteAssumption DEF Fields
  <2> QED
    BY <2>1, SeqMonotonic
<1>3. /\ pre \in Seq(Fields) /\ Len(pre) = 3
      /\ pre[1] = 1 /\ pre[2] = target /\ pre[3] = metadata
  BY DEF Fields
<1>4. Recording(n) = pre \o d
  OBVIOUS
<1> HIDE DEF pre
<1>5. /\ Len(Recording(n)) = 3 + D
      /\ Available(1) => Field(1) = 1
      /\ Available(2) => Field(2) = target
      /\ Available(3) => Field(3) = metadata
      /\ Available(3 + D) => FieldsFrom(4, D) = d
  <2>1. \A i \in 1..Len(pre \o d) :
          WholeFile(original, writeModel, version)[position + i] = (pre \o d)[i]
    BY <1>1, <1>4
  <2>2. /\ Len(pre \o d) = Len(pre) + Len(d)
        /\ \A i \in 1..Len(pre) : Available(i) => Field(i) = pre[i]
        /\ Available(Len(pre) + Len(d)) => FieldsFrom(Len(pre) + 1, Len(d)) = d
    BY <1>1, <1>2, <1>3, <2>1, Taken
  <2>3. 3 + 1 = 4 /\ 1 \in 1..3 /\ 2 \in 1..3 /\ 3 \in 1..3
    OBVIOUS
  <2> QED
    BY <1>2, <1>3, <1>4, <2>2, <2>3
<1>6. (Available(3 + D) => Available(3)) /\ (Available(3) => Available(1) /\ Available(2))
  <2>1. Len(file) \in Nat
    BY <1>1, LenProperties DEF FilesInv
  <2> QED
    BY SMTT(30), <1>1, <2>1 DEF Available
<1>7. NextRecord = IF Available(1) THEN TaggedRecord ELSE {}
  BY <1>1, <1>5 DEF NextRecord
<1>8. \A t \in 1..Len(writeModel) : writeModel[t].target_size = target => t = s
  BY <1>1 DEF WellFormed, ValidModel
<1>9. ASSUME NEW q \in NextRecord PROVE \E index \in Nat : q \in Record(s, index, metadata, 4)
  <2>1. q \in TaggedRecord /\ Available(3)
    BY <1>7 DEF TaggedRecord
  <2>2. PICK t \in 1..Len(readModel) :
          /\ readModel[t].target_size = Field(2)
          /\ q \in UNION {Record(t, index, Field(3), 4)
                            : index \in DecodePatternMetadata(readModel[t], Field(3))}
    BY <2>1 DEF TaggedRecord
  <2>3. PICK index \in DecodePatternMetadata(readModel[t], Field(3)) :
          q \in Record(t, index, Field(3), 4)
    BY <2>2
  <2>4. t = s
    BY <1>1, <1>5, <1>6, <1>8, <2>1, <2>2
  <2>5. index \in Nat
    <3>1. index \in 0..(Len(readModel[t].patterns) - 1)
      BY DEF DecodePatternMetadata
    <3>2. Len(readModel[t].patterns) \in Nat
      BY <1>1, SetBits
    <3> QED
      BY <3>1, <3>2
  <2> QED
    BY <1>5, <2>1, <2>3, <2>4, <2>5
<1>10. ASSUME Available(3 + D), \A t \in 1..Len(writeModel) : TagFitsWord(writeModel[t])
       PROVE  Record(s, k - 1, metadata, 4) \subseteq NextRecord
  <2>1. NextRecord = TaggedRecord /\ Available(3)
    BY <1>6, <1>7, <1>10
  <2>2. k - 1 \in 0..(Len(writeModel[s].patterns) - 1)
    <3>1. Len(writeModel[s].patterns) \in Nat
      BY <1>1, SetBits
    <3> QED
      BY <3>1
  <2>3. TagFitsWord(writeModel[s])
    BY <1>10
  <2>4. k - 1 \in DecodePatternMetadata(writeModel[s], metadata)
    <3> DEFINE index == k - 1
    <3>1. index \in 0..(Len(writeModel[s].patterns) - 1)
          /\ metadata = EncodePatternMetadata(writeModel[s], index)
      BY <2>2
    <3> HIDE DEF index
    <3>2. index \in DecodePatternMetadata(writeModel[s], metadata)
      BY <1>1, <2>3, <3>1, DecodesWhatItEncodes
    <3> QED
      BY <3>2 DEF index
  <2>5. Record(s, k - 1, Field(3), 4)
          \subseteq UNION {Record(s, index, Field(3), 4)
                             : index \in DecodePatternMetadata(readModel[s], Field(3))}
    BY <1>1, <1>5, <2>1, <2>4
  <2>6. s \in 1..Len(readModel) /\ readModel[s].target_size = Field(2)
    BY <1>1, <1>5, <1>6, <2>1
  <2>7. Record(s, k - 1, Field(3), 4) \subseteq TaggedRecord
    BY <2>1, <2>5, <2>6 DEF TaggedRecord
  <2> QED
    BY <1>5, <2>1, <2>7
<1>11. 4 - 1 + D = 3 + D /\ 4 \in Nat \ {0}
  BY <1>1
<1>12. ReadsAs(original.blocks[n + 1], 4 - 1 + D)
  <2> DEFINE from == 4
  <2>1. /\ from \in Nat \ {0} /\ from - 1 + D = 3 + D
        /\ \A q \in NextRecord : \E index \in Nat : q \in Record(s, index, metadata, from)
        /\ Available(from - 1 + D) /\ (\A t \in 1..Len(writeModel) : TagFitsWord(writeModel[t]))
             => Record(s, k - 1, metadata, from) \subseteq NextRecord
    BY <1>9, <1>10, <1>11
  <2>2. Leads(n, s, k, from, metadata)
    BY <1>5, <1>11 DEF Leads
  <2> HIDE DEF from
  <2>3. ReadsAs(original.blocks[n + 1], from - 1 + D)
    BY <2>1, <2>2, LeadsReads
  <2> QED
    BY <2>3 DEF from
<1> QED
  BY <1>5, <1>11, <1>12

LEMMA LegacyReads ==
  ASSUME NEW n, AtBlock(n), version = 1, NEW s \in 1..Len(writeModel),
         NEW k \in 1..Len(writeModel[s].patterns),
         Describes(writeModel[s].patterns[k], original.blocks[n + 1]),
         NEW d \in Seq(Byte),
         d = Dictionary(original.blocks[n + 1], writeModel[s], writeModel[s].patterns[k]),
         Len(d) = DictionarySize(writeModel[s]),
         NEW set \in Nat, set = s - 1, NEW index \in Nat, index = k - 1,
         NEW size \in Nat, size = DictionarySize(writeModel[s]),
         Recording(n) = <<1, set, index, size>> \o d
  PROVE  ReadsAs(original.blocks[n + 1], Len(Recording(n)))
<1> DEFINE pre == <<1, set, index, size>>
           metadata == EncodePatternMetadata(writeModel[s], index)
<1>1. /\ position \in Nat /\ FilesInv /\ readModel = writeModel /\ header.version = 1
      /\ WellFormed(writeModel)
      /\ \A i \in 1..Len(Recording(n)) :
           WholeFile(original, writeModel, version)[position + i] = Recording(n)[i]
  BY AtBlockContinues DEF AtBlock
<1>2. d \in Seq(Fields) /\ Len(d) = size
  <2>1. Byte \subseteq Fields
    BY ByteAssumption DEF Fields
  <2> QED
    BY <2>1, SeqMonotonic
<1>3. /\ pre \in Seq(Fields) /\ Len(pre) = 4
      /\ pre[1] = 1 /\ pre[2] = set /\ pre[3] = index /\ pre[4] = size
  BY DEF Fields
<1>4. Recording(n) = pre \o d
  OBVIOUS
<1> HIDE DEF pre, metadata
<1>5. /\ Len(Recording(n)) = 4 + size
      /\ Available(1) => Field(1) = 1
      /\ Available(4) => Field(2) = set /\ Field(3) = index /\ Field(4) = size
      /\ Available(4 + size) => FieldsFrom(5, size) = d
      /\ Available(4 + size) => Available(4)
      /\ Available(4) => Available(1)
  <2>1. \A i \in 1..Len(pre \o d) :
          WholeFile(original, writeModel, version)[position + i] = (pre \o d)[i]
    BY <1>1, <1>4
  <2>2. /\ Len(pre \o d) = Len(pre) + Len(d)
        /\ \A i \in 1..Len(pre) : Available(i) => Field(i) = pre[i]
        /\ Available(Len(pre) + Len(d)) => FieldsFrom(Len(pre) + 1, Len(d)) = d
    BY <1>1, <1>2, <1>3, <2>1, Taken
  <2>3. 4 + 1 = 5 /\ 1 \in 1..4 /\ 2 \in 1..4 /\ 3 \in 1..4 /\ 4 \in 1..4
    OBVIOUS
  <2>4. /\ Available(4 + size) => Available(4)
        /\ Available(4) => Available(1) /\ Available(2) /\ Available(3)
    <3>1. Len(file) \in Nat
      BY <1>1, LenProperties DEF FilesInv
    <3>2. \A a, b \in Nat : a <= b /\ Available(b) => Available(a)
      BY <1>1, <3>1 DEF Available
    <3>3. 4 + size \in Nat /\ 4 <= 4 + size
      OBVIOUS
    <3> QED
      BY <3>2, <3>3
  <2> QED
    BY <1>2, <1>3, <1>4, <2>2, <2>3, <2>4
<1>6. NextRecord = IF Available(1) THEN LegacyRecord ELSE {}
  BY <1>1, <1>5 DEF NextRecord
<1>7. /\ index < Len(writeModel[s].patterns) /\ s \in 1..Len(readModel)
      /\ set + 1 = s /\ \A t \in 1..Len(readModel) : t = set + 1 => t = s
  <2>1. Len(writeModel[s].patterns) \in Nat /\ Len(writeModel) \in Nat
    BY <1>1, SetBits, LenProperties DEF WellFormed
  <2> QED
    BY SMTT(30), <1>1, <2>1
<1>8. ASSUME NEW q \in NextRecord PROVE q \in Record(s, index, metadata, 5)
  <2>1. q \in LegacyRecord /\ Available(4)
    BY <1>6 DEF LegacyRecord
  <2>2. PICK t \in 1..Len(readModel) :
          /\ t = Field(2) + 1
          /\ q \in Record(t, Field(3), EncodePatternMetadata(readModel[t], Field(3)), 5)
    BY <2>1 DEF LegacyRecord
  <2> QED
    BY <1>1, <1>5, <1>7, <2>1, <2>2 DEF metadata
<1>9. ASSUME Available(4 + size) PROVE Record(s, index, metadata, 5) \subseteq NextRecord
  <2>1. NextRecord = LegacyRecord /\ Available(4)
    BY <1>5, <1>6, <1>9
  <2>2. /\ s = Field(2) + 1 /\ Field(4) = DictionarySize(readModel[s])
        /\ Field(3) < Len(readModel[s].patterns) /\ s \in 1..Len(readModel)
    BY <1>1, <1>5, <1>7, <2>1
  <2>3. Record(s, Field(3), EncodePatternMetadata(readModel[s], Field(3)), 5) \subseteq LegacyRecord
    BY <2>1, <2>2 DEF LegacyRecord
  <2> QED
    BY <1>1, <1>5, <2>1, <2>3 DEF metadata
<1>10. 5 - 1 + size = 4 + size /\ 5 \in Nat \ {0}
  OBVIOUS
<1>11. ReadsAs(original.blocks[n + 1], 5 - 1 + size)
  <2> DEFINE from == 5
  <2>1. /\ from - 1 + size = 4 + size
        /\ \A q \in NextRecord : q \in Record(s, index, metadata, from)
        /\ Available(from - 1 + size) => Record(s, index, metadata, from) \subseteq NextRecord
    BY <1>8, <1>9, <1>10
  <2>2. Leads(n, s, k, from, metadata)
    BY <1>5, <1>10 DEF Leads, metadata
  <2> HIDE DEF from
  <2>3. ReadsAs(original.blocks[n + 1], from - 1 + DictionarySize(writeModel[s]))
    <3>1. \A q \in NextRecord : \E i \in Nat : q \in Record(s, i, metadata, from)
      BY <2>1
    <3>2. Available(from - 1 + DictionarySize(writeModel[s]))
            => Record(s, k - 1, metadata, from) \subseteq NextRecord
      BY <2>1
    <3> QED
      BY <2>2, <3>1, <3>2, LeadsReads
  <2> QED
    BY <2>3 DEF from
<1> QED
  BY <1>5, <1>10, <1>11

(* Whatever was recorded for block n + 1, only that block is read there.   *)
LEMMA BlockReads ==
  ASSUME NEW n, AtBlock(n)
  PROVE  ReadsAs(original.blocks[n + 1], Len(Recording(n)))
<1> DEFINE b == original.blocks[n + 1]
           m == writeModel
<1>1. b \in Block /\ WellFormed(m) /\ version \in {1, 2}
  BY AtBlockContinues DEF AtBlock, FilesInv
<1>2. CASE Recording(n) = <<0>> \o b
  BY <1>2, RawReads
<1>3. ASSUME NEW s \in 1..Len(m), NEW k \in 1..Len(m[s].patterns),
             Describes(m[s].patterns[k], b),
             Dictionary(b, m[s], m[s].patterns[k]) \in Seq(Byte),
             Len(Dictionary(b, m[s], m[s].patterns[k])) = DictionarySize(m[s]),
             s \in Nat \ {0}, k \in Nat \ {0}, DictionarySize(m[s]) \in Nat,
             m[s].target_size \in Nat, EncodePatternMetadata(m[s], k - 1) \in Nat,
             Recording(n) =
               (IF version = 1 THEN <<1, s - 1, k - 1, DictionarySize(m[s])>>
                ELSE <<1, m[s].target_size, EncodePatternMetadata(m[s], k - 1)>>)
               \o Dictionary(b, m[s], m[s].patterns[k])
      PROVE  ReadsAs(b, Len(Recording(n)))
  <2> DEFINE d == Dictionary(b, m[s], m[s].patterns[k])
             size == DictionarySize(m[s])
             target == m[s].target_size
             metadata == EncodePatternMetadata(m[s], k - 1)
             set == s - 1
             index == k - 1
  <2>1. set \in Nat /\ index \in Nat
    BY SMTT(30), <1>3
  <2>2. /\ d \in Seq(Byte) /\ Len(d) = size /\ size \in Nat /\ target \in Nat /\ metadata \in Nat
        /\ Recording(n) = (IF version = 1 THEN <<1, set, index, size>>
                           ELSE <<1, target, metadata>>) \o d
    BY <1>3
  <2>3. CASE version = 1
    <3>1. Recording(n) = <<1, set, index, size>> \o d
      BY <2>2, <2>3
    <3>2. /\ d = Dictionary(b, m[s], m[s].patterns[k]) /\ Len(d) = DictionarySize(m[s])
          /\ set = s - 1 /\ index = k - 1 /\ size = DictionarySize(m[s])
          /\ d \in Seq(Byte) /\ set \in Nat /\ index \in Nat /\ size \in Nat
      BY <2>1, <2>2
    <3> HIDE DEF d, size, set, index
    <3> QED
      BY <1>3, <2>3, <3>1, <3>2, LegacyReads
  <2>4. CASE version = 2
    <3>1. Recording(n) = <<1, target, metadata>> \o d
      BY <2>2, <2>4
    <3>2. /\ d = Dictionary(b, m[s], m[s].patterns[k]) /\ Len(d) = DictionarySize(m[s])
          /\ target = m[s].target_size /\ metadata = EncodePatternMetadata(m[s], k - 1)
          /\ d \in Seq(Byte) /\ target \in Nat /\ metadata \in Nat
      BY <2>2
    <3> HIDE DEF d, target, metadata
    <3> QED
      BY <1>3, <2>4, <3>1, <3>2, TaggedReads
  <2> QED
    BY <1>1, <2>3, <2>4
<1>4. \/ Recording(n) = <<0>> \o b
      \/ \E s \in 1..Len(m) : \E k \in 1..Len(m[s].patterns) :
           /\ Describes(m[s].patterns[k], b)
           /\ Compress(b, m) = CompressedBlock(b, m, s, k)
           /\ Dictionary(b, m[s], m[s].patterns[k]) \in Seq(Byte)
           /\ Len(Dictionary(b, m[s], m[s].patterns[k])) = DictionarySize(m[s])
           /\ s \in Nat \ {0} /\ k \in Nat \ {0} /\ DictionarySize(m[s]) \in Nat
           /\ m[s].target_size \in Nat /\ EncodePatternMetadata(m[s], k - 1) \in Nat
           /\ Recording(n) =
                (IF version = 1 THEN <<1, s - 1, k - 1, DictionarySize(m[s])>>
                 ELSE <<1, m[s].target_size, EncodePatternMetadata(m[s], k - 1)>>)
                \o Dictionary(b, m[s], m[s].patterns[k])
  BY ZenonT(30), <1>1, BlockShape DEF Recording
<1> QED
  BY <1>2, <1>3, <1>4

-----------------------------------------------------------------------------
(* The reader                                                              *)

(* What the first n blocks decode to.                                      *)
LEMMA DecodedSteps ==
  ASSUME NEW o \in Originals
  PROVE  /\ Firsts(o.blocks, 0) = << >>
         /\ \A n \in 0..Len(o.blocks) :
              /\ Firsts(o.blocks, n) \in Seq(Byte)
              /\ Len(Firsts(o.blocks, n)) = n * BlockSize
              /\ Len(Firsts(o.blocks, n)) \div BlockSize = n
         /\ \A n \in 0..(Len(o.blocks) - 1) :
              Firsts(o.blocks, n + 1) = Firsts(o.blocks, n) \o o.blocks[n + 1]
         /\ Firsts(o.blocks, Len(o.blocks)) \o o.tail = Bytes(o)
<1> DEFINE N == Len(o.blocks)
           B == o.blocks
           F(n) == Firsts(B, n)
           Bad == {n \in 0..N : Len(F(n)) # n * BlockSize}
<1>1. /\ N \in Nat /\ BlockSize \in Nat \ {0} /\ B \in Seq(Seq(Byte))
      /\ \A i \in 1..N : B[i] \in Seq(Byte) /\ Len(B[i]) = BlockSize
  <2>1. Block \subseteq Seq(Byte)
    BY BlockIsSequence
  <2>2. B \in Seq(Block)
    BY ContainerAssumption
  <2>3. N \in Nat /\ \A i \in 1..N : B[i] \in Block
    BY <2>2, LenProperties, ElementOfSeq
  <2> QED
    BY <2>1, <2>2, <2>3, BlockIsSequence, SeqMonotonic, BlockSizeAssumption
<1>2. /\ F(0) = << >> /\ F(N) = FlattenSeq(B)
      /\ \A n \in 0..N : F(n) \in Seq(Byte)
      /\ \A n \in 0..(N - 1) : F(n + 1) = F(n) \o B[n + 1]
  BY <1>1, FirstsSteps
<1>3. F(N) \o o.tail = Bytes(o)
  BY <1>2 DEF Bytes
<1> HIDE DEF N, B, F
<1>4. ASSUME Bad # {} PROVE FALSE
  <2>1. PICK n \in Bad : \A j \in Bad : n <= j
    <3>1. Bad \in SUBSET Nat
      BY <1>1
    <3> HIDE DEF Bad
    <3> QED
      BY <1>4, <3>1, LeastNatural
  <2>2. n \in 0..N /\ Len(F(n)) # n * BlockSize
    OBVIOUS
  <2>3. n # 0
    <3>1. Len(F(0)) = 0 /\ 0 * BlockSize = 0
      BY <1>1, <1>2
    <3> QED
      BY <2>2, <3>1
  <2>4. n - 1 \in 0..(N - 1) /\ n - 1 \in 0..N /\ (n - 1) + 1 = n /\ n \in 1..N /\ n - 1 < n
    BY <1>1, <2>2, <2>3
  <2>5. Len(F(n - 1)) = (n - 1) * BlockSize
    <3>1. n - 1 \in Bad => n <= n - 1
      BY <2>1
    <3>2. n - 1 \notin Bad
      <4> HIDE DEF Bad
      <4> QED
        BY <1>1, <2>2, <2>4, <3>1
    <3> QED
      BY <2>4, <3>2
  <2>6. F(n) = F(n - 1) \o B[n] /\ F(n - 1) \in Seq(Byte) /\ B[n] \in Seq(Byte) /\ Len(B[n]) = BlockSize
    BY <1>1, <1>2, <2>4
  <2>7. Len(F(n)) = Len(F(n - 1)) + BlockSize
    <3> DEFINE s == F(n - 1)
               u == B[n]
    <3>1. s \in Seq(Byte) /\ u \in Seq(Byte) /\ F(n) = s \o u /\ Len(u) = BlockSize
      BY <2>6
    <3> HIDE DEF s, u
    <3>2. Len(s \o u) = Len(s) + Len(u)
      BY <3>1, ConcatProperties
    <3> QED
      BY <3>1, <3>2 DEF s
  <2>8. (n - 1) * BlockSize + BlockSize = n * BlockSize
    BY <1>1, <2>2
  <2> QED
    BY <2>2, <2>5, <2>7, <2>8
<1>5. ASSUME NEW n \in 0..N
      PROVE  Len(F(n)) = n * BlockSize /\ Len(F(n)) \div BlockSize = n
  <2>1. n \notin Bad
    <3> HIDE DEF Bad
    <3> QED
      BY <1>4
  <2>2. Len(F(n)) = n * BlockSize /\ n \in Nat
    BY <1>1, <2>1
  <2>3. (n * BlockSize + 0) \div BlockSize = n
    <3>1. 0 \in 0..(BlockSize - 1)
      BY <1>1
    <3> QED
      BY <1>1, <2>2, <3>1, DivideBack
  <2>4. n * BlockSize \in Nat
    BY <1>1, <2>2
  <2>5. n * BlockSize + 0 = n * BlockSize
    BY <2>4
  <2> QED
    BY <2>2, <2>3, <2>5
<1> QED
  BY <1>2, <1>3, <1>5 DEF N, B, F

(* With the writer's model the reader has decoded some number of whole     *)
(* blocks and stands where the next one is recorded.                       *)
HeaderRead ==
  /\ header.version = version
  /\ header.original_size = Len(Bytes(original))
  /\ header.block_count = Len(original.blocks)

Between(n) ==
  /\ position = Len(UpTo(original, writeModel, version, n))
  /\ output = Firsts(original.blocks, n)

ReaderInv ==
  /\ reader = "idle" => output = << >> /\ position = 0
  /\ reader = "blocks" => HeaderRead
  /\ readModel = writeModel =>
       /\ reader = "blocks" => \E n \in 0..Len(original.blocks) : Between(n)
       /\ reader \in {"decoded", "exited"} => output = Bytes(original)
       /\ reader = "exited" /\ disk = "good" => result = Bytes(original)

ContainerInv == FilesInv /\ ReaderInv

LEMMA HeaderGoodReads ==
  ASSUME FilesInv, position = 0, Available(5)
  PROVE  /\ Field(1) = Magic /\ Field(2) = version /\ Field(4) = BlockSize
         /\ Field(3) = Len(Bytes(original)) /\ Field(5) = Len(original.blocks)
<1> DEFINE W == WholeFile(original, writeModel, version)
           H == HeaderFields(original, version)
<1>1. \A i \in 1..5 : W[i] = H[i]
  BY Places DEF FilesInv
<1>2. \A i \in 1..Len(file) : file[i] = W[i]
  BY DEF FilesInv, Begins
<1>3. \A i \in 1..5 : i \in 1..Len(file) /\ Field(i) = file[i]
  <2>1. Len(file) \in Nat
    BY LenProperties DEF FilesInv
  <2>2. \A i \in 1..5 : 0 + i = i
    OBVIOUS
  <2> QED
    BY <2>1, <2>2 DEF Available, Field
<1>4. /\ H[1] = Magic /\ H[2] = version /\ H[3] = Len(Bytes(original))
      /\ H[4] = BlockSize /\ H[5] = Len(original.blocks)
  BY DEF HeaderFields
<1>5. 1 \in 1..5 /\ 2 \in 1..5 /\ 3 \in 1..5 /\ 4 \in 1..5 /\ 5 \in 1..5
  OBVIOUS
<1> HIDE DEF W, H
<1>6. \A i \in 1..5 : Field(i) = H[i]
  BY <1>1, <1>2, <1>3
<1> QED
  BY <1>4, <1>5, <1>6

(* The reader's bytes after the last block are the tail.                   *)
LEMMA TailReads ==
  ASSUME FilesInv, position = Len(UpTo(original, writeModel, version, Len(original.blocks)))
  PROVE  /\ Available(1) => Field(1) = Len(original.tail)
         /\ Available(1 + Len(original.tail)) => FieldsFrom(2, Len(original.tail)) = original.tail
         /\ Len(TailFields(original)) = 1 + Len(original.tail)
         /\ position + Len(TailFields(original)) = Len(WholeFile(original, writeModel, version))
<1> DEFINE pre == <<Len(original.tail)>>
           d   == original.tail
           N   == Len(original.blocks)
<1>1. /\ original \in Originals /\ writeModel \in FileModels /\ version \in {1, 2}
      /\ d \in Seq(Byte) /\ Len(d) \in Nat /\ N \in Nat
  BY InputTypes DEF FilesInv
<1>2. d \in Seq(Fields)
  <2>1. Byte \subseteq Fields
    BY ByteAssumption DEF Fields
  <2> QED
    BY <1>1, <2>1, SeqMonotonic
<1>3. pre \in Seq(Fields) /\ Len(pre) = 1 /\ pre[1] = Len(d)
  BY <1>1 DEF Fields
<1>4. N \in 0..N /\ position \in Nat
  <2>1. N \in 0..N
    BY <1>1
  <2> QED
    BY <1>1, <2>1, Places
<1>5. TailFields(original) = pre \o d
  BY DEF TailFields
<1>6. /\ position + Len(TailFields(original)) = Len(WholeFile(original, writeModel, version))
      /\ \A i \in 1..Len(TailFields(original)) :
           WholeFile(original, writeModel, version)[position + i] = TailFields(original)[i]
  BY <1>1, Places
<1> HIDE DEF pre, d
<1>7. /\ Len(pre \o d) = Len(pre) + Len(d)
      /\ \A i \in 1..Len(pre) : Available(i) => Field(i) = pre[i]
      /\ Available(Len(pre) + Len(d)) => FieldsFrom(Len(pre) + 1, Len(d)) = d
  <2>1. \A i \in 1..Len(pre \o d) :
          WholeFile(original, writeModel, version)[position + i] = (pre \o d)[i]
    BY <1>5, <1>6
  <2> QED
    BY <1>2, <1>3, <1>4, <2>1, Taken
<1>8. 1 \in 1..1 /\ 1 + 1 = 2
  OBVIOUS
<1> QED
  BY <1>3, <1>5, <1>6, <1>7, <1>8 DEF d

LEMMA ReaderInvInit == ContainerInit => ReaderInv
BY DEF ContainerInit, ReaderInv

(* Where a reader between blocks stands.                                   *)
LEMMA Standing ==
  ASSUME ContainerInv, reader = "blocks", readModel = writeModel
  PROVE  /\ BlocksRead \in 0..Len(original.blocks) /\ Between(BlocksRead)
         /\ BlocksRead < header.block_count => AtBlock(BlocksRead)
         /\ BlocksRead = header.block_count => BlocksRead = Len(original.blocks)
<1>1. FilesInv /\ HeaderRead /\ \E n \in 0..Len(original.blocks) : Between(n)
  BY DEF ContainerInv, ReaderInv
<1>2. PICK n \in 0..Len(original.blocks) : Between(n)
  BY <1>1
<1>3. BlocksRead = n
  BY <1>1, <1>2, DecodedSteps DEF BlocksRead, Between, FilesInv
<1>4. header.block_count = Len(original.blocks) /\ header.version = version
  BY <1>1 DEF HeaderRead
<1>5. Len(original.blocks) \in Nat
  BY <1>1, InputTypes DEF FilesInv
<1>6. n < Len(original.blocks) => n \in 0..(Len(original.blocks) - 1)
  BY <1>5
<1> QED
  BY <1>1, <1>2, <1>3, <1>4, <1>6 DEF AtBlock, Between

LEMMA ReadHeaderKeeps ==
  ASSUME ContainerInv, ReadHeader
  PROVE  ReaderInv'
<1>1. FilesInv /\ position = 0 /\ output = << >> /\ UNCHANGED writerVars /\ readModel' = readModel
  BY DEF ContainerInv, ReaderInv, ReadHeader, Reject
<1>2. CASE ~HeaderGood
  <2>1. reader' = "rejected"
    BY <1>2 DEF ReadHeader, Reject
  <2> QED
    BY <2>1 DEF ReaderInv
<1>3. CASE HeaderGood
  <2>1. /\ reader' = "blocks" /\ position' = 5 /\ output' = output
        /\ header' = [original_size |-> Field(3), block_count |-> Field(5), version |-> Field(2)]
        /\ Available(5)
    BY <1>3 DEF ReadHeader, HeaderGood
  <2>2. /\ Field(2) = version /\ Field(3) = Len(Bytes(original))
        /\ Field(5) = Len(original.blocks)
    BY <1>1, <2>1, HeaderGoodReads
  <2>3. UNCHANGED <<original, writeModel, version>>
    BY <1>1 DEF writerVars
  <2>4. HeaderRead'
    BY <2>1, <2>2, <2>3 DEF HeaderRead
  <2>5. Len(UpTo(original, writeModel, version, 0)) = 5 /\ Firsts(original.blocks, 0) = << >>
    BY <1>1, Places, DecodedSteps DEF FilesInv
  <2>6. 0 \in 0..Len(original.blocks)
    BY <1>1, InputTypes DEF FilesInv
  <2>7. Between(0)'
    BY <1>1, <2>1, <2>3, <2>5 DEF Between
  <2>8. \E n \in 0..Len(original.blocks)' : Between(n)'
    BY <2>3, <2>6, <2>7
  <2> QED
    BY <2>1, <2>4, <2>8 DEF ReaderInv
<1> QED
  BY <1>2, <1>3

LEMMA NextStart ==
  ASSUME NEW o \in Originals, NEW m \in FileModels, NEW v \in {1, 2},
         NEW n \in 0..(Len(o.blocks) - 1)
  PROVE  Len(UpTo(o, m, v, n + 1)) = Len(UpTo(o, m, v, n)) + Len(BlockFields(o.blocks[n + 1], m, v))
BY ZenonT(30), Places

LEMMA ReadBlockKeeps ==
  ASSUME ContainerInv, ReadBlock
  PROVE  ReaderInv'
<1>1. /\ FilesInv /\ reader = "blocks" /\ BlocksRead < header.block_count /\ HeaderRead
      /\ UNCHANGED writerVars /\ readModel' = readModel
  BY DEF ContainerInv, ReaderInv, ReadBlock, Reject
<1>2. UNCHANGED <<original, writeModel, version, disk>>
  BY <1>1 DEF writerVars
<1>3. CASE reader' = "rejected"
  BY <1>3 DEF ReaderInv
<1>4. CASE \E r \in DecodedRecord :
             /\ position' = position + r.fields
             /\ output' = output \o r.block
             /\ UNCHANGED <<reader, readModel, header, result>>
  <2>1. PICK r \in DecodedRecord :
             /\ position' = position + r.fields
             /\ output' = output \o r.block
             /\ UNCHANGED <<reader, readModel, header, result>>
    BY <1>4
  <2>2. reader' = "blocks" /\ HeaderRead'
    BY <1>1, <1>2, <2>1 DEF HeaderRead
  <2>3. readModel = writeModel => \E n \in 0..Len(original.blocks) : Between(n)'
    <3> SUFFICES ASSUME readModel = writeModel PROVE \E n \in 0..Len(original.blocks) : Between(n)'
      OBVIOUS
    <3>0. PICK n \in 0..Len(original.blocks) : n = BlocksRead
      BY <1>1, Standing
    <3>1. AtBlock(n) /\ Between(n)
      BY <1>1, <3>0, Standing
    <3>2. r.fields = Len(Recording(n)) /\ r.block = original.blocks[n + 1]
      BY <3>1, BlockReads DEF ReadsAs
    <3>3. n \in 0..(Len(original.blocks) - 1) /\ n + 1 \in 0..Len(original.blocks)
      <4>1. Len(original.blocks) \in Nat /\ n \in 0..(Len(original.blocks) - 1)
        BY <1>1, <3>1, InputTypes DEF AtBlock, FilesInv
      <4> QED
        BY <4>1
    <3>4. position' = Len(UpTo(original, writeModel, version, n + 1))
      <4>1. original \in Originals /\ writeModel \in FileModels /\ version \in {1, 2}
        BY <1>1 DEF FilesInv
      <4>2. Len(UpTo(original, writeModel, version, n + 1))
              = Len(UpTo(original, writeModel, version, n)) + Len(Recording(n))
        BY <3>3, <4>1, NextStart DEF Recording
      <4> QED
        BY <2>1, <3>1, <3>2, <4>2 DEF Between
    <3>5. output' = Firsts(original.blocks, n + 1)
      BY <1>1, <2>1, <3>1, <3>2, <3>3, DecodedSteps DEF Between, FilesInv
    <3>6. PICK k \in 0..Len(original.blocks) : k = n + 1
      BY <3>3
    <3>7. Between(k)'
      BY <1>2, <3>4, <3>5, <3>6 DEF Between
    <3> QED
      BY <3>7
  <2> QED
    BY <1>1, <1>2, <2>2, <2>3 DEF ReaderInv
<1> QED
  BY <1>3, <1>4 DEF ReadBlock, Reject

LEMMA ReadTailKeeps ==
  ASSUME ContainerInv, ReadTail
  PROVE  ReaderInv'
<1>1. /\ FilesInv /\ reader = "blocks" /\ BlocksRead = header.block_count
      /\ UNCHANGED writerVars /\ readModel' = readModel
  BY DEF ContainerInv, ReadTail, Reject
<1>2. UNCHANGED <<original, writeModel, version, disk>>
  BY <1>1 DEF writerVars
<1>3. CASE reader' = "rejected"
  BY <1>3 DEF ReaderInv
<1>4. CASE reader' # "rejected"
  <2>1. /\ TailGood /\ reader' = "decoded"
        /\ output' = output \o FieldsFrom(2, Field(1))
    BY <1>4 DEF ReadTail, Reject
  <2>2. readModel = writeModel => output' = Bytes(original)
    <3> SUFFICES ASSUME readModel = writeModel PROVE output' = Bytes(original)
      OBVIOUS
    <3>1. Between(Len(original.blocks))
      BY <1>1, Standing
    <3>2. Available(1) /\ Available(1 + Field(1))
      BY <2>1 DEF TailGood
    <3>3. FieldsFrom(2, Field(1)) = original.tail
      BY <1>1, <3>1, <3>2, TailReads DEF Between
    <3> QED
      BY <1>1, <2>1, <3>1, <3>3, DecodedSteps DEF Between, FilesInv
  <2> QED
    BY <1>1, <1>2, <2>1, <2>2 DEF ReaderInv
<1> QED
  BY <1>3, <1>4

LEMMA BytesType ==
  ASSUME NEW o \in Originals
  PROVE  /\ Bytes(o) \in Seq(Byte)
         /\ Len(Bytes(o)) = Len(Firsts(o.blocks, Len(o.blocks))) + Len(o.tail)
<1> DEFINE s == Firsts(o.blocks, Len(o.blocks))
           u == o.tail
<1>1. o.blocks \in Seq(Block) /\ u \in Seq(Byte)
  BY ContainerAssumption
<1>2. Len(o.blocks) \in 0..Len(o.blocks)
  BY <1>1, LenProperties
<1>3. s \in Seq(Byte) /\ Bytes(o) = s \o u
  BY <1>2, DecodedSteps
<1> HIDE DEF s, u
<1>4. s \o u \in Seq(Byte) /\ Len(s \o u) = Len(s) + Len(u)
  BY <1>1, <1>3, ConcatProperties
<1> QED
  BY <1>3, <1>4 DEF s, u

LEMMA WriteOutputKeeps ==
  ASSUME ContainerInv, WriteOutput
  PROVE  ReaderInv'
<1>1. /\ FilesInv /\ reader = "decoded" /\ reader' = "exited" /\ output' = output
      /\ readModel' = readModel
      /\ UNCHANGED <<original, writeModel, disk>>
      /\ disk = "good" => result' = SubSeq(output, 1, Len(output))
  BY DEF ContainerInv, WriteOutput, writerVars
<1>2. readModel = writeModel => output = Bytes(original)
  BY <1>1 DEF ContainerInv, ReaderInv
<1>3. SubSeq(Bytes(original), 1, Len(Bytes(original))) = Bytes(original)
  BY <1>1, BytesType, SubSeqFull DEF FilesInv
<1> QED
  BY <1>1, <1>2, <1>3 DEF ReaderInv

LEMMA ContainerInvStep == ContainerInv /\ [ContainerNext]_containerVars => ContainerInv'
<1> SUFFICES ASSUME ContainerInv, [ContainerNext]_containerVars PROVE ReaderInv'
  BY FilesInvStep DEF ContainerInv
<1>1. CASE UNCHANGED readerVars
  <2>1. /\ UNCHANGED <<reader, readModel, position, header, output, result, original, writeModel, version>>
        /\ disk' = "good" => disk = "good"
    BY <1>1 DEF readerVars, containerVars, writerVars, ContainerNext, Writer, OpenOutput, WriteBlock,
                WriteTail, Flush, Exit, Kill, DiskFull, Reader, ReadHeader, ReadBlock, ReadTail, WriteOutput
  <2> QED
    BY <2>1 DEF ContainerInv, ReaderInv, HeaderRead, Between
<1>2. CASE Reader
  BY <1>2, ReadHeaderKeeps, ReadBlockKeeps, ReadTailKeeps, WriteOutputKeeps DEF Reader
<1> QED
  BY <1>1, <1>2 DEF ContainerNext, Writer, OpenOutput, WriteBlock, WriteTail, Flush, Exit, Kill,
                    DiskFull, containerVars

LEMMA ContainerInvHolds == ContainerSpec => []ContainerInv
<1>1. ContainerInit => ContainerInv
  BY FilesInvInit, ReaderInvInit DEF ContainerInv
<1> QED
  BY <1>1, ContainerInvStep, PTL DEF ContainerSpec

(* A file that decompress accepts gives back every byte of the input,      *)
(* wherever a kill, a full disk or a slow writer left it.                  *)
THEOREM AcceptedIsOriginal == ContainerSpec => []DecodedIsOriginal
<1>1. ContainerInv => DecodedIsOriginal
  BY DEF ContainerInv, ReaderInv, DecodedIsOriginal
<1> QED
  BY <1>1, ContainerInvHolds, PTL

LEMMA CompleteHeader ==
  ASSUME FilesInv, position = 0, file = WholeFile(original, writeModel, version)
  PROVE  HeaderGood
<1> DEFINE U == UpTo(original, writeModel, version, 0)
<1>1. Len(U) = 5
  BY Places DEF FilesInv
<1>2. Begins(U, file)
  <2>1. 0 \in 0..Len(original.blocks)
    BY InputTypes DEF FilesInv
  <2> QED
    BY <2>1, UpToBegins DEF FilesInv
<1>3. Available(5)
  <2> HIDE DEF U
  <2>1. 5 <= Len(file) /\ 0 + 5 = 5
    BY <1>1, <1>2 DEF Begins
  <2> QED
    BY <2>1 DEF Available
<1> QED
  BY <1>3, HeaderGoodReads DEF HeaderGood, FilesInv

(* Decompress refuses, with the model the file was written with, only what *)
(* is not all there.                                                       *)
THEOREM CompleteIsAccepted == ContainerSpec => RefusesOnlyIncomplete
<1>1. ContainerInv /\ [ContainerNext]_containerVars
        => [/\ reader # "rejected" /\ reader' = "rejected" /\ readModel = writeModel
            /\ \A s \in 1..Len(writeModel) : TagFitsWord(writeModel[s])
            => file # WholeFile(original, writeModel, version)]_containerVars
  <2> SUFFICES ASSUME ContainerInv, ContainerNext,
                      reader # "rejected", reader' = "rejected", readModel = writeModel,
                      \A s \in 1..Len(writeModel) : TagFitsWord(writeModel[s]),
                      file = WholeFile(original, writeModel, version)
               PROVE  FALSE
    OBVIOUS
  <2>0. FilesInv /\ Len(file) \in Nat
    BY LenProperties DEF ContainerInv, FilesInv
  <2>1. CASE ReadHeader
    <3>1. position = 0 /\ ~HeaderGood
      BY <2>1 DEF ContainerInv, ReaderInv, ReadHeader
    <3> QED
      BY <2>0, <3>1, CompleteHeader
  <2>2. CASE ReadBlock
    <3>1. reader = "blocks" /\ BlocksRead < header.block_count /\ DecodedRecord = {}
      BY <2>2 DEF ReadBlock
    <3>2. PICK n \in 0..Len(original.blocks) : n = BlocksRead
      BY <3>1, Standing
    <3>3. AtBlock(n) /\ Between(n)
      BY <3>1, <3>2, Standing
    <3>4. ReadsAs(original.blocks[n + 1], Len(Recording(n)))
      BY <3>3, BlockReads
    <3>5. Available(Len(Recording(n)))
      <4>1. n \in 0..(Len(original.blocks) - 1)
        BY <3>3 DEF AtBlock
      <4>2. position + Len(Recording(n)) <= Len(WholeFile(original, writeModel, version))
        BY ZenonT(30), <2>0, <3>3, <4>1, Places DEF Recording, Between, FilesInv
      <4> QED
        BY <4>2 DEF Available
    <3> QED
      BY <3>1, <3>4, <3>5 DEF ReadsAs
  <2>3. CASE ReadTail
    <3> DEFINE t == Len(original.tail)
    <3>1. reader = "blocks" /\ BlocksRead = header.block_count /\ ~TailGood /\ HeaderRead
      BY <2>3 DEF ReadTail, ContainerInv, ReaderInv
    <3>2. Between(Len(original.blocks))
      BY <3>1, Standing
    <3>3. t \in Nat /\ t < BlockSize /\ Len(original.blocks) \in 0..Len(original.blocks)
      BY <2>0, InputTypes DEF FilesInv
    <3>4. /\ Available(1) => Field(1) = t
          /\ Len(TailFields(original)) = 1 + t
          /\ position + Len(TailFields(original)) = Len(file)
      BY <2>0, <3>2, TailReads DEF Between
    <3>5. position \in Nat
      BY <2>0, <3>2, <3>3, Places DEF Between, FilesInv
    <3>6. Available(1) /\ Available(1 + t)
      BY <3>3, <3>4, <3>5 DEF Available
    <3>7. Len(output) + t = header.original_size
      BY <2>0, <3>1, <3>2, BytesType DEF Between, HeaderRead, FilesInv
    <3> QED
      BY <3>1, <3>3, <3>4, <3>6, <3>7 DEF TailGood
  <2>4. CASE WriteOutput
    BY <2>4 DEF WriteOutput
  <2>5. CASE UNCHANGED readerVars
    BY <2>5 DEF readerVars
  <2> QED
    BY <2>1, <2>2, <2>3, <2>4, <2>5
       DEF ContainerNext, Writer, OpenOutput, WriteBlock, WriteTail, Flush, Exit, Kill, DiskFull, Reader
<1> QED
  BY <1>1, ContainerInvHolds, PTL DEF ContainerSpec, RefusesOnlyIncomplete
=============================================================================
