------------------------------ MODULE Container ------------------------------
(***************************************************************************)
(* The .bsel container: `bsel compress` writes one, `bsel decompress`      *)
(* reads one back (command_compress and command_decompress of              *)
(* src/src/main.cpp).                                                      *)
(*                                                                         *)
(* A file is a sequence of fields: every fixed-width integer is one        *)
(* natural, and so is every data byte.  A field of which only some bytes   *)
(* reached the file reads as end of file, like a missing one.              *)
(*                                                                         *)
(* The writer puts fields into a stream buffer that reaches the file later,*)
(* in order.  The process may be killed and the disk may fill up at any    *)
(* time; the program tests neither its writes nor the stream at exit.  The *)
(* reader may start while the writer is still at work.                     *)
(***************************************************************************)
EXTENDS BlockCodec, SequencesExt

CONSTANTS
  Originals,     (* inputs: records of a sequence of blocks and a tail      *)
  FileModels,    (* models a file may be written and read with              *)
  Magic          (* the field "BSEL"                                        *)

ASSUME ContainerAssumption ==
  /\ \A o \in Originals : /\ o.blocks \in Seq(Block)
                          /\ o.tail \in Seq(Byte) /\ Len(o.tail) < BlockSize
  /\ FileModels \subseteq Seq(PatternSets) /\ \A m \in FileModels : ValidModel(m)

VARIABLES
  original, writeModel,  (* what is compressed, with which model            *)
  version,           (* 2, or 1 for a file left by an earlier program       *)
  writer,            (* "closed", "writing", "closing", "exited", "killed" *)
  written,           (* blocks given to the stream so far                   *)
  buffer, file,      (* fields in the stream buffer and in the file         *)
  disk,              (* "good" or "full"                                    *)
  reader,            (* "idle", "blocks", "decoded", "exited" or "rejected" *)
  readModel,         (* the model decompress is given                       *)
  position,          (* fields consumed                                     *)
  header,            (* original_size and block_count read from the file    *)
  output,            (* bytes decoded so far                                *)
  result             (* the file decompress writes                          *)

writerVars    == <<original, writeModel, version, writer, written, buffer, file, disk>>
readerVars    == <<reader, readModel, position, header, output, result>>
containerVars == <<writerVars, readerVars>>

(* A block is a tuple of bytes.                                            *)
Bytes(o) == FlattenSeq(o.blocks) \o o.tail

-----------------------------------------------------------------------------
(* The format.                                                             *)

HeaderFields(o, v) ==
  <<Magic, v, Len(Bytes(o)), BlockSize, Len(o.blocks)>>

(* Version 1 recorded positions instead of target size and metadata.       *)
LegacyIndexFields(e) == <<e.set_index - 1, e.pattern_index, Len(e.dictionary)>>

IndexFields(e) == <<e.allocated_size, e.metadata>>

BlockFields(b, m, v) ==
  LET e == Compress(b, m)
  IN  IF e.compressed
        THEN <<1>> \o (IF v = 1 THEN LegacyIndexFields(e) ELSE IndexFields(e))
                   \o e.dictionary
        ELSE <<0>> \o b

TailFields(o) == <<Len(o.tail)>> \o o.tail

WholeFile(o, m, v) ==
  HeaderFields(o, v)
  \o FlattenSeq([i \in 1..Len(o.blocks) |-> BlockFields(o.blocks[i], m, v)])
  \o TailFields(o)

-----------------------------------------------------------------------------

ContainerInit ==
  /\ original \in Originals /\ writeModel \in FileModels /\ readModel \in FileModels
  /\ version \in {1, 2}
  /\ file = IF version = 1 THEN WholeFile(original, writeModel, 1) ELSE << >>
  /\ writer = IF version = 1 THEN "exited" ELSE "closed"
  /\ written = 0 /\ buffer = << >> /\ disk = "good"
  /\ reader = "idle" /\ position = 0 /\ output = << >> /\ result = << >>
  /\ header = [original_size |-> 0, block_count |-> 0, version |-> 0]

(* Fields put on a stream whose device failed are lost.                    *)
Put(fields) == buffer' = IF disk = "good" THEN buffer \o fields ELSE << >>

OpenOutput ==
  /\ writer = "closed" /\ writer' = "writing"
  /\ Put(HeaderFields(original, 2))
  /\ UNCHANGED <<original, writeModel, version, written, file, disk, readerVars>>

WriteBlock ==
  /\ writer = "writing" /\ written < Len(original.blocks)
  /\ written' = written + 1
  /\ Put(BlockFields(original.blocks[written + 1], writeModel, 2))
  /\ UNCHANGED <<original, writeModel, version, writer, file, disk, readerVars>>

WriteTail ==
  /\ writer = "writing" /\ written = Len(original.blocks)
  /\ writer' = "closing"
  /\ Put(TailFields(original))
  /\ UNCHANGED <<original, writeModel, version, written, file, disk, readerVars>>

(* The stream empties a part of its buffer.                                *)
Flush ==
  /\ writer \in {"writing", "closing"} /\ disk = "good" /\ buffer # << >>
  /\ file' = Append(file, Head(buffer))
  /\ buffer' = Tail(buffer)
  /\ UNCHANGED <<original, writeModel, version, writer, written, disk, readerVars>>

(* The destructor has flushed what the device took; the exit is a success. *)
Exit ==
  /\ writer = "closing" /\ buffer = << >>
  /\ writer' = "exited"
  /\ UNCHANGED <<original, writeModel, version, written, buffer, file, disk, readerVars>>

Kill ==
  /\ writer \in {"writing", "closing"} /\ writer' = "killed"
  /\ buffer' = << >>
  /\ UNCHANGED <<original, writeModel, version, written, file, disk, readerVars>>

(* From here on nothing more fits; the stream drops what it holds.         *)
DiskFull ==
  /\ disk = "good" /\ disk' = "full"
  /\ buffer' = << >>
  /\ UNCHANGED <<original, writeModel, version, writer, written, file, readerVars>>

-----------------------------------------------------------------------------
(* The reader takes fields from `position` on; too few is end of file.     *)

Field(n)         == file[position + n]
Available(n)     == position + n <= Len(file)
FieldsFrom(k, n) == SubSeq(file, position + k, position + k + n - 1)

Reject ==
  /\ reader' = "rejected"
  /\ UNCHANGED <<readModel, position, header, output, result>>

HeaderGood ==
  /\ Available(5)
  /\ Field(1) = Magic /\ Field(2) \in {1, 2} /\ Field(4) = BlockSize

ReadHeader ==
  /\ reader = "idle" /\ writer # "closed"
  /\ IF HeaderGood
       THEN /\ reader' = "blocks"
            /\ position' = 5
            /\ header' = [original_size |-> Field(3), block_count |-> Field(5),
                          version |-> Field(2)]
            /\ UNCHANGED <<readModel, output, result>>
       ELSE Reject
  /\ UNCHANGED writerVars

(* The record at `position`, by its flag and the version; none when it is  *)
(* malformed, truncated, or names a set, pattern or dictionary the model   *)
(* lacks.                                                                  *)
Record(s, index, metadata, from) ==
  LET n == DictionarySize(readModel[s])
  IN  IF Available(from + n - 1)
        THEN {[fields |-> from + n - 1,
               encoded |-> [compressed |-> TRUE, set_index |-> s,
                            pattern_index |-> index, metadata |-> metadata,
                            dictionary |-> FieldsFrom(from, n)]]}
        ELSE {}

RawRecord ==
  IF Available(1 + BlockSize)
    THEN {[fields |-> 1 + BlockSize, encoded |-> RawBlock(FieldsFrom(2, BlockSize))]}
    ELSE {}

(* set_index_for_target_size(), then decode_pattern_metadata().            *)
TaggedRecord ==
  IF Available(3)
    THEN UNION {UNION {Record(s, index, Field(3), 4)
                         : index \in DecodePatternMetadata(readModel[s], Field(3))}
                  : s \in {t \in 1..Len(readModel) : readModel[t].target_size = Field(2)}}
    ELSE {}

LegacyCountsFromOne ==
  IF Available(4)
    THEN UNION {Record(s, Field(3) - 1, EncodePatternMetadata(readModel[s], Field(3) - 1), 5)
                  : s \in {t \in 1..Len(readModel) : t = Field(2) + 1 /\ Field(3) > 0}}
    ELSE {}

LegacyRecord ==
  IF Available(4)
    THEN UNION {Record(s, Field(3), EncodePatternMetadata(readModel[s], Field(3)), 5)
                  : s \in {t \in 1..Len(readModel) :
                             /\ t = Field(2) + 1
                             /\ Field(4) = DictionarySize(readModel[t])
                             /\ Field(3) < Len(readModel[t].patterns)}}
    ELSE {}

NextRecord ==
  CASE ~Available(1) -> {}
    [] Available(1) /\ Field(1) = 0 -> RawRecord
    [] Available(1) /\ Field(1) = 1 ->
         IF header.version = 1 THEN LegacyRecord ELSE TaggedRecord
    [] OTHER -> {}

DecodedRecord ==
  UNION {{[fields |-> r.fields, block |-> b] : b \in Decompress(r.encoded, readModel)}
           : r \in NextRecord}

BlocksRead == Len(output) \div BlockSize

ReadBlock ==
  /\ reader = "blocks" /\ BlocksRead < header.block_count
  /\ \/ \E r \in DecodedRecord :
          /\ position' = position + r.fields
          /\ output' = output \o r.block
          /\ UNCHANGED <<reader, readModel, header, result>>
     \/ DecodedRecord = {} /\ Reject
  /\ UNCHANGED writerVars

LongestTailRefused ==
  /\ Available(1)
  /\ Field(1) + 1 < BlockSize
  /\ Available(1 + Field(1))
  /\ Len(output) + Field(1) = header.original_size

TailGood ==
  /\ Available(1)
  /\ Field(1) < BlockSize
  /\ Available(1 + Field(1))
  /\ Len(output) + Field(1) = header.original_size

ReadTail ==
  /\ reader = "blocks" /\ BlocksRead = header.block_count
  /\ IF TailGood
       THEN /\ reader' = "decoded"
            /\ position' = position + 1 + Field(1)
            /\ output' = output \o FieldsFrom(2, Field(1))
            /\ UNCHANGED <<readModel, header, result>>
       ELSE Reject
  /\ UNCHANGED writerVars

(* write_bytes(): what a full disk still takes of it, and success.         *)
WriteOutput ==
  /\ reader = "decoded" /\ reader' = "exited"
  /\ \E n \in IF disk = "good" THEN {Len(output)} ELSE 0..Len(output) :
       result' = SubSeq(output, 1, n)
  /\ UNCHANGED <<readModel, position, header, output, writerVars>>

Writer == OpenOutput \/ WriteBlock \/ WriteTail \/ Flush \/ Exit
Reader == ReadHeader \/ ReadBlock \/ ReadTail \/ WriteOutput

ContainerNext == Writer \/ Kill \/ DiskFull \/ Reader

(* Neither program waits for the other: each step once begun is followed   *)
(* by the next.                                                            *)
ContainerSpec == ContainerInit /\ [][ContainerNext]_containerVars

-----------------------------------------------------------------------------

(* Whatever was lost on the way, a file that decompress accepts with the   *)
(* model it was written with gives back every byte of the input: a file    *)
(* cut short by a kill, a full disk or a writer still at work is refused.  *)
DecodedIsOriginal ==
  readModel = writeModel =>
    /\ reader \in {"decoded", "exited"} => output = Bytes(original)
    /\ reader = "exited" /\ disk = "good" => result = Bytes(original)

(* Decompress refuses with the right model only what is not all there,     *)
(* when a word holds the metadata of the model's tagged sets.              *)
RefusesOnlyIncomplete ==
  [][/\ reader # "rejected" /\ reader' = "rejected" /\ readModel = writeModel
     /\ \A s \in 1..Len(writeModel) : TagFitsWord(writeModel[s])
     => file # WholeFile(original, writeModel, version)]_containerVars
=============================================================================
