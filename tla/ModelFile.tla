------------------------------ MODULE ModelFile ------------------------------
(***************************************************************************)
(* The model file (src/src/model_io.cpp): save_model overwrites it through *)
(* a buffered stream, load_model reads it back.                            *)
(*                                                                         *)
(* A file is a sequence of fields: keywords, numbers and line ends.  Where *)
(* a file ends early the last field may be cut: a keyword becomes another  *)
(* word, a number loses its last digits.  Numbers are written in base      *)
(* Radix, 10 in the program.                                               *)
(*                                                                         *)
(* A stream that has met the end of its input is no longer good; an        *)
(* extraction from it leaves its variable alone, getline leaves the line   *)
(* alone, and load_model looks at neither until its last check.            *)
(***************************************************************************)
EXTENDS BlockCodec, SequencesExt

CONSTANTS
  Models,           (* models that may be saved, valid or not              *)
  Radix,
  DefaultTarget     (* default of PatternSet::target_size                  *)

ASSUME RadixAssumption   == Radix \in Nat /\ Radix > 1
ASSUME DefaultAssumption == DefaultTarget \in Nat
ASSUME ModelsAssumption  == Models \subseteq Seq(PatternSets)

VARIABLES
  saved, version,   (* the model whose file this is, and its format        *)
  writer,           (* "idle", "saving", "exited", "killed" or "refused"   *)
  buffer, file,     (* fields in the stream buffer and in the file         *)
  loader,           (* "idle", "sets", "patterns", "loaded" or "rejected"  *)
  input, position,  (* the file load_model opened, fields consumed         *)
  good,             (* whether the stream has not met its end yet          *)
  token, line,      (* the variables of load_model with these names        *)
  set_count,
  set, missing,     (* the set being read, patterns it still lacks         *)
  sets              (* model.sets                                          *)

writerVars == <<saved, version, writer, buffer, file>>
streamVars == <<position, good, line>>
loaderVars == <<loader, input, streamVars, token, set_count, set, missing, sets>>
fileVars   == <<writerVars, loaderVars>>

-----------------------------------------------------------------------------
(* The format.  Version 1 knew no tags.                                    *)

Word(kind) == [kind |-> kind, value |-> 0]
Number(n)  == [kind |-> "number", value |-> n]
EndOfLine  == Word("newline")

SetLine(s, v) ==
  <<Word("set"), Number(s.target_size), Number(s.metadata_bytes)>>
  \o (IF v = 2 THEN <<Number(s.tag_bits), Number(s.tag_value)>> ELSE << >>)
  \o <<Number(Len(s.patterns)), EndOfLine>>

PatternLine(p) ==
  <<Word("pattern")>> \o [i \in Pos |-> Number(p[i])] \o <<EndOfLine>>

SetLines(s, v) ==
  SetLine(s, v) \o FlattenSeq([k \in 1..Len(s.patterns) |-> PatternLine(s.patterns[k])])

HeaderLines(m, v) ==
  <<Word("BSEL_MODEL"), Number(v), EndOfLine, Word("block_size"),
    Number(BlockSize), EndOfLine, Word("sets"), Number(Len(m)), EndOfLine>>

WholeFile(m, v) ==
  HeaderLines(m, v) \o FlattenSeq([s \in 1..Len(m) |-> SetLines(m[s], v)])

(* What is left of a field of which only a part was written.               *)
Cut(field) ==
  CASE field.kind = "newline" -> {}
    [] field.kind = "number"  ->
         {Number(field.value \div Radix^k) : k \in {j \in 1..field.value : Radix^j <= field.value}}
    [] OTHER -> {Word("partial")}

(* What may be found in the file while it is written.                      *)
Found ==
  {file} \cup {Append(file, c) : c \in IF buffer = << >> THEN {} ELSE Cut(Head(buffer))}

-----------------------------------------------------------------------------

NoSet == PatternSet(0, 0, 0, 0, << >>)

FileInit ==
  /\ saved \in Models /\ version \in {1, 2}
  /\ version = 1 => ValidModel(saved) /\ \A s \in 1..Len(saved) : saved[s].tag_bits = 0
  /\ file = IF version = 1 THEN WholeFile(saved, 1) ELSE << >>
  /\ writer = IF version = 1 THEN "exited" ELSE "idle"
  /\ buffer = << >>
  /\ loader = "idle" /\ input = << >> /\ position = 0 /\ good = TRUE
  /\ token = "" /\ line = << >> /\ set_count = 0
  /\ set = NoSet /\ missing = 0 /\ sets = << >>

(* save_model validates before it touches the file.                        *)
Save ==
  /\ writer = "idle"
  /\ IF ValidModel(saved)
       THEN /\ writer' = "saving" /\ buffer' = WholeFile(saved, 2)
            /\ file' = << >>
       ELSE /\ writer' = "refused" /\ UNCHANGED <<buffer, file>>
  /\ UNCHANGED <<saved, version, loaderVars>>

Flush ==
  /\ writer = "saving" /\ buffer # << >>
  /\ file' = Append(file, Head(buffer)) /\ buffer' = Tail(buffer)
  /\ UNCHANGED <<saved, version, writer, loaderVars>>

Exit ==
  /\ writer = "saving" /\ buffer = << >> /\ writer' = "exited"
  /\ UNCHANGED <<saved, version, buffer, file, loaderVars>>

(* Killed, or the device is full: neither is reported by save_model.       *)
Kill ==
  /\ writer = "saving" /\ writer' = "killed"
  /\ file' \in Found /\ buffer' = << >>
  /\ UNCHANGED <<saved, version, loaderVars>>

-----------------------------------------------------------------------------
(* load_model                                                              *)

Reject ==
  /\ loader' = "rejected"
  /\ UNCHANGED <<input, streamVars, token, set_count, set, missing, sets>>

(* Everything up to the number of sets must be there; a keyword or number  *)
(* missing before leaves the previous token, which is not the one wanted.  *)
HeaderGood(found) ==
  /\ Len(found) >= 8
  /\ found[1].kind = "BSEL_MODEL" /\ found[2].value \in {1, 2}
  /\ found[4].kind = "block_size" /\ found[7].kind = "sets"

Load ==
  /\ loader = "idle"
  /\ \E found \in Found :
       /\ input' = found
       /\ IF HeaderGood(found)
            THEN /\ loader' = "sets"
                 /\ position' = 9 /\ good' = (Len(found) >= 9)
                 /\ token' = "sets" /\ set_count' = found[8].value
            ELSE loader' = "rejected" /\ UNCHANGED <<position, good, token, set_count>>
  /\ UNCHANGED <<line, set, missing, sets, writerVars>>

(* The n-th extraction of a line, and what its variable keeps when the     *)
(* stream has ended before.                                                *)
Extracted(n, default) ==
  IF good /\ position + n <= Len(input) THEN input[position + n].value ELSE default

TokenRead ==
  IF good /\ position + 1 <= Len(input) THEN input[position + 1].kind ELSE token

SetFields == IF input[2].value = 2 THEN 6 ELSE 4

ReadSetLine ==
  /\ loader = "sets" /\ Len(sets) < set_count
  /\ token' = TokenRead
  /\ IF TokenRead # "set"
       THEN loader' = "rejected" /\ UNCHANGED <<streamVars, set, missing>>
       ELSE /\ loader' = "patterns"
            /\ set' = PatternSet(Extracted(2, DefaultTarget), Extracted(3, 1),
                                 IF SetFields = 6 THEN Extracted(4, 0) ELSE 0,
                                 IF SetFields = 6 THEN Extracted(5, 0) ELSE 0, << >>)
            /\ missing' = Extracted(SetFields, 0)
            /\ good' = (good /\ position + SetFields < Len(input))
            /\ position' = IF good' THEN position + SetFields + 1 ELSE Len(input)
            /\ line' = IF good' THEN << >> ELSE line
  /\ UNCHANGED <<input, set_count, sets, writerVars>>

(* The fields from the position to the next line end or the end of file.   *)
RestOfLine ==
  LET ends == {n \in (position + 1)..Len(input) : input[n].kind = "newline"}
      last == IF ends = {} THEN Len(input)
              ELSE (CHOOSE n \in ends : \A e \in ends : n <= e) - 1
  IN  SubSeq(input, position + 1, last)

(* getline                                                                 *)
GetLine ==
  IF good
    THEN /\ line' = RestOfLine
         /\ position' = position + Len(RestOfLine) + 1
         /\ good' = (position' <= Len(input))
    ELSE UNCHANGED streamVars

(* A line that is a pattern of the block's size.                           *)
IsPatternLine(l) ==
  /\ l # << >> /\ l[1].kind = "pattern"
  /\ Len(l) = BlockSize + 1

Parsed(l) == Canonicalize([i \in Pos |-> l[i + 1].value])

DropsTheLast ==
  /\ loader = "patterns" /\ missing > 0
  /\ GetLine
  /\ missing' = missing - 1
  /\ IF IsPatternLine(line')
       THEN set' = [set EXCEPT !.patterns = IF missing = 1 THEN @ ELSE Append(@, Parsed(line'))]
            /\ UNCHANGED loader
       ELSE loader' = "rejected" /\ UNCHANGED set
  /\ UNCHANGED <<input, token, set_count, sets, writerVars>>

ReadPattern ==
  /\ loader = "patterns" /\ missing > 0
  /\ GetLine
  /\ missing' = missing - 1
  /\ IF IsPatternLine(line')
       THEN set' = [set EXCEPT !.patterns = Append(@, Parsed(line'))] /\ UNCHANGED loader
       ELSE loader' = "rejected" /\ UNCHANGED set
  /\ UNCHANGED <<input, token, set_count, sets, writerVars>>

EndSet ==
  /\ loader = "patterns" /\ missing = 0 /\ loader' = "sets"
  /\ sets' = Append(sets, set)
  /\ UNCHANGED <<input, streamVars, token, set_count, set, missing, writerVars>>

(* Nothing may follow, and the model is validated.                         *)
EndLoad ==
  /\ loader = "sets" /\ Len(sets) = set_count
  /\ loader' = IF (good => position >= Len(input)) /\ ValidModel(sets)
                 THEN "loaded" ELSE "rejected"
  /\ UNCHANGED <<input, streamVars, token, set_count, set, missing, sets, writerVars>>

Writer == Save \/ Flush \/ Exit
Loader == Load \/ ReadSetLine \/ ReadPattern \/ EndSet \/ EndLoad

FileNext == Writer \/ Kill \/ Loader

FileSpec == FileInit /\ [][FileNext]_fileVars

-----------------------------------------------------------------------------

(* A file that is all there is accepted and gives the saved model back,    *)
(* set by set, pattern by pattern, in either version; in particular the    *)
(* file of a save that ran to its end.                                     *)
WholeFileLoadsBack ==
  /\ loader \in {"loaded", "rejected"} /\ input = WholeFile(saved, version)
       => loader = "loaded" /\ sets = saved
  /\ writer = "exited" => file = WholeFile(saved, version)

(* Whatever a file cut short loads as, the patterns whose lines are        *)
(* complete keep their places: no pattern slips into another's index.  A   *)
(* file cut after a complete line that is not the last of its set is       *)
(* refused ("missing pattern", model_io.cpp:67).                           *)
LinesBefore(s, k) ==
  HeaderLines(saved, version)
  \o FlattenSeq([t \in 1..(s - 1) |-> SetLines(saved[t], version)])
  \o SetLine(saved[s], version)
  \o FlattenSeq([j \in 1..k |-> PatternLine(saved[s].patterns[j])])

CompleteLinesKept ==
  loader = "loaded" =>
    \A s \in 1..Len(saved) :
      /\ \A k \in 1..Len(saved[s].patterns) :
           IsPrefix(LinesBefore(s, k), input)
             => /\ s <= Len(sets) /\ k <= Len(sets[s].patterns)
                /\ sets[s].patterns[k] = saved[s].patterns[k]
      /\ \A k \in 0..(Len(saved[s].patterns) - 1) : input # LinesBefore(s, k)

(* Neither saving nor loading moves, drops or invents a complete line.     *)
SavedLinesLoadBack == WholeFileLoadsBack /\ CompleteLinesKept

(* What is loaded is what was saved: a file that lacks a pattern or a set  *)
(* is refused ("missing pattern", "missing set", model_io.cpp:60,67).      *)
LoadedIsSaved == loader = "loaded" => sets = saved
=============================================================================
