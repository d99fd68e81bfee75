---------------------------- MODULE TraceTraining ----------------------------
(***************************************************************************)
(* `bsel train` and `bsel train-list` (src/src/main.cpp): options are      *)
(* parsed, each trace is opened to count its blocks and to place the       *)
(* holdout in its middle, opened again to count the patterns of the other  *)
(* blocks, one set is trained per target, the model is saved, and the      *)
(* traces are opened a third time to evaluate the blocks held out.         *)
(*                                                                         *)
(* Traces belong to other programs: between any two steps one may grow,    *)
(* shrink or disappear.  A trace that was opened stays readable.           *)
(*                                                                         *)
(* A trace is its full blocks, what follows them is never looked at.  What *)
(* Trainer makes of the counts is any set of patterns of which             *)
(* TrainerProofs shows that it may be selected.                            *)
(***************************************************************************)
EXTENDS BlockCodec, FiniteSetsExt, SequencesExt

CONSTANTS
  Contents,        (* the blocks traces are made of                        *)
  Traces,          (* names of trace files                                 *)
  Commands,        (* [paths, args]: what bsel may be called with          *)
  Lengths,         (* lengths a trace may have at first                    *)
  PaperConfigs,    (* the named configurations, a sequence of targets each *)
  StandardTarget,  (* the target when none is given, 32:256:1              *)
  MaxChanges       (* bound: changes of traces                             *)

ASSUME ContentsAssumption == Contents \subseteq Block
ASSUME CommandsAssumption ==
  \A c \in Commands : /\ c.paths \in Seq(Traces) /\ c.paths # << >>
                      /\ c.args \in Seq(Range(c.args))
ASSUME ChangesAssumption  == MaxChanges \in Nat /\ Lengths \subseteq Nat

VARIABLES
  command, args,       (* the call, and the arguments not parsed yet       *)
  options,             (* struct TrainOptions                              *)
  phase,               (* the part of train_from_traces that runs          *)
  files, present,      (* blocks of each trace, traces that exist          *)
  changes,             (* changes made to traces                           *)
  traces,              (* the splits, a TraceSplit each                    *)
  entry, opened, index,  (* the trace visited, its stream, the next block  *)
  trained, tested,     (* blocks counted for training, blocks evaluated    *)
  model, modelFile     (* the model, and what was saved of it              *)

callVars  == <<command, args, options>>
traceVars == <<files, present, changes>>
visitVars == <<entry, opened, index>>
dataVars  == <<traces, trained, tested, model, modelFile>>
vars      == <<callVars, phase, traceVars, visitVars, dataVars>>

paths == command.paths

Target(size, count, metadata, tagBits, tagValue) ==
  [size |-> size, pattern_count |-> count, metadata_bytes |-> metadata,
   tag_bits |-> tagBits, tag_value |-> tagValue]

Targets ==
  [size : Nat, pattern_count : Nat, metadata_bytes : Nat, tag_bits : Nat, tag_value : Nat]

(* What --target gives has no tag; a named configuration has a name and    *)
(* targets, whose tags have as many bits as they say and leave a number    *)
(* of patterns that a word holds (src/src/paper_config.cpp).               *)
ASSUME TargetsAssumption ==
  /\ \A c \in Commands : \A i \in DOMAIN c.args : c.args[i].name = "target" =>
       /\ c.args[i].value \in Targets
       /\ c.args[i].value.tag_bits = 0 /\ c.args[i].value.tag_value = 0
  /\ StandardTarget \in Targets
  /\ StandardTarget.tag_bits = 0 /\ StandardTarget.tag_value = 0
  /\ \A n \in DOMAIN PaperConfigs :
       /\ n # "" /\ PaperConfigs[n] \in Seq(Targets) /\ PaperConfigs[n] # << >>
       /\ \A k \in 1..Len(PaperConfigs[n]) :
            LET t == PaperConfigs[n][k]
            IN  /\ t.tag_bits <= WordBits /\ t.tag_value < 2^t.tag_bits
                /\ t.tag_bits # 0 => ByteBits * t.metadata_bytes - t.tag_bits < WordBits

Init ==
  /\ command \in Commands
  /\ args = command.args
  /\ options = [paper_config |-> "", targets |-> << >>, holdout_percent |-> 0]
  /\ phase = "parsing"
  /\ files \in [Range(paths) -> UNION {[1..n -> Contents] : n \in Lengths}]
  /\ present = Range(paths) /\ changes = 0
  /\ traces = << >> /\ trained = {} /\ tested = {}
  /\ entry = 1 /\ opened = FALSE /\ index = 0
  /\ model = << >> /\ modelFile = {}

-----------------------------------------------------------------------------
(* Traces under way elsewhere.                                             *)

Grow(f) ==
  /\ \E b \in Contents : files' = [files EXCEPT ![f] = Append(@, b)]
  /\ UNCHANGED present

Shrink(f) ==
  /\ files[f] # << >>
  /\ files' = [files EXCEPT ![f] = Front(@)]
  /\ UNCHANGED present

Disappear(f) ==
  /\ f \in present /\ present' = present \ {f}
  /\ UNCHANGED files

Change(f) ==
  /\ changes < MaxChanges /\ changes' = changes + 1
  /\ phase \notin {"done", "refused", "reported"}
  /\ Grow(f) \/ Shrink(f) \/ Disappear(f)
  /\ UNCHANGED <<callVars, phase, visitVars, dataVars>>

-----------------------------------------------------------------------------
(* parse_train_options(): an option is a name and its value.  The block     *)
(* size, the threshold and the selection mode are constants of the model;   *)
(* unknown and incomplete options are refused like any other name.          *)

(* parse_target(), parse_size(): no number may be zero.                    *)
GoodTarget(t) == t.size > 0 /\ t.pattern_count > 0 /\ t.metadata_bytes > 0

Acceptable(o) ==
  CASE o.name = "target"       -> options.paper_config = "" /\ GoodTarget(o.value)
    [] o.name = "paper-config" -> /\ options.targets = << >> /\ options.paper_config = ""
                                  /\ o.value \in DOMAIN PaperConfigs
    [] o.name = "holdout"      -> o.value \in 1..99
    [] OTHER                   -> FALSE

WithOption(o) ==
  CASE o.name = "target"       -> [options EXCEPT !.targets = Append(@, o.value)]
    [] o.name = "paper-config" -> [options EXCEPT !.paper_config = o.value,
                                                  !.targets = @ \o PaperConfigs[o.value]]
    [] o.name = "holdout"      -> [options EXCEPT !.holdout_percent = o.value]

Refuse ==
  /\ phase' = "refused"
  /\ UNCHANGED <<callVars, traceVars, visitVars, dataVars>>

ParseOption ==
  /\ phase = "parsing" /\ args # << >>
  /\ IF Acceptable(Head(args))
       THEN /\ options' = WithOption(Head(args))
            /\ args' = Tail(args)
            /\ UNCHANGED <<command, phase, traceVars, visitVars, dataVars>>
       ELSE Refuse

EndParsing ==
  /\ phase = "parsing" /\ args = << >> /\ phase' = "splitting"
  /\ options' = IF options.targets = << >>
                  THEN [options EXCEPT !.targets = <<StandardTarget>>] ELSE options
  /\ UNCHANGED <<command, args, traceVars, visitVars, dataVars>>

-----------------------------------------------------------------------------
(* First pass: full_block_count() of each trace, and its middle.           *)

Split(blocks) ==
  LET count == (blocks * options.holdout_percent) \div 100
      begin == (blocks - count) \div 2
  IN  [blocks |-> blocks, holdout_begin |-> begin, holdout_end |-> begin + count]

HeldOut(t) == t.holdout_end - t.holdout_begin

SplitTrace ==
  /\ phase = "splitting" /\ entry <= Len(paths)
  /\ IF paths[entry] \in present /\ files[paths[entry]] # << >>
       THEN /\ traces' = Append(traces, Split(Len(files[paths[entry]])))
            /\ entry' = entry + 1
            /\ UNCHANGED <<callVars, phase, traceVars, opened, index, trained, tested,
                           model, modelFile>>
       ELSE Refuse

training_block_count == FoldLeft(LAMBDA n, t : n + t.blocks - HeldOut(t), 0, traces)
holdout_block_count  == FoldLeft(LAMBDA n, t : n + HeldOut(t), 0, traces)

EndSplitting ==
  /\ phase = "splitting" /\ entry > Len(paths)
  /\ IF training_block_count = 0
       THEN Refuse
       ELSE /\ phase' = "training" /\ entry' = 1
            /\ UNCHANGED <<callVars, traceVars, opened, index, dataVars>>

-----------------------------------------------------------------------------
(* Second and third pass: visit_full_blocks() of each trace.               *)

Visiting == phase \in {"training", "testing"} /\ entry <= Len(paths)

OpenTrace ==
  /\ Visiting /\ ~opened
  /\ IF paths[entry] \in present
       THEN /\ opened' = TRUE /\ index' = 0
            /\ UNCHANGED <<callVars, phase, traceVars, entry, dataVars>>
       ELSE Refuse

TrainsOnlyBefore(t, i) == i < t.holdout_begin
InTraining(t, i)       == i < t.holdout_begin \/ i >= t.holdout_end

TestsOneMore(t, i) == i >= t.holdout_begin /\ i <= t.holdout_end
InHoldout(t, i)    == i >= t.holdout_begin /\ i < t.holdout_end

Visited == [entry |-> entry, path |-> paths[entry], index |-> index,
            block |-> files[paths[entry]][index + 1]]

VisitBlock ==
  /\ Visiting /\ opened /\ index < Len(files[paths[entry]])
  /\ index' = index + 1
  /\ trained' = IF phase = "training" /\ InTraining(traces[entry], index)
                  THEN trained \cup {Visited} ELSE trained
  /\ tested'  = IF phase = "testing" /\ InHoldout(traces[entry], index)
                  THEN tested \cup {Visited} ELSE tested
  /\ UNCHANGED <<callVars, phase, traceVars, entry, opened, traces, model, modelFile>>

CloseTrace ==
  /\ Visiting /\ opened /\ index >= Len(files[paths[entry]])
  /\ opened' = FALSE /\ entry' = entry + 1
  /\ UNCHANGED <<callVars, phase, traceVars, index, dataVars>>

EndPass ==
  /\ phase \in {"training", "testing"} /\ entry > Len(paths)
  /\ phase' = IF phase = "training" THEN "fitting" ELSE "done"
  /\ UNCHANGED <<callVars, traceVars, visitVars, dataVars>>

-----------------------------------------------------------------------------
(* One set per target, then the model is saved.                            *)

IgnoresTheTag(t) == CountFits(t.pattern_count, ByteBits * t.metadata_bytes)

PatternCountFits(t) ==
  /\ t.tag_bits <= ByteBits * t.metadata_bytes
  /\ CountFits(t.pattern_count, ByteBits * t.metadata_bytes - t.tag_bits)

(* Patterns that fit the dictionary, pairwise incomparable, each above     *)
(* one that was counted; no more than the target asks for.                 *)
CanonicalPatterns == PatternsOver(BlockSize)

MayBeTrained(t) ==
  LET legal == {p \in CanonicalPatterns :
                  /\ Rank(p) <= t.size - t.metadata_bytes
                  /\ \E v \in trained : Describes(p, v.block)}
  IN  {S \in UNION {kSubset(n, legal) : n \in 0..Min({t.pattern_count, Cardinality(legal)})} :
         \A p, q \in S : LessEqual(p, q) => p = q}

(* std::sort with operator<.                                               *)
InOrder(S) ==
  [k \in 1..Cardinality(S) |->
     CHOOSE p \in S : Cardinality({q \in S : Before(q, p)}) = k - 1]

FitTarget ==
  /\ phase = "fitting" /\ Len(model) < Len(options.targets)
  /\ LET t == options.targets[Len(model) + 1]
     IN  IF t.metadata_bytes < t.size /\ t.size < BlockSize /\ PatternCountFits(t)
           THEN /\ \E S \in MayBeTrained(t) :
                     model' = Append(model, PatternSet(t.size, t.metadata_bytes, t.tag_bits,
                                                       t.tag_value, InOrder(S)))
                /\ UNCHANGED <<callVars, phase, traceVars, visitVars, traces, trained, tested,
                               modelFile>>
           ELSE Refuse

SaveModel ==
  /\ phase = "fitting" /\ Len(model) = Len(options.targets)
  /\ IF ValidModel(model)
       THEN /\ modelFile' = {model}
            /\ phase' = IF holdout_block_count # 0 THEN "testing" ELSE "done"
            /\ entry' = 1
            /\ UNCHANGED <<callVars, traceVars, opened, index, traces, trained, tested, model>>
       ELSE Refuse

Train ==
  \/ ParseOption \/ EndParsing
  \/ SplitTrace \/ EndSplitting
  \/ OpenTrace \/ VisitBlock \/ CloseTrace \/ EndPass
  \/ FitTarget \/ SaveModel

Next == Train \/ \E f \in DOMAIN files : Change(f)

Spec == Init /\ [][Next]_vars

-----------------------------------------------------------------------------

(* No block is trained on and tested: never within one entry of the list,  *)
(* however its trace changes between the passes, and not through two       *)
(* entries that name the same trace while it stays as it is                *)
(* (README.md:47-48, "the middle 10% is excluded from training").          *)
TrainedNeverTested ==
  \A v \in trained, w \in tested :
    (v.entry = w.entry \/ (v.path = w.path /\ changes = 0)) => v.index # w.index

(* When the traces stay as they are every block is used exactly once per   *)
(* entry, the reported counts are those of the blocks used, and the blocks *)
(* tested are the middle of their trace: as many are trained on before     *)
(* them as after them, or one fewer.                                       *)
EveryBlockUsedOnce ==
  phase = "done" /\ changes = 0 =>
    /\ \A e \in 1..Len(paths) : \A i \in 0..(Len(files[paths[e]]) - 1) :
         Cardinality({v \in trained \cup tested : v.entry = e /\ v.index = i}) = 1
    /\ Cardinality(trained) = training_block_count
    /\ Cardinality(tested) = holdout_block_count
    /\ \A v \in tested :
         LET inEntry == {w \in trained : w.entry = v.entry}
         IN  Cardinality({w \in inEntry : w.index > v.index})
               - Cardinality({w \in inEntry : w.index < v.index}) \in {0, 1}

(* The targets a command may train for: the ones it gives, or those of one *)
(* configuration, or the standard one, never a mixture in whichever order  *)
(* they are given (tests/expect_paper_config_conflict.cmake).              *)
IsTargetList(targets) ==
  LET given == {i \in DOMAIN command.args : command.args[i].name = "target"}
      named == {i \in DOMAIN command.args : command.args[i].name = "paper-config"}
  IN  \/ named = {} /\ given = {} /\ targets = <<StandardTarget>>
      \/ /\ named = {} /\ given # {} /\ Len(targets) = Cardinality(given)
         /\ \A i \in given :
              targets[Cardinality({j \in given : j <= i})] = command.args[i].value
      \/ /\ given = {}
         /\ \E i \in named : named = {i} /\ targets = PaperConfigs[command.args[i].value]

(* What is written as the model is trained for every target the command    *)
(* asks for, in its order, and nothing is tested before it is written.     *)
(* No training is thrown away but for two targets of one size: the checks  *)
(* on each target leave nothing else for save_model to refuse.             *)
SavedModelIsComplete ==
  /\ \A m \in modelFile :
       /\ IsTargetList(options.targets)
       /\ Len(m) = Len(options.targets)
       /\ \A s \in 1..Len(m) :
            /\ m[s].target_size = options.targets[s].size
            /\ Len(m[s].patterns) <= options.targets[s].pattern_count
  /\ tested # {} => modelFile # {}
  /\ phase = "refused" /\ model # << >> /\ Len(model) = Len(options.targets) =>
       \/ modelFile # {}
       \/ \E s, t \in 1..Len(model) :
            s # t /\ options.targets[s].size = options.targets[t].size
=============================================================================
