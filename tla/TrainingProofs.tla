---------------------------- MODULE TrainingProofs ----------------------------
(***************************************************************************)
(* Training and reporting runs over traces that other programs may change: *)
(* which blocks are trained on and which are tested, what is saved as the  *)
(* model and what is reported, for every list of traces and of targets,    *)
(* holdout and moment of a change.  Then the model file: what load_model   *)
(* makes of what save_model wrote, for every model and every place where   *)
(* the file may end.                                                       *)
(***************************************************************************)
EXTENDS Reports, ModelFile, PatternTheorems, SequenceTheorems

allVars == <<vars, reportVars>>

-----------------------------------------------------------------------------
(* Splits                                                                  *)

(* A split leaves as many blocks before the holdout as after it, or one    *)
(* fewer.                                                                  *)
Splits ==
  {t \in [blocks : Nat, holdout_begin : Nat, holdout_end : Nat] :
     /\ t.holdout_begin <= t.holdout_end /\ t.holdout_end <= t.blocks
     /\ t.blocks - t.holdout_end - t.holdout_begin \in {0, 1}}

LEMMA Percentage ==
  ASSUME NEW n \in Nat, NEW h \in 0..99
  PROVE  (n * h) \div 100 \in 0..n
<1> DEFINE p == n * h
           d == 99 - h
<1>1. d \in Nat /\ h \in Nat /\ h + d = 99
  OBVIOUS
<1> HIDE DEF d
<1>2. n * h \in Nat /\ n * d \in Nat /\ n * (h + d) = n * h + n * d
  BY <1>1
<1>3. p \in Nat /\ p <= 99 * n
  BY <1>1, <1>2
<1> HIDE DEF p
<1>4. p \div 100 \in Nat /\ p \div 100 <= n
  BY <1>3
<1> QED
  BY <1>4 DEF p

LEMMA SplitType ==
  ASSUME NEW n \in Nat, options.holdout_percent \in 0..99
  PROVE  Split(n) \in Splits
<1> DEFINE count == (n * options.holdout_percent) \div 100
           begin == (n - count) \div 2
<1>4. count \in Nat /\ count <= n
  BY Percentage
<1> HIDE DEF count
<1>5. begin \in Nat /\ n - count - 2 * begin \in {0, 1}
  BY <1>4
<1>6. Split(n) = [blocks |-> n, holdout_begin |-> begin, holdout_end |-> begin + count]
  BY DEF Split, count
<1> HIDE DEF begin
<1>7. begin + count \in Nat /\ begin <= begin + count /\ begin + count <= n
      /\ n - (begin + count) - begin \in {0, 1}
  BY <1>4, <1>5
<1> QED
  BY <1>4, <1>5, <1>6, <1>7 DEF Splits

-----------------------------------------------------------------------------
(* Types and phases                                                        *)

TrainingTypes ==
  /\ command \in Commands
  /\ DOMAIN options = {"paper_config", "targets", "holdout_percent"}
  /\ options.holdout_percent \in 0..99
  /\ files \in [Range(paths) -> Seq(Contents)]
  /\ changes \in Nat
  /\ entry \in Nat \ {0} /\ index \in Nat
  /\ traces \in Seq(Splits) /\ Len(traces) <= Len(paths)

(* What each phase has behind it.                                          *)
TrainingPhases ==
  /\ phase = "parsing" => traces = << >> /\ entry = 1
  /\ phase \in {"parsing", "splitting"} => trained = {} /\ tested = {}
  /\ phase = "splitting" => entry = Len(traces) + 1
  /\ phase \in {"training", "fitting", "testing", "done"} => Len(traces) = Len(paths)
  /\ opened => Visiting

(* While no trace changes, the splits are those of the traces.             *)
SplitsFit ==
  changes = 0 => \A e \in 1..Len(traces) : traces[e] = Split(Len(files[paths[e]]))

(* A block is used as its split says.                                      *)
UsedAsSplit ==
  /\ \A v \in trained : /\ v.entry \in 1..Len(traces) /\ v.index \in Nat
                        /\ v.path = paths[v.entry]
                        /\ InTraining(traces[v.entry], v.index)
  /\ \A w \in tested : /\ w.entry \in 1..Len(traces) /\ w.index \in Nat
                       /\ w.path = paths[w.entry]
                       /\ InHoldout(traces[w.entry], w.index)

TrainingInv == TrainingTypes /\ TrainingPhases /\ SplitsFit /\ UsedAsSplit

LEMMA PathsType ==
  ASSUME command \in Commands
  PROVE  /\ paths \in Seq(Traces) /\ Len(paths) \in Nat \ {0}
         /\ \A e \in 1..Len(paths) : paths[e] \in Range(paths)
<1>1. paths \in Seq(Traces) /\ paths # << >>
  BY CommandsAssumption DEF paths
<1>2. Len(paths) \in Nat \ {0} /\ DOMAIN paths = 1..Len(paths)
  BY <1>1, LenProperties, EmptySeq
<1> QED
  BY <1>1, <1>2 DEF Range

LEMMA InitTrainingInv == ReportInit => TrainingInv
<1> SUFFICES ASSUME ReportInit PROVE TrainingInv
  OBVIOUS
<1>1. Init
  BY DEF ReportInit
<1>2. files \in [Range(paths) -> Seq(Contents)]
  <2>1. \A n \in Lengths : n \in Nat
    BY ChangesAssumption
  <2>2. \A n \in Nat : \A f \in [1..n -> Contents] : f \in Seq(Contents)
    OBVIOUS
  <2>3. UNION {[1..n -> Contents] : n \in Lengths} \subseteq Seq(Contents)
    BY <2>1, <2>2
  <2> QED
    BY <1>1, <2>3 DEF Init
<1>3. << >> \in Seq(Splits) /\ Len(<< >>) = 0
  OBVIOUS
<1>4. Len(paths) \in Nat
  BY <1>1, PathsType DEF Init
<1>5. DOMAIN options = {"paper_config", "targets", "holdout_percent"}
      /\ options.holdout_percent = 0
  BY <1>1 DEF Init
<1>6. /\ command \in Commands /\ phase = "parsing" /\ changes = 0
      /\ entry = 1 /\ index = 0 /\ ~opened
      /\ traces = << >> /\ trained = {} /\ tested = {}
  BY <1>1, Zenon DEF Init
<1>7. TrainingTypes
  BY <1>2, <1>3, <1>4, <1>5, <1>6 DEF TrainingTypes
<1>8. Len(traces) = 0
  BY <1>3, <1>6
<1>9. SplitsFit
  BY <1>8 DEF SplitsFit
<1> QED
  BY <1>6, <1>7, <1>9 DEF TrainingInv, TrainingPhases, UsedAsSplit

(* A trace that changes makes its splits those of another trace.           *)
LEMMA ChangeKeeps ==
  ASSUME TrainingInv, NEW f \in DOMAIN files, Change(f)
  PROVE  TrainingInv' /\ changes' # 0
<1>1. /\ changes' = changes + 1 /\ UNCHANGED <<callVars, phase, visitVars, dataVars>>
      /\ Grow(f) \/ Shrink(f) \/ Disappear(f)
  BY DEF Change
<1>2. files \in [Range(paths) -> Seq(Contents)] /\ files[f] \in Seq(Contents)
  BY DEF TrainingInv, TrainingTypes
<1>3. files' \in [Range(paths) -> Seq(Contents)]
  <2>1. CASE Grow(f)
    <3>1. PICK b \in Contents : files' = [files EXCEPT ![f] = Append(@, b)]
      BY <2>1 DEF Grow
    <3>2. Append(files[f], b) \in Seq(Contents)
      BY <1>2, AppendProperties
    <3> QED
      BY <1>2, <3>1, <3>2
  <2>2. CASE Shrink(f)
    <3>1. files[f] # << >> /\ files' = [files EXCEPT ![f] = Front(@)]
      BY <2>2 DEF Shrink
    <3>2. Front(files[f]) \in Seq(Contents)
      <4> DEFINE s == files[f]
      <4>1. Len(s) \in Nat \ {0} /\ \A i \in 1..Len(s) : s[i] \in Contents
        BY <1>2, <3>1, LenProperties, EmptySeq, ElementOfSeq
      <4>2. 1 \in Nat /\ Len(s) - 1 \in Nat /\ \A i \in 1..(Len(s) - 1) : i \in 1..Len(s)
        BY <4>1
      <4>3. SubSeq(s, 1, Len(s) - 1) \in Seq(Contents)
        BY <1>2, <4>1, <4>2, SubSeqProperties
      <4> QED
        BY <4>3 DEF Front
    <3> QED
      BY <1>2, <3>1, <3>2
  <2>3. CASE Disappear(f)
    BY <1>2, <2>3 DEF Disappear
  <2> QED
    BY <1>1, <2>1, <2>2, <2>3
<1>4. changes' \in Nat \ {0}
  BY <1>1 DEF TrainingInv, TrainingTypes
<1>5. paths' = paths /\ Visiting' = Visiting
  BY <1>1 DEF paths, callVars, visitVars, Visiting
<1> QED
  BY <1>1, <1>3, <1>4, <1>5
  DEF TrainingInv, TrainingTypes, TrainingPhases, SplitsFit, UsedAsSplit, callVars,
      visitVars, dataVars, InTraining, InHoldout

(* The rest of a train command leaves the traces alone.                    *)
LEMMA ParseKeeps ==
  ASSUME TrainingInv, ParseOption \/ EndParsing
  PROVE  TrainingInv'
<1>1. CASE Refuse /\ phase = "parsing"
  BY <1>1
  DEF Refuse, TrainingInv, TrainingTypes, TrainingPhases, SplitsFit, UsedAsSplit, callVars,
      traceVars, visitVars, dataVars, Visiting, Split, paths
<1>2. ASSUME UNCHANGED <<command, traceVars, visitVars, dataVars>>, phase = "parsing",
             phase' \in {"parsing", "splitting"},
             DOMAIN options' = DOMAIN options, options'.holdout_percent \in 0..99
      PROVE  TrainingInv'
  <2>1. traces = << >> /\ entry = 1 /\ trained = {} /\ tested = {} /\ ~opened
    BY <1>2 DEF TrainingInv, TrainingPhases, Visiting
  <2>2. Len(traces) = 0
    BY <2>1
  <2>3. UNCHANGED <<command, files, changes, entry, index, traces, opened, trained, tested>>
    BY <1>2 DEF traceVars, visitVars, dataVars
  <2>4. paths' = paths
    BY <2>3 DEF paths
  <2>5. TrainingTypes'
    BY <1>2, <2>3, <2>4 DEF TrainingInv, TrainingTypes
  <2>6. TrainingPhases'
    BY <1>2, <2>1, <2>2, <2>3 DEF TrainingPhases
  <2>7. SplitsFit'
    BY <2>2, <2>3 DEF SplitsFit
  <2> QED
    BY <2>1, <2>3, <2>5, <2>6, <2>7 DEF TrainingInv, UsedAsSplit
<1>3. CASE ParseOption
  <2> DEFINE o == Head(args)
  <2>1. CASE ~Acceptable(o)
    BY <1>1, <1>3, <2>1 DEF ParseOption
  <2>2. CASE Acceptable(o)
    <3>1. /\ options' = WithOption(o) /\ phase = "parsing"
          /\ UNCHANGED <<command, phase, traceVars, visitVars, dataVars>>
      BY <1>3, <2>2 DEF ParseOption
    <3>2. /\ DOMAIN options = {"paper_config", "targets", "holdout_percent"}
          /\ options.holdout_percent \in 0..99
      BY DEF TrainingInv, TrainingTypes
    <3>3. o.name \in {"target", "paper-config", "holdout"}
      BY <2>2 DEF Acceptable
    <3>4. DOMAIN options' = DOMAIN options /\ options'.holdout_percent \in 0..99
      <4>1. CASE o.name = "target"
        BY <3>1, <3>2, <4>1 DEF WithOption
      <4>2. CASE o.name = "paper-config"
        BY <3>1, <3>2, <4>2 DEF WithOption
      <4>3. CASE o.name = "holdout"
        BY <2>2, <3>1, <3>2, <4>3 DEF WithOption, Acceptable
      <4> QED
        BY <3>3, <4>1, <4>2, <4>3
    <3> QED
      BY <1>2, <3>1, <3>4
  <2> QED
    BY <2>1, <2>2
<1>4. CASE EndParsing
  <2>1. /\ DOMAIN options = {"paper_config", "targets", "holdout_percent"}
        /\ options.holdout_percent \in 0..99
    BY DEF TrainingInv, TrainingTypes
  <2>2. DOMAIN options' = DOMAIN options /\ options'.holdout_percent \in 0..99
    BY <1>4, <2>1 DEF EndParsing
  <2> QED
    BY <1>2, <1>4, <2>2 DEF EndParsing
<1> QED
  BY <1>3, <1>4

LEMMA SplitTraceKeeps ==
  ASSUME TrainingInv, SplitTrace
  PROVE  TrainingInv'
<1>1. CASE Refuse /\ phase = "splitting"
  BY <1>1
  DEF Refuse, TrainingInv, TrainingTypes, TrainingPhases, SplitsFit, UsedAsSplit, callVars,
      traceVars, visitVars, dataVars, Visiting, Split, paths
<1>2. CASE paths[entry] \in present /\ files[paths[entry]] # << >>
  <2> DEFINE t == Split(Len(files[paths[entry]]))
  <2>1. /\ traces' = Append(traces, t) /\ entry' = entry + 1 /\ phase = "splitting"
        /\ entry <= Len(paths)
        /\ UNCHANGED <<command, options, phase, files, changes, opened, index, trained, tested>>
    BY <1>2 DEF SplitTrace, callVars, traceVars
  <2>2. /\ entry = Len(traces) + 1 /\ trained = {} /\ tested = {} /\ ~opened
        /\ traces \in Seq(Splits) /\ Len(traces) \in Nat
    BY <2>1, LenProperties DEF TrainingInv, TrainingTypes, TrainingPhases, Visiting
  <2>3. t \in Splits
    <3>1. entry \in 1..Len(paths)
      BY <2>1, PathsType DEF TrainingInv, TrainingTypes
    <3>2. files[paths[entry]] \in Seq(Contents)
      BY <3>1, PathsType DEF TrainingInv, TrainingTypes
    <3> QED
      BY <3>2, LenProperties, SplitType DEF TrainingInv, TrainingTypes
  <2>4. /\ traces' \in Seq(Splits) /\ Len(traces') = Len(traces) + 1
        /\ \A e \in 1..Len(traces) : traces'[e] = traces[e]
        /\ traces'[Len(traces) + 1] = t
    BY <2>1, <2>2, <2>3, AppendProperties
  <2>5. paths' = paths
    BY <2>1 DEF paths
  <2> HIDE DEF t
  <2>6. TrainingTypes'
    BY <2>1, <2>2, <2>4, <2>5 DEF TrainingInv, TrainingTypes
  <2>7. TrainingPhases'
    BY <2>1, <2>2, <2>4 DEF TrainingPhases
  <2>8. SplitsFit'
    <3> SUFFICES ASSUME changes = 0, NEW e \in 1..(Len(traces) + 1)
                 PROVE  traces'[e] = Split(Len(files[paths[e]]))
      BY ZenonT(30), <2>1, <2>4, <2>5 DEF SplitsFit, Split
    <3>1. CASE e \in 1..Len(traces)
      BY <2>4, <3>1 DEF TrainingInv, SplitsFit
    <3>2. CASE e = Len(traces) + 1
      BY <2>2, <2>4, <3>2 DEF t
    <3> QED
      BY <2>2, <3>1, <3>2
  <2> QED
    BY <2>1, <2>2, <2>6, <2>7, <2>8 DEF TrainingInv, UsedAsSplit
<1> QED
  BY <1>1, <1>2 DEF SplitTrace

(* Steps that change neither traces nor what was used.                     *)
LEMMA NothingUsedKeeps ==
  ASSUME TrainingInv, TrainingPhases',
         UNCHANGED <<command, options, files, changes, traces, trained, tested>>,
         entry' \in Nat \ {0}, index' \in Nat
  PROVE  TrainingInv'
<1>1. paths' = paths
  BY DEF paths
<1>2. TrainingTypes'
  BY <1>1 DEF TrainingInv, TrainingTypes
<1>3. SplitsFit' /\ UsedAsSplit'
  BY <1>1 DEF TrainingInv, SplitsFit, UsedAsSplit, Split, InTraining, InHoldout
<1> QED
  BY <1>2, <1>3 DEF TrainingInv

LEMMA WaysKeep ==
  ASSUME TrainingInv,
         EndSplitting \/ OpenTrace \/ CloseTrace \/ EndPass \/ FitTarget \/ SaveModel
  PROVE  TrainingInv'
<1>0. /\ entry \in Nat \ {0} /\ index \in Nat /\ TrainingPhases
      /\ Len(paths) \in Nat \ {0} /\ Len(traces) \in Nat /\ Len(traces) <= Len(paths)
  BY PathsType, LenProperties DEF TrainingInv, TrainingTypes
<1> USE DEF TrainingPhases, Visiting, paths
<1>1. CASE Refuse /\ ~opened
  <2>1. TrainingPhases'
    BY <1>0, <1>1 DEF Refuse, callVars, traceVars, visitVars, dataVars
  <2> QED
    BY <1>0, <1>1, <2>1, NothingUsedKeeps DEF Refuse, callVars, traceVars, visitVars, dataVars
<1>2. CASE EndSplitting
  <2>1. CASE Refuse
    BY <1>0, <1>1, <1>2, <2>1 DEF EndSplitting
  <2>2. CASE /\ phase' = "training" /\ entry' = 1
             /\ UNCHANGED <<callVars, traceVars, opened, index, dataVars>>
    <3>1. phase = "splitting" /\ entry > Len(paths)
      BY <1>2 DEF EndSplitting
    <3>2. TrainingPhases'
      BY <1>0, <2>2, <3>1 DEF callVars, traceVars, dataVars
    <3> QED
      BY <1>0, <2>2, <3>2, NothingUsedKeeps DEF callVars, traceVars, dataVars
  <2> QED
    BY <1>2, <2>1, <2>2 DEF EndSplitting
<1>3. CASE OpenTrace
  <2>1. CASE Refuse
    BY <1>1, <1>3, <2>1 DEF OpenTrace
  <2>2. CASE /\ opened' = TRUE /\ index' = 0
             /\ UNCHANGED <<callVars, phase, traceVars, entry, dataVars>>
    <3>1. TrainingPhases'
      BY <1>0, <1>3, <2>2 DEF OpenTrace, callVars, traceVars, dataVars
    <3> QED
      BY <1>0, <2>2, <3>1, NothingUsedKeeps DEF callVars, traceVars, dataVars
  <2> QED
    BY <1>3, <2>1, <2>2 DEF OpenTrace
<1>4. CASE CloseTrace
  <2>1. TrainingPhases'
    BY <1>0, <1>4 DEF CloseTrace, callVars, traceVars, dataVars
  <2> QED
    BY <1>0, <1>4, <2>1, NothingUsedKeeps DEF CloseTrace, callVars, traceVars, dataVars
<1>5. CASE EndPass
  <2>1. TrainingPhases'
    BY <1>0, <1>5 DEF EndPass, callVars, traceVars, visitVars, dataVars
  <2> QED
    BY <1>0, <1>5, <2>1, NothingUsedKeeps DEF EndPass, callVars, traceVars, visitVars, dataVars
<1>6. CASE FitTarget
  <2>1. CASE Refuse
    BY <1>0, <1>1, <1>6, <2>1 DEF FitTarget
  <2>2. CASE UNCHANGED <<callVars, phase, traceVars, visitVars, traces, trained, tested, modelFile>>
    <3>1. TrainingPhases'
      BY <1>0, <2>2 DEF callVars, traceVars, visitVars
    <3> QED
      BY <1>0, <2>2, <3>1, NothingUsedKeeps DEF callVars, traceVars, visitVars
  <2> QED
    BY <1>6, <2>1, <2>2 DEF FitTarget
<1>7. CASE SaveModel
  <2>1. CASE Refuse
    BY <1>0, <1>1, <1>7, <2>1 DEF SaveModel
  <2>2. CASE /\ phase' \in {"testing", "done"} /\ entry' = 1
             /\ UNCHANGED <<callVars, traceVars, opened, index, traces, trained, tested, model>>
    <3>1. phase = "fitting"
      BY <1>7 DEF SaveModel
    <3>2. TrainingPhases'
      BY <1>0, <2>2, <3>1 DEF callVars, traceVars
    <3> QED
      BY <1>0, <2>2, <3>2, NothingUsedKeeps DEF callVars, traceVars
  <2> QED
    BY <1>7, <2>1, <2>2 DEF SaveModel
<1> QED
  BY <1>2, <1>3, <1>4, <1>5, <1>6, <1>7

LEMMA VisitKeeps ==
  ASSUME TrainingInv, VisitBlock
  PROVE  TrainingInv'
<1>1. /\ Visiting /\ opened /\ index' = index + 1 /\ entry \in Nat \ {0} /\ index \in Nat
      /\ UNCHANGED <<command, options, phase, files, changes, entry, opened, traces>>
      /\ TrainingPhases /\ Len(paths) \in Nat /\ Len(traces) \in Nat
  BY PathsType, LenProperties
  DEF VisitBlock, callVars, traceVars, TrainingInv, TrainingTypes
<1>2. entry \in 1..Len(traces) /\ phase \in {"training", "testing"}
  BY <1>1 DEF TrainingPhases, Visiting
<1>3. paths' = paths
  BY <1>1 DEF paths
<1>4. /\ Visited.entry = entry /\ Visited.index = index /\ Visited.path = paths[entry]
  BY DEF Visited
<1>5. /\ \A v \in trained' : v \in trained \/ (v = Visited /\ InTraining(traces[entry], index))
      /\ \A w \in tested' : w \in tested \/ (w = Visited /\ InHoldout(traces[entry], index))
  BY DEF VisitBlock
<1>6. UsedAsSplit'
  BY <1>1, <1>2, <1>3, <1>4, <1>5 DEF TrainingInv, UsedAsSplit, InTraining, InHoldout
<1>7. TrainingTypes'
  BY <1>1, <1>3 DEF TrainingInv, TrainingTypes
<1>8. SplitsFit'
  BY <1>1, <1>3 DEF TrainingInv, SplitsFit, Split
<1>9. TrainingPhases'
  BY <1>1, <1>2, <1>3 DEF TrainingPhases, Visiting
<1> QED
  BY <1>6, <1>7, <1>8, <1>9 DEF TrainingInv

(* A report uses no block for training or testing.                         *)
LEMMA ReportKeeps ==
  ASSUME TrainingInv, Report
  PROVE  TrainingInv'
<1>0. /\ entry \in Nat \ {0} /\ index \in Nat /\ TrainingPhases
  BY DEF TrainingInv, TrainingTypes
<1>1. /\ UNCHANGED <<command, options, files, changes, traces, trained, tested, opened, index>>
      /\ phase \in {"parsing", "reporting"}
      /\ phase' \in {"reporting", "reported", "refused"}
      /\ entry' \in {1, entry, entry + 1}
  <2>1. CASE StartReport
    BY <2>1 DEF StartReport, callVars, traceVars, visitVars, dataVars
  <2>2. CASE ReadTrace
    BY <2>2 DEF ReadTrace, UnderWay, callVars, traceVars, dataVars
  <2>3. CASE EndList
    BY <2>3 DEF EndList, UnderWay, callVars, traceVars, visitVars, dataVars
  <2>4. CASE EndPassOfGroup
    BY <2>4 DEF EndPassOfGroup, UnderWay, callVars, traceVars, dataVars
  <2>5. CASE EndGroups
    BY <2>5 DEF EndGroups, callVars, traceVars, visitVars, dataVars
  <2> QED
    BY <2>1, <2>2, <2>3, <2>4, <2>5 DEF Report
<1>2. TrainingPhases'
  BY <1>0, <1>1 DEF TrainingPhases, Visiting
<1>3. entry' \in Nat \ {0} /\ index' \in Nat
  BY <1>0, <1>1
<1> QED
  BY <1>1, <1>2, <1>3, NothingUsedKeeps

LEMMA NextTrainingInv == TrainingInv /\ [BselNext]_allVars => TrainingInv'
<1> SUFFICES ASSUME TrainingInv, [BselNext]_allVars PROVE TrainingInv'
  OBVIOUS
<1>1. CASE Train
  BY <1>1, ParseKeeps, SplitTraceKeeps, WaysKeep, VisitKeeps DEF Train
<1>2. ASSUME NEW f \in DOMAIN files, Change(f) PROVE TrainingInv'
  BY <1>2, ChangeKeeps
<1>3. CASE Report
  BY <1>3, ReportKeeps
<1>4. CASE UNCHANGED allVars
  <2>1. UNCHANGED <<command, options, phase, files, changes, entry, index, opened, traces, trained, tested>>
    BY <1>4 DEF allVars, vars, callVars, traceVars, visitVars, dataVars
  <2>2. TrainingPhases' /\ entry' \in Nat \ {0} /\ index' \in Nat
    BY <2>1 DEF TrainingInv, TrainingTypes, TrainingPhases, Visiting, paths
  <2> QED
    BY <2>1, <2>2, NothingUsedKeeps
<1> QED
  BY <1>1, <1>2, <1>3, <1>4 DEF BselNext, Next

LEMMA TrainingInvHolds == BselSpec => []TrainingInv
BY InitTrainingInv, NextTrainingInv, PTL DEF BselSpec, allVars

(* No block is trained on and tested, whatever happens to the traces.      *)
THEOREM NothingIsTrainedAndTested == BselSpec => []TrainedNeverTested
<1>1. TrainingInv => TrainedNeverTested
  <2> SUFFICES ASSUME TrainingInv, NEW v \in trained, NEW w \in tested,
                      v.entry = w.entry \/ (v.path = w.path /\ changes = 0),
                      v.index = w.index
               PROVE  FALSE
    BY DEF TrainedNeverTested
  <2>1. /\ v.entry \in 1..Len(traces) /\ InTraining(traces[v.entry], v.index)
        /\ w.entry \in 1..Len(traces) /\ InHoldout(traces[w.entry], w.index)
        /\ v.path = paths[v.entry] /\ w.path = paths[w.entry] /\ v.index \in Nat
    BY DEF TrainingInv, UsedAsSplit
  <2>2. traces[v.entry] = traces[w.entry]
    BY <2>1 DEF TrainingInv, SplitsFit
  <2>3. traces[w.entry] \in Splits
    BY <2>1, ElementOfSeq DEF TrainingInv, TrainingTypes
  <2> QED
    BY <2>1, <2>2, <2>3 DEF InTraining, InHoldout, Splits
<1> QED
  BY <1>1, TrainingInvHolds, PTL

-----------------------------------------------------------------------------
(* Which blocks are used while no trace changes                            *)

(* The blocks of the traces, as pairs of an entry and an index.            *)
Pairs == {q \in (1..Len(traces)) \X Nat : q[2] < traces[q[1]].blocks}

TrainingPairs == {q \in Pairs : InTraining(traces[q[1]], q[2])}
HoldoutPairs  == {q \in Pairs : InHoldout(traces[q[1]], q[2])}

Passed(q) == q[1] < entry \/ (q[1] = entry /\ opened /\ q[2] < index)

Used(q) == [entry |-> q[1], path |-> paths[q[1]], index |-> q[2],
            block |-> files[paths[q[1]]][q[2] + 1]]

(* What each pass has used so far.                                         *)
PassesAreExact ==
  changes = 0 =>
    /\ phase = "training" =>
         trained = {Used(q) : q \in {r \in TrainingPairs : Passed(r)}}
    /\ phase \in {"training", "fitting"} => tested = {}
    /\ phase \in {"fitting", "testing", "done"} =>
         trained = {Used(q) : q \in TrainingPairs}
    /\ phase = "testing" =>
         tested = {Used(q) : q \in {r \in HoldoutPairs : Passed(r)}}
    /\ phase = "done" => tested = {Used(q) : q \in HoldoutPairs}
    /\ opened => index <= Len(files[paths[entry]])

ExactInv == TrainingInv /\ PassesAreExact

(* A split's number of blocks.                                             *)
LEMMA BlocksOfTrace ==
  ASSUME TrainingInv, changes = 0, NEW e \in 1..Len(traces)
  PROVE  traces[e].blocks = Len(files[paths[e]]) /\ traces[e] \in Splits
<1>1. traces[e] = Split(Len(files[paths[e]]))
  BY DEF TrainingInv, SplitsFit
<1>2. traces[e] \in Splits
  BY ElementOfSeq DEF TrainingInv, TrainingTypes
<1> QED
  BY <1>1, <1>2 DEF Split

LEMMA VisitExact ==
  ASSUME ExactInv, VisitBlock, changes = 0
  PROVE  PassesAreExact'
<1>0. TrainingInv /\ PassesAreExact
  BY DEF ExactInv
<1>1. /\ Visiting /\ opened /\ index' = index + 1 /\ index < Len(files[paths[entry]])
      /\ UNCHANGED <<command, options, phase, files, changes, entry, opened, traces>>
      /\ entry \in Nat \ {0} /\ index \in Nat /\ Len(paths) \in Nat /\ Len(traces) \in Nat
  BY <1>0, PathsType, LenProperties
  DEF VisitBlock, callVars, traceVars, TrainingInv, TrainingTypes
<1>2. entry \in 1..Len(traces) /\ phase \in {"training", "testing"}
  BY <1>0, <1>1 DEF TrainingInv, TrainingPhases, Visiting
<1> DEFINE here == <<entry, index>>
<1>3. here \in Pairs /\ Visited = Used(here)
  <2>1. traces[entry].blocks = Len(files[paths[entry]])
    BY <1>0, <1>2, BlocksOfTrace
  <2> QED
    BY <1>1, <1>2, <2>1 DEF Pairs, Visited, Used
<1>4. UNCHANGED <<Pairs, TrainingPairs, HoldoutPairs>> /\ paths' = paths
  BY <1>1 DEF Pairs, TrainingPairs, HoldoutPairs, InTraining, InHoldout, paths
<1>5. \A q : Used(q)' = Used(q)
  BY <1>1, <1>4 DEF Used
<1>6. \A q \in Pairs : Passed(q)' <=> Passed(q) \/ q = here
  <2> TAKE q \in Pairs
  <2>1. q[1] \in Nat /\ q[2] \in Nat /\ q = <<q[1], q[2]>>
    BY DEF Pairs
  <2>2. Passed(q)' <=> q[1] < entry \/ (q[1] = entry /\ q[2] < index + 1)
    BY <1>1 DEF Passed
  <2>3. Passed(q) <=> q[1] < entry \/ (q[1] = entry /\ q[2] < index)
    BY <1>1 DEF Passed
  <2>4. q = here <=> q[1] = entry /\ q[2] = index
    BY <2>1
  <2> QED
    BY <1>1, <2>1, <2>2, <2>3, <2>4
<1>7. \A S \in SUBSET Pairs :
        {Used(q) : q \in {r \in S : Passed(r)'}}
          = {Used(q) : q \in {r \in S : Passed(r)}}
            \cup (IF here \in S THEN {Used(here)} ELSE {})
  BY <1>3, <1>6
<1>8. TrainingPairs \in SUBSET Pairs /\ HoldoutPairs \in SUBSET Pairs
  BY DEF TrainingPairs, HoldoutPairs
<1>9. /\ here \in TrainingPairs <=> InTraining(traces[entry], index)
      /\ here \in HoldoutPairs <=> InHoldout(traces[entry], index)
  BY <1>3 DEF TrainingPairs, HoldoutPairs
<1> HIDE DEF here
<1>10. index' <= Len(files'[paths'[entry']])
  <2>1. Len(files[paths[entry]]) \in Nat
    BY <1>0, <1>1, PathsType, LenProperties DEF TrainingInv, TrainingTypes, Visiting
  <2> QED
    BY <1>1, <1>4, <2>1
<1>11. CASE phase = "training"
  <2>1. trained = {Used(q) : q \in {r \in TrainingPairs : Passed(r)}} /\ tested = {}
    BY <1>0, <1>11 DEF PassesAreExact
  <2>2. /\ trained' = IF here \in TrainingPairs THEN trained \cup {Used(here)} ELSE trained
        /\ tested' = tested
    BY <1>3, <1>9, <1>11 DEF VisitBlock
  <2>3. trained' = {Used(q) : q \in {r \in TrainingPairs : Passed(r)'}}
    BY <1>7, <1>8, <2>1, <2>2
  <2> QED
    BY <1>1, <1>4, <1>5, <1>10, <1>11, <2>1, <2>2, <2>3 DEF PassesAreExact
<1>12. CASE phase = "testing"
  <2>1. /\ tested = {Used(q) : q \in {r \in HoldoutPairs : Passed(r)}}
        /\ trained = {Used(q) : q \in TrainingPairs}
    BY <1>0, <1>12 DEF PassesAreExact
  <2>2. /\ tested' = IF here \in HoldoutPairs THEN tested \cup {Used(here)} ELSE tested
        /\ trained' = trained
    BY <1>3, <1>9, <1>12 DEF VisitBlock
  <2>3. tested' = {Used(q) : q \in {r \in HoldoutPairs : Passed(r)'}}
    BY <1>7, <1>8, <2>1, <2>2
  <2> QED
    BY <1>1, <1>4, <1>5, <1>10, <1>12, <2>1, <2>2, <2>3 DEF PassesAreExact
<1> QED
  BY <1>2, <1>11, <1>12

(* Between two traces and between two passes.                              *)
LEMMA TurnExact ==
  ASSUME ExactInv, OpenTrace \/ CloseTrace \/ EndPass, phase' # "refused", changes = 0
  PROVE  PassesAreExact'
<1>0. TrainingInv /\ PassesAreExact
  BY DEF ExactInv
<1>1. /\ UNCHANGED <<command, options, files, changes, traces, trained, tested>>
      /\ entry \in Nat \ {0} /\ index \in Nat /\ Len(paths) \in Nat /\ Len(traces) \in Nat
      /\ phase \in {"training", "testing"}
  BY <1>0, PathsType, LenProperties
  DEF OpenTrace, CloseTrace, EndPass, Refuse, Visiting, callVars, traceVars, visitVars,
      dataVars, TrainingInv, TrainingTypes
<1>2. UNCHANGED <<Pairs, TrainingPairs, HoldoutPairs>> /\ paths' = paths
  BY <1>1 DEF Pairs, TrainingPairs, HoldoutPairs, InTraining, InHoldout, paths
<1>3. \A q : Used(q)' = Used(q)
  BY <1>1, <1>2 DEF Used
<1>4. Len(traces) = Len(paths)
  BY <1>0, <1>1 DEF TrainingInv, TrainingPhases
<1>5. \A q \in Pairs : /\ q[1] \in 1..Len(traces) /\ q[2] \in Nat
                       /\ q[2] < traces[q[1]].blocks
                       /\ traces[q[1]].blocks = Len(files[paths[q[1]]])
                       /\ traces[q[1]].blocks \in Nat
  <2> TAKE q \in Pairs
  <2>1. q[1] \in 1..Len(traces) /\ q[2] \in Nat /\ q[2] < traces[q[1]].blocks
    BY DEF Pairs
  <2> QED
    BY <1>0, <2>1, BlocksOfTrace DEF Splits
<1>6. CASE OpenTrace
  <2>1. ~opened /\ opened' /\ index' = 0 /\ entry' = entry /\ phase' = phase
        /\ paths[entry] \in DOMAIN files
    BY <1>0, <1>6, PathsType DEF OpenTrace, Refuse, Visiting, TrainingInv, TrainingTypes
  <2>2. \A q \in Pairs : Passed(q)' <=> Passed(q)
    BY <1>1, <1>5, <2>1 DEF Passed
  <2>3. Len(files[paths[entry]]) \in Nat
    BY <2>1, LenProperties, <1>0 DEF TrainingInv, TrainingTypes
  <2>4. /\ {r \in TrainingPairs : Passed(r)}' = {r \in TrainingPairs : Passed(r)}
        /\ {r \in HoldoutPairs : Passed(r)}' = {r \in HoldoutPairs : Passed(r)}
    BY <1>2, <2>2 DEF TrainingPairs, HoldoutPairs
  <2> QED
    BY <1>0, <1>1, <1>2, <1>3, <2>1, <2>3, <2>4 DEF PassesAreExact
<1>7. CASE CloseTrace
  <2>1. /\ opened /\ ~opened' /\ entry' = entry + 1 /\ phase' = phase /\ index' = index
        /\ index >= Len(files[paths[entry]])
    BY <1>7 DEF CloseTrace
  <2>2. \A q \in Pairs : Passed(q)' <=> Passed(q)
    <3> TAKE q \in Pairs
    <3>1. Passed(q)' <=> q[1] < entry + 1
      BY <1>1, <2>1 DEF Passed
    <3>2. q[1] = entry => q[2] < index
      BY <1>1, <1>5, <2>1
    <3> QED
      BY <1>1, <1>5, <2>1, <3>1, <3>2 DEF Passed
  <2>3. /\ {r \in TrainingPairs : Passed(r)}' = {r \in TrainingPairs : Passed(r)}
        /\ {r \in HoldoutPairs : Passed(r)}' = {r \in HoldoutPairs : Passed(r)}
    BY <1>2, <2>2 DEF TrainingPairs, HoldoutPairs
  <2> QED
    BY <1>0, <1>1, <1>2, <1>3, <2>1, <2>3 DEF PassesAreExact
<1>8. CASE EndPass
  <2>1. /\ entry > Len(paths) /\ phase' = IF phase = "training" THEN "fitting" ELSE "done"
        /\ opened' = opened /\ ~opened
    BY <1>0, <1>1, <1>8 DEF EndPass, visitVars, TrainingInv, TrainingPhases, Visiting
  <2>2. \A q \in Pairs : Passed(q)
    BY <1>1, <1>4, <1>5, <2>1 DEF Passed
  <2>3. /\ {r \in TrainingPairs : Passed(r)} = TrainingPairs
        /\ {r \in HoldoutPairs : Passed(r)} = HoldoutPairs
    BY <2>2 DEF TrainingPairs, HoldoutPairs
  <2> QED
    BY <1>0, <1>1, <1>2, <1>3, <2>1, <2>3 DEF PassesAreExact
<1> QED
  BY <1>6, <1>7, <1>8

(* The first pass begins with nothing used.                                *)
LEMMA StartExact ==
  ASSUME ExactInv, EndSplitting, phase' # "refused"
  PROVE  PassesAreExact'
<1>1. /\ phase = "splitting" /\ phase' = "training" /\ entry' = 1
      /\ UNCHANGED <<callVars, traceVars, opened, index, dataVars>>
  BY DEF EndSplitting, Refuse
<1>2. trained' = {} /\ tested' = {} /\ ~opened'
  BY <1>1 DEF ExactInv, TrainingInv, TrainingPhases, Visiting, dataVars
<1>3. \A q \in Pairs' : ~Passed(q)'
  <2> TAKE q \in Pairs'
  <2>1. q[1] \in 1..Len(traces')
    BY DEF Pairs
  <2>2. Len(traces') \in Nat
    BY <1>1, LenProperties DEF ExactInv, TrainingInv, TrainingTypes, dataVars
  <2> QED
    BY <1>1, <1>2, <2>1, <2>2 DEF Passed
<1>4. {r \in TrainingPairs : Passed(r)}' = {}
  BY <1>3 DEF TrainingPairs
<1>5. {Used(q) : q \in {r \in TrainingPairs : Passed(r)}}' = {}
  BY <1>4
<1> QED
  BY <1>1, <1>2, <1>5 DEF PassesAreExact

-----------------------------------------------------------------------------
(* Counting blocks                                                         *)

(* The largest of finitely many numbers.                                   *)
LEMMA MaxIsElement ==
  ASSUME NEW n \in Nat, NEW t \in SUBSET (1..n), t # {}
  PROVE  Max(t) \in t
<1> DEFINE gaps == {n - i : i \in t}
<1>1. gaps \in SUBSET Nat /\ gaps # {}
  <2>1. PICK j \in t : TRUE
    OBVIOUS
  <2>2. n - j \in gaps
    OBVIOUS
  <2>3. \A i \in t : n - i \in Nat
    OBVIOUS
  <2> QED
    BY <2>2, <2>3
<1>2. PICK g \in gaps : \A h \in gaps : g <= h
  <2> HIDE DEF gaps
  <2> QED
    BY <1>1, LeastNatural
<1>3. PICK i \in t : g = n - i
  OBVIOUS
<1>4. \A j \in t : i >= j
  <2> TAKE j \in t
  <2>1. n - j \in gaps
    OBVIOUS
  <2>2. g <= n - j
    BY <1>2, <2>1
  <2> HIDE DEF gaps
  <2> QED
    BY <1>3, <2>2
<1> QED
  BY <1>4, Zenon DEF Max

(* Counting what has no element in common.                                 *)
LEMMA DisjointUnion ==
  ASSUME NEW A, NEW B, IsFiniteSet(A), IsFiniteSet(B), A \cap B = {}
  PROVE  /\ IsFiniteSet(A \cup B)
         /\ Cardinality(A) \in Nat /\ Cardinality(B) \in Nat
         /\ Cardinality(A \cup B) = Cardinality(A) + Cardinality(B)
<1>1. /\ IsFiniteSet(A \cup B)
      /\ Cardinality(A \cup B) = Cardinality(A) + Cardinality(B) - Cardinality(A \cap B)
  BY FS_Union
<1>2. Cardinality(A) \in Nat /\ Cardinality(B) \in Nat
  BY FS_CardinalityType
<1>3. Cardinality(A \cap B) = 0
  BY FS_EmptySet, Zenon
<1> QED
  BY <1>1, <1>2, <1>3

(* The pairs of S whose entry is in t.                                     *)
Within(S, t) == {q \in S : q[1] \in t}

(* A function that starts at 0 and counts what each entry adds, the last   *)
(* one first, counts the pairs.                                            *)
LEMMA CountsPairs ==
  ASSUME NEW S, NEW n \in Nat, NEW g, g[{}] = 0,
         \A q \in S : q[1] \in 1..n,
         \A t \in SUBSET (1..n) :
           /\ t # {}
           /\ g[t \ {Max(t)}] = Cardinality(Within(S, t \ {Max(t)}))
           => g[t] = Cardinality(Within(S, t))
  PROVE  g[1..n] = Cardinality(S)
<1>2. 1..n \in SUBSET (1..n) /\ IsFiniteSet(1..n) /\ Cardinality(1..n) \in Nat
  <2>1. 1 \in Int /\ n \in Int
    OBVIOUS
  <2>2. IsFiniteSet(1..n)
    BY <2>1, FS_Interval
  <2> QED
    BY <2>2, FS_CardinalityType
<1> DEFINE Bad == {k \in Nat : \E t \in SUBSET (1..n) : /\ Cardinality(t) = k
                                                        /\ g[t] # Cardinality(Within(S, t))}
<1>1. ASSUME Bad # {} PROVE FALSE
  <2>1. PICK k \in Bad : \A j \in Bad : k <= j
    <3>1. Bad \in SUBSET Nat
      OBVIOUS
    <3> HIDE DEF Bad
    <3> QED
      BY <1>1, <3>1, LeastNatural
  <2>2. PICK t \in SUBSET (1..n) : Cardinality(t) = k /\ g[t] # Cardinality(Within(S, t))
    OBVIOUS
  <2>3. CASE t = {}
    <3>1. Within(S, t) = {} /\ Cardinality({}) = 0
      BY <2>3, FS_EmptySet DEF Within
    <3> QED
      BY <2>2, <2>3, <3>1
  <2>4. CASE t # {}
    <3> DEFINE r == t \ {Max(t)}
    <3>1. Max(t) \in t /\ IsFiniteSet(t)
      BY <1>2, <2>4, MaxIsElement, FS_Subset
    <3>2. /\ IsFiniteSet(r) /\ Cardinality(t) \in Nat
          /\ Cardinality(r) = Cardinality(t) - 1
      BY <3>1, FS_RemoveElement, FS_CardinalityType
    <3>3. Cardinality(r) \in Nat
      BY <3>2, FS_CardinalityType
    <3>4. Cardinality(r) \notin Bad
      <4>1. ~(k <= Cardinality(r))
        <5> HIDE DEF r
        <5> QED
          BY <2>2, <3>2, <3>3
      <4> HIDE DEF Bad
      <4> QED
        BY <2>1, <4>1
    <3>5. r \in SUBSET (1..n)
      OBVIOUS
    <3>6. g[r] = Cardinality(Within(S, r))
      <4> HIDE DEF r
      <4> QED
        BY <3>3, <3>4, <3>5
    <3> QED
      BY <2>2, <2>4, <3>6
  <2> QED
    BY <2>3, <2>4
<1>3. g[1..n] = Cardinality(Within(S, 1..n))
  BY <1>1, <1>2
<1>4. Within(S, 1..n) = S
  BY DEF Within
<1> QED
  BY <1>3, <1>4

(* A row of pairs: one entry, and the indices of an interval.              *)
LEMMA RowCount ==
  ASSUME NEW e, NEW a \in Nat, NEW b \in Nat, a <= b
  PROVE  /\ IsFiniteSet({e} \X (a..(b - 1)))
         /\ Cardinality({e} \X (a..(b - 1))) = b - a
<1>1. IsFiniteSet(a..(b - 1)) /\ Cardinality(a..(b - 1)) = b - a
  <2>1. a \in Int /\ b - 1 \in Int
    OBVIOUS
  <2>2. /\ IsFiniteSet(a..(b - 1))
        /\ Cardinality(a..(b - 1)) = IF a > b - 1 THEN 0 ELSE (b - 1) - a + 1
    BY <2>1, FS_Interval
  <2> QED
    BY <2>2
<1>2. IsFiniteSet({e}) /\ Cardinality({e}) = 1
  BY FS_Singleton
<1>3. /\ IsFiniteSet({e} \X (a..(b - 1)))
      /\ Cardinality({e} \X (a..(b - 1))) = Cardinality({e}) * Cardinality(a..(b - 1))
  BY <1>1, <1>2, FS_Product
<1> QED
  BY <1>1, <1>2, <1>3

(* The pairs of one entry: the holdout, and what is on its two sides.      *)
LEMMA RowsOfEntry ==
  ASSUME traces \in Seq(Splits), NEW e \in 1..Len(traces)
  PROVE  LET t == traces[e]
         IN  /\ Within(HoldoutPairs, {e}) = {e} \X (t.holdout_begin..(t.holdout_end - 1))
             /\ Within(TrainingPairs, {e}) = ({e} \X (0..(t.holdout_begin - 1)))
                                              \cup ({e} \X (t.holdout_end..(t.blocks - 1)))
             /\ IsFiniteSet(Within(HoldoutPairs, {e}))
             /\ IsFiniteSet(Within(TrainingPairs, {e}))
             /\ Cardinality(Within(HoldoutPairs, {e})) = HeldOut(t)
             /\ Cardinality(Within(TrainingPairs, {e})) = t.blocks - HeldOut(t)
             /\ HeldOut(t) \in Nat /\ t.blocks - HeldOut(t) \in Nat
<1> DEFINE t == traces[e]
           a == t.holdout_begin
           b == t.holdout_end
           c == t.blocks
           L == {e} \X (0..(a - 1))
           M == {e} \X (a..(b - 1))
           R == {e} \X (b..(c - 1))
<1>1. t \in Splits
  BY ElementOfSeq
<1>2. a \in Nat /\ b \in Nat /\ c \in Nat /\ a <= b /\ b <= c
  BY <1>1 DEF Splits
<1>3. Within(HoldoutPairs, {e}) = M
  <2>1. \A i \in Nat : <<e, i>> \in HoldoutPairs <=> a <= i /\ i < b
    BY <1>2 DEF HoldoutPairs, InHoldout, Pairs
  <2>2. \A q \in HoldoutPairs : q = <<q[1], q[2]>> /\ q[2] \in Nat
    BY DEF HoldoutPairs, Pairs
  <2> HIDE DEF t
  <2> QED
    BY <1>2, <2>1, <2>2 DEF Within
<1>4. Within(TrainingPairs, {e}) = L \cup R
  <2>1. \A i \in Nat : <<e, i>> \in TrainingPairs <=> i < a \/ (b <= i /\ i < c)
    BY <1>2 DEF TrainingPairs, InTraining, Pairs
  <2>2. \A q \in TrainingPairs : q = <<q[1], q[2]>> /\ q[2] \in Nat
    BY DEF TrainingPairs, Pairs
  <2> HIDE DEF t
  <2> QED
    BY <1>2, <2>1, <2>2 DEF Within
<1>5. /\ IsFiniteSet(L) /\ Cardinality(L) = a - 0
      /\ IsFiniteSet(M) /\ Cardinality(M) = b - a
      /\ IsFiniteSet(R) /\ Cardinality(R) = c - b
  <2> HIDE DEF a, b, c
  <2>1. 0 \in Nat /\ 0 <= a
    BY <1>2
  <2> QED
    BY <1>2, <2>1, RowCount
<1>6. IsFiniteSet(L \cup R) /\ Cardinality(L \cup R) = a + (c - b)
  <2>1. L \cap R = {}
    BY <1>2
  <2> HIDE DEF a, b, c, L, R
  <2>2. IsFiniteSet(L \cup R) /\ Cardinality(L \cup R) = Cardinality(L) + Cardinality(R)
    BY <1>5, <2>1, DisjointUnion
  <2> QED
    BY <1>2, <1>5, <2>2
<1>7. HeldOut(t) = b - a
  BY DEF HeldOut
<1> HIDE DEF t, a, b, c, L, M, R
<1>8. a + (c - b) = c - HeldOut(t) /\ HeldOut(t) \in Nat /\ c - HeldOut(t) \in Nat
  BY <1>2, <1>7
<1> QED
  BY <1>3, <1>4, <1>5, <1>6, <1>7, <1>8 DEF t, a, b, c, L, M, R

(* One entry more.                                                         *)
LEMMA OneEntryMore ==
  ASSUME NEW S, NEW n \in Nat, NEW t \in SUBSET (1..n), NEW x \in t,
         \A e \in 1..n : IsFiniteSet(Within(S, {e}))
  PROVE  /\ IsFiniteSet(Within(S, t)) /\ Cardinality(Within(S, t)) \in Nat
         /\ Cardinality(Within(S, t \ {x})) \in Nat
         /\ Cardinality(Within(S, t))
              = Cardinality(Within(S, t \ {x})) + Cardinality(Within(S, {x}))
<1>1. ASSUME NEW r \in SUBSET (1..n) PROVE IsFiniteSet(Within(S, r))
  <2> DEFINE F == {Within(S, {e}) : e \in r}
             h == [e \in r |-> Within(S, {e})]
  <2>1. IsFiniteSet(r)
    <3>1. 1 \in Int /\ n \in Int
      OBVIOUS
    <3>2. IsFiniteSet(1..n)
      BY <3>1, FS_Interval
    <3> QED
      BY <3>2, FS_Subset
  <2>2. h \in Surjection(r, F)
    BY DEF Surjection
  <2>3. IsFiniteSet(F)
    <3> HIDE DEF h, F
    <3> QED
      BY <2>1, <2>2, FS_Surjection
  <2>4. \A A \in F : IsFiniteSet(A)
    <3> TAKE A \in F
    <3>1. PICK e \in r : A = Within(S, {e})
      OBVIOUS
    <3> QED
      BY <3>1
  <2>5. Within(S, r) = UNION F
    <3>1. \A q : q \in UNION F <=> \E e \in r : q \in Within(S, {e})
      OBVIOUS
    <3> HIDE DEF F
    <3> QED
      BY <3>1, Zenon DEF Within
  <2> HIDE DEF F
  <2> QED
    BY <2>3, <2>4, <2>5, FS_UNION
<1> DEFINE A == Within(S, t \ {x})
           B == Within(S, {x})
<1>2. IsFiniteSet(A) /\ IsFiniteSet(B)
  BY <1>1
<1>3. Within(S, t) = A \cup B /\ A \cap B = {}
  BY DEF Within
<1> HIDE DEF A, B
<1>4. /\ IsFiniteSet(A \cup B)
      /\ Cardinality(A) \in Nat /\ Cardinality(B) \in Nat
      /\ Cardinality(A \cup B) = Cardinality(A) + Cardinality(B)
  BY <1>2, <1>3, DisjointUnion
<1>5. Cardinality(Within(S, t)) = Cardinality(A) + Cardinality(B)
  BY <1>3, <1>4
<1>6. IsFiniteSet(Within(S, t))
  BY <1>3, <1>4
<1> QED
  BY <1>4, <1>5, <1>6 DEF A, B

(* What a count of the pairs of the first entries is.                      *)
CountOf(S, n) == [s \in SUBSET (1..n) |-> Cardinality(Within(S, s))]

LEMMA CountStep ==
  ASSUME NEW S, NEW n \in Nat, \A e \in 1..n : IsFiniteSet(Within(S, {e}))
  PROVE  /\ CountOf(S, n)[{}] = 0
         /\ \A s \in SUBSET (1..n) : s # {} =>
              /\ Max(s) \in s /\ CountOf(S, n)[s \ {Max(s)}] \in Nat
              /\ CountOf(S, n)[s] = CountOf(S, n)[s \ {Max(s)}]
                                      + Cardinality(Within(S, {Max(s)}))
<1> DEFINE h == CountOf(S, n)
<1>1. \A s \in SUBSET (1..n) : h[s] = Cardinality(Within(S, s))
  BY DEF CountOf
<1>2. h[{}] = 0
  <2>1. Within(S, {}) = {} /\ {} \in SUBSET (1..n)
    BY DEF Within
  <2> HIDE DEF h
  <2> QED
    BY <1>1, <2>1, FS_EmptySet
<1>3. ASSUME NEW s \in SUBSET (1..n), s # {}
      PROVE  /\ Max(s) \in s /\ h[s \ {Max(s)}] \in Nat
             /\ h[s] = h[s \ {Max(s)}] + Cardinality(Within(S, {Max(s)}))
  <2> DEFINE x == Max(s)
  <2>1. x \in s
    BY <1>3, MaxIsElement
  <2> HIDE DEF x, h
  <2>2. /\ Cardinality(Within(S, s \ {x})) \in Nat
        /\ Cardinality(Within(S, s))
             = Cardinality(Within(S, s \ {x})) + Cardinality(Within(S, {x}))
    BY <2>1, OneEntryMore
  <2>3. s \ {x} \in SUBSET (1..n)
    OBVIOUS
  <2>4. h[s \ {x}] \in Nat /\ h[s] = h[s \ {x}] + Cardinality(Within(S, {x}))
    BY <1>1, <2>2, <2>3
  <2> QED
    BY <2>1, <2>4 DEF x
<1> HIDE DEF h
<1>4. \A s \in SUBSET (1..n) : s # {} =>
        /\ Max(s) \in s /\ h[s \ {Max(s)}] \in Nat
        /\ h[s] = h[s \ {Max(s)}] + Cardinality(Within(S, {Max(s)}))
  BY <1>3
<1> QED
  BY <1>2, <1>4 DEF h

(* The reported counts are those of the pairs.                             *)
LEMMA CountsAreExact ==
  ASSUME traces \in Seq(Splits)
  PROVE  /\ training_block_count = Cardinality(TrainingPairs)
         /\ holdout_block_count = Cardinality(HoldoutPairs)
         /\ \A S \in {TrainingPairs, HoldoutPairs} : IsFiniteSet(S)
<1> DEFINE n == Len(traces)
<1>1. n \in Nat /\ DOMAIN traces = 1..n
  BY LenProperties
<1>2. \A e \in 1..n : /\ IsFiniteSet(Within(TrainingPairs, {e}))
                      /\ IsFiniteSet(Within(HoldoutPairs, {e}))
                      /\ Cardinality(Within(HoldoutPairs, {e})) = HeldOut(traces[e])
                      /\ Cardinality(Within(TrainingPairs, {e}))
                           = traces[e].blocks - HeldOut(traces[e])
                      /\ traces[e].blocks \in Nat /\ HeldOut(traces[e]) \in Nat
  <2> TAKE e \in 1..n
  <2>1. traces[e] \in Splits
    BY ElementOfSeq
  <2> QED
    BY <2>1, RowsOfEntry DEF Splits
<1>3. \A S \in {TrainingPairs, HoldoutPairs} :
        /\ CountOf(S, n)[{}] = 0
        /\ \A s \in SUBSET (1..n) : s # {} =>
             /\ Max(s) \in s /\ CountOf(S, n)[s \ {Max(s)}] \in Nat
             /\ CountOf(S, n)[s] = CountOf(S, n)[s \ {Max(s)}]
                                     + Cardinality(Within(S, {Max(s)}))
  <2> HIDE DEF n
  <2> QED
    BY <1>1, <1>2, CountStep
<1>4. /\ \A q \in TrainingPairs : q[1] \in 1..n
      /\ \A q \in HoldoutPairs : q[1] \in 1..n
  BY DEF TrainingPairs, HoldoutPairs, Pairs
<1>5. holdout_block_count = Cardinality(HoldoutPairs)
  <2> DEFINE P(g) == g = [s \in SUBSET (1..n) |->
                              IF s = {} THEN 0
                              ELSE LET x == Max(s)
                                   IN  g[s \ {x}] + HeldOut(traces[x])]
             h == CountOf(HoldoutPairs, n)
             g == CHOOSE g : P(g)
  <2>1. P(h)
    <3>1. \A s \in SUBSET (1..n) :
            h[s] = IF s = {} THEN 0
                   ELSE LET x == Max(s)
                        IN  h[s \ {x}] + HeldOut(traces[x])
      <4> TAKE s \in SUBSET (1..n)
      <4>1. CASE s = {}
        BY <1>3, <4>1
      <4>2. CASE s # {}
        <5> DEFINE x == Max(s)
        <5>1. /\ x \in s /\ h[s \ {x}] \in Nat
              /\ h[s] = h[s \ {x}] + Cardinality(Within(HoldoutPairs, {x}))
          BY <1>3, <4>2
        <5> HIDE DEF x, h
        <5>2. x \in 1..n
          BY <5>1
        <5>3. h[s] = h[s \ {x}] + HeldOut(traces[x])
          BY <1>2, <5>1, <5>2
        <5> QED
          BY <4>2, <5>3 DEF x
      <4> QED
        BY <4>1, <4>2
    <3> HIDE DEF h
    <3> QED
      BY <3>1 DEF h, CountOf
  <2>2. P(g)
    <3> HIDE DEF P, h
    <3> QED
      BY <2>1, Zenon
  <2>3. holdout_block_count = g[1..n]
    BY <1>1, Zenon DEF holdout_block_count, FoldLeft, MapThenFoldSet
  <2>4. g[{}] = 0
    <3> HIDE DEF g
    <3>1. {} \in SUBSET (1..n)
      OBVIOUS
    <3> QED
      BY <2>2, <3>1
  <2>5. \A s \in SUBSET (1..n) : s # {} =>
          /\ Max(s) \in 1..n /\ h[s \ {Max(s)}] \in Nat
          /\ h[s] = h[s \ {Max(s)}] + Cardinality(Within(HoldoutPairs, {Max(s)}))
          /\ g[s] = g[s \ {Max(s)}] + HeldOut(traces[Max(s)])
    <3> HIDE DEF g, h
    <3> TAKE s \in SUBSET (1..n)
    <3>1. s # {} => g[s] = g[s \ {Max(s)}] + HeldOut(traces[Max(s)])
      BY <2>2
    <3>2. s # {} => Max(s) \in 1..n
      BY <1>1, MaxIsElement
    <3> QED
      BY <1>3, <3>1, <3>2 DEF h
  <2>6. \A s \in SUBSET (1..n) : s # {} /\ g[s \ {Max(s)}] = h[s \ {Max(s)}]
                                   => g[s] = h[s]
    <3> HIDE DEF g, h
    <3> QED
      BY <1>2, <2>5
  <2>7. g[1..n] = Cardinality(HoldoutPairs)
    <3> HIDE DEF g
    <3>1. \A s \in SUBSET (1..n) : h[s] = Cardinality(Within(HoldoutPairs, s))
      BY DEF CountOf
    <3> HIDE DEF h, n
    <3> QED
      BY ZenonT(30), <1>1, <1>4, <2>4, <2>6, <3>1, CountsPairs
  <2> QED
    BY <2>3, <2>7
<1>6. training_block_count = Cardinality(TrainingPairs)
  <2> DEFINE P(g) == g = [s \in SUBSET (1..n) |->
                              IF s = {} THEN 0
                              ELSE LET x == Max(s)
                                   IN  g[s \ {x}] + traces[x].blocks - HeldOut(traces[x])]
             h == CountOf(TrainingPairs, n)
             g == CHOOSE g : P(g)
  <2>1. P(h)
    <3>1. \A s \in SUBSET (1..n) :
            h[s] = IF s = {} THEN 0
                   ELSE LET x == Max(s)
                        IN  h[s \ {x}] + traces[x].blocks - HeldOut(traces[x])
      <4> TAKE s \in SUBSET (1..n)
      <4>1. CASE s = {}
        BY <1>3, <4>1
      <4>2. CASE s # {}
        <5> DEFINE x == Max(s)
        <5>1. /\ x \in s /\ h[s \ {x}] \in Nat
              /\ h[s] = h[s \ {x}] + Cardinality(Within(TrainingPairs, {x}))
          BY <1>3, <4>2
        <5> HIDE DEF x, h
        <5>2. x \in 1..n
          BY <5>1
        <5>3. h[s] = h[s \ {x}] + traces[x].blocks - HeldOut(traces[x])
          BY <1>2, <5>1, <5>2
        <5> QED
          BY <4>2, <5>3 DEF x
      <4> QED
        BY <4>1, <4>2
    <3> HIDE DEF h
    <3> QED
      BY <3>1 DEF h, CountOf
  <2>2. P(g)
    <3> HIDE DEF P, h
    <3> QED
      BY <2>1, Zenon
  <2>3. training_block_count = g[1..n]
    BY <1>1, Zenon DEF training_block_count, FoldLeft, MapThenFoldSet
  <2>4. g[{}] = 0
    <3> HIDE DEF g
    <3>1. {} \in SUBSET (1..n)
      OBVIOUS
    <3> QED
      BY <2>2, <3>1
  <2>5. \A s \in SUBSET (1..n) : s # {} =>
          /\ Max(s) \in 1..n /\ h[s \ {Max(s)}] \in Nat
          /\ h[s] = h[s \ {Max(s)}] + Cardinality(Within(TrainingPairs, {Max(s)}))
          /\ g[s] = g[s \ {Max(s)}] + traces[Max(s)].blocks - HeldOut(traces[Max(s)])
    <3> HIDE DEF g, h
    <3> TAKE s \in SUBSET (1..n)
    <3>1. s # {} => g[s] = g[s \ {Max(s)}] + traces[Max(s)].blocks - HeldOut(traces[Max(s)])
      BY <2>2
    <3>2. s # {} => Max(s) \in 1..n
      BY <1>1, MaxIsElement
    <3> QED
      BY <1>3, <3>1, <3>2 DEF h
  <2>6. \A s \in SUBSET (1..n) : s # {} /\ g[s \ {Max(s)}] = h[s \ {Max(s)}]
                                   => g[s] = h[s]
    <3> HIDE DEF g, h
    <3> QED
      BY <1>2, <2>5
  <2>7. g[1..n] = Cardinality(TrainingPairs)
    <3> HIDE DEF g
    <3>1. \A s \in SUBSET (1..n) : h[s] = Cardinality(Within(TrainingPairs, s))
      BY DEF CountOf
    <3> HIDE DEF h, n
    <3> QED
      BY ZenonT(30), <1>1, <1>4, <2>4, <2>6, <3>1, CountsPairs
  <2> QED
    BY <2>3, <2>7
<1>7. ASSUME NEW S \in {TrainingPairs, HoldoutPairs} PROVE IsFiniteSet(S)
  <2>1. Within(S, 1..n) = S
    BY <1>4 DEF Within
  <2>2. CASE n = 0
    <3>1. S = {}
      BY <1>4, <2>2
    <3> QED
      BY <3>1, FS_EmptySet
  <2>3. CASE n # 0
    <3> HIDE DEF n
    <3>1. n \in 1..n /\ 1..n \in SUBSET (1..n)
      BY <1>1, <2>3
    <3>2. \A e \in 1..n : IsFiniteSet(Within(S, {e}))
      BY <1>2
    <3> QED
      BY <1>1, <2>1, <3>1, <3>2, OneEntryMore
  <2> QED
    BY <2>2, <2>3
<1> QED
  BY <1>5, <1>6, <1>7

-----------------------------------------------------------------------------
(* The passes at every moment                                              *)

LEMMA SameExact ==
  ASSUME PassesAreExact,
         UNCHANGED <<command, phase, files, changes, traces, entry, index, opened, trained,
                     tested>>
  PROVE  PassesAreExact'
<1>1. UNCHANGED <<Pairs, TrainingPairs, HoldoutPairs>> /\ paths' = paths
  BY DEF Pairs, TrainingPairs, HoldoutPairs, InTraining, InHoldout, paths
<1>2. \A q : Used(q)' = Used(q) /\ (Passed(q)' <=> Passed(q))
  BY <1>1 DEF Used, Passed
<1>3. /\ {r \in TrainingPairs : Passed(r)}' = {r \in TrainingPairs : Passed(r)}
      /\ {r \in HoldoutPairs : Passed(r)}' = {r \in HoldoutPairs : Passed(r)}
  BY <1>1, <1>2
<1> QED
  BY <1>1, <1>2, <1>3 DEF PassesAreExact

(* The model is saved: the last pass begins with nothing tested, and is    *)
(* left out when nothing was held out.                                     *)
LEMMA SaveExact ==
  ASSUME ExactInv, SaveModel, phase' # "refused", changes = 0
  PROVE  PassesAreExact'
<1>0. TrainingInv /\ PassesAreExact
  BY DEF ExactInv
<1>1. /\ phase = "fitting" /\ entry' = 1
      /\ phase' = IF holdout_block_count # 0 THEN "testing" ELSE "done"
      /\ UNCHANGED <<command, files, changes, traces, opened, index, trained, tested>>
  BY DEF SaveModel, Refuse, callVars, traceVars
<1>2. UNCHANGED <<Pairs, TrainingPairs, HoldoutPairs>> /\ paths' = paths
  BY <1>1 DEF Pairs, TrainingPairs, HoldoutPairs, InTraining, InHoldout, paths
<1>3. \A q : Used(q)' = Used(q)
  BY <1>1, <1>2 DEF Used
<1>4. /\ ~opened /\ tested = {} /\ trained = {Used(q) : q \in TrainingPairs}
      /\ traces \in Seq(Splits) /\ Len(traces) \in Nat
  BY <1>0, <1>1, LenProperties
  DEF PassesAreExact, TrainingInv, TrainingTypes, TrainingPhases, Visiting
<1>5. CASE holdout_block_count # 0
  <2>1. \A q \in HoldoutPairs : ~Passed(q)'
    <3> TAKE q \in HoldoutPairs
    <3>1. q[1] \in 1..Len(traces)
      BY DEF HoldoutPairs, Pairs
    <3> QED
      BY <1>1, <1>4, <3>1 DEF Passed
  <2>2. {Used(q) : q \in {r \in HoldoutPairs : Passed(r)}}' = {}
    BY <1>2, <2>1
  <2>3. trained' = {Used(q) : q \in TrainingPairs}'
    BY <1>1, <1>2, <1>3, <1>4
  <2> QED
    BY <1>1, <1>4, <1>5, <2>2, <2>3 DEF PassesAreExact
<1>6. CASE holdout_block_count = 0
  <2>1. IsFiniteSet(HoldoutPairs) /\ Cardinality(HoldoutPairs) = 0
    BY <1>4, <1>6, CountsAreExact
  <2>2. HoldoutPairs = {}
    BY <2>1, FS_EmptySet
  <2>3. {Used(q) : q \in HoldoutPairs}' = {}
    BY <1>2, <2>2
  <2>4. trained' = {Used(q) : q \in TrainingPairs}'
    BY <1>1, <1>2, <1>3, <1>4
  <2> QED
    BY <1>1, <1>4, <1>6, <2>3, <2>4 DEF PassesAreExact
<1> QED
  BY <1>5, <1>6

LEMMA NextExactInv == ExactInv /\ [BselNext]_allVars => ExactInv'
<1> SUFFICES ASSUME ExactInv, [BselNext]_allVars PROVE ExactInv'
  OBVIOUS
<1>1. TrainingInv' /\ TrainingInv /\ TrainingPhases' /\ PassesAreExact
  BY NextTrainingInv DEF ExactInv, TrainingInv
<1> SUFFICES PassesAreExact'
  BY <1>1 DEF ExactInv
<1>2. CASE phase' \notin {"training", "fitting", "testing", "done"}
  BY <1>1, <1>2 DEF PassesAreExact, TrainingPhases, Visiting
<1> SUFFICES ASSUME phase' \in {"training", "fitting", "testing", "done"}
             PROVE  PassesAreExact'
  BY <1>2
<1>3. ASSUME NEW f \in DOMAIN files, Change(f) PROVE PassesAreExact'
  <2>1. changes' # 0
    BY <1>1, <1>3, ChangeKeeps
  <2> QED
    BY <2>1 DEF PassesAreExact
<1>4. ASSUME changes # 0, UNCHANGED changes PROVE PassesAreExact'
  BY <1>4 DEF PassesAreExact
<1>5. CASE Train
  <2>1. UNCHANGED changes
    BY <1>5 DEF Train, ParseOption, EndParsing, SplitTrace, EndSplitting, OpenTrace, VisitBlock,
                CloseTrace, EndPass, FitTarget, SaveModel, Refuse, traceVars
  <2> SUFFICES ASSUME changes = 0 PROVE PassesAreExact'
    BY <1>4, <2>1
  <2>2. CASE ParseOption \/ EndParsing \/ SplitTrace
    BY <2>2 DEF ParseOption, EndParsing, SplitTrace, Refuse
  <2>3. CASE EndSplitting
    BY <2>3, StartExact
  <2>4. CASE OpenTrace \/ CloseTrace \/ EndPass
    BY <2>4, TurnExact
  <2>5. CASE VisitBlock
    BY <2>5, VisitExact
  <2>6. CASE FitTarget
    <3>1. UNCHANGED <<callVars, phase, traceVars, visitVars, traces, trained, tested>>
      BY <2>6 DEF FitTarget, Refuse
    <3> QED
      BY <1>1, <3>1, SameExact DEF callVars, traceVars, visitVars
  <2>7. CASE SaveModel
    BY <2>7, SaveExact
  <2> QED
    BY <1>5, <2>2, <2>3, <2>4, <2>5, <2>6, <2>7 DEF Train
<1>6. CASE Report
  BY <1>6 DEF Report, StartReport, ReadTrace, EndList, EndPassOfGroup, EndGroups, UnderWay,
              callVars
<1>7. CASE UNCHANGED allVars
  BY <1>1, <1>7, SameExact
  DEF allVars, vars, callVars, traceVars, visitVars, dataVars
<1> QED
  BY <1>3, <1>5, <1>6, <1>7 DEF BselNext, Next

LEMMA ExactInvHolds == BselSpec => []ExactInv
<1>1. ReportInit => ExactInv
  <2>1. ReportInit => phase = "parsing"
    BY Zenon DEF ReportInit, Init
  <2> QED
    BY <2>1, InitTrainingInv
    DEF ExactInv, TrainingInv, PassesAreExact, TrainingPhases, Visiting
<1> QED
  BY <1>1, NextExactInv, PTL DEF BselSpec, allVars

(* As many blocks are used as there are pairs.                             *)
LEMMA UsedCount ==
  ASSUME NEW S \in SUBSET Pairs, IsFiniteSet(S)
  PROVE  Cardinality({Used(q) : q \in S}) = Cardinality(S)
<1> DEFINE T == {Used(q) : q \in S}
           f == [q \in S |-> Used(q)]
<1>1. \A q \in S : q = <<q[1], q[2]>> /\ Used(q).entry = q[1] /\ Used(q).index = q[2]
  BY DEF Pairs, Used
<1>2. \A p, q \in S : Used(p) = Used(q) => p = q
  BY <1>1
<1>3. f \in Bijection(S, T)
  <2>1. f \in [S -> T] /\ \A u \in T : \E q \in S : f[q] = u
    OBVIOUS
  <2>2. \A p, q \in S : f[p] = f[q] => p = q
    BY <1>2
  <2> HIDE DEF f, T
  <2> QED
    BY <2>1, <2>2 DEF Bijection, Injection, Surjection, IsInjective
<1>4. ExistsBijection(S, T)
  <2> HIDE DEF f, T
  <2> QED
    BY <1>3 DEF ExistsBijection
<1> HIDE DEF T
<1>5. Cardinality(T) = Cardinality(S)
  BY <1>4, FS_Bijection
<1> QED
  BY <1>5 DEF T

(* Without a change every block is used once, and the middle is tested.    *)
THEOREM EveryBlockIsUsedOnce == BselSpec => []EveryBlockUsedOnce
<1>1. ASSUME ExactInv, phase = "done", changes = 0
      PROVE  EveryBlockUsedOnce
  <2>1. /\ trained = {Used(q) : q \in TrainingPairs}
        /\ tested = {Used(q) : q \in HoldoutPairs}
        /\ TrainingInv /\ Len(traces) = Len(paths) /\ traces \in Seq(Splits)
    BY <1>1 DEF ExactInv, PassesAreExact, TrainingInv, TrainingPhases, TrainingTypes
  <2>2. \A q \in Pairs : /\ q = <<q[1], q[2]>>
                          /\ Used(q).entry = q[1] /\ Used(q).index = q[2]
    BY DEF Pairs, Used
  <2>3. TrainingPairs \in SUBSET Pairs /\ HoldoutPairs \in SUBSET Pairs
    BY DEF TrainingPairs, HoldoutPairs
  <2>4. ASSUME NEW e \in 1..Len(paths), NEW i \in 0..(Len(files[paths[e]]) - 1)
        PROVE  Cardinality({v \in trained \cup tested : v.entry = e /\ v.index = i}) = 1
    <3> DEFINE q == <<e, i>>
    <3>1. traces[e].blocks = Len(files[paths[e]]) /\ traces[e] \in Splits
      BY <1>1, <2>1, BlocksOfTrace
    <3>2. q \in Pairs
      <4>1. traces[e].blocks \in Nat
        BY <3>1 DEF Splits
      <4>2. i \in Nat /\ i < traces[e].blocks /\ e \in 1..Len(traces)
        BY <2>1, <3>1, <4>1
      <4> QED
        BY <4>2 DEF Pairs
    <3>3. InTraining(traces[e], i) \/ InHoldout(traces[e], i)
      BY <3>1 DEF InTraining, InHoldout, Splits
    <3>4. q \in TrainingPairs \/ q \in HoldoutPairs
      BY <3>2, <3>3 DEF TrainingPairs, HoldoutPairs
    <3> HIDE DEF q
    <3>5. {v \in trained \cup tested : v.entry = e /\ v.index = i} = {Used(q)}
      <4>1. ASSUME NEW p \in Pairs, Used(p).entry = e, Used(p).index = i PROVE p = q
        BY <2>2, <4>1 DEF q
      <4>2. Used(q).entry = e /\ Used(q).index = i /\ Used(q) \in trained \cup tested
        BY <2>1, <2>2, <3>2, <3>4 DEF q
      <4>3. \A v \in trained \cup tested : \E p \in Pairs : v = Used(p)
        BY <2>1, <2>3
      <4> QED
        BY <4>1, <4>2, <4>3
    <3> QED
      BY <3>5, FS_Singleton
  <2>5. /\ Cardinality(trained) = training_block_count
        /\ Cardinality(tested) = holdout_block_count
    BY <2>1, <2>3, CountsAreExact, UsedCount
  <2>6. ASSUME NEW v \in tested
        PROVE  LET inEntry == {w \in trained : w.entry = v.entry}
               IN  Cardinality({w \in inEntry : w.index > v.index})
                     - Cardinality({w \in inEntry : w.index < v.index}) \in {0, 1}
    <3>1. PICK p \in HoldoutPairs : v = Used(p)
      BY <2>1
    <3> DEFINE e == p[1]
               t == traces[e]
               Later == {e} \X (t.holdout_end..(t.blocks - 1))
               Earlier == {e} \X (0..(t.holdout_begin - 1))
               inEntry == {w \in trained : w.entry = v.entry}
    <3>2. /\ p \in Pairs /\ v.entry = e /\ v.index = p[2] /\ e \in 1..Len(traces)
          /\ p[2] \in Nat /\ InHoldout(t, p[2])
      BY <2>2, <2>3, <3>1 DEF HoldoutPairs, Pairs
    <3>3. /\ t \in Splits
          /\ t.holdout_begin \in Nat /\ t.holdout_end \in Nat /\ t.blocks \in Nat
          /\ t.holdout_begin <= t.holdout_end /\ t.holdout_end <= t.blocks
          /\ t.blocks - t.holdout_end - t.holdout_begin \in {0, 1}
      <4>1. t \in Splits
        BY <2>1, <3>2, ElementOfSeq
      <4> QED
        BY <4>1 DEF Splits
    <3>4. /\ IsFiniteSet(Later) /\ Cardinality(Later) = t.blocks - t.holdout_end
          /\ IsFiniteSet(Earlier) /\ Cardinality(Earlier) = t.holdout_begin - 0
      <4> HIDE DEF t, e
      <4>1. 0 \in Nat /\ 0 <= t.holdout_begin
        BY <3>3
      <4> QED
        BY <3>3, <4>1, RowCount
    <3>5. /\ Later = {q \in TrainingPairs : q[1] = e /\ q[2] > p[2]}
          /\ Earlier = {q \in TrainingPairs : q[1] = e /\ q[2] < p[2]}
      <4>1. \A i \in Nat : <<e, i>> \in TrainingPairs
                            <=> i < t.holdout_begin \/ (t.holdout_end <= i /\ i < t.blocks)
        BY <3>2, <3>3 DEF TrainingPairs, InTraining, Pairs
      <4>2. \A q \in TrainingPairs : q = <<q[1], q[2]>> /\ q[2] \in Nat
        BY DEF TrainingPairs, Pairs
      <4>3. t.holdout_begin <= p[2] /\ p[2] < t.holdout_end
        BY <3>2 DEF InHoldout
      <4> HIDE DEF t, e
      <4> QED
        BY SMTT(30), <3>2, <3>3, <4>1, <4>2, <4>3
    <3>6. /\ {w \in inEntry : w.index > v.index} = {Used(q) : q \in Later}
          /\ {w \in inEntry : w.index < v.index} = {Used(q) : q \in Earlier}
      <4>1. \A q \in TrainingPairs : Used(q).entry = q[1] /\ Used(q).index = q[2]
        BY <2>2, <2>3
      <4> HIDE DEF t, e, Later, Earlier
      <4> QED
        BY <2>1, <3>2, <3>5, <4>1
    <3>7. Later \in SUBSET Pairs /\ Earlier \in SUBSET Pairs
      BY <2>3, <3>5
    <3> HIDE DEF Later, Earlier
    <3>8. /\ Cardinality({Used(q) : q \in Later}) = t.blocks - t.holdout_end
          /\ Cardinality({Used(q) : q \in Earlier}) = t.holdout_begin - 0
      BY <3>4, <3>7, UsedCount
    <3>9. Cardinality({w \in inEntry : w.index > v.index})
            - Cardinality({w \in inEntry : w.index < v.index}) \in {0, 1}
      <4>1. /\ Cardinality({w \in inEntry : w.index > v.index}) = t.blocks - t.holdout_end
            /\ Cardinality({w \in inEntry : w.index < v.index}) = t.holdout_begin - 0
        BY <3>6, <3>8
      <4> HIDE DEF t, e, inEntry
      <4> QED
        BY <3>3, <4>1
    <3> QED
      BY <3>9, Zenon
  <2> QED
    BY <2>4, <2>5, <2>6 DEF EveryBlockUsedOnce
<1>2. ExactInv => EveryBlockUsedOnce
  BY <1>1 DEF EveryBlockUsedOnce
<1> QED
  BY <1>2, ExactInvHolds, PTL

-----------------------------------------------------------------------------
(* The model that is saved                                                 *)

(* operator< is a strict total order on the patterns of a block size.      *)
LEMMA BeforeIsOrder ==
  ASSUME NEW p \in [Pos -> Nat], NEW q \in [Pos -> Nat], NEW r \in [Pos -> Nat]
  PROVE  /\ p # q => Before(p, q) \/ Before(q, p)
         /\ ~Before(p, p)
         /\ Before(p, q) /\ Before(q, r) => Before(p, r)
<1> USE BlockSizeAssumption DEF Pos
<1>1. ASSUME p # q PROVE Before(p, q) \/ Before(q, p)
  <2>0. \E i \in Pos : p[i] # q[i]
    BY <1>1
  <2> DEFINE D == {i \in Pos : p[i] # q[i]}
  <2>1. D \in SUBSET Nat /\ D # {}
    <3>1. \A i \in D : i \in Nat
      OBVIOUS
    <3> QED BY <2>0, <3>1
  <2>2. PICK i \in D : \A j \in D : i <= j
    <3> HIDE DEF D
    <3> QED BY <2>1, LeastNatural
  <2>3. \A j \in 1..(i - 1) : p[j] = q[j]
    BY <2>2
  <2>4. i \in Pos /\ (p[i] < q[i] \/ q[i] < p[i])
    BY <2>2
  <2> QED BY <2>3, <2>4 DEF Before
<1>2. ~Before(p, p)
  BY DEF Before
<1>3. ASSUME Before(p, q), Before(q, r) PROVE Before(p, r)
  <2>1. PICK i \in Pos : p[i] < q[i] /\ \A j \in 1..(i - 1) : p[j] = q[j]
    BY <1>3 DEF Before
  <2>2. PICK h \in Pos : q[h] < r[h] /\ \A j \in 1..(h - 1) : q[j] = r[j]
    BY <1>3 DEF Before
  <2>3. CASE i <= h
    <3>1. p[i] < r[i] /\ \A j \in 1..(i - 1) : p[j] = r[j]
      BY SMTT(30), <2>1, <2>2, <2>3
    <3> QED BY <3>1 DEF Before
  <2>4. CASE h < i
    <3>1. p[h] < r[h] /\ \A j \in 1..(h - 1) : p[j] = r[j]
      BY <2>1, <2>2, <2>4
    <3> QED BY <3>1 DEF Before
  <2> QED BY <2>3, <2>4
<1> QED BY <1>1, <1>2, <1>3

(* so that sorting lists every pattern once.                               *)
LEMMA InOrderLists ==
  ASSUME NEW S \in SUBSET [Pos -> Nat], IsFiniteSet(S)
  PROVE  InOrder(S) \in Seq(S) /\ Len(InOrder(S)) = Cardinality(S)
<1> DEFINE n == Cardinality(S)
           Less(p) == {q \in S : Before(q, p)}
           T == 0..(n - 1)
           f == [p \in S |-> Cardinality(Less(p))]
<1>1. n \in Nat
  BY FS_CardinalityType
<1>2. IsFiniteSet(T) /\ Cardinality(T) = n
  <2> HIDE DEF n
  <2>1. n - 1 \in Int /\ (IF 0 > n - 1 THEN 0 ELSE n - 1 - 0 + 1) = n
    BY <1>1
  <2> QED BY <2>1, FS_Interval
<1>3. \A p \in S : IsFiniteSet(Less(p)) /\ Cardinality(Less(p)) \in Nat
  BY FS_Subset, FS_CardinalityType
<1>4. ASSUME NEW p \in S, NEW q \in S, Before(p, q)
      PROVE  Cardinality(Less(p)) < Cardinality(Less(q))
  <2>1. Less(p) \in SUBSET Less(q)
    BY <1>4, BeforeIsOrder
  <2>2. p \in Less(q) /\ p \notin Less(p)
    BY <1>4, BeforeIsOrder
  <2>3. Less(p) # Less(q)
    BY <2>2
  <2> HIDE DEF Less
  <2> QED BY <1>3, <2>1, <2>3, FS_Subset
<1>5. ASSUME NEW p \in S PROVE Cardinality(Less(p)) \in T
  <2>1. Less(p) \in SUBSET S /\ p \notin Less(p)
    BY BeforeIsOrder
  <2>2. Less(p) # S
    BY <2>1
  <2> HIDE DEF Less
  <2> QED BY <1>1, <1>3, <2>1, <2>2, FS_Subset
<1>6. f \in Injection(S, T)
  <2>1. f \in [S -> T]
    BY <1>5
  <2>2. ASSUME NEW p \in S, NEW q \in S, f[p] = f[q] PROVE p = q
    <3>1. p # q => Before(p, q) \/ Before(q, p)
      BY BeforeIsOrder
    <3> HIDE DEF Less
    <3> QED BY <1>3, <1>4, <2>2, <3>1
  <2> HIDE DEF f, T
  <2> QED BY <2>1, <2>2 DEF Injection, IsInjective
<1>7. f \in Surjection(S, T)
  <2> HIDE DEF f, T
  <2> QED BY <1>2, <1>6, FS_Injection
<1>8. ASSUME NEW k \in 1..n PROVE \E p \in S : Cardinality(Less(p)) = k - 1
  <2>1. k - 1 \in T
    BY <1>1
  <2>2. PICK p \in S : f[p] = k - 1
    <3> HIDE DEF f, T
    <3> QED BY <1>7, <2>1 DEF Surjection
  <2> QED BY <2>2
<1>9. \A k \in 1..n : (CHOOSE p \in S : Cardinality(Less(p)) = k - 1) \in S
  <2> HIDE DEF n, Less
  <2> QED BY <1>8
<1>10. InOrder(S) = [k \in 1..n |-> CHOOSE p \in S : Cardinality(Less(p)) = k - 1]
  BY DEF InOrder
<1> HIDE DEF n, Less
<1>11. InOrder(S) \in [1..n -> S]
  BY <1>9, <1>10
<1> QED
  <2>1. Len(InOrder(S)) = n /\ InOrder(S) \in Seq(S)
    BY <1>1, <1>11
  <2> QED BY <2>1 DEF n

(* There are finitely many functions between finite sets.                  *)
LEMMA FinitelyManyFunctions ==
  ASSUME NEW A, NEW B, IsFiniteSet(A), IsFiniteSet(B)
  PROVE  IsFiniteSet([A -> B])
<1> DEFINE G(f) == {<<a, f[a]>> : a \in A}
           g == [f \in [A -> B] |-> G(f)]
<1>1. IsFiniteSet(SUBSET (A \X B))
  <2>1. IsFiniteSet(A \X B)
    BY FS_Product
  <2> QED BY <2>1, FS_SUBSET
<1>2. \A f \in [A -> B] : G(f) \in SUBSET (A \X B)
  OBVIOUS
<1>3. ASSUME NEW f \in [A -> B], NEW h \in [A -> B], G(f) = G(h) PROVE f = h
  <2>1. ASSUME NEW a \in A PROVE f[a] = h[a]
    <3>1. <<a, f[a]>> \in G(h)
      BY <1>3
    <3> QED BY <3>1
  <2> QED BY <2>1
<1>4. g \in Injection([A -> B], SUBSET (A \X B))
  <2>1. g \in [[A -> B] -> SUBSET (A \X B)]
    BY <1>2
  <2>2. \A f, h \in [A -> B] : g[f] = g[h] => f = h
    BY <1>3
  <2> HIDE DEF g
  <2> QED BY <2>1, <2>2 DEF Injection, IsInjective
<1> QED
  <2> HIDE DEF g
  <2> QED BY <1>1, <1>4, FS_Injection

(* What a target must be to be saved, whatever it is trained on.           *)
LegalTargets ==
  {t \in Targets : /\ t.tag_bits <= WordBits /\ Fits(t.tag_value, t.tag_bits)
                   /\ t.tag_bits # 0 => ByteBits * t.metadata_bytes - t.tag_bits < WordBits}

TrainedSets ==
  [target_size : Nat, metadata_bytes : Nat, tag_bits : Nat, tag_value : Nat,
   patterns : Seq([Pos -> Nat])]

(* The targets after n arguments, to which a configuration is not added    *)
(* when there are any, nor any to a configuration.                         *)
ArgsNamed(name, n) == {i \in 1..n : command.args[i].name = name}

TargetsAfter(n) ==
  \/ /\ ArgsNamed("paper-config", n) = {} /\ options.paper_config = ""
     /\ Len(options.targets) = Cardinality(ArgsNamed("target", n))
     /\ \A i \in ArgsNamed("target", n) :
          options.targets[Cardinality({j \in ArgsNamed("target", n) : j <= i})]
            = command.args[i].value
  \/ /\ ArgsNamed("target", n) = {} /\ options.paper_config # ""
     /\ \E i \in 1..n : /\ ArgsNamed("paper-config", n) = {i}
                        /\ options.targets = PaperConfigs[command.args[i].value]
                        /\ options.targets # << >>

SavedTypes ==
  /\ command \in Commands
  /\ DOMAIN options = {"paper_config", "targets", "holdout_percent"}
  /\ options.targets \in Seq(LegalTargets)
  /\ model \in Seq(TrainedSets) /\ Len(model) <= Len(options.targets)

ParsedArgs ==
  phase = "parsing" =>
    \E n \in 0..Len(command.args) :
      args = SubSeq(command.args, n + 1, Len(command.args)) /\ TargetsAfter(n)

(* A set that was trained may be saved.                                    *)
FitsItsTarget(own, t) ==
  /\ own.target_size = t.size /\ Len(own.patterns) <= t.pattern_count
  /\ ValidSet(own)

SameSize ==
  \E s, t \in 1..Len(model) :
    s # t /\ options.targets[s].size = options.targets[t].size

SavedPhases ==
  /\ phase \in {"parsing", "splitting", "training", "reporting", "reported"} => model = << >>
  /\ phase \in {"parsing", "splitting", "training", "fitting", "reporting", "reported"}
       => modelFile = {} /\ tested = {}
  /\ phase \in {"splitting", "training", "fitting", "testing", "done"}
       => IsTargetList(options.targets) /\ options.targets # << >>
  /\ phase \in {"testing", "done"} => modelFile # {}
  /\ tested # {} => modelFile # {}
  /\ modelFile # {} =>
       /\ modelFile = {model} /\ Len(model) = Len(options.targets)
       /\ IsTargetList(options.targets)
  /\ phase = "refused" /\ model # << >> /\ Len(model) = Len(options.targets) =>
       modelFile # {} \/ SameSize

SavedInv ==
  /\ SavedTypes /\ ParsedArgs /\ SavedPhases
  /\ \A s \in 1..Len(model) : FitsItsTarget(model[s], options.targets[s])

LEMMA SavedGivesComplete == SavedInv => SavedModelIsComplete
  BY DEF SavedInv, SavedPhases, SavedModelIsComplete, FitsItsTarget, SameSize

LEMMA InitSavedInv == ReportInit => SavedInv
<1> SUFFICES ASSUME ReportInit PROVE SavedInv
  OBVIOUS
<1>1. /\ command \in Commands /\ args = command.args /\ phase = "parsing"
      /\ options = [paper_config |-> "", targets |-> << >>, holdout_percent |-> 0]
      /\ model = << >> /\ modelFile = {} /\ tested = {}
  BY Zenon DEF ReportInit, Init
<1>2. Len(command.args) \in Nat /\ command.args = SubSeq(command.args, 0 + 1, Len(command.args))
  <2>1. command.args \in Seq(Range(command.args))
    BY <1>1, CommandsAssumption
  <2> DEFINE s == command.args
  <2>2. SubSeq(s, 1, Len(s)) = s
    BY <2>1, SubSeqFull
  <2> QED BY <2>1, <2>2, LenProperties
<1>3. TargetsAfter(0)
  <2>1. ArgsNamed("paper-config", 0) = {} /\ ArgsNamed("target", 0) = {}
    BY DEF ArgsNamed
  <2>2. Cardinality({}) = 0
    BY FS_EmptySet
  <2> QED BY <1>1, <2>1, <2>2 DEF TargetsAfter
<1>4. ParsedArgs
  <2>1. 0 \in 0..Len(command.args)
    BY <1>2
  <2> QED BY <1>1, <1>2, <1>3, <2>1 DEF ParsedArgs
<1>5. SavedTypes
  <2>1. << >> \in Seq(LegalTargets) /\ << >> \in Seq(TrainedSets) /\ Len(<< >>) <= Len(<< >>)
    OBVIOUS
  <2>2. DOMAIN options = {"paper_config", "targets", "holdout_percent"} /\ options.targets = << >>
    BY <1>1
  <2> QED BY <1>1, <2>1, <2>2 DEF SavedTypes
<1>6. SavedPhases /\ Len(model) = 0
  BY <1>1 DEF SavedPhases
<1> QED BY <1>4, <1>5, <1>6 DEF SavedInv

LEMMA SameSaved ==
  ASSUME SavedInv, UNCHANGED <<command, args, options, phase, model, modelFile, tested>>
  PROVE  SavedInv'
<1>1. IsTargetList(options.targets)' <=> IsTargetList(options.targets)
  BY DEF IsTargetList
<1>2. ParsedArgs'
  <2>1. \A n : TargetsAfter(n)' <=> TargetsAfter(n)
    BY DEF TargetsAfter, ArgsNamed
  <2> QED BY <2>1 DEF SavedInv, ParsedArgs
<1>3. SavedTypes'
  BY DEF SavedInv, SavedTypes
<1>4. SavedPhases'
  BY <1>1 DEF SavedInv, SavedPhases, SameSize
<1> QED BY <1>2, <1>3, <1>4 DEF SavedInv

(* What remains after a call is refused, in every phase but the first.     *)
LEMMA RefuseSaved ==
  ASSUME SavedInv, Refuse, phase # "parsing",
         \/ model = << >> \/ modelFile # {}
         \/ Len(model) < Len(options.targets)
         \/ SameSize
  PROVE  SavedInv'
<1>1. /\ phase' = "refused"
      /\ UNCHANGED <<command, args, options, tested, model, modelFile>>
  BY DEF Refuse, callVars, dataVars
<1>2. SavedTypes'
  BY <1>1 DEF SavedInv, SavedTypes
<1>3. ParsedArgs'
  BY <1>1 DEF ParsedArgs
<1>4. IsTargetList(options.targets)' <=> IsTargetList(options.targets)
  BY <1>1 DEF IsTargetList
<1>5. SameSize' <=> SameSize
  BY <1>1 DEF SameSize
<1>6. Len(model) \in Nat /\ Len(options.targets) \in Nat
  BY LenProperties DEF SavedInv, SavedTypes
<1>7. SavedPhases'
  BY <1>1, <1>4, <1>5, <1>6 DEF SavedInv, SavedPhases
<1> QED BY <1>1, <1>2, <1>3, <1>7 DEF SavedInv

LEMMA SeqOfElements ==
  ASSUME NEW S, NEW T, NEW s \in Seq(S), \A k \in 1..Len(s) : s[k] \in T
  PROVE  s \in Seq(T)
OBVIOUS

(* The targets after one argument more.                                    *)
LEMMA OneArgMore ==
  ASSUME NEW n \in Nat, NEW name
  PROVE  ArgsNamed(name, n + 1) = IF command.args[n + 1].name = name
                                  THEN ArgsNamed(name, n) \cup {n + 1}
                                  ELSE ArgsNamed(name, n)
<1>1. 1..(n + 1) = 1..n \cup {n + 1}
  OBVIOUS
<1> QED BY <1>1 DEF ArgsNamed

LEMMA CountArgs ==
  ASSUME NEW n \in Nat, NEW name
  PROVE  /\ IsFiniteSet(ArgsNamed(name, n))
         /\ Cardinality(ArgsNamed(name, n)) \in Nat
         /\ n + 1 \notin ArgsNamed(name, n)
<1>1. ArgsNamed(name, n) \in SUBSET (1..n) /\ IsFiniteSet(1..n)
  BY FS_Interval DEF ArgsNamed
<1> QED BY <1>1, FS_Subset, FS_CardinalityType

LEMMA ParseSaved ==
  ASSUME SavedInv, ParseOption
  PROVE  SavedInv'
<1> DEFINE o == Head(args)
<1>0. phase = "parsing" /\ args # << >> /\ model = << >> /\ modelFile = {} /\ tested = {}
  BY DEF ParseOption, SavedInv, SavedPhases
<1>1. PICK n \in 0..Len(command.args) :
        args = SubSeq(command.args, n + 1, Len(command.args)) /\ TargetsAfter(n)
  BY <1>0 DEF SavedInv, ParsedArgs
<1>2. command.args \in Seq(Range(command.args)) /\ Len(command.args) \in Nat
  BY CommandsAssumption, LenProperties DEF SavedInv, SavedTypes
<1> n \in Nat
  OBVIOUS
<1>3. n + 1 \in 1..Len(command.args) /\ o = command.args[n + 1]
      /\ Tail(args) = SubSeq(command.args, n + 2, Len(command.args))
  <2> DEFINE s == command.args
  <2>1. n + 1 <= Len(s)
    <3>1. n + 1 > Len(s) => SubSeq(s, n + 1, Len(s)) = << >>
      BY <1>2, SubSeqEmpty
    <3> QED BY <1>0, <1>1, <1>2, <3>1
  <2>2. Head(SubSeq(s, n + 1, Len(s))) = s[n + 1]
        /\ Tail(SubSeq(s, n + 1, Len(s))) = SubSeq(s, n + 1 + 1, Len(s))
    <3> HIDE DEF s
    <3> QED BY <1>2, <2>1, HeadTailOfSubSeq DEF s
  <2> QED BY <1>1, <1>2, <2>1, <2>2
<1>4. CASE ~Acceptable(o)
  <2>1. /\ phase' = "refused"
        /\ UNCHANGED <<command, args, options, tested, model, modelFile>>
    BY <1>4 DEF ParseOption, Refuse, callVars, dataVars
  <2>2. SavedTypes'
    BY <2>1 DEF SavedInv, SavedTypes
  <2>3. Len(model) = 0
    BY <1>0
  <2> QED BY <1>0, <2>1, <2>2, <2>3 DEF SavedInv, ParsedArgs, SavedPhases
<1>5. CASE Acceptable(o)
  <2>1. /\ options' = WithOption(o) /\ args' = Tail(args)
        /\ UNCHANGED <<command, phase, tested, model, modelFile>>
    BY <1>5 DEF ParseOption, dataVars
  <2>2. /\ DOMAIN options = {"paper_config", "targets", "holdout_percent"}
        /\ options.targets \in Seq(LegalTargets) /\ command \in Commands
    BY DEF SavedInv, SavedTypes
  <2>3. /\ DOMAIN options' = DOMAIN options /\ options'.targets \in Seq(LegalTargets)
        /\ TargetsAfter(n + 1)'
    <3>0. /\ IsFiniteSet(ArgsNamed("target", n)) /\ IsFiniteSet(ArgsNamed("paper-config", n))
          /\ Cardinality(ArgsNamed("target", n)) \in Nat
          /\ n + 1 \notin ArgsNamed("target", n)
      BY CountArgs
    <3>1. \A name : ArgsNamed(name, n + 1)' = ArgsNamed(name, n + 1)
      BY <2>1 DEF ArgsNamed
    <3>2. CASE o.name = "target"
      <4>1. /\ options' = [options EXCEPT !.targets = Append(@, o.value)]
            /\ options.paper_config = ""
        BY <2>1, <1>5, <3>2 DEF WithOption, Acceptable
      <4>2. o.value \in LegalTargets
        <5>0. n + 1 \in DOMAIN command.args
          BY <1>2, <1>3, LenProperties
        <5>1. o.value \in Targets /\ o.value.tag_bits = 0 /\ o.value.tag_value = 0
          BY <1>3, <2>2, <3>2, <5>0, TargetsAssumption
        <5>2. Fits(0, 0) /\ 0 <= WordBits
          BY BitsAssumption DEF Fits
        <5> QED BY <5>1, <5>2 DEF LegalTargets
      <4>3. /\ ArgsNamed("paper-config", n) = {}
            /\ Len(options.targets) = Cardinality(ArgsNamed("target", n))
            /\ \A i \in ArgsNamed("target", n) :
                 options.targets[Cardinality({j \in ArgsNamed("target", n) : j <= i})]
                   = command.args[i].value
        BY <1>1, <4>1 DEF TargetsAfter
      <4> DEFINE G == ArgsNamed("target", n)
                 H == G \cup {n + 1}
                 ts == options.targets
                 us == Append(ts, o.value)
      <4>4. ArgsNamed("target", n + 1) = H /\ ArgsNamed("paper-config", n + 1) = {}
        BY <1>1, <1>3, <3>2, <4>3, OneArgMore
      <4>5. /\ us \in Seq(LegalTargets) /\ Len(us) = Len(ts) + 1 /\ us[Len(ts) + 1] = o.value
            /\ \A k \in 1..Len(ts) : us[k] = ts[k]
        BY <2>2, <4>2, AppendProperties
      <4>6. Cardinality(H) = Cardinality(G) + 1
        BY <3>0, FS_AddElement
      <4>7. ASSUME NEW i \in H PROVE us[Cardinality({j \in H : j <= i})] = command.args[i].value
        <5>0. G \in SUBSET (1..n)
          BY DEF ArgsNamed
        <5>1. CASE i = n + 1
          <6>1. {j \in H : j <= i} = H
            BY <5>0, <5>1
          <6> QED BY <1>3, <4>3, <4>5, <4>6, <5>1, <6>1
        <5>2. CASE i \in G
          <6>1. {j \in H : j <= i} = {j \in G : j <= i}
            BY <5>0, <5>2
          <6>2. Cardinality({j \in G : j <= i}) \in 1..Cardinality(G)
            <7> DEFINE L == {j \in G : j <= i}
            <7>1. L \in SUBSET G /\ i \in L
              BY <5>0, <5>2
            <7>2. IsFiniteSet(L) /\ Cardinality(L) \in Nat /\ Cardinality(L) <= Cardinality(G)
                  /\ Cardinality(L) # 0
              <8> HIDE DEF L, G
              <8> QED BY <3>0, <7>1, FS_Subset, FS_CardinalityType, FS_EmptySet DEF G
            <7> QED BY <3>0, <7>2
          <6> QED BY <4>3, <4>5, <5>2, <6>1, <6>2
        <5> QED BY <5>1, <5>2
      <4>8. options'.targets = us /\ options'.paper_config = "" /\ DOMAIN options' = DOMAIN options
        BY <2>2, <4>1
      <4>9. TargetsAfter(n + 1)'
        <5> HIDE DEF us, H, G
        <5>1. Len(us) = Cardinality(H)
          BY <4>3, <4>5, <4>6 DEF G
        <5> QED BY <2>1, <3>1, <4>4, <4>7, <4>8, <5>1 DEF TargetsAfter
      <4> QED BY <4>5, <4>8, <4>9
    <3>3. CASE o.name = "paper-config"
      <4>1. /\ options' = [options EXCEPT !.paper_config = o.value,
                                          !.targets = @ \o PaperConfigs[o.value]]
            /\ options.targets = << >> /\ options.paper_config = ""
            /\ o.value \in DOMAIN PaperConfigs
        BY <2>1, <1>5, <3>3 DEF WithOption, Acceptable
      <4>2. /\ PaperConfigs[o.value] \in Seq(Targets) /\ PaperConfigs[o.value] # << >>
            /\ o.value # ""
        BY <4>1, TargetsAssumption
      <4>3. PaperConfigs[o.value] \in Seq(LegalTargets)
        <5> DEFINE ts == PaperConfigs[o.value]
        <5>1. \A k \in 1..Len(ts) : ts[k] \in LegalTargets
          <6> TAKE k \in 1..Len(ts)
          <6>1. ts[k] \in Targets
            BY <4>2, ElementOfSeq
          <6> QED BY <4>1, <6>1, TargetsAssumption DEF LegalTargets, Fits
        <5> HIDE DEF ts
        <5>2. ts \in Seq(LegalTargets)
          BY <4>2, <5>1, SeqOfElements DEF ts
        <5> QED BY <5>2 DEF ts
      <4>4. << >> \o PaperConfigs[o.value] = PaperConfigs[o.value]
        BY <4>2, ConcatEmptySeq
      <4>5. /\ options'.targets = PaperConfigs[o.value] /\ options'.paper_config = o.value
            /\ DOMAIN options' = DOMAIN options
        BY <2>2, <4>1, <4>4
      <4>6. ArgsNamed("paper-config", n) = {} /\ ArgsNamed("target", n) = {}
        <5>1. options.paper_config = "" /\ Len(options.targets) = 0
          BY <4>1
        <5>2. ArgsNamed("paper-config", n) = {} /\ Cardinality(ArgsNamed("target", n)) = 0
          BY <1>1, <5>1 DEF TargetsAfter
        <5> QED BY <3>0, <5>2, FS_EmptySet
      <4>7. ArgsNamed("paper-config", n + 1) = {n + 1} /\ ArgsNamed("target", n + 1) = {}
        <5>1. ArgsNamed("paper-config", n + 1) = ArgsNamed("paper-config", n) \cup {n + 1}
          BY <1>3, <3>3, OneArgMore
        <5>2. ArgsNamed("target", n + 1) = ArgsNamed("target", n)
          BY <1>3, <3>3, OneArgMore
        <5> QED BY <4>6, <5>1, <5>2
      <4>8. n + 1 \in 1..(n + 1) /\ command.args[n + 1] = o
        BY <1>3
      <4> HIDE DEF o
      <4>9. TargetsAfter(n + 1)'
        BY <2>1, <3>1, <4>2, <4>5, <4>7, <4>8 DEF TargetsAfter
      <4> QED BY <4>3, <4>5, <4>9
    <3>4. CASE o.name = "holdout"
      <4>1. options' = [options EXCEPT !.holdout_percent = o.value]
        BY <2>1, <3>4 DEF WithOption
      <4>2. /\ options'.targets = options.targets
            /\ options'.paper_config = options.paper_config /\ DOMAIN options' = DOMAIN options
        BY <2>2, <4>1
      <4>3. /\ ArgsNamed("paper-config", n + 1) = ArgsNamed("paper-config", n)
            /\ ArgsNamed("target", n + 1) = ArgsNamed("target", n)
        BY <1>3, <3>4, OneArgMore
      <4>4. \A i \in 1..n : i \in 1..(n + 1)
        BY <1>1
      <4>5. TargetsAfter(n + 1)'
        BY <1>1, <2>1, <3>1, <4>2, <4>3, <4>4 DEF TargetsAfter
      <4> QED BY <2>2, <4>2, <4>5
    <3> QED BY <1>5, <3>2, <3>3, <3>4 DEF Acceptable
  <2>4. SavedTypes'
    <3>1. Len(model) = 0 /\ Len(options'.targets) \in Nat
      BY <1>0, <2>3, LenProperties
    <3> QED BY <1>0, <2>1, <2>2, <2>3, <3>1 DEF SavedInv, SavedTypes
  <2>5. ParsedArgs'
    <3>1. n + 1 \in 0..Len(command.args) /\ (n + 1) + 1 = n + 2
      BY <1>2, <1>3
    <3> QED BY <1>3, <2>1, <2>3, <3>1 DEF ParsedArgs
  <2>6. Len(model) = 0
    BY <1>0
  <2> QED BY <1>0, <2>1, <2>4, <2>5, <2>6 DEF SavedInv, SavedPhases
<1> QED BY <1>4, <1>5

(* All arguments are parsed: the targets are those of a target list.       *)
LEMMA EndParsingSaved ==
  ASSUME SavedInv, EndParsing
  PROVE  SavedInv'
<1>0. /\ phase = "parsing" /\ args = << >> /\ phase' = "splitting"
      /\ UNCHANGED <<command, args, model, modelFile, tested>>
      /\ options' = IF options.targets = << >>
                      THEN [options EXCEPT !.targets = <<StandardTarget>>] ELSE options
      /\ model = << >> /\ modelFile = {} /\ tested = {}
  BY DEF EndParsing, SavedInv, SavedPhases, dataVars
<1>1. PICK n \in 0..Len(command.args) :
        args = SubSeq(command.args, n + 1, Len(command.args)) /\ TargetsAfter(n)
  BY <1>0 DEF SavedInv, ParsedArgs
<1>2. command.args \in Seq(Range(command.args)) /\ Len(command.args) \in Nat
  BY CommandsAssumption, LenProperties DEF SavedInv, SavedTypes
<1>3. n = Len(command.args)
  <2> DEFINE s == command.args
  <2>1. n + 1 <= Len(s) => Len(SubSeq(s, n + 1, Len(s))) = Len(s) - (n + 1) + 1
    <3>1. n + 1 <= Len(s) => \A i \in (n + 1)..Len(s) : s[i] \in Range(s)
      <4>1. DOMAIN s = 1..Len(s)
        BY <1>2
      <4> QED BY <4>1, <1>2 DEF Range
    <3> HIDE DEF s
    <3> QED BY <1>2, <3>1, SubSeqProperties DEF s
  <2>2. Len(SubSeq(s, n + 1, Len(s))) = 0
    <3>1. Len(<< >>) = 0
      OBVIOUS
    <3> QED BY <1>0, <1>1, <3>1
  <2> QED BY <1>2, <2>1, <2>2
<1> DEFINE Given == {i \in DOMAIN command.args : command.args[i].name = "target"}
           Named == {i \in DOMAIN command.args : command.args[i].name = "paper-config"}
<1>4. Given = ArgsNamed("target", n) /\ Named = ArgsNamed("paper-config", n)
  <2>1. DOMAIN command.args = 1..n
    BY <1>2, <1>3
  <2> QED BY <2>1 DEF ArgsNamed
<1>5. /\ DOMAIN options = {"paper_config", "targets", "holdout_percent"}
      /\ options.targets \in Seq(LegalTargets) /\ command \in Commands
  BY DEF SavedInv, SavedTypes
<1>6. IsFiniteSet(Given) /\ Cardinality(Given) \in Nat
  <2>1. n \in Nat
    BY <1>2
  <2>2. IsFiniteSet(ArgsNamed("target", n)) /\ Cardinality(ArgsNamed("target", n)) \in Nat
    BY <2>1, CountArgs
  <2> QED BY <1>4, <2>2
<1>7. /\ options'.targets \in Seq(LegalTargets)
      /\ DOMAIN options' = {"paper_config", "targets", "holdout_percent"}
      /\ IsTargetList(options'.targets)
  <2>1. CASE options.targets = << >>
    <3>1. options'.targets = <<StandardTarget>> /\ DOMAIN options' = DOMAIN options
      BY <1>0, <1>5, <2>1
    <3>2. StandardTarget \in LegalTargets
      <4>1. Fits(0, 0) /\ 0 <= WordBits
        BY BitsAssumption DEF Fits
      <4> QED BY <4>1, TargetsAssumption DEF LegalTargets
    <3>3. Named = {} /\ Given = {}
      <4>1. Len(options.targets) = 0
        BY <2>1
      <4>2. Named = {} /\ Cardinality(Given) = 0
        BY <1>1, <1>4, <2>1, <4>1 DEF TargetsAfter
      <4> HIDE DEF Given, Named
      <4> QED BY <1>6, <4>2, FS_EmptySet
    <3>4. <<StandardTarget>> \in Seq(LegalTargets)
      BY <3>2
    <3> QED BY <1>5, <3>1, <3>3, <3>4 DEF IsTargetList
  <2>2. CASE options.targets # << >>
    <3>1. options' = options
      BY <1>0, <2>2
    <3>2. CASE Named = {}
      <4>1. /\ Len(options.targets) = Cardinality(Given)
            /\ \A i \in Given :
                 options.targets[Cardinality({j \in Given : j <= i})] = command.args[i].value
        BY <1>1, <1>4, <3>2 DEF TargetsAfter
      <4>2. Given # {}
        <5>1. Len(options.targets) # 0
          BY <1>5, <2>2, EmptySeq
        <5> HIDE DEF Given
        <5> QED BY <4>1, <5>1, <1>6, FS_EmptySet
      <4>3. IsTargetList(options.targets)
        BY <3>2, <4>1, <4>2 DEF IsTargetList
      <4> QED BY <1>5, <3>1, <4>3
    <3>3. CASE Named # {}
      <4>1. Given = {} /\ \E i \in 1..n : /\ Named = {i}
                            /\ options.targets = PaperConfigs[command.args[i].value]
        BY <1>1, <1>4, <3>3 DEF TargetsAfter
      <4>2. \E i \in Named : Named = {i} /\ options.targets = PaperConfigs[command.args[i].value]
        <5> HIDE DEF Named
        <5> QED BY <4>1
      <4>3. IsTargetList(options.targets)
        BY <4>1, <4>2 DEF IsTargetList
      <4> QED BY <1>5, <3>1, <4>3
    <3> QED BY <3>2, <3>3
  <2> QED BY <2>1, <2>2
<1>8. Len(model) = 0 /\ Len(options'.targets) \in Nat
  BY <1>0, <1>7, LenProperties
<1>9. IsTargetList(options.targets)' /\ options'.targets # << >>
  <2>1. <<StandardTarget>> # << >>
    OBVIOUS
  <2>2. options'.targets # << >>
    BY <1>0, <1>5, <2>1
  <2>3. command' = command
    BY <1>0
  <2>4. IsTargetList(options'.targets)
    BY <1>7
  <2> HIDE DEF Given, Named
  <2>5. IsTargetList(options.targets)'
    BY <2>3, <2>4 DEF IsTargetList
  <2> QED BY <2>2, <2>5
<1>10. SavedTypes'
  BY <1>0, <1>5, <1>7, <1>8 DEF SavedInv, SavedTypes
<1>11. SavedPhases'
  BY <1>0, <1>9 DEF SavedPhases
<1> QED BY <1>0, <1>8, <1>10, <1>11 DEF SavedInv, ParsedArgs

(* What may be trained for a target is fit to be saved.                    *)
LEMMA TrainedFits ==
  ASSUME NEW t \in LegalTargets, NEW S \in MayBeTrained(t),
         t.metadata_bytes < t.size, t.size < BlockSize, PatternCountFits(t)
  PROVE  LET own == PatternSet(t.size, t.metadata_bytes, t.tag_bits, t.tag_value, InOrder(S))
         IN  own \in TrainedSets /\ FitsItsTarget(own, t)
<1> DEFINE legal == {p \in CanonicalPatterns :
                       /\ Rank(p) <= t.size - t.metadata_bytes
                       /\ \E v \in trained : Describes(p, v.block)}
           count == Cardinality(legal)
           least == Min({t.pattern_count, count})
<1>1. CanonicalPatterns \subseteq [Pos -> 0..(SymbolLimit - 1)]
  <2>1. \A f : Canonicalize(f) \in [Pos -> 0..(SymbolLimit - 1)]
    BY CanonicalizeType DEF Symbol
  <2> QED BY <2>1 DEF CanonicalPatterns, PatternsOver
<1>2. IsFiniteSet(legal) /\ count \in Nat
  <2>1. IsFiniteSet(Pos) /\ IsFiniteSet(0..(SymbolLimit - 1))
    BY BlockSizeAssumption, SymbolLimitAssumption, FS_Interval DEF Pos
  <2>2. IsFiniteSet([Pos -> 0..(SymbolLimit - 1)])
    BY <2>1, FinitelyManyFunctions
  <2>3. legal \in SUBSET [Pos -> 0..(SymbolLimit - 1)]
    BY <1>1
  <2> HIDE DEF legal
  <2> QED BY <2>2, <2>3, FS_Subset, FS_CardinalityType
<1>3. /\ t.size \in Nat /\ t.pattern_count \in Nat /\ t.metadata_bytes \in Nat
      /\ t.tag_bits \in Nat /\ t.tag_value \in Nat
  BY DEF LegalTargets, Targets
<1>4. PICK n \in 0..least : S \in kSubset(n, legal)
  BY DEF MayBeTrained
<1>5. S \in SUBSET legal /\ Cardinality(S) = n
  BY <1>4 DEF kSubset
<1>6. least <= t.pattern_count /\ least \in Nat
  <2> DEFINE two == {t.pattern_count, count}
  <2>1. \E m \in two : \A o \in two : m <= o
    <3> HIDE DEF count
    <3> QED BY <1>2, <1>3
  <2>2. least \in two /\ \A o \in two : least <= o
    <3>1. least = CHOOSE m \in two : \A o \in two : m <= o
      BY DEF Min
    <3> HIDE DEF two, least
    <3> QED BY <2>1, <3>1
  <2> HIDE DEF least, count
  <2> QED BY <1>2, <1>3, <2>2
<1> HIDE DEF least, count
<1>7. S \in SUBSET [Pos -> Nat] /\ IsFiniteSet(S) /\ Cardinality(S) <= t.pattern_count
  <2>1. IsFiniteSet(S)
    <3> HIDE DEF legal
    <3> QED BY <1>2, <1>5, FS_Subset
  <2>2. S \in SUBSET [Pos -> 0..(SymbolLimit - 1)]
    BY <1>1, <1>5
  <2>3. \A f \in [Pos -> 0..(SymbolLimit - 1)] : f \in [Pos -> Nat]
    BY SymbolLimitAssumption
  <2> QED BY <1>3, <1>4, <1>5, <1>6, <2>1, <2>2, <2>3
<1>8. /\ InOrder(S) \in Seq(S) /\ Len(InOrder(S)) = Cardinality(S)
      /\ Cardinality(S) \in Nat
  BY <1>7, InOrderLists, FS_CardinalityType
<1> DEFINE own == PatternSet(t.size, t.metadata_bytes, t.tag_bits, t.tag_value, InOrder(S))
<1>9. /\ own.target_size = t.size /\ own.metadata_bytes = t.metadata_bytes
      /\ own.tag_bits = t.tag_bits /\ own.tag_value = t.tag_value
      /\ own.patterns = InOrder(S)
  BY DEF PatternSet
<1>10. own \in TrainedSets
  <2>1. InOrder(S) \in Seq([Pos -> Nat])
    BY <1>7, <1>8, SeqMonotonic
  <2> HIDE DEF legal
  <2> QED BY <1>3, <2>1 DEF TrainedSets, PatternSet
<1>11. ASSUME NEW k \in 1..Len(own.patterns)
       PROVE  Rank(own.patterns[k]) <= DictionarySize(own)
  <2>1. own.patterns[k] \in S
    BY <1>8, <1>9, <1>11, ElementOfSeq
  <2>2. Rank(own.patterns[k]) <= t.size - t.metadata_bytes
    BY <1>5, <2>1
  <2> QED BY <1>9, <2>2 DEF DictionarySize
<1>12. ValidLayout(own)
  <2> HIDE DEF own, legal
  <2> QED BY <1>9 DEF ValidLayout, LegalTargets, PatternCountFits, MetadataBits, PatternIdBits
<1>13. CountFits(Len(own.patterns), PatternIdBits(own))
  <2> DEFINE bits == ByteBits * t.metadata_bytes - t.tag_bits
  <2>1. PatternIdBits(own) = bits /\ CountFits(t.pattern_count, bits) /\ bits \in Nat
    <3>1. ByteBits * t.metadata_bytes \in Nat
      BY <1>3, BitsAssumption
    <3> HIDE DEF own
    <3> QED BY <1>3, <1>9, <3>1 DEF PatternIdBits, MetadataBits, PatternCountFits
  <2>2. Len(own.patterns) <= t.pattern_count /\ Len(own.patterns) \in Nat
    BY <1>7, <1>8, <1>9
  <2> HIDE DEF bits, own, legal
  <2>3. 2^bits \in Int
    BY <2>1
  <2> QED BY <1>3, <2>1, <2>2, <2>3 DEF CountFits
<1>14. own.target_size # 0 /\ Len(own.patterns) <= t.pattern_count
  BY <1>3, <1>7, <1>8, <1>9
<1> HIDE DEF own, legal
<1> QED BY <1>9, <1>10, <1>11, <1>12, <1>13, <1>14 DEF ValidSet, FitsItsTarget, own

(* Steps that leave the model and its targets alone.                       *)
LEMMA PhaseSaved ==
  ASSUME SavedInv, SavedPhases', phase' # "parsing", UNCHANGED <<command, options, model>>
  PROVE  SavedInv'
  BY DEF SavedInv, SavedTypes, ParsedArgs

LEMMA TargetListSame ==
  ASSUME UNCHANGED <<command, options>>
  PROVE  IsTargetList(options.targets)' <=> IsTargetList(options.targets)
BY DEF IsTargetList

LEMMA ReadingSaved ==
  ASSUME SavedInv, SplitTrace \/ EndSplitting \/ OpenTrace \/ CloseTrace \/ EndPass
  PROVE  SavedInv'
<1>0. /\ Len(model) \in Nat /\ Len(options.targets) \in Nat
      /\ phase \in {"splitting", "training"} => model = << >>
      /\ phase = "testing" => modelFile # {}
  BY LenProperties DEF SavedInv, SavedTypes, SavedPhases
<1>1. CASE Refuse /\ phase \in {"splitting", "training", "testing"}
  BY <1>0, <1>1, RefuseSaved
<1>2. CASE UNCHANGED <<callVars, phase, trained, tested, model, modelFile>>
  BY <1>2, SameSaved DEF callVars
<1>3. CASE SplitTrace
  BY <1>1, <1>2, <1>3 DEF SplitTrace
<1>4. CASE EndSplitting
  <2>1. CASE Refuse
    BY <1>1, <1>4, <2>1 DEF EndSplitting
  <2>2. CASE phase = "splitting" /\ phase' = "training" /\ UNCHANGED <<callVars, dataVars>>
    <3>1. UNCHANGED <<command, args, options, tested, model, modelFile>>
      BY <2>2 DEF callVars, dataVars
    <3>2. SavedPhases'
      BY <2>2, <3>1, TargetListSame DEF SavedInv, SavedPhases
    <3> QED BY <2>2, <3>1, <3>2, PhaseSaved
  <2> QED BY <1>4, <2>1, <2>2 DEF EndSplitting
<1>5. CASE OpenTrace
  BY <1>1, <1>2, <1>5 DEF OpenTrace, Visiting, dataVars
<1>6. CASE CloseTrace
  BY <1>2, <1>6 DEF CloseTrace, dataVars
<1>7. CASE EndPass
  <2>1. /\ phase \in {"training", "testing"}
        /\ phase' = IF phase = "training" THEN "fitting" ELSE "done"
        /\ UNCHANGED <<command, args, options, tested, model, modelFile>>
    BY <1>7 DEF EndPass, callVars, dataVars
  <2>2. SavedPhases'
    BY <2>1, TargetListSame DEF SavedInv, SavedPhases
  <2> QED BY <2>1, <2>2, PhaseSaved
<1> QED BY <1>3, <1>4, <1>5, <1>6, <1>7

LEMMA VisitSaved ==
  ASSUME SavedInv, VisitBlock
  PROVE  SavedInv'
<1>1. /\ UNCHANGED <<command, args, options, phase, model, modelFile>>
      /\ phase \in {"training", "testing"}
      /\ phase # "testing" => tested' = tested
  BY DEF VisitBlock, Visiting, callVars
<1>2. SavedPhases'
  BY <1>1, TargetListSame DEF SavedInv, SavedPhases, SameSize
<1> QED BY <1>1, <1>2, PhaseSaved

LEMMA ChangeSaved ==
  ASSUME SavedInv, NEW f, Change(f)
  PROVE  SavedInv'
BY SameSaved DEF Change, callVars, dataVars

LEMMA ReportSaved ==
  ASSUME SavedInv, Report
  PROVE  SavedInv'
<1> DEFINE Reads == /\ UNCHANGED <<command, args, options, tested, model, modelFile>>
                    /\ phase \in {"parsing", "reporting"}
                    /\ phase' \in {"reporting", "refused", "reported"}
<1>1. Reads
  <2>1. ASSUME StartReport PROVE Reads
    BY <2>1 DEF StartReport, callVars, dataVars
  <2>2. ASSUME ReadTrace PROVE Reads
    BY <2>2 DEF ReadTrace, UnderWay, callVars, dataVars
  <2>3. ASSUME EndList PROVE Reads
    BY <2>3 DEF EndList, UnderWay, callVars, dataVars
  <2>4. ASSUME EndPassOfGroup PROVE Reads
    BY <2>4 DEF EndPassOfGroup, UnderWay, callVars, dataVars
  <2>5. ASSUME EndGroups PROVE Reads
    BY <2>5 DEF EndGroups, callVars, dataVars
  <2> QED BY <2>1, <2>2, <2>3, <2>4, <2>5 DEF Report
<1>2. model = << >> /\ modelFile = {} /\ tested = {}
  BY <1>1 DEF SavedInv, SavedPhases
<1>3. SavedPhases'
  BY <1>1, <1>2 DEF SavedPhases
<1> QED BY <1>1, <1>3, PhaseSaved

LEMMA FitSaved ==
  ASSUME SavedInv, FitTarget
  PROVE  SavedInv'
<1> DEFINE n == Len(model)
           t == options.targets[n + 1]
<1>0. /\ phase = "fitting" /\ n \in Nat /\ n < Len(options.targets)
      /\ options.targets \in Seq(LegalTargets) /\ model \in Seq(TrainedSets)
      /\ Len(options.targets) \in Nat /\ modelFile = {} /\ tested = {}
      /\ IsTargetList(options.targets) /\ options.targets # << >>
  BY LenProperties DEF FitTarget, SavedInv, SavedTypes, SavedPhases
<1>1. t \in LegalTargets
  BY <1>0, ElementOfSeq
<1>2. CASE Refuse
  BY <1>0, <1>2, RefuseSaved
<1>3. CASE ~Refuse
  <2>1. /\ t.metadata_bytes < t.size /\ t.size < BlockSize /\ PatternCountFits(t)
        /\ UNCHANGED <<command, args, options, phase, tested, modelFile>>
    BY <1>3 DEF FitTarget, callVars
  <2>2. PICK S \in MayBeTrained(t) :
          model' = Append(model, PatternSet(t.size, t.metadata_bytes, t.tag_bits, t.tag_value,
                                            InOrder(S)))
    BY <1>3 DEF FitTarget
  <2> DEFINE own == PatternSet(t.size, t.metadata_bytes, t.tag_bits, t.tag_value, InOrder(S))
  <2>3. own \in TrainedSets /\ FitsItsTarget(own, t)
    <3> HIDE DEF t
    <3> QED BY <1>1, <2>1, <2>2, TrainedFits
  <2> HIDE DEF own
  <2>4. /\ model' \in Seq(TrainedSets) /\ Len(model') = n + 1 /\ model'[n + 1] = own
        /\ \A s \in 1..n : model'[s] = model[s]
    BY <1>0, <2>2, <2>3, AppendProperties DEF own
  <2>5. \A s \in 1..Len(model') : FitsItsTarget(model'[s], options.targets[s])
    <3>1. \A s \in 1..(n + 1) : s \in 1..n \/ s = n + 1
      BY <1>0
    <3> QED BY <1>0, <2>3, <2>4, <3>1 DEF SavedInv
  <2>6. SavedTypes'
    BY <1>0, <2>1, <2>4 DEF SavedInv, SavedTypes
  <2>7. SavedPhases'
    BY <1>0, <2>1, TargetListSame DEF SavedPhases
  <2> QED BY <1>0, <2>1, <2>5, <2>6, <2>7 DEF SavedInv, ParsedArgs, FitsItsTarget
<1> QED BY <1>2, <1>3

(* Each set is fit to be saved, so only sizes can be in the way.           *)
LEMMA SaveSaved ==
  ASSUME SavedInv, SaveModel
  PROVE  SavedInv'
<1>0. /\ phase = "fitting" /\ Len(model) = Len(options.targets)
      /\ options.targets \in Seq(LegalTargets) /\ model \in Seq(TrainedSets)
      /\ modelFile = {} /\ tested = {}
      /\ IsTargetList(options.targets) /\ options.targets # << >>
      /\ \A s \in 1..Len(model) : FitsItsTarget(model[s], options.targets[s])
  BY DEF SaveModel, SavedInv, SavedTypes, SavedPhases
<1>1. CASE Refuse
  <2>1. ~ValidModel(model) \/ SameSize
    <3>1. CASE ValidModel(model)
      <4>1. phase' # "refused"
        BY <1>0, <3>1 DEF SaveModel
      <4> QED BY <1>1, <4>1 DEF Refuse
    <3> QED BY <3>1
  <2>2. model # << >>
    <3>1. Len(options.targets) # 0 /\ Len(<< >>) = 0
      BY <1>0, EmptySeq
    <3> QED BY <1>0, <3>1
  <2>3. SameSize
    <3> SUFFICES ASSUME ~ValidModel(model) PROVE SameSize
      BY <2>1
    <3>1. \A s \in 1..Len(model) : ValidSet(model[s])
      BY <1>0 DEF FitsItsTarget
    <3>2. PICK s \in 1..Len(model), u \in 1..Len(model) :
             model[s].target_size = model[u].target_size /\ s # u
      BY <2>2, <3>1 DEF ValidModel
    <3>3. options.targets[s].size = options.targets[u].size
      BY <1>0, <3>2 DEF FitsItsTarget
    <3> QED BY <3>2, <3>3 DEF SameSize
  <2> QED BY <1>0, <1>1, <2>3, RefuseSaved
<1>2. CASE ~Refuse
  <2>1. /\ modelFile' = {model} /\ phase' \in {"testing", "done"}
        /\ UNCHANGED <<command, args, options, tested, model>>
    BY <1>2 DEF SaveModel, callVars
  <2>2. SavedPhases'
    BY <1>0, <2>1, TargetListSame DEF SavedPhases
  <2> QED BY <2>1, <2>2, PhaseSaved
<1> QED BY <1>1, <1>2

LEMMA NextSavedInv == SavedInv /\ [BselNext]_allVars => SavedInv'
<1> SUFFICES ASSUME SavedInv, [BselNext]_allVars PROVE SavedInv'
  OBVIOUS
<1>1. CASE UNCHANGED allVars
  BY <1>1, SameSaved DEF allVars, vars, callVars, dataVars
<1>2. CASE Train
  BY <1>2, ParseSaved, EndParsingSaved, ReadingSaved, VisitSaved, FitSaved, SaveSaved DEF Train
<1>3. CASE \E f \in DOMAIN files : Change(f)
  BY <1>3, ChangeSaved
<1>4. CASE Report
  BY <1>4, ReportSaved
<1> QED BY <1>1, <1>2, <1>3, <1>4 DEF BselNext, Next

(* A model is saved whole: one set per target of the command, in the       *)
(* order of the command, before anything is tested, and the only training  *)
(* that is thrown away is one for two targets of one size.                 *)
THEOREM SavedModelsAreComplete == BselSpec => []SavedModelIsComplete
<1>1. ReportInit => SavedInv
  BY InitSavedInv
<1>2. SavedInv /\ [BselNext]_allVars => SavedInv'
  BY NextSavedInv
<1>3. SavedInv => SavedModelIsComplete
  BY SavedGivesComplete
<1> QED BY <1>1, <1>2, <1>3, PTL DEF BselSpec, allVars

-----------------------------------------------------------------------------
(* Saved models                                                            *)

FieldKinds == {"BSEL_MODEL", "block_size", "sets", "set", "pattern", "number", "newline"}

Field == [kind : FieldKinds, value : Nat]

IsSequence(s) == \E F : s \in Seq(F)

(* The lines of a set, the file up to the n-th set, and up to the k-th     *)
(* pattern of the s-th.                                                    *)
PatternLines(x) == [k \in 1..Len(x.patterns) |-> PatternLine(x.patterns[k])]

Records(m, v) == [s \in 1..Len(m) |-> SetLines(m[s], v)]

BeforeSet(m, v, n) == HeaderLines(m, v) \o Firsts(Records(m, v), n)

Upto(m, v, s, k) ==
  (BeforeSet(m, v, s - 1) \o SetLine(m[s], v)) \o Firsts(PatternLines(m[s]), k)

(* What is in the file and then in the buffer is the whole file; nothing   *)
(* is in either unless the model is valid.                                 *)
WriterInv ==
  /\ saved \in Seq(PatternSets) /\ version \in {1, 2}
  /\ version = 1 => \A s \in 1..Len(saved) : saved[s].tag_bits = 0 /\ saved[s].tag_value = 0
  /\ writer \in {"idle", "saving", "exited", "killed", "refused"}
  /\ writer \in {"idle", "refused"} => file = << >> /\ buffer = << >>
  /\ writer \in {"idle", "saving"} => version = 2
  /\ writer \notin {"idle", "refused"} => ValidModel(saved)
  /\ writer = "saving" => file \o buffer = WholeFile(saved, version)
  /\ writer = "exited" => file = WholeFile(saved, version)
  /\ IsSequence(file) /\ buffer \in Seq(Field)

Reached(s, k) == Begins(Upto(saved, version, s, k), input)

(* x has the fields of the s-th set and every pattern whose line is whole. *)
SetRead(s, x) ==
  /\ x = [saved[s] EXCEPT !.patterns = x.patterns]
  /\ IsSequence(x.patterns) /\ Len(x.patterns) <= Len(saved[s].patterns)
  /\ \A k \in 1..Len(x.patterns) : Reached(s, k) => x.patterns[k] = saved[s].patterns[k]

LoaderTypes ==
  /\ IsSequence(input) /\ IsSequence(sets)
  /\ loader \in {"idle", "sets", "patterns", "loaded", "rejected"}
  /\ loader = "idle" => sets = << >>
  /\ input # << >> => ValidModel(saved)

CountRead ==
  loader \notin {"idle", "rejected"} /\ Begins(HeaderLines(saved, version), input)
    => set_count = Len(saved)

(* The sets whose lines are whole are read as they were written.           *)
SetsRead ==
  \A s \in 1..Len(sets) :
    s <= Len(saved) /\ Reached(s, 0)
      => SetRead(s, sets[s]) /\ Len(sets[s].patterns) = Len(saved[s].patterns)

(* Between sets, and between patterns, a reader of whole lines stands      *)
(* behind the last of them.                                                *)
BetweenSets ==
  loader = "sets" /\ Len(sets) <= Len(saved) /\ Begins(BeforeSet(saved, version, Len(sets)), input)
    => position = Len(BeforeSet(saved, version, Len(sets))) /\ good

BetweenPatterns ==
  LET s == Len(sets) + 1
      k == Len(set.patterns)
  IN  loader = "patterns" /\ s <= Len(saved) /\ Reached(s, 0)
        => /\ SetRead(s, set)
           /\ missing \in Nat /\ k + missing = Len(saved[s].patterns)
           /\ Reached(s, k) => position = Len(Upto(saved, version, s, k)) /\ good

(* Where the file ends for want of a pattern the reader does not pass.     *)
StopsAt(s, k) ==
  /\ loader # "loaded"
  /\ loader \in {"sets", "patterns"} => Len(sets) < s
  /\ loader = "patterns" /\ Len(sets) + 1 = s => Len(set.patterns) <= k

NotPast ==
  \A s \in 1..Len(saved) : \A k \in 0..(Len(saved[s].patterns) - 1) :
    input = Upto(saved, version, s, k) => StopsAt(s, k)

WholeIsAccepted == input = WholeFile(saved, version) => loader # "rejected"

LoaderInv ==
  /\ LoaderTypes /\ CountRead /\ SetsRead /\ BetweenSets /\ BetweenPatterns
  /\ NotPast /\ WholeIsAccepted
  /\ loader = "patterns" => Len(sets) < set_count
  /\ loader = "loaded" => Len(sets) = set_count

FileInv == WriterInv /\ LoaderInv

LEMMA Joins ==
  ASSUME NEW T, NEW a \in Seq(T), NEW b \in Seq(T), NEW c, c = a \o b
  PROVE  /\ c \in Seq(T) /\ Len(c) = Len(a) + Len(b) /\ Len(a) \in Nat /\ Len(b) \in Nat
         /\ \A i \in 1..Len(a) : c[i] = a[i]
         /\ \A i \in 1..Len(b) : c[Len(a) + i] = b[i]
         /\ Begins(a, c)
<1>1. Len(a) \in Nat /\ Len(b) \in Nat /\ c \in Seq(T) /\ Len(c) = Len(a) + Len(b)
  BY ConcatProperties, LenProperties
<1>2. Begins(a, c) /\ \A i \in 1..Len(b) : c[Len(a) + i] = b[i]
  BY BeginsConcat
<1> QED
  BY <1>1, <1>2 DEF Begins

LEMMA FirstsBegin ==
  ASSUME NEW T, NEW s \in Seq(Seq(T)), NEW k \in 0..Len(s), NEW j \in 0..k
  PROVE  Begins(Firsts(s, j), Firsts(s, k))
<1> DEFINE Bad == {d \in 0..(k - j) : ~Begins(Firsts(s, j), Firsts(s, j + d))}
<1>1. /\ Len(s) \in Nat /\ k \in Nat /\ j \in Nat /\ j <= k /\ k <= Len(s)
      /\ \A n \in 0..Len(s) : Firsts(s, n) \in Seq(T)
  BY FirstsSteps, LenProperties
<1>2. ASSUME Bad # {} PROVE FALSE
  <2>1. PICK d \in Bad : \A e \in Bad : d <= e
    <3>1. Bad \in SUBSET Nat
      BY <1>1
    <3> HIDE DEF Bad
    <3> QED
      BY <1>2, <3>1, LeastNatural
  <2>2. d # 0
    <3>1. Begins(Firsts(s, j), Firsts(s, j + 0))
      BY <1>1 DEF Begins
    <3> QED
      BY <2>1, <3>1
  <2>3. /\ d - 1 \in 0..(k - j) /\ d - 1 \notin Bad
        /\ j + (d - 1) \in 0..(Len(s) - 1) /\ j + (d - 1) \in 0..Len(s)
        /\ j + (d - 1) + 1 = j + d /\ j + d \in 1..Len(s) /\ j + d \in 0..Len(s) /\ j \in 0..Len(s)
    <3>1. d \in 0..(k - j) /\ d \in Nat /\ d <= k - j
      BY <1>1, <2>1
    <3>2. /\ d - 1 \in 0..(k - j)
          /\ j + (d - 1) \in 0..(Len(s) - 1) /\ j + (d - 1) \in 0..Len(s)
          /\ j + (d - 1) + 1 = j + d /\ j + d \in 1..Len(s) /\ j + d \in 0..Len(s) /\ j \in 0..Len(s)
      BY <1>1, <2>2, <3>1
    <3>3. d - 1 \notin Bad
      <4>1. ~(d <= d - 1)
        BY <3>1
      <4> QED
        BY <2>1, <4>1
    <3> QED
      BY <3>2, <3>3
  <2>4. PICK a \in Seq(T) : a = Firsts(s, j + (d - 1))
    BY <1>1, <2>3
  <2>5. PICK b \in Seq(T) : b = s[j + d]
    BY <2>3, ElementOfSeq
  <2>6. PICK c : c = a \o b
    OBVIOUS
  <2>7. c = Firsts(s, j + d)
    BY <2>3, <2>4, <2>5, <2>6, FirstsSteps
  <2>8. Begins(Firsts(s, j), a)
    BY <2>3, <2>4
  <2>9. c \in Seq(T) /\ Begins(a, c)
    BY <2>6, Joins
  <2>10. Begins(Firsts(s, j), c)
    BY <1>1, <2>3, <2>8, <2>9, BeginsTransitive
  <2> QED
    BY <2>1, <2>7, <2>10
<1>3. k - j \in 0..(k - j) /\ j + (k - j) = k
  BY <1>1
<1>4. k - j \notin Bad
  BY <1>2
<1> QED
  BY <1>3, <1>4

LEMMA JoinsBegin ==
  ASSUME NEW T, NEW a \in Seq(T), NEW b \in Seq(T), NEW c \in Seq(T), Begins(b, c),
         NEW x, x = a \o b, NEW y, y = a \o c
  PROVE  Begins(x, y)
<1>1. /\ x \in Seq(T) /\ Len(x) = Len(a) + Len(b) /\ Len(a) \in Nat /\ Len(b) \in Nat
      /\ \A i \in 1..Len(a) : x[i] = a[i]
      /\ \A i \in 1..Len(b) : x[Len(a) + i] = b[i]
  BY Joins
<1>2. /\ y \in Seq(T) /\ Len(y) = Len(a) + Len(c) /\ Len(c) \in Nat
      /\ \A i \in 1..Len(a) : y[i] = a[i]
      /\ \A i \in 1..Len(c) : y[Len(a) + i] = c[i]
  BY Joins
<1>3. Len(b) <= Len(c) /\ \A i \in 1..Len(b) : b[i] = c[i]
  BY DEF Begins
<1>4. ASSUME NEW i \in 1..Len(x) PROVE x[i] = y[i]
  <2>1. CASE i \in 1..Len(a)
    <3>1. x[i] = a[i]
      BY <1>1, <2>1
    <3>2. y[i] = a[i]
      BY <1>2, <2>1
    <3> QED
      BY <3>1, <3>2
  <2>2. CASE i \notin 1..Len(a)
    <3>1. PICK j \in 1..Len(b) : i = Len(a) + j
      <4>1. i - Len(a) \in 1..Len(b) /\ i = Len(a) + (i - Len(a))
        BY <1>1, <2>2
      <4> QED
        BY <4>1
    <3>2. j \in 1..Len(c)
      BY <1>1, <1>2, <1>3
    <3> QED
      BY <1>1, <1>2, <1>3, <3>1, <3>2
  <2> QED
    BY <2>1, <2>2
<1> QED
  BY <1>1, <1>2, <1>3, <1>4 DEF Begins

LEMMA SizesAreNatural == Size \subseteq Nat
<1>1. 2^WordBits \in Nat \ {0}
  BY PowerOfTwo, BitsAssumption
<1> QED
  BY <1>1 DEF Size

LEMMA FieldTypes ==
  /\ \A k \in FieldKinds : Word(k) \in Field /\ Word(k).kind = k
  /\ \A n \in Nat : Number(n) \in Field /\ Number(n).kind = "number" /\ Number(n).value = n
<1>1. "number" \in FieldKinds
  BY DEF FieldKinds
<1> QED
  BY <1>1 DEF Word, Number, Field

LEMMA HeaderIs ==
  ASSUME NEW m \in Seq(PatternSets), NEW v \in {1, 2}
  PROVE  /\ HeaderLines(m, v) \in Seq(Field) /\ Len(HeaderLines(m, v)) = 9
         /\ HeaderLines(m, v)[1].kind = "BSEL_MODEL" /\ HeaderLines(m, v)[2].value = v
         /\ HeaderLines(m, v)[4].kind = "block_size" /\ HeaderLines(m, v)[7].kind = "sets"
         /\ HeaderLines(m, v)[8].value = Len(m)
<1>1. v \in Nat /\ BlockSize \in Nat /\ Len(m) \in Nat
  BY BlockSizeAssumption
<1>2. /\ Word("BSEL_MODEL") \in Field /\ Number(v) \in Field /\ EndOfLine \in Field
      /\ Word("block_size") \in Field /\ Number(BlockSize) \in Field
      /\ Word("sets") \in Field /\ Number(Len(m)) \in Field
  BY <1>1, FieldTypes DEF EndOfLine, FieldKinds
<1>3. PICK h : h = HeaderLines(m, v)
  OBVIOUS
<1>4. h \in Seq(Field) /\ Len(h) = 9
  BY <1>2, <1>3 DEF HeaderLines
<1>5. /\ h[1] = Word("BSEL_MODEL") /\ h[2] = Number(v) /\ h[4] = Word("block_size")
      /\ h[7] = Word("sets") /\ h[8] = Number(Len(m))
  BY <1>3 DEF HeaderLines
<1> QED
  BY <1>1, <1>3, <1>4, <1>5, FieldTypes DEF FieldKinds

CountField(v) == IF v = 2 THEN 6 ELSE 4

LEMMA SetLineIs ==
  ASSUME NEW x \in PatternSets, NEW v \in {1, 2}
  PROVE  /\ SetLine(x, v) \in Seq(Field) /\ Len(SetLine(x, v)) = CountField(v) + 1
         /\ SetLine(x, v)[1].kind = "set"
         /\ SetLine(x, v)[2].value = x.target_size /\ SetLine(x, v)[3].value = x.metadata_bytes
         /\ v = 2 => SetLine(x, v)[4].value = x.tag_bits /\ SetLine(x, v)[5].value = x.tag_value
         /\ SetLine(x, v)[CountField(v)].value = Len(x.patterns)
<1>1. /\ x.target_size \in Nat /\ x.metadata_bytes \in Nat /\ x.tag_bits \in Nat
      /\ x.tag_value \in Nat /\ Len(x.patterns) \in Nat
  BY SizesAreNatural DEF PatternSets
<1>2. /\ Word("set") \in Field /\ EndOfLine \in Field
      /\ Number(x.target_size) \in Field /\ Number(x.metadata_bytes) \in Field
      /\ Number(x.tag_bits) \in Field /\ Number(x.tag_value) \in Field
      /\ Number(Len(x.patterns)) \in Field
  BY <1>1, FieldTypes DEF EndOfLine, FieldKinds
<1>3. PICK a : a = <<Word("set"), Number(x.target_size), Number(x.metadata_bytes)>>
  OBVIOUS
<1>4. PICK b : b = IF v = 2 THEN <<Number(x.tag_bits), Number(x.tag_value)>> ELSE << >>
  OBVIOUS
<1>5. PICK c : c = <<Number(Len(x.patterns)), EndOfLine>>
  OBVIOUS
<1>6. /\ a \in Seq(Field) /\ Len(a) = 3 /\ a[1] = Word("set")
      /\ a[2] = Number(x.target_size) /\ a[3] = Number(x.metadata_bytes)
  BY <1>2, <1>3
<1>7. b \in Seq(Field) /\ Len(b) = IF v = 2 THEN 2 ELSE 0
  BY <1>2, <1>4
<1>8. v = 2 => b[1] = Number(x.tag_bits) /\ b[2] = Number(x.tag_value)
  BY <1>4
<1>9. c \in Seq(Field) /\ Len(c) = 2 /\ c[1] = Number(Len(x.patterns))
  BY <1>2, <1>5
<1>10. PICK d : d = a \o b
  OBVIOUS
<1>11. PICK l : l = d \o c
  OBVIOUS
<1>12. /\ d \in Seq(Field) /\ Len(d) = Len(a) + Len(b)
       /\ \A i \in 1..Len(a) : d[i] = a[i]
       /\ \A i \in 1..Len(b) : d[Len(a) + i] = b[i]
  <2>1. a \in Seq(Field) /\ b \in Seq(Field)
    BY <1>6, <1>7
  <2> QED
    BY <1>10, <2>1, Joins
<1>13. /\ l \in Seq(Field) /\ Len(l) = Len(d) + Len(c)
       /\ \A i \in 1..Len(d) : l[i] = d[i]
       /\ \A i \in 1..Len(c) : l[Len(d) + i] = c[i]
  <2>1. d \in Seq(Field) /\ c \in Seq(Field)
    BY <1>9, <1>12
  <2> QED
    BY <1>11, <2>1, Joins
<1>14. Len(d) = CountField(v) - 1 /\ Len(l) = CountField(v) + 1 /\ CountField(v) \in {4, 6}
  BY <1>6, <1>7, <1>9, <1>12, <1>13 DEF CountField
<1>15. l[1] = a[1] /\ l[2] = a[2] /\ l[3] = a[3]
  <2>1. \A i \in 1..3 : i \in 1..Len(a) /\ i \in 1..Len(d)
    BY <1>6, <1>14
  <2>2. 1 \in 1..3 /\ 2 \in 1..3 /\ 3 \in 1..3
    OBVIOUS
  <2> QED
    BY <1>12, <1>13, <2>1, <2>2
<1>16. ASSUME v = 2 PROVE l[4] = b[1] /\ l[5] = b[2]
  <2>1. 1 \in 1..Len(b) /\ 2 \in 1..Len(b) /\ Len(a) + 1 = 4 /\ Len(a) + 2 = 5
    BY <1>6, <1>7, <1>16
  <2>2. d[4] = b[1] /\ d[5] = b[2]
    BY <1>12, <2>1
  <2>3. 4 \in 1..Len(d) /\ 5 \in 1..Len(d)
    BY <1>14, <1>16 DEF CountField
  <2> QED
    BY <1>13, <2>2, <2>3
<1>17. l[CountField(v)] = c[1]
  <2>1. 1 \in 1..Len(c) /\ Len(d) + 1 = CountField(v)
    BY <1>9, <1>14
  <2> QED
    BY <1>13, <2>1
<1>18. l = SetLine(x, v)
  BY <1>3, <1>4, <1>5, <1>10, <1>11 DEF SetLine
<1>19. /\ l[1].kind = "set" /\ l[2].value = x.target_size /\ l[3].value = x.metadata_bytes
       /\ v = 2 => l[4].value = x.tag_bits /\ l[5].value = x.tag_value
       /\ l[CountField(v)].value = Len(x.patterns)
  <2>1. /\ a[1].kind = "set" /\ a[2].value = x.target_size /\ a[3].value = x.metadata_bytes
        /\ c[1].value = Len(x.patterns)
    BY <1>1, <1>6, <1>9, FieldTypes DEF FieldKinds
  <2>2. v = 2 => b[1].value = x.tag_bits /\ b[2].value = x.tag_value
    BY <1>1, <1>8, FieldTypes
  <2> QED
    BY <1>15, <1>16, <1>17, <2>1, <2>2
<1> QED
  BY <1>13, <1>14, <1>18, <1>19

LEMMA PatternLineIs ==
  ASSUME NEW p \in [Pos -> Symbol]
  PROVE  /\ PatternLine(p) \in Seq(Field) /\ Len(PatternLine(p)) = BlockSize + 2
         /\ PatternLine(p)[1].kind = "pattern"
         /\ \A i \in Pos : PatternLine(p)[i + 1].value = p[i]
         /\ PatternLine(p)[BlockSize + 2].kind = "newline"
         /\ \A i \in 1..(BlockSize + 1) : PatternLine(p)[i].kind # "newline"
<1>0. BlockSize \in Nat \ {0} /\ Pos = 1..BlockSize
  BY BlockSizeAssumption DEF Pos
<1>1. \A i \in Pos : p[i] \in Nat
  BY SymbolLimitAssumption DEF Symbol
<1>2. PICK a : a = <<Word("pattern")>>
  OBVIOUS
<1>3. PICK b : b = [i \in Pos |-> Number(p[i])]
  OBVIOUS
<1>4. PICK c : c = <<EndOfLine>>
  OBVIOUS
<1>5. a \in Seq(Field) /\ Len(a) = 1 /\ a[1] = Word("pattern")
  BY <1>2, FieldTypes DEF FieldKinds
<1>6. c \in Seq(Field) /\ Len(c) = 1 /\ c[1] = Word("newline")
  BY <1>4, FieldTypes DEF EndOfLine, FieldKinds
<1>7. b \in Seq(Field) /\ Len(b) = BlockSize /\ \A i \in Pos : b[i] = Number(p[i])
  <2>1. \A i \in Pos : Number(p[i]) \in Field
    BY <1>1, FieldTypes
  <2> QED
    BY <1>0, <1>3, <2>1
<1>8. PICK d : d = a \o b
  OBVIOUS
<1>9. PICK l : l = d \o c
  OBVIOUS
<1>10. /\ d \in Seq(Field) /\ Len(d) = Len(a) + Len(b)
       /\ \A i \in 1..Len(a) : d[i] = a[i]
       /\ \A i \in 1..Len(b) : d[Len(a) + i] = b[i]
  <2>1. a \in Seq(Field) /\ b \in Seq(Field)
    BY <1>5, <1>7
  <2> QED
    BY <1>8, <2>1, Joins
<1>11. /\ l \in Seq(Field) /\ Len(l) = Len(d) + Len(c)
       /\ \A i \in 1..Len(d) : l[i] = d[i]
       /\ \A i \in 1..Len(c) : l[Len(d) + i] = c[i]
  <2>1. d \in Seq(Field) /\ c \in Seq(Field)
    BY <1>6, <1>10
  <2> QED
    BY <1>9, <2>1, Joins
<1>12. Len(d) = BlockSize + 1 /\ Len(l) = BlockSize + 2
  BY <1>0, <1>5, <1>6, <1>7, <1>10, <1>11
<1>13. l[1] = Word("pattern")
  <2>1. 1 \in 1..Len(a) /\ 1 \in 1..Len(d)
    BY <1>0, <1>5, <1>12
  <2> QED
    BY <1>5, <1>10, <1>11, <2>1
<1>14. \A i \in Pos : l[i + 1] = Number(p[i])
  <2> TAKE i \in Pos
  <2>1. i \in 1..Len(b) /\ Len(a) + i = i + 1 /\ i + 1 \in 1..Len(d)
    BY <1>0, <1>5, <1>7, <1>12
  <2>2. d[i + 1] = b[i]
    BY <1>10, <2>1
  <2> QED
    BY <1>7, <1>11, <2>1, <2>2
<1>15. l[BlockSize + 2] = Word("newline")
  <2>1. 1 \in 1..Len(c) /\ Len(d) + 1 = BlockSize + 2
    BY <1>0, <1>6, <1>12
  <2> QED
    BY <1>6, <1>11, <2>1
<1>16. \A i \in 1..(BlockSize + 1) : l[i].kind # "newline"
  <2> TAKE i \in 1..(BlockSize + 1)
  <2>1. CASE i = 1
    BY <1>13, <2>1, FieldTypes DEF FieldKinds
  <2>2. CASE i # 1
    <3>1. i - 1 \in Pos /\ (i - 1) + 1 = i
      BY <1>0, <2>2
    <3> QED
      BY <1>1, <1>14, <3>1, FieldTypes
  <2> QED
    BY <2>1, <2>2
<1>17. l = PatternLine(p)
  BY <1>2, <1>3, <1>4, <1>8, <1>9 DEF PatternLine
<1>18. l[1].kind = "pattern" /\ l[BlockSize + 2].kind = "newline" /\ \A i \in Pos : l[i + 1].value = p[i]
  BY <1>1, <1>13, <1>14, <1>15, FieldTypes DEF FieldKinds
<1> QED
  BY <1>11, <1>12, <1>16, <1>17, <1>18

LEMMA FieldsRegroup == \A a, b, c \in Seq(Field) : (a \o b) \o c = a \o (b \o c)
BY ConcatAssociative

LEMMA SetTypes ==
  ASSUME NEW m \in Seq(PatternSets), NEW v \in {1, 2}, NEW s \in 1..Len(m)
  PROVE  /\ m[s] \in PatternSets /\ m[s].patterns \in Seq([Pos -> Symbol])
         /\ \A k \in 1..Len(m[s].patterns) :
              m[s].patterns[k] \in [Pos -> Symbol] /\ IsCanonical(m[s].patterns[k])
         /\ Len(m[s].patterns) \in Nat /\ Len(PatternLines(m[s])) = Len(m[s].patterns)
         /\ PatternLines(m[s]) \in Seq(Seq(Field))
         /\ \A k \in 1..Len(m[s].patterns) : PatternLines(m[s])[k] = PatternLine(m[s].patterns[k])
         /\ SetLines(m[s], v) = SetLine(m[s], v) \o Firsts(PatternLines(m[s]), Len(m[s].patterns))
         /\ SetLines(m[s], v) \in Seq(Field)
<1>1. m[s] \in PatternSets
  OBVIOUS
<1>2. PICK x \in PatternSets : x = m[s]
  BY <1>1
<1> DEFINE C == {p \in [Pos -> Symbol] : IsCanonical(p)}
<1>3. x.patterns \in Seq(C)
  BY DEF PatternSets
<1>4. Len(x.patterns) \in Nat /\ \A k \in 1..Len(x.patterns) : x.patterns[k] \in C
  <2> HIDE DEF C
  <2> QED
    BY <1>3, ElementOfSeq, LenProperties
<1>5. x.patterns \in Seq([Pos -> Symbol])
  <2>1. C \subseteq [Pos -> Symbol]
    OBVIOUS
  <2> HIDE DEF C
  <2> QED
    BY <1>3, <2>1
<1>6. \A k \in 1..Len(x.patterns) : PatternLine(x.patterns[k]) \in Seq(Field)
  BY <1>4, PatternLineIs
<1>7. PICK l : l = PatternLines(x)
  OBVIOUS
<1>8. /\ l \in Seq(Seq(Field)) /\ Len(l) = Len(x.patterns)
      /\ \A k \in 1..Len(x.patterns) : l[k] = PatternLine(x.patterns[k])
  BY <1>4, <1>6, <1>7 DEF PatternLines
<1>9. SetLine(x, v) \in Seq(Field)
  BY SetLineIs
<1>10. SetLines(x, v) = SetLine(x, v) \o Firsts(l, Len(l)) /\ Firsts(l, Len(l)) \in Seq(Field)
  <2>1. FlattenSeq(l) = Firsts(l, Len(l)) /\ Firsts(l, Len(l)) \in Seq(Field)
    <3>1. Len(l) \in 0..Len(l)
      BY <1>4, <1>8
    <3> QED
      BY <1>8, <3>1, FirstsSteps
  <2> QED
    BY <1>7, <2>1 DEF SetLines, PatternLines
<1>11. SetLines(x, v) \in Seq(Field)
  BY <1>9, <1>10, ConcatProperties
<1> QED
  BY <1>1, <1>2, <1>4, <1>5, <1>7, <1>8, <1>10, <1>11

LEMMA RecordsAre ==
  ASSUME NEW m \in Seq(PatternSets), NEW v \in {1, 2}
  PROVE  /\ Records(m, v) \in Seq(Seq(Field)) /\ Len(Records(m, v)) = Len(m) /\ Len(m) \in Nat
         /\ \A s \in 1..Len(m) : Records(m, v)[s] = SetLines(m[s], v)
<1>1. Len(m) \in Nat /\ \A s \in 1..Len(m) : SetLines(m[s], v) \in Seq(Field)
  BY SetTypes, LenProperties
<1>2. PICK r : r = Records(m, v)
  OBVIOUS
<1>3. /\ r \in Seq(Seq(Field)) /\ Len(r) = Len(m)
      /\ \A s \in 1..Len(m) : r[s] = SetLines(m[s], v)
  BY <1>1, <1>2 DEF Records
<1> QED
  BY <1>1, <1>2, <1>3

(* The file, set by set                                                    *)
LEMMA SetsFollow ==
  ASSUME NEW m \in Seq(PatternSets), NEW v \in {1, 2}
  PROVE  /\ BeforeSet(m, v, 0) = HeaderLines(m, v)
         /\ BeforeSet(m, v, Len(m)) = WholeFile(m, v)
         /\ \A n \in 0..Len(m) : BeforeSet(m, v, n) \in Seq(Field)
         /\ \A n \in 0..Len(m) : \A j \in 0..n : Begins(BeforeSet(m, v, j), BeforeSet(m, v, n))
<1>1. PICK r : r = Records(m, v)
  OBVIOUS
<1>2. /\ r \in Seq(Seq(Field)) /\ Len(r) = Len(m) /\ Len(m) \in Nat
      /\ \A n \in 0..Len(m) : Firsts(r, n) \in Seq(Field)
      /\ Firsts(r, 0) = << >> /\ Firsts(r, Len(m)) = FlattenSeq(r)
  <2>1. r \in Seq(Seq(Field)) /\ Len(r) = Len(m) /\ Len(m) \in Nat
    BY <1>1, RecordsAre
  <2> QED
    BY <2>1, FirstsSteps
<1>3. HeaderLines(m, v) \in Seq(Field)
  BY HeaderIs
<1>4. \A n : BeforeSet(m, v, n) = HeaderLines(m, v) \o Firsts(r, n)
  BY <1>1 DEF BeforeSet
<1>5. BeforeSet(m, v, 0) = HeaderLines(m, v)
  BY <1>2, <1>3, <1>4, ConcatEmptySeq
<1>6. BeforeSet(m, v, Len(m)) = WholeFile(m, v)
  BY <1>1, <1>2, <1>4 DEF WholeFile, Records
<1>7. \A n \in 0..Len(m) : BeforeSet(m, v, n) \in Seq(Field)
  BY <1>2, <1>3, <1>4, Joins
<1>8. ASSUME NEW n \in 0..Len(m), NEW j \in 0..n
      PROVE  Begins(BeforeSet(m, v, j), BeforeSet(m, v, n))
  <2>1. Begins(Firsts(r, j), Firsts(r, n))
    BY <1>2, FirstsBegin
  <2>2. j \in 0..Len(m)
    BY <1>2
  <2>3. Firsts(r, j) \in Seq(Field) /\ Firsts(r, n) \in Seq(Field)
    BY <1>2, <2>2
  <2> QED
    BY <1>3, <1>4, <2>1, <2>3, JoinsBegin
<1> QED
  BY <1>5, <1>6, <1>7, <1>8

(* A set, pattern by pattern                                               *)
LEMMA PatternsFollow ==
  ASSUME NEW m \in Seq(PatternSets), NEW v \in {1, 2}, NEW s \in 1..Len(m)
  PROVE  /\ Upto(m, v, s, 0) = BeforeSet(m, v, s - 1) \o SetLine(m[s], v)
         /\ Upto(m, v, s, Len(m[s].patterns)) = BeforeSet(m, v, s)
         /\ \A k \in 0..Len(m[s].patterns) : Upto(m, v, s, k) \in Seq(Field)
         /\ \A k \in 0..(Len(m[s].patterns) - 1) :
              Upto(m, v, s, k + 1) = Upto(m, v, s, k) \o PatternLine(m[s].patterns[k + 1])
         /\ \A k \in 0..Len(m[s].patterns) : \A j \in 0..k :
              Begins(Upto(m, v, s, j), Upto(m, v, s, k))
<1> DEFINE N == Len(m[s].patterns)
<1>1. PICK l : l = PatternLines(m[s])
  OBVIOUS
<1>2. /\ l \in Seq(Seq(Field)) /\ Len(l) = N /\ N \in Nat
      /\ SetLines(m[s], v) = SetLine(m[s], v) \o Firsts(l, N)
      /\ \A k \in 1..N : l[k] = PatternLine(m[s].patterns[k])
  BY <1>1, SetTypes
<1>3. PICK a \in Seq(Field) : a = SetLine(m[s], v)
  BY SetTypes, SetLineIs
<1>4. PICK b \in Seq(Field) : b = BeforeSet(m, v, s - 1)
  <2>1. s - 1 \in 0..Len(m)
    BY RecordsAre
  <2> QED
    BY <2>1, SetsFollow
<1> HIDE DEF N
<1>5. /\ Firsts(l, 0) = << >>
      /\ \A k \in 0..N : Firsts(l, k) \in Seq(Field)
      /\ \A k \in 0..(N - 1) : Firsts(l, k + 1) = Firsts(l, k) \o l[k + 1]
  BY <1>2, FirstsSteps
<1>6. PICK c : c = b \o a
  OBVIOUS
<1>7. c \in Seq(Field)
  BY <1>6, Joins
<1>8. \A k : Upto(m, v, s, k) = c \o Firsts(l, k)
  BY <1>1, <1>3, <1>4, <1>6 DEF Upto
<1>9. Upto(m, v, s, 0) = c
  BY <1>5, <1>7, <1>8, ConcatEmptySeq
<1>10. \A k \in 0..N : Upto(m, v, s, k) \in Seq(Field)
  BY <1>5, <1>7, <1>8, Joins
<1>11. ASSUME NEW k \in 0..(N - 1)
       PROVE  Upto(m, v, s, k + 1) = Upto(m, v, s, k) \o PatternLine(m[s].patterns[k + 1])
  <2>1. k \in 0..N /\ k + 1 \in 1..N
    BY <1>2
  <2>2. PICK f \in Seq(Field) : f = Firsts(l, k)
    BY <1>5, <2>1
  <2>3. PICK g \in Seq(Field) : g = l[k + 1]
    BY <1>2, <2>1, ElementOfSeq
  <2>4. (c \o f) \o g = c \o (f \o g)
    <3>1. c \in Seq(Field) /\ f \in Seq(Field) /\ g \in Seq(Field)
      BY <1>7, <2>2, <2>3
    <3> QED
      BY <3>1, FieldsRegroup, Zenon
  <2>5. g = PatternLine(m[s].patterns[k + 1])
    BY <1>2, <2>1, <2>3
  <2> QED
    BY <1>5, <1>8, <2>2, <2>3, <2>4, <2>5
<1>12. Upto(m, v, s, N) = BeforeSet(m, v, s)
  <2>1. PICK f \in Seq(Field) : f = Firsts(l, N)
    <3>1. N \in 0..N
      BY <1>2
    <3> QED
      BY <1>5, <3>1
  <2>2. PICK r : r = Records(m, v)
    OBVIOUS
  <2>3. /\ r \in Seq(Seq(Field)) /\ Len(r) = Len(m) /\ Len(m) \in Nat
        /\ r[s] = SetLines(m[s], v)
    BY <2>2, RecordsAre
  <2>4. /\ s - 1 \in 0..(Len(r) - 1) /\ s - 1 \in 0..Len(r) /\ (s - 1) + 1 = s
    BY <2>3
  <2>5. PICK h \in Seq(Field) : h = HeaderLines(m, v)
    BY HeaderIs
  <2>6. PICK g \in Seq(Field) : g = Firsts(r, s - 1)
    BY <2>3, <2>4, FirstsSteps
  <2>7. Firsts(r, s) = g \o r[s]
    BY <2>3, <2>4, <2>6, FirstsSteps
  <2>8. BeforeSet(m, v, s) = h \o (g \o (a \o f)) /\ b = h \o g
    BY <1>2, <1>3, <1>4, <2>1, <2>2, <2>3, <2>5, <2>6, <2>7 DEF BeforeSet
  <2>9. (b \o a) \o f = h \o (g \o (a \o f))
    <3>1. a \o f \in Seq(Field)
      BY ConcatProperties
    <3>2. (b \o a) \o f = b \o (a \o f)
      BY FieldsRegroup, Zenon
    <3>3. (h \o g) \o (a \o f) = h \o (g \o (a \o f))
      BY <3>1, FieldsRegroup, Zenon
    <3> QED
      BY <2>8, <3>2, <3>3
  <2> QED
    BY <1>6, <1>8, <2>1, <2>8, <2>9
<1>13. ASSUME NEW k \in 0..N, NEW j \in 0..k
       PROVE  Begins(Upto(m, v, s, j), Upto(m, v, s, k))
  <2>1. j \in 0..N
    BY <1>2
  <2>2. Begins(Firsts(l, j), Firsts(l, k))
    BY <1>2, FirstsBegin
  <2>3. Firsts(l, j) \in Seq(Field) /\ Firsts(l, k) \in Seq(Field)
    BY <1>5, <2>1
  <2> QED
    BY <1>7, <1>8, <2>2, <2>3, JoinsBegin
<1> QED
  BY <1>3, <1>4, <1>6, <1>9, <1>10, <1>11, <1>12, <1>13 DEF N

-----------------------------------------------------------------------------
(* Where a reader is                                                       *)

LEMMA BeginsThrough ==
  ASSUME NEW S, NEW s \in Seq(S), NEW t \in Seq(S), NEW u, IsSequence(u), Begins(s, t), Begins(t, u)
  PROVE  Begins(s, u)
<1>1. PICK F : u \in Seq(F)
  BY DEF IsSequence
<1>2. Len(s) \in Nat /\ Len(t) \in Nat /\ Len(u) \in Nat
  BY <1>1, LenProperties
<1> QED
  BY <1>2 DEF Begins

LEMMA BeginsItself ==
  ASSUME NEW S, NEW s \in Seq(S)
  PROVE  Begins(s, s)
BY LenProperties DEF Begins

LEMMA EarlierReached ==
  ASSUME NEW m \in Seq(PatternSets), NEW v \in {1, 2}, NEW u, IsSequence(u),
         NEW s \in 1..Len(m), NEW k \in 0..Len(m[s].patterns), Begins(Upto(m, v, s, k), u)
  PROVE  /\ \A j \in 0..k : Begins(Upto(m, v, s, j), u)
         /\ \A n \in 0..(s - 1) : Begins(BeforeSet(m, v, n), u)
         /\ Begins(HeaderLines(m, v), u)
<1>1. Len(m[s].patterns) \in Nat /\ Len(m) \in Nat
  BY SetTypes, LenProperties
<1>2. \A j \in 0..Len(m[s].patterns) : Upto(m, v, s, j) \in Seq(Field)
  BY PatternsFollow
<1>3. ASSUME NEW j \in 0..k PROVE Begins(Upto(m, v, s, j), u)
  <2>1. Begins(Upto(m, v, s, j), Upto(m, v, s, k))
    BY PatternsFollow
  <2>2. j \in 0..Len(m[s].patterns)
    BY <1>1
  <2> QED
    BY <1>2, <2>1, <2>2, BeginsThrough
<1>4. 0 \in 0..k /\ 0 \in 0..Len(m[s].patterns) /\ s - 1 \in 0..Len(m)
  BY <1>1
<1>5. PICK b \in Seq(Field) : b = BeforeSet(m, v, s - 1)
  BY <1>4, SetsFollow
<1>6. Begins(b, u)
  <2>1. PICK a \in Seq(Field) : a = SetLine(m[s], v)
    BY SetTypes, SetLineIs
  <2>2. PICK c : c = b \o a
    OBVIOUS
  <2>3. c \in Seq(Field) /\ Begins(b, c)
    BY <2>2, Joins
  <2>4. c = Upto(m, v, s, 0)
    BY <1>5, <2>1, <2>2, PatternsFollow
  <2>5. Begins(c, u)
    BY <1>3, <1>4, <2>4
  <2> QED
    BY <2>3, <2>5, BeginsThrough
<1>7. ASSUME NEW n \in 0..(s - 1) PROVE Begins(BeforeSet(m, v, n), u)
  <2>1. Begins(BeforeSet(m, v, n), b)
    BY <1>4, <1>5, SetsFollow
  <2>2. BeforeSet(m, v, n) \in Seq(Field)
    <3>1. n \in 0..Len(m)
      BY <1>1
    <3> QED
      BY <3>1, SetsFollow
  <2> QED
    BY <1>6, <2>1, <2>2, BeginsThrough
<1>8. Begins(HeaderLines(m, v), u)
  <2>1. 0 \in 0..(s - 1)
    BY <1>1
  <2> QED
    BY <1>7, <2>1, SetsFollow
<1> QED
  BY <1>3, <1>7, <1>8

(* A whole set is there with every line of it.                             *)
LEMMA WholeSetReached ==
  ASSUME NEW m \in Seq(PatternSets), NEW v \in {1, 2}, NEW u, IsSequence(u),
         NEW s \in 1..Len(m), Begins(BeforeSet(m, v, s), u)
  PROVE  \A k \in 0..Len(m[s].patterns) : Begins(Upto(m, v, s, k), u)
<1>1. Len(m[s].patterns) \in Nat
  BY SetTypes
<1>2. Len(m[s].patterns) \in 0..Len(m[s].patterns)
  BY <1>1
<1>3. Begins(Upto(m, v, s, Len(m[s].patterns)), u)
  BY PatternsFollow
<1> QED
  BY <1>2, <1>3, EarlierReached

(* What is whole in the whole file.                                        *)
LEMMA WholeFileReached ==
  ASSUME NEW m \in Seq(PatternSets), NEW v \in {1, 2}
  PROVE  /\ WholeFile(m, v) \in Seq(Field) /\ WholeFile(m, v) # << >>
         /\ \A n \in 0..Len(m) : Begins(BeforeSet(m, v, n), WholeFile(m, v))
         /\ Begins(HeaderLines(m, v), WholeFile(m, v))
<1>1. Len(m) \in Nat /\ 0 \in 0..Len(m) /\ Len(m) \in 0..Len(m)
  BY LenProperties
<1>2. WholeFile(m, v) \in Seq(Field)
  BY <1>1, SetsFollow
<1>3. \A n \in 0..Len(m) : Begins(BeforeSet(m, v, n), WholeFile(m, v))
  BY <1>1, SetsFollow
<1>4. Begins(HeaderLines(m, v), WholeFile(m, v))
  BY <1>1, <1>3, SetsFollow
<1>5. Len(HeaderLines(m, v)) = 9
  BY HeaderIs
<1>6. WholeFile(m, v) # << >>
  <2>1. Len(WholeFile(m, v)) >= 9
    BY <1>4, <1>5 DEF Begins
  <2> QED
    BY <1>2, <2>1, EmptySeq
<1> QED
  BY <1>2, <1>3, <1>4, <1>6

(* getline reads up to the first line end,                                 *)
LEMMA ReadsLine ==
  ASSUME IsSequence(input), NEW n \in Nat, position = n, NEW e \in Nat \ {0},
         n + e <= Len(input), input[n + e].kind = "newline",
         \A i \in 1..(e - 1) : input[n + i].kind # "newline"
  PROVE  /\ Len(RestOfLine) = e - 1 /\ \A i \in 1..(e - 1) : RestOfLine[i] = input[n + i]
         /\ IsSequence(RestOfLine)
<1>1. PICK F : input \in Seq(F)
  BY DEF IsSequence
<1>2. Len(input) \in Nat
  BY <1>1, LenProperties
<1> DEFINE ends == {j \in (position + 1)..Len(input) : input[j].kind = "newline"}
<1>3. n + e \in ends
  BY <1>2
<1>4. \A j \in ends : n + e <= j
  <2> TAKE j \in ends
  <2>1. j \in Int /\ j >= n + 1 /\ input[j].kind = "newline"
    BY <1>2
  <2>2. ~(j < n + e)
    <3>1. ASSUME j < n + e PROVE FALSE
      <4>1. j - n \in 1..(e - 1) /\ n + (j - n) = j
        BY <2>1, <3>1
      <4> QED
        BY <2>1, <4>1
    <3> QED
      BY <3>1
  <2> QED
    BY <2>1, <2>2
<1>5. \A j \in ends : (\A i \in ends : j <= i) => j = n + e
  <2> TAKE j \in ends
  <2> HAVE \A i \in ends : j <= i
  <2>1. j <= n + e /\ n + e <= j /\ j \in Int
    <3>1. j \in Int
      BY <1>2
    <3> HIDE DEF ends
    <3> QED
      BY <1>3, <1>4, <3>1
  <2> QED
    BY <2>1
<1>6. (CHOOSE j \in ends : \A i \in ends : j <= i) = n + e
  <2> HIDE DEF ends
  <2> QED
    BY <1>3, <1>4, <1>5
<1>7. ends # {}
  BY <1>3
<1>8. RestOfLine = SubSeq(input, n + 1, n + e - 1)
  <2>1. RestOfLine = SubSeq(input, position + 1,
                            IF ends = {} THEN Len(input)
                            ELSE (CHOOSE j \in ends : \A i \in ends : j <= i) - 1)
    BY DEF RestOfLine
  <2> DEFINE first == CHOOSE j \in ends : \A i \in ends : j <= i
  <2>2. first = n + e
    BY <1>6
  <2>3. RestOfLine = SubSeq(input, position + 1, IF ends = {} THEN Len(input) ELSE first - 1)
    BY <2>1
  <2> HIDE DEF ends, first
  <2> QED
    BY <1>7, <2>2, <2>3
<1>9. \A i \in (n + 1)..(n + e - 1) : input[i] \in F
  <2>1. \A i \in (n + 1)..(n + e - 1) : i \in 1..Len(input)
    BY <1>2
  <2> QED
    BY <1>1, <2>1, ElementOfSeq
<1>10. /\ SubSeq(input, n + 1, n + e - 1) \in Seq(F)
       /\ Len(SubSeq(input, n + 1, n + e - 1)) =
            IF n + 1 <= n + e - 1 THEN (n + e - 1) - (n + 1) + 1 ELSE 0
       /\ \A i \in 1..((n + e - 1) - (n + 1) + 1) :
            SubSeq(input, n + 1, n + e - 1)[i] = input[(n + 1) + i - 1]
  BY <1>9, SubSeqProperties
<1>11. PICK r \in Seq(F) : r = RestOfLine
  BY <1>8, <1>10
<1>12. Len(r) = e - 1
  BY <1>8, <1>10, <1>11
<1>13. ASSUME NEW i \in 1..(e - 1) PROVE r[i] = input[n + i]
  <2>1. i \in 1..((n + e - 1) - (n + 1) + 1) /\ (n + 1) + i - 1 = n + i
    OBVIOUS
  <2> QED
    BY <1>8, <1>10, <1>11, <2>1
<1> QED
  BY <1>11, <1>12, <1>13 DEF IsSequence

(* and at the end of the file nothing.                                     *)
LEMMA ReadsNothing ==
  ASSUME IsSequence(input), position = Len(input)
  PROVE  RestOfLine = << >>
<1>1. PICK F : input \in Seq(F)
  BY DEF IsSequence
<1>2. PICK n \in Nat : n = Len(input)
  BY <1>1, LenProperties
<1>3. {j \in (position + 1)..Len(input) : input[j].kind = "newline"} = {}
  BY <1>2
<1>4. RestOfLine = SubSeq(input, n + 1, n)
  BY <1>2, <1>3 DEF RestOfLine
<1> QED
  BY <1>4, SubSeqEmpty

-----------------------------------------------------------------------------
(* The writer                                                              *)

LEMMA BufferMoves ==
  ASSUME NEW F, NEW a \in Seq(F), NEW b \in Seq(F), b # << >>
  PROVE  /\ Append(a, Head(b)) \in Seq(F) /\ Tail(b) \in Seq(F)
         /\ Append(a, Head(b)) \o Tail(b) = a \o b
<1>1. /\ Head(b) \in F /\ Tail(b) \in Seq(F) /\ Head(b) = b[1]
      /\ Len(Tail(b)) = Len(b) - 1 /\ \A i \in 1..Len(Tail(b)) : Tail(b)[i] = b[i + 1]
  BY HeadTailProperties
<1>2. Len(a) \in Nat /\ Len(b) \in Nat \ {0}
  BY EmptySeq, LenProperties
<1>3. PICK x : x = Append(a, Head(b))
  OBVIOUS
<1>4. PICK t \in Seq(F) : t = Tail(b)
  BY <1>1
<1>5. /\ x \in Seq(F) /\ Len(x) = Len(a) + 1 /\ \A i \in 1..Len(a) : x[i] = a[i]
      /\ x[Len(a) + 1] = b[1]
  BY <1>1, <1>3, AppendProperties
<1>6. PICK y : y = x \o t
  OBVIOUS
<1>7. PICK z : z = a \o b
  OBVIOUS
<1>8. /\ y \in Seq(F) /\ Len(y) = Len(x) + Len(t)
      /\ \A i \in 1..Len(x) : y[i] = x[i]
      /\ \A j \in 1..Len(t) : y[Len(x) + j] = t[j]
  <2>1. x \in Seq(F) /\ t \in Seq(F)
    BY <1>4, <1>5
  <2> QED
    BY <1>6, <2>1, Joins
<1>9. /\ z \in Seq(F) /\ Len(z) = Len(a) + Len(b)
      /\ \A i \in 1..Len(a) : z[i] = a[i]
      /\ \A j \in 1..Len(b) : z[Len(a) + j] = b[j]
  BY <1>7, Joins
<1>10. Len(y) = Len(z) /\ Len(t) = Len(b) - 1 /\ Len(z) \in Nat
  BY <1>1, <1>2, <1>4, <1>5, <1>8, <1>9
<1>11. ASSUME NEW i \in 1..Len(y) PROVE y[i] = z[i]
  <2>1. CASE i <= Len(a)
    <3>1. i \in 1..Len(a) /\ i \in 1..Len(x)
      BY <1>2, <1>5, <2>1
    <3>2. y[i] = x[i] /\ x[i] = a[i]
      BY <1>5, <1>8, <3>1
    <3>3. z[i] = a[i]
      BY <1>9, <3>1
    <3> QED
      BY <3>2, <3>3
  <2>2. CASE i = Len(a) + 1
    <3>1. i \in 1..Len(x) /\ 1 \in 1..Len(b)
      BY <1>2, <1>5, <2>2
    <3>2. y[i] = x[i] /\ x[i] = b[1]
      BY <1>5, <1>8, <2>2, <3>1
    <3>3. z[i] = b[1]
      <4>1. z[Len(a) + 1] = b[1]
        BY <1>9, <3>1
      <4> QED
        BY <2>2, <4>1
    <3> QED
      BY <3>2, <3>3
  <2>3. CASE i > Len(a) + 1
    <3>1. PICK j \in 1..Len(t) : i = Len(a) + 1 + j
      <4>1. i - (Len(a) + 1) \in 1..Len(t) /\ i = Len(a) + 1 + (i - (Len(a) + 1))
        BY <1>2, <1>9, <1>10, <2>3
      <4> QED
        BY <4>1
    <3>2. j + 1 \in 1..Len(b) /\ i = Len(x) + j /\ i = Len(a) + (j + 1)
      BY <1>2, <1>5, <1>10, <3>1
    <3>3. y[i] = t[j] /\ t[j] = b[j + 1]
      BY <1>1, <1>4, <1>8, <3>1, <3>2
    <3>4. z[i] = b[j + 1]
      <4>1. z[Len(a) + (j + 1)] = b[j + 1]
        BY <1>9, <3>2
      <4> QED
        BY <3>2, <4>1
    <3> QED
      BY <3>3, <3>4
  <2> QED
    BY <1>2, <1>10, <2>1, <2>2, <2>3
<1>12. y = z
  BY <1>8, <1>9, <1>10, <1>11, SeqEqual
<1> QED
  BY <1>1, <1>3, <1>4, <1>5, <1>6, <1>7, <1>12

LEMMA FoundIsSequence ==
  ASSUME IsSequence(file), NEW found \in Found
  PROVE  IsSequence(found)
<1>1. PICK F : file \in Seq(F)
  BY DEF IsSequence
<1>2. CASE found = file
  BY <1>2
<1>3. CASE found # file
  <2>1. PICK c : found = Append(file, c)
    BY <1>3 DEF Found
  <2>2. file \in Seq(F \cup {c}) /\ c \in F \cup {c}
    BY <1>1
  <2>3. Append(file, c) \in Seq(F \cup {c})
    BY <2>2, AppendProperties
  <2> QED
    BY <2>1, <2>3 DEF IsSequence
<1> QED
  BY <1>2, <1>3

LEMMA WriterInvInit == FileInit => WriterInv
<1> SUFFICES ASSUME FileInit PROVE WriterInv
  OBVIOUS
<1>1. saved \in Seq(PatternSets) /\ version \in {1, 2}
  BY ModelsAssumption DEF FileInit
<1>2. ASSUME version = 1, NEW s \in 1..Len(saved)
      PROVE  saved[s].tag_bits = 0 /\ saved[s].tag_value = 0
  <2>1. saved[s].tag_bits = 0 /\ ValidSet(saved[s])
    BY <1>2 DEF FileInit, ValidModel
  <2>2. PICK x \in PatternSets : x = saved[s]
    BY <1>1
  <2>3. Fits(x.tag_value, 0)
    BY <2>1, <2>2 DEF ValidSet, ValidLayout
  <2>4. x.tag_value \in Nat
    BY SizesAreNatural DEF PatternSets
  <2>5. x.tag_value < 1
    BY <2>3, BitsAssumption, ZerothPower DEF Fits
  <2> QED
    BY <2>1, <2>2, <2>4, <2>5
<1>3. buffer = << >> /\ << >> \in Seq(Field)
  BY EmptySeq, Zenon DEF FileInit
<1>4. CASE version = 1
  <2>1. writer = "exited" /\ file = WholeFile(saved, version) /\ ValidModel(saved)
    BY <1>4 DEF FileInit
  <2>2. IsSequence(file)
    BY <1>1, <2>1, WholeFileReached DEF IsSequence
  <2> QED
    BY <1>1, <1>2, <1>3, <1>4, <2>1, <2>2 DEF WriterInv
<1>5. CASE version = 2
  <2>1. writer = "idle" /\ file = << >>
    <3>1. version # 1
      BY <1>5
    <3> QED
      BY <3>1, Zenon DEF FileInit
  <2>2. IsSequence(file)
    BY <1>3, <2>1 DEF IsSequence
  <2> QED
    BY <1>1, <1>3, <1>5, <2>1, <2>2 DEF WriterInv
<1> QED
  BY <1>1, <1>4, <1>5

LEMMA WriterInvStep == WriterInv /\ [FileNext]_fileVars => WriterInv'
<1> SUFFICES ASSUME WriterInv, [FileNext]_fileVars PROVE WriterInv'
  OBVIOUS
<1>1. CASE Save
  <2>1. saved' = saved /\ version' = version /\ writer = "idle" /\ version = 2
    BY <1>1 DEF Save, WriterInv
  <2>2. CASE ValidModel(saved)
    <3>1. /\ writer' = "saving" /\ buffer' = WholeFile(saved, version) /\ file' = << >>
      BY <1>1, <2>1, <2>2 DEF Save
    <3>2. buffer' \in Seq(Field) /\ file' \in Seq(Field) /\ file' \o buffer' = buffer'
      <4>1. buffer' \in Seq(Field)
        BY <2>1, <3>1, WholeFileReached DEF WriterInv
      <4> QED
        BY <3>1, <4>1, ConcatEmptySeq, EmptySeq
    <3>3. IsSequence(file')
      BY <3>2 DEF IsSequence
    <3> QED
      BY <2>1, <2>2, <3>1, <3>2, <3>3 DEF WriterInv
  <2>3. CASE ~ValidModel(saved)
    <3>1. writer' = "refused" /\ file' = file /\ buffer' = buffer
      BY <1>1, <2>3 DEF Save
    <3> QED
      BY <2>1, <3>1 DEF WriterInv
  <2> QED
    BY <2>2, <2>3
<1>2. CASE Flush
  <2>1. /\ saved' = saved /\ version' = version /\ writer' = writer /\ writer = "saving" /\ version = 2
        /\ buffer # << >> /\ file' = Append(file, Head(buffer)) /\ buffer' = Tail(buffer)
        /\ file \o buffer = WholeFile(saved, version) /\ ValidModel(saved)
    BY <1>2 DEF Flush, WriterInv
  <2>2. PICK F : file \in Seq(F)
    BY DEF WriterInv, IsSequence
  <2>3. PICK G : file \in Seq(G) /\ buffer \in Seq(G)
    <3>1. file \in Seq(F \cup Field) /\ buffer \in Seq(F \cup Field)
      BY <2>2 DEF WriterInv
    <3> QED
      BY <3>1
  <2>4. file' \in Seq(G) /\ file' \o buffer' = file \o buffer
    BY <2>1, <2>3, BufferMoves
  <2>5. buffer' \in Seq(Field)
    BY <2>1, HeadTailProperties DEF WriterInv
  <2>6. IsSequence(file')
    BY <2>4 DEF IsSequence
  <2> QED
    BY <2>1, <2>4, <2>5, <2>6 DEF WriterInv
<1>3. CASE Exit
  <2>1. /\ saved' = saved /\ version' = version /\ writer = "saving" /\ writer' = "exited"
        /\ buffer = << >> /\ buffer' = buffer /\ file' = file
    BY <1>3 DEF Exit
  <2>2. PICK F : file \in Seq(F)
    BY DEF WriterInv, IsSequence
  <2>3. file \o << >> = file
    BY <2>2, ConcatEmptySeq
  <2> QED
    BY <2>1, <2>3 DEF WriterInv
<1>4. CASE Kill
  <2>1. /\ saved' = saved /\ version' = version /\ writer = "saving" /\ writer' = "killed"
        /\ file' \in Found /\ buffer' = << >>
    BY <1>4 DEF Kill
  <2>2. IsSequence(file')
    BY <2>1, FoundIsSequence DEF WriterInv
  <2>3. buffer' \in Seq(Field)
    BY <2>1
  <2> QED
    BY <2>1, <2>2, <2>3 DEF WriterInv
<1>5. CASE UNCHANGED writerVars
  BY <1>5 DEF writerVars, WriterInv
<1>6. CASE Loader
  <2>1. UNCHANGED writerVars
    BY <1>6 DEF Loader, Load, ReadSetLine, ReadPattern, EndSet, EndLoad
  <2> QED
    BY <1>5, <2>1
<1>7. CASE UNCHANGED fileVars
  BY <1>5, <1>7 DEF fileVars
<1> QED
  BY <1>1, <1>2, <1>3, <1>4, <1>6, <1>7 DEF FileNext, Writer

-----------------------------------------------------------------------------
(* The loader                                                              *)

LEMMA LoaderInvInit == FileInit => LoaderInv
<1> SUFFICES ASSUME FileInit PROVE LoaderInv
  OBVIOUS
<1>1. loader = "idle" /\ input = << >> /\ sets = << >>
  BY DEF FileInit
<1>2. IsSequence(<< >>)
  <2>1. << >> \in Seq({})
    BY EmptySeq
  <2> QED
    BY <2>1 DEF IsSequence
<1>3. LoaderTypes
  BY <1>1, <1>2 DEF LoaderTypes
<1>4. SetsRead
  <2>1. Len(sets) = 0
    BY <1>1, EmptySeq
  <2>2. 1..0 = {}
    OBVIOUS
  <2> QED
    BY <2>1, <2>2 DEF SetsRead
<1> QED
  BY <1>1, <1>3, <1>4 DEF LoaderInv, CountRead, BetweenSets, BetweenPatterns, NotPast, StopsAt,
                          WholeIsAccepted

(* Steps of the writer leave the loader alone.                             *)
LEMMA LoaderUnchanged ==
  ASSUME LoaderInv, saved' = saved, version' = version, UNCHANGED loaderVars
  PROVE  LoaderInv'
<1>1. /\ loader' = loader /\ input' = input /\ position' = position /\ good' = good
      /\ set_count' = set_count /\ set' = set /\ missing' = missing /\ sets' = sets
  BY DEF loaderVars, streamVars
<1>2. \A s, k : Reached(s, k)' <=> Reached(s, k)
  BY <1>1 DEF Reached
<1>3. \A s, x : SetRead(s, x)' <=> SetRead(s, x)
  BY <1>2 DEF SetRead
<1>4. LoaderTypes' /\ CountRead' /\ BetweenSets' /\ WholeIsAccepted'
  BY <1>1 DEF LoaderInv, LoaderTypes, CountRead, BetweenSets, WholeIsAccepted
<1>5. SetsRead'
  BY <1>1, <1>2, <1>3 DEF LoaderInv, SetsRead
<1>6. BetweenPatterns'
  BY <1>1, <1>2, <1>3 DEF LoaderInv, BetweenPatterns
<1>7. NotPast'
  BY <1>1 DEF LoaderInv, NotPast, StopsAt
<1> QED
  BY <1>1, <1>4, <1>5, <1>6, <1>7 DEF LoaderInv

LEMMA LoadKeeps ==
  ASSUME WriterInv, LoaderInv, Load
  PROVE  LoaderInv'
<1>1. saved' = saved /\ version' = version /\ loader = "idle" /\ sets' = sets /\ set' = set
  BY DEF Load, writerVars
<1>2. PICK found \in Found : /\ input' = found
                             /\ IF HeaderGood(found)
                                  THEN /\ loader' = "sets" /\ position' = 9 /\ good' = (Len(found) >= 9)
                                       /\ set_count' = found[8].value
                                  ELSE loader' = "rejected"
  BY DEF Load
<1>3. IsSequence(found)
  BY FoundIsSequence DEF WriterInv
<1>4. found # << >> => ValidModel(saved)
  <2>1. CASE writer \in {"idle", "refused"}
    BY <2>1 DEF Found, WriterInv
  <2>2. CASE writer \notin {"idle", "refused"}
    BY <2>2 DEF WriterInv
  <2> QED
    BY <2>1, <2>2
<1>5. sets = << >> /\ Len(sets) = 0 /\ 1..0 = {}
  BY <1>1, EmptySeq DEF LoaderInv, LoaderTypes
<1>6. saved \in Seq(PatternSets) /\ version \in {1, 2} /\ Len(saved) \in Nat
  BY LenProperties DEF WriterInv
<1>7. PICK h \in Seq(Field) : h = HeaderLines(saved, version)
  BY <1>6, HeaderIs
<1>8. /\ Len(h) = 9 /\ h[1].kind = "BSEL_MODEL" /\ h[2].value = version
      /\ h[4].kind = "block_size" /\ h[7].kind = "sets" /\ h[8].value = Len(saved)
  BY <1>6, <1>7, HeaderIs
<1>9. ASSUME Begins(h, found)
      PROVE  HeaderGood(found) /\ found[8].value = Len(saved) /\ Len(found) >= 9
  <2>1. Len(found) \in Nat
    BY <1>3, LenProperties DEF IsSequence
  <2>2. Len(found) >= 9 /\ \A i \in 1..9 : found[i] = h[i]
    BY <1>8, <1>9, <2>1 DEF Begins
  <2>3. found[1] = h[1] /\ found[2] = h[2] /\ found[4] = h[4] /\ found[7] = h[7] /\ found[8] = h[8]
    BY <2>2
  <2> QED
    BY <1>6, <1>8, <2>1, <2>2, <2>3 DEF HeaderGood
<1>10. loader' \in {"sets", "rejected"} /\ Len(sets') = 0
  BY <1>1, <1>2, <1>5
<1>11. LoaderTypes'
  <2>1. IsSequence(sets')
    BY <1>1 DEF LoaderInv, LoaderTypes
  <2>2. IsSequence(input') /\ (input' # << >> => ValidModel(saved'))
    BY <1>1, <1>2, <1>3, <1>4
  <2> QED
    BY <1>10, <2>1, <2>2 DEF LoaderTypes
<1>12. CountRead'
  BY <1>1, <1>2, <1>7, <1>9, <1>10 DEF CountRead
<1>13. SetsRead'
  BY <1>5, <1>10 DEF SetsRead
<1>14. BetweenSets'
  <2>1. BeforeSet(saved, version, 0) = h
    BY <1>6, <1>7, SetsFollow
  <2>2. loader' = "sets" /\ Begins(h, found) => position' = 9 /\ good'
    BY <1>2, <1>9
  <2> QED
    BY <1>1, <1>2, <1>8, <1>10, <2>1, <2>2 DEF BetweenSets
<1>15. BetweenPatterns'
  BY <1>10 DEF BetweenPatterns
<1>16. NotPast'
  <2>1. \A s \in 1..Len(saved) : Len(sets') < s
    BY <1>6, <1>10
  <2> QED
    BY <1>1, <1>10, <2>1 DEF NotPast, StopsAt
<1>17. WholeIsAccepted'
  <2>1. Begins(h, WholeFile(saved, version))
    BY <1>6, <1>7, WholeFileReached
  <2> QED
    BY <1>1, <1>2, <1>9, <2>1 DEF WholeIsAccepted
<1> QED
  BY <1>10, <1>11, <1>12, <1>13, <1>14, <1>15, <1>16, <1>17 DEF LoaderInv

(* What a reader of a whole file knows in front of set s.                  *)
LEMMA SetLineRead ==
  ASSUME WriterInv, LoaderInv, loader = "sets", NEW s, s = Len(sets) + 1, s <= Len(saved),
         Reached(s, 0), ReadSetLine
  PROVE  /\ loader' = "patterns"
         /\ set' = [saved[s] EXCEPT !.patterns = << >>]
         /\ missing' = Len(saved[s].patterns)
         /\ position' = Len(Upto(saved, version, s, 0)) /\ good'
<1>1. saved \in Seq(PatternSets) /\ version \in {1, 2}
  BY DEF WriterInv
<1>2. IsSequence(input) /\ IsSequence(sets)
  BY DEF LoaderInv, LoaderTypes
<1>3. Len(sets) \in Nat /\ Len(saved) \in Nat /\ Len(input) \in Nat
  BY <1>1, <1>2, LenProperties DEF IsSequence
<1>4. s \in 1..Len(saved) /\ s - 1 = Len(sets) /\ Len(sets) \in 0..Len(saved) /\ s - 1 \in 0..(s - 1)
  BY <1>3
<1>5. PICK x \in PatternSets : x = saved[s]
  BY <1>1, <1>4, ElementOfSeq
<1>6. Len(x.patterns) \in Nat /\ 0 \in 0..Len(x.patterns)
  BY <1>1, <1>4, <1>5, SetTypes
<1>7. PICK b \in Seq(Field) : b = BeforeSet(saved, version, s - 1)
  BY <1>1, <1>4, SetsFollow
<1>8. PICK l \in Seq(Field) : l = SetLine(x, version)
  BY <1>1, <1>5, SetLineIs
<1>9. PICK c : c = b \o l
  OBVIOUS
<1>10. c = Upto(saved, version, s, 0)
  BY <1>1, <1>4, <1>5, <1>7, <1>8, <1>9, PatternsFollow
<1>11. Begins(c, input) /\ Begins(b, input) /\ Begins(HeaderLines(saved, version), input)
  BY <1>1, <1>2, <1>4, <1>5, <1>6, <1>7, <1>10, EarlierReached DEF Reached
<1>12. position = Len(b) /\ good
  BY <1>4, <1>3, <1>7, <1>11 DEF LoaderInv, BetweenSets
<1>13. /\ Len(c) = Len(b) + Len(l) /\ Len(b) \in Nat /\ Len(l) \in Nat
       /\ Len(b) + Len(l) <= Len(input)
       /\ \A i \in 1..Len(l) : input[Len(b) + i] = l[i]
  <2>1. Begins(c, input)
    BY <1>11
  <2>2. /\ Len(c) = Len(b) + Len(l) /\ Len(b) \in Nat /\ Len(l) \in Nat
        /\ \A i \in 1..Len(l) : c[Len(b) + i] = l[i]
    BY <1>9, Joins
  <2>3. \A i \in 1..Len(l) : Len(b) + i \in 1..Len(c)
    BY <2>2
  <2> QED
    BY <2>1, <2>2, <2>3 DEF Begins
<1>14. /\ Len(l) = CountField(version) + 1 /\ CountField(version) \in {4, 6}
       /\ l[1].kind = "set" /\ l[2].value = x.target_size /\ l[3].value = x.metadata_bytes
       /\ version = 2 => l[4].value = x.tag_bits /\ l[5].value = x.tag_value
       /\ l[CountField(version)].value = Len(x.patterns)
  BY <1>1, <1>5, <1>8, SetLineIs DEF CountField
<1>15. SetFields = CountField(version) /\ (SetFields = 6 <=> version = 2)
  <2>1. input[2].value = version
    <3>1. Len(HeaderLines(saved, version)) = 9 /\ HeaderLines(saved, version)[2].value = version
      BY <1>1, HeaderIs
    <3>2. 2 \in 1..9
      OBVIOUS
    <3> QED
      BY <1>11, <3>1, <3>2 DEF Begins
  <2> QED
    BY <2>1 DEF SetFields, CountField
<1>16. ASSUME NEW n \in 1..Len(l), NEW d
       PROVE  Extracted(n, d) = l[n].value
  <2>1. position + n <= Len(input) /\ input[position + n] = l[n]
    BY <1>3, <1>12, <1>13
  <2> QED
    BY <1>12, <2>1 DEF Extracted
<1>17. TokenRead = "set"
  <2>1. 1 \in 1..Len(l)
    BY <1>13, <1>14
  <2>2. position + 1 <= Len(input) /\ input[position + 1] = l[1]
    BY <1>3, <1>12, <1>13, <2>1
  <2> QED
    BY <1>12, <1>14, <2>2 DEF TokenRead
<1>18. /\ loader' = "patterns"
       /\ set' = PatternSet(Extracted(2, DefaultTarget), Extracted(3, 1),
                            IF SetFields = 6 THEN Extracted(4, 0) ELSE 0,
                            IF SetFields = 6 THEN Extracted(5, 0) ELSE 0, << >>)
       /\ missing' = Extracted(SetFields, 0)
       /\ good' = (good /\ position + SetFields < Len(input))
       /\ position' = IF good' THEN position + SetFields + 1 ELSE Len(input)
  BY <1>17 DEF ReadSetLine
<1>19. 2 \in 1..Len(l) /\ 3 \in 1..Len(l) /\ CountField(version) \in 1..Len(l)
  BY <1>13, <1>14
<1>20. version = 2 => 4 \in 1..Len(l) /\ 5 \in 1..Len(l)
  BY <1>13, <1>14 DEF CountField
<1>21. missing' = Len(x.patterns)
  BY <1>14, <1>15, <1>16, <1>18, <1>19
<1>22. good' /\ position' = Len(c)
  <2>1. good'
    <3>1. position + SetFields < Len(input)
      BY <1>3, <1>12, <1>13, <1>14, <1>15
    <3> QED
      BY <1>12, <1>18, <3>1, Zenon
  <2> QED
    BY <1>12, <1>13, <1>14, <1>15, <1>18, <2>1
<1>23. /\ Extracted(2, DefaultTarget) = x.target_size /\ Extracted(3, 1) = x.metadata_bytes
       /\ (IF SetFields = 6 THEN Extracted(4, 0) ELSE 0) = x.tag_bits
       /\ (IF SetFields = 6 THEN Extracted(5, 0) ELSE 0) = x.tag_value
  <2>1. Extracted(2, DefaultTarget) = x.target_size /\ Extracted(3, 1) = x.metadata_bytes
    BY <1>14, <1>16, <1>19
  <2>2. CASE version = 2
    <3>1. Extracted(4, 0) = x.tag_bits /\ Extracted(5, 0) = x.tag_value
      BY <1>14, <1>16, <1>20, <2>2
    <3> QED
      BY <1>15, <2>1, <2>2, <3>1
  <2>3. CASE version = 1
    <3>1. x.tag_bits = 0 /\ x.tag_value = 0
      BY <1>4, <1>5, <2>3 DEF WriterInv
    <3>2. SetFields # 6
      BY <1>15, <2>3
    <3> QED
      BY <2>1, <3>1, <3>2
  <2> QED
    BY <1>1, <2>2, <2>3
<1>24. set' = [x EXCEPT !.patterns = << >>]
  <2>1. set' = [target_size |-> x.target_size, metadata_bytes |-> x.metadata_bytes,
                tag_bits |-> x.tag_bits, tag_value |-> x.tag_value, patterns |-> << >>]
    BY <1>18, <1>23 DEF PatternSet
  <2> QED
    BY <2>1 DEF PatternSets
<1> QED
  BY <1>5, <1>10, <1>18, <1>21, <1>22, <1>24

LEMMA ReadSetLineKeeps ==
  ASSUME WriterInv, LoaderInv, ReadSetLine
  PROVE  LoaderInv'
<1>1. /\ saved' = saved /\ version' = version /\ input' = input /\ sets' = sets
      /\ set_count' = set_count /\ loader = "sets" /\ Len(sets) < set_count
      /\ loader' \in {"patterns", "rejected"}
  BY DEF ReadSetLine, writerVars
<1>2. saved \in Seq(PatternSets) /\ version \in {1, 2} /\ Len(saved) \in Nat
  BY LenProperties DEF WriterInv
<1>3. IsSequence(input) /\ IsSequence(sets) /\ Len(sets) \in Nat
  BY LenProperties DEF LoaderInv, LoaderTypes, IsSequence
<1>4. \A s, k : Reached(s, k)' <=> Reached(s, k)
  BY <1>1 DEF Reached
<1>5. \A s, x : SetRead(s, x)' <=> SetRead(s, x)
  BY <1>1, <1>4 DEF SetRead
<1>6. LoaderTypes' /\ CountRead'
  BY <1>1 DEF LoaderInv, LoaderTypes, CountRead
<1>7. SetsRead'
  BY <1>1, <1>4, <1>5 DEF LoaderInv, SetsRead
<1>8. BetweenSets'
  BY <1>1 DEF BetweenSets
<1>9. PICK s \in Nat : s = Len(sets) + 1
  BY <1>3
<1>10. ASSUME s <= Len(saved), Reached(s, 0)
       PROVE  /\ loader' = "patterns" /\ SetRead(s, set')
              /\ missing' = Len(saved[s].patterns) /\ missing' \in Nat /\ Len(set'.patterns) = 0
              /\ position' = Len(Upto(saved, version, s, 0)) /\ good'
  <2>1. /\ loader' = "patterns" /\ set' = [saved[s] EXCEPT !.patterns = << >>]
        /\ missing' = Len(saved[s].patterns)
        /\ position' = Len(Upto(saved, version, s, 0)) /\ good'
    BY <1>1, <1>9, <1>10, SetLineRead
  <2>2. s \in 1..Len(saved)
    BY <1>2, <1>3, <1>9, <1>10
  <2>3. PICK x \in PatternSets : x = saved[s]
    BY <1>2, <2>2, ElementOfSeq
  <2>4. Len(x.patterns) \in Nat
    BY <1>2, <2>2, <2>3, SetTypes
  <2>5. set'.patterns = << >> /\ set' = [x EXCEPT !.patterns = set'.patterns]
    BY <2>1, <2>3 DEF PatternSets
  <2>6. IsSequence(<< >>) /\ Len(<< >>) = 0 /\ 1..0 = {}
    <3>1. << >> \in Seq({}) /\ Len(<< >>) = 0
      BY EmptySeq
    <3> QED
      BY <3>1 DEF IsSequence
  <2>7. SetRead(s, set')
    <3>1. IsSequence(set'.patterns) /\ Len(set'.patterns) = 0
      BY <2>5, <2>6
    <3>2. \A k \in 1..Len(set'.patterns) : FALSE
      BY <2>6, <3>1
    <3> QED
      BY <2>3, <2>4, <2>5, <3>1, <3>2 DEF SetRead
  <2> QED
    BY <2>1, <2>3, <2>4, <2>5, <2>6, <2>7
<1>11. BetweenPatterns'
  <2>1. CASE s <= Len(saved) /\ Reached(s, 0)
    <3>1. Len(sets') + 1 = s /\ SetRead(s, set') /\ Len(set'.patterns) = 0
      BY <1>1, <1>9, <1>10, <2>1
    <3>2. missing' \in Nat /\ 0 + missing' = Len(saved[s].patterns)
      BY <1>10, <2>1
    <3>3. position' = Len(Upto(saved, version, s, 0)) /\ good'
      BY <1>10, <2>1
    <3> QED
      BY <1>1, <3>1, <3>2, <3>3 DEF BetweenPatterns, SetRead, Reached
  <2>2. CASE ~(s <= Len(saved) /\ Reached(s, 0))
    BY <1>1, <1>4, <1>9, <2>2 DEF BetweenPatterns
  <2> QED
    BY <2>1, <2>2
<1>12. NotPast'
  <2> SUFFICES ASSUME NEW t \in 1..Len(saved), NEW k \in 0..(Len(saved[t].patterns) - 1),
                      input = Upto(saved, version, t, k)
               PROVE  StopsAt(t, k)'
    BY <1>1 DEF NotPast
  <2>1. StopsAt(t, k)
    BY DEF LoaderInv, NotPast
  <2>2. Len(sets) < t
    BY <1>1, <2>1 DEF StopsAt
  <2>3. CASE loader' = "patterns" /\ s = t
    <3>1. Len(saved[t].patterns) \in Nat
      BY <1>2, SetTypes
    <3>2. k \in 0..Len(saved[t].patterns) /\ 0 \in 0..k /\ k \in Nat
      BY <3>1
    <3>3. Begins(Upto(saved, version, t, k), input)
      BY <1>2, <3>2, PatternsFollow, BeginsItself
    <3>4. Reached(t, 0)
      BY <1>2, <1>3, <3>2, <3>3, EarlierReached DEF Reached
    <3>5. Len(set'.patterns) = 0
      BY <1>2, <1>10, <2>3, <3>4
    <3> QED
      BY <1>1, <2>2, <3>2, <3>5 DEF StopsAt
  <2>4. CASE ~(loader' = "patterns" /\ s = t)
    BY <1>1, <1>9, <2>2, <2>4 DEF StopsAt
  <2> QED
    BY <2>3, <2>4
<1>13. WholeIsAccepted'
  <2> SUFFICES ASSUME input = WholeFile(saved, version) PROVE loader' # "rejected"
    BY <1>1 DEF WholeIsAccepted
  <2>1. Begins(HeaderLines(saved, version), input)
    BY <1>2, WholeFileReached
  <2>2. set_count = Len(saved)
    BY <1>1, <2>1 DEF LoaderInv, CountRead
  <2>3. s \in 1..Len(saved) /\ s \in 0..Len(saved)
    BY <1>1, <1>2, <1>3, <1>9, <2>2
  <2>4. Begins(BeforeSet(saved, version, s), input)
    BY <1>2, <2>3, WholeFileReached
  <2>5. 0 \in 0..Len(saved[s].patterns)
    BY <1>2, <2>3, SetTypes
  <2>6. Reached(s, 0)
    BY <1>2, <1>3, <2>3, <2>4, <2>5, WholeSetReached DEF Reached
  <2> QED
    BY <1>2, <1>10, <2>3, <2>6
<1> QED
  BY <1>1, <1>6, <1>7, <1>8, <1>11, <1>12, <1>13 DEF LoaderInv

(* The pattern whose line is whole is read as it was saved;                *)
LEMMA PatternLineRead ==
  ASSUME WriterInv, LoaderInv, ReadPattern,
         NEW s, s = Len(sets) + 1, s <= Len(saved), NEW k \in Nat, k = Len(set.patterns),
         k < Len(saved[s].patterns), Reached(s, k + 1)
  PROVE  /\ IsPatternLine(line') /\ Parsed(line') = saved[s].patterns[k + 1]
         /\ position' = Len(Upto(saved, version, s, k + 1)) /\ good'
<1>1. saved \in Seq(PatternSets) /\ version \in {1, 2} /\ Len(saved) \in Nat
  BY LenProperties DEF WriterInv
<1>2. IsSequence(input) /\ IsSequence(sets) /\ Len(sets) \in Nat /\ Len(input) \in Nat
  BY LenProperties DEF LoaderInv, LoaderTypes, IsSequence
<1>3. loader = "patterns" /\ missing > 0 /\ GetLine
  BY DEF ReadPattern
<1>4. s \in 1..Len(saved)
  BY <1>1, <1>2
<1>5. PICK N \in Nat : N = Len(saved[s].patterns)
  BY <1>1, <1>4, SetTypes
<1>6. /\ k \in 0..N /\ k + 1 \in 0..N /\ k + 1 \in 1..N /\ k \in 0..(N - 1) /\ k \in 0..(k + 1)
      /\ 0 \in 0..(k + 1)
  BY <1>5
<1>7. Reached(s, 0) /\ Reached(s, k)
  BY <1>1, <1>2, <1>4, <1>5, <1>6, EarlierReached DEF Reached
<1>8. PICK p \in [Pos -> Symbol] : p = saved[s].patterns[k + 1] /\ IsCanonical(p)
  BY <1>1, <1>4, <1>5, <1>6, SetTypes
<1>9. PICK b \in Seq(Field) : b = Upto(saved, version, s, k)
  BY <1>1, <1>4, <1>5, <1>6, PatternsFollow
<1>10. PICK l \in Seq(Field) : l = PatternLine(p)
  BY PatternLineIs
<1>11. PICK c : c = b \o l
  OBVIOUS
<1>12. c = Upto(saved, version, s, k + 1)
  BY <1>1, <1>4, <1>5, <1>6, <1>8, <1>9, <1>10, <1>11, PatternsFollow
<1>13. Begins(c, input)
  BY <1>12 DEF Reached
<1>14. position = Len(b) /\ good
  BY <1>3, <1>7, <1>9 DEF LoaderInv, BetweenPatterns
<1>15. /\ Len(c) = Len(b) + Len(l) /\ Len(b) \in Nat /\ Len(l) \in Nat
       /\ Len(b) + Len(l) <= Len(input)
       /\ \A i \in 1..Len(l) : input[Len(b) + i] = l[i]
  <2>1. /\ Len(c) = Len(b) + Len(l) /\ Len(b) \in Nat /\ Len(l) \in Nat
        /\ \A i \in 1..Len(l) : c[Len(b) + i] = l[i]
    BY <1>11, Joins
  <2>2. \A i \in 1..Len(l) : Len(b) + i \in 1..Len(c)
    BY <2>1
  <2> QED
    BY <1>13, <2>1, <2>2 DEF Begins
<1>16. /\ Len(l) = BlockSize + 2 /\ BlockSize \in Nat \ {0} /\ l[1].kind = "pattern"
       /\ \A i \in Pos : l[i + 1].value = p[i]
       /\ l[BlockSize + 2].kind = "newline"
       /\ \A i \in 1..(BlockSize + 1) : l[i].kind # "newline"
  BY <1>10, PatternLineIs, BlockSizeAssumption
<1>17. PICK n \in Nat : n = Len(b)
  BY <1>15
<1>18. PICK e \in Nat \ {0} : e = BlockSize + 2
  BY <1>16
<1>19. \A i \in 1..e : input[n + i] = l[i]
  BY <1>15, <1>16, <1>17, <1>18
<1>20. /\ Len(RestOfLine) = e - 1 /\ \A i \in 1..(e - 1) : RestOfLine[i] = input[n + i]
       /\ IsSequence(RestOfLine)
  <2>1. n + e <= Len(input)
    BY <1>15, <1>16, <1>17, <1>18
  <2>2. input[n + e].kind = "newline"
    <3>1. e \in 1..e
      OBVIOUS
    <3> QED
      BY <1>16, <1>18, <1>19, <3>1
  <2>3. \A i \in 1..(e - 1) : input[n + i].kind # "newline"
    <3>1. \A i \in 1..(e - 1) : i \in 1..e /\ i \in 1..(BlockSize + 1)
      BY <1>16, <1>18
    <3> QED
      BY <1>16, <1>19, <3>1
  <2>4. position = n
    BY <1>14, <1>17
  <2> QED
    BY <1>2, <2>1, <2>2, <2>3, <2>4, ReadsLine
<1>21. line' = RestOfLine /\ position' = position + Len(RestOfLine) + 1 /\ good' = (position' <= Len(input))
  BY <1>3, <1>14 DEF GetLine
<1>22. PICK r : r = line' /\ IsSequence(r) /\ Len(r) = BlockSize + 1
                /\ \A i \in 1..(BlockSize + 1) : r[i] = l[i]
  <2>1. \A i \in 1..(BlockSize + 1) : i \in 1..e /\ i \in 1..(e - 1)
    BY <1>16, <1>18
  <2>2. Len(RestOfLine) = BlockSize + 1
    BY <1>16, <1>18, <1>20
  <2> QED
    BY <1>19, <1>20, <1>21, <2>1, <2>2
<1>23. IsPatternLine(r)
  <2>1. r # << >>
    BY <1>16, <1>22, EmptySeq
  <2>2. 1 \in 1..(BlockSize + 1)
    BY <1>16
  <2> QED
    BY <1>16, <1>22, <2>1, <2>2 DEF IsPatternLine
<1>24. Parsed(r) = p
  <2>1. \A i \in Pos : i + 1 \in 1..(BlockSize + 1)
    BY <1>16 DEF Pos
  <2>2. \A i \in Pos : r[i + 1].value = p[i]
    BY <1>16, <1>22, <2>1
  <2>3. p = [i \in Pos |-> r[i + 1].value]
    BY <2>2
  <2> QED
    BY <1>8, <2>3 DEF Parsed, IsCanonical
<1>25. position' = Len(c) /\ position' <= Len(input)
  BY <1>14, <1>15, <1>16, <1>17, <1>18, <1>20, <1>21
<1>26. good'
  BY <1>21, <1>25
<1> QED
  BY <1>8, <1>12, <1>22, <1>23, <1>24, <1>25, <1>26

(* at the end of the file there is no pattern.                             *)
LEMMA NoPatternRead ==
  ASSUME LoaderInv, ReadPattern, position = Len(input), good
  PROVE  loader' = "rejected"
<1>1. RestOfLine = << >>
  BY ReadsNothing DEF LoaderInv, LoaderTypes
<1>2. line' = << >>
  BY <1>1 DEF ReadPattern, GetLine
<1> QED
  BY <1>2 DEF ReadPattern, IsPatternLine

LEMMA ReadPatternKeeps ==
  ASSUME WriterInv, LoaderInv, ReadPattern
  PROVE  LoaderInv'
<1>1. /\ saved' = saved /\ version' = version /\ input' = input /\ sets' = sets
      /\ set_count' = set_count /\ loader = "patterns" /\ missing > 0 /\ missing' = missing - 1
      /\ loader' \in {"patterns", "rejected"}
  BY DEF ReadPattern, writerVars
<1>2. saved \in Seq(PatternSets) /\ version \in {1, 2} /\ Len(saved) \in Nat
  BY LenProperties DEF WriterInv
<1>3. IsSequence(input) /\ IsSequence(sets) /\ Len(sets) \in Nat
  BY LenProperties DEF LoaderInv, LoaderTypes, IsSequence
<1>4. \A s, k : Reached(s, k)' <=> Reached(s, k)
  BY <1>1 DEF Reached
<1>5. \A s, x : SetRead(s, x)' <=> SetRead(s, x)
  BY <1>1, <1>4 DEF SetRead
<1>6. LoaderTypes' /\ CountRead'
  BY <1>1 DEF LoaderInv, LoaderTypes, CountRead
<1>7. SetsRead'
  BY <1>1, <1>4, <1>5 DEF LoaderInv, SetsRead
<1>8. BetweenSets'
  BY <1>1 DEF BetweenSets
<1>9. PICK s \in Nat : s = Len(sets) + 1
  BY <1>3
<1>10. PICK k : k = Len(set.patterns)
  OBVIOUS
<1>11. ASSUME s <= Len(saved), Reached(s, 0)
       PROVE  /\ s \in 1..Len(saved) /\ SetRead(s, set) /\ k \in Nat /\ missing \in Nat
              /\ k + missing = Len(saved[s].patterns) /\ k < Len(saved[s].patterns)
              /\ Reached(s, k) => position = Len(Upto(saved, version, s, k)) /\ good
  <2>1. /\ SetRead(s, set) /\ missing \in Nat /\ k + missing = Len(saved[s].patterns)
        /\ Reached(s, k) => position = Len(Upto(saved, version, s, k)) /\ good
    BY <1>1, <1>9, <1>10, <1>11 DEF LoaderInv, BetweenPatterns
  <2>2. k \in Nat
    BY <1>10, <2>1, LenProperties DEF SetRead, IsSequence
  <2> QED
    BY <1>1, <1>2, <1>9, <1>11, <2>1, <2>2
<1>12. BetweenPatterns'
  <2> SUFFICES ASSUME loader' = "patterns", s <= Len(saved), Reached(s, 0)
               PROVE  /\ SetRead(s, set')
                      /\ missing' \in Nat /\ Len(set'.patterns) + missing' = Len(saved[s].patterns)
                      /\ Reached(s, Len(set'.patterns)) =>
                           position' = Len(Upto(saved, version, s, Len(set'.patterns))) /\ good'
    <3>1. Len(sets') + 1 = s
      BY <1>1, <1>9
    <3> QED
      BY <1>1, <3>1 DEF BetweenPatterns, SetRead, Reached
  <2>1. /\ s \in 1..Len(saved) /\ SetRead(s, set) /\ k \in Nat /\ missing \in Nat
        /\ k + missing = Len(saved[s].patterns) /\ k < Len(saved[s].patterns)
    BY <1>11
  <2>2. IsPatternLine(line') /\ set' = [set EXCEPT !.patterns = Append(@, Parsed(line'))]
    BY DEF ReadPattern
  <2>3. PICK F : set.patterns \in Seq(F)
    BY <2>1 DEF SetRead, IsSequence
  <2>4. PICK q : q = Append(set.patterns, Parsed(line'))
    OBVIOUS
  <2>5. /\ IsSequence(q) /\ Len(q) = k + 1 /\ q[k + 1] = Parsed(line')
        /\ \A j \in 1..k : q[j] = set.patterns[j]
    <3>1. PICK G : G = F \cup {Parsed(line')}
      OBVIOUS
    <3>2. set.patterns \in Seq(G) /\ Parsed(line') \in G
      BY <2>3, <3>1
    <3> QED
      BY <1>10, <2>4, <3>2, AppendProperties DEF IsSequence
  <2>6. PICK y \in PatternSets : y = saved[s]
    BY <1>2, <2>1, ElementOfSeq
  <2>7. set = [y EXCEPT !.patterns = set.patterns]
    BY <2>1, <2>6 DEF SetRead
  <2>8. set' = [y EXCEPT !.patterns = q] /\ set'.patterns = q
    BY <2>2, <2>4, <2>6, <2>7 DEF PatternSets
  <2>9. Reached(s, k + 1) => /\ Parsed(line') = y.patterns[k + 1]
                             /\ position' = Len(Upto(saved, version, s, k + 1)) /\ good'
    BY <1>9, <1>10, <2>1, <2>6, PatternLineRead
  <2>10. \A j \in 1..(k + 1) : Reached(s, j) => q[j] = y.patterns[j]
    <3> TAKE j \in 1..(k + 1)
    <3>1. CASE j = k + 1
      BY <2>5, <2>9, <3>1
    <3>2. CASE j # k + 1
      <4>1. j \in 1..k
        BY <2>1, <3>2
      <4> QED
        BY <1>10, <2>1, <2>5, <2>6, <4>1 DEF SetRead
    <3> QED
      BY <3>1, <3>2
  <2>11. k + 1 <= Len(y.patterns) /\ missing' \in Nat /\ (k + 1) + missing' = Len(y.patterns)
    BY <1>1, <2>1, <2>6
  <2>12. SetRead(s, set')
    BY <2>5, <2>6, <2>8, <2>10, <2>11 DEF SetRead
  <2> QED
    BY <2>5, <2>6, <2>8, <2>9, <2>11, <2>12
<1>13. NotPast'
  <2> SUFFICES ASSUME NEW t \in 1..Len(saved), NEW n \in 0..(Len(saved[t].patterns) - 1),
                      input = Upto(saved, version, t, n)
               PROVE  StopsAt(t, n)'
    BY <1>1 DEF NotPast
  <2>1. StopsAt(t, n)
    BY DEF LoaderInv, NotPast
  <2>2. Len(sets) < t /\ (s = t => k <= n)
    BY <1>1, <1>9, <1>10, <2>1 DEF StopsAt
  <2>3. CASE loader' = "patterns" /\ s = t
    <3>1. PICK N \in Nat : N = Len(saved[t].patterns)
      BY <1>2, SetTypes
    <3>2. n \in 0..N /\ 0 \in 0..n /\ n \in 0..n
      BY <3>1
    <3>3. Begins(Upto(saved, version, t, n), input)
      BY <1>2, <3>1, <3>2, PatternsFollow, BeginsItself
    <3>4. Reached(t, 0) /\ Reached(t, n)
      BY <1>2, <1>3, <3>1, <3>2, <3>3, EarlierReached DEF Reached
    <3>5. /\ SetRead(t, set) /\ k \in Nat
          /\ Reached(t, k) => position = Len(Upto(saved, version, t, k)) /\ good
      BY <1>2, <1>11, <2>3, <3>4
    <3>6. k # n
      <4>1. ASSUME k = n PROVE FALSE
        <5>1. position = Len(input) /\ good
          BY <3>4, <3>5, <4>1
        <5>2. loader' = "rejected"
          BY <5>1, NoPatternRead
        <5> QED
          BY <2>3, <5>2
      <4> QED
        BY <4>1
    <3>7. set' = [set EXCEPT !.patterns = Append(@, Parsed(line'))]
      BY <2>3 DEF ReadPattern
    <3>8. PICK F : set.patterns \in Seq(F)
      BY <3>5 DEF SetRead, IsSequence
    <3>9. set'.patterns = Append(set.patterns, Parsed(line'))
      <4>1. PICK y \in PatternSets : y = saved[t]
        BY <1>2, ElementOfSeq
      <4>2. set = [y EXCEPT !.patterns = set.patterns]
        BY <3>5, <4>1 DEF SetRead
      <4> QED
        BY <3>7, <4>1, <4>2 DEF PatternSets
    <3>10. Len(set'.patterns) = k + 1
      <4>1. PICK G : G = F \cup {Parsed(line')}
        OBVIOUS
      <4>2. set.patterns \in Seq(G) /\ Parsed(line') \in G
        BY <3>8, <4>1
      <4> QED
        BY <1>10, <3>9, <4>2, AppendProperties
    <3>11. k + 1 <= n
      BY <2>2, <2>3, <3>5, <3>6
    <3> QED
      BY <1>1, <1>9, <2>2, <2>3, <3>10, <3>11 DEF StopsAt
  <2>4. CASE ~(loader' = "patterns" /\ s = t)
    BY <1>1, <1>9, <2>2, <2>4 DEF StopsAt
  <2> QED
    BY <2>3, <2>4
<1>14. WholeIsAccepted'
  <2> SUFFICES ASSUME input = WholeFile(saved, version) PROVE loader' # "rejected"
    BY <1>1 DEF WholeIsAccepted
  <2>1. Begins(HeaderLines(saved, version), input)
    BY <1>2, WholeFileReached
  <2>2. set_count = Len(saved) /\ Len(sets) < set_count
    BY <1>1, <2>1 DEF LoaderInv, CountRead
  <2>3. s \in 1..Len(saved) /\ s \in 0..Len(saved)
    BY <1>2, <1>3, <1>9, <2>2
  <2>4. Begins(BeforeSet(saved, version, s), input)
    BY <1>2, <2>3, WholeFileReached
  <2>5. PICK N \in Nat : N = Len(saved[s].patterns)
    BY <1>2, <2>3, SetTypes
  <2>6. \A j \in 0..N : Reached(s, j)
    BY <1>2, <1>3, <2>3, <2>4, <2>5, WholeSetReached DEF Reached
  <2>7. k \in Nat /\ k < N
    <3>1. 0 \in 0..N
      OBVIOUS
    <3> QED
      BY <1>2, <1>11, <2>3, <2>5, <2>6, <3>1
  <2>8. Reached(s, k + 1)
    <3>1. k + 1 \in 0..N
      BY <2>7
    <3> QED
      BY <2>6, <3>1
  <2>9. IsPatternLine(line')
    BY <1>2, <1>9, <1>10, <2>3, <2>5, <2>7, <2>8, PatternLineRead
  <2> QED
    BY <1>1, <2>9 DEF ReadPattern
<1>15. loader' = "patterns" => Len(sets') < set_count'
  BY <1>1 DEF LoaderInv
<1> QED
  BY <1>1, <1>6, <1>7, <1>8, <1>12, <1>13, <1>14, <1>15 DEF LoaderInv

LEMMA EndSetKeeps ==
  ASSUME WriterInv, LoaderInv, EndSet
  PROVE  LoaderInv'
<1>1. /\ saved' = saved /\ version' = version /\ input' = input /\ sets' = Append(sets, set)
      /\ set_count' = set_count /\ loader = "patterns" /\ missing = 0 /\ loader' = "sets"
      /\ position' = position /\ good' = good
  BY DEF EndSet, streamVars, writerVars
<1>2. saved \in Seq(PatternSets) /\ version \in {1, 2} /\ Len(saved) \in Nat
  BY LenProperties DEF WriterInv
<1>3. IsSequence(input) /\ IsSequence(sets) /\ Len(sets) \in Nat
  BY LenProperties DEF LoaderInv, LoaderTypes, IsSequence
<1>4. \A s, k : Reached(s, k)' <=> Reached(s, k)
  BY <1>1 DEF Reached
<1>5. \A s, x : SetRead(s, x)' <=> SetRead(s, x)
  BY <1>1, <1>4 DEF SetRead
<1>6. PICK s \in Nat : s = Len(sets) + 1
  BY <1>3
<1>7. PICK now : now = sets'
  OBVIOUS
<1>8. IsSequence(now) /\ Len(now) = s /\ now[s] = set /\ \A t \in 1..(s - 1) : now[t] = sets[t]
  <2>1. PICK F : sets \in Seq(F)
    BY <1>3 DEF IsSequence
  <2>2. PICK G : G = F \cup {set}
    OBVIOUS
  <2>3. sets \in Seq(G) /\ set \in G
    BY <2>1, <2>2
  <2> QED
    BY <1>1, <1>3, <1>6, <1>7, <2>3, AppendProperties DEF IsSequence
<1>9. LoaderTypes' /\ CountRead'
  <2>1. IsSequence(sets')
    BY <1>7, <1>8
  <2> QED
    BY <1>1, <2>1 DEF LoaderInv, LoaderTypes, CountRead
<1>10. ASSUME s <= Len(saved), Reached(s, 0)
       PROVE  /\ s \in 1..Len(saved) /\ SetRead(s, set)
              /\ Len(set.patterns) = Len(saved[s].patterns) /\ Len(set.patterns) \in Nat
              /\ Reached(s, Len(saved[s].patterns)) =>
                   position = Len(Upto(saved, version, s, Len(saved[s].patterns))) /\ good
  <2>1. /\ SetRead(s, set) /\ Len(set.patterns) + 0 = Len(saved[s].patterns)
        /\ Reached(s, Len(set.patterns)) =>
             position = Len(Upto(saved, version, s, Len(set.patterns))) /\ good
    BY <1>1, <1>6, <1>10 DEF LoaderInv, BetweenPatterns
  <2>2. Len(set.patterns) \in Nat
    BY <2>1, LenProperties DEF SetRead, IsSequence
  <2>3. Len(set.patterns) = Len(saved[s].patterns)
    BY <2>1, <2>2
  <2> QED
    BY <1>2, <1>3, <1>6, <1>10, <2>1, <2>2, <2>3
<1>11. SetsRead'
  <2> SUFFICES ASSUME NEW t \in 1..s, t <= Len(saved), Reached(t, 0)
               PROVE  SetRead(t, now[t]) /\ Len(now[t].patterns) = Len(saved[t].patterns)
    BY <1>1, <1>4, <1>5, <1>7, <1>8 DEF SetsRead, SetRead, Reached
  <2>1. CASE t = s
    BY <1>8, <1>10, <2>1
  <2>2. CASE t # s
    <3>1. t \in 1..(s - 1) /\ t \in 1..Len(sets)
      BY <1>3, <1>6, <2>2
    <3>2. now[t] = sets[t]
      BY <1>8, <3>1
    <3> QED
      BY <3>1, <3>2 DEF LoaderInv, SetsRead
  <2> QED
    BY <2>1, <2>2
<1>12. BetweenSets'
  <2> SUFFICES ASSUME s <= Len(saved), Begins(BeforeSet(saved, version, s), input)
               PROVE  position = Len(BeforeSet(saved, version, s)) /\ good
    BY <1>1, <1>7, <1>8 DEF BetweenSets
  <2>1. s \in 1..Len(saved)
    BY <1>2, <1>3, <1>6
  <2>2. PICK N \in Nat : N = Len(saved[s].patterns)
    BY <1>2, <2>1, SetTypes
  <2>3. \A j \in 0..N : Reached(s, j)
    BY <1>2, <1>3, <2>1, <2>2, WholeSetReached DEF Reached
  <2>4. Reached(s, 0) /\ Reached(s, N)
    BY <2>3
  <2>5. position = Len(Upto(saved, version, s, N)) /\ good
    BY <1>10, <2>2, <2>4
  <2>6. Upto(saved, version, s, N) = BeforeSet(saved, version, s)
    BY <1>2, <2>1, <2>2, PatternsFollow
  <2> QED
    BY <2>5, <2>6
<1>13. NotPast'
  <2> SUFFICES ASSUME NEW t \in 1..Len(saved), NEW n \in 0..(Len(saved[t].patterns) - 1),
                      input = Upto(saved, version, t, n)
               PROVE  StopsAt(t, n)'
    BY <1>1 DEF NotPast
  <2>1. StopsAt(t, n)
    BY DEF LoaderInv, NotPast
  <2>2. Len(sets) < t /\ (s = t => Len(set.patterns) <= n)
    BY <1>1, <1>6, <2>1 DEF StopsAt
  <2>3. s # t
    <3>1. ASSUME s = t PROVE FALSE
      <4>1. PICK N \in Nat : N = Len(saved[t].patterns)
        BY <1>2, SetTypes
      <4>2. n \in 0..N /\ 0 \in 0..n /\ n < N
        BY <4>1
      <4>3. Begins(Upto(saved, version, t, n), input)
        BY <1>2, <4>1, <4>2, PatternsFollow, BeginsItself
      <4>4. Reached(t, 0)
        BY <1>2, <1>3, <4>1, <4>2, <4>3, EarlierReached DEF Reached
      <4>5. Len(set.patterns) = N
        BY <1>2, <1>10, <3>1, <4>1, <4>4
      <4> QED
        BY <2>2, <3>1, <4>2, <4>5
    <3> QED
      BY <3>1
  <2>4. s < t
    BY <1>2, <1>3, <1>6, <2>2, <2>3
  <2> QED
    BY <1>1, <1>7, <1>8, <2>4 DEF StopsAt
<1> QED
  BY <1>1, <1>9, <1>11, <1>12, <1>13 DEF LoaderInv, BetweenPatterns, WholeIsAccepted

(* As many sets as were saved, read from the whole file, are the model.    *)
LEMMA WholeGivesModel ==
  ASSUME WriterInv, LoaderInv, input = WholeFile(saved, version), Len(sets) = Len(saved)
  PROVE  sets = saved
<1>1. saved \in Seq(PatternSets) /\ version \in {1, 2} /\ Len(saved) \in Nat
  BY LenProperties DEF WriterInv
<1>2. IsSequence(input) /\ IsSequence(sets)
  BY DEF LoaderInv, LoaderTypes
<1>3. ASSUME NEW s \in 1..Len(saved) PROVE sets[s] = saved[s]
  <2>1. PICK N \in Nat : N = Len(saved[s].patterns)
    BY <1>1, SetTypes
  <2>2. s \in 0..Len(saved) /\ s <= Len(saved) /\ s \in 1..Len(sets)
    BY <1>1
  <2>3. Begins(BeforeSet(saved, version, s), input)
    BY <1>1, <2>2, WholeFileReached
  <2>4. \A k \in 0..N : Reached(s, k)
    BY <1>1, <1>2, <2>1, <2>3, WholeSetReached DEF Reached
  <2>5. Reached(s, 0)
    BY <2>1, <2>4
  <2>6. SetRead(s, sets[s]) /\ Len(sets[s].patterns) = N
    BY <2>1, <2>2, <2>5 DEF LoaderInv, SetsRead
  <2>7. PICK y \in PatternSets : y = saved[s]
    BY <1>1, ElementOfSeq
  <2>8. PICK q : q = sets[s].patterns
    OBVIOUS
  <2>9. sets[s] = [y EXCEPT !.patterns = q] /\ IsSequence(q)
    BY <2>6, <2>7, <2>8 DEF SetRead
  <2>10. \A k \in 1..N : q[k] = y.patterns[k]
    <3>1. \A k \in 1..N : k \in 0..N
      OBVIOUS
    <3> QED
      BY <2>4, <2>6, <2>7, <2>8, <3>1 DEF SetRead
  <2>11. q = y.patterns
    <3>1. PICK F : q \in Seq(F)
      BY <2>9 DEF IsSequence
    <3>2. PICK G : G = F \cup [Pos -> Symbol]
      OBVIOUS
    <3>3. q \in Seq(G) /\ y.patterns \in Seq(G)
      <4>1. y.patterns \in Seq([Pos -> Symbol])
        BY <1>1, <2>7, SetTypes
      <4> QED
        BY <3>1, <3>2, <4>1
    <3> QED
      BY <2>1, <2>6, <2>7, <2>8, <2>10, <3>3, SeqEqual
  <2>12. [y EXCEPT !.patterns = y.patterns] = y
    BY DEF PatternSets
  <2> QED
    BY <2>7, <2>9, <2>11, <2>12
<1>4. PICK F : sets \in Seq(F)
  BY <1>2 DEF IsSequence
<1>5. PICK G : G = F \cup PatternSets
  OBVIOUS
<1>6. sets \in Seq(G) /\ saved \in Seq(G)
  BY <1>1, <1>4, <1>5
<1> QED
  BY <1>3, <1>6, SeqEqual

LEMMA EndLoadKeeps ==
  ASSUME WriterInv, LoaderInv, EndLoad
  PROVE  LoaderInv'
<1>1. /\ saved' = saved /\ version' = version /\ input' = input /\ sets' = sets
      /\ set_count' = set_count /\ loader = "sets" /\ Len(sets) = set_count
      /\ loader' = IF (good => position >= Len(input)) /\ ValidModel(sets)
                     THEN "loaded" ELSE "rejected"
  BY DEF EndLoad, streamVars, writerVars
<1>2. saved \in Seq(PatternSets) /\ version \in {1, 2} /\ Len(saved) \in Nat
  BY LenProperties DEF WriterInv
<1>3. IsSequence(input) /\ IsSequence(sets) /\ Len(sets) \in Nat /\ Len(input) \in Nat
  BY LenProperties DEF LoaderInv, LoaderTypes, IsSequence
<1>4. loader' \in {"loaded", "rejected"}
  BY <1>1
<1>5. LoaderTypes' /\ CountRead'
  BY <1>1, <1>4 DEF LoaderInv, LoaderTypes, CountRead
<1>6. SetsRead'
  BY <1>1 DEF LoaderInv, SetsRead, SetRead, Reached
<1>7. NotPast'
  <2> SUFFICES ASSUME NEW t \in 1..Len(saved), NEW n \in 0..(Len(saved[t].patterns) - 1),
                      input = Upto(saved, version, t, n)
               PROVE  FALSE
    BY <1>1 DEF NotPast
  <2>1. StopsAt(t, n)
    BY DEF LoaderInv, NotPast
  <2>2. Len(sets) < t
    BY <1>1, <2>1 DEF StopsAt
  <2>3. PICK N \in Nat : N = Len(saved[t].patterns)
    BY <1>2, SetTypes
  <2>4. n \in 0..N
    BY <2>3
  <2>5. Begins(Upto(saved, version, t, n), input)
    BY <1>2, <2>3, <2>4, PatternsFollow, BeginsItself
  <2>6. Begins(HeaderLines(saved, version), input)
    BY <1>2, <1>3, <2>3, <2>4, <2>5, EarlierReached
  <2>7. set_count = Len(saved)
    BY <1>1, <2>6 DEF LoaderInv, CountRead
  <2> QED
    BY <1>1, <1>2, <2>2, <2>7
<1>8. WholeIsAccepted'
  <2> SUFFICES ASSUME input = WholeFile(saved, version) PROVE loader' = "loaded"
    BY <1>1 DEF WholeIsAccepted
  <2>1. /\ input # << >> /\ Begins(HeaderLines(saved, version), input)
        /\ Begins(BeforeSet(saved, version, Len(saved)), input)
    <3>1. Len(saved) \in 0..Len(saved)
      BY <1>2
    <3> QED
      BY <1>2, <3>1, WholeFileReached
  <2>2. Len(sets) = Len(saved)
    BY <1>1, <2>1 DEF LoaderInv, CountRead
  <2>3. sets = saved
    BY <2>2, WholeGivesModel
  <2>4. ValidModel(sets)
    BY <2>1, <2>3 DEF LoaderInv, LoaderTypes
  <2>5. position = Len(input)
    <3>1. BeforeSet(saved, version, Len(saved)) = input
      BY <1>2, SetsFollow
    <3>2. position = Len(BeforeSet(saved, version, Len(sets)))
      BY <1>1, <1>2, <2>1, <2>2 DEF LoaderInv, BetweenSets
    <3> QED
      BY <2>2, <3>1, <3>2
  <2>6. position >= Len(input)
    BY <1>3, <2>5
  <2> QED
    BY <1>1, <2>4, <2>6
<1> QED
  BY <1>1, <1>4, <1>5, <1>6, <1>7, <1>8 DEF LoaderInv, BetweenSets, BetweenPatterns

LEMMA LoaderInvStep == FileInv /\ [FileNext]_fileVars => LoaderInv'
<1> SUFFICES ASSUME FileInv, [FileNext]_fileVars PROVE LoaderInv'
  OBVIOUS
<1>1. WriterInv /\ LoaderInv
  BY DEF FileInv
<1>2. CASE Writer \/ Kill
  <2>1. saved' = saved /\ version' = version /\ UNCHANGED loaderVars
    BY <1>2 DEF Writer, Save, Flush, Exit, Kill
  <2> QED
    BY <1>1, <2>1, LoaderUnchanged
<1>3. CASE Load
  BY <1>1, <1>3, LoadKeeps
<1>4. CASE ReadSetLine
  BY <1>1, <1>4, ReadSetLineKeeps
<1>5. CASE ReadPattern
  BY <1>1, <1>5, ReadPatternKeeps
<1>6. CASE EndSet
  BY <1>1, <1>6, EndSetKeeps
<1>7. CASE EndLoad
  BY <1>1, <1>7, EndLoadKeeps
<1>8. CASE UNCHANGED fileVars
  <2>1. saved' = saved /\ version' = version /\ UNCHANGED loaderVars
    BY <1>8 DEF fileVars, writerVars
  <2> QED
    BY <1>1, <2>1, LoaderUnchanged
<1> QED
  BY <1>2, <1>3, <1>4, <1>5, <1>6, <1>7, <1>8 DEF FileNext, Loader

LEMMA FileInvHolds == FileSpec => []FileInv
<1>1. FileInit => FileInv
  BY WriterInvInit, LoaderInvInit DEF FileInv
<1>2. FileInv /\ [FileNext]_fileVars => FileInv'
  BY WriterInvStep, LoaderInvStep DEF FileInv
<1> QED
  BY <1>1, <1>2, PTL DEF FileSpec

(* The lines before a pattern, in the words of the property                *)
LEMMA LinesBeforeAre ==
  ASSUME saved \in Seq(PatternSets), version \in {1, 2}, NEW s \in 1..Len(saved),
         NEW k \in 0..Len(saved[s].patterns)
  PROVE  LinesBefore(s, k) = Upto(saved, version, s, k)
<1>1. PICK N \in Nat : N = Len(saved[s].patterns)
  BY SetTypes
<1>2. Len(saved) \in Nat
  BY LenProperties
<1>3. [t \in 1..(s - 1) |-> Records(saved, version)[t]] = [t \in 1..(s - 1) |-> SetLines(saved[t], version)]
  <2>1. \A t \in 1..(s - 1) : t \in 1..Len(saved)
    BY <1>2
  <2> QED
    BY <2>1, RecordsAre
<1>4. [j \in 1..k |-> PatternLines(saved[s])[j]] = [j \in 1..k |-> PatternLine(saved[s].patterns[j])]
  <2>1. \A j \in 1..k : j \in 1..N
    BY <1>1
  <2> QED
    BY <1>1, <2>1, SetTypes
<1> QED
  BY <1>3, <1>4, Zenon DEF LinesBefore, Upto, BeforeSet, Firsts

LEMMA PrefixBegins ==
  ASSUME NEW S, NEW s \in Seq(S), NEW u, IsSequence(u), IsPrefix(s, u)
  PROVE  Begins(s, u)
<1>1. PICK F : u \in Seq(F)
  BY DEF IsSequence
<1>2. Len(s) \in Nat /\ Len(u) \in Nat
  BY <1>1, LenProperties
<1>3. Len(s) <= Len(u) /\ SubSeq(s, 1, Len(s)) = SubSeq(u, 1, Len(s))
  BY DEF IsPrefix
<1>4. PICK n \in Nat : n = Len(s)
  BY <1>2
<1>5. \A i \in 1..n : SubSeq(s, 1, n)[i] = s[i]
  <2>1. \A i \in 1..n : s[i] \in S
    BY <1>4, ElementOfSeq
  <2> QED
    BY <2>1
<1>6. \A i \in 1..n : SubSeq(u, 1, n)[i] = u[i]
  <2>1. \A i \in 1..n : u[i] \in F
    <3>1. \A i \in 1..n : i \in 1..Len(u)
      BY <1>2, <1>3, <1>4
    <3> QED
      BY <1>1, <3>1, ElementOfSeq
  <2> QED
    BY <2>1
<1> QED
  BY <1>3, <1>4, <1>5, <1>6 DEF Begins

LEMMA GivesSavedLines == FileInv => SavedLinesLoadBack
<1> SUFFICES ASSUME FileInv PROVE SavedLinesLoadBack
  OBVIOUS
<1>1. WriterInv /\ LoaderInv
  BY DEF FileInv
<1>2. saved \in Seq(PatternSets) /\ version \in {1, 2} /\ Len(saved) \in Nat
  BY <1>1, LenProperties DEF WriterInv
<1>3. IsSequence(input) /\ IsSequence(sets)
  BY <1>1 DEF LoaderInv, LoaderTypes
<1>4. WholeFileLoadsBack
  <2>1. ASSUME loader \in {"loaded", "rejected"}, input = WholeFile(saved, version)
        PROVE  loader = "loaded" /\ sets = saved
    <3>1. loader = "loaded"
      BY <1>1, <2>1 DEF LoaderInv, WholeIsAccepted
    <3>2. Begins(HeaderLines(saved, version), input)
      BY <1>2, <2>1, WholeFileReached
    <3>3. Len(sets) = Len(saved)
      BY <1>1, <3>1, <3>2 DEF LoaderInv, CountRead
    <3> QED
      BY <1>1, <2>1, <3>1, <3>3, WholeGivesModel
  <2>2. writer = "exited" => file = WholeFile(saved, version)
    BY <1>1 DEF WriterInv
  <2> QED
    BY <2>1, <2>2 DEF WholeFileLoadsBack
<1>5. CompleteLinesKept
  <2> SUFFICES ASSUME loader = "loaded", NEW s \in 1..Len(saved)
               PROVE  /\ \A k \in 1..Len(saved[s].patterns) :
                           IsPrefix(LinesBefore(s, k), input)
                             => /\ s <= Len(sets) /\ k <= Len(sets[s].patterns)
                                /\ sets[s].patterns[k] = saved[s].patterns[k]
                      /\ \A k \in 0..(Len(saved[s].patterns) - 1) : input # LinesBefore(s, k)
    BY DEF CompleteLinesKept
  <2>1. PICK N \in Nat : N = Len(saved[s].patterns)
    BY <1>2, SetTypes
  <2>2. ASSUME NEW k \in 1..N, IsPrefix(LinesBefore(s, k), input)
        PROVE  /\ s <= Len(sets) /\ k <= Len(sets[s].patterns)
               /\ sets[s].patterns[k] = saved[s].patterns[k]
    <3>1. k \in 0..N /\ 0 \in 0..k
      OBVIOUS
    <3>2. IsPrefix(Upto(saved, version, s, k), input)
      BY <1>2, <2>1, <2>2, <3>1, LinesBeforeAre
    <3>3. Begins(Upto(saved, version, s, k), input)
      <4>1. Upto(saved, version, s, k) \in Seq(Field)
        BY <1>2, <2>1, <3>1, PatternsFollow
      <4> QED
        BY <1>3, <3>2, <4>1, PrefixBegins
    <3>4. Reached(s, k) /\ Reached(s, 0) /\ Begins(HeaderLines(saved, version), input)
      BY <1>2, <1>3, <2>1, <3>1, <3>3, EarlierReached DEF Reached
    <3>5. Len(sets) = Len(saved)
      BY <1>1, <3>4 DEF LoaderInv, CountRead
    <3>6. s \in 1..Len(sets) /\ s <= Len(sets) /\ s <= Len(saved)
      BY <1>2, <3>5
    <3>7. SetRead(s, sets[s]) /\ Len(sets[s].patterns) = N
      BY <1>1, <2>1, <3>4, <3>6 DEF LoaderInv, SetsRead
    <3>8. sets[s].patterns[k] = saved[s].patterns[k]
      BY <3>4, <3>7 DEF SetRead
    <3> QED
      BY <3>6, <3>7, <3>8
  <2>3. ASSUME NEW k \in 0..(N - 1), input = LinesBefore(s, k)
        PROVE  FALSE
    <3>1. k \in 0..N
      OBVIOUS
    <3>2. input = Upto(saved, version, s, k)
      BY <1>2, <2>1, <2>3, <3>1, LinesBeforeAre
    <3>3. StopsAt(s, k)
      BY <1>1, <2>1, <3>2 DEF LoaderInv, NotPast
    <3> QED
      BY <3>3 DEF StopsAt
  <2> QED
    BY <2>1, <2>2, <2>3
<1> QED
  BY <1>4, <1>5 DEF SavedLinesLoadBack

(* A file that is all there loads as the model it was saved from, and a    *)
(* file cut short keeps every whole pattern line in its place and is       *)
(* refused where it ends behind one that is not its set's last             *)
(* (load_model and save_model, model_io.cpp).                              *)
THEOREM SavedModelsLoadBack == FileSpec => []SavedLinesLoadBack
<1>1. FileInv => SavedLinesLoadBack
  BY GivesSavedLines
<1> QED
  BY <1>1, FileInvHolds, PTL
=============================================================================
