------------------------------- MODULE Reports -------------------------------
(***************************************************************************)
(* The reporting commands of bsel (src/src/main.cpp): evaluate, analyze    *)
(* (with the upper bound) and compare (with baselines), each for one       *)
(* trace, for a list of traces or for named groups of traces.              *)
(*                                                                         *)
(* The first two forms read a trace once and measure its blocks with every *)
(* method.  The third reads all traces of a group once for each method,    *)
(* and a trace may change in between.  Rows are printed as they are known: *)
(* a trace that is missing or empty ends the report where it is.           *)
(*                                                                         *)
(* What is measured of a block is up to OnlineCodec and BaselineEvaluation *)
(* and added up: a total is modelled by the blocks it is the sum of, a     *)
(* mean of ratios by the traces whose ratios are added and the number they *)
(* are divided by.                                                         *)
(*                                                                         *)
(* main() runs one command: these or those of TraceTraining.               *)
(***************************************************************************)
EXTENDS TraceTraining

VARIABLES
  section, pass,   (* the group and the method under way                   *)
  sums,            (* each method's EvaluationGroup, and the like          *)
  means,           (* the groups' samples, for each method's mean of means *)
  out              (* the rows printed                                     *)

reportVars == <<section, pass, sums, means, out>>

Kinds == {"fpc", "bdi", "hybrid", "cpack", "bpc", "zstd", "lz4", "lz77-lite", "huffman"}

groups == command.groups

(* parse_baseline_options(): each kind once, FPC and BDI when none.        *)
Baselines ==
  LET once == FoldLeft(LAMBDA kinds, k : IF k \in ToSet(kinds) THEN kinds ELSE Append(kinds, k),
                       << >>, command.baselines)
  IN  IF once = << >> THEN <<"fpc", "bdi">> ELSE once

Methods ==
  <<"byte_select">> \o (CASE command.program = "evaluate" -> << >>
                          [] command.program = "analyze"  -> <<"upper_bound">>
                          [] command.program = "compare"  -> Baselines)

Nothing == [aggregate |-> << >>, samples |-> << >>, trace_count |-> 0]

NoSums == [m \in ToSet(Methods) |-> Nothing]

ReportInit ==
  /\ Init /\ section = 1 /\ pass = 1
  /\ sums = << >> /\ means = << >> /\ out = << >>

(* parse_trace_groups(), parse_baseline_options(), then load_model(), which *)
(* may refuse.                                                             *)
StartReport ==
  /\ phase = "parsing"
  /\ LET legal == /\ \A i, j \in DOMAIN groups : groups[i].name = groups[j].name => i = j
                  /\ ToSet(command.baselines) \subseteq Kinds
     IN  phase' \in IF legal THEN {"reporting", "refused"} ELSE {"refused"}
  /\ sums' = NoSums /\ means' = [m \in ToSet(Methods) |-> << >>]
  /\ UNCHANGED <<callVars, traceVars, visitVars, dataVars, section, pass, out>>

(* What is added up for the row, and what it is divided by.                *)
Row(kind, method, terms, divisor) ==
  [kind |-> kind, section |-> section, method |-> method, terms |-> terms, divisor |-> divisor]

(* Only evaluate and analyze accept one trace without full blocks.         *)
AcceptsEmpty == command.form = "one" /\ command.program # "compare"

KeepsTheFirst(sum, blocks) ==
  [aggregate   |-> IF sum.trace_count = 0 THEN blocks ELSE sum.aggregate,
   samples     |-> Append(sum.samples, blocks),
   trace_count |-> sum.trace_count + 1]

(* merge_evaluation() and its like, and the sums the means are made from.  *)
Merged(sum, blocks) ==
  [aggregate   |-> sum.aggregate \o blocks,
   samples     |-> Append(sum.samples, blocks),
   trace_count |-> sum.trace_count + 1]

UnderWay == phase = "reporting" /\ section <= Len(groups)
Unread   == entry <= Len(groups[section].paths)

(* read_bytes() takes the trace in one go, its last partial block is left. *)
ReadTrace ==
  /\ UnderWay /\ Unread
  /\ LET path   == groups[section].paths[entry]
         blocks == files[path]
     IN  IF path \in present /\ (blocks # << >> \/ AcceptsEmpty)
           THEN /\ entry' = entry + 1
                /\ IF command.form = "groups"
                     THEN /\ sums' = [sums EXCEPT ![Methods[pass]] = Merged(@, blocks)]
                          /\ UNCHANGED out
                     ELSE /\ sums' = [m \in DOMAIN sums |-> Merged(sums[m], blocks)]
                          /\ out' = out \o [i \in DOMAIN Methods |->
                                             Row("trace", Methods[i], <<blocks>>, 1)]
                /\ UNCHANGED phase
           ELSE /\ phase' = "refused"
                /\ UNCHANGED <<entry, sums, out>>
  /\ UNCHANGED <<callVars, traceVars, opened, index, dataVars, section, pass, means>>

Totals(methods) ==
  LET Mean(m)     == Row("mean", m, sums[m].samples, sums[m].trace_count)
      Weighted(m) == Row("weighted", m, <<sums[m].aggregate>>, 1)
  IN  [i \in DOMAIN methods |-> Mean(methods[i])]
        \o [i \in DOMAIN methods |-> Weighted(methods[i])]

EndList ==
  /\ UnderWay /\ ~Unread /\ command.form # "groups"
  /\ out' = IF command.form = "list" THEN out \o Totals(Methods) ELSE out
  /\ phase' = "reported"
  /\ UNCHANGED <<callVars, traceVars, visitVars, dataVars, section, pass, sums, means>>

(* analyze-groups prints both methods when it has both.                    *)
Printed ==
  IF command.program # "analyze" THEN <<Methods[pass]>>
  ELSE IF pass = Len(Methods) THEN Methods
  ELSE << >>

(* The next method reads the group again, or the next group begins.        *)
EndPassOfGroup ==
  /\ UnderWay /\ ~Unread /\ command.form = "groups"
  /\ out' = out \o Totals(Printed)
  /\ means' = [m \in DOMAIN means |->
                 IF m \in ToSet(Printed) THEN Append(means[m], sums[m].samples) ELSE means[m]]
  /\ entry' = 1
  /\ IF pass < Len(Methods)
       THEN pass' = pass + 1 /\ UNCHANGED <<section, sums>>
       ELSE pass' = 1 /\ section' = section + 1 /\ sums' = NoSums
  /\ UNCHANGED <<callVars, phase, traceVars, opened, index, dataVars>>

EndGroups ==
  /\ phase = "reporting" /\ section > Len(groups)
  /\ out' = out \o [i \in DOMAIN Methods |->
                     Row("mean of means", Methods[i], means[Methods[i]], section - 1)]
  /\ phase' = "reported"
  /\ UNCHANGED <<callVars, traceVars, visitVars, dataVars, section, pass, sums, means>>

Report == StartReport \/ ReadTrace \/ EndList \/ EndPassOfGroup \/ EndGroups

BselNext ==
  \/ command.program = "train" /\ Next /\ UNCHANGED reportVars
  \/ command.program # "train" /\ Report
  \/ /\ command.program # "train"
     /\ \E f \in DOMAIN files : Change(f)
     /\ UNCHANGED reportVars

BselSpec == ReportInit /\ [][BselNext]_<<vars, reportVars>>

-----------------------------------------------------------------------------

Rows(kind, s, m) ==
  SelectSeq(out, LAMBDA r : r.kind = kind /\ r.section = s /\ r.method = m)

(* A report adds up, and compares like with like.  The weighted row of a   *)
(* method is over the blocks of the traces its mean is over, each counted  *)
(* once and each path of the group or list read for it (and, in a list,    *)
(* the traces shown above it); every mean is divided by the number of its  *)
(* terms.  Methods set side by side in one list are measured on the same   *)
(* blocks whatever happens to the traces, those of a group, read one after *)
(* the other, when no trace changes.                                       *)
RowsAddUp ==
  \A s \in DOMAIN groups : \A m \in ToSet(Methods) :
    LET mean == Rows("mean", s, m)  weighted == Rows("weighted", s, m)
    IN  /\ Len(mean) = Len(weighted) /\ Len(mean) <= 1
        /\ \A i \in DOMAIN mean :
             /\ <<FlattenSeq(mean[i].terms)>> = weighted[i].terms
             /\ mean[i].divisor = Len(groups[s].paths)
             /\ mean[i].divisor = Len(mean[i].terms)
             /\ command.form = "list" =>
                  LET each == Rows("trace", s, m)
                  IN  mean[i].terms = [k \in DOMAIN each |-> each[k].terms[1]]

SameBlocks ==
  \A i, j \in DOMAIN out :
    /\ out[i].kind = out[j].kind /\ out[i].kind \in {"mean", "weighted"}
    /\ out[i].section = out[j].section
    /\ command.form # "groups" \/ changes = 0
    => out[i].terms = out[j].terms

(* A report that ends early ends without the rows that would speak for all *)
(* traces; one that is complete has them for each method and each group.   *)
CompleteOrCut ==
  LET last == IF command.form = "list" THEN "weighted" ELSE "mean of means"
  IN  /\ phase = "refused" => \A i \in DOMAIN out : out[i].kind # "mean of means"
      /\ phase = "refused" /\ command.form = "list" =>
           \A i \in DOMAIN out : out[i].kind = "trace"
      /\ phase = "reported" /\ command.form # "one" =>
           \A m \in ToSet(Methods) :
             /\ \A s \in DOMAIN groups : Len(Rows("weighted", s, m)) = 1
             /\ command.form = "groups" =>
                  LET all == Rows("mean of means", Len(groups) + 1, m)
                  IN  /\ Len(all) = 1 /\ all[1].divisor = Len(groups)
                      /\ \A s \in DOMAIN groups : all[1].terms[s] = Rows("mean", s, m)[1].terms

(* The three parts of what a report must be, at any moment of it.          *)
ReportsAddUp ==
  command.program # "train" => RowsAddUp /\ SameBlocks /\ CompleteOrCut
=============================================================================
