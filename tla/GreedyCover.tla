----------------------------- MODULE GreedyCover -----------------------------
(***************************************************************************)
(* What both selection modes of the trainer promise: at every pick the     *)
(* candidate that covers the most uncovered blocks is taken, the smaller   *)
(* pattern first among equals; selection stops only when MaxPatterns       *)
(* patterns are taken or no remaining candidate covers anything.  The      *)
(* order and the counts are therefore functions of what was loaded.        *)
(***************************************************************************)
EXTENDS Patterns, Sequences

CONSTANTS MaxPatterns

VARIABLES
  counts,       (* number of blocks per simplest pattern                   *)
  stage,        (* "empty", "picking" or "finished"                        *)
  open,         (* candidates not picked yet                               *)
  uncovered,    (* atoms no picked pattern describes                       *)
  patterns,     (* picked patterns, in order                               *)
  marginals     (* blocks newly covered by each pick                       *)

vars == <<counts, stage, open, uncovered, patterns, marginals>>

Gain(c) == Coverage(counts, c, uncovered)

Init ==
  /\ stage = "empty"
  /\ open = {} /\ uncovered = {}
  /\ patterns = << >> /\ marginals = << >>

(* The candidates and the atoms come from the earlier phases.              *)
Load ==
  /\ stage = "empty" /\ stage' = "picking"
  /\ UNCHANGED <<counts, patterns, marginals>>

(* c beats every other candidate.                                          *)
IsBest(c) ==
  \A d \in open \ {c} : \/ Gain(d) < Gain(c)
                        \/ Gain(d) = Gain(c) /\ Before(c, d)

Pick(c) ==
  /\ stage = "picking"
  /\ Len(patterns) < MaxPatterns
  /\ Gain(c) > 0
  /\ IsBest(c)
  /\ open'      = open \ {c}
  /\ uncovered' = uncovered \ Below(c, uncovered)
  /\ patterns'  = Append(patterns, c)
  /\ marginals' = Append(marginals, Gain(c))
  /\ UNCHANGED <<counts, stage>>

Finish ==
  /\ stage = "picking" /\ stage' = "finished"
  /\ Len(patterns) < MaxPatterns => \A c \in open : Gain(c) = 0
  /\ UNCHANGED <<counts, open, uncovered, patterns, marginals>>

Next == Load \/ (\E c \in open : Pick(c)) \/ Finish

Spec == Init /\ [][Next]_vars
=============================================================================
