---------------------------- MODULE RecencyCache ----------------------------
(***************************************************************************)
(* A set-associative cache with least-recently-used replacement, without   *)
(* clocks or slots: each set is a linear order on the lines it holds.      *)
(* <<l, m>> is in it when l was not used before m; a line that is held is  *)
(* related to itself.  What the simulated last-level cache of the trace    *)
(* tool stands for.                                                        *)
(***************************************************************************)
EXTENDS Naturals, FiniteSets

CONSTANTS
  SetCount, Ways,
  Lines           (* line numbers                                          *)

VARIABLES order

CacheSets == 0..(SetCount - 1)

Init == order = [s \in CacheSets |-> {}]

Held(s) == {l \in Lines : <<l, l>> \in order[s]}

Oldest(s) == {m \in Held(s) : \A l \in Held(s) : <<l, m>> \in order[s]}

Use(line) ==
  LET s       == line % SetCount
      evicted == IF line \notin Held(s) /\ Cardinality(Held(s)) = Ways THEN Oldest(s) ELSE {}
      kept    == Held(s) \ (evicted \cup {line})
  IN  order' = [order EXCEPT ![s] = (@ \cap (kept \X kept))
                                      \cup {<<line, l>> : l \in kept \cup {line}}]

Next == \E line \in Lines : Use(line)

Spec == Init /\ [][Next]_order
=============================================================================
