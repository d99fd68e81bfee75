------------------------------ MODULE MCFpcBsel ------------------------------
(* Blocks of six 16-bit words of four 4-bit bytes: arrangements of zeros    *)
(* and two words FPC cannot shorten, and words at the bounds of each of     *)
(* its forms among others.                                                  *)
EXTENDS FpcBselTool

A == 4660     (* 0x1234 *)
B == 20817    (* 0x5151 *)

(* Around the bounds of 2-, 4- and 8-bit numbers, positive and negative;    *)
(* repeated bytes; high halves; pairs of halves.                            *)
Bounds == {1, 2, 7, 8, 127, 128, 65535, 65534, 65533, 65528, 65527, 65408, 65407,
           17476, 4608, 32768, 1800, 63495, 2040, 1288}

Mixed(x, y) == BlockOf([k \in WordIndex |-> IF k % 2 = 1 THEN x ELSE y])

Arranged ==
  {BlockOf(<<w[1], w[2], w[3], w[4], w[1], w[2]>>) : w \in {0, A} \X {0, A, B} \X {0, A, B} \X {0, A, B}}

Around(w) == {BlockOf([k \in WordIndex |-> IF k = 2 THEN w ELSE x]) : x \in {0, A}}

MCTraces ==
  {<<Mixed(0, 0), Mixed(A, 0), Mixed(A, 0), Mixed(A, B)>>,
   <<Mixed(A, A), Mixed(0, B), BlockOf(<<0, A, 1, B, 17476, 0>>), Mixed(A, A),
     Mixed(0, B), Mixed(B, 0)>>}

MCMaxPatterns == {1, 3}

MCInputs ==
  {<<block>> : block \in Arranged \cup UNION {Around(w) : w \in Bounds}}
    \cup {<<Mixed(A, 0), Mixed(0, 0), Mixed(8, B)>>}
=============================================================================
