---------------------------- MODULE MCContainer ----------------------------
(* Files of at most two blocks of four bytes and a tail: an empty file, a   *)
(* tail alone, blocks alone, raw and compressed blocks in either order.     *)
(* Two of the models differ only in the order of their patterns, as two     *)
(* trainings may.                                                           *)
EXTENDS Container

Input(blocks, tail) == [blocks |-> blocks, tail |-> tail]

MCOriginals ==
  {Input(<< >>, << >>),
   Input(<< >>, <<1, 0>>),
   Input(<<<<1, 1, 1, 1>>>>, << >>),
   Input(<<<<0, 0, 1, 1>>, <<1, 2, 0, 2>>>>, <<1>>),
   Input(<<<<1, 2, 0, 0>>, <<2, 0, 2, 0>>>>, <<0, 1, 0>>)}

Halves == <<0, 0, 1, 1>>
Odd    == <<0, 1, 0, 1>>
Same   == <<0, 0, 0, 0>>

MCModels ==
  {<<PatternSet(3, 1, 0, 0, <<Halves, Odd>>)>>,
   <<PatternSet(3, 1, 0, 0, <<Odd, Halves>>)>>,
   <<PatternSet(3, 1, 1, 1, <<Odd>>), PatternSet(2, 1, 1, 0, <<Same>>)>>}
=============================================================================
