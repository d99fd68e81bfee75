---------------------------- MODULE MCModelFile ----------------------------
(* Models of four-byte blocks whose numbers have one or two digits of base  *)
(* two: one set and two, tags, an empty set, and one whose targets collide. *)
EXTENDS ModelFile

Halves == <<0, 0, 1, 1>>
Same   == <<0, 0, 0, 0>>
Three  == <<0, 1, 1, 2>>

MCModels ==
  {<<PatternSet(3, 1, 0, 0, <<Halves, Same, Three>>)>>,
   <<PatternSet(2, 1, 0, 0, <<Same>>), PatternSet(3, 1, 0, 0, <<Halves, Same>>)>>,
   <<PatternSet(3, 1, 1, 1, <<Halves, Same>>), PatternSet(2, 1, 1, 0, <<Same>>)>>,
   <<PatternSet(3, 0, 0, 0, <<Three>>), PatternSet(2, 1, 0, 0, << >>)>>,
   <<PatternSet(3, 1, 0, 0, <<Same>>), PatternSet(3, 1, 0, 0, <<Halves>>)>>}

=============================================================================
