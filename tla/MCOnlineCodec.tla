--------------------------- MODULE MCOnlineCodec ---------------------------
(* Models of four-byte blocks: capacity of the pattern index exactly used   *)
(* and exceeded, a padded dictionary, sets given larger target first, tags  *)
(* shared and distinct, no metadata, and each way a model is refused.       *)
EXTENDS Hardware

P(a, b, c, d) == <<a, b, c, d>>

Same   == P(0, 0, 0, 0)
Halves == P(0, 0, 1, 1)
Odd    == P(0, 1, 0, 1)
Ends   == P(0, 1, 1, 0)
Last1  == P(0, 0, 0, 1)
Three  == P(0, 1, 2, 0)

MCModels ==
  {<<PatternSet(3, 1, 0, 0, <<Same, Halves, Odd, Ends>>)>>,
   <<PatternSet(3, 1, 0, 0, <<Last1, Halves, Odd, Ends, Same>>)>>,
   <<PatternSet(3, 1, 1, 0, <<Odd, Same>>), PatternSet(2, 1, 1, 1, <<Same>>)>>,
   <<PatternSet(2, 1, 1, 1, <<Same>>), PatternSet(3, 1, 1, 1, <<Last1, Ends>>)>>,
   <<PatternSet(3, 1, 1, 2, <<Same>>)>>,
   <<PatternSet(3, 1, 1, 1, <<Same, Last1, Ends>>)>>,
   <<PatternSet(3, 1, 0, 0, <<Same>>), PatternSet(3, 1, 0, 0, <<Odd>>)>>,
   <<PatternSet(3, 1, 0, 0, <<Three>>)>>,
   <<PatternSet(3, 0, 0, 0, <<Three>>), PatternSet(2, 1, 0, 0, << >>)>>,
   <<PatternSet(3, 2, 2, 3, <<Same>>), PatternSet(2, 1, 0, 0, <<Same>>)>>}
=============================================================================
