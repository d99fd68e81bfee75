-------------------------- MODULE MCTraceTraining --------------------------
(* Traces of one to three blocks of four bytes; commands with one trace,    *)
(* two, and one given twice; holdouts that leave nothing out, a middle, and *)
(* all but one block; legal, repeated, oversized and conflicting targets.   *)
(* Reports of every kind and form over one, two or three readings of two    *)
(* traces, with repeated baselines, an unknown one and repeated groups.     *)
EXTENDS Reports

MCContents == {<<1, 1, 1, 1>>, <<0, 0, 1, 2>>}

Given(t)   == [name |-> "target", value |-> t]
Paper(n)   == [name |-> "paper-config", value |-> n]
Holdout(p) == [name |-> "holdout", value |-> p]

Call(ps, as) == [program |-> "train", paths |-> ps, args |-> as]

Group(n, ps) == [name |-> n, paths |-> ps]

Reported(program, form, gs, kinds) ==
  [program |-> program, form |-> form, groups |-> gs, baselines |-> kinds,
   paths |-> FlattenSeq([i \in DOMAIN gs |-> gs[i].paths]), args |-> << >>]

One == <<Group("", <<"a">>)>>
Listed == <<Group("", <<"a", "b", "a">>)>>
Grouped == <<Group("x", <<"a", "b">>), Group("y", <<"a">>)>>

Three == Target(3, 2, 1, 0, 0)
Two   == Target(2, 1, 1, 0, 0)
Full  == Target(3, 4, 1, 0, 0)

MCPaperConfigs ==
  [one    |-> <<Three>>,
   narrow |-> <<Target(3, 3, 1, 1, 0)>>,
   tagged |-> <<Target(3, 2, 1, 1, 0), Target(2, 2, 1, 1, 1)>>]

MCCommands ==
  {Call(<<"a">>, << >>),
   Call(<<"a", "b">>, <<Holdout(50), Given(Two)>>),
   Call(<<"a", "a">>, <<Holdout(67), Given(Two)>>),
   Call(<<"a">>, <<Holdout(99), Given(Two), Given(Full)>>),
   Call(<<"a">>, <<Holdout(34), Given(Two), Given(Two)>>),
   Call(<<"a">>, <<Paper("tagged"), Holdout(50)>>),
   Call(<<"a">>, <<Paper("narrow")>>),
   Call(<<"a">>, <<Paper("one"), Given(Two)>>),
   Call(<<"a">>, <<Given(Two), Paper("one")>>),
   Call(<<"a">>, <<Paper("other")>>),
   Call(<<"a">>, <<Holdout(0)>>),
   Call(<<"a">>, <<Given(Target(4, 1, 1, 0, 0))>>),
   Call(<<"a">>, <<Given(Target(2, 1, 2, 0, 0))>>),
   Call(<<"a">>, <<Given(Target(3, 5, 1, 0, 0))>>),
   Reported("evaluate", "one", One, << >>),
   Reported("analyze", "one", One, << >>),
   Reported("compare", "one", One, <<"lz5">>),
   Reported("compare", "one", One, << >>),
   Reported("evaluate", "list", Listed, << >>),
   Reported("analyze", "list", Listed, << >>),
   Reported("compare", "list", Listed, <<"bpc", "fpc", "bpc">>),
   Reported("evaluate", "groups", Grouped, << >>),
   Reported("analyze", "groups", Grouped, << >>),
   Reported("compare", "groups", Grouped, <<"zstd">>),
   Reported("evaluate", "groups", <<Group("x", <<"a">>), Group("x", <<"a">>)>>, << >>)}
=============================================================================
