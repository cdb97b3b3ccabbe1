------------------------------ MODULE MCRouter ------------------------------
(***************************************************************************)
(* Router for TLC: patterns that overlap in every way two parts allow.     *)
(***************************************************************************)
EXTENDS Router

\* The patterns meet what the theorems ask of them.
ASSUME MCPatternsMeetHypotheses == WildcardsLast /\ NamesOnce

S(t) == [kind |-> "static", text |-> t]
P(t) == [kind |-> "param", text |-> t]
W(t) == [kind |-> "wildcard", text |-> t]

MCPatterns == {
  <<>>, <<P("x")>>, <<W("w")>>, <<S("a"), S("b")>>, <<S("a"), P("y")>>,
  <<P("x"), S("b")>>, <<P("z"), S("a")>>, <<P("x"), P("y")>>,
  <<S("a"), W("w")>>, <<P("x"), P("y"), W("w")>>}

MCPaths == {
  <<"">>, <<"a">>, <<"a", "", "b">>, <<"a", "c">>, <<"c", "b">>, <<"c", "a">>,
  <<"a", "b", "", "c">>}

MCQueries == {<<>>, <<"k", "k">>}
=============================================================================
