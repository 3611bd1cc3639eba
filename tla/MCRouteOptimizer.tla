-------------------------- MODULE MCRouteOptimizer --------------------------
(***************************************************************************)
(* A small instance of RouteOptimizer for TLC: three bins, two of them at  *)
(* the same distance from the truck, on lists with and without repetition. *)
(***************************************************************************)
EXTENDS RouteOptimizer, TLC

MCBins == {"a", "b", "c"}

MCDist ==
  "truck" :> ("a" :> 2 @@ "b" :> 2 @@ "c" :> 3)
    @@ "a" :> ("a" :> 0 @@ "b" :> 2 @@ "c" :> 1)
    @@ "b" :> ("a" :> 2 @@ "b" :> 0 @@ "c" :> 2)
    @@ "c" :> ("a" :> 1 @@ "b" :> 2 @@ "c" :> 0)

MCLevels == {40, 60, 79, 80, 95}
MCLists == {<<>>, <<"a", "b", "c">>, <<"c", "b", "a">>, <<"b", "a", "b">>, <<"b", "c">>}
MCSpares == 0 .. 2
=============================================================================
