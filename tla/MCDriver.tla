------------------------------ MODULE MCDriver ------------------------------
EXTENDS Driver, TLC

CONSTANTS a1, a2

NotThere == [seeds |-> 0, score |-> 0, failed |-> FALSE]
Once(x)  == [seeds |-> 1, score |-> x, failed |-> FALSE]
Twice(x) == [seeds |-> 2, score |-> x, failed |-> FALSE]
Broken   == [seeds |-> 2, score |-> 0, failed |-> TRUE]
By(d, x, y, z) == 0 :> d @@ 1 :> x @@ 2 :> y @@ 3 :> z

(* Both arm-runs found 1, the second one better; 2 failed for one of them;  *)
(* 3 has one seed only.  Or 3 is cut off, behind equals; or nothing is left.*)
Rich == a1 :> By(NotThere, Twice(3), Broken, Once(0)) @@ a2 :> By(NotThere, Twice(1), Twice(2), NotThere)
Poor == a1 :> By(Twice(0), Twice(1), NotThere, NotThere) @@ a2 :> By(NotThere, NotThere, Twice(1), Broken)
Some == {Rich, Poor}
Left == {NoRow, 1}

(* Two selection seeds and one finalist; or one seed and two finalists, the *)
(* better of which may have to beat the default by more than a margin.      *)
Args(top, gain, select) ==
  [top |-> top, min_seeds |-> 2, min_gain |-> gain, select |-> select, validate |-> {101}]
Scripts == {Args(1, 0, {8, 9}), Args(2, 0, {8}), Args(2, 1, {8})}

(* The placer's wirelength, the global-route estimate and the routed result *)
(* rank the candidates differently; 3 does not converge.                    *)
Placed    == 0 :> 3 @@ 1 :> 1 @@ 2 :> 2 @@ 3 :> Bad
Estimated == 0 :> 2 @@ 1 :> 3 @@ 2 :> 1 @@ 3 :> Bad
RoutedAs  == [k \in (0..3) \X {0, 1, 101} |->
                CASE k[1] = 0 -> 5 + k[2] [] k[1] = 1 -> 3 [] k[1] = 2 -> 4 [] k[1] = 3 -> Bad]
DrawnBy   == 1 :> <<1, 3, 2, 0>> @@ 2 :> <<1, 2, 0, 1>>
OneSeed   == <<101>>

(* One arm-run that a repair may lose; one with failures beside a good one; *)
(* a model's beside another.                                                *)
ArmsOf(arms, n) == [arms |-> arms, starts |-> n]
SomeLineups == {ArmsOf(<<"random_grt">>, 3), ArmsOf(<<"random_proxy", "default_seeds">>, 2),
                ArmsOf(<<"llm_proxy", "default_seeds">>, 1)}

TwoSeeds == <<0, 1>>
=============================================================================
