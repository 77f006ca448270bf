---------------------------- MODULE MCEvalCache ----------------------------
(* Two arm-runs that ask for the same identities.                          *)
EXTENDS EvalCache, TLC

CONSTANTS a1, a2, k1, k2

(* Two keys in both orders, so that each arm-run may own one run and join   *)
(* the other, and one key twice in a batch; one key or the other.           *)
TwoKeys  == {<<k1, k2>>, <<k2, k1>>}
Mixed    == TwoKeys \cup {<<k1, k1>>, <<k2, k2>>}
JustOne  == {<<k1>>}
Singles  == {<<k1>>, <<k2>>}
Symmetry == Permutations(Arms)
KeySymmetry == Permutations(Arms) \cup Permutations(Keys)
=============================================================================
