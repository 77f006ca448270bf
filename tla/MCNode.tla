------------------------------- MODULE MCNode -------------------------------
(* One placement, two machines and two threads that ask for its stages.      *)
EXTENDS Node

CONSTANT p

At(stage) == [id |-> p, stage |-> stage]
MCTasks   == 1..2
MCBatches == {<<At("grt")>>, <<At("cts"), At("grt")>>, <<At("route")>>, <<At("route"), At("route")>>}
=============================================================================
