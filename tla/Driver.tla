------------------------------- MODULE Driver -------------------------------
(***************************************************************************)
(* The scripts that drive a comparison on one database: the first          *)
(* experiment (experiment.py's own main), the second (run_arms.py and      *)
(* revalidate.py), and the final round (final_round.py) on what a search   *)
(* of the second has left.  A database belongs to one of them.             *)
(***************************************************************************)
EXTENDS FinalRound, ExperimentV1, ExperimentV2

VARIABLE script          \* "v1", "v2" or "final"

finals == vars
all    == <<script, finals, vars1, vars2>>

(* The parts that are not run are in one state.                             *)
Unused1 == /\ kind = <<>> /\ rows = <<>> /\ at = <<>> /\ rnd = <<>> /\ last = <<>> /\ todo = <<>>
           /\ faults = 0 /\ xpc = "off" /\ jobs = {} /\ entry = <<>> /\ report = <<>> /\ lost = {} /\ left1 = 0
Unused2 == /\ orfs = FALSE /\ imported = {} /\ step2 = "off" /\ lottery = <<>> /\ incumbent = <<>>
           /\ found2 = <<>> /\ good = {} /\ failed = {} /\ log = <<>> /\ out2 = <<>> /\ ran = {}
           /\ before = {} /\ summary = <<>> /\ compared = <<>> /\ passes = 0 /\ faults2 = 0
UnusedFinal == /\ search = <<>> /\ args = <<>> /\ known = <<>> /\ cands = {} /\ pc = "off" /\ out = <<>>
               /\ pick = None /\ starts = 0 /\ settled = None

DriverInit ==
  \/ script = "v1" /\ InitV1 /\ Unused2 /\ UnusedFinal
  \/ script = "v2" /\ InitV2 /\ Unused1 /\ UnusedFinal
  \/ script = "final" /\ Init /\ Unused1 /\ Unused2

Experiment1 == script = "v1" /\ NextV1 /\ UNCHANGED <<script, finals, vars2>>
Experiment2 == script = "v2" /\ NextV2 /\ UNCHANGED <<script, finals, vars1>>
FinalRound2 == script = "final" /\ Next /\ UNCHANGED <<script, vars1, vars2>>

DriverNext == Experiment1 \/ Experiment2 \/ FinalRound2
DriverSpec == DriverInit /\ [][DriverNext]_all

-----------------------------------------------------------------------------
(* A row of the first experiment is a batch's result of its stage and       *)
(* round; the second one's rows of an identity and its log fit together.    *)
RowOK(r) == r.rnd \in Nat /\ r.id.stage \in Stages /\ r.id.cfg \in PlacerConfigs /\ r.res \in {Infra, Outcome(r.id)}
ExperimentsTypeOK ==
  /\ \A r \in AllRows : RowOK(r)
  /\ \A a \in ArmRuns : rnd[a] <= last[a] /\ (\A r \in Range(rows[a, "cache"]) : Succeeds(r.res))
  /\ good \cup failed \subseteq Identities
  /\ \A k \in DOMAIN log : log[k] \in {"late", "bad"} => k \in failed
=============================================================================
