---------------------------- MODULE ExperimentV2 ----------------------------
(***************************************************************************)
(* The second arm comparison: run_arms.py runs the default flow first,     *)
(* whose rows are every searching arm-run's incumbent, then the searching  *)
(* arm-runs in a pool (SearchV2 is one of them), then each best config on  *)
(* held-out seeds.  revalidate.py takes what containers of timed out runs  *)
(* have printed since, and validates again what is still missing.          *)
(*                                                                         *)
(* The default on a search seed succeeds or fails; a held-out evaluation   *)
(* succeeds, fails with a printed result, or is timed out while its        *)
(* container goes on.  A success of an identity is always the same result. *)
(***************************************************************************)
EXTENDS Integers, SequencesExt

CONSTANTS Searchers, FlowConfigs, DefaultFlow,
          DefaultSeeds,          \* of the default arm, in order
          IncumbentSeeds,        \* the search and promotion seeds
          ValidateSeeds2,
          MaxPasses, MaxFaults2  \* bounds: starts of the two scripts, failed evaluations

None2 == "none"

ASSUME SeedsAssumption2 == DefaultSeeds \in Seq(Nat) /\ DefaultFlow \in FlowConfigs

VARIABLES orfs,        \* run_arms.py was given --orfs-var, which is part of every identity
          imported,    \* seeds of the default that import_runs.py recorded as successes
          step2,       \* "off", "default", "arms", "validate", "revalidate"
          lottery,     \* the rows of the default arm: seed and success, in order
          incumbent,   \* what the last start showed its searching arm-runs
          found2,      \* the best config of an arm-run: "running", "raised", None2
          good, failed, \* identities with a successful, with a failed validation row
          log,         \* of an identity: "none", "late", "good", "bad"
          out2,        \* the answers of the pass
          ran, before, \* run in this pass; successful before it, whatever the tool
          summary,     \* the search part of the written report
          compared,    \* its comparison: per arm-run, the held-out seeds it is paired on
          passes, faults2

vars2 == <<orfs, imported, step2, lottery, incumbent, found2, good, failed, log, out2, ran, before,
           summary, compared, passes, faults2>>
scripts == <<orfs, imported>>
rows2   == <<good, failed, log>>
pass    == <<out2, ran, before>>
written == <<summary, compared>>

Tools == {"plain", "with orfs vars"}
RunTool == IF orfs THEN "with orfs vars" ELSE "plain"
Tool == IF step2 = "validate" THEN RunTool ELSE "plain"
Identities == Tools \X FlowConfigs \X ValidateSeeds2

InitV2 ==
  /\ orfs \in BOOLEAN /\ imported \in SUBSET Range(DefaultSeeds)
  /\ step2 = "off" /\ lottery = <<>> /\ incumbent = <<>>
  /\ summary = <<>> /\ compared = [a \in Searchers |-> {}]
  /\ found2 = [a \in Searchers |-> "running"]
  /\ good = {} /\ failed = {} /\ log = [k \in Identities |-> "none"]
  /\ out2 = <<>> /\ ran = {} /\ before = {} /\ passes = 0 /\ faults2 = 0

-----------------------------------------------------------------------------
RunArms ==
  /\ step2 = "off" /\ passes < MaxPasses
  /\ passes' = passes + 1 /\ step2' = "default"
  /\ found2' = [a \in Searchers |-> "running"]
  /\ UNCHANGED <<scripts, lottery, incumbent, rows2, pass, written, faults2>>

(* One row of a seed: the first one counts, in the arm's own statistics     *)
(* (config_stats) and in what the others are shown (incumbent_prior).       *)
RowsOf(rs, s) == {i \in DOMAIN rs : rs[i].seed = s}
FirstOf(rs, s) == rs[Min(RowsOf(rs, s))].ok
LastRowOf(rs, s) == rs[Max(RowsOf(rs, s))].ok
CountedRow(rs, s) == FirstOf(rs, s)
SeedsIn(rs) == {r.seed : r \in Range(rs)}
Incumbent(rs) == [s \in SeedsIn(rs) \cap IncumbentSeeds |-> CountedRow(rs, s)]

(* The default arm, in one batch that is recorded in order; a kill leaves   *)
(* the rows before it.                                                      *)
Replayed(s) == s \in imported \/ \E r \in Range(lottery) : r.seed = s /\ r.ok
DefaultArm ==
  /\ step2 = "default"
  /\ \E bad \in SUBSET {s \in Range(DefaultSeeds) : ~Replayed(s)}, n \in 0..Len(DefaultSeeds) :
       /\ faults2 + Cardinality(bad) <= MaxFaults2 /\ faults2' = faults2 + Cardinality(bad)
       /\ lottery' = lottery \o [i \in 1..n |-> [seed |-> DefaultSeeds[i], ok |-> DefaultSeeds[i] \notin bad]]
       /\ IF n = Len(DefaultSeeds) THEN step2' = "arms" /\ incumbent' = Incumbent(lottery')
                                   ELSE step2' = "off" /\ incumbent' = incumbent
  /\ UNCHANGED <<scripts, found2, rows2, pass, written, passes>>

ArmEnds ==
  /\ step2 = "arms"
  /\ \E a \in Searchers, c \in FlowConfigs \cup {None2, "raised"} :
       found2[a] = "running" /\ found2' = [found2 EXCEPT ![a] = c]
  /\ UNCHANGED <<scripts, step2, lottery, incumbent, rows2, pass, written, passes, faults2>>

(* An arm-run that raises ends the script when the running ones have ended, *)
(* the queued ones are cancelled: nothing is validated, nothing written.    *)
Raises == \E a \in Searchers : found2[a] = "raised"
ArmRaised ==
  /\ step2 = "arms" /\ Raises /\ step2' = "off"
  /\ UNCHANGED <<scripts, lottery, incumbent, found2, rows2, pass, written, passes, faults2>>

Successful == {<<k[2], k[3]>> : k \in good}
StartPass(step) == step2' = step /\ out2' = <<>> /\ ran' = {}
Validate2 ==
  /\ step2 = "arms" /\ \A a \in Searchers : found2[a] \notin {"running", "raised"}
  /\ StartPass("validate") /\ before' = Successful
  /\ UNCHANGED <<scripts, lottery, incumbent, found2, rows2, written, passes, faults2>>

-----------------------------------------------------------------------------
(* validate_v2: the default and every arm-run that found something, on each *)
(* held-out seed; a thread each.  Two arm-runs may have found the same, and *)
(* a thread looks before the other's row is there.                          *)
Results2 == IF step2 = "validate" THEN found2 ELSE summary
Best2(a) == IF a = "default" THEN DefaultFlow ELSE Results2[a]
Jobs2 == {j \in (Searchers \cup {"default"}) \X ValidateSeeds2 : Best2(j[1]) # None2}
Identity2(j) == <<Tool, Best2(j[1]), j[2]>>
Passing == step2 \in {"validate", "revalidate"}
Answered(j, x) == out2' = [i \in DOMAIN out2 \cup {j} |-> IF i = j THEN x ELSE out2[i]]
Twin(j) == \E i \in DOMAIN out2 : Identity2(i) = Identity2(j) /\ Identity2(i) \in ran

Replay2 ==
  /\ Passing
  /\ \E j \in Jobs2 \ DOMAIN out2 : Identity2(j) \in good /\ Answered(j, "good")
  /\ UNCHANGED <<scripts, step2, lottery, incumbent, found2, rows2, ran, before, written, passes, faults2>>

Runs(j) == Identity2(j) \notin good \/ Twin(j)
Ends2(j, x) ==
  /\ Answered(j, x) /\ ran' = ran \cup {Identity2(j)}
  /\ log' = [log EXCEPT ![Identity2(j)] = x]
  /\ good' = IF x = "good" THEN good \cup {Identity2(j)} ELSE good
  /\ failed' = IF x # "good" THEN failed \cup {Identity2(j)} ELSE failed
  /\ faults2' = IF x = "good" THEN faults2 ELSE faults2 + 1
  /\ faults2' <= MaxFaults2
  /\ UNCHANGED <<scripts, step2, lottery, incumbent, found2, before, written, passes>>
Run2 == Passing /\ \E j \in Jobs2 \ DOMAIN out2 : Runs(j) /\ \E x \in {"good", "bad"} : Ends2(j, x)
TimeOut2 == step2 = "validate" /\ \E j \in Jobs2 \ DOMAIN out2 : Runs(j) /\ Ends2(j, "late")

(* A container that was left behind prints its result, or nothing.          *)
LateEnds ==
  /\ \E k \in Identities, x \in {"good", "bad", "none"} :
       log[k] = "late" /\ log' = [log EXCEPT ![k] = x]
  /\ UNCHANGED <<scripts, step2, lottery, incumbent, found2, good, failed, pass, written, passes, faults2>>

(* compare_v2: an arm-run is compared with the default on the held-out      *)
(* seeds that both have a score on, the others are dropped from both means. *)
Scored(b, s) == <<b, s>> \in DOMAIN out2 /\ out2[<<b, s>>] = "good"
Pairs(a) == {s \in ValidateSeeds2 : Scored(a, s) /\ Scored("default", s)}

Report2 ==
  /\ Passing /\ Jobs2 \subseteq DOMAIN out2
  /\ summary' = Results2 /\ compared' = [a \in Searchers |-> Pairs(a)] /\ step2' = "off"
  /\ UNCHANGED <<scripts, lottery, incumbent, found2, rows2, pass, passes, faults2>>

(* A kill, or an evaluation that raises.                                    *)
Die2 ==
  /\ step2 \in {"arms", "validate", "revalidate"} /\ passes < MaxPasses /\ step2' = "off"
  /\ UNCHANGED <<scripts, lottery, incumbent, found2, rows2, pass, written, passes, faults2>>

-----------------------------------------------------------------------------
(* revalidate.py, on a written report: recover_late records what a log now  *)
(* ends in, if no row of the identity is successful; then the missing       *)
(* validations run, without --orfs-var.                                     *)
Late == {k \in failed \ good : log[k] = "good"}
RecoveredIfKnown == good \cup {k \in failed \cap good : log[k] = "good"}
Recovered == good \cup Late
Revalidate ==
  /\ step2 = "off" /\ passes < MaxPasses /\ summary # <<>>
  /\ passes' = passes + 1
  /\ good' = Recovered
  /\ StartPass("revalidate") /\ before' = Successful \cup {<<k[2], k[3]>> : k \in Late}
  /\ UNCHANGED <<scripts, lottery, incumbent, found2, failed, log, written, faults2>>

Over2 == step2 = "off" /\ passes = MaxPasses /\ UNCHANGED vars2

NextV2 == \/ RunArms \/ DefaultArm \/ ArmEnds \/ ArmRaised \/ Validate2 \/ Replay2 \/ Run2 \/ TimeOut2
          \/ LateEnds \/ Report2 \/ Die2 \/ Revalidate \/ Over2

-----------------------------------------------------------------------------
(* The incumbent does not move under a searching arm-run: once it covers    *)
(* every seed, each later start, which resumes the arm-runs' histories,     *)
(* shows the same, though it has measured failed seeds of the default anew. *)
IncumbentStands ==
  [][DOMAIN incumbent = IncumbentSeeds => incumbent' = incumbent]_vars2

(* "Successful validations are replayed from the ResultsDB, so only the     *)
(* missing (config, seed) pairs cost anything", those that a log shows to   *)
(* have ended since included, and what was compared once still is in the    *)
(* report written last: when run_arms.py was given no --orfs-var.           *)
RevalidateReplays ==
  step2 = "revalidate" /\ ~orfs =>
    /\ \A k \in ran : <<k[2], k[3]>> \notin before
    /\ Jobs2 \subseteq DOMAIN out2 => \A a \in Searchers : compared[a] \subseteq Pairs(a)
=============================================================================
