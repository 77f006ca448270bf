---------------------------- MODULE ExperimentV1 ----------------------------
(***************************************************************************)
(* The first arm comparison (experiment.py): run_experiment runs the       *)
(* arm-runs in a pool, then each one's best config on held-out seeds, and  *)
(* writes a report.  repair moves the successes of the arm-runs that met a *)
(* failure of the infrastructure aside, deletes their other rows, runs     *)
(* these arm-runs again and merges them into the report.                   *)
(*                                                                         *)
(* A kill, or an arm-run that raises, ends a start without a report.       *)
(***************************************************************************)
EXTENDS SearchV1

CONSTANT Lineups         \* the arm-runs of an experiment, in order; bound: starts of the script

ASSUME LineupsAssumption ==
  \A x \in Lineups :
    /\ x.arms \in Seq({"default_seeds", "random_proxy", "random_grt", "llm_proxy", "llm_grt", "llm_grt_expanded"})
    /\ x.starts \in Nat
    /\ \A a \in DOMAIN x.arms :
         x.arms[a] \in {"random_proxy", "random_grt"} => Drawn[a] \in [1..Rounds * Batch -> PlacerConfigs]

VARIABLES xpc,           \* "off", "search", "validate", "copied"
          jobs,          \* the arm-runs of this start
          entry,         \* what this start found of an arm-run
          report,        \* the written report: of an arm-run, or Missing
          lost,          \* arm-runs that were deleted and have not been reported since
          left1          \* starts left

driving == <<xpc, jobs, entry, report, lost, left1>>
vars1 == <<kind, rows, at, searching, todo, faults, driving>>

Missing == [best |-> Bad, early |-> TRUE, validated |-> {Bad}]

InitV1 ==
  /\ \E x \in Lineups : kind = x.arms /\ left1 = x.starts
  /\ rows = [k \in ArmRuns \X Places |-> <<>>]
  /\ at = [a \in ArmRuns |-> "idle"]
  /\ rnd = [a \in ArmRuns |-> 0] /\ last = [a \in ArmRuns |-> 0]
  /\ todo = [a \in ArmRuns |-> <<>>] /\ faults = 0
  /\ xpc = "off" /\ jobs = {} /\ lost = {}
  /\ entry = [a \in ArmRuns |-> Missing] /\ report = [a \in ArmRuns |-> Missing]

-----------------------------------------------------------------------------
Launch(as) ==
  /\ jobs' = as
  /\ at' = [a \in ArmRuns |-> IF a \in as THEN "queued" ELSE "idle"]
  /\ xpc' = "search"

Stop ==
  /\ xpc' = "off" /\ jobs' = {} /\ entry' = [a \in ArmRuns |-> Missing]
  /\ at' = [a \in ArmRuns |-> "idle"] /\ todo' = [a \in ArmRuns |-> <<>>]

RunExperiment ==
  /\ xpc = "off" /\ left1 > 0
  /\ left1' = left1 - 1 /\ Launch(ArmRuns)
  /\ UNCHANGED <<kind, rows, searching, todo, faults, entry, report, lost>>

ArmStep == xpc = "search" /\ \E a \in jobs : Search(a) /\ UNCHANGED driving

(* The wall clock of the experiment is looked at between rounds only.       *)
ArmOutOfTime ==
  /\ xpc = "search"
  /\ \E a \in jobs : at[a] \in {"round", "queued"} /\ GoTo(a, "late")
  /\ UNCHANGED <<kind, rows, searching, todo, faults, driving>>

Found(a) == [best |-> BestRouted(a), early |-> at[a] = "late", validated |-> {}]
MapEnds ==
  /\ xpc = "search" /\ \A a \in jobs : at[a] \in {"searched", "late"}
  /\ xpc' = "validate" /\ entry' = [a \in ArmRuns |-> IF a \in jobs THEN Found(a) ELSE Missing]
  /\ UNCHANGED <<kind, rows, at, searching, todo, faults, jobs, report, lost, left1>>

(* An exception cancels what is queued, and is raised when the pool is      *)
(* empty: nothing is validated.                                             *)
MapRaises ==
  /\ xpc = "search"
  /\ \E a \in jobs : at[a] = "raised"
  /\ \A a \in jobs : at[a] \in {"queued", "searched", "late", "raised"}
  /\ Stop
  /\ UNCHANGED <<kind, rows, searching, faults, report, lost, left1>>

(* validate: one arm-run after the other.                                   *)
HeldOut(a) == [i \in DOMAIN HeldOutSeeds |-> Id("route", BestConfig(a), HeldOutSeeds[i])]
First(s) == {a \in s : \A b \in s : a <= b}
Validate ==
  /\ xpc = "validate" /\ \A a \in jobs : Batched(a) /\ at[a] # "validating"
  /\ \E a \in First({b \in jobs : at[b] # "validated"}) :
       IF BestRouted(a) = Bad THEN GoTo(a, "validated") /\ UNCHANGED <<todo, faults>>    \* "no routed result"
       ELSE GoTo(a, "validating") /\ Ask(a, HeldOut(a), "validate")
  /\ UNCHANGED <<kind, rows, searching, driving>>

RecordValidation == xpc = "validate" /\ \E a \in jobs : Record(a) /\ UNCHANGED driving

Validated1(a) == {r.res : r \in {x \in Range(LastOf(rows[a, "validate"], Len(HeldOutSeeds))) : Succeeds(x.res)}}
EndValidation ==
  /\ xpc = "validate"
  /\ \E a \in jobs : /\ at[a] = "validating" /\ Batched(a) /\ GoTo(a, "validated")
                     /\ entry' = [entry EXCEPT ![a].validated = Validated1(a)]
  /\ UNCHANGED <<kind, rows, searching, todo, faults, xpc, jobs, report, lost, left1>>

(* A new report, or the new entries merged into the one repair was given.   *)
MergedOldFirst == [a \in ArmRuns |-> IF report[a] # Missing THEN report[a] ELSE entry[a]]
Merged == [a \in ArmRuns |-> IF a \in jobs THEN entry[a] ELSE report[a]]
Write ==
  /\ xpc = "validate" /\ \A a \in jobs : at[a] = "validated"
  /\ report' = Merged /\ lost' = lost \ jobs
  /\ Stop
  /\ UNCHANGED <<kind, rows, searching, faults, left1>>

-----------------------------------------------------------------------------
(* repair, on a written report.                                             *)
Written == \A a \in ArmRuns : report[a] # Missing
MetInfra(a) == \E place \in {"search", "validate"} : \E r \in Range(rows[a, place]) : r.res = Infra
InfraFailed == {a \in ArmRuns : MetInfra(a)}

Good(rs) == Of(rs, LAMBDA r : Succeeds(r.res))
Rest(rs) == Of(rs, LAMBDA r : ~Succeeds(r.res))
SetAsideWith(as, Searched(_), Checked(_)) ==
  [k \in DOMAIN rows |->
     IF k[1] \notin as THEN rows[k]
     ELSE IF k[2] = "cache" THEN rows[k] \o Searched(rows[k[1], "search"]) \o Checked(rows[k[1], "validate"])
     ELSE Rest(rows[k])]
Nothing(rs) == <<>>
Every(rs)   == rs
SetAsideEverything(as)  == SetAsideWith(as, Every, Every)
SetAsideSearchedOnly(as) == SetAsideWith(as, Good, Nothing)
SetAside(as) == SetAsideWith(as, Good, Good)
Repair ==
  /\ xpc = "off" /\ left1 > 0 /\ Written /\ InfraFailed # {}
  /\ left1' = left1 - 1
  /\ jobs' = InfraFailed /\ rows' = SetAside(InfraFailed) /\ xpc' = "copied"
  /\ UNCHANGED <<kind, at, searching, todo, faults, entry, report, lost>>

Purge ==
  /\ xpc = "copied"
  /\ rows' = [k \in DOMAIN rows |-> IF k[1] \in jobs /\ k[2] # "cache" THEN <<>> ELSE rows[k]]
  /\ lost' = lost \cup jobs
  /\ Launch(jobs)
  /\ UNCHANGED <<kind, searching, todo, faults, entry, report, left1>>

Kill == xpc # "off" /\ left1 > 0 /\ Stop /\ UNCHANGED <<kind, rows, searching, faults, report, lost, left1>>

Over1 == xpc = "off" /\ left1 = 0 /\ UNCHANGED vars1

NextV1 == \/ RunExperiment \/ ArmStep \/ ArmOutOfTime \/ MapEnds \/ MapRaises \/ Validate \/ RecordValidation
          \/ EndValidation \/ Write \/ Repair \/ Purge \/ Kill \/ Over1
-----------------------------------------------------------------------------
(* No step loses a success that was recorded: what a kill, a purge or a     *)
(* second start leaves behind is replayed, never paid for again.            *)
SuccessesKept == [][Measured \subseteq Measured']_vars1

(* What a search without failures, kills or repairs finds.                  *)
True(stage, cs) == [i \in DOMAIN cs |-> [id  |-> Id(stage, cs[i], SearchSeed),
                                         res |-> Outcome(Id(stage, cs[i], SearchSeed))]]
BestOf(ids) == LET xs == {Outcome(i) : i \in ids} \ {Bad} IN IF xs = {} THEN Bad ELSE Min(xs)
Screened(a, cs) == LET ok == Feasible(True("proxy", cs))
                   IN  Choice(IF HasGrt(a) THEN True("grt", Lines(ok)) ELSE ok)
DrawnIn(a, n) == SubSeq(Drawn[a], n * Batch + 1, (n + 1) * Batch)
Undisturbed(a) ==
  IF Random(a)
  THEN BestOf(UNION {Range(Requests("route", Screened(a, DrawnIn(a, n)))) : n \in 0..Rounds - 1})
  ELSE BestOf({Id("route", DefaultKnobs, s) : s \in Range(LotterySeeds)})

(* The report tells of an arm-run without a model what an undisturbed       *)
(* search would, whatever failed, was killed, resumed or repaired before:   *)
(* unless the wall clock stopped it, it still has failures to repair, or a  *)
(* repair deleted it and did not come to its end.                           *)
RepairHeals ==
  xpc = "off" => \A a \in ArmRuns \ lost :
    Asks(a) \/ report[a] = Missing \/ report[a].early \/ MetInfra(a)
      \/ report[a].best = Undisturbed(a)

(* "The proxy-only ablation must not learn anything from routing, not even  *)
(* through the ordering": it shows what it would show if nothing had been   *)
(* routed, as long as no two of its candidates, or two rows of one, tie.    *)
NoTies(rs) == \A i, j \in DOMAIN rs : Succeeds(rs[i].res) /\ rs[i].res = rs[j].res => i = j
BlindToRoutes ==
  \A a \in ArmRuns :
    LET screened == OfStage(rows[a, "search"], "proxy") IN
    kind[a] = "llm_proxy" /\ at[a] = "round" /\ NoTies(screened)
      => Shown(rows[a, "search"]) = Shown(screened)
=============================================================================
