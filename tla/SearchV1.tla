------------------------------ MODULE SearchV1 ------------------------------
(***************************************************************************)
(* The first search loop, run_search (search.py), as the arm-runs of       *)
(* run_arm (experiment.py) run it side by side on one database.  A round   *)
(* proposes a batch, screens it by the placer's wirelength, in some arms   *)
(* also by a global-route estimate, and routes the best.                   *)
(*                                                                         *)
(* Evaluations are deterministic (db.py: "identical identities are         *)
(* bit-identical"), but for failures of the infrastructure.  A result is   *)
(* the number it is ranked by (violations and slack are penalties in it),  *)
(* Bad for a failed or rejected candidate, or Infra.                       *)
(***************************************************************************)
EXTENDS Integers, SequencesExt

CONSTANTS PlacerConfigs, \* placer configs
          DefaultKnobs,  \* the default one
          SearchSeed, HeldOutSeeds,
          Hpwl, GrtWl,   \* of a candidate: a number or Bad
          RoutedWl,      \* of a candidate on a seed: a number or Bad
          Drawn,         \* what a random arm-run's generator draws, from its seed
          Rounds, Batch, RouteTop,
          TopK, MaxFailed, \* how much of its history a proposer shows
          MaxFaults      \* bound: failures of the infrastructure

ASSUME LoopAssumption ==
  /\ Rounds \in Nat \ {0} /\ Batch \in Nat /\ RouteTop \in Nat /\ TopK \in Nat /\ MaxFailed \in Nat
  /\ HeldOutSeeds \in Seq(Nat) /\ DefaultKnobs \in PlacerConfigs

Bad   == -1
Infra == -2

VARIABLES kind,          \* of each arm-run: default_seeds, random_proxy, llm_grt, ...
          rows,          \* the committed rows of an arm-run, of its validation, of its "_cache|" name
          at,            \* where an arm-run is
          rnd, last,     \* its round, and its last one in this start
          todo,          \* results of the running batch that are not recorded yet
          faults

searching == <<rnd, last>>

ArmRuns == DOMAIN kind
Places  == {"search", "validate", "cache"}
Stages  == {"proxy", "grt", "route"}

Random(a)  == kind[a] \in {"random_proxy", "random_grt"}
Asks(a)    == kind[a] \in {"llm_proxy", "llm_grt", "llm_grt_expanded"}
HasGrt(a)  == kind[a] \in {"random_grt", "llm_grt", "llm_grt_expanded"}

-----------------------------------------------------------------------------
(* Results, rows and what is read from them.                                *)
Succeeds(x) == x \notin {Bad, Infra}

Outcome(id) == CASE id.stage = "proxy" -> Hpwl[id.cfg]
                 [] id.stage = "grt"   -> GrtWl[id.cfg]
                 [] id.stage = "route" -> RoutedWl[id.cfg, id.seed]

Id(stage, c, s) == [stage |-> stage, cfg |-> c, seed |-> s]
Requests(stage, cs) == [i \in DOMAIN cs |-> Id(stage, cs[i], SearchSeed)]

AllRows == UNION {Range(rows[k]) : k \in ArmRuns \X Places}
Measured == {r.id : r \in {x \in AllRows : Succeeds(x.res)}}       \* lookup

\* The entries of s at the indices I, and those that pass a test, in their order (ORDER BY id).
At(s, I) == [k \in 1..Cardinality(I) |-> s[CHOOSE i \in I : Cardinality({j \in I : j < i}) = k - 1]]
Of(s, Test(_)) == At(s, {i \in DOMAIN s : Test(s[i])})
OfStage(rs, stage) == Of(rs, LAMBDA r : r.id.stage = stage)
Cfgs(rs) == {r.id.cfg : r \in Range(rs)}
MaxRound(a) == Max({0} \cup {r.rnd : r \in Range(rows[a, "search"])})
RoutedScores(rs) == {r.res : r \in {x \in Range(OfStage(rs, "route")) : Succeeds(x.res)}}
BestRouted(a) == IF RoutedScores(rows[a, "search"]) = {} THEN Bad ELSE Min(RoutedScores(rows[a, "search"]))
(* The first of the best: the config that is validated.                     *)
BestConfig(a) == LET rs == OfStage(rows[a, "search"], "route")
                 IN  rs[Min({i \in DOMAIN rs : rs[i].res = BestRouted(a)})].id.cfg

(* The first n of a stable sort.                                            *)
Before(s, Key(_), i, j) == Key(s[i]) < Key(s[j]) \/ (Key(s[i]) = Key(s[j]) /\ i < j)
Rank(s, Key(_), j) == Cardinality({i \in DOMAIN s : Before(s, Key, i, j)})
Sorted(s, Key(_), n) ==
  [k \in 1..Min({n, Len(s)}) |-> s[CHOOSE j \in DOMAIN s : Rank(s, Key, j) = k - 1]]

-----------------------------------------------------------------------------
(* What a proposer may learn from (_history), and what the proxy-only arm   *)
(* shows of it, in this order.                                              *)
History(rs) ==
  LET routed == Of(rs, LAMBDA r : r.id.stage = "route" /\ Succeeds(r.res))
      grt    == Of(rs, LAMBDA r : r.id.stage = "grt" /\ Succeeds(r.res) /\ r.id.cfg \notin Cfgs(routed))
      proxy  == Of(rs, LAMBDA r : /\ r.id.stage = "proxy" /\ Succeeds(r.res)
                                  /\ r.id.cfg \notin Cfgs(routed) \cup Cfgs(grt))
      failed == Of(rs, LAMBDA r : ~Succeeds(r.res))
  IN  [good |-> routed \o grt \o proxy, bad |-> failed]

ScoreOf(r) == r.res
HpwlOf(r) == Hpwl[r.id.cfg]       \* every result carries it
LastOf(s, n) == SubSeq(s, Max({1, Len(s) - n + 1}), Len(s))
Lines(s) == [i \in DOMAIN s |-> s[i].id.cfg]
Shown(rs) == [lines  |-> Lines(Sorted(History(rs).good, HpwlOf, TopK)),
              failed |-> Lines(LastOf(OfStage(History(rs).bad, "proxy"), MaxFailed))]

-----------------------------------------------------------------------------
(* One batch: identities that have succeeded are replayed, the others run.  *)
Ask(a, ids, place) ==
  \E failing \in SUBSET (Range(ids) \ Measured) :
    /\ faults + Cardinality(failing) <= MaxFaults
    /\ faults' = faults + Cardinality(failing)
    /\ todo' = [todo EXCEPT ![a] = [i \in DOMAIN ids |->
                  [place |-> place, rnd |-> IF place = "search" THEN rnd'[a] ELSE 1, id |-> ids[i],
                   res |-> IF ids[i] \in failing THEN Infra ELSE Outcome(ids[i])]]]

Kept(r) == [rnd |-> r.rnd, id |-> r.id, res |-> r.res]
Record(a) ==
  /\ todo[a] # <<>>
  /\ rows' = [rows EXCEPT ![<<a, Head(todo[a]).place>>] = Append(@, Kept(Head(todo[a])))]
  /\ todo' = [todo EXCEPT ![a] = Tail(@)]
  /\ UNCHANGED <<kind, at, searching, faults>>

GoTo(a, place) == at' = [at EXCEPT ![a] = place]
Batched(a) == todo[a] = <<>>

(* The loop is entered: additional rounds, after those that have rows.      *)
Enter(a) ==
  /\ at[a] = "queued" /\ kind[a] # "default_seeds"
  /\ GoTo(a, "round")
  /\ rnd' = [rnd EXCEPT ![a] = MaxRound(a)] /\ last' = [last EXCEPT ![a] = MaxRound(a) + Rounds]
  /\ UNCHANGED <<kind, rows, todo, faults>>

(* The arm of the seed lottery: the default on as many seeds as there are   *)
(* routes in the budget, one batch.                                         *)
LotterySeeds == [i \in 1..Rounds * RouteTop |-> SearchSeed + i - 1]
ASSUME NumbersAssumption ==
  \A c \in PlacerConfigs, s \in {SearchSeed} \cup Range(LotterySeeds) \cup Range(HeldOutSeeds) :
    {Hpwl[c], GrtWl[c], RoutedWl[c, s]} \subseteq Nat \cup {Bad}
EnterLottery(a) ==
  /\ at[a] = "queued" /\ kind[a] = "default_seeds"
  /\ GoTo(a, "route") /\ rnd' = [rnd EXCEPT ![a] = 1] /\ last' = [last EXCEPT ![a] = 1]
  /\ Ask(a, [i \in DOMAIN LotterySeeds |-> Id("route", DefaultKnobs, LotterySeeds[i])], "search")
  /\ UNCHANGED <<kind, rows>>

(* A random arm-run draws from its seed again in every start.  A model      *)
(* answers anything; what is unusable or missing is drawn.                  *)
Call(a) == rnd[a] - (last[a] - Rounds)
Proposals(a) == IF Random(a) THEN {SubSeq(Drawn[a], Call(a) * Batch + 1, (Call(a) + 1) * Batch)}
                ELSE [1..Batch -> PlacerConfigs]
Propose(a) ==
  /\ at[a] = "round" /\ rnd[a] < last[a]
  /\ GoTo(a, "proxy") /\ rnd' = [rnd EXCEPT ![a] = @ + 1]
  /\ \E cs \in Proposals(a) : Ask(a, Requests("proxy", cs), "search")
  /\ UNCHANGED <<kind, rows, last>>

(* The provider fails: nothing in this loop catches it.                     *)
ProposeRaises(a) ==
  /\ at[a] = "round" /\ rnd[a] < last[a] /\ Asks(a)
  /\ GoTo(a, "raised")
  /\ UNCHANGED <<kind, rows, searching, todo, faults>>

Now(a, stage) == Of(rows[a, "search"], LAMBDA r : r.rnd = rnd[a] /\ r.id.stage = stage)
Feasible(rs) == Of(rs, LAMBDA r : Succeeds(r.res))
Choice(rs) == Lines(Sorted(Feasible(rs), ScoreOf, RouteTop))

(* The placer's wirelength only rejects, or it chooses.                     *)
ScreenByGrt(a) ==
  /\ at[a] = "proxy" /\ Batched(a) /\ HasGrt(a)
  /\ GoTo(a, "grt")
  /\ rnd' = rnd /\ Ask(a, Requests("grt", Lines(Feasible(Now(a, "proxy")))), "search")
  /\ UNCHANGED <<kind, rows, last>>

Route(a, stage) ==
  /\ at[a] = stage /\ Batched(a)
  /\ GoTo(a, "route")
  /\ rnd' = rnd /\ Ask(a, Requests("route", Choice(Now(a, stage))), "search")
  /\ UNCHANGED <<kind, rows, last>>
RouteByHpwl(a) == ~HasGrt(a) /\ Route(a, "proxy")
RouteByGrt(a)  == HasGrt(a) /\ Route(a, "grt")

EndRound(a) ==
  /\ at[a] = "route" /\ Batched(a)
  /\ GoTo(a, IF rnd[a] = last[a] THEN "searched" ELSE "round")
  /\ UNCHANGED <<kind, rows, searching, todo, faults>>

Search(a) == \/ Record(a) \/ Enter(a) \/ EnterLottery(a) \/ Propose(a) \/ ProposeRaises(a)
             \/ ScreenByGrt(a) \/ RouteByHpwl(a) \/ RouteByGrt(a) \/ EndRound(a)
=============================================================================
