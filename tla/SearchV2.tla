------------------------------ MODULE SearchV2 ------------------------------
(***************************************************************************)
(* One v2 arm-run: run_search_v2 (search.py) with its rows in ResultsDB    *)
(* (db.py), over any number of starts of the driver on the same database.  *)
(* A round proposes configs, evaluates them on the search seeds, records   *)
(* the answers row by row, and re-evaluates its best configs on the        *)
(* promotion seeds.  A kill, or an evaluation that raises, loses all that  *)
(* is not recorded; the next start resumes from the rows.                  *)
(*                                                                         *)
(* A score is score_timing of a result, Failed for +inf.  Which configs a  *)
(* proposer (or, on an LLMError, its fallback) comes up with is left open. *)
(***************************************************************************)
EXTENDS Integers, Sequences, FiniteSetsExt

CONSTANTS Configs,              \* the flow configs
          NoConfig,             \* best_cfg when there is none
          Prior,                \* the configs of the prior (the incumbent)
          Scores,               \* the finite scores
          Budget, Batch,        \* budget_evals, batch
          Seeds, PromoteSeeds,  \* sequences of seeds
          PromoteTop,
          MaxStarts             \* bound: starts of the driver

Failed == -1

ASSUME ConfigsAssumption == NoConfig \notin Configs /\ Prior \subseteq Configs
ASSUME ScoresAssumption  == Scores \subseteq Nat
ASSUME BudgetAssumption  == Budget \in Nat /\ Batch \in Nat /\ PromoteTop \in Nat
ASSUME SeedsAssumption   == /\ Seeds \in Seq(Nat) /\ Seeds # <<>>
                            /\ PromoteSeeds \in Seq(Nat)

VARIABLES rows,             \* the arm's evals at the search stage, by id
          pc, phase,        \* where the loop is; "search" or "promote"
          rnd, rounds,      \* the round number; rounds run since the start
          used,             \* evaluations counted
          reqs, res, pos,   \* the batch, its answers, the row to record next
          late,             \* the deadline has passed
          stop, best,       \* what the last finished start reported
          starts, asked     \* starts so far; requests evaluated so far

loop == <<rnd, rounds, used>>
work == <<phase, reqs, res, pos>>
told == <<stop, best>>
vars == <<rows, pc, loop, work, late, told, starts, asked>>

-----------------------------------------------------------------------------
Least(a, b) == IF a <= b THEN a ELSE b
Elements(s) == {s[i] : i \in 1..Len(s)}
Request == [cfg : Configs, seed : Nat]
Answers == Scores \cup {Failed}
RowOf(r, n, q, x) == [round |-> r, note |-> n, cfg |-> q.cfg, seed |-> q.seed, score |-> x]

(* [EvalRequest(.., s, .., flow_cfg=c) for c in cs for s in ss][:left]      *)
RequestsInFull(cs, ss, left) ==
  [i \in 1..(Len(cs) * Len(ss)) |->
     [cfg |-> cs[((i - 1) \div Len(ss)) + 1], seed |-> ss[((i - 1) % Len(ss)) + 1]]]
Requests(cs, ss, left) ==
  [i \in 1..Least(Len(cs) * Len(ss), left) |->
     [cfg |-> cs[((i - 1) \div Len(ss)) + 1], seed |-> ss[((i - 1) % Len(ss)) + 1]]]

(* The sum of v at the indices in I, up to n.                               *)
SumAt(v, I, n) ==
  LET sum[k \in 0..n] == IF k = 0 THEN 0 ELSE sum[k - 1] + (IF k \in I THEN v[k] ELSE 0)
  IN  sum[n]

(* config_stats: the first row of a config and a seed counts.               *)
Counted(c) == {i \in 1..Len(rows) : rows[i].cfg = c
                 /\ \A j \in 1..(i - 1) : ~(rows[j].cfg = c /\ rows[j].seed = rows[i].seed)}
Measured  == {rows[i].cfg : i \in 1..Len(rows)}
Succeeded == {c \in Measured : \A i \in Counted(c) : rows[i].score # Failed}
Repeated  == {c \in Succeeded : Cardinality(Counted(c)) >= 2}
RowTotal(I) == SumAt([i \in 1..Len(rows) |-> rows[i].score], I, Len(rows))
Total(c)  == RowTotal(Counted(c))
BetterMean(c, d) == Total(c) * Cardinality(Counted(d)) < Total(d) * Cardinality(Counted(c))

(* The proposals, clamped; one that is in the history or earlier in the     *)
(* batch is replaced by a random one.                                       *)
ProposalsUnchecked(n) == [1..n -> Configs]
Proposals(n) ==
  LET seen == Prior \cup Measured IN {cs \in [1..n -> Configs \ seen] : IsInjective(cs)}

(* The batch's configs that never failed, best first; the order of equals   *)
(* is that of the configs' texts, any order here.                           *)
Of(c) == {i \in 1..Len(reqs) : reqs[i].cfg = c}
RankedWithFailed == {reqs[i].cfg : i \in 1..Len(reqs)}
Ranked == {c \in {reqs[i].cfg : i \in 1..Len(reqs)} : \A i \in Of(c) : res[i] # Failed}
AnswerTotal(c) == SumAt(res, Of(c), Len(reqs))
Beats(c, d) == AnswerTotal(c) * Cardinality(Of(d)) < AnswerTotal(d) * Cardinality(Of(c))
Tops == {t \in [1..Least(PromoteTop, Cardinality(Ranked)) -> Ranked] :
           /\ IsInjective(t)
           /\ \A i, j \in DOMAIN t : i < j => ~Beats(t[j], t[i])
           /\ \A c \in Ranked \ Elements(t), i \in DOMAIN t : ~Beats(c, t[i])}

-----------------------------------------------------------------------------
Init ==
  /\ rows = <<>> /\ pc = "off" /\ phase = "search"
  /\ rnd = 0 /\ rounds = 0 /\ used = 0
  /\ reqs = <<>> /\ res = <<>> /\ pos = 1
  /\ late = FALSE /\ stop = "none" /\ best = NoConfig
  /\ starts = 0 /\ asked = 0

(* The driver is started on the database: max_round and n_stage.            *)
StartFromRoundOne ==
  /\ pc \in {"off", "ended"} /\ starts < MaxStarts
  /\ rnd' = 0 /\ used' = Len(rows) /\ rounds' = 0
  /\ late' = FALSE /\ pc' = "top" /\ starts' = starts + 1
  /\ UNCHANGED <<rows, work, told, asked>>
Start ==
  /\ pc \in {"off", "ended"} /\ starts < MaxStarts
  /\ rnd' = Max({0} \cup {rows[i].round : i \in 1..Len(rows)})
  /\ used' = Len(rows) /\ rounds' = 0
  /\ late' = FALSE /\ pc' = "top" /\ starts' = starts + 1
  /\ UNCHANGED <<rows, work, told, asked>>

(* The end: the best mean of the configs with two seeds, of any otherwise.  *)
Pool == IF Repeated # {} THEN Repeated ELSE Succeeded
End(reason) ==
  /\ stop' = reason
  /\ best' \in IF Pool = {} THEN {NoConfig} ELSE {c \in Pool : \A d \in Pool : ~BetterMean(d, c)}
  /\ pc' = "ended"
  /\ UNCHANGED <<rows, loop, work, late, starts, asked>>

OutOfBudget == pc = "top" /\ used >= Budget /\ End("budget")
DueAlways == late
Due == rounds > 0 /\ late
OutOfTime == pc = "top" /\ used < Budget /\ Due /\ End("deadline")

(* The proposer raises LLMBudgetExceeded.                                   *)
OutOfLLM == pc = "top" /\ used < Budget /\ ~Due /\ End("llm_budget")

Width == LET n == Least(Batch, (Budget - used) \div Len(Seeds)) IN IF n >= 1 THEN n ELSE 1
Round ==
  /\ pc = "top" /\ used < Budget /\ ~Due
  /\ \E cs \in Proposals(Width) : reqs' = Requests(cs, Seeds, Budget - used)
  /\ rnd' = rnd + 1 /\ rounds' = rounds + 1
  /\ phase' = "search" /\ pc' = "eval"
  /\ UNCHANGED <<rows, used, res, pos, late, told, starts, asked>>

(* evaluate_many: a success already recorded is replayed.                   *)
Replays(q) == {rows[i].score : i \in {j \in 1..Len(rows) :
                 rows[j].cfg = q.cfg /\ rows[j].seed = q.seed /\ rows[j].score # Failed}}
EvaluateUntilNoneFails ==
  /\ pc = "eval"
  /\ \E r \in [1..Len(reqs) -> Answers] :
       /\ res' = r
       /\ pc' = IF \E i \in 1..Len(reqs) : r[i] = Failed THEN "eval" ELSE "record"
  /\ pos' = 1
  /\ UNCHANGED <<rows, loop, phase, reqs, late, told, starts, asked>>
Evaluate ==
  /\ pc = "eval"
  /\ \E r \in [1..Len(reqs) -> Answers] :
       /\ \A i \in 1..Len(reqs) : Replays(reqs[i]) # {} => r[i] \in Replays(reqs[i])
       /\ res' = r
  /\ asked' = asked + Len(reqs)
  /\ pos' = 1 /\ pc' = "record"
  /\ UNCHANGED <<rows, loop, phase, reqs, late, told, starts>>

(* record_eval of one answer; the batch counts once it is all recorded.     *)
RecordSkipsFailed ==
  /\ pc = "record"
  /\ rows' = IF res[pos] = Failed THEN rows ELSE Append(rows, RowOf(rnd, phase, reqs[pos], res[pos]))
  /\ IF pos < Len(reqs)
     THEN pos' = pos + 1 /\ UNCHANGED <<used, pc>>
     ELSE /\ pos' = 1 /\ used' = used + Len(reqs)
          /\ pc' = IF phase = "search" THEN "rank" ELSE "top"
  /\ UNCHANGED <<rnd, rounds, phase, reqs, res, late, told, starts, asked>>
Record ==
  /\ pc = "record"
  /\ rows' = Append(rows, RowOf(rnd, phase, reqs[pos], res[pos]))
  /\ IF pos < Len(reqs)
     THEN pos' = pos + 1 /\ UNCHANGED <<used, pc>>
     ELSE /\ pos' = 1 /\ used' = used + Len(reqs)
          /\ pc' = IF phase = "search" THEN "rank" ELSE "top"
  /\ UNCHANGED <<rnd, rounds, phase, reqs, res, late, told, starts, asked>>

Promotable == Ranked # {} /\ PromoteTop > 0 /\ PromoteSeeds # <<>> /\ used < Budget
Promote ==
  /\ pc = "rank" /\ Promotable
  /\ \E t \in Tops : reqs' = Requests(t, PromoteSeeds, Budget - used)
  /\ phase' = "promote" /\ pc' = "eval"
  /\ UNCHANGED <<rows, loop, res, pos, late, told, starts, asked>>
NoPromotion ==
  /\ pc = "rank" /\ ~Promotable
  /\ pc' = "top"
  /\ UNCHANGED <<rows, loop, work, late, told, starts, asked>>

-----------------------------------------------------------------------------
Running == pc \notin {"off", "ended"}
DeadlinePasses == Running /\ ~late /\ late' = TRUE
                  /\ UNCHANGED <<rows, pc, loop, work, told, starts, asked>>

(* The driver is killed, or evaluate_many raises and takes it down.         *)
Die == /\ Running /\ starts < MaxStarts
       /\ pc' = "off"
       /\ UNCHANGED <<rows, loop, work, late, told, starts, asked>>

Over == pc = "ended" /\ starts = MaxStarts /\ UNCHANGED vars

Step == \/ OutOfBudget \/ OutOfTime \/ OutOfLLM \/ Round \/ Evaluate \/ Record
        \/ Promote \/ NoPromotion
Next == Start \/ Step \/ DeadlinePasses \/ Die \/ Over

Spec == Init /\ [][Next]_vars
(* The driver's thread runs, and a killed driver is started again.          *)
FairSpec == Spec /\ WF_vars(Step) /\ WF_vars(pc = "off" /\ Start)
-----------------------------------------------------------------------------
Row == [round : Nat, note : {"search", "promote"}, cfg : Configs, seed : Nat, score : Answers]
TypeOK ==
  /\ rows \in Seq(Row) /\ reqs \in Seq(Request) /\ res \in Seq(Answers)
  /\ pc \in {"off", "top", "eval", "record", "rank", "ended"}
  /\ phase \in {"search", "promote"}
  /\ rnd \in Nat /\ rounds \in Nat /\ used \in Nat /\ pos \in Nat \ {0}
  /\ late \in BOOLEAN /\ stop \in {"none", "budget", "deadline", "llm_budget"}
  /\ best \in Configs \cup {NoConfig} /\ starts \in Nat /\ asked \in Nat

(* What is counted is what is recorded, batch by batch, and a batch fits    *)
(* into what is left.                                                       *)
CountsAgree ==
  /\ pc \in {"top", "rank", "eval"} => used = Len(rows)
  /\ pc = "eval" => reqs # <<>> /\ used + Len(reqs) <= Budget
  /\ pc = "record" => /\ Len(res) = Len(reqs) /\ pos <= Len(reqs)
                      /\ Len(rows) = used + pos - 1 /\ used + Len(reqs) <= Budget

(* search.py:546: an arm-run never records more evaluations than its budget *)
(* however often it is killed and resumed in the middle of a batch.         *)
BudgetHolds == Len(rows) <= Budget

(* The rows' round numbers never fall, and a running loop is at or past     *)
(* them: what max_round finds is the last row's.                            *)
RoundsAscend ==
  /\ \A i, j \in 1..Len(rows) : i <= j => rows[i].round <= rows[j].round
  /\ pc \notin {"off", "ended"} => \A i \in 1..Len(rows) : rows[i].round <= rnd

IInv == TypeOK /\ CountsAgree /\ BudgetHolds /\ RoundsAscend

(* Across kills and resumes no config is measured twice on a seed, and the  *)
(* incumbent is never measured again (search.py:552-553); seeds are given   *)
(* once and promotion seeds are not search seeds.                           *)
MeasuredOnce ==
  /\ \A i, j \in 1..Len(rows) : rows[i].cfg = rows[j].cfg /\ rows[i].seed = rows[j].seed => i = j
  /\ Measured \cap Prior = {}

(* A promoted config had finite scores on all search seeds in that round,   *)
(* and the configs that did strictly better there were promoted before it   *)
(* (search.py:601-613), also when the budget or a kill cut the batch short. *)
SearchRows(c, r) == {i \in 1..Len(rows) : rows[i].cfg = c /\ rows[i].round = r /\ rows[i].note = "search"}
Complete(c, r) == {rows[i].seed : i \in SearchRows(c, r)} = Elements(Seeds)
                  /\ \A i \in SearchRows(c, r) : rows[i].score # Failed
RoundTotal(c, r) == RowTotal(SearchRows(c, r))
PromotedComplete ==
  \A i \in 1..Len(rows) : rows[i].note = "promote" => Complete(rows[i].cfg, rows[i].round)
BestPromotedFirst ==
  \A i \in 1..Len(rows) : rows[i].note = "promote" =>
    LET r == rows[i].round IN
    \A d \in Configs : Complete(d, r) /\ RoundTotal(d, r) < RoundTotal(rows[i].cfg, r) =>
      \E j \in 1..(i - 1) : rows[j].cfg = d /\ rows[j].round = r /\ rows[j].note = "promote"
PromotionsEarned == PromotedComplete /\ BestPromotedFirst

(* search.py:547-548: an arm-run that ends at the deadline has evaluations, *)
(* also one that was killed before it recorded any.                         *)
DeadlineLeavesRows == stop = "deadline" => rows # <<>>

(* A kill or an exception wastes at most the batch that was not recorded.   *)
BatchSize == Max({Batch * Len(Seeds), Len(Seeds), PromoteTop * Len(PromoteSeeds)})
WasteBounded == asked <= Len(rows) + starts * BatchSize

(* A round never takes the number of a round that has rows, whoever wrote   *)
(* them: two starts never mix their configs in one round.                   *)
RoundsAreNew == [][rnd' > rnd /\ pc' = "eval" => \A i \in 1..Len(rows) : rows[i].round < rnd']_vars

(* An arm-run always ends, whatever fails: every round uses up budget.      *)
Ends == <>[](pc = "ended")
=============================================================================
