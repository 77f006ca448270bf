--------------------------- MODULE SearchV2Proofs ---------------------------
(***************************************************************************)
(* For any configs, scores, seeds, budget and number of starts: an arm-run *)
(* stays within its budget, a new round's number is new, nothing is        *)
(* measured twice, what is promoted was measured in full and after what    *)
(* did better, a start wastes one batch at most, and whatever a proposer   *)
(* answers becomes a batch the loop's model allows.                        *)
(***************************************************************************)
EXTENDS Proposers, SequenceTheorems, FiniteSetTheorems, WellFoundedInduction, TLAPS

(* Position i of a product of m configs and n seeds names one of each.      *)
LEMMA ProductIndex ==
  ASSUME NEW m \in Nat, NEW n \in Nat \ {0}, NEW i \in 1..(m * n)
  PROVE  /\ ((i - 1) \div n) + 1 \in 1..m
         /\ ((i - 1) % n) + 1 \in 1..n
<1> DEFINE q == (i - 1) \div n
           r == (i - 1) % n
<1>0. m * n \in Nat /\ i - 1 \in Nat /\ i - 1 < m * n
  OBVIOUS
<1>1. q \in Int /\ r \in 0..(n - 1) /\ i - 1 = n * q + r
  BY <1>0
<1> HIDE DEF q, r
<1>2. q >= 0
  <2>1. SUFFICES ASSUME q < 0 PROVE FALSE
    BY <1>1
  <2>2. n * q <= n * (-1)
    BY <1>1, <2>1
  <2> QED
    BY <1>0, <1>1, <2>2
<1>3. q < m
  <2>1. SUFFICES ASSUME q >= m PROVE FALSE
    BY <1>1
  <2>2. n * q >= n * m
    BY <1>1, <2>1
  <2> QED
    BY <1>0, <1>1, <2>2
<1> QED
  BY <1>1, <1>2, <1>3 DEF q, r

LEMMA RequestsFit ==
  ASSUME NEW cs \in Seq(Configs), cs # <<>>, NEW ss \in Seq(Nat), ss # <<>>,
         NEW left \in Nat \ {0}
  PROVE  /\ Requests(cs, ss, left) \in Seq(Request)
         /\ Requests(cs, ss, left) # <<>>
         /\ Len(Requests(cs, ss, left)) \in Nat \ {0}
         /\ Len(Requests(cs, ss, left)) <= left
<1> DEFINE m == Len(cs)
           n == Len(ss)
           l == Least(m * n, left)
<1>1. m \in Nat \ {0} /\ n \in Nat \ {0}
  OBVIOUS
<1>2. m * n \in Nat /\ m * n >= 1
  BY <1>1
<1>3. l \in Nat \ {0} /\ l <= left /\ l <= m * n
  BY <1>2 DEF Least
<1>4. ASSUME NEW i \in 1..l
      PROVE  [cfg |-> cs[((i - 1) \div n) + 1], seed |-> ss[((i - 1) % n) + 1]] \in Request
  <2>1. i \in 1..(m * n)
    BY <1>2, <1>3
  <2>2. ((i - 1) \div n) + 1 \in 1..m /\ ((i - 1) % n) + 1 \in 1..n
    BY <1>1, <2>1, ProductIndex
  <2> HIDE DEF m, n
  <2>3. cs[((i - 1) \div n) + 1] \in Configs /\ ss[((i - 1) % n) + 1] \in Nat
    BY <2>2 DEF m, n
  <2> QED
    BY <2>3 DEF Request
<1> DEFINE p == Requests(cs, ss, left)
<1>5. p = [i \in 1..l |-> [cfg |-> cs[((i - 1) \div n) + 1], seed |-> ss[((i - 1) % n) + 1]]]
  BY DEF Requests
<1>6. p \in [1..l -> Request]
  BY <1>4, <1>5
<1> HIDE DEF p, l
<1>7. p \in Seq(Request) /\ Len(p) = l
  BY <1>3, <1>6
<1> QED
  BY <1>3, <1>7 DEF p

LEMMA InitIInv == Init => IInv
<1> SUFFICES ASSUME Init PROVE IInv
  OBVIOUS
<1> USE DEF Init
<1>1. TypeOK
  <2>1. late \in BOOLEAN
    OBVIOUS
  <2>2. rows \in Seq(Row) /\ reqs \in Seq(Request) /\ res \in Seq(Answers)
    OBVIOUS
  <2> QED
    BY <2>1, <2>2 DEF TypeOK
<1>2. CountsAgree /\ BudgetHolds /\ RoundsAscend
  BY BudgetAssumption DEF CountsAgree, BudgetHolds, RoundsAscend
<1> QED
  BY <1>1, <1>2 DEF IInv

(* What TypeOK says of the rows and the requests, element by element.       *)
LEMMA ElementTypes ==
  ASSUME TypeOK
  PROVE  /\ Len(rows) \in Nat /\ Len(reqs) \in Nat
         /\ \A i \in 1..Len(rows) : rows[i].round \in Nat /\ rows[i].cfg \in Configs
         /\ \A i \in 1..Len(reqs) : reqs[i].cfg \in Configs
<1>1. Len(rows) \in Nat /\ Len(reqs) \in Nat
  BY DEF TypeOK
<1>2. \A i \in 1..Len(rows) : rows[i] \in Row
  BY DEF TypeOK
<1>3. \A i \in 1..Len(reqs) : reqs[i] \in Request
  BY DEF TypeOK
<1>4. \A x \in Row : x.round \in Nat /\ x.cfg \in Configs
  BY DEF Row
<1>5. \A x \in Request : x.cfg \in Configs
  BY DEF Request
<1> QED
  BY <1>1, <1>2, <1>3, <1>4, <1>5

(* max_round of the rows is the round of the last one.                      *)
LEMMA MaxRound ==
  ASSUME IInv
  PROVE  LET m == Max({0} \cup {rows[i].round : i \in 1..Len(rows)}) IN
         m \in Nat /\ \A i \in 1..Len(rows) : rows[i].round <= m
<1> DEFINE S == {0} \cup {rows[i].round : i \in 1..Len(rows)}
<1>1. Len(rows) \in Nat /\ \A i \in 1..Len(rows) : rows[i].round \in Nat
  BY ElementTypes DEF IInv
<1>2. \E x \in S : \A y \in S : x >= y
  <2>1. CASE Len(rows) = 0
    BY <2>1
  <2>2. CASE Len(rows) # 0
    <3>1. Len(rows) \in 1..Len(rows) /\ \A i \in 1..Len(rows) : i <= Len(rows)
      BY <1>1, <2>2
    <3>2. rows[Len(rows)].round \in S
      BY <3>1
    <3>3. \A y \in S : rows[Len(rows)].round >= y
      BY <1>1, <3>1 DEF IInv, RoundsAscend
    <3> QED
      BY <3>2, <3>3
  <2> QED
    BY <2>1, <2>2
<1>3. Max(S) \in S /\ \A y \in S : Max(S) >= y
  BY <1>2 DEF Max
<1> QED
  BY <1>1, <1>3

LEMMA StartIInv == ASSUME IInv, Start PROVE IInv'
<1> DEFINE m == Max({0} \cup {rows[i].round : i \in 1..Len(rows)})
<1>1. /\ rnd' = m /\ used' = Len(rows) /\ rounds' = 0 /\ late' = FALSE /\ pc' = "top"
      /\ starts' = starts + 1 /\ UNCHANGED <<rows, work, told, asked>>
  BY DEF Start
<1>2. m \in Nat /\ \A i \in 1..Len(rows) : rows[i].round <= m
  BY MaxRound
<1> HIDE DEF m
<1>3. TypeOK'
  <2>1. m \in Nat /\ Len(rows) \in Nat
    BY <1>2, ElementTypes DEF IInv
  <2>2. late' \in BOOLEAN
    BY <1>1
  <2>3. rnd' \in Nat /\ used' \in Nat /\ rounds' \in Nat /\ starts' \in Nat
    BY <1>1, <2>1 DEF IInv, TypeOK
  <2> QED
    BY <1>1, <2>2, <2>3 DEF IInv, TypeOK, work, told
<1> QED
  BY <1>1, <1>2, <1>3 DEF IInv, CountsAgree, BudgetHolds, RoundsAscend

LEMMA EndIInv == ASSUME IInv, NEW r \in {"budget", "deadline", "llm_budget"}, End(r) PROVE IInv'
<1>1. Pool \subseteq Configs
  BY ElementTypes DEF Pool, Repeated, Succeeded, Measured, IInv
<1>2. best' \in Configs \cup {NoConfig}
  BY <1>1 DEF End
<1>3. /\ stop' = r /\ pc' = "ended"
      /\ UNCHANGED <<rows, loop, work, late, starts, asked>>
  BY DEF End
<1>4. TypeOK'
  BY <1>2, <1>3 DEF IInv, TypeOK, loop, work
<1> QED
  BY <1>3, <1>4 DEF IInv, CountsAgree, BudgetHolds, RoundsAscend, loop, work

LEMMA RoundIInv == ASSUME IInv, Round PROVE IInv'
<1>1. PICK cs \in Proposals(Width) : reqs' = Requests(cs, Seeds, Budget - used)
  BY DEF Round
<1>2. /\ pc = "top" /\ used < Budget /\ rnd' = rnd + 1 /\ rounds' = rounds + 1
      /\ phase' = "search" /\ pc' = "eval"
      /\ UNCHANGED <<rows, used, res, pos, late, told, starts, asked>>
  BY DEF Round
<1>3. Width \in Nat \ {0}
  <2>1. Len(Seeds) \in Nat \ {0} /\ Budget - used \in Nat
    BY <1>2, BudgetAssumption, SeedsAssumption DEF IInv, TypeOK
  <2>2. (Budget - used) \div Len(Seeds) \in Int
    BY <2>1
  <2> QED
    BY <2>2, BudgetAssumption DEF Width, Least
<1>4. cs \in Seq(Configs) /\ cs # <<>>
  <2>1. cs \in [1..Width -> Configs]
    BY DEF Proposals
  <2> QED
    BY <1>3, <2>1
<1>5. Budget - used \in Nat \ {0}
  BY <1>2, BudgetAssumption DEF IInv, TypeOK
<1>6. /\ reqs' \in Seq(Request) /\ reqs' # <<>>
      /\ Len(reqs') \in Nat \ {0} /\ Len(reqs') <= Budget - used
  BY <1>1, <1>4, <1>5, RequestsFit, SeedsAssumption
<1>7. TypeOK'
  BY <1>2, <1>6 DEF IInv, TypeOK, told
<1>8. CountsAgree'
  BY <1>2, <1>6, BudgetAssumption DEF IInv, TypeOK, CountsAgree
<1>9. RoundsAscend'
  <2>1. \A i \in 1..Len(rows) : rows[i].round \in Nat /\ rows[i].round <= rnd
    BY <1>2, ElementTypes DEF IInv, RoundsAscend
  <2>2. rnd \in Nat
    BY DEF IInv, TypeOK
  <2> QED
    BY <1>2, <2>1, <2>2 DEF IInv, RoundsAscend
<1> QED
  BY <1>2, <1>7, <1>8, <1>9 DEF IInv, BudgetHolds

LEMMA EvaluateIInv == ASSUME IInv, Evaluate PROVE IInv'
<1>1. PICK r \in [1..Len(reqs) -> Answers] : res' = r
  BY DEF Evaluate
<1>2. /\ pc = "eval" /\ asked' = asked + Len(reqs) /\ pos' = 1 /\ pc' = "record"
      /\ UNCHANGED <<rows, loop, phase, reqs, late, told, starts>>
  BY DEF Evaluate
<1>3. Len(reqs) \in Nat \ {0}
  BY <1>2 DEF IInv, TypeOK, CountsAgree
<1>4. res' \in Seq(Answers) /\ Len(res') = Len(reqs)
  BY <1>1, <1>3
<1>5. TypeOK'
  BY <1>2, <1>3, <1>4 DEF IInv, TypeOK, loop, told
<1> QED
  BY <1>2, <1>3, <1>4, <1>5 DEF IInv, TypeOK, CountsAgree, BudgetHolds, RoundsAscend, loop

LEMMA RecordIInv == ASSUME IInv, Record PROVE IInv'
<1> DEFINE x == RowOf(rnd, phase, reqs[pos], res[pos])
<1>1. /\ pc = "record" /\ rows' = Append(rows, x)
      /\ UNCHANGED <<rnd, rounds, phase, reqs, res, late, told, starts, asked>>
  BY DEF Record
<1>2. /\ Len(res) = Len(reqs) /\ pos \in 1..Len(reqs) /\ Len(reqs) \in Nat
      /\ Len(rows) = used + pos - 1 /\ used + Len(reqs) <= Budget
  BY <1>1 DEF IInv, TypeOK, CountsAgree
<1>3. x \in Row /\ x.round = rnd
  <2>1. reqs[pos] \in Request /\ res[pos] \in Answers
    BY <1>2 DEF IInv, TypeOK
  <2> QED
    BY <2>1 DEF RowOf, Row, Request, IInv, TypeOK
<1> HIDE DEF x
<1>4. /\ rows' \in Seq(Row) /\ Len(rows') = Len(rows) + 1 /\ rows'[Len(rows) + 1] = x
      /\ \A i \in 1..Len(rows) : rows'[i] = rows[i]
  BY <1>1, <1>3 DEF IInv, TypeOK
<1>5. /\ pos' \in Nat \ {0} /\ used' \in Nat
      /\ pc' \in {"record", "rank", "top"}
      /\ pc' \in {"rank", "top"} => used' = Len(rows')
      /\ pc' = "record" => used' = used /\ pos' = pos + 1 /\ pos' <= Len(reqs)
  <2>1. CASE pos < Len(reqs)
    BY <1>1, <1>2, <1>4, <2>1 DEF Record, IInv, TypeOK
  <2>2. CASE ~(pos < Len(reqs))
    <3>1. pos' = 1 /\ used' = used + Len(reqs) /\ pc' \in {"rank", "top"} /\ pos = Len(reqs)
      BY <1>2, <2>2 DEF Record
    <3> QED
      BY <1>2, <1>4, <3>1 DEF IInv, TypeOK
  <2> QED
    BY <2>1, <2>2
<1>6. TypeOK'
  BY <1>1, <1>4, <1>5 DEF IInv, TypeOK, told
<1>7. CountsAgree' /\ BudgetHolds'
  <2>1. used \in Nat /\ pos \in Nat /\ Len(rows) \in Nat
    BY ElementTypes DEF IInv, TypeOK
  <2>2. Len(rows') <= Budget
    BY <1>2, <1>4, <2>1, BudgetAssumption
  <2>3. CountsAgree'
    <3>1. CASE pc' \in {"rank", "top"}
      BY <1>5, <3>1 DEF CountsAgree
    <3>2. CASE pc' = "record"
      BY <1>1, <1>2, <1>4, <1>5, <2>1, <3>2 DEF CountsAgree
    <3> QED
      BY <1>5, <3>1, <3>2
  <2> QED
    BY <2>2, <2>3 DEF BudgetHolds
<1>8. RoundsAscend'
  <2>0. Len(rows) \in Nat /\ \A i \in 1..Len(rows) : rows[i].round \in Nat /\ rows[i].round <= rnd
    BY <1>1, ElementTypes DEF IInv, RoundsAscend
  <2>1. ASSUME NEW i \in 1..Len(rows') PROVE rows'[i].round <= rnd
    <3>1. i \in 1..Len(rows) \/ i = Len(rows) + 1
      BY <1>4, <2>0
    <3> QED
      BY <1>3, <1>4, <2>0, <3>1 DEF IInv, TypeOK
  <2>2. ASSUME NEW i \in 1..Len(rows'), NEW j \in 1..Len(rows'), i <= j
        PROVE  rows'[i].round <= rows'[j].round
    <3>1. CASE j = Len(rows) + 1
      BY <1>3, <1>4, <2>1, <3>1
    <3>2. CASE j # Len(rows) + 1
      <4>1. i \in 1..Len(rows) /\ j \in 1..Len(rows)
        BY <1>4, <2>0, <2>2, <3>2
      <4> QED
        BY <1>4, <2>2, <4>1 DEF IInv, RoundsAscend
    <3> QED
      BY <3>1, <3>2
  <2> QED
    BY <1>1, <2>1, <2>2 DEF RoundsAscend
<1> QED
  BY <1>6, <1>7, <1>8 DEF IInv

LEMMA RankedFinite == ASSUME TypeOK PROVE IsFiniteSet(Ranked)
<1>1. Len(reqs) \in Nat
  BY DEF TypeOK
<1>2. IsFiniteSet(1..Len(reqs))
  BY <1>1, FS_Interval
<1> DEFINE f == [i \in 1..Len(reqs) |-> reqs[i].cfg]
<1>3. IsFiniteSet({f[i] : i \in 1..Len(reqs)})
  <2>1. f \in Surjection(1..Len(reqs), {f[i] : i \in 1..Len(reqs)})
    BY DEF Surjection
  <2> HIDE DEF f
  <2> QED
    BY <1>2, <2>1, FS_Surjection
<1>4. Ranked \subseteq {f[i] : i \in 1..Len(reqs)}
  BY DEF Ranked
<1> QED
  BY <1>3, <1>4, FS_Subset

LEMMA PromoteIInv == ASSUME IInv, Promote PROVE IInv'
<1>1. PICK t \in Tops : reqs' = Requests(t, PromoteSeeds, Budget - used)
  BY DEF Promote
<1>2. /\ pc = "rank" /\ Promotable /\ phase' = "promote" /\ pc' = "eval"
      /\ UNCHANGED <<rows, loop, res, pos, late, told, starts, asked>>
  BY DEF Promote
<1>3. t \in Seq(Configs) /\ t # <<>>
  <2>1. Ranked \subseteq Configs
    BY ElementTypes DEF Ranked, IInv
  <2>2. IsFiniteSet(Ranked)
    BY RankedFinite DEF IInv
  <2>3. Cardinality(Ranked) \in Nat \ {0}
    BY <1>2, <2>2, FS_CardinalityType, FS_EmptySet DEF Promotable
  <2>4. Least(PromoteTop, Cardinality(Ranked)) \in Nat \ {0}
    BY <1>2, <2>3, BudgetAssumption DEF Least, Promotable
  <2>5. t \in [1..Least(PromoteTop, Cardinality(Ranked)) -> Configs]
    BY <2>1 DEF Tops
  <2> QED
    BY <2>4, <2>5
<1>4. Budget - used \in Nat \ {0}
  BY <1>2, BudgetAssumption DEF IInv, TypeOK, Promotable
<1>5. /\ reqs' \in Seq(Request) /\ reqs' # <<>>
      /\ Len(reqs') \in Nat \ {0} /\ Len(reqs') <= Budget - used
  <2>1. PromoteSeeds \in Seq(Nat) /\ PromoteSeeds # <<>>
    BY <1>2, SeedsAssumption DEF Promotable
  <2> QED
    BY <1>1, <1>3, <1>4, <2>1, RequestsFit
<1>6. TypeOK'
  BY <1>2, <1>5 DEF IInv, TypeOK, told, loop
<1>7. CountsAgree'
  BY <1>2, <1>5, BudgetAssumption DEF IInv, TypeOK, CountsAgree, loop
<1> QED
  BY <1>2, <1>6, <1>7 DEF IInv, BudgetHolds, RoundsAscend, loop

LEMMA NextIInv == ASSUME IInv, [Next]_vars PROVE IInv'
<1>1. CASE OutOfBudget \/ OutOfTime \/ OutOfLLM
  BY <1>1, EndIInv DEF OutOfBudget, OutOfTime, OutOfLLM
<1>2. CASE NoPromotion
  BY <1>2 DEF NoPromotion, IInv, TypeOK, CountsAgree, BudgetHolds, RoundsAscend, loop, work, told
<1>3. CASE DeadlinePasses
  BY <1>3 DEF DeadlinePasses, IInv, TypeOK, CountsAgree, BudgetHolds, RoundsAscend, loop, work, told
<1>4. CASE Die
  BY <1>4 DEF Die, IInv, TypeOK, CountsAgree, BudgetHolds, RoundsAscend, loop, work, told
<1>5. CASE Over \/ UNCHANGED vars
  BY <1>5 DEF Over, vars, IInv, TypeOK, CountsAgree, BudgetHolds, RoundsAscend, loop, work, told
<1> QED
  BY <1>1, <1>2, <1>3, <1>4, <1>5, StartIInv, RoundIInv, EvaluateIInv, RecordIInv, PromoteIInv
     DEF Next, Step

THEOREM Inductive == Spec => []IInv
<1>1. Init => IInv
  BY InitIInv
<1>2. IInv /\ [Next]_vars => IInv'
  BY NextIInv
<1> QED
  BY <1>1, <1>2, PTL DEF Spec

(* An arm-run never records more evaluations than its budget, however often *)
(* it is killed and resumed (search.py run_search_v2, db.py n_stage).       *)
THEOREM BudgetIsKept == Spec => []BudgetHolds
<1>1. IInv => BudgetHolds
  BY DEF IInv
<1> QED
  BY <1>1, Inductive, PTL

(* No row has the number of a round that is just beginning (db.py           *)
(* max_round): the rounds of two starts never mix.                          *)
THEOREM RoundNumbersAreNew == Spec => RoundsAreNew
<1>1. ASSUME IInv, [Next]_vars, rnd' > rnd, pc' = "eval", NEW i \in 1..Len(rows)
      PROVE  rows[i].round < rnd'
  <2>1. CASE Round
    <3>1. rows[i].round \in Nat /\ rnd \in Nat /\ rnd' = rnd + 1 /\ rows[i].round <= rnd
      BY <1>1, <2>1, ElementTypes DEF Round, IInv, TypeOK, RoundsAscend
    <3> QED
      BY <3>1
  <2>2. CASE ~Round
    <3>1. pc' # "eval" \/ rnd' = rnd
      BY <1>1, <2>2 DEF Next, Step, Start, OutOfBudget, OutOfTime, OutOfLLM, End, Evaluate, Record,
         Promote, NoPromotion, DeadlinePasses, Die, Over, vars, loop
    <3> QED
      BY <1>1, <3>1 DEF IInv, TypeOK
  <2> QED
    BY <2>1, <2>2
<1>2. IInv /\ [Next]_vars => [rnd' > rnd /\ pc' = "eval" => \A i \in 1..Len(rows) : rows[i].round < rnd']_vars
  BY <1>1
<1> QED
  BY <1>2, Inductive, PTL DEF Spec, RoundsAreNew


-----------------------------------------------------------------------------
(* What a batch of requests holds: config c and seed s are at the place      *)
(* n * (c - 1) + s of n seeds; the batch has each pair once, and a batch     *)
(* that is shorter than what is left has every pair.                         *)
Place(n, c, s) == n * (c - 1) + s
NoRepeats(q) == \A i, k \in 1..Len(q) : q[i] = q[k] => i = k

LEMMA OnePlace ==
  ASSUME NEW n \in Nat \ {0}, NEW c \in Nat \ {0}, NEW d \in Nat \ {0}, NEW s \in 1..n, NEW u \in 1..n,
         Place(n, c, s) = Place(n, d, u)
  PROVE  c = d /\ s = u
<1>1. ASSUME NEW x \in Nat \ {0}, NEW y \in Nat \ {0}, NEW v \in 1..n, NEW w \in 1..n, x < y
      PROVE  n * (x - 1) + v < n * (y - 1) + w
  <2>1. x <= y - 1
    BY <1>1
  <2>2. n * x <= n * (y - 1)
    BY <2>1
  <2>3. n * (x - 1) = n * x - n
    OBVIOUS
  <2> QED
    BY <2>2, <2>3
<1>2. ~(c < d) /\ ~(d < c)
  BY <1>1 DEF Place
<1> QED
  BY <1>2 DEF Place

LEMMA PlaceOf ==
  ASSUME NEW m \in Nat, NEW n \in Nat \ {0}, NEW i \in 1..(m * n)
  PROVE  /\ ((i - 1) \div n) + 1 \in 1..m /\ ((i - 1) % n) + 1 \in 1..n
         /\ i = Place(n, ((i - 1) \div n) + 1, ((i - 1) % n) + 1)
<1> DEFINE q == (i - 1) \div n
           r == (i - 1) % n
<1>1. m * n \in Nat /\ i - 1 \in Nat
  OBVIOUS
<1>2. q \in Int /\ r \in Int /\ i - 1 = n * q + r
  BY <1>1
<1>3. q + 1 \in 1..m /\ r + 1 \in 1..n
  BY ProductIndex
<1> HIDE DEF q, r
<1>4. i = Place(n, q + 1, r + 1)
  <2>1. (q + 1) - 1 = q
    BY <1>2
  <2> QED BY <1>2, <2>1 DEF Place
<1> QED
  BY <1>3, <1>4 DEF q, r

LEMMA PlaceFits ==
  ASSUME NEW m \in Nat, NEW n \in Nat \ {0}, NEW c \in 1..m, NEW s \in 1..n
  PROVE  Place(n, c, s) \in 1..(m * n)
<1>1. n * (c - 1) >= 0 /\ n * c <= n * m /\ n * (c - 1) = n * c - n /\ n * m = m * n
  OBVIOUS
<1>2. n * (c - 1) \in Int /\ m * n \in Int
  OBVIOUS
<1> QED
  BY <1>1, <1>2 DEF Place

BatchIs(p, cs, ss, left) ==
  /\ Len(p) \in Nat /\ Len(p) <= Len(cs) * Len(ss)
  /\ \A i \in 1..Len(p) : \E c \in 1..Len(cs), s \in 1..Len(ss) :
       p[i].cfg = cs[c] /\ p[i].seed = ss[s]
  /\ NoRepeats(cs) /\ NoRepeats(ss) => \A i, k \in 1..Len(p) :
       p[i].cfg = p[k].cfg /\ p[i].seed = p[k].seed => i = k
  /\ Len(p) < left => \A c \in 1..Len(cs), s \in 1..Len(ss) :
       \E i \in 1..Len(p) : p[i].cfg = cs[c] /\ p[i].seed = ss[s]

LEMMA RequestsAre ==
  ASSUME NEW cs \in Seq(Configs), cs # <<>>, NEW ss \in Seq(Nat), ss # <<>>, NEW left \in Nat \ {0}
  PROVE  BatchIs(Requests(cs, ss, left), cs, ss, left)
<1> DEFINE p == Requests(cs, ss, left)
<1> DEFINE m == Len(cs)
           n == Len(ss)
           all == m * n
           l == Least(all, left)
           C(i) == ((i - 1) \div n) + 1
           S(i) == ((i - 1) % n) + 1
<1>1. m \in Nat \ {0} /\ n \in Nat \ {0}
  OBVIOUS
<1>2. all \in Nat
  BY <1>1
<1>3. l \in Nat /\ l <= all /\ (l < left => l = all)
  <2> HIDE DEF all
  <2> QED BY <1>2 DEF Least
<1>4. p = [i \in 1..l |-> [cfg |-> cs[C(i)], seed |-> ss[S(i)]]]
  BY DEF Requests
<1>5. Len(p) = l /\ \A i \in 1..l : p[i].cfg = cs[C(i)] /\ p[i].seed = ss[S(i)]
  <2> HIDE DEF l, C, S
  <2> QED BY <1>3, <1>4
<1>6. \A i \in 1..all : C(i) \in 1..m /\ S(i) \in 1..n /\ i = Place(n, C(i), S(i))
  BY <1>1, PlaceOf
<1>7. \A c \in 1..m, s \in 1..n : Place(n, c, s) \in 1..all
  BY <1>1, PlaceFits
<1> HIDE DEF m, n, l, C, S, all, p
<1>8. ASSUME NEW i \in 1..l
      PROVE  i \in 1..all /\ C(i) \in 1..m /\ S(i) \in 1..n /\ p[i].cfg = cs[C(i)] /\ p[i].seed = ss[S(i)]
  <2>1. i \in 1..all
    BY <1>2, <1>3
  <2> QED
    BY <1>5, <1>6, <2>1
<1>9. ASSUME NoRepeats(cs), NoRepeats(ss), NEW i \in 1..l, NEW k \in 1..l,
             p[i].cfg = p[k].cfg, p[i].seed = p[k].seed
      PROVE  i = k
  <2>1. /\ C(i) \in 1..m /\ C(k) \in 1..m /\ cs[C(i)] = cs[C(k)]
        /\ S(i) \in 1..n /\ S(k) \in 1..n /\ ss[S(i)] = ss[S(k)]
    BY <1>8, <1>9
  <2>2. /\ \A c, d \in 1..m : cs[c] = cs[d] => c = d
        /\ \A c, d \in 1..n : ss[c] = ss[d] => c = d
    BY <1>9 DEF NoRepeats, m, n
  <2>3. C(i) = C(k) /\ S(i) = S(k)
    BY <2>1, <2>2
  <2> QED
    BY <1>6, <1>8, <2>3
<1>10. ASSUME l < left, NEW c \in 1..m, NEW s \in 1..n
       PROVE  \E i \in 1..l : p[i].cfg = cs[c] /\ p[i].seed = ss[s]
  <2>1. PICK i \in 1..l : i = Place(n, c, s)
    BY <1>3, <1>7, <1>10
  <2>2. C(i) \in 1..m /\ S(i) \in 1..n /\ Place(n, C(i), S(i)) = Place(n, c, s)
    BY <1>6, <1>8, <2>1
  <2>3. c = C(i) /\ s = S(i)
    <3>1. c \in Nat \ {0} /\ C(i) \in Nat \ {0}
      BY <1>1, <2>2
    <3> QED BY <1>1, <2>2, <3>1, OnePlace
  <2> QED
    BY <1>8, <2>3
<1>11. Len(p) \in Nat /\ Len(p) <= Len(cs) * Len(ss)
  BY <1>3, <1>5 DEF all, m, n
<1>12. \A i \in 1..l : \E c \in 1..m, s \in 1..n : p[i].cfg = cs[c] /\ p[i].seed = ss[s]
  BY <1>8
<1>13. Len(p) = l /\ m = Len(cs) /\ n = Len(ss)
  BY <1>5 DEF m, n
<1> HIDE DEF NoRepeats
<1>14. BatchIs(p, cs, ss, left)
  BY <1>9, <1>10, <1>11, <1>12, <1>13 DEF BatchIs
<1> QED
  BY <1>14 DEF p

-----------------------------------------------------------------------------
(* No second measurement.  The seeds are given once, and promotion seeds are *)
(* not search seeds: nothing in the code looks.                              *)
SeedsOnce ==
  /\ NoRepeats(Seeds) /\ NoRepeats(PromoteSeeds)
  /\ Elements(Seeds) \cap Elements(PromoteSeeds) = {}

(* A batch asks for each config and seed once, of what it has not recorded   *)
(* yet nothing has a row, and its configs were new when its round began.     *)
InHand    == pc \in {"eval", "record"}
FirstLeft == IF pc = "eval" THEN 1 ELSE pos
BatchApart ==
  InHand => \A i, k \in 1..Len(reqs) : reqs[i].cfg = reqs[k].cfg /\ reqs[i].seed = reqs[k].seed => i = k
Unmeasured ==
  InHand => \A i \in 1..Len(reqs), j \in 1..Len(rows) :
    i >= FirstLeft => ~(rows[j].cfg = reqs[i].cfg /\ rows[j].seed = reqs[i].seed)
Searching == (InHand /\ phase = "search") \/ pc = "rank"
SearchedOnly ==
  Searching =>
    \A i \in 1..Len(reqs) :
      /\ reqs[i].seed \in Elements(Seeds)
      /\ \A j \in 1..Len(rows) : rows[j].cfg = reqs[i].cfg => rows[j].seed \in Elements(Seeds)
NotPrior == InHand \/ pc = "rank" => \A i \in 1..Len(reqs) : reqs[i].cfg \notin Prior
Once == BatchApart /\ Unmeasured /\ SearchedOnly /\ NotPrior /\ MeasuredOnce

LEMMA InitOnce == Init => Once
BY DEF Init, Once, BatchApart, Unmeasured, SearchedOnly, NotPrior, MeasuredOnce, InHand, Searching, Measured

(* What a round's batch and a promotion's batch are made of.                 *)
LEMMA RoundBatch ==
  ASSUME IInv, Round
  PROVE  /\ Len(reqs') \in Nat /\ Width \in Nat \ {0} /\ Len(reqs') <= Width * Len(Seeds)
         /\ \A i \in 1..Len(reqs') :
              /\ reqs'[i].cfg \in Configs /\ reqs'[i].cfg \notin Prior
              /\ reqs'[i].seed \in Elements(Seeds)
              /\ \A j \in 1..Len(rows) : rows[j].cfg # reqs'[i].cfg
         /\ SeedsOnce => \A i, k \in 1..Len(reqs') :
              reqs'[i].cfg = reqs'[k].cfg /\ reqs'[i].seed = reqs'[k].seed => i = k
         /\ used + Len(reqs') < Budget => \A i \in 1..Len(reqs'), s \in Elements(Seeds) :
              \E k \in 1..Len(reqs') : reqs'[k].cfg = reqs'[i].cfg /\ reqs'[k].seed = s
<1>1. PICK cs \in Proposals(Width) : reqs' = Requests(cs, Seeds, Budget - used)
  BY DEF Round
<1>2. Width \in Nat \ {0}
  <2>1. Len(Seeds) \in Nat \ {0} /\ Budget - used \in Nat
    BY BudgetAssumption, SeedsAssumption DEF Round, IInv, TypeOK
  <2>2. (Budget - used) \div Len(Seeds) \in Int
    BY <2>1
  <2> QED
    BY <2>2, BudgetAssumption DEF Width, Least
<1>3. /\ cs \in Seq(Configs) /\ cs # <<>> /\ Len(cs) = Width
      /\ \A c \in 1..Len(cs) : cs[c] \in Configs /\ cs[c] \notin Prior /\ cs[c] \notin Measured
      /\ \A c, d \in 1..Len(cs) : cs[c] = cs[d] => c = d
  <2>1. cs \in [1..Width -> Configs \ (Prior \cup Measured)] /\ IsInjective(cs)
    BY DEF Proposals
  <2>2. Len(cs) = Width /\ cs \in Seq(Configs) /\ cs # <<>>
    BY <1>2, <2>1
  <2> QED
    BY <2>1, <2>2 DEF IsInjective
<1>4. Budget - used \in Nat \ {0} /\ Budget \in Nat /\ used \in Nat
  BY BudgetAssumption DEF Round, IInv, TypeOK
<1>5. /\ Len(reqs') \in Nat /\ Len(reqs') <= Len(cs) * Len(Seeds)
      /\ \A i \in 1..Len(reqs') : \E c \in 1..Len(cs), s \in 1..Len(Seeds) :
           reqs'[i].cfg = cs[c] /\ reqs'[i].seed = Seeds[s]
      /\ NoRepeats(cs) /\ NoRepeats(Seeds) => \A i, k \in 1..Len(reqs') :
           reqs'[i].cfg = reqs'[k].cfg /\ reqs'[i].seed = reqs'[k].seed => i = k
      /\ Len(reqs') < Budget - used => \A c \in 1..Len(cs), s \in 1..Len(Seeds) :
           \E i \in 1..Len(reqs') : reqs'[i].cfg = cs[c] /\ reqs'[i].seed = Seeds[s]
  <2>1. BatchIs(reqs', cs, Seeds, Budget - used)
    BY <1>1, <1>3, <1>4, SeedsAssumption, RequestsAre
  <2> QED
    BY <2>1 DEF BatchIs
<1>6. ASSUME NEW i \in 1..Len(reqs')
      PROVE  /\ reqs'[i].cfg \in Configs /\ reqs'[i].cfg \notin Prior
             /\ reqs'[i].seed \in Elements(Seeds)
             /\ \A j \in 1..Len(rows) : rows[j].cfg # reqs'[i].cfg
  <2>1. PICK c \in 1..Len(cs), s \in 1..Len(Seeds) : reqs'[i].cfg = cs[c] /\ reqs'[i].seed = Seeds[s]
    BY <1>5
  <2> QED
    BY <1>3, <2>1 DEF Elements, Measured
<1>7. ASSUME SeedsOnce, NEW i \in 1..Len(reqs'), NEW k \in 1..Len(reqs'),
             reqs'[i].cfg = reqs'[k].cfg, reqs'[i].seed = reqs'[k].seed
      PROVE  i = k
  <2>1. NoRepeats(cs) /\ NoRepeats(Seeds)
    BY <1>3, <1>7 DEF SeedsOnce, NoRepeats
  <2> QED
    BY <1>5, <1>7, <2>1
<1>8. ASSUME used + Len(reqs') < Budget, NEW i \in 1..Len(reqs'), NEW s \in Elements(Seeds)
      PROVE  \E k \in 1..Len(reqs') : reqs'[k].cfg = reqs'[i].cfg /\ reqs'[k].seed = s
  <2>1. PICK c \in 1..Len(cs) : reqs'[i].cfg = cs[c]
    BY <1>5
  <2>2. PICK u \in 1..Len(Seeds) : s = Seeds[u]
    BY DEF Elements
  <2>3. Len(reqs') < Budget - used
    <3> DEFINE n == Len(reqs')
    <3>1. n \in Nat /\ used + n < Budget
      BY <1>5, <1>8
    <3> HIDE DEF n
    <3>2. n < Budget - used
      BY <1>4, <3>1
    <3> QED BY <3>2 DEF n
  <2>4. PICK k \in 1..Len(reqs') : reqs'[k].cfg = cs[c] /\ reqs'[k].seed = Seeds[u]
    BY <1>5, <2>3
  <2> QED
    BY <2>1, <2>2, <2>4
<1>9. Len(reqs') <= Width * Len(Seeds)
  BY <1>3, <1>5
<1> QED
  BY <1>2, <1>5, <1>6, <1>7, <1>8, <1>9

LEMMA PromoteBatch ==
  ASSUME IInv, Promote
  PROVE  /\ Len(reqs') \in Nat /\ Len(reqs') <= PromoteTop * Len(PromoteSeeds)
         /\ \A i \in 1..Len(reqs') : reqs'[i].cfg \in Ranked /\ reqs'[i].seed \in Elements(PromoteSeeds)
         /\ SeedsOnce => \A i, k \in 1..Len(reqs') :
              reqs'[i].cfg = reqs'[k].cfg /\ reqs'[i].seed = reqs'[k].seed => i = k
<1>1. PICK t \in Tops : reqs' = Requests(t, PromoteSeeds, Budget - used)
  BY DEF Promote
<1>2. pc = "rank" /\ Promotable /\ PromoteSeeds \in Seq(Nat) /\ PromoteSeeds # <<>>
  BY SeedsAssumption DEF Promote, Promotable
<1>3. /\ t \in Seq(Configs) /\ t # <<>> /\ Len(t) <= PromoteTop
      /\ \A c \in 1..Len(t) : t[c] \in Ranked
      /\ \A c, d \in 1..Len(t) : t[c] = t[d] => c = d
  <2>1. Ranked \subseteq Configs
    BY ElementTypes DEF Ranked, IInv
  <2>2. Cardinality(Ranked) \in Nat \ {0}
    BY <1>2, RankedFinite, FS_CardinalityType, FS_EmptySet DEF Promotable, IInv
  <2>3. Least(PromoteTop, Cardinality(Ranked)) \in Nat \ {0} /\ Least(PromoteTop, Cardinality(Ranked)) <= PromoteTop
    BY <1>2, <2>2, BudgetAssumption DEF Least, Promotable
  <2>4. t \in [1..Least(PromoteTop, Cardinality(Ranked)) -> Ranked] /\ IsInjective(t)
    BY DEF Tops
  <2>5. Len(t) = Least(PromoteTop, Cardinality(Ranked)) /\ t \in Seq(Configs) /\ t # <<>>
    BY <2>1, <2>3, <2>4
  <2> QED
    BY <2>3, <2>4, <2>5 DEF IsInjective
<1>4. Budget - used \in Nat \ {0} /\ PromoteTop \in Nat
  BY <1>2, BudgetAssumption DEF IInv, TypeOK, Promotable
<1>5. /\ Len(reqs') \in Nat /\ Len(reqs') <= Len(t) * Len(PromoteSeeds)
      /\ \A i \in 1..Len(reqs') : \E c \in 1..Len(t), s \in 1..Len(PromoteSeeds) :
           reqs'[i].cfg = t[c] /\ reqs'[i].seed = PromoteSeeds[s]
      /\ NoRepeats(t) /\ NoRepeats(PromoteSeeds) => \A i, k \in 1..Len(reqs') :
           reqs'[i].cfg = reqs'[k].cfg /\ reqs'[i].seed = reqs'[k].seed => i = k
  <2>1. BatchIs(reqs', t, PromoteSeeds, Budget - used)
    BY <1>1, <1>2, <1>3, <1>4, RequestsAre
  <2> QED
    BY <2>1 DEF BatchIs
<1>6. ASSUME NEW i \in 1..Len(reqs')
      PROVE  reqs'[i].cfg \in Ranked /\ reqs'[i].seed \in Elements(PromoteSeeds)
  BY <1>3, <1>5 DEF Elements
<1>7. ASSUME SeedsOnce, NEW i \in 1..Len(reqs'), NEW k \in 1..Len(reqs'),
             reqs'[i].cfg = reqs'[k].cfg, reqs'[i].seed = reqs'[k].seed
      PROVE  i = k
  <2>1. NoRepeats(t) /\ NoRepeats(PromoteSeeds)
    BY <1>3, <1>7 DEF SeedsOnce, NoRepeats
  <2> QED
    BY <1>5, <1>7, <2>1
<1>8. Len(t) * Len(PromoteSeeds) <= PromoteTop * Len(PromoteSeeds)
  <2>1. Len(t) \in Nat /\ Len(PromoteSeeds) \in Nat /\ Len(t) <= PromoteTop
    BY <1>2, <1>3
  <2> QED BY <1>4, <2>1
<1>9. Len(reqs') <= PromoteTop * Len(PromoteSeeds)
  <2>1. Len(t) * Len(PromoteSeeds) \in Int /\ PromoteTop * Len(PromoteSeeds) \in Int
    BY <1>2, <1>3, <1>4
  <2> QED BY <1>5, <1>8, <2>1
<1> QED
  BY <1>5, <1>6, <1>7, <1>9

(* What recording an answer does: one more row, and past the last answer    *)
(* the batch counts.                                                        *)
LEMMA RecordEffect ==
  ASSUME IInv, Record
  PROVE  /\ pc = "record" /\ pos \in 1..Len(reqs) /\ Len(reqs) \in Nat /\ Len(rows) \in Nat
         /\ used \in Nat /\ Len(rows) = used + pos - 1 /\ Len(res) = Len(reqs)
         /\ Len(rows') = Len(rows) + 1 /\ \A i \in 1..Len(rows) : rows'[i] = rows[i]
         /\ rows'[Len(rows) + 1] = RowOf(rnd, phase, reqs[pos], res[pos])
         /\ UNCHANGED <<rnd, rounds, phase, reqs, res, stop, starts, asked>>
         /\ \/ pc' = "record" /\ pos' = pos + 1 /\ pos < Len(reqs) /\ used' = used
            \/ /\ pos = Len(reqs) /\ used' = used + Len(reqs)
               /\ pc' = IF phase = "search" THEN "rank" ELSE "top"
<1> DEFINE x == RowOf(rnd, phase, reqs[pos], res[pos])
<1>1. /\ pc = "record" /\ rows' = Append(rows, x)
      /\ UNCHANGED <<rnd, rounds, phase, reqs, res, late, told, starts, asked>>
  BY DEF Record
<1>2. /\ Len(res) = Len(reqs) /\ pos \in 1..Len(reqs) /\ Len(reqs) \in Nat
      /\ Len(rows) = used + pos - 1 /\ Len(rows) \in Nat /\ used \in Nat
  BY <1>1 DEF IInv, TypeOK, CountsAgree
<1>3. x \in Row
  <2>1. reqs[pos] \in Request /\ res[pos] \in Answers
    BY <1>2 DEF IInv, TypeOK
  <2> QED
    BY <2>1 DEF RowOf, Row, Request, IInv, TypeOK
<1> HIDE DEF x
<1>4. Len(rows') = Len(rows) + 1 /\ rows'[Len(rows) + 1] = x /\ \A i \in 1..Len(rows) : rows'[i] = rows[i]
  BY <1>1, <1>3 DEF IInv, TypeOK
<1>5. \/ pc' = "record" /\ pos' = pos + 1 /\ pos < Len(reqs) /\ used' = used
      \/ pos = Len(reqs) /\ used' = used + Len(reqs) /\ pc' = IF phase = "search" THEN "rank" ELSE "top"
  <2>1. CASE pos < Len(reqs)
    BY <1>1, <2>1 DEF Record
  <2>2. CASE ~(pos < Len(reqs))
    <3>1. pos = Len(reqs)
      BY <1>2, <2>2
    <3> QED BY <2>2, <3>1 DEF Record
  <2> QED BY <2>1, <2>2
<1> QED
  BY <1>1, <1>2, <1>4, <1>5 DEF x, told

LEMMA RowFields ==
  ASSUME NEW r, NEW m, NEW q, NEW x
  PROVE  /\ RowOf(r, m, q, x).cfg = q.cfg /\ RowOf(r, m, q, x).seed = q.seed
         /\ RowOf(r, m, q, x).round = r /\ RowOf(r, m, q, x).note = m /\ RowOf(r, m, q, x).score = x
BY DEF RowOf

LEMMA OutOfHand ==
  ASSUME MeasuredOnce, rows' = rows, pc' \in {"off", "top", "ended"} PROVE Once'
BY DEF Once, BatchApart, Unmeasured, SearchedOnly, NotPrior, MeasuredOnce, InHand, Searching, Measured

LEMMA RoundOnce == ASSUME SeedsOnce, IInv, Once, Round PROVE Once'
<1>1. /\ pc' = "eval" /\ phase' = "search" /\ rows' = rows /\ pos' = pos
  BY DEF Round
<1>2. BatchApart'
  BY RoundBatch DEF BatchApart
<1>3. Unmeasured' /\ SearchedOnly'
  BY <1>1, RoundBatch DEF Unmeasured, SearchedOnly
<1>4. NotPrior'
  BY RoundBatch DEF NotPrior
<1>5. MeasuredOnce'
  BY <1>1 DEF Once, MeasuredOnce, Measured
<1> QED
  BY <1>2, <1>3, <1>4, <1>5 DEF Once

LEMMA PromoteOnce == ASSUME SeedsOnce, IInv, Once, Promote PROVE Once'
<1>1. /\ pc = "rank" /\ pc' = "eval" /\ phase' = "promote" /\ rows' = rows
  BY DEF Promote
<1>2. \A c \in Ranked : c \notin Prior /\ \A j \in 1..Len(rows) : rows[j].cfg = c => rows[j].seed \in Elements(Seeds)
  BY <1>1 DEF Ranked, Once, NotPrior, SearchedOnly, Searching
<1>3. BatchApart'
  BY PromoteBatch DEF BatchApart
<1>4. Unmeasured'
  BY <1>1, <1>2, PromoteBatch DEF Unmeasured, SeedsOnce
<1>5. NotPrior'
  BY <1>2, PromoteBatch DEF NotPrior
<1>6. SearchedOnly'
  BY <1>1 DEF SearchedOnly, Searching, InHand
<1>7. MeasuredOnce'
  BY <1>1 DEF Once, MeasuredOnce, Measured
<1> QED
  BY <1>3, <1>4, <1>5, <1>6, <1>7 DEF Once

LEMMA RecordOnce == ASSUME IInv, Once, Record PROVE Once'
<1> DEFINE n == Len(rows)
           x == RowOf(rnd, phase, reqs[pos], res[pos])
<1>1. /\ pc = "record" /\ pos \in 1..Len(reqs) /\ n \in Nat /\ Len(rows') = n + 1
      /\ \A j \in 1..n : rows'[j] = rows[j]
      /\ rows'[n + 1].cfg = reqs[pos].cfg /\ rows'[n + 1].seed = reqs[pos].seed
      /\ reqs' = reqs /\ phase' = phase
      /\ pc' = "record" => pos' = pos + 1
      /\ pc' = "rank" => phase = "search"
      /\ pc' \in {"record", "rank", "top"}
  <2> HIDE DEF n
  <2> QED BY RecordEffect, RowFields DEF n
<1>2. \A j \in 1..(n + 1) : j \in 1..n \/ j = n + 1
  BY <1>1
<1> HIDE DEF n
<1>3. /\ \A i, k \in 1..Len(reqs) : reqs[i].cfg = reqs[k].cfg /\ reqs[i].seed = reqs[k].seed => i = k
      /\ \A i \in 1..Len(reqs), j \in 1..n : i >= pos => ~(rows[j].cfg = reqs[i].cfg /\ rows[j].seed = reqs[i].seed)
      /\ \A i \in 1..Len(reqs) : reqs[i].cfg \notin Prior
  BY <1>1 DEF Once, BatchApart, Unmeasured, NotPrior, InHand, FirstLeft, n
<1>4. BatchApart' /\ NotPrior'
  BY <1>1, <1>3 DEF BatchApart, NotPrior
<1>5. Unmeasured'
  <2>1. ASSUME pc' = "record", NEW i \in 1..Len(reqs), NEW j \in 1..(n + 1), i >= pos + 1
        PROVE  ~(rows'[j].cfg = reqs[i].cfg /\ rows'[j].seed = reqs[i].seed)
    <3>1. CASE j \in 1..n
      <4>1. i >= pos
        BY <1>1, <2>1
      <4> QED BY <1>1, <1>3, <3>1, <4>1
    <3>2. CASE j = n + 1
      <4>1. i # pos
        BY <1>1, <2>1
      <4> QED BY <1>1, <1>3, <3>2, <4>1
    <3> QED BY <1>2, <3>1, <3>2
  <2> QED BY <1>1, <2>1 DEF Unmeasured, InHand, FirstLeft
<1>6. SearchedOnly'
  <2>1. ASSUME phase = "search", NEW i \in 1..Len(reqs), NEW j \in 1..(n + 1), rows'[j].cfg = reqs[i].cfg
        PROVE  rows'[j].seed \in Elements(Seeds)
    <3>1. /\ \A k \in 1..Len(reqs) : reqs[k].seed \in Elements(Seeds)
          /\ \A k \in 1..n : rows[k].cfg = reqs[i].cfg => rows[k].seed \in Elements(Seeds)
      BY <1>1, <2>1 DEF Once, SearchedOnly, Searching, InHand, n
    <3> QED BY <1>1, <1>2, <2>1, <3>1
  <2>2. phase = "search" => \A k \in 1..Len(reqs) : reqs[k].seed \in Elements(Seeds)
    BY <1>1 DEF Once, SearchedOnly, Searching, InHand
  <2>3. Searching' => phase = "search"
    BY <1>1 DEF Searching, InHand
  <2> QED BY <1>1, <2>1, <2>2, <2>3 DEF SearchedOnly
<1>7. MeasuredOnce'
  <2>1. /\ \A i, j \in 1..n : rows[i].cfg = rows[j].cfg /\ rows[i].seed = rows[j].seed => i = j
        /\ \A i \in 1..n : rows[i].cfg \notin Prior
    BY DEF Once, MeasuredOnce, Measured, n
  <2>2. \A j \in 1..n : ~(rows[j].cfg = reqs[pos].cfg /\ rows[j].seed = reqs[pos].seed)
    <3>1. pos >= pos
      BY <1>1
    <3> QED BY <1>1, <1>3, <3>1
  <2>3. ASSUME NEW i \in 1..(n + 1), NEW j \in 1..(n + 1), rows'[i].cfg = rows'[j].cfg, rows'[i].seed = rows'[j].seed
        PROVE  i = j
    BY <1>1, <1>2, <2>1, <2>2, <2>3
  <2>4. \A i \in 1..(n + 1) : rows'[i].cfg \notin Prior
    BY <1>1, <1>2, <1>3, <2>1
  <2> QED BY <1>1, <2>3, <2>4 DEF MeasuredOnce, Measured
<1> QED
  BY <1>4, <1>5, <1>6, <1>7 DEF Once

LEMMA NextOnce == ASSUME SeedsOnce, IInv, Once, [Next]_vars PROVE Once'
<1>0. MeasuredOnce
  BY DEF Once
<1>1. CASE Start \/ OutOfBudget \/ OutOfTime \/ OutOfLLM \/ NoPromotion \/ Die
  <2>1. rows' = rows /\ pc' \in {"off", "top", "ended"}
    BY <1>1 DEF Start, OutOfBudget, OutOfTime, OutOfLLM, End, NoPromotion, Die
  <2> QED BY <1>0, <2>1, OutOfHand
<1>2. CASE Evaluate
  <2>1. /\ pc = "eval" /\ pc' = "record" /\ pos' = 1
        /\ reqs' = reqs /\ rows' = rows /\ phase' = phase
    BY <1>2 DEF Evaluate
  <2> QED
    BY <2>1 DEF Once, BatchApart, Unmeasured, SearchedOnly, NotPrior, MeasuredOnce, Measured, InHand, Searching, FirstLeft
<1>3. CASE DeadlinePasses \/ Over \/ UNCHANGED vars
  <2>1. UNCHANGED <<rows, pc, phase, reqs, pos>>
    BY <1>3 DEF DeadlinePasses, Over, vars, work
  <2> QED
    BY <2>1 DEF Once, BatchApart, Unmeasured, SearchedOnly, NotPrior, MeasuredOnce, Measured, InHand, Searching, FirstLeft
<1> QED
  BY <1>1, <1>2, <1>3, RoundOnce, RecordOnce, PromoteOnce DEF Next, Step

(* No config is measured twice on a seed and the incumbent never, across    *)
(* kills and resumes (search.py run_search_v2: history, dedupe): given      *)
(* seeds that are not repeated, which is the caller's part.                 *)
THEOREM NothingMeasuredTwice == SeedsOnce => (Spec => []MeasuredOnce)
<1>1. SUFFICES ASSUME SeedsOnce PROVE Spec => []MeasuredOnce
  OBVIOUS
<1>2. Init => Once
  BY InitOnce
<1>3. IInv /\ Once /\ [Next]_vars => Once'
  BY <1>1, NextOnce
<1>4. Once => MeasuredOnce
  BY DEF Once
<1> QED
  BY <1>2, <1>3, <1>4, Inductive, PTL DEF Spec

-----------------------------------------------------------------------------
(* What a promotion rests on.  The rows of a search batch are the last ones, *)
(* in its order, and the only ones of their round; a batch that leaves       *)
(* budget asked for all search seeds of its configs; so a config that ranks  *)
(* while there is budget was measured on all of them, and never failed.      *)
BatchFrom == IF pc = "rank" THEN used - Len(reqs) ELSE used
Answered  == IF pc = "rank" THEN Len(reqs) ELSE IF pc = "record" THEN pos - 1 ELSE 0
Recorded ==
  Searching =>
    /\ BatchFrom \in Nat /\ Len(rows) = BatchFrom + Answered
    /\ \A j \in 1..BatchFrom : rows[j].round < rnd
    /\ \A i \in 1..Answered : rows[BatchFrom + i] = RowOf(rnd, "search", reqs[i], res[i])
AllSeeds ==
  Searching =>
    /\ \A i \in 1..Len(reqs) : reqs[i].seed \in Elements(Seeds)
    /\ BatchFrom + Len(reqs) < Budget => \A i \in 1..Len(reqs), s \in Elements(Seeds) :
         \E k \in 1..Len(reqs) : reqs[k].cfg = reqs[i].cfg /\ reqs[k].seed = s
Promoting(c, r) == InHand /\ phase = "promote" /\ rnd = r /\ \E i \in 1..Len(reqs) : reqs[i].cfg = c
Promoted(c, r)  == \E j \in 1..Len(rows) : rows[j].note = "promote" /\ rows[j].cfg = c /\ rows[j].round = r
AllComplete     == \A c, r : Promoting(c, r) \/ Promoted(c, r) => Complete(c, r)
Earned == Recorded /\ AllSeeds /\ AllComplete

(* Complete, row by row; a row of another round, config or phase is no      *)
(* matter to it.                                                            *)
Searched(j, c, r) == rows[j].cfg = c /\ rows[j].round = r /\ rows[j].note = "search"

LEMMA CompleteIs ==
  ASSUME NEW c, NEW r
  PROVE  Complete(c, r) <=>
           /\ \A j \in 1..Len(rows) : Searched(j, c, r) => rows[j].seed \in Elements(Seeds) /\ rows[j].score # Failed
           /\ \A s \in Elements(Seeds) : \E j \in 1..Len(rows) : Searched(j, c, r) /\ rows[j].seed = s
<1>1. SearchRows(c, r) = {j \in 1..Len(rows) : Searched(j, c, r)}
  BY DEF SearchRows, Searched
<1> HIDE DEF SearchRows, Searched
<1>2. Complete(c, r) <=> /\ {rows[j].seed : j \in SearchRows(c, r)} = Elements(Seeds)
                         /\ \A j \in SearchRows(c, r) : rows[j].score # Failed
  BY DEF Complete
<1> QED
  BY <1>1, <1>2

LEMMA CompleteSame ==
  ASSUME rows' = rows, NEW c, NEW r PROVE Complete(c, r) => Complete(c, r)'
BY DEF Complete, SearchRows

LEMMA CompleteKept ==
  ASSUME NEW c, NEW r, Complete(c, r), Len(rows) \in Nat, Len(rows') = Len(rows) + 1,
         \A j \in 1..Len(rows) : rows'[j] = rows[j],
         ~(rows'[Len(rows) + 1].cfg = c /\ rows'[Len(rows) + 1].round = r /\ rows'[Len(rows) + 1].note = "search")
  PROVE  Complete(c, r)'
<1>1. SearchRows(c, r)' = SearchRows(c, r)
  <2>1. \A j \in 1..(Len(rows) + 1) : j \in 1..Len(rows) \/ j = Len(rows) + 1
    OBVIOUS
  <2>2. 1..Len(rows) \subseteq 1..Len(rows')
    OBVIOUS
  <2> QED BY <2>1, <2>2 DEF SearchRows
<1>2. \A j \in SearchRows(c, r) : rows'[j] = rows[j]
  BY DEF SearchRows
<1> HIDE DEF SearchRows
<1>3. {rows'[j].seed : j \in SearchRows(c, r)} = {rows[j].seed : j \in SearchRows(c, r)}
  BY <1>2
<1>4. \A j \in SearchRows(c, r) : rows'[j].score # Failed
  BY <1>2 DEF Complete
<1> QED
  BY <1>1, <1>3, <1>4 DEF Complete

LEMMA InitEarned == Init => Earned
BY DEF Init, Earned, Recorded, AllSeeds, AllComplete, Promoting, Promoted, Searching, InHand

(* A config that ranks while there is budget left.                          *)
LEMMA RankedComplete ==
  ASSUME IInv, Earned, pc = "rank", used < Budget, NEW c \in Ranked
  PROVE  Complete(c, rnd)
<1> DEFINE b == used - Len(reqs)
           n == Len(reqs)
<1>1. /\ b \in Nat /\ n \in Nat /\ Len(rows) = b + n /\ b + n < Budget
      /\ \A j \in 1..b : rows[j].round < rnd
      /\ \A i \in 1..n : rows[b + i] = RowOf(rnd, "search", reqs[i], res[i])
      /\ \A i \in 1..n : reqs[i].seed \in Elements(Seeds)
      /\ \A i \in 1..n, s \in Elements(Seeds) :
           \E k \in 1..n : reqs[k].cfg = reqs[i].cfg /\ reqs[k].seed = s
  <2>1. BatchFrom = b /\ Answered = n /\ Searching
    BY DEF BatchFrom, Answered, Searching
  <2>2. n \in Nat /\ used \in Nat
    BY DEF IInv, TypeOK
  <2>3. b \in Nat /\ b + n = used
    BY <2>1, <2>2 DEF Earned, Recorded
  <2> HIDE DEF b
  <2>4. Len(rows) = b + n /\ \A j \in 1..b : rows[j].round < rnd
    BY <2>1 DEF Earned, Recorded
  <2>5. \A i \in 1..n : rows[b + i] = RowOf(rnd, "search", reqs[i], res[i])
    BY <2>1 DEF Earned, Recorded
  <2>6. \A i \in 1..n : reqs[i].seed \in Elements(Seeds)
    BY <2>1 DEF Earned, AllSeeds
  <2>7. \A i \in 1..n, s \in Elements(Seeds) :
           \E k \in 1..n : reqs[k].cfg = reqs[i].cfg /\ reqs[k].seed = s
    BY <2>1, <2>3 DEF Earned, AllSeeds
  <2> QED BY <2>2, <2>3, <2>4, <2>5, <2>6, <2>7
<1>2. (\E i \in 1..n : reqs[i].cfg = c) /\ \A i \in 1..n : reqs[i].cfg = c => res[i] # Failed
  BY DEF Ranked, Of
<1> HIDE DEF b, n
<1>3. ASSUME NEW i \in 1..n
      PROVE  /\ rows[b + i].cfg = reqs[i].cfg /\ rows[b + i].seed = reqs[i].seed
             /\ rows[b + i].score = res[i] /\ rows[b + i].round = rnd /\ rows[b + i].note = "search"
  <2>1. rows[b + i] = RowOf(rnd, "search", reqs[i], res[i])
    BY <1>1
  <2> QED BY <2>1, RowFields
<1>4. ASSUME NEW j \in 1..Len(rows), Searched(j, c, rnd)
      PROVE  rows[j].seed \in Elements(Seeds) /\ rows[j].score # Failed
  <2>1. ~(j \in 1..b)
    <3>1. \A i \in 1..b : rows[i].round # rnd
      <4>1. rnd \in Nat /\ \A i \in 1..Len(rows) : rows[i].round \in Nat
        BY ElementTypes DEF IInv, TypeOK
      <4>2. \A i \in 1..b : i \in 1..Len(rows)
        BY <1>1
      <4> QED BY <1>1, <4>1, <4>2
    <3> QED BY <1>4, <3>1 DEF Searched
  <2>2. j - b \in 1..n /\ b + (j - b) = j
    <3>1. b \in Nat /\ n \in Nat /\ j \in 1..(b + n)
      BY <1>1
    <3> QED BY <2>1, <3>1
  <2>3. PICK i \in 1..n : j = b + i
    BY <2>2
  <2>4. reqs[i].cfg = c /\ rows[j].seed = reqs[i].seed /\ rows[j].score = res[i]
    BY <1>3, <1>4, <2>3 DEF Searched
  <2> QED
    BY <1>1, <1>2, <2>4
<1>5. ASSUME NEW s \in Elements(Seeds)
      PROVE  \E j \in 1..Len(rows) : Searched(j, c, rnd) /\ rows[j].seed = s
  <2>0. PICK i \in 1..n : reqs[i].cfg = c
    BY <1>2
  <2>1. PICK k \in 1..n : reqs[k].cfg = c /\ reqs[k].seed = s
    <3>1. \E k \in 1..n : reqs[k].cfg = reqs[i].cfg /\ reqs[k].seed = s
      BY <1>1
    <3> QED BY <2>0, <3>1
  <2>2. b + k \in 1..Len(rows)
    <3>1. b \in Nat /\ n \in Nat /\ Len(rows) = b + n
      BY <1>1
    <3> QED BY <3>1
  <2>3. Searched(b + k, c, rnd) /\ rows[b + k].seed = s
    BY <1>3, <2>1 DEF Searched
  <2> QED BY <2>2, <2>3
<1> QED
  BY <1>4, <1>5, CompleteIs

LEMMA RoundEarned == ASSUME IInv, Earned, Round PROVE Earned'
<1>1. /\ pc = "top" /\ pc' = "eval" /\ phase' = "search" /\ rows' = rows /\ used' = used /\ rnd' = rnd + 1
  BY DEF Round
<1>2. Len(rows) \in Nat /\ used = Len(rows) /\ \A j \in 1..Len(rows) : rows[j].round < rnd + 1
  <2>1. /\ rnd \in Nat /\ \A i \in 1..Len(rows) : rows[i].round \in Nat /\ rows[i].round <= rnd
    BY <1>1, ElementTypes DEF IInv, TypeOK, RoundsAscend
  <2>2. used = Len(rows) /\ Len(rows) \in Nat
    BY <1>1, ElementTypes DEF IInv, CountsAgree
  <2> QED BY <2>1, <2>2
<1>3. BatchFrom' = used /\ Answered' = 0
  BY <1>1 DEF BatchFrom, Answered
<1>4. Recorded'
  BY <1>1, <1>2, <1>3 DEF Recorded
<1>5. AllSeeds'
  <2>1. /\ \A i \in 1..Len(reqs') : reqs'[i].seed \in Elements(Seeds)
        /\ used + Len(reqs') < Budget => \A i \in 1..Len(reqs'), s \in Elements(Seeds) :
             \E k \in 1..Len(reqs') : reqs'[k].cfg = reqs'[i].cfg /\ reqs'[k].seed = s
    BY RoundBatch
  <2> QED BY <1>3, <2>1 DEF AllSeeds
<1>6. AllComplete'
  <2>1. ASSUME NEW c, NEW r, Promoting(c, r)' \/ Promoted(c, r)' PROVE Complete(c, r)'
    <3>1. Promoted(c, r)
      BY <1>1, <2>1 DEF Promoting, Promoted
    <3> QED BY <1>1, <3>1, CompleteSame DEF Earned, AllComplete
  <2> QED BY <2>1 DEF AllComplete
<1> QED
  BY <1>4, <1>5, <1>6 DEF Earned

LEMMA PromoteEarned == ASSUME IInv, Earned, Promote PROVE Earned'
<1>1. /\ pc = "rank" /\ pc' = "eval" /\ phase' = "promote" /\ rows' = rows /\ rnd' = rnd /\ used < Budget
  BY DEF Promote, Promotable, loop
<1>2. ~Searching'
  BY <1>1 DEF Searching, InHand
<1>3. AllComplete'
  <2>1. ASSUME NEW c, NEW r, Promoting(c, r)' \/ Promoted(c, r)' PROVE Complete(c, r)'
    <3>1. CASE Promoted(c, r)'
      <4>1. Promoted(c, r)
        BY <1>1, <3>1 DEF Promoted
      <4> QED BY <1>1, <4>1, CompleteSame DEF Earned, AllComplete
    <3>2. CASE Promoting(c, r)'
      <4>1. c \in Ranked /\ r = rnd
        BY <1>1, <3>2, PromoteBatch DEF Promoting
      <4>2. Complete(c, r)
        BY <1>1, <4>1, RankedComplete
      <4> QED BY <1>1, <4>2, CompleteSame
    <3> QED BY <2>1, <3>1, <3>2
  <2> QED BY <2>1 DEF AllComplete
<1> QED
  BY <1>2, <1>3 DEF Earned, Recorded, AllSeeds

LEMMA RecordEarned == ASSUME IInv, Earned, Record PROVE Earned'
<1> DEFINE n == Len(rows)
<1>1. /\ pc = "record" /\ pos \in 1..Len(reqs) /\ Len(reqs) \in Nat /\ n \in Nat
      /\ used \in Nat /\ n = used + pos - 1
      /\ Len(rows') = n + 1 /\ \A j \in 1..n : rows'[j] = rows[j]
      /\ rows'[n + 1] = RowOf(rnd, phase, reqs[pos], res[pos])
      /\ rnd' = rnd /\ phase' = phase /\ reqs' = reqs /\ res' = res
      /\ \/ pc' = "record" /\ pos' = pos + 1 /\ pos < Len(reqs) /\ used' = used
         \/ /\ pos = Len(reqs) /\ used' = used + Len(reqs)
            /\ pc' = IF phase = "search" THEN "rank" ELSE "top"
  BY RecordEffect
<1>2. \A j \in 1..(n + 1) : j \in 1..n \/ j = n + 1
  BY <1>1
<1>3. /\ rows'[n + 1].cfg = reqs[pos].cfg /\ rows'[n + 1].round = rnd /\ rows'[n + 1].note = phase
  BY <1>1, RowFields
<1>4. phase = "search" =>
        /\ n = used + (pos - 1)
        /\ \A j \in 1..used : rows[j].round < rnd
        /\ \A i \in 1..(pos - 1) : rows[used + i] = RowOf(rnd, "search", reqs[i], res[i])
        /\ \A i \in 1..Len(reqs) : reqs[i].seed \in Elements(Seeds)
        /\ used + Len(reqs) < Budget => \A i \in 1..Len(reqs), s \in Elements(Seeds) :
             \E k \in 1..Len(reqs) : reqs[k].cfg = reqs[i].cfg /\ reqs[k].seed = s
  <2>1. BatchFrom = used /\ Answered = pos - 1 /\ (phase = "search" => Searching)
    BY <1>1 DEF BatchFrom, Answered, Searching, InHand
  <2> QED BY <2>1 DEF Earned, Recorded, AllSeeds
<1>5. Searching' => BatchFrom' = used /\ Answered' = pos /\ phase = "search"
  <2>1. CASE pc' = "record"
    BY <1>1, <2>1 DEF BatchFrom, Answered, Searching, InHand
  <2>2. CASE pc' = "rank"
    BY <1>1, <2>2 DEF BatchFrom, Answered
  <2>3. CASE pc' = "top"
    BY <2>3 DEF Searching, InHand
  <2> QED BY <1>1, <2>1, <2>2, <2>3
<1> HIDE DEF n
<1>6. Recorded'
  <2>1. ASSUME phase = "search", NEW i \in 1..pos
        PROVE  rows'[used + i] = RowOf(rnd, "search", reqs[i], res[i])
    <3>1. CASE i = pos
      <4>1. used + i = n + 1
        BY <1>1, <3>1
      <4> QED BY <1>1, <2>1, <3>1, <4>1
    <3>2. CASE i # pos
      <4>1. i \in 1..(pos - 1) /\ used + i \in 1..n
        BY <1>1, <3>2
      <4> QED BY <1>1, <1>4, <2>1, <4>1
    <3> QED BY <3>1, <3>2
  <2>2. phase = "search" => \A j \in 1..used : rows'[j].round < rnd
    <3>1. \A j \in 1..used : j \in 1..n
      BY <1>1
    <3> QED BY <1>1, <1>4, <3>1
  <2>3. Len(rows') = used + pos
    BY <1>1
  <2> QED BY <1>1, <1>5, <2>1, <2>2, <2>3 DEF Recorded
<1>7. AllSeeds'
  BY <1>1, <1>4, <1>5 DEF AllSeeds
<1>8. AllComplete'
  <2>1. ASSUME NEW c, NEW r, Promoting(c, r)' \/ Promoted(c, r)' PROVE Complete(c, r)'
    <3>1. Complete(c, r) /\ (phase = "search" => r # rnd)
      <4>1. CASE Promoting(c, r)'
        <5>1. Promoting(c, r) /\ phase = "promote"
          BY <1>1, <4>1 DEF Promoting, InHand
        <5> QED BY <5>1 DEF Earned, AllComplete
      <4>2. CASE Promoted(c, r)'
        <5>1. PICK j \in 1..(n + 1) : rows'[j].note = "promote" /\ rows'[j].cfg = c /\ rows'[j].round = r
          BY <1>1, <4>2 DEF Promoted
        <5>2. CASE j = n + 1
          <6>1. Promoting(c, r) /\ phase = "promote"
            BY <1>1, <1>3, <5>1, <5>2 DEF Promoting, InHand
          <6> QED BY <6>1 DEF Earned, AllComplete
        <5>3. CASE j \in 1..n
          <6>1. rows[j].note = "promote" /\ rows[j].cfg = c /\ rows[j].round = r
            BY <1>1, <5>1, <5>3
          <6>2. Promoted(c, r)
            BY <5>3, <6>1 DEF Promoted, n
          <6>3. ASSUME phase = "search" PROVE r # rnd
            <7>1. CASE j \in 1..used
              <8>1. rows[j].round < rnd /\ rnd \in Nat
                BY <1>4, <6>3, <7>1 DEF IInv, TypeOK
              <8>2. rows[j].round \in Nat
                BY <5>3, ElementTypes DEF IInv, n
              <8> QED BY <6>1, <8>1, <8>2
            <7>2. CASE ~(j \in 1..used)
              <8>1. j - used \in 1..(pos - 1) /\ used + (j - used) = j
                BY <1>1, <5>3, <7>2
              <8>2. PICK i \in 1..(pos - 1) : j = used + i
                BY <8>1
              <8>3. rows[j] = RowOf(rnd, "search", reqs[i], res[i])
                BY <1>4, <6>3, <8>2
              <8>4. rows[j].note = "search"
                BY <8>3 DEF RowOf
              <8> QED BY <6>1, <8>4
            <7> QED BY <7>1, <7>2
          <6> QED BY <6>2, <6>3 DEF Earned, AllComplete
        <5> QED BY <1>2, <5>2, <5>3
      <4> QED BY <2>1, <4>1, <4>2
    <3>2. ~(rows'[n + 1].cfg = c /\ rows'[n + 1].round = r /\ rows'[n + 1].note = "search")
      BY <1>3, <3>1
    <3> QED BY <1>1, <3>1, <3>2, CompleteKept DEF n
  <2> QED BY <2>1 DEF AllComplete
<1> QED
  BY <1>6, <1>7, <1>8 DEF Earned

LEMMA NextEarned == ASSUME IInv, Earned, [Next]_vars PROVE Earned'
<1>s. ASSUME rows' = rows, \A c, r : Promoting(c, r)' => Promoting(c, r) PROVE AllComplete'
  <2>1. ASSUME NEW c, NEW r, Promoting(c, r)' \/ Promoted(c, r)' PROVE Complete(c, r)'
    <3>1. Promoted(c, r)' => Promoted(c, r)
      BY <1>s DEF Promoted
    <3>2. Complete(c, r)
      BY <1>s, <2>1, <3>1 DEF Earned, AllComplete
    <3> QED BY <1>s, <3>2, CompleteSame
  <2> QED BY <2>1 DEF AllComplete
<1>1. CASE Start \/ OutOfBudget \/ OutOfTime \/ OutOfLLM \/ NoPromotion \/ Die
  <2>1. rows' = rows /\ pc' \in {"off", "top", "ended"}
    BY <1>1 DEF Start, OutOfBudget, OutOfTime, OutOfLLM, End, NoPromotion, Die
  <2>2. Recorded' /\ AllSeeds'
    BY <2>1 DEF Recorded, AllSeeds, Searching, InHand
  <2>3. AllComplete'
    BY <1>s, <2>1 DEF Promoting, InHand
  <2> QED BY <2>2, <2>3 DEF Earned
<1>2. CASE Evaluate
  <2>1. /\ pc = "eval" /\ pc' = "record" /\ pos' = 1 /\ used' = used /\ rnd' = rnd
        /\ reqs' = reqs /\ rows' = rows /\ phase' = phase
    BY <1>2 DEF Evaluate, loop
  <2>2. BatchFrom' = used /\ Answered' = 0 /\ BatchFrom = used /\ Answered = 0 /\ (Searching' <=> Searching)
    BY <2>1 DEF BatchFrom, Answered, Searching, InHand
  <2>3. Recorded'
    BY <2>1, <2>2 DEF Earned, Recorded
  <2>4. AllSeeds'
    BY <2>1, <2>2 DEF Earned, AllSeeds
  <2>5. AllComplete'
    BY <1>s, <2>1 DEF Promoting, InHand
  <2> QED BY <2>3, <2>4, <2>5 DEF Earned
<1>3. CASE DeadlinePasses \/ Over \/ UNCHANGED vars
  <2>1. UNCHANGED <<rows, pc, phase, reqs, pos, res, used, rnd>>
    BY <1>3 DEF DeadlinePasses, Over, vars, work, loop
  <2>2. BatchFrom' = BatchFrom /\ Answered' = Answered /\ (Searching' <=> Searching)
    BY <2>1 DEF BatchFrom, Answered, Searching, InHand
  <2>3. Recorded' /\ AllSeeds'
    BY <2>1, <2>2 DEF Earned, Recorded, AllSeeds
  <2>4. AllComplete'
    BY <1>s, <2>1 DEF Promoting, InHand
  <2> QED BY <2>3, <2>4 DEF Earned
<1> QED
  BY <1>1, <1>2, <1>3, RoundEarned, RecordEarned, PromoteEarned DEF Next, Step

(* A config is only promoted when it was measured on all search seeds in    *)
(* its round and never failed there (search.py:601-613), also when the      *)
(* budget or a kill cut the batch short: PromotionsEarned but for the order *)
(* of the promotions.                                                       *)
THEOREM PromotedAreComplete == Spec => []PromotedComplete
<1>1. Init => Earned
  BY InitEarned
<1>2. IInv /\ Earned /\ [Next]_vars => Earned'
  BY NextEarned
<1>3. Earned => PromotedComplete
  BY DEF Earned, AllComplete, Promoted, PromotedComplete
<1> QED
  BY <1>1, <1>2, <1>3, Inductive, PTL DEF Spec

-----------------------------------------------------------------------------
(* Sums.  What holds of 0 and of k whenever of k - 1 holds of all up to m.   *)
LEMMA UpTo ==
  ASSUME NEW m \in Nat, NEW S, 0 \in S, \A k \in 1..m : k - 1 \in S => k \in S
  PROVE  \A k \in 0..m : k \in S
<1> DEFINE bad == {k \in 0..m : k \notin S}
<1>1. SUFFICES ASSUME bad # {} PROVE FALSE
  OBVIOUS
<1>2. bad \subseteq Nat
  OBVIOUS
<1> HIDE DEF bad
<1>3. \E x \in bad : \A y \in bad : ~(<<y, x>> \in OpToRel(<, Nat))
  BY <1>1, <1>2, NatLessThanWellFounded, WFMin
<1>4. PICK x \in bad : \A y \in bad : ~(y < x)
  BY <1>2, <1>3 DEF OpToRel
<1>5. x \in 0..m /\ x \notin S /\ x # 0
  BY DEF bad
<1>6. x \in 1..m /\ x - 1 \in 0..m /\ x - 1 < x
  BY <1>5
<1>7. x - 1 \in S
  BY <1>4, <1>6 DEF bad
<1> QED
  BY <1>5, <1>6, <1>7

(* f holds the sums of v at the indices in I, up to each k.                  *)
Sums(f, v, I, n) ==
  /\ f \in [0..n -> Int] /\ f[0] = 0
  /\ \A k \in 1..n : f[k] = f[k - 1] + (IF k \in I THEN v[k] ELSE 0)
Addable(v, I, n) == \A k \in 1..n : k \in I => v[k] \in Int

LEMMA SumsExist ==
  ASSUME NEW v, NEW I, NEW n \in Nat, Addable(v, I, n)
  PROVE  \E f : Sums(f, v, I, n)
<1> DEFINE S == {m \in 0..n : \E f : Sums(f, v, I, m)}
<1>1. 0 \in S
  <2>1. Sums([k \in 0..0 |-> 0], v, I, 0)
    BY DEF Sums
  <2> QED BY <2>1
<1>2. ASSUME NEW m \in 1..n, m - 1 \in S PROVE m \in S
  <2>1. PICK f : Sums(f, v, I, m - 1)
    BY <1>2
  <2> DEFINE d == IF m \in I THEN v[m] ELSE 0
             g == [k \in 0..m |-> IF k = m THEN f[m - 1] + d ELSE f[k]]
  <2>2. d \in Int
    BY DEF Addable
  <2>3. /\ f \in [0..(m - 1) -> Int] /\ f[0] = 0
        /\ \A k \in 1..(m - 1) : f[k] = f[k - 1] + (IF k \in I THEN v[k] ELSE 0)
    BY <2>1 DEF Sums
  <2>4. g \in [0..m -> Int] /\ g[0] = 0
    BY <2>2, <2>3
  <2>5. ASSUME NEW k \in 1..m PROVE g[k] = g[k - 1] + (IF k \in I THEN v[k] ELSE 0)
    <3>1. CASE k = m
      BY <3>1
    <3>2. CASE k # m
      <4>1. k \in 1..(m - 1) /\ k - 1 \in 0..m /\ k - 1 # m
        BY <3>2
      <4>2. g[k] = f[k] /\ g[k - 1] = f[k - 1]
        BY <3>2, <4>1
      <4> QED BY <2>3, <4>1, <4>2
    <3> QED BY <3>1, <3>2
  <2>6. Sums(g, v, I, m)
    BY <2>4, <2>5 DEF Sums
  <2> QED BY <2>6
<1> HIDE DEF S
<1>3. n \in S
  BY <1>1, <1>2, UpTo
<1> QED
  BY <1>3 DEF S

LEMMA SumIs ==
  ASSUME NEW v, NEW I, NEW n \in Nat, Addable(v, I, n)
  PROVE  \E f : Sums(f, v, I, n) /\ SumAt(v, I, n) = f[n]
<1> DEFINE E(f) == f = [k \in 0..n |-> IF k = 0 THEN 0 ELSE f[k - 1] + (IF k \in I THEN v[k] ELSE 0)]
           g == CHOOSE f : E(f)
<1>1. PICK f : Sums(f, v, I, n)
  BY SumsExist
<1>2. E(f)
  BY <1>1 DEF Sums
<1>3. E(g)
  BY <1>2
<1>4. SumAt(v, I, n) = g[n]
  BY DEF SumAt
<1>5. g[0] = 0 /\ \A k \in 1..n : g[k] = g[k - 1] + (IF k \in I THEN v[k] ELSE 0)
  <2> HIDE DEF g
  <2> QED BY <1>3
<1> HIDE DEF g, E
<1> DEFINE S == {k \in 0..n : g[k] = f[k]}
<1>6. 0 \in S
  BY <1>1, <1>5 DEF Sums
<1>7. ASSUME NEW k \in 1..n, k - 1 \in S PROVE k \in S
  BY <1>1, <1>5, <1>7 DEF Sums
<1>8. n \in S
  <2> HIDE DEF S
  <2> QED BY <1>6, <1>7, UpTo
<1> QED
  BY <1>1, <1>4, <1>8

(* Indices up to b do not count, and those after it add what w adds at J.    *)
Shifted(v, I, b, w, J, m) ==
  /\ \A k \in 1..b : k \notin I
  /\ \A k \in 1..m : /\ b + k \in I <=> k \in J
                     /\ k \in J => v[b + k] = w[k] /\ w[k] \in Int

LEMMA SumShift ==
  ASSUME NEW v, NEW I, NEW w, NEW J, NEW b \in Nat, NEW m \in Nat, Shifted(v, I, b, w, J, m)
  PROVE  SumAt(v, I, b + m) = SumAt(w, J, m)
<1> USE DEF Shifted
<1>1. Addable(v, I, b + m)
  <2>1. ASSUME NEW k \in 1..(b + m), k \in I PROVE v[k] \in Int
    <3>1. k \notin 1..b
      BY <2>1
    <3>2. k - b \in 1..m /\ b + (k - b) = k
      BY <3>1
    <3>3. PICK l \in 1..m : k = b + l
      BY <3>2
    <3> QED BY <2>1, <3>3
  <2> QED BY <2>1 DEF Addable
<1>2. Addable(w, J, m)
  BY DEF Addable
<1>3. PICK f : Sums(f, v, I, b + m) /\ SumAt(v, I, b + m) = f[b + m]
  BY <1>1, SumIs
<1>4. PICK g : Sums(g, w, J, m) /\ SumAt(w, J, m) = g[m]
  BY <1>2, SumIs
<1>5. f[b] = 0
  <2> DEFINE S == {k \in 0..b : f[k] = 0}
  <2>1. 0 \in S
    BY <1>3 DEF Sums
  <2>2. ASSUME NEW k \in 1..b, k - 1 \in S PROVE k \in S
    <3>1. k \in 1..(b + m)
      OBVIOUS
    <3> QED BY <1>3, <2>2, <3>1 DEF Sums
  <2>3. b \in S
    <3> HIDE DEF S
    <3> QED BY <2>1, <2>2, UpTo
  <2> QED BY <2>3
<1>6. f[b + m] = g[m]
  <2> DEFINE S == {k \in 0..m : f[b + k] = g[k]}
  <2>1. 0 \in S
    BY <1>4, <1>5 DEF Sums
  <2>2. ASSUME NEW k \in 1..m, k - 1 \in S PROVE k \in S
    <3>1. b + k \in 1..(b + m) /\ (b + k) - 1 = b + (k - 1)
      OBVIOUS
    <3>2. f[b + k] = f[b + (k - 1)] + (IF b + k \in I THEN v[b + k] ELSE 0)
      BY <1>3, <3>1 DEF Sums
    <3>3. g[k] = g[k - 1] + (IF k \in J THEN w[k] ELSE 0)
      BY <1>4 DEF Sums
    <3>4. f[b + (k - 1)] = g[k - 1]
      BY <2>2
    <3>5. (IF b + k \in I THEN v[b + k] ELSE 0) = (IF k \in J THEN w[k] ELSE 0)
      OBVIOUS
    <3> QED BY <3>2, <3>3, <3>4, <3>5
  <2>3. m \in S
    <3> HIDE DEF S
    <3> QED BY <2>1, <2>2, UpTo
  <2> QED BY <2>3
<1> QED
  BY <1>3, <1>4, <1>6

(* What is added at an end that does not count changes no sum.               *)
LEMMA SumKept ==
  ASSUME NEW v, NEW I, NEW w, NEW J, NEW n \in Nat, n + 1 \notin J,
         \A k \in 1..n : (k \in I <=> k \in J) /\ (k \in I => v[k] = w[k] /\ v[k] \in Int)
  PROVE  SumAt(w, J, n + 1) = SumAt(v, I, n)
<1>1. Addable(w, J, n + 1)
  <2>1. \A k \in 1..(n + 1) : k \in 1..n \/ k = n + 1
    OBVIOUS
  <2> QED BY <2>1 DEF Addable
<1>2. PICK f : Sums(f, w, J, n + 1) /\ SumAt(w, J, n + 1) = f[n + 1]
  BY <1>1, SumIs
<1>3. PICK g : Sums(g, v, I, n) /\ SumAt(v, I, n) = g[n]
  BY SumIs DEF Addable
<1>4. f[n] = g[n]
  <2> DEFINE S == {k \in 0..n : f[k] = g[k]}
  <2>1. 0 \in S
    BY <1>2, <1>3 DEF Sums
  <2>2. ASSUME NEW k \in 1..n, k - 1 \in S PROVE k \in S
    <3>1. k \in 1..(n + 1)
      OBVIOUS
    <3>2. f[k] = f[k - 1] + (IF k \in J THEN w[k] ELSE 0)
      BY <1>2, <3>1 DEF Sums
    <3>3. g[k] = g[k - 1] + (IF k \in I THEN v[k] ELSE 0)
      BY <1>3 DEF Sums
    <3>4. f[k - 1] = g[k - 1] /\ (IF k \in J THEN w[k] ELSE 0) = (IF k \in I THEN v[k] ELSE 0)
      BY <2>2
    <3> QED BY <3>2, <3>3, <3>4
  <2>3. n \in S
    <3> HIDE DEF S
    <3> QED BY <2>1, <2>2, UpTo
  <2> QED BY <2>3
<1>5. f[n + 1] = f[(n + 1) - 1] + (IF n + 1 \in J THEN w[n + 1] ELSE 0) /\ f[n] \in Int
  BY <1>2 DEF Sums
<1>6. f[n + 1] = f[n]
  BY <1>5
<1> QED
  BY <1>2, <1>3, <1>4, <1>6
-----------------------------------------------------------------------------
(* The order of a batch: the requests of a config are one after the other,   *)
(* the configs in their order, each with all the seeds if the batch is       *)
(* shorter than what is left.                                                *)
BatchInOrder(p, cs, ss, left) ==
  /\ Len(p) \in Nat
  /\ \A i \in 1..Len(p) : \E c \in 1..Len(cs) :
       p[i].cfg = cs[c] /\ \A d \in 1..(c - 1) : \E k \in 1..(i - 1) : p[k].cfg = cs[d]
  /\ NoRepeats(cs) /\ Len(p) < left => \A c \in 1..Len(cs) :
       Cardinality({i \in 1..Len(p) : p[i].cfg = cs[c]}) = Len(ss)

LEMMA RequestsInOrder ==
  ASSUME NEW cs \in Seq(Configs), cs # <<>>, NEW ss \in Seq(Nat), ss # <<>>, NEW left \in Nat \ {0}
  PROVE  BatchInOrder(Requests(cs, ss, left), cs, ss, left)
<1> DEFINE p == Requests(cs, ss, left)
           m == Len(cs)
           n == Len(ss)
           all == m * n
           l == Least(all, left)
           C(i) == ((i - 1) \div n) + 1
           S(i) == ((i - 1) % n) + 1
<1>1. m \in Nat \ {0} /\ n \in Nat \ {0}
  OBVIOUS
<1>2. all \in Nat
  BY <1>1
<1>3. l \in Nat /\ l <= all /\ (l < left => l = all)
  <2> HIDE DEF all
  <2> QED BY <1>2 DEF Least
<1>4. p = [i \in 1..l |-> [cfg |-> cs[C(i)], seed |-> ss[S(i)]]]
  BY DEF Requests
<1>5. Len(p) = l /\ \A i \in 1..l : p[i].cfg = cs[C(i)]
  <2> HIDE DEF l, C, S
  <2> QED BY <1>3, <1>4
<1>6. \A i \in 1..all : C(i) \in 1..m /\ S(i) \in 1..n /\ i = Place(n, C(i), S(i))
  BY <1>1, PlaceOf
<1>7. \A c \in 1..m, s \in 1..n : Place(n, c, s) \in 1..all
  BY <1>1, PlaceFits
<1> HIDE DEF m, n, l, C, S, all, p
<1>8. ASSUME NEW c \in 1..m, NEW s \in 1..n PROVE C(Place(n, c, s)) = c
  <2>1. PICK i \in 1..all : i = Place(n, c, s)
    BY <1>7
  <2>2. C(i) \in 1..m /\ S(i) \in 1..n /\ Place(n, C(i), S(i)) = Place(n, c, s)
    BY <1>6, <2>1
  <2>3. c \in Nat \ {0} /\ C(i) \in Nat \ {0}
    BY <1>1, <2>2
  <2>4. c = C(i)
    BY <1>1, <2>2, <2>3, OnePlace
  <2> QED BY <2>1, <2>4
<1>9. ASSUME NEW i \in 1..l
      PROVE  \E c \in 1..m : p[i].cfg = cs[c] /\ \A d \in 1..(c - 1) : \E k \in 1..(i - 1) : p[k].cfg = cs[d]
  <2>1. i \in 1..all
    BY <1>2, <1>3
  <2>2. PICK c \in 1..m, s \in 1..n : c = C(i) /\ i = Place(n, c, s)
    BY <1>6, <2>1
  <2>3. ASSUME NEW d \in 1..(c - 1) PROVE \E k \in 1..(i - 1) : p[k].cfg = cs[d]
    <3>1. d \in 1..m /\ 1 \in 1..n /\ d \in Nat /\ c \in Nat /\ d <= c - 1
      BY <1>1
    <3>2. PICK k \in 1..all : k = Place(n, d, 1)
      BY <1>7, <3>1
    <3>3. k < i
      <4>1. n * d <= n * (c - 1)
        BY <1>1, <3>1
      <4>2. n * (d - 1) = n * d - n
        BY <1>1, <3>1
      <4>3. n * d \in Int /\ n * (c - 1) \in Int /\ n >= 1
        BY <1>1, <3>1
      <4>4. k = n * (d - 1) + 1 /\ i = n * (c - 1) + s
        BY <2>2, <3>2 DEF Place
      <4>5. s \in Nat /\ s >= 1
        BY <1>1
      <4> QED BY <1>1, <4>1, <4>2, <4>3, <4>4, <4>5
    <3>4. k \in 1..l /\ k \in 1..(i - 1)
      BY <1>3, <3>3
    <3>5. C(k) = d
      BY <1>8, <3>1, <3>2
    <3> QED BY <1>5, <3>4, <3>5
  <2>4. p[i].cfg = cs[c]
    BY <1>5, <2>2
  <2> QED BY <2>3, <2>4
<1>10. ASSUME NoRepeats(cs), l < left, NEW c \in 1..m
       PROVE  Cardinality({i \in 1..l : p[i].cfg = cs[c]}) = n
  <2> DEFINE a == Place(n, c, 1)
             z == Place(n, c, n)
  <2>1. a \in Int /\ z \in Int /\ z = a + n - 1
    <3>1. n * (c - 1) \in Int
      BY <1>1
    <3> QED BY <1>1, <3>1 DEF Place
  <2>2. ASSUME NEW i \in 1..l, p[i].cfg = cs[c] PROVE i \in a..z
    <3>1. i \in 1..all
      BY <1>2, <1>3
    <3>2. C(i) \in 1..m /\ S(i) \in 1..n /\ i = Place(n, C(i), S(i))
      BY <1>6, <3>1
    <3>3. C(i) = c
      BY <1>5, <1>10, <2>2, <3>2 DEF NoRepeats, m
    <3>4. n * (c - 1) \in Int /\ i = n * (c - 1) + S(i)
      BY <1>1, <3>2, <3>3 DEF Place
    <3> QED BY <1>1, <3>2, <3>4 DEF Place
  <2>3. ASSUME NEW i \in a..z PROVE i \in 1..l /\ p[i].cfg = cs[c]
    <3>1. n * (c - 1) \in Int
      BY <1>1
    <3>2. PICK s \in Int : s = i - n * (c - 1)
      BY <2>1, <3>1
    <3>3. s \in 1..n /\ i = Place(n, c, s)
      BY <1>1, <2>1, <3>1, <3>2 DEF Place
    <3>4. i \in 1..l /\ C(i) = c
      BY <1>3, <1>7, <1>8, <1>10, <3>3
    <3> QED BY <1>5, <3>4
  <2> HIDE DEF a, z
  <2>4. {i \in 1..l : p[i].cfg = cs[c]} = a..z
    BY <2>2, <2>3
  <2>5. Cardinality(a..z) = n
    BY <1>1, <2>1, FS_Interval
  <2> QED BY <2>4, <2>5
<1>11. Len(p) = l /\ l \in Nat /\ m = Len(cs) /\ n = Len(ss)
  BY <1>3, <1>5 DEF m, n
<1>12. BatchInOrder(p, cs, ss, left)
  BY <1>9, <1>10, <1>11 DEF BatchInOrder
<1> QED
  BY <1>12 DEF p
-----------------------------------------------------------------------------
(* The order of promotions.  A batch that leaves budget has equally many     *)
(* answers of each of its configs, so that means compare as totals; a        *)
(* promotion's batch asks for the better of the complete configs first, and  *)
(* is recorded in its order; until then its round has no promoted row.       *)
SameShare ==
  Searching /\ BatchFrom + Len(reqs) < Budget =>
    \E n \in Nat \ {0} : \A i \in 1..Len(reqs) : Cardinality(Of(reqs[i].cfg)) = n
BatchOrder ==
  InHand /\ phase = "promote" =>
    \A i \in 1..Len(reqs), d \in Configs :
      Complete(d, rnd) /\ RoundTotal(d, rnd) < RoundTotal(reqs[i].cfg, rnd) =>
        \E k \in 1..(i - 1) : reqs[k].cfg = d
PromotedSoFar ==
  pc = "record" /\ phase = "promote" =>
    \A i \in 1..(pos - 1) : used + i \in 1..Len(rows) /\ rows[used + i] = RowOf(rnd, "promote", reqs[i], res[i])
Ordered == SameShare /\ BatchOrder /\ PromotedSoFar /\ BestPromotedFirst

LEMMA InitOrdered == Init => Ordered
BY DEF Init, Ordered, SameShare, BatchOrder, PromotedSoFar, BestPromotedFirst, Searching, InHand

LEMMA ScoresAreInts == ASSUME TypeOK PROVE \A i \in 1..Len(rows) : rows[i].score \in Int
<1>1. \A i \in 1..Len(rows) : rows[i] \in Row
  BY DEF TypeOK
<1>2. \A x \in Row : x.score \in Answers
  BY DEF Row
<1>3. \A x \in Answers : x \in Int
  BY ScoresAssumption DEF Answers, Failed
<1> QED BY <1>1, <1>2, <1>3

(* A row of another round, config or phase changes no total of a round.      *)
LEMMA RoundTotalKept ==
  ASSUME TypeOK, NEW c, NEW r, Len(rows') = Len(rows) + 1,
         \A j \in 1..Len(rows) : rows'[j] = rows[j],
         ~(rows'[Len(rows) + 1].cfg = c /\ rows'[Len(rows) + 1].round = r /\ rows'[Len(rows) + 1].note = "search")
  PROVE  /\ RoundTotal(c, r)' = RoundTotal(c, r)
         /\ Complete(c, r)' => Complete(c, r)
<1> DEFINE n == Len(rows)
           I == SearchRows(c, r)
           v == [i \in 1..n |-> rows[i].score]
           w == [i \in 1..(n + 1) |-> rows'[i].score]
<1>0. n \in Nat /\ \A j \in 1..(n + 1) : j \in 1..n \/ j = n + 1
  BY ElementTypes
<1>1. SearchRows(c, r)' = I
  <2>1. 1..n \subseteq 1..Len(rows')
    BY <1>0
  <2> QED BY <1>0, <2>1 DEF SearchRows
<1>2. \A j \in I : j \in 1..n /\ rows'[j] = rows[j]
  BY DEF SearchRows
<1>3. \A i \in 1..n : rows[i].score \in Int
  BY ScoresAreInts
<1>4. RoundTotal(c, r) = SumAt(v, I, n)
  BY DEF RoundTotal, RowTotal
<1>5. RoundTotal(c, r)' = SumAt(w, I, n + 1)
  BY <1>1 DEF RoundTotal, RowTotal
<1>6. \A k \in 1..n : v[k] = w[k] /\ v[k] \in Int
  BY <1>0, <1>3
<1>7. n + 1 \notin I
  BY <1>0, <1>2
<1> HIDE DEF n, I, v, w
<1>8. SumAt(w, I, n + 1) = SumAt(v, I, n)
  BY <1>0, <1>6, <1>7, SumKept
<1>9. ASSUME Complete(c, r)' PROVE Complete(c, r)
  <2>1. {rows'[j].seed : j \in I} = Elements(Seeds) /\ \A j \in I : rows'[j].score # Failed
    BY <1>1, <1>9 DEF Complete
  <2>2. {rows[j].seed : j \in I} = {rows'[j].seed : j \in I}
    BY <1>2
  <2>3. \A j \in I : rows[j].score # Failed
    BY <1>2, <2>1
  <2> QED BY <2>1, <2>2, <2>3 DEF Complete, I
<1> QED
  BY <1>4, <1>5, <1>8, <1>9

(* In a state whose rows are the same.                                       *)
LEMMA RoundTotalSame ==
  ASSUME rows' = rows, NEW c, NEW r
  PROVE  RoundTotal(c, r)' = RoundTotal(c, r) /\ (Complete(c, r)' <=> Complete(c, r))
BY DEF RoundTotal, RowTotal, Complete, SearchRows

LEMMA RowsSame == ASSUME rows' = rows, BestPromotedFirst PROVE BestPromotedFirst'
BY RoundTotalSame DEF BestPromotedFirst

(* The answers of the batch that was searched are the rows of its round: its *)
(* totals are the batch's, and what is complete there ranks.                 *)
LEMMA BatchIsRound ==
  ASSUME IInv, Earned, pc = "rank", NEW c
  PROVE  /\ AnswerTotal(c) \in Int /\ RoundTotal(c, rnd) = AnswerTotal(c)
         /\ Complete(c, rnd) => c \in Ranked
<1> DEFINE b == used - Len(reqs)
           n == Len(reqs)
           I == SearchRows(c, rnd)
           v == [i \in 1..Len(rows) |-> rows[i].score]
           J == Of(c)
<1>1. /\ b \in Nat /\ n \in Nat /\ Len(rows) = b + n
      /\ \A j \in 1..b : rows[j].round < rnd
      /\ \A i \in 1..n : rows[b + i] = RowOf(rnd, "search", reqs[i], res[i])
  <2>1. BatchFrom = b /\ Answered = n /\ Searching
    BY DEF BatchFrom, Answered, Searching
  <2>2. n \in Nat
    BY DEF IInv, TypeOK
  <2>3. b \in Nat
    BY <2>1 DEF Earned, Recorded
  <2> HIDE DEF b
  <2> QED BY <2>1, <2>2, <2>3 DEF Earned, Recorded
<1>2. \A i \in 1..n : i \in J <=> reqs[i].cfg = c
  BY DEF Of
<1>3. \A j : j \in I <=> j \in 1..Len(rows) /\ Searched(j, c, rnd)
  BY DEF SearchRows, Searched
<1>4. AnswerTotal(c) = SumAt(res, J, n) /\ RoundTotal(c, rnd) = SumAt(v, I, Len(rows))
  BY DEF AnswerTotal, RoundTotal, RowTotal
<1>5. rnd \in Nat /\ \A i \in 1..Len(rows) : rows[i].round \in Nat
  BY ElementTypes DEF IInv, TypeOK
<1>6. \A i \in 1..Len(rows) : rows[i].score \in Int
  BY ScoresAreInts DEF IInv
<1>7. \A i \in 1..Len(rows) : v[i] = rows[i].score
  OBVIOUS
<1>r. c \in Ranked <=> (\E i \in 1..n : reqs[i].cfg = c) /\ \A i \in J : res[i] # Failed
  BY DEF Ranked
<1>j. J \subseteq 1..n
  BY DEF Of
<1> HIDE DEF b, n, I, v, J
<1>8. ASSUME NEW i \in 1..n
      PROVE  /\ b + i \in 1..Len(rows) /\ (b + i \in I <=> i \in J)
             /\ v[b + i] = res[i] /\ res[i] \in Int /\ rows[b + i].score = res[i]
  <2>1. rows[b + i] = RowOf(rnd, "search", reqs[i], res[i])
    BY <1>1
  <2>2. rows[b + i].cfg = reqs[i].cfg /\ rows[b + i].round = rnd /\ rows[b + i].note = "search" /\ rows[b + i].score = res[i]
    BY <2>1, RowFields
  <2>3. b + i \in 1..Len(rows)
    BY <1>1
  <2> QED BY <1>2, <1>3, <1>6, <1>7, <2>2, <2>3 DEF Searched
<1>9. \A k \in 1..b : k \notin I
  <2>1. \A k \in 1..b : k \in 1..Len(rows)
    BY <1>1
  <2> QED BY <1>1, <1>3, <1>5, <2>1 DEF Searched
<1>10. SumAt(v, I, Len(rows)) = SumAt(res, J, n)
  <2>1. \A k \in 1..n : /\ b + k \in I <=> k \in J
                        /\ k \in J => v[b + k] = res[k] /\ res[k] \in Int
    BY <1>8
  <2>2. b \in Nat /\ n \in Nat /\ Len(rows) = b + n
    BY <1>1
  <2>3. Shifted(v, I, b, res, J, n)
    BY <1>9, <2>1 DEF Shifted
  <2>4. SumAt(v, I, b + n) = SumAt(res, J, n)
    BY <2>2, <2>3, SumShift
  <2> QED BY <2>2, <2>4
<1>11. SumAt(res, J, n) \in Int
  <2>1. Addable(res, J, n)
    BY <1>8 DEF Addable
  <2>2. PICK f : Sums(f, res, J, n) /\ SumAt(res, J, n) = f[n]
    BY <1>1, <2>1, SumIs
  <2>3. n \in 0..n
    BY <1>1
  <2> QED BY <2>2, <2>3 DEF Sums
<1>12. ASSUME Complete(c, rnd) PROVE c \in Ranked
  <2>1. \A j \in I : rows[j].score # Failed
    BY <1>12 DEF Complete, I
  <2>2. \E j : j \in I
    <3>1. Seeds[1] \in Elements(Seeds)
      BY SeedsAssumption DEF Elements
    <3> QED BY <1>12, <3>1 DEF Complete, I
  <2>3. PICK j \in I : TRUE
    BY <2>2
  <2>4. j \in 1..(b + n) /\ j \notin 1..b
    BY <1>1, <1>3, <1>9, <2>3
  <2>5. j - b \in 1..n /\ b + (j - b) = j
    BY <1>1, <2>4
  <2>6. PICK i \in 1..n : j = b + i
    BY <2>5
  <2>7. reqs[i].cfg = c
    BY <1>2, <1>8, <2>3, <2>6
  <2>8. \A k \in J : res[k] # Failed
    BY <1>8, <1>j, <2>1
  <2> QED BY <1>r, <2>7, <2>8
<1> QED
  BY <1>1, <1>4, <1>10, <1>11, <1>12
LEMMA RoundShare ==
  ASSUME IInv, Round, used + Len(reqs') < Budget
  PROVE  \E n \in Nat \ {0} : \A i \in 1..Len(reqs') :
           Cardinality({k \in 1..Len(reqs') : reqs'[k].cfg = reqs'[i].cfg}) = n
<1>1. PICK cs \in Proposals(Width) : reqs' = Requests(cs, Seeds, Budget - used)
  BY DEF Round
<1>2. Width \in Nat \ {0}
  BY RoundBatch
<1>3. cs \in Seq(Configs) /\ cs # <<>> /\ NoRepeats(cs)
  <2>1. cs \in [1..Width -> Configs \ (Prior \cup Measured)] /\ IsInjective(cs)
    BY DEF Proposals
  <2>2. Len(cs) = Width /\ cs \in Seq(Configs) /\ cs # <<>>
    BY <1>2, <2>1
  <2> QED
    BY <2>1, <2>2 DEF IsInjective, NoRepeats
<1>4. Budget - used \in Nat \ {0} /\ Budget \in Nat /\ used \in Nat
  BY BudgetAssumption DEF Round, IInv, TypeOK
<1>5. BatchInOrder(reqs', cs, Seeds, Budget - used)
  BY <1>1, <1>3, <1>4, SeedsAssumption, RequestsInOrder
<1>6. Len(reqs') < Budget - used
  <2>1. PICK l \in Nat : l = Len(reqs')
    BY <1>5 DEF BatchInOrder
  <2> QED BY <1>4, <2>1
<1>7. Len(Seeds) \in Nat \ {0}
  BY SeedsAssumption
<1>8. ASSUME NEW i \in 1..Len(reqs')
      PROVE  Cardinality({k \in 1..Len(reqs') : reqs'[k].cfg = reqs'[i].cfg}) = Len(Seeds)
  <2>1. PICK c \in 1..Len(cs) : reqs'[i].cfg = cs[c]
    BY <1>5 DEF BatchInOrder
  <2>2. Cardinality({k \in 1..Len(reqs') : reqs'[k].cfg = cs[c]}) = Len(Seeds)
    BY <1>3, <1>5, <1>6 DEF BatchInOrder
  <2> QED BY <2>1, <2>2
<1> QED
  BY <1>7, <1>8

LEMMA RoundOrdered == ASSUME IInv, Ordered, Round PROVE Ordered'
<1>1. /\ pc' = "eval" /\ phase' = "search" /\ rows' = rows /\ used' = used
  BY DEF Round
<1>2. BatchFrom' = used /\ \A c : Of(c)' = {k \in 1..Len(reqs') : reqs'[k].cfg = c}
  BY <1>1 DEF BatchFrom, Of
<1>3. SameShare'
  <2>1. ASSUME used + Len(reqs') < Budget
        PROVE  \E n \in Nat \ {0} : \A i \in 1..Len(reqs') : Cardinality(Of(reqs[i].cfg))' = n
    <3>1. PICK n \in Nat \ {0} : \A i \in 1..Len(reqs') :
            Cardinality({k \in 1..Len(reqs') : reqs'[k].cfg = reqs'[i].cfg}) = n
      BY <2>1, RoundShare
    <3> QED BY <3>1 DEF Of
  <2> QED BY <1>2, <2>1 DEF SameShare
<1>4. BatchOrder' /\ PromotedSoFar'
  BY <1>1 DEF BatchOrder, PromotedSoFar
<1>5. BestPromotedFirst'
  BY <1>1, RowsSame DEF Ordered
<1> QED
  BY <1>3, <1>4, <1>5 DEF Ordered

(* Two configs of the batch with equally many answers compare as their       *)
(* totals do.                                                                *)
LEMMA LowerTotalBeats ==
  ASSUME IInv, Earned, Ordered, pc = "rank", used < Budget, NEW c \in Ranked, NEW d \in Ranked,
         AnswerTotal(c) < AnswerTotal(d)
  PROVE  Beats(c, d)
<1>1. AnswerTotal(c) \in Int /\ AnswerTotal(d) \in Int
  BY BatchIsRound
<1>2. BatchFrom + Len(reqs) < Budget /\ Searching
  <2>1. BatchFrom = used - Len(reqs) /\ used \in Nat /\ Len(reqs) \in Nat /\ Searching
    BY DEF BatchFrom, Searching, IInv, TypeOK
  <2> QED BY <2>1
<1>3. PICK n \in Nat \ {0} : \A i \in 1..Len(reqs) : Cardinality(Of(reqs[i].cfg)) = n
  BY <1>2 DEF Ordered, SameShare
<1>4. Cardinality(Of(c)) = n /\ Cardinality(Of(d)) = n
  BY <1>3 DEF Ranked
<1>5. \A x, y \in Int : x < y => x * n < y * n
  <2>1. ASSUME NEW x \in Int, NEW y \in Int, x < y PROVE x * n < y * n
    <3>1. PICK z \in Nat \ {0} : y = x + z
      <4>1. y - x \in Nat \ {0} /\ y = x + (y - x)
        BY <2>1
      <4> QED BY <4>1
    <3>2. (x + z) * n = x * n + z * n /\ z * n >= 1 /\ x * n \in Int /\ z * n \in Int
      <4>1. z * n \in Nat /\ z * n >= 1
        OBVIOUS
      <4> QED BY <4>1
    <3> QED BY <3>1, <3>2
  <2> QED BY <2>1
<1> QED
  BY <1>1, <1>4, <1>5 DEF Beats

LEMMA PromoteOrdered == ASSUME IInv, Earned, Ordered, Promote PROVE Ordered'
<1>1. /\ pc = "rank" /\ Promotable /\ used < Budget
      /\ phase' = "promote" /\ pc' = "eval" /\ rows' = rows /\ rnd' = rnd
  BY DEF Promote, Promotable, loop
<1>2. PICK t \in Tops : reqs' = Requests(t, PromoteSeeds, Budget - used)
  BY DEF Promote
<1>3. PromoteSeeds \in Seq(Nat) /\ PromoteSeeds # <<>>
  BY <1>1, SeedsAssumption DEF Promotable
<1>4. /\ t \in Seq(Configs) /\ t # <<>> /\ DOMAIN t = 1..Len(t) /\ Len(t) \in Nat
      /\ \A c \in 1..Len(t) : t[c] \in Ranked
  <2>1. Ranked \subseteq Configs
    BY ElementTypes DEF Ranked, IInv
  <2>2. Cardinality(Ranked) \in Nat \ {0}
    BY <1>1, RankedFinite, FS_CardinalityType, FS_EmptySet DEF Promotable, IInv
  <2>3. Least(PromoteTop, Cardinality(Ranked)) \in Nat \ {0}
    BY <1>1, <2>2, BudgetAssumption DEF Least, Promotable
  <2>4. t \in [1..Least(PromoteTop, Cardinality(Ranked)) -> Ranked]
    BY DEF Tops
  <2>5. Len(t) = Least(PromoteTop, Cardinality(Ranked)) /\ t \in Seq(Configs) /\ t # <<>>
    BY <2>1, <2>3, <2>4
  <2> QED
    BY <2>3, <2>4, <2>5
<1>5. Budget - used \in Nat \ {0}
  BY <1>1, BudgetAssumption DEF IInv, TypeOK
<1>6. BatchInOrder(reqs', t, PromoteSeeds, Budget - used)
  BY <1>2, <1>3, <1>4, <1>5, RequestsInOrder
<1>7. ASSUME NEW i \in 1..Len(reqs'), NEW d \in Configs, Complete(d, rnd),
             RoundTotal(d, rnd) < RoundTotal(reqs'[i].cfg, rnd)
      PROVE  \E k \in 1..(i - 1) : reqs'[k].cfg = d
  <2>1. PICK x \in 1..Len(t) :
          reqs'[i].cfg = t[x] /\ \A y \in 1..(x - 1) : \E k \in 1..(i - 1) : reqs'[k].cfg = t[y]
    BY <1>6 DEF BatchInOrder
  <2>2. d \in Ranked /\ AnswerTotal(d) < AnswerTotal(t[x])
    <3>1. d \in Ranked
      BY <1>1, <1>7, BatchIsRound
    <3>2. RoundTotal(d, rnd) = AnswerTotal(d) /\ RoundTotal(t[x], rnd) = AnswerTotal(t[x])
      BY <1>1, BatchIsRound
    <3> QED BY <1>7, <2>1, <3>1, <3>2
  <2>3. Beats(d, t[x])
    BY <1>1, <1>4, <2>2, LowerTotalBeats
  <2>4. d \in Elements(t)
    BY <1>4, <2>2, <2>3 DEF Tops
  <2>5. PICK y \in 1..Len(t) : d = t[y]
    BY <2>4 DEF Elements
  <2>6. ~(x < y)
    BY <1>4, <2>3, <2>5 DEF Tops
  <2>7. x # y
    <3>1. AnswerTotal(d) \in Int
      BY <1>1, BatchIsRound
    <3> QED BY <2>2, <2>5, <3>1
  <2>8. y \in 1..(x - 1)
    BY <1>4, <2>6, <2>7
  <2> QED BY <2>1, <2>5, <2>8
<1>8. BatchOrder'
  <2>1. ASSUME NEW i \in 1..Len(reqs'), NEW d \in Configs, Complete(d, rnd)',
               RoundTotal(d, rnd)' < RoundTotal(reqs[i].cfg, rnd)'
        PROVE  \E k \in 1..(i - 1) : reqs'[k].cfg = d
    <3>1. Complete(d, rnd) /\ RoundTotal(d, rnd)' = RoundTotal(d, rnd)
      BY <1>1, <2>1 DEF RoundTotal, RowTotal, Complete, SearchRows
    <3>2. RoundTotal(reqs[i].cfg, rnd)' = RoundTotal(reqs'[i].cfg, rnd)
      BY <1>1 DEF RoundTotal, RowTotal, SearchRows
    <3> QED BY <1>7, <2>1, <3>1, <3>2
  <2> QED BY <2>1 DEF BatchOrder
<1>9. SameShare' /\ PromotedSoFar'
  BY <1>1 DEF SameShare, PromotedSoFar, Searching, InHand
<1>10. BestPromotedFirst'
  BY <1>1, RowsSame DEF Ordered
<1> QED
  BY <1>8, <1>9, <1>10 DEF Ordered
LEMMA RecordOrdered == ASSUME IInv, Earned, Ordered, Record PROVE Ordered'
<1> DEFINE n == Len(rows)
<1>1. /\ pc = "record" /\ pos \in 1..Len(reqs) /\ Len(reqs) \in Nat /\ n \in Nat
      /\ used \in Nat /\ n = used + pos - 1
      /\ Len(rows') = n + 1 /\ \A j \in 1..n : rows'[j] = rows[j]
      /\ rows'[n + 1] = RowOf(rnd, phase, reqs[pos], res[pos])
      /\ rnd' = rnd /\ phase' = phase /\ reqs' = reqs /\ res' = res
      /\ \/ pc' = "record" /\ pos' = pos + 1 /\ pos < Len(reqs) /\ used' = used
         \/ /\ pos = Len(reqs) /\ used' = used + Len(reqs)
            /\ pc' = IF phase = "search" THEN "rank" ELSE "top"
  BY RecordEffect
<1>2. \A j \in 1..(n + 1) : j \in 1..n \/ j = n + 1
  BY <1>1
<1>3. /\ rows'[n + 1].cfg = reqs[pos].cfg /\ rows'[n + 1].round = rnd /\ rows'[n + 1].note = phase
  BY <1>1, RowFields
<1>4. phase \in {"search", "promote"}
  BY DEF IInv, TypeOK
<1>5. SameShare'
  <2>1. Searching' => Searching /\ BatchFrom' = BatchFrom
    <3>1. CASE pc' = "record"
      BY <1>1, <3>1 DEF BatchFrom, Searching, InHand
    <3>2. CASE pc' = "rank"
      BY <1>1, <3>2 DEF BatchFrom, Searching, InHand
    <3>3. CASE pc' = "top"
      BY <3>3 DEF Searching, InHand
    <3> QED BY <1>1, <3>1, <3>2, <3>3
  <2>2. \A c : Of(c)' = Of(c)
    BY <1>1 DEF Of
  <2> QED BY <1>1, <2>1, <2>2 DEF Ordered, SameShare
<1>6. phase = "promote" => \A c, r : RoundTotal(c, r)' = RoundTotal(c, r) /\ (Complete(c, r)' => Complete(c, r))
  BY <1>1, <1>3, RoundTotalKept DEF IInv, n
<1>7. \A c, r : r # rnd => RoundTotal(c, r)' = RoundTotal(c, r) /\ (Complete(c, r)' => Complete(c, r))
  BY <1>1, <1>3, RoundTotalKept DEF IInv, n
<1>8. BatchOrder'
  <2>1. ASSUME phase = "promote", NEW i \in 1..Len(reqs), NEW d \in Configs, Complete(d, rnd)',
               RoundTotal(d, rnd)' < RoundTotal(reqs[i].cfg, rnd)'
        PROVE  \E k \in 1..(i - 1) : reqs[k].cfg = d
    <3>1. PICK r, c : r = rnd /\ c = reqs[i].cfg
      OBVIOUS
    <3>2. Complete(d, r)' /\ RoundTotal(d, r)' < RoundTotal(c, r)'
      <4>1. rnd' = r /\ reqs'[i].cfg = c
        BY <1>1, <3>1
      <4> QED BY <2>1, <4>1 DEF RoundTotal, RowTotal, Complete, SearchRows
    <3>3. Complete(d, rnd) /\ RoundTotal(d, rnd) < RoundTotal(reqs[i].cfg, rnd)
      BY <1>6, <2>1, <3>1, <3>2
    <3> QED BY <1>1, <2>1, <3>3 DEF Ordered, BatchOrder, InHand
  <2> QED BY <1>1, <2>1 DEF BatchOrder, InHand
<1>9. PromotedSoFar'
  <2>1. ASSUME pc' = "record", phase = "promote", NEW i \in 1..pos
        PROVE  used + i \in 1..(n + 1) /\ rows'[used + i] = RowOf(rnd, "promote", reqs[i], res[i])
    <3>1. CASE i = pos
      <4>1. used + i = n + 1
        BY <1>1, <3>1
      <4>2. n + 1 \in 1..(n + 1)
        BY <1>1
      <4> QED BY <1>1, <2>1, <3>1, <4>1, <4>2
    <3>2. CASE i # pos
      <4>1. i \in 1..(pos - 1) /\ used + i \in 1..n /\ used + i \in 1..(n + 1)
        BY <1>1, <3>2
      <4>2. rows[used + i] = RowOf(rnd, "promote", reqs[i], res[i])
        BY <1>1, <2>1, <4>1 DEF Ordered, PromotedSoFar
      <4> QED BY <1>1, <4>1, <4>2
    <3> QED BY <3>1, <3>2
  <2>2. pc' = "record" => pos' - 1 = pos /\ used' = used
    BY <1>1, <1>4
  <2> QED BY <1>1, <2>1, <2>2 DEF PromotedSoFar
<1>10. ASSUME NEW i \in 1..(n + 1), rows'[i].note = "promote", NEW d \in Configs, NEW r,
              NEW c, r = rows'[i].round, c = rows'[i].cfg, Complete(d, r)', RoundTotal(d, r)' < RoundTotal(c, r)'
       PROVE  \E j \in 1..(i - 1) : rows'[j].cfg = d /\ rows'[j].round = r /\ rows'[j].note = "promote"
  <2>1. CASE i = n + 1
    <3>1. phase = "promote" /\ c = reqs[pos].cfg /\ r = rnd
      BY <1>3, <1>10, <2>1
    <3>2. Complete(d, rnd) /\ RoundTotal(d, rnd) < RoundTotal(reqs[pos].cfg, rnd)
      <4>1. Complete(d, r) /\ RoundTotal(d, r) < RoundTotal(c, r)
        BY <1>6, <1>10, <3>1
      <4> QED BY <3>1, <4>1
    <3>3. PICK k \in 1..(pos - 1) : reqs[k].cfg = d
      BY <1>1, <3>1, <3>2 DEF Ordered, BatchOrder, InHand
    <3>4. used + k \in 1..n /\ rows[used + k] = RowOf(rnd, "promote", reqs[k], res[k])
      BY <1>1, <3>1, <3>3 DEF Ordered, PromotedSoFar, n
    <3>5. rows'[used + k].cfg = d /\ rows'[used + k].round = r /\ rows'[used + k].note = "promote"
      <4>1. rows'[used + k] = RowOf(rnd, "promote", reqs[k], res[k])
        BY <1>1, <3>4
      <4> QED BY <3>1, <3>3, <4>1, RowFields
    <3>6. used + k \in 1..(i - 1)
      BY <1>1, <2>1, <3>4
    <3> QED BY <3>5, <3>6
  <2>2. CASE i \in 1..n
    <3>1. rows[i].note = "promote" /\ r = rows[i].round /\ c = rows[i].cfg
      BY <1>1, <1>10, <2>2
    <3>2. phase = "promote" \/ r # rnd
      <4>1. SUFFICES ASSUME phase = "search" PROVE r # rnd
        BY <1>4
      <4>2. /\ \A j \in 1..used : rows[j].round < rnd
            /\ \A j \in 1..(pos - 1) : rows[used + j] = RowOf(rnd, "search", reqs[j], res[j])
        <5>1. BatchFrom = used /\ Answered = pos - 1 /\ Searching
          BY <1>1, <4>1 DEF BatchFrom, Answered, Searching, InHand
        <5> QED BY <5>1 DEF Earned, Recorded
      <4>3. CASE i \in 1..used
        <5>1. rows[i].round \in Nat /\ rnd \in Nat
          BY <2>2, ElementTypes DEF IInv, TypeOK, n
        <5>2. rows[i].round < rnd
          BY <4>2, <4>3
        <5> QED BY <3>1, <5>1, <5>2
      <4>4. CASE ~(i \in 1..used)
        <5>1. i - used \in 1..(pos - 1) /\ used + (i - used) = i
          BY <1>1, <2>2, <4>4
        <5>2. PICK j \in 1..(pos - 1) : i = used + j
          BY <5>1
        <5>3. rows[i].note = "search"
          BY <4>2, <5>2, RowFields
        <5> QED BY <3>1, <5>3
      <4> QED BY <4>3, <4>4
    <3>3. RoundTotal(d, r)' = RoundTotal(d, r) /\ Complete(d, r) /\ RoundTotal(c, r)' = RoundTotal(c, r)
      BY <1>6, <1>7, <1>10, <3>2
    <3>4. PICK j \in 1..(i - 1) : rows[j].cfg = d /\ rows[j].round = r /\ rows[j].note = "promote"
      BY <1>10, <2>2, <3>1, <3>3 DEF Ordered, BestPromotedFirst, n
    <3>5. j \in 1..n
      BY <1>1, <2>2
    <3> QED BY <1>1, <3>4, <3>5
  <2> QED BY <1>2, <2>1, <2>2
<1>11. BestPromotedFirst'
  <2>1. SUFFICES ASSUME NEW i \in 1..Len(rows'), rows'[i].note = "promote", NEW d \in Configs,
                        Complete(d, rows[i].round)',
                        RoundTotal(d, rows[i].round)' < RoundTotal(rows[i].cfg, rows[i].round)'
                 PROVE  \E j \in 1..(i - 1) : /\ rows'[j].cfg = d /\ rows'[j].round = rows'[i].round
                                               /\ rows'[j].note = "promote"
    BY DEF BestPromotedFirst
  <2>2. PICK r, c : r = rows'[i].round /\ c = rows'[i].cfg
    OBVIOUS
  <2>3. Complete(d, r)' /\ RoundTotal(d, r)' < RoundTotal(c, r)'
    BY <2>1, <2>2 DEF RoundTotal, RowTotal, Complete, SearchRows
  <2>4. i \in 1..(n + 1)
    BY <1>1
  <2> QED BY <1>10, <2>1, <2>2, <2>3, <2>4
<1> QED
  BY <1>5, <1>8, <1>9, <1>11 DEF Ordered

LEMMA NextOrdered == ASSUME IInv, Earned, Ordered, [Next]_vars PROVE Ordered'
<1>1. CASE Start \/ OutOfBudget \/ OutOfTime \/ OutOfLLM \/ NoPromotion \/ Die
  <2>1. rows' = rows /\ pc' \in {"off", "top", "ended"}
    BY <1>1 DEF Start, OutOfBudget, OutOfTime, OutOfLLM, End, NoPromotion, Die
  <2> QED BY <2>1, RowsSame DEF Ordered, SameShare, BatchOrder, PromotedSoFar, Searching, InHand
<1>s. ASSUME rows' = rows, rnd' = rnd, reqs' = reqs, used' = used, phase' = phase,
             InHand' => InHand, Searching' => Searching /\ BatchFrom' = BatchFrom
      PROVE  SameShare' /\ BatchOrder' /\ BestPromotedFirst'
  <2>1. SameShare'
    <3>1. ASSUME Searching', BatchFrom' + Len(reqs') < Budget
          PROVE  \E n \in Nat \ {0} : \A i \in 1..Len(reqs') : Cardinality(Of(reqs[i].cfg))' = n
      <4>1. PICK n \in Nat \ {0} : \A i \in 1..Len(reqs) : Cardinality(Of(reqs[i].cfg)) = n
        BY <1>s, <3>1 DEF Ordered, SameShare
      <4>2. ASSUME NEW i \in 1..Len(reqs) PROVE Of(reqs[i].cfg)' = Of(reqs[i].cfg)
        BY <1>s DEF Of
      <4> QED BY <1>s, <4>1, <4>2
    <3> QED BY <3>1 DEF SameShare
  <2>2. BatchOrder'
    BY <1>s DEF Ordered, BatchOrder, Complete, RoundTotal, RowTotal, SearchRows
  <2>3. BestPromotedFirst'
    BY <1>s, RowsSame DEF Ordered
  <2> QED BY <2>1, <2>2, <2>3
<1>2. CASE Evaluate
  <2>1. /\ pc = "eval" /\ pc' = "record" /\ pos' = 1 /\ used' = used /\ rnd' = rnd
        /\ reqs' = reqs /\ rows' = rows /\ phase' = phase
    BY <1>2 DEF Evaluate, loop
  <2>2. InHand /\ BatchFrom' = BatchFrom /\ (Searching' <=> Searching)
    BY <2>1 DEF BatchFrom, Searching, InHand
  <2>3. PromotedSoFar'
    BY <2>1 DEF PromotedSoFar
  <2> QED BY <1>s, <2>1, <2>2, <2>3 DEF Ordered
<1>3. CASE DeadlinePasses \/ Over \/ UNCHANGED vars
  <2>1. UNCHANGED <<rows, pc, phase, reqs, pos, res, used, rnd>>
    BY <1>3 DEF DeadlinePasses, Over, vars, work, loop
  <2>2. BatchFrom' = BatchFrom /\ (InHand' <=> InHand) /\ (Searching' <=> Searching)
    BY <2>1 DEF BatchFrom, Searching, InHand
  <2>3. PromotedSoFar'
    BY <2>1 DEF Ordered, PromotedSoFar
  <2> QED BY <1>s, <2>1, <2>2, <2>3 DEF Ordered
<1> QED
  BY <1>1, <1>2, <1>3, RoundOrdered, RecordOrdered, PromoteOrdered DEF Next, Step

(* Promotions are earned: a promoted config was measured in full in its      *)
(* round, and whatever did strictly better there was promoted before it      *)
(* (search.py:601-613), also when the budget or a kill cut the batch short:  *)
(* for any budget, batch, seeds and scores.                                  *)
THEOREM PromotionsAreEarned == Spec => []PromotionsEarned
<1>1. Init => Ordered
  BY InitOrdered
<1>2. IInv /\ Earned /\ Ordered /\ [Next]_vars => Ordered'
  BY NextOrdered
<1>3. Ordered /\ PromotedComplete => PromotionsEarned
  BY DEF Ordered, PromotionsEarned
<1>4. Init => Earned
  BY InitEarned
<1>5. IInv /\ Earned /\ [Next]_vars => Earned'
  BY NextEarned
<1> QED
  BY <1>1, <1>2, <1>3, <1>4, <1>5, Inductive, PromotedAreComplete, PTL DEF Spec

-----------------------------------------------------------------------------
(* Evaluations that were asked for and have no row.                         *)
LEMMA BatchSizeIs ==
  /\ BatchSize \in Nat
  /\ BatchSize >= Batch * Len(Seeds) /\ BatchSize >= Len(Seeds)
  /\ BatchSize >= PromoteTop * Len(PromoteSeeds)
<1> DEFINE a == Batch * Len(Seeds)
           b == Len(Seeds)
           c == PromoteTop * Len(PromoteSeeds)
<1>1. a \in Nat /\ b \in Nat /\ c \in Nat
  <2>1. Len(Seeds) \in Nat /\ Len(PromoteSeeds) \in Nat
    BY SeedsAssumption
  <2> QED BY <2>1, BudgetAssumption
<1>2. BatchSize = Max({a, b, c})
  BY DEF BatchSize
<1> HIDE DEF a, b, c
<1>3. \E x \in {a, b, c} : \A y \in {a, b, c} : x >= y
  BY <1>1
<1>4. Max({a, b, c}) \in {a, b, c} /\ \A y \in {a, b, c} : Max({a, b, c}) >= y
  BY <1>3 DEF Max
<1> QED
  BY <1>1, <1>2, <1>4 DEF a, b, c

(* Each start of the driver loses one batch at most: the one in hand.       *)
Lost(n) == n * BatchSize
InBatch == IF pc = "record" THEN Len(reqs) - pos + 1 ELSE 0
Waste ==
  /\ InHand => Len(reqs) <= BatchSize
  /\ pc = "off" => asked <= Len(rows) + Lost(starts)
  /\ pc # "off" => starts > 0 /\ asked <= Len(rows) + Lost(starts - 1) + InBatch

LEMMA LostIs == \A n \in Nat : Lost(n) \in Nat /\ Lost(n + 1) = Lost(n) + BatchSize
<1>1. PICK b \in Nat : b = BatchSize
  BY BatchSizeIs
<1>2. \A n \in Nat : n * b \in Nat /\ (n + 1) * b = n * b + b
  OBVIOUS
<1> QED
  BY <1>1, <1>2 DEF Lost

(* The numbers of a state, and that a batch in hand is at most a batch.     *)
LEMMA WasteTypes ==
  ASSUME IInv, Waste
  PROVE  /\ asked \in Nat /\ starts \in Nat /\ Len(rows) \in Nat /\ BatchSize \in Nat
         /\ Lost(starts) \in Nat /\ InBatch \in Nat /\ InBatch <= BatchSize
         /\ starts > 0 => /\ Lost(starts - 1) \in Nat
                         /\ Lost(starts) = Lost(starts - 1) + BatchSize
<1>1. asked \in Nat /\ starts \in Nat /\ Len(rows) \in Nat /\ BatchSize \in Nat
  BY BatchSizeIs, ElementTypes DEF IInv, TypeOK
<1>2. InBatch \in Nat /\ InBatch <= BatchSize
  <2>1. CASE pc = "record"
    <3>1. pos \in Nat \ {0} /\ Len(reqs) \in Nat /\ pos <= Len(reqs) /\ Len(reqs) <= BatchSize
      BY <2>1 DEF IInv, TypeOK, CountsAgree, Waste, InHand
    <3> QED BY <1>1, <2>1, <3>1 DEF InBatch
  <2>2. CASE pc # "record"
    BY <1>1, <2>2 DEF InBatch
  <2> QED BY <2>1, <2>2
<1>3. Lost(starts) \in Nat
  BY <1>1, LostIs
<1>4. ASSUME starts > 0 PROVE Lost(starts - 1) \in Nat /\ Lost(starts) = Lost(starts - 1) + BatchSize
  <2>1. PICK n \in Nat : n = starts - 1
    BY <1>1, <1>4
  <2>2. starts = n + 1
    BY <1>1, <2>1
  <2> QED BY <2>1, <2>2, LostIs
<1> QED
  BY <1>1, <1>2, <1>3, <1>4

LEMMA InitWaste == Init => Waste
<1> SUFFICES ASSUME Init PROVE Waste
  OBVIOUS
<1>1. pc = "off" /\ asked = 0 /\ rows = <<>> /\ starts = 0
  BY DEF Init
<1>2. Lost(0) \in Nat
  BY LostIs
<1> QED
  BY <1>1, <1>2 DEF Waste, InHand

LEMMA StartWaste == ASSUME IInv, Waste, Start PROVE Waste'
<1>1. /\ pc \in {"off", "ended"} /\ pc' = "top" /\ starts' = starts + 1 /\ rows' = rows /\ asked' = asked
  BY DEF Start
<1>2. asked <= Len(rows) + Lost(starts)
  BY <1>1, WasteTypes DEF Waste, InBatch
<1>3. InBatch' = 0 /\ ~InHand' /\ starts' - 1 = starts /\ starts' > 0
  BY <1>1, WasteTypes DEF InBatch, InHand
<1>4. asked' <= Len(rows') + Lost(starts' - 1) + InBatch'
  BY <1>1, <1>2, <1>3, WasteTypes
<1> QED
  BY <1>1, <1>3, <1>4 DEF Waste

LEMMA DieWaste == ASSUME IInv, Waste, Die PROVE Waste'
<1>1. pc # "off" /\ pc' = "off" /\ starts' = starts /\ rows' = rows /\ asked' = asked
  BY DEF Die, Running
<1>2. asked <= Len(rows) + Lost(starts)
  BY <1>1, WasteTypes DEF Waste
<1> QED
  BY <1>1, <1>2 DEF Waste, InHand

LEMMA BatchFits ==
  ASSUME IInv, Round \/ Promote PROVE Len(reqs') \in Nat /\ Len(reqs') <= BatchSize
<1>1. CASE Round
  <2>1. Len(reqs') \in Nat /\ Width \in Nat \ {0} /\ Len(reqs') <= Width * Len(Seeds)
    BY <1>1, RoundBatch
  <2>2. Width = 1 \/ Width <= Batch
    <3>1. Len(Seeds) \in Nat \ {0} /\ Budget - used \in Int /\ Batch \in Nat
      BY BudgetAssumption, SeedsAssumption DEF IInv, TypeOK
    <3>2. (Budget - used) \div Len(Seeds) \in Int
      BY <3>1
    <3> QED BY <3>1, <3>2 DEF Width, Least
  <2>3. PICK w \in Nat : w = Width
    BY <2>1
  <2>4. PICK n \in Nat : n = Len(Seeds)
    BY SeedsAssumption
  <2>5. PICK l \in Nat : l = Len(reqs')
    BY <2>1
  <2>6. BatchSize >= Batch * n /\ BatchSize >= n /\ BatchSize \in Nat /\ Batch \in Nat
    BY <2>4, BatchSizeIs, BudgetAssumption
  <2>7. l <= w * n /\ (w = 1 \/ w <= Batch)
    BY <2>1, <2>2, <2>3, <2>4, <2>5
  <2>8. w * n <= BatchSize
    <3>1. CASE w = 1
      BY <2>6, <3>1
    <3>2. CASE w <= Batch
      <4>1. w * n <= Batch * n
        BY <2>6, <3>2
      <4>2. w * n \in Nat /\ Batch * n \in Nat
        BY <2>6
      <4> QED BY <2>6, <4>1, <4>2
    <3> QED BY <2>7, <3>1, <3>2
  <2>9. w * n \in Nat
    OBVIOUS
  <2>10. l <= BatchSize
    BY <2>6, <2>7, <2>8, <2>9
  <2> QED BY <2>5, <2>10
<1>2. CASE Promote
  <2>1. Len(reqs') \in Nat /\ Len(reqs') <= PromoteTop * Len(PromoteSeeds)
    BY <1>2, PromoteBatch
  <2>2. PromoteTop * Len(PromoteSeeds) \in Nat
    <3>1. Len(PromoteSeeds) \in Nat
      BY SeedsAssumption
    <3> QED BY <3>1, BudgetAssumption
  <2> QED BY <2>1, <2>2, BatchSizeIs
<1> QED
  BY <1>1, <1>2

LEMMA NextWaste == ASSUME IInv, Waste, [Next]_vars PROVE Waste'
<1>s. ASSUME rows' = rows, starts' = starts, asked' = asked, pc # "off", pc' # "off", InBatch' = InBatch,
             InHand' => Len(reqs') <= BatchSize
      PROVE  Waste'
  BY <1>s DEF Waste
<1>1. CASE Round \/ Promote
  <2>1. /\ rows' = rows /\ starts' = starts /\ asked' = asked /\ pc \in {"top", "rank"} /\ pc' = "eval"
    BY <1>1 DEF Round, Promote
  <2>2. InBatch' = 0 /\ InBatch = 0
    BY <2>1 DEF InBatch
  <2> QED BY <1>s, <1>1, <2>1, <2>2, BatchFits
<1>2. CASE OutOfBudget \/ OutOfTime \/ OutOfLLM \/ NoPromotion
  <2>1. /\ rows' = rows /\ starts' = starts /\ asked' = asked /\ pc \in {"top", "rank"} /\ pc' \in {"ended", "top"}
    BY <1>2 DEF OutOfBudget, OutOfTime, OutOfLLM, End, NoPromotion
  <2>2. InBatch' = 0 /\ InBatch = 0 /\ ~InHand'
    BY <2>1 DEF InBatch, InHand
  <2> QED BY <1>s, <2>1, <2>2
<1>3. CASE Evaluate
  <2>1. /\ pc = "eval" /\ pc' = "record" /\ pos' = 1 /\ reqs' = reqs /\ rows' = rows /\ starts' = starts
        /\ asked' = asked + Len(reqs)
    BY <1>3 DEF Evaluate
  <2>2. Len(reqs) \in Nat /\ InBatch = 0 /\ InBatch' = Len(reqs) - 1 + 1
    BY <2>1 DEF InBatch, IInv, TypeOK
  <2>3. InBatch' = Len(reqs)
    BY <2>2
  <2>4. starts > 0 /\ asked <= Len(rows) + Lost(starts - 1) + InBatch /\ Len(reqs) <= BatchSize
    BY <2>1 DEF Waste, InHand
  <2>5. asked' <= Len(rows') + Lost(starts' - 1) + InBatch'
    BY <2>1, <2>2, <2>3, <2>4, WasteTypes
  <2> QED BY <2>1, <2>4, <2>5 DEF Waste
<1>4. CASE Record
  <2>1. /\ pc = "record" /\ pc' # "off" /\ Len(rows') = Len(rows) + 1 /\ starts' = starts /\ asked' = asked
        /\ reqs' = reqs /\ Len(reqs) \in Nat /\ pos \in 1..Len(reqs)
        /\ \/ pc' = "record" /\ pos' = pos + 1
           \/ pc' # "record" /\ pos = Len(reqs)
    BY <1>4, RecordEffect
  <2>2. InBatch = Len(reqs) - pos + 1 /\ InBatch' = InBatch - 1
    BY <2>1 DEF InBatch
  <2>3. starts > 0 /\ asked <= Len(rows) + Lost(starts - 1) + InBatch /\ Len(reqs) <= BatchSize
    BY <2>1 DEF Waste, InHand
  <2>4. asked' <= Len(rows') + Lost(starts' - 1) + InBatch'
    BY <2>1, <2>2, <2>3, WasteTypes
  <2> QED BY <2>1, <2>3, <2>4 DEF Waste
<1>5. CASE DeadlinePasses \/ Over \/ UNCHANGED vars
  <2>1. UNCHANGED <<rows, pc, reqs, pos, starts, asked>>
    BY <1>5 DEF DeadlinePasses, Over, vars, work
  <2> QED BY <2>1 DEF Waste, InHand, InBatch
<1> QED
  BY <1>1, <1>2, <1>3, <1>4, <1>5, StartWaste, DieWaste DEF Next, Step

(* Of what was evaluated, at most one batch per start of the driver has no  *)
(* row: a kill or an exception loses the batch in hand and nothing else     *)
(* (search.py run_search_v2, db.py record_eval).                            *)
THEOREM WasteIsBounded == Spec => []WasteBounded
<1>1. Init => Waste
  BY InitWaste
<1>2. IInv /\ Waste /\ [Next]_vars => Waste'
  BY NextWaste
<1>3. ASSUME IInv, Waste PROVE asked <= Len(rows) + Lost(starts)
  BY <1>3, WasteTypes DEF Waste
<1>4. IInv /\ Waste => WasteBounded
  BY <1>3 DEF WasteBounded, Lost
<1> QED
  BY <1>1, <1>2, <1>4, Inductive, PTL DEF Spec

(* A start that ends at the deadline has run a round, and a round leaves    *)
(* rows.                                                                    *)
RoundsLeaveRows == (pc \in {"top", "rank"} /\ rounds > 0 => rows # <<>>) /\ DeadlineLeavesRows

(* An arm-run that ends at the deadline has evaluations, also one that was  *)
(* killed before it recorded any (search.py:547-548).                       *)
THEOREM DeadlineHasRows == Spec => []DeadlineLeavesRows
<1>1. Init => RoundsLeaveRows
  BY DEF Init, RoundsLeaveRows, DeadlineLeavesRows
<1>2. ASSUME IInv, RoundsLeaveRows, [Next]_vars PROVE RoundsLeaveRows'
  <2>1. CASE Start
    <3>1. rounds' = 0 /\ rows' = rows /\ stop' = stop
      BY <2>1 DEF Start, told
    <3> QED BY <1>2, <3>1 DEF RoundsLeaveRows, DeadlineLeavesRows
  <2>2. CASE OutOfBudget \/ OutOfLLM
    <3>1. pc' = "ended" /\ rows' = rows /\ stop' # "deadline"
      BY <2>2 DEF OutOfBudget, OutOfLLM, End
    <3> QED BY <3>1 DEF RoundsLeaveRows, DeadlineLeavesRows
  <2>3. CASE OutOfTime
    <3>1. pc' = "ended" /\ rows' = rows /\ pc = "top" /\ rounds > 0
      BY <2>3 DEF OutOfTime, End, Due
    <3> QED BY <1>2, <3>1 DEF RoundsLeaveRows, DeadlineLeavesRows
  <2>4. CASE Round \/ Evaluate \/ Promote \/ Die
    <3>1. rows' = rows /\ stop' = stop /\ pc' \notin {"top", "rank"}
      BY <2>4 DEF Round, Evaluate, Promote, Die, told
    <3> QED BY <1>2, <3>1 DEF RoundsLeaveRows, DeadlineLeavesRows
  <2>5. CASE Record
    <3>1. Len(rows') = Len(rows) + 1 /\ Len(rows) \in Nat
      BY <1>2, <2>5, RecordEffect
    <3>2. rows' # <<>>
      BY <3>1
    <3> QED BY <3>2 DEF RoundsLeaveRows, DeadlineLeavesRows
  <2>6. CASE NoPromotion \/ DeadlinePasses \/ Over \/ UNCHANGED vars
    <3>1. /\ rows' = rows /\ stop' = stop /\ rounds' = rounds
          /\ pc' \in {"top", "rank"} => pc \in {"top", "rank"}
      BY <2>6 DEF NoPromotion, DeadlinePasses, Over, vars, told, loop
    <3> QED BY <1>2, <3>1 DEF RoundsLeaveRows, DeadlineLeavesRows
  <2> QED BY <1>2, <2>1, <2>2, <2>3, <2>4, <2>5, <2>6 DEF Next, Step
<1>3. IInv /\ RoundsLeaveRows /\ [Next]_vars => RoundsLeaveRows'
  BY <1>2
<1>4. RoundsLeaveRows => DeadlineLeavesRows
  BY DEF RoundsLeaveRows
<1> QED
  BY <1>1, <1>3, <1>4, Inductive, PTL DEF Spec

-----------------------------------------------------------------------------
(* What the proposers may answer.  At picks the elements of its indices: for *)
(* each k there is an index with k - 1 of the chosen below it.               *)
LEMMA AtIs ==
  ASSUME NEW s, NEW n \in Nat, NEW I \in SUBSET (1..n), NEW D, \A i \in I : s[i] \in D
  PROVE  At(s, I) \in Seq(D) /\ Len(At(s, I)) \in Nat
<1> DEFINE N == Cardinality(I)
           Below(i) == {j \in I : j < i}
           R == [i \in I |-> Cardinality(Below(i))]
<1>1. IsFiniteSet(I) /\ N \in Nat /\ \A i \in I : i \in Nat
  <2>1. IsFiniteSet(1..n)
    BY FS_Interval
  <2>2. IsFiniteSet(I)
    BY <2>1, FS_Subset
  <2> QED BY <2>2, FS_CardinalityType
<1>2. ASSUME NEW i \in I
      PROVE  /\ IsFiniteSet(Below(i)) /\ Cardinality(Below(i)) \in Nat /\ Cardinality(Below(i)) < N
  <2>1. Below(i) \in SUBSET I /\ i \notin Below(i)
    BY <1>1
  <2> HIDE DEF Below
  <2>2. /\ IsFiniteSet(Below(i)) /\ Cardinality(Below(i)) <= N
        /\ N = Cardinality(Below(i)) => I = Below(i)
    BY <1>1, <2>1, FS_Subset
  <2>3. Cardinality(Below(i)) \in Nat /\ N # Cardinality(Below(i))
    BY <2>1, <2>2, FS_CardinalityType
  <2> HIDE DEF N
  <2> QED BY <1>1, <2>2, <2>3
<1>3. ASSUME NEW i \in I, NEW j \in I, i < j PROVE Cardinality(Below(i)) < Cardinality(Below(j))
  <2>1. Below(i) \in SUBSET Below(j) /\ i \in Below(j) /\ i \notin Below(i)
    <3>1. i \in Nat /\ j \in Nat /\ \A l \in I : l \in Nat
      BY <1>1
    <3>2. ASSUME NEW l \in I, l < i PROVE l < j
      BY <1>3, <3>1, <3>2
    <3>3. ~(i < i)
      BY <3>1
    <3> QED BY <1>3, <3>2, <3>3
  <2>2. IsFiniteSet(Below(j)) /\ Cardinality(Below(j)) \in Nat /\ Cardinality(Below(i)) \in Nat
    BY <1>2
  <2> HIDE DEF Below
  <2>3. /\ Cardinality(Below(i)) <= Cardinality(Below(j))
        /\ Cardinality(Below(j)) = Cardinality(Below(i)) => Below(j) = Below(i)
    BY <2>1, <2>2, FS_Subset
  <2> QED BY <2>1, <2>2, <2>3
<1>4. ASSUME NEW i \in I, NEW j \in I, Cardinality(Below(i)) = Cardinality(Below(j)) PROVE i = j
  <2>1. Cardinality(Below(i)) \in Nat /\ Cardinality(Below(j)) \in Nat
    BY <1>2
  <2> HIDE DEF Below
  <2>2. ~(i < j) /\ ~(j < i)
    BY <1>3, <1>4, <2>1
  <2> QED BY <1>1, <2>2
<1>5. R \in Injection(I, 0..(N - 1))
  <2> HIDE DEF Below, N
  <2>1. \A i \in I : R[i] \in 0..(N - 1)
    BY <1>1, <1>2
  <2>2. R \in [I -> 0..(N - 1)]
    BY <2>1
  <2>3. \A i, j \in I : R[i] = R[j] => i = j
    BY <1>4
  <2> HIDE DEF R
  <2> QED BY <2>2, <2>3 DEF Injection, IsInjective
<1>6. \A k \in 0..(N - 1) : \E i \in I : R[i] = k
  <2>1. IsFiniteSet(0..(N - 1)) /\ Cardinality(0..(N - 1)) = N
    <3> HIDE DEF N
    <3> QED BY <1>1, FS_Interval
  <2> HIDE DEF R
  <2>2. R \in Surjection(I, 0..(N - 1))
    BY <1>5, <2>1, FS_Injection
  <2> QED BY <2>2 DEF Surjection
<1>7. ASSUME NEW k \in 1..N PROVE \E i \in I : Cardinality(Below(i)) = k - 1
  <2>1. k - 1 \in 0..(N - 1)
    <3> HIDE DEF N
    <3> QED BY <1>1
  <2> HIDE DEF Below, N
  <2> QED BY <1>6, <2>1
<1>8. ASSUME NEW k \in 1..N PROVE s[CHOOSE i \in I : Cardinality(Below(i)) = k - 1] \in D
  <2> HIDE DEF Below
  <2> QED BY <1>7
<1>9. At(s, I) = [k \in 1..N |-> s[CHOOSE i \in I : Cardinality(Below(i)) = k - 1]]
  BY DEF At
<1> HIDE DEF Below, N
<1>10. At(s, I) \in [1..N -> D]
  BY <1>8, <1>9
<1> QED
  BY <1>1, <1>10

LEMMA FirstIs ==
  ASSUME NEW n \in Nat, NEW D, NEW s \in Seq(D)
  PROVE  First(n, s) \in Seq(D) /\ Len(First(n, s)) \in Nat /\ Len(First(n, s)) <= n
<1>1. Len(s) \in Nat /\ Least(n, Len(s)) \in 0..Len(s) /\ Least(n, Len(s)) <= n
  BY DEF Least
<1> DEFINE l == Least(n, Len(s))
<1> HIDE DEF l
<1>2. l \in 0..Len(s) /\ l <= n
  BY <1>1 DEF l
<1>3. SubSeq(s, 1, l) \in Seq(D) /\ Len(SubSeq(s, 1, l)) = l
  BY <1>2
<1> QED
  BY <1>2, <1>3 DEF First, l

LEMMA ParsedAre == ASSUME NEW items \in Parsed PROVE items \in Seq(Configs) /\ Len(items) \in Nat
<1>1. PICK answer \in ModelAnswers : items = parse(answer)
  BY DEF Parsed
<1>2. PICK k \in 0..MaxItems : answer \in [1..k -> Configs \cup {Unusable}]
  BY <1>1 DEF ModelAnswers
<1>3. k \in Nat /\ Len(answer) = k
  BY <1>2, AnswersAssumption
<1> DEFINE I == {i \in 1..Len(answer) : answer[i] # Unusable}
<1>4. I \in SUBSET (1..k) /\ \A i \in I : answer[i] \in Configs
  BY <1>2, <1>3
<1> HIDE DEF I
<1>5. At(answer, I) \in Seq(Configs) /\ Len(At(answer, I)) \in Nat
  BY <1>3, <1>4, AtIs
<1> QED
  BY <1>1, <1>5 DEF parse, I

LEMMA DrawsAre ==
  ASSUME NEW n \in Nat, NEW cs \in Random(n)
  PROVE  cs \in Seq(Configs) /\ Len(cs) = n
BY DEF Random

(* Each proposer answers with at least one config and at most as many as     *)
(* asked for.                                                                *)
Answer(cs, n) == cs \in Seq(Configs) /\ Len(cs) \in 1..n

LEMMA LLMAnswers == ASSUME NEW n \in Nat \ {0}, NEW cs \in LLM(n) PROVE Answer(cs, n)
<1>0. PICK items \in Parsed : \E fill \in Random(n - Len(First(n, items))) : cs = First(n, items) \o fill
  BY DEF LLM
<1>1. PICK fill \in Random(n - Len(First(n, items))) : cs = First(n, items) \o fill
  BY <1>0
<1> DEFINE taken == First(n, items)
<1>2. taken \in Seq(Configs) /\ Len(taken) \in Nat /\ Len(taken) <= n
  BY ParsedAre, FirstIs
<1> HIDE DEF taken
<1>3. n - Len(taken) \in Nat
  BY <1>2
<1>4. fill \in Seq(Configs) /\ Len(fill) = n - Len(taken)
  BY <1>1, <1>3, DrawsAre DEF taken
<1>5. cs \in Seq(Configs) /\ Len(cs) = Len(taken) + Len(fill)
  BY <1>1, <1>2, <1>4 DEF taken
<1> QED
  BY <1>2, <1>4, <1>5 DEF Answer

LEMMA DiagAnswers == ASSUME NEW seen, NEW n \in Nat \ {0}, NEW cs \in Diag(seen, n) PROVE Answer(cs, n)
<1>1. PICK items \in Parsed : cs \in Filled(seen, Chosen(seen, items, n), n)
  BY DEF Diag
<1> DEFINE taken == Chosen(seen, items, n)
           I == {i \in 1..Len(items) : items[i] \notin seen /\ \A j \in 1..(i - 1) : items[j] # items[i]}
<1>2. taken \in Seq(Configs) /\ Len(taken) \in Nat /\ Len(taken) <= n
  <2>1. items \in Seq(Configs) /\ Len(items) \in Nat
    BY ParsedAre
  <2>2. I \in SUBSET (1..Len(items)) /\ \A i \in I : items[i] \in Configs
    BY <2>1
  <2>3. taken = First(n, At(items, I))
    BY DEF Chosen
  <2> HIDE DEF I, taken
  <2>4. At(items, I) \in Seq(Configs)
    BY <2>1, <2>2, AtIs
  <2> QED BY <2>3, <2>4, FirstIs
<1> HIDE DEF taken, I
<1>3. PICK k \in 0..(n - Len(taken)) :
        \E s \in Random(k), last \in Random(Least(2, n - Len(taken) - k)) : cs = taken \o s \o last
  BY <1>1 DEF Filled, taken
<1>p. PICK s \in Random(k), last \in Random(Least(2, n - Len(taken) - k)) : cs = taken \o s \o last
  BY <1>3
<1> DEFINE l == Least(2, n - Len(taken) - k)
<1>4. k \in Nat /\ n - Len(taken) - k \in Nat /\ l \in Nat /\ l <= n - Len(taken) - k
      /\ (l = 0 => n - Len(taken) - k = 0)
  BY <1>2 DEF Least
<1> HIDE DEF l
<1>5. s \in Seq(Configs) /\ Len(s) = k /\ last \in Seq(Configs) /\ Len(last) = l
  BY <1>4, DrawsAre DEF l
<1>6. cs \in Seq(Configs) /\ Len(cs) = Len(taken) + k + l
  <2>1. taken \o s \in Seq(Configs) /\ Len(taken \o s) = Len(taken) + k
    <3>1. \A x, y \in Seq(Configs) : x \o y \in Seq(Configs) /\ Len(x \o y) = Len(x) + Len(y)
      OBVIOUS
    <3> QED BY <1>2, <1>5, <3>1
  <2>2. PICK u \in Seq(Configs) : u = taken \o s /\ Len(u) = Len(taken) + k
    BY <2>1
  <2>3. cs = u \o last
    BY <1>p, <2>2
  <2>4. PICK v \in Seq(Configs) : v = last /\ Len(v) = l
    BY <1>5
  <2>5. u \o v \in Seq(Configs) /\ Len(u \o v) = Len(u) + Len(v)
    OBVIOUS
  <2> QED BY <2>2, <2>3, <2>4, <2>5
<1> QED
  BY <1>2, <1>4, <1>6 DEF Answer

(* The loop makes of an answer a batch of new configs, all different.        *)
LEMMA DeduplicatedFits ==
  ASSUME NEW cs, Len(cs) \in Nat PROVE Deduplicated(Prior \cup Measured, cs) \subseteq Proposals(Len(cs))
<1> DEFINE seen == Prior \cup Measured
           n == Len(cs)
<1>1. SUFFICES ASSUME NEW ds \in Deduplicated(seen, cs) PROVE ds \in Proposals(n)
  OBVIOUS
<1>2. ds \in [1..n -> Configs \ seen]
  BY DEF Deduplicated
<1>3. ASSUME NEW i \in 1..n, NEW j \in 1..n, j < i PROVE ds[i] # ds[j]
  <2> DEFINE before == {ds[k] : k \in 1..(i - 1)}
  <2>1. ds[i] \in IF cs[i] \notin seen \cup before THEN {cs[i]} ELSE Configs \ before
    BY DEF Deduplicated
  <2>2. ds[i] \notin before
    BY <2>1
  <2>3. j \in 1..(i - 1)
    BY <1>3
  <2> QED BY <2>2, <2>3
<1>4. ASSUME NEW i \in 1..n, NEW j \in 1..n, ds[i] = ds[j] PROVE i = j
  <2>1. ~(i < j) /\ ~(j < i)
    BY <1>3, <1>4
  <2> QED BY <2>1
<1>5. IsInjective(ds)
  BY <1>2, <1>4 DEF IsInjective
<1> QED
  BY <1>2, <1>5 DEF Proposals

(* Whichever proposer is asked, and whatever a model answers, the loop       *)
(* evaluates between one config and as many as it asked for, all different   *)
(* and none in the history (search.py:588-596): the batches of SearchV2's    *)
(* Round are all there are, for any configs and any number of them asked.    *)
THEOREM ProposersDoConform == Spec => []ProposersConform
<1>1. ASSUME NEW n \in 1..MaxAsked, NEW cs \in Asked(Prior \cup Measured, n) PROVE Answer(cs, n)
  <2>1. n \in Nat \ {0}
    BY AnswersAssumption
  <2>2. CASE cs \in Random(n)
    BY <2>1, <2>2, DrawsAre DEF Answer
  <2>3. TPE(n) = Random(n) /\ Fallback(n) = Random(n)
    BY DEF TPE, Random, Fallback
  <2> QED BY <2>1, <2>2, <2>3, LLMAnswers, DiagAnswers DEF Asked
<1>2. ProposersConform
  <2>1. ASSUME NEW n \in 1..MaxAsked, NEW cs \in Asked(Prior \cup Measured, n)
        PROVE  /\ Len(cs) \in 1..n
               /\ Deduplicated(Prior \cup Measured, cs) \subseteq [k \in 1..n |-> Proposals(k)][Len(cs)]
    <3>1. Len(cs) \in 1..n
      BY <1>1 DEF Answer
    <3>n. Len(cs) \in Nat
      BY <2>1, <3>1, AnswersAssumption
    <3>2. Deduplicated(Prior \cup Measured, cs) \subseteq Proposals(Len(cs))
      BY <3>n, DeduplicatedFits
    <3> QED BY <3>1, <3>2
  <2> QED BY <2>1 DEF ProposersConform
<1> QED
  BY <1>2, PTL
=============================================================================
