-------------------------- MODULE LlmBudgetProofs --------------------------
(***************************************************************************)
(* Proofs about LlmBudget.  While the meter is below the cap the ceiling   *)
(* holds with room for a call of every arm-run; once it is not, no call is *)
(* started, so each addition takes its caller out of those in the air.     *)
(***************************************************************************)
EXTENDS LlmBudget, FiniteSetTheorems, TLAPS

(* The calls in the air are at most as many as the arm-runs.                *)
LEMMA InFlightBound ==
  /\ IsFiniteSet(InFlight) /\ Cardinality(InFlight) \in Nat
  /\ Cardinality(InFlight) <= Cardinality(Arms)
  /\ Cardinality(Arms) \in Nat
PROOF
  <1>1. InFlight \in SUBSET Arms
    BY DEF InFlight
  <1>2. IsFiniteSet(Arms)
    BY ArmsAssumption
  <1>3. IsFiniteSet(InFlight) /\ Cardinality(InFlight) <= Cardinality(Arms)
    BY <1>1, <1>2, FS_Subset
  <1> QED
    BY <1>2, <1>3, FS_CardinalityType

(* A price times a count stays between nothing and the price of every       *)
(* arm-run's call, and falls by one price with the count.                   *)
LEMMA PriceOfCalls ==
  ASSUME NEW n \in Nat, NEW m \in Nat, n <= m
  PROVE  /\ MaxCost * n \in Nat /\ MaxCost * m \in Nat
         /\ MaxCost * n <= MaxCost * m
         /\ n > 0 => MaxCost * (n - 1) = MaxCost * n - MaxCost
         /\ MaxCost * 0 = 0
PROOF
  <1>1. MaxCost \in Nat
    BY PriceAssumption
  <1> QED
    BY <1>1, Z3

(* The initial state satisfies the invariant.                               *)
LEMMA InitInvariant == Init => IInv
PROOF
  <1> SUFFICES ASSUME Init PROVE IInv
    OBVIOUS
  <1>1. TypeOK
    BY TriesAssumption DEF Init, TypeOK
  <1>2. NoMoreThanInFlight
    BY PriceAssumption DEF Init, NoMoreThanInFlight, Costs
  <1>3. CapSeen
    BY DEF Init, CapSeen
  <1> QED
    BY <1>1, <1>2, <1>3 DEF IInv

(* Every step keeps the types.                                              *)
LEMMA TypeStep == TypeOK /\ NoMoreThanInFlight /\ [Next]_vars => TypeOK'
PROOF
  <1> SUFFICES ASSUME TypeOK, NoMoreThanInFlight, [Next]_vars PROVE TypeOK'
    OBVIOUS
  <1> USE DEF TypeOK, Goto, Finish, bill
  <1>1. ASSUME NEW a \in Arms, BudgetUsed(a) PROVE TypeOK'
    BY <1>1 DEF BudgetUsed
  <1>2. ASSUME NEW a \in Arms, Propose(a) \/ Answer(a) PROVE TypeOK'
    BY <1>2 DEF Propose, Answer
  <1>3. ASSUME NEW a \in Arms, CheckPasses(a) PROVE TypeOK'
    BY <1>3, TriesAssumption DEF CheckPasses
  <1>4. ASSUME NEW a \in Arms, CheckRaises(a) PROVE TypeOK'
    BY <1>4 DEF CheckRaises
  <1>5. ASSUME NEW a \in Arms, Attempt(a) PROVE TypeOK'
    BY <1>5, PriceAssumption DEF Attempt, Costs
  <1>6. ASSUME NEW a \in Arms, Retry(a) PROVE TypeOK'
    BY <1>6 DEF Retry, Unmetered
  <1>7. ASSUME NEW a \in Arms, CallFails(a) PROVE TypeOK'
    BY <1>7 DEF CallFails, Unmetered
  <1>8. ASSUME NEW a \in Arms, Add(a) PROVE TypeOK'
    BY <1>8 DEF Add, Told, Unmetered
  <1>9. ASSUME NEW a \in Arms, AddAndProposeAgain(a) PROVE TypeOK'
    BY <1>9 DEF AddAndProposeAgain, Told, Unmetered
  <1>10. ASSUME NEW a \in Arms, Evaluate(a) PROVE TypeOK'
    BY <1>10 DEF Evaluate
  <1>11. CASE Restart
    BY <1>11 DEF Restart
  <1>12. CASE UNCHANGED vars
    BY <1>12 DEF vars, call, bill
  <1> QED
    BY <1>1, <1>2, <1>3, <1>4, <1>5, <1>6, <1>7, <1>8, <1>9, <1>10, <1>11, <1>12
    DEF Next, Arm, Over

(* A step that neither starts nor ends a call keeps the count of calls in   *)
(* the air.                                                                 *)
LEMMA SameCalls ==
  ASSUME NoMoreThanInFlight, InFlight' = InFlight, spent' = spent,
         \A b \in Arms : price'[b] \in Costs
  PROVE  NoMoreThanInFlight'
PROOF
  BY DEF NoMoreThanInFlight, Ceiling, Costs

(* A step that ends a call, and adds no more than one price.                *)
LEMMA OneCallLess ==
  ASSUME TypeOK, NoMoreThanInFlight, NEW a \in InFlight, InFlight' = InFlight \ {a},
         NEW c \in Costs, spent' = spent + c,
         \A b \in Arms : price'[b] \in Costs
  PROVE  NoMoreThanInFlight'
PROOF
  <1> DEFINE n == Cardinality(InFlight)
             m == Cardinality(Arms)
             k == Cardinality(InFlight')
  <1>1. n \in Nat /\ m \in Nat /\ n <= m /\ IsFiniteSet(InFlight)
    BY InFlightBound
  <1>2. k = n - 1 /\ k \in Nat /\ n > 0
    BY <1>1, FS_RemoveElement, FS_Subset, FS_CardinalityType
  <1>3. /\ MaxCost * n \in Nat /\ MaxCost * m \in Nat /\ MaxCost * n <= MaxCost * m
        /\ MaxCost * k = MaxCost * n - MaxCost
    BY <1>1, <1>2, PriceOfCalls
  <1>4. c \in Nat /\ c <= MaxCost /\ spent \in Nat /\ MaxCost \in Nat /\ Cap \in Nat
    BY PriceAssumption DEF Costs, TypeOK
  <1>5. spent' >= Cap => spent' + MaxCost * k <= Cap - 1 + MaxCost * m
    <2>1. spent >= Cap => spent + MaxCost * n <= Cap - 1 + MaxCost * m
      BY DEF NoMoreThanInFlight, Ceiling
    <2> QED
      BY <1>3, <1>4, <2>1
  <1> QED
    BY <1>5 DEF NoMoreThanInFlight, Ceiling

(* Every step keeps the ceiling: below the cap a call may start, at the cap *)
(* calls only end.                                                          *)
LEMMA CeilingStep == TypeOK /\ NoMoreThanInFlight /\ [Next]_vars => NoMoreThanInFlight'
PROOF
  <1> SUFFICES ASSUME TypeOK, NoMoreThanInFlight, [Next]_vars PROVE NoMoreThanInFlight'
    OBVIOUS
  <1>0. \A b \in Arms : price[b] \in Costs
    BY DEF NoMoreThanInFlight
  <1>1. ASSUME NEW a \in Arms, BudgetUsed(a) \/ Propose(a) \/ CheckRaises(a)
        PROVE  NoMoreThanInFlight'
    <2>1. InFlight' = InFlight /\ spent' = spent /\ price' = price
      BY <1>1 DEF BudgetUsed, Propose, CheckRaises, Finish, Goto, InFlight, TypeOK
    <2> QED
      BY <1>0, <2>1, SameCalls
  <1>2. ASSUME NEW a \in Arms, CheckPasses(a) PROVE NoMoreThanInFlight'
    <2>1. spent' = spent /\ price' = price /\ spent < Cap
      BY <1>2 DEF CheckPasses
    <2> QED
      BY <1>0, <2>1, PriceAssumption DEF NoMoreThanInFlight, TypeOK
  <1>3. ASSUME NEW a \in Arms, Attempt(a) PROVE NoMoreThanInFlight'
    <2>1. InFlight' = InFlight /\ spent' = spent
      BY <1>3 DEF Attempt, Goto, InFlight, TypeOK
    <2>2. \A b \in Arms : price'[b] \in Costs
      BY <1>0, <1>3 DEF Attempt, TypeOK
    <2> QED
      BY <2>1, <2>2, SameCalls
  <1>4. ASSUME NEW a \in Arms, Answer(a) \/ Retry(a) PROVE NoMoreThanInFlight'
    <2>1. InFlight' = InFlight /\ spent' = spent
      BY <1>4 DEF Answer, Retry, Goto, InFlight, TypeOK
    <2>2. \A b \in Arms : price'[b] \in Costs
      BY <1>0, <1>4, PriceAssumption DEF Answer, Retry, Unmetered, Costs, TypeOK
    <2> QED
      BY <2>1, <2>2, SameCalls
  <1>5. ASSUME NEW a \in Arms, CallFails(a) PROVE NoMoreThanInFlight'
    <2>1. a \in InFlight /\ InFlight' = InFlight \ {a}
      BY <1>5 DEF CallFails, Goto, InFlight, TypeOK
    <2>2. 0 \in Costs /\ spent' = spent + 0
      BY <1>5, PriceAssumption DEF CallFails, Costs, TypeOK
    <2>3. \A b \in Arms : price'[b] \in Costs
      BY <1>0, <1>5, <2>2 DEF CallFails, Unmetered, TypeOK
    <2> QED
      BY <2>1, <2>2, <2>3, OneCallLess
  <1>6. ASSUME NEW a \in Arms, Add(a) \/ AddAndProposeAgain(a) PROVE NoMoreThanInFlight'
    <2>1. a \in InFlight /\ InFlight' = InFlight \ {a}
      BY <1>6 DEF Add, AddAndProposeAgain, Goto, InFlight, TypeOK
    <2>2. PICK c \in 0..price[a] : spent' = spent + c /\ price' = [price EXCEPT ![a] = 0]
      BY <1>6 DEF Add, AddAndProposeAgain, Told, Unmetered
    <2>3. c \in Costs /\ 0 \in Costs
      BY <1>0, <2>2, PriceAssumption DEF Costs
    <2>4. \A b \in Arms : price'[b] \in Costs
      BY <1>0, <2>2, <2>3 DEF TypeOK
    <2> QED
      BY <2>1, <2>2, <2>3, <2>4, OneCallLess
  <1>7. ASSUME NEW a \in Arms, Evaluate(a) PROVE NoMoreThanInFlight'
    <2>1. InFlight' = InFlight /\ spent' = spent /\ price' = price
      BY <1>7 DEF Evaluate, Goto, InFlight, TypeOK
    <2> QED
      BY <1>0, <2>1, SameCalls
  <1>8. CASE Restart
    BY <1>8, PriceAssumption DEF Restart, NoMoreThanInFlight, Costs
  <1>9. CASE UNCHANGED vars
    <2>1. InFlight' = InFlight /\ spent' = spent /\ price' = price
      BY <1>9 DEF vars, call, InFlight
    <2> QED
      BY <1>0, <2>1, SameCalls
  <1> QED
    BY <1>1, <1>2, <1>3, <1>4, <1>5, <1>6, <1>7, <1>8, <1>9 DEF Next, Arm, Over

(* Every step keeps the cap reached for who ended there: only a restart     *)
(* lowers the meter, and it starts every arm-run again.                     *)
LEMMA CapSeenStep == IInv /\ [Next]_vars => CapSeen'
PROOF
  <1> SUFFICES ASSUME IInv, [Next]_vars PROVE CapSeen'
    OBVIOUS
  <1> USE DEF IInv, CapSeen
  <1>1. ASSUME NEW a \in Arms, BudgetUsed(a) \/ CheckRaises(a) PROVE CapSeen'
    BY <1>1 DEF BudgetUsed, CheckRaises, Finish, TypeOK
  <1>2. ASSUME NEW a \in Arms, \/ Propose(a) \/ CheckPasses(a) \/ Attempt(a) \/ Answer(a)
                               \/ Retry(a) \/ CallFails(a) \/ Evaluate(a)
        PROVE CapSeen'
    BY <1>2 DEF Propose, CheckPasses, Attempt, Answer, Retry, CallFails, Evaluate
  <1>3. ASSUME NEW a \in Arms, Add(a) \/ AddAndProposeAgain(a) PROVE CapSeen'
    <2>1. PICK c \in 0..price[a] : spent' = spent + c
      BY <1>3 DEF Add, AddAndProposeAgain, Told
    <2>2. stop' = stop
      BY <1>3 DEF Add, AddAndProposeAgain
    <2> QED
      BY <2>1, <2>2, PriceAssumption DEF TypeOK
  <1>4. CASE Restart
    BY <1>4 DEF Restart
  <1>5. CASE UNCHANGED vars
    BY <1>5 DEF vars
  <1> QED
    BY <1>1, <1>2, <1>3, <1>4, <1>5 DEF Next, Arm, Over

(* The inductive invariant holds in every reachable state, for every number *)
(* of arm-runs, every cap and every price.                                  *)
THEOREM Inductive == Spec => []IInv
PROOF
  <1>1. IInv /\ [Next]_vars => IInv'
    BY TypeStep, CeilingStep, CapSeenStep DEF IInv
  <1> QED
    BY InitInvariant, <1>1, PTL DEF Spec

(* llm.py CostMeter: the estimate never passes the cap by more than one     *)
(* call of each arm-run, whatever the threads' interleaving.                *)
THEOREM CapHoldsUpToCallsInTheAir == Spec => []OvershootBounded
PROOF
  <1>1. IInv => OvershootBounded
    <2> SUFFICES ASSUME IInv PROVE OvershootBounded
      OBVIOUS
    <2> DEFINE n == Cardinality(InFlight)
               m == Cardinality(Arms)
    <2>1. MaxCost * n \in Nat /\ MaxCost * m \in Nat
      BY InFlightBound, PriceOfCalls
    <2>2. spent \in Nat /\ Cap \in Nat
      BY PriceAssumption DEF IInv, TypeOK
    <2>3. spent >= Cap => spent + MaxCost * n <= Cap - 1 + MaxCost * m
      BY DEF IInv, NoMoreThanInFlight, Ceiling
    <2>4. spent <= Cap - 1 + MaxCost * m
      BY <2>1, <2>2, <2>3
    <2> QED
      BY <2>4 DEF OvershootBounded, Ceiling
  <1> QED
    BY Inductive, <1>1, PTL

(* search.py run_search_v2: when the cap has ended one arm-run, no arm-run  *)
(* of that process gets past the check again.                               *)
THEOREM CapEndsAll == Spec => CapStaysReached
PROOF
  <1> DEFINE P == kills' = kills => \A a \in Arms : stop[a] = "llm_budget" =>
                    \A b \in Arms : ~(pc[b] = "check" /\ pc'[b] = "post")
  <1>1. IInv /\ [Next]_vars => [P]_vars
    <2> SUFFICES ASSUME IInv, Next, kills' = kills, NEW a \in Arms, stop[a] = "llm_budget",
                        NEW b \in Arms, pc[b] = "check", pc'[b] = "post"
                 PROVE  FALSE
      OBVIOUS
    <2>1. spent >= Cap
      BY DEF IInv, CapSeen
    <2>2. ~(spent < Cap)
      BY <2>1, PriceAssumption DEF IInv, TypeOK
    <2>3. pc \in [Arms -> {"top", "check", "post", "wait", "add", "eval", "ended"}]
      BY DEF IInv, TypeOK
    <2>4. CASE Restart \/ Over
      BY <2>4 DEF Restart, Over, vars, call, bill
    <2>5. CASE \E c \in Arms : Arm(c)
      <3>1. PICK c \in Arms : Arm(c)
        BY <2>5
      <3> QED
        BY <2>2, <2>3, <3>1
        DEF Arm, BudgetUsed, Propose, CheckPasses, CheckRaises, Attempt, Answer, Retry, CallFails,
            Add, AddAndProposeAgain, Evaluate, Goto, Finish
    <2> QED
      BY <2>4, <2>5 DEF Next
  <1> QED
    BY Inductive, <1>1, PTL DEF Spec, CapStaysReached

-----------------------------------------------------------------------------
(* Attempts that are charged and neither added nor given up, one element    *)
(* for each unit of price: what the meter may still be told of.             *)
Owed == {w \in Arms \X (1..MaxCost) : pc[w[1]] \in {"wait", "add"} /\ w[2] <= price[w[1]]}
OwedBy(a, c) == {a} \X (1..c)
BilledIsDue == billed <= kills * Ceiling + unseen + spent + Cardinality(Owed)

LEMMA OwedByOne ==
  ASSUME NEW a \in Arms, NEW c \in Costs
  PROVE  IsFiniteSet(OwedBy(a, c)) /\ Cardinality(OwedBy(a, c)) = c
PROOF
  <1>1. c \in Nat
    BY PriceAssumption DEF Costs
  <1>2. IsFiniteSet(1..c) /\ Cardinality(1..c) = c
    BY <1>1, FS_Interval
  <1>3. IsFiniteSet({a}) /\ Cardinality({a}) = 1
    BY FS_Singleton
  <1>4. IsFiniteSet({a} \X (1..c)) /\ Cardinality({a} \X (1..c)) = Cardinality({a}) * Cardinality(1..c)
    BY <1>2, <1>3, FS_Product
  <1> QED
    BY <1>1, <1>2, <1>3, <1>4 DEF OwedBy

(* No more is owed than one call of every arm-run that is in the air.       *)
LEMMA OwedBound ==
  /\ IsFiniteSet(Owed) /\ Cardinality(Owed) \in Nat
  /\ Cardinality(Owed) <= MaxCost * Cardinality(InFlight)
PROOF
  <1>1. MaxCost \in Nat /\ IsFiniteSet(InFlight) /\ Cardinality(InFlight) \in Nat
    BY InFlightBound, PriceAssumption
  <1>2. IsFiniteSet(1..MaxCost) /\ Cardinality(1..MaxCost) = MaxCost
    BY <1>1, FS_Interval, SMTT(30)
  <1>3. /\ IsFiniteSet(InFlight \X (1..MaxCost))
        /\ Cardinality(InFlight \X (1..MaxCost)) = Cardinality(InFlight) * Cardinality(1..MaxCost)
    BY <1>1, <1>2, FS_Product
  <1>4. Owed \subseteq InFlight \X (1..MaxCost)
    BY DEF Owed, InFlight
  <1>5. IsFiniteSet(Owed) /\ Cardinality(Owed) <= Cardinality(InFlight) * MaxCost
    BY <1>2, <1>3, <1>4, FS_Subset
  <1>6. Cardinality(InFlight) * MaxCost = MaxCost * Cardinality(InFlight)
    BY <1>1
  <1> QED
    BY <1>5, <1>6, FS_CardinalityType

(* The meter and what it lacks stay under the ceiling together.             *)
LEMMA DueBelowCeiling ==
  ASSUME IInv PROVE spent + Cardinality(Owed) <= Ceiling /\ Ceiling \in Nat
PROOF
  <1> DEFINE n == Cardinality(InFlight)
             m == Cardinality(Arms)
             o == Cardinality(Owed)
  <1>1. n \in Nat /\ m \in Nat /\ n <= m
    BY InFlightBound
  <1>2. MaxCost * n \in Nat /\ MaxCost * m \in Nat /\ MaxCost * n <= MaxCost * m
    BY <1>1, PriceOfCalls
  <1>3. o \in Nat /\ o <= MaxCost * n
    BY OwedBound
  <1>4. spent \in Nat /\ Cap \in Nat \ {0}
    BY PriceAssumption DEF IInv, TypeOK
  <1>5. spent >= Cap => spent + MaxCost * n <= Cap - 1 + MaxCost * m
    BY DEF IInv, NoMoreThanInFlight, Ceiling
  <1> HIDE DEF n, m, o
  <1>6. spent + o <= Cap - 1 + MaxCost * m /\ Cap - 1 + MaxCost * m \in Nat
    BY <1>2, <1>3, <1>4, <1>5
  <1> QED
    BY <1>6 DEF Ceiling, m, o

(* An attempt's price is owed until it is added or given up.                *)
LEMMA AttemptOwes ==
  ASSUME IInv, NEW a \in Arms, NEW c \in Costs, pc[a] = "post",
         pc' = [pc EXCEPT ![a] = "wait"], price' = [price EXCEPT ![a] = c]
  PROVE  Cardinality(Owed') = Cardinality(Owed) + c
PROOF
  <1>1. /\ \A b \in Arms : pc'[b] = IF b = a THEN "wait" ELSE pc[b]
        /\ \A b \in Arms : price'[b] = IF b = a THEN c ELSE price[b]
    BY DEF IInv, TypeOK
  <1>2. c \in Nat /\ c <= MaxCost /\ MaxCost \in Nat
    BY PriceAssumption DEF Costs
  <1>3. Owed' = Owed \cup OwedBy(a, c) /\ Owed \cap OwedBy(a, c) = {}
    BY <1>1, <1>2 DEF Owed, OwedBy
  <1>4. Cardinality(Owed') = Cardinality(Owed) + Cardinality(OwedBy(a, c)) - Cardinality(Owed \cap OwedBy(a, c))
    BY <1>3, OwedBound, OwedByOne, FS_Union
  <1>5. Cardinality(Owed \cap OwedBy(a, c)) = 0
    BY <1>3, FS_EmptySet
  <1> QED
    BY <1>2, <1>4, <1>5, OwedBound, OwedByOne

LEMMA NoLongerOwed ==
  ASSUME IInv, NEW a \in Arms, NEW s \in {"post", "eval", "check"}, pc[a] \in {"wait", "add"},
         pc' = [pc EXCEPT ![a] = s], price' = [price EXCEPT ![a] = 0]
  PROVE  Cardinality(Owed') = Cardinality(Owed) - price[a]
PROOF
  <1>1. /\ \A b \in Arms : pc'[b] = IF b = a THEN s ELSE pc[b]
        /\ \A b \in Arms : price'[b] = IF b = a THEN 0 ELSE price[b]
    BY DEF IInv, TypeOK
  <1>2. price[a] \in Costs /\ price[a] \in Nat /\ price[a] <= MaxCost /\ MaxCost \in Nat
    BY PriceAssumption DEF IInv, NoMoreThanInFlight, Costs
  <1>3. Owed' = Owed \ OwedBy(a, price[a]) /\ Owed \cap OwedBy(a, price[a]) = OwedBy(a, price[a])
    BY <1>1, <1>2 DEF Owed, OwedBy
  <1>4. Cardinality(Owed') = Cardinality(Owed) - Cardinality(Owed \cap OwedBy(a, price[a]))
    BY <1>3, OwedBound, FS_Difference
  <1> QED
    BY <1>2, <1>3, <1>4, OwedByOne

-----------------------------------------------------------------------------
(* The attempts that arm-runs can have begun so far, numbered for each of   *)
(* them: those of the rounds it has used up, of the rounds that kills took  *)
(* from it, and of the round it is in.                                      *)
Most == AttemptsOfRound * (Rounds + kills)
FirstCall(a) == IF again[a] THEN Tries ELSE 0
ThisRound(a) ==
  IF pc[a] = "top" \/ (pc[a] = "ended" /\ left[a] = 0) THEN 0
  ELSE IF pc[a] = "check" THEN FirstCall(a)
  ELSE IF pc[a] = "post" THEN FirstCall(a) + (Tries - tries[a])
  ELSE IF pc[a] = "wait" THEN FirstCall(a) + (Tries - tries[a]) + 1
  ELSE IF pc[a] = "add" THEN FirstCall(a) + Tries
  ELSE AttemptsOfRound
EarlierRounds(a) == AttemptsOfRound * (Rounds + kills - left[a])
Begun(a) == EarlierRounds(a) + ThisRound(a)
Started == {w \in Arms \X (1..Most) : w[2] <= Begun(w[1])}

(* The counters of an arm-run's loops.                                      *)
InLoops == \A a \in Arms :
  /\ left[a] \in 0..Rounds
  /\ pc[a] \notin {"top", "ended"} => left[a] > 0
  /\ pc[a] \in {"post", "wait"} => tries[a] \in 1..Tries

(* What no meter was told, and what is owed, is the price of attempts.      *)
UnseenIsCharged == unseen + Cardinality(Owed) <= MaxCost * Cardinality(Started)

LEMMA Products ==
  ASSUME NEW w \in Nat, NEW m \in Nat, NEW n \in Nat, m <= n
  PROVE  w * m \in Nat /\ w * n \in Nat /\ w * m <= w * n /\ w * (m + 1) = w * m + w
PROOF
  BY Z3

LEMMA RoundFits ==
  ASSUME NEW w \in Nat, NEW g \in Nat, NEW all \in Nat, NEW n \in Nat, n <= w, g + 1 <= all
  PROVE  w * g + n \in Nat /\ w * g + n <= w * all
PROOF
  <1> DEFINE x == w * g
             y == w * all
             z == w * (g + 1)
  <1>1. g + 1 \in Nat
    OBVIOUS
  <1>2. x \in Nat /\ z = x + w
    BY Products
  <1>3. y \in Nat /\ z <= y
    BY <1>1, Products
  <1> HIDE DEF x, y, z
  <1>4. x + n \in Nat /\ x + n <= y
    BY <1>2, <1>3
  <1> QED
    BY <1>4 DEF x, y

LEMMA LoopStep == ASSUME TypeOK, InLoops, [Next]_vars PROVE InLoops'
PROOF
  <1> USE DEF TypeOK, InLoops, Goto, Finish
  <1>1. ASSUME NEW a \in Arms, BudgetUsed(a) \/ Propose(a) \/ CheckRaises(a) PROVE InLoops'
    BY <1>1 DEF BudgetUsed, Propose, CheckRaises
  <1>2. ASSUME NEW a \in Arms, CheckPasses(a) PROVE InLoops'
    BY <1>2, TriesAssumption DEF CheckPasses
  <1>3. ASSUME NEW a \in Arms, Attempt(a) \/ Answer(a) PROVE InLoops'
    BY <1>3 DEF Attempt, Answer
  <1>4. ASSUME NEW a \in Arms, Retry(a) PROVE InLoops'
    BY <1>4, TriesAssumption DEF Retry
  <1>5. ASSUME NEW a \in Arms, CallFails(a) \/ Add(a) \/ AddAndProposeAgain(a) PROVE InLoops'
    BY <1>5 DEF CallFails, Add, AddAndProposeAgain
  <1>6. ASSUME NEW a \in Arms, Evaluate(a) PROVE InLoops'
    BY <1>6, TriesAssumption DEF Evaluate
  <1>7. CASE Restart
    BY <1>7 DEF Restart
  <1>8. CASE UNCHANGED vars
    BY <1>8 DEF vars, call
  <1> QED
    BY <1>1, <1>2, <1>3, <1>4, <1>5, <1>6, <1>7, <1>8 DEF Next, Arm, Over

(* A round has two calls at most, so an arm-run never begins more attempts  *)
(* than those of all its rounds and one round for each kill.                *)
BegunBounded == \A a \in Arms : Begun(a) \in Nat /\ Begun(a) <= Most

LEMMA BegunBound == TypeOK /\ InLoops => BegunBounded
PROOF
  <1> SUFFICES ASSUME TypeOK, InLoops, NEW a \in Arms
               PROVE  Begun(a) \in Nat /\ Begun(a) <= Most
    BY DEF BegunBounded
  <1> DEFINE w == AttemptsOfRound
             all == Rounds + kills
             gone == Rounds + kills - left[a]
  <1>1. /\ Tries \in Nat \ {0} /\ w = 2 * Tries /\ w \in Nat /\ all \in Nat /\ gone \in Nat
        /\ left[a] \in 0..Rounds /\ tries[a] \in Nat /\ gone <= all /\ Rounds \in Nat /\ kills \in Nat
    BY TriesAssumption DEF TypeOK, InLoops, AttemptsOfRound
  <1>2. FirstCall(a) \in Nat /\ FirstCall(a) <= Tries
    BY <1>1 DEF FirstCall
  <1>3. ThisRound(a) \in Nat /\ ThisRound(a) <= w
    BY <1>1, <1>2 DEF ThisRound, InLoops, TypeOK
  <1>4. w * gone \in Nat /\ w * all \in Nat /\ w * gone <= w * all
    BY <1>1, Products
  <1>5. CASE left[a] = 0
    <2>1. ThisRound(a) = 0
      BY <1>5 DEF ThisRound, InLoops
    <2>2. Begun(a) = w * gone
      BY <1>4, <2>1 DEF Begun, EarlierRounds
    <2> QED
      BY <1>1, <1>4, <2>2 DEF Most
  <1>6. CASE left[a] > 0
    <2>1. gone \in Nat /\ all \in Nat /\ gone + 1 <= all
      BY <1>1, <1>6
    <2>2. w * gone + ThisRound(a) \in Nat /\ w * gone + ThisRound(a) <= w * all
      BY <1>1, <1>3, <2>1, RoundFits
    <2> QED
      BY <2>2 DEF Begun, EarlierRounds, Most
  <1> QED
    BY <1>1, <1>5, <1>6

StartedBounded ==
  /\ IsFiniteSet(Started) /\ Cardinality(Started) \in Nat
  /\ Cardinality(Started) <= Cardinality(Arms) * Most
  /\ Most \in Nat /\ Cardinality(Arms) \in Nat

LEMMA StartedBound == TypeOK => StartedBounded
PROOF
  <1> SUFFICES ASSUME TypeOK PROVE StartedBounded
    OBVIOUS
  <1>1. Most \in Nat
    <2>1. AttemptsOfRound \in Nat /\ Rounds + kills \in Nat
      BY TriesAssumption DEF TypeOK, AttemptsOfRound
    <2> QED
      BY <2>1, Products DEF Most
  <1>2. IsFiniteSet(1..Most) /\ Cardinality(1..Most) = Most
    <2> HIDE DEF Most
    <2>1. 0 \in Int /\ Most >= 0
      BY <1>1
    <2> QED
      BY <1>1, <2>1, FS_Interval, SMTT(30)
  <1>3. IsFiniteSet(Arms) /\ Cardinality(Arms) \in Nat
    BY ArmsAssumption, FS_CardinalityType
  <1>4. IsFiniteSet(Arms \X (1..Most)) /\ Cardinality(Arms \X (1..Most)) = Cardinality(Arms) * Cardinality(1..Most)
    BY <1>2, <1>3, FS_Product
  <1>5. Started \subseteq Arms \X (1..Most)
    BY DEF Started
  <1> QED
    BY <1>1, <1>2, <1>3, <1>4, <1>5, FS_Subset, FS_CardinalityType DEF StartedBounded

LEMMA BoundsNext ==
  /\ TypeOK' /\ InLoops' => BegunBounded'
  /\ TypeOK' => StartedBounded'
PROOF
  <1>1. TypeOK' /\ InLoops' => BegunBounded'
    BY BegunBound, PTL
  <1>2. TypeOK' => StartedBounded'
    BY StartedBound, PTL
  <1> QED
    BY <1>1, <1>2

(* Attempts that were begun stay begun.                                     *)
LEMMA StartedKept ==
  ASSUME TypeOK, InLoops, TypeOK', InLoops', \A b \in Arms : Begun(b)' >= Begun(b)
  PROVE  Started \subseteq Started' /\ MaxCost * Cardinality(Started) <= MaxCost * Cardinality(Started')
PROOF
  <1>1. \A b \in Arms : Begun(b) \in Nat /\ Begun(b)' \in Nat /\ Begun(b)' <= Most'
    BY BegunBound, BoundsNext DEF BegunBounded
  <1>2. IsFiniteSet(Started') /\ Cardinality(Started') \in Nat /\ Cardinality(Started) \in Nat
    BY StartedBound, BoundsNext DEF StartedBounded
  <1> HIDE DEF Begun, Most
  <1>3. Started \subseteq Started'
    <2> SUFFICES ASSUME NEW b \in Arms, NEW n \in 1..Most, n <= Begun(b)
                 PROVE  n \in 1..Most' /\ n <= Begun(b)'
      BY DEF Started
    <2>1. Begun(b) \in Nat /\ Begun(b)' \in Nat /\ Begun(b)' <= Most' /\ Begun(b) <= Begun(b)'
      BY <1>1
    <2>2. n \in Nat /\ n >= 1 /\ Most' \in Nat
      BY BoundsNext DEF StartedBounded
    <2> QED
      BY <2>1, <2>2
  <1>4. Cardinality(Started) <= Cardinality(Started')
    BY <1>2, <1>3, FS_Subset
  <1>5. MaxCost \in Nat
    BY PriceAssumption
  <1> QED
    BY <1>2, <1>3, <1>4, <1>5, Products

LEMMA StartedMore ==
  ASSUME TypeOK, InLoops, TypeOK', InLoops', \A b \in Arms : Begun(b)' >= Begun(b),
         NEW a \in Arms, Begun(a)' >= Begun(a) + 1
  PROVE  MaxCost * Cardinality(Started) + MaxCost <= MaxCost * Cardinality(Started')
PROOF
  <1> DEFINE w == <<a, Begun(a) + 1>>
  <1>1. Begun(a) \in Nat /\ Begun(a)' \in Nat /\ Begun(a)' <= Most' /\ Most' \in Nat
    BY BegunBound, BoundsNext DEF BegunBounded, StartedBounded
  <1>2. /\ IsFiniteSet(Started) /\ Cardinality(Started) \in Nat
        /\ IsFiniteSet(Started') /\ Cardinality(Started') \in Nat
    BY StartedBound, BoundsNext DEF StartedBounded
  <1>3. w \in Started' /\ w \notin Started
    BY <1>1 DEF Started
  <1>4. Started \cup {w} \subseteq Started'
    BY <1>3, StartedKept
  <1>5. IsFiniteSet(Started \cup {w}) /\ Cardinality(Started \cup {w}) = Cardinality(Started) + 1
    BY <1>2, <1>3, FS_AddElement
  <1>6. Cardinality(Started) + 1 <= Cardinality(Started')
    BY <1>2, <1>4, <1>5, FS_Subset
  <1>7. MaxCost \in Nat
    BY PriceAssumption
  <1>8. MaxCost * (Cardinality(Started) + 1) = MaxCost * Cardinality(Started) + MaxCost
    BY <1>2, <1>7, Products
  <1>9. Cardinality(Started) + 1 \in Nat
    BY <1>2
  <1>10. MaxCost * (Cardinality(Started) + 1) <= MaxCost * Cardinality(Started')
    BY <1>2, <1>6, <1>7, <1>9, Products
  <1> QED
    BY <1>8, <1>10

(* No step takes an attempt back, and each attempt is one more.             *)
LEMMA BegunStep ==
  ASSUME TypeOK, InLoops, [Next]_vars
  PROVE  /\ \A b \in Arms : Begun(b)' >= Begun(b)
         /\ \A a \in Arms : Attempt(a) => Begun(a)' >= Begun(a) + 1
PROOF
  <1> DEFINE W == AttemptsOfRound
  <1>1. Tries \in Nat \ {0} /\ W = 2 * Tries /\ W \in Nat /\ Rounds \in Nat /\ kills \in Nat
    BY TriesAssumption DEF TypeOK, AttemptsOfRound
  <1>2. \A b \in Arms : /\ EarlierRounds(b) \in Nat /\ FirstCall(b) \in Nat /\ FirstCall(b) <= Tries
                        /\ ThisRound(b) \in Nat /\ ThisRound(b) <= W
    <2> SUFFICES ASSUME NEW b \in Arms
                 PROVE  /\ EarlierRounds(b) \in Nat /\ FirstCall(b) \in Nat /\ FirstCall(b) <= Tries
                        /\ ThisRound(b) \in Nat /\ ThisRound(b) <= W
      OBVIOUS
    <2>1. Rounds + kills - left[b] \in Nat /\ tries[b] \in Nat /\ left[b] \in 0..Rounds
      BY <1>1 DEF TypeOK, InLoops
    <2>2. EarlierRounds(b) \in Nat
      BY <1>1, <2>1, Products DEF EarlierRounds
    <2>3. FirstCall(b) \in Nat /\ FirstCall(b) <= Tries
      BY <1>1 DEF FirstCall
    <2>4. ThisRound(b) \in Nat /\ ThisRound(b) <= W
      BY <1>1, <2>1, <2>3 DEF ThisRound, InLoops
    <2> QED
      BY <2>2, <2>3, <2>4
  <1>3. ASSUME NEW a \in Arms, Arm(a), UNCHANGED <<left, kills>>,
               ThisRound(a)' \in Nat, ThisRound(a)' >= ThisRound(a),
               \A b \in Arms \ {a} : ThisRound(b)' = ThisRound(b)
        PROVE  /\ \A b \in Arms : Begun(b)' >= Begun(b)
               /\ ThisRound(a)' >= ThisRound(a) + 1 => Begun(a)' >= Begun(a) + 1
    <2>1. \A b \in Arms : EarlierRounds(b)' = EarlierRounds(b)
      BY <1>3 DEF EarlierRounds
    <2> HIDE DEF EarlierRounds, ThisRound
    <2> QED
      BY <1>2, <1>3, <2>1 DEF Begun
  <1>4. ASSUME NEW a \in Arms, \/ BudgetUsed(a) \/ Propose(a) \/ CheckPasses(a) \/ CheckRaises(a)
                               \/ Answer(a) \/ Retry(a) \/ CallFails(a) \/ Add(a) \/ AddAndProposeAgain(a)
        PROVE  \A b \in Arms : Begun(b)' >= Begun(b)
    <2>1. UNCHANGED <<left, kills>> /\ Arm(a)
      BY <1>4 DEF BudgetUsed, Propose, CheckPasses, CheckRaises, Answer, Retry, CallFails, Add,
                  AddAndProposeAgain, Arm
    <2>2. \A b \in Arms \ {a} : pc'[b] = pc[b] /\ again'[b] = again[b] /\ tries'[b] = tries[b]
      BY <1>4 DEF BudgetUsed, Propose, CheckPasses, CheckRaises, Answer, Retry, CallFails, Add,
                  AddAndProposeAgain, Finish, Goto, TypeOK
    <2>3. \A b \in Arms \ {a} : ThisRound(b)' = ThisRound(b)
      BY <2>1, <2>2 DEF ThisRound, FirstCall
    <2>4. ThisRound(a)' \in Nat /\ ThisRound(a)' >= ThisRound(a)
      <3> USE <1>1, <1>2 DEF TypeOK, InLoops, ThisRound, FirstCall, Goto, Finish
      <3>1. CASE BudgetUsed(a) \/ CheckRaises(a)
        BY <3>1 DEF BudgetUsed, CheckRaises
      <3>2. CASE Propose(a)
        BY <3>2 DEF Propose
      <3>3. CASE CheckPasses(a)
        BY <3>3 DEF CheckPasses
      <3>4. CASE Answer(a)
        BY <3>4 DEF Answer
      <3>5. CASE Retry(a)
        BY <3>5 DEF Retry
      <3>6. CASE CallFails(a)
        BY <3>6 DEF CallFails
      <3>7. CASE Add(a)
        BY <3>7 DEF Add
      <3>8. CASE AddAndProposeAgain(a)
        BY <3>8 DEF AddAndProposeAgain
      <3> QED
        BY <1>4, <3>1, <3>2, <3>3, <3>4, <3>5, <3>6, <3>7, <3>8
    <2> QED
      BY <1>3, <2>1, <2>3, <2>4
  <1>5. ASSUME NEW a \in Arms, Attempt(a)
        PROVE  (\A b \in Arms : Begun(b)' >= Begun(b)) /\ Begun(a)' >= Begun(a) + 1
    <2>1. UNCHANGED <<left, kills, again, tries>> /\ pc[a] = "post" /\ pc' = [pc EXCEPT ![a] = "wait"] /\ Arm(a)
      BY <1>5 DEF Attempt, Goto, Arm
    <2>2. /\ \A b \in Arms \ {a} : ThisRound(b)' = ThisRound(b)
          /\ ThisRound(a)' = ThisRound(a) + 1
      BY <1>1, <1>2, <2>1 DEF ThisRound, FirstCall, TypeOK, InLoops
    <2> QED
      BY <1>2, <1>3, <2>1, <2>2
  <1>6. ASSUME NEW a \in Arms, Evaluate(a) PROVE \A b \in Arms : Begun(b)' >= Begun(b)
    <2>1. /\ pc[a] = "eval" /\ pc'[a] = "top" /\ left'[a] = left[a] - 1 /\ left[a] \in 1..Rounds
          /\ UNCHANGED <<again, tries, kills>>
          /\ \A b \in Arms \ {a} : pc'[b] = pc[b] /\ left'[b] = left[b]
      BY <1>1, <1>6 DEF Evaluate, Goto, TypeOK, InLoops
    <2>2. \A b \in Arms \ {a} : Begun(b)' = Begun(b)
      BY <2>1 DEF Begun, EarlierRounds, ThisRound, FirstCall
    <2>3. ThisRound(a) = W /\ ThisRound(a)' = 0
      BY <2>1 DEF ThisRound
    <2>4. EarlierRounds(a)' = EarlierRounds(a) + W
      <3>1. PICK g \in Nat : g = Rounds + kills - left[a]
        BY <1>1, <2>1
      <3>2. Rounds + kills' - left'[a] = g + 1
        BY <1>1, <2>1, <3>1
      <3>3. W * (g + 1) = W * g + W
        BY <1>1, Products
      <3> QED
        BY <3>1, <3>2, <3>3 DEF EarlierRounds
    <2> HIDE DEF EarlierRounds, ThisRound
    <2>5. Begun(a)' = EarlierRounds(a) + W /\ Begun(a) = EarlierRounds(a) + W
      BY <1>1, <1>2, <2>3, <2>4 DEF Begun
    <2>6. \A b \in Arms : Begun(b) \in Nat
      BY <1>2 DEF Begun
    <2> QED
      BY <2>2, <2>5, <2>6
  <1>7. ASSUME Restart PROVE \A b \in Arms : Begun(b)' >= Begun(b)
    <2> SUFFICES ASSUME NEW b \in Arms PROVE Begun(b)' >= Begun(b)
      OBVIOUS
    <2>1. pc'[b] = "top" /\ left'[b] = left[b] /\ kills' = kills + 1 /\ left[b] \in 0..Rounds
      BY <1>7 DEF Restart, InLoops
    <2>2. ThisRound(b)' = 0
      BY <2>1 DEF ThisRound
    <2>3. EarlierRounds(b)' = EarlierRounds(b) + W
      <3>1. PICK g \in Nat : g = Rounds + kills - left[b]
        BY <1>1, <2>1
      <3>2. Rounds + kills' - left'[b] = g + 1
        BY <1>1, <2>1, <3>1
      <3>3. W * (g + 1) = W * g + W
        BY <1>1, Products
      <3> QED
        BY <3>1, <3>2, <3>3 DEF EarlierRounds
    <2> HIDE DEF EarlierRounds, ThisRound
    <2> QED
      BY <1>1, <1>2, <2>2, <2>3 DEF Begun
  <1>8. ASSUME UNCHANGED vars PROVE \A b \in Arms : Begun(b)' >= Begun(b)
    <2>1. \A b \in Arms : Begun(b)' = Begun(b) /\ Begun(b) \in Nat
      BY <1>2, <1>8 DEF vars, call, Begun, EarlierRounds, ThisRound, FirstCall
    <2> QED
      BY <2>1
  <1>9. \A b \in Arms : Begun(b)' >= Begun(b)
    <2> HIDE DEF Begun
    <2> QED
      BY <1>4, <1>5, <1>6, <1>7, <1>8 DEF Next, Arm, Over
  <1> QED
    BY <1>5, <1>9

-----------------------------------------------------------------------------
(* A step of an arm-run that charges nothing and takes no charge off.       *)
SameOwed(a) ==
  /\ UNCHANGED <<spent, price, kills, bill>>
  /\ \A b \in Arms : pc'[b] \in {"wait", "add"} <=> pc[b] \in {"wait", "add"}

LEMMA QuietSteps ==
  ASSUME TypeOK, NEW a \in Arms,
         BudgetUsed(a) \/ Propose(a) \/ CheckPasses(a) \/ CheckRaises(a) \/ Answer(a) \/ Evaluate(a)
  PROVE  SameOwed(a)
PROOF
  <1>1. UNCHANGED <<spent, price, kills, bill>>
    BY DEF BudgetUsed, Propose, CheckPasses, CheckRaises, Answer, Evaluate
  <1>2. \A b \in Arms : pc'[b] \in {"wait", "add"} <=> pc[b] \in {"wait", "add"}
    BY DEF BudgetUsed, Propose, CheckPasses, CheckRaises, Answer, Evaluate, Finish, Goto, TypeOK
  <1> QED
    BY <1>1, <1>2 DEF SameOwed

(* What an arm-run owed is told to the meter, in part, or never will be.    *)
LEMMA OwedEnds ==
  ASSUME IInv, NEW a \in Arms, Retry(a) \/ CallFails(a) \/ Add(a) \/ AddAndProposeAgain(a)
  PROVE  /\ price[a] \in Nat /\ Cardinality(Owed') = Cardinality(Owed) - price[a]
         /\ spent' + unseen' = spent + unseen + price[a] /\ unseen' \in Nat /\ unseen' <= unseen + price[a]
         /\ spent' \in Nat /\ UNCHANGED <<billed, kills>>
PROOF
  <1>1. PICK s \in {"post", "eval", "check"} : pc' = [pc EXCEPT ![a] = s]
    BY DEF Retry, CallFails, Add, AddAndProposeAgain, Goto
  <1>2. pc[a] \in {"wait", "add"} /\ price' = [price EXCEPT ![a] = 0] /\ UNCHANGED <<billed, kills>>
    BY DEF Retry, CallFails, Add, AddAndProposeAgain, Told, Unmetered
  <1>3. Cardinality(Owed') = Cardinality(Owed) - price[a]
    BY <1>1, <1>2, NoLongerOwed
  <1>4. price[a] \in Nat /\ spent \in Nat /\ unseen \in Nat
    BY DEF IInv, TypeOK
  <1>5. PICK c \in 0..price[a] : spent' = spent + c /\ unseen' = unseen + (price[a] - c)
    <2>1. CASE Retry(a) \/ CallFails(a)
      BY <1>4, <2>1 DEF Retry, CallFails, Unmetered
    <2>2. CASE Add(a) \/ AddAndProposeAgain(a)
      BY <2>2 DEF Add, AddAndProposeAgain, Told, Unmetered
    <2> QED
      BY <2>1, <2>2
  <1> QED
    BY <1>2, <1>3, <1>4, <1>5

LEMMA SameDue ==
  ASSUME BilledIsDue, Owed' = Owed, UNCHANGED <<spent, kills, bill>> PROVE BilledIsDue'
PROOF
  BY DEF BilledIsDue, Ceiling, bill

LEMMA QuietOwed == ASSUME NEW a \in Arms, SameOwed(a) PROVE Owed' = Owed
PROOF
  BY DEF SameOwed, Owed

LEMMA BilledStep == ASSUME IInv, BilledIsDue, [Next]_vars PROVE BilledIsDue'
PROOF
  <1>0. /\ spent \in Nat /\ billed \in Nat /\ unseen \in Nat /\ kills \in Nat /\ Ceiling \in Nat
        /\ kills * Ceiling \in Nat /\ Cardinality(Owed) \in Nat
    BY DueBelowCeiling, OwedBound DEF IInv, TypeOK
  <1>1. ASSUME NEW a \in Arms, BudgetUsed(a) \/ Propose(a) \/ CheckPasses(a) \/ CheckRaises(a)
                               \/ Answer(a) \/ Evaluate(a)
        PROVE  BilledIsDue'
    <2>1. SameOwed(a)
      BY <1>1, QuietSteps DEF IInv
    <2> QED
      BY <2>1, QuietOwed, SameDue DEF SameOwed
  <1>2. ASSUME NEW a \in Arms, Attempt(a) PROVE BilledIsDue'
    <2>1. PICK c \in Costs : price' = [price EXCEPT ![a] = c] /\ billed' = billed + c
      BY <1>2 DEF Attempt
    <2>2. pc[a] = "post" /\ pc' = [pc EXCEPT ![a] = "wait"] /\ UNCHANGED <<spent, kills, unseen>>
      BY <1>2 DEF Attempt, Goto
    <2>3. Cardinality(Owed') = Cardinality(Owed) + c
      BY <2>1, <2>2, AttemptOwes
    <2>4. c \in Nat
      BY PriceAssumption DEF Costs
    <2> QED
      BY <1>0, <2>1, <2>2, <2>3, <2>4 DEF BilledIsDue, Ceiling
  <1>3. ASSUME NEW a \in Arms, Retry(a) \/ CallFails(a) \/ Add(a) \/ AddAndProposeAgain(a)
        PROVE  BilledIsDue'
    BY <1>0, <1>3, OwedEnds DEF BilledIsDue, Ceiling
  <1>4. CASE Restart
    <2>1. spent' = 0 /\ kills' = kills + 1 /\ UNCHANGED <<billed, unseen>> /\ \A b \in Arms : pc'[b] = "top"
      BY <1>4 DEF Restart, bill
    <2>2. Owed' = {} /\ Cardinality(Owed') = 0
      BY <2>1, FS_EmptySet DEF Owed
    <2>3. (kills + 1) * Ceiling = kills * Ceiling + Ceiling
      BY <1>0, Z3
    <2>4. spent + Cardinality(Owed) <= Ceiling
      BY DueBelowCeiling
    <2>5. billed <= kills * Ceiling + unseen + spent + Cardinality(Owed)
      BY DEF BilledIsDue
    <2>6. (kills + 1) * Ceiling \in Nat
      BY <1>0, <2>3
    <2> HIDE DEF Ceiling
    <2>7. billed <= (kills + 1) * Ceiling + unseen + 0 + 0
      BY <1>0, <2>3, <2>4, <2>5
    <2> QED
      BY <2>1, <2>2, <2>7 DEF BilledIsDue, Ceiling
  <1>5. CASE UNCHANGED vars
    <2>1. Owed' = Owed
      BY <1>5 DEF vars, call, Owed
    <2> QED
      BY <1>5, <2>1, SameDue DEF vars
  <1> QED
    BY <1>1, <1>2, <1>3, <1>4, <1>5 DEF Next, Arm, Over

(* What is charged is charged for an attempt, at its price or less.         *)
LEMMA UnseenStep ==
  ASSUME IInv, InLoops, UnseenIsCharged, [Next]_vars, TypeOK', InLoops' PROVE UnseenIsCharged'
PROOF
  <1> DEFINE room == MaxCost * Cardinality(Started)
  <1>0. unseen \in Nat /\ Cardinality(Owed) \in Nat /\ room \in Nat /\ room' \in Nat /\ MaxCost \in Nat
    <2>1. Cardinality(Started) \in Nat /\ Cardinality(Started') \in Nat /\ MaxCost \in Nat
      BY StartedBound, BoundsNext, PriceAssumption DEF IInv, StartedBounded
    <2> QED
      BY <2>1, Products, OwedBound DEF IInv, TypeOK
  <1>1. \A b \in Arms : Begun(b)' >= Begun(b)
    BY BegunStep DEF IInv
  <1>2. room <= room'
    BY <1>1, StartedKept DEF IInv
  <1>3. ASSUME NEW a \in Arms, Attempt(a) PROVE room + MaxCost <= room'
    BY <1>1, <1>3, BegunStep, StartedMore DEF IInv
  <1>4. unseen + Cardinality(Owed) <= room
    BY DEF UnseenIsCharged
  <1>5. SUFFICES unseen' + Cardinality(Owed') <= room'
    BY DEF UnseenIsCharged
  <1> HIDE DEF room
  <1>6. ASSUME Owed' = Owed, unseen' = unseen PROVE unseen' + Cardinality(Owed') <= room'
    BY <1>0, <1>2, <1>4, <1>6
  <1>7. ASSUME NEW a \in Arms, BudgetUsed(a) \/ Propose(a) \/ CheckPasses(a) \/ CheckRaises(a)
                               \/ Answer(a) \/ Evaluate(a)
        PROVE  unseen' + Cardinality(Owed') <= room'
    <2>1. SameOwed(a)
      BY <1>7, QuietSteps DEF IInv
    <2> QED
      BY <1>6, <2>1, QuietOwed DEF SameOwed, bill
  <1>8. ASSUME NEW a \in Arms, Attempt(a) PROVE unseen' + Cardinality(Owed') <= room'
    <2>1. PICK c \in Costs : price' = [price EXCEPT ![a] = c]
      BY <1>8 DEF Attempt
    <2>2. pc[a] = "post" /\ pc' = [pc EXCEPT ![a] = "wait"] /\ unseen' = unseen
      BY <1>8 DEF Attempt, Goto
    <2>3. Cardinality(Owed') = Cardinality(Owed) + c
      BY <2>1, <2>2, AttemptOwes
    <2>4. c \in Nat /\ c <= MaxCost
      BY <1>0 DEF Costs
    <2> QED
      BY <1>0, <1>3, <1>4, <1>8, <2>2, <2>3, <2>4
  <1>9. ASSUME NEW a \in Arms, Retry(a) \/ CallFails(a) \/ Add(a) \/ AddAndProposeAgain(a)
        PROVE  unseen' + Cardinality(Owed') <= room'
    BY <1>0, <1>2, <1>4, <1>9, OwedEnds
  <1>10. CASE Restart
    <2>1. unseen' = unseen /\ \A b \in Arms : pc'[b] = "top"
      BY <1>10 DEF Restart, bill
    <2>2. Owed' = {} /\ Cardinality(Owed') = 0
      BY <2>1, FS_EmptySet DEF Owed
    <2> QED
      BY <1>0, <1>2, <1>4, <2>1, <2>2
  <1>11. CASE UNCHANGED vars
    <2>1. Owed' = Owed /\ unseen' = unseen
      BY <1>11 DEF vars, call, bill, Owed
    <2> QED
      BY <1>6, <2>1
  <1> QED
    BY <1>7, <1>8, <1>9, <1>10, <1>11 DEF Next, Arm, Over

(* What an experiment is charged is what its meters were told, at most one  *)
(* ceiling each, and the price of attempts that were given up, unreadable,  *)
(* unreported or lost to a kill; of these no more is left unseen than the   *)
(* dearest price of every attempt of every round.                           *)
BillInv == IInv /\ InLoops /\ BilledIsDue /\ UnseenIsCharged

LEMMA BillImplies == BillInv => BilledBounded
PROOF
  <1> SUFFICES ASSUME BillInv PROVE BilledBounded
    OBVIOUS
  <1>1. billed <= (kills + 1) * Ceiling + unseen
    <2>1. /\ spent \in Nat /\ billed \in Nat /\ unseen \in Nat /\ kills \in Nat /\ Ceiling \in Nat
          /\ kills * Ceiling \in Nat /\ Cardinality(Owed) \in Nat
          /\ spent + Cardinality(Owed) <= Ceiling
      BY DueBelowCeiling, OwedBound DEF BillInv, IInv, TypeOK
    <2>2. (kills + 1) * Ceiling = kills * Ceiling + Ceiling
      BY <2>1, Z3
    <2>3. billed <= kills * Ceiling + unseen + spent + Cardinality(Owed)
      BY DEF BillInv, BilledIsDue
    <2>4. billed <= kills * Ceiling + Ceiling + unseen
      BY <2>1, <2>3
    <2> QED
      BY <2>2, <2>4
  <1>2. unseen <= UnseenCeiling
    <2> DEFINE n == Cardinality(Started)
               m == Cardinality(Arms) * Most
    <2>1. n \in Nat /\ n <= m /\ Most \in Nat /\ Cardinality(Arms) \in Nat /\ MaxCost \in Nat
      BY StartedBound, PriceAssumption DEF BillInv, IInv, StartedBounded
    <2>2. m \in Nat
      BY <2>1, Products
    <2>3. MaxCost * n \in Nat /\ MaxCost * m \in Nat /\ MaxCost * n <= MaxCost * m
      BY <2>1, <2>2, Products
    <2>4. unseen \in Nat /\ Cardinality(Owed) \in Nat /\ unseen + Cardinality(Owed) <= MaxCost * n
      BY OwedBound DEF BillInv, IInv, TypeOK, UnseenIsCharged
    <2>5. MaxCost * m = UnseenCeiling
      BY DEF UnseenCeiling, Most
    <2> HIDE DEF n, m
    <2> QED
      BY <2>3, <2>4, <2>5
  <1> QED
    BY <1>1, <1>2 DEF BilledBounded

LEMMA BillInit == Init => BillInv
PROOF
  <1> SUFFICES ASSUME Init PROVE BillInv
    OBVIOUS
  <1>1. IInv
    BY InitInvariant
  <1>2. InLoops
    BY TriesAssumption DEF Init, InLoops
  <1>3. Ceiling \in Nat /\ Cardinality(Owed) \in Nat
    BY <1>1, DueBelowCeiling, OwedBound
  <1>4. BilledIsDue
    BY <1>3 DEF Init, BilledIsDue
  <1>5. Owed = {} /\ Cardinality(Owed) = 0
    BY FS_EmptySet DEF Init, Owed
  <1>6. MaxCost * Cardinality(Started) \in Nat
    BY <1>1, StartedBound, Products, PriceAssumption DEF IInv, StartedBounded
  <1>7. UnseenIsCharged
    BY <1>5, <1>6 DEF Init, UnseenIsCharged
  <1> QED
    BY <1>1, <1>2, <1>4, <1>7 DEF BillInv

(* llm.py CostMeter and GeminiREST: a bound on all that an experiment is    *)
(* charged, over all starts of the driver, with what failed attempts, an    *)
(* unreported usage and a kill hide from the meter counted in.              *)
THEOREM BillIsBounded == Spec => []BilledBounded
PROOF
  <1>1. BillInv /\ [Next]_vars => BillInv'
    <2> SUFFICES ASSUME BillInv, [Next]_vars PROVE BillInv'
      OBVIOUS
    <2>1. IInv'
      BY TypeStep, CeilingStep, CapSeenStep DEF BillInv, IInv
    <2>2. InLoops'
      BY LoopStep DEF BillInv, IInv
    <2>3. BilledIsDue'
      BY BilledStep DEF BillInv
    <2>4. UnseenIsCharged'
      BY <2>1, <2>2, UnseenStep DEF BillInv, IInv
    <2> QED
      BY <2>1, <2>2, <2>3, <2>4 DEF BillInv
  <1> QED
    BY BillInit, BillImplies, <1>1, PTL DEF Spec
=============================================================================
