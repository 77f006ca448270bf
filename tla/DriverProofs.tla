---------------------------- MODULE DriverProofs -----------------------------
(***************************************************************************)
(* Proofs about the scripts of Driver.  The final round: the selection is  *)
(* a function of the rows of the candidates on the selection seeds; once   *)
(* it is made only rows of held-out seeds come in, and once every          *)
(* candidate has a success on every selection seed no row changes it.  The *)
(* second experiment: what its arm-runs are shown as the incumbent, and    *)
(* what revalidate.py runs again and reports.  The first experiment: no    *)
(* step loses a recorded success; the types of its rows; the model that    *)
(* only sees placements is shown nothing of the routing; and an arm-run's  *)
(* report heals: it becomes that of a search that nothing disturbed.       *)
(***************************************************************************)
EXTENDS Driver, FiniteSetTheorems, SequenceTheorems, TLAPS

(* The results of failed and dirty evaluations are no scores.               *)
LEMMA MarksApart ==
  /\ Failed \notin Scores /\ NoRow \notin Results /\ Failed # NoRow
  /\ None \notin Configs /\ Default # None /\ Failed \in Results
PROOF
  BY ScoresAssumption, ConfigsAssumption DEF Failed, Dirty, NoRow, None, Results

(* The jobs of a phase ask for rows of the database.                        *)
LEMMA JobsTyped ==
  ASSUME TypeOK, Pool, NEW j \in Jobs, pc = "validate" => pick \in Configs
  PROVE  /\ j \in Job /\ Identity(j) \in Configs \X Seeds
         /\ pc = "select" => /\ j = <<"select", Identity(j)[1], Identity(j)[2]>>
                             /\ Identity(j) \in Candidates \X SelectSeeds
         /\ pc = "validate" => Identity(j)[2] \in ValidateSeeds
PROOF
  <1>1. CASE pc = "select"
    BY <1>1, ConfigsAssumption DEF Jobs, Job, Identity, TypeOK, Pool, Candidates, Seeds
  <1>2. CASE pc = "validate"
    BY <1>2, ConfigsAssumption DEF Jobs, Job, Identity, TypeOK, Seeds
  <1> QED
    BY <1>1, <1>2 DEF Jobs

(* A selection names the default or a finalist.                             *)
LEMMA SelectionTyped == ASSUME NEW f PROVE Selection(Finalists, f) \in Configs
PROOF
  BY ConfigsAssumption DEF Selection, Winners, Best, Finalists, Pooled

(* The seeds of the two phases are apart.                                   *)
LEMMA SeedsApart == TypeOK => SelectSeeds \cap ValidateSeeds = {}
PROOF
  BY SettingsAssumption DEF TypeOK, SelectSeeds, ValidateSeeds

(* The finalists, and what is selected from them, follow from the search's  *)
(* rows, the arguments and the routed scores.                               *)
LEMMA Frame ==
  ASSUME UNCHANGED past
  PROVE  /\ SelectSeeds' = SelectSeeds /\ ValidateSeeds' = ValidateSeeds
         /\ Finalists' = Finalists /\ Candidates' = Candidates
         /\ View' = View => Selection(Finalists, View)' = Selection(Finalists, View)
PROOF
  <1>1. search' = search /\ args' = args
    BY DEF past
  <1>2. \A c : Means(c)' = Means(c)
    BY <1>1 DEF Means
  <1>3. \A c, d : Ahead(c, d)' <=> Ahead(c, d)
    BY <1>2 DEF Ahead
  <1>4. Pooled' = Pooled
    BY <1>2 DEF Pooled
  <1>5. Finalists' = Finalists
    <2>1. \A c : {d \in Pooled : Ahead(d, c)}' = {d \in Pooled : Ahead(d, c)}
      BY <1>3, <1>4
    <2> QED
      BY <1>1, <1>4, <2>1 DEF Finalists
  <1>6. ASSUME View' = View PROVE Selection(Finalists, View)' = Selection(Finalists, View)
    <2>1. \A c, d : Better(View, c, d)' <=> Better(View, c, d)
      BY <1>3, <1>6 DEF Better
    <2>2. \A c : Beats(View, c)' <=> Beats(View, c)
      BY <1>1, <1>6 DEF Beats
    <2>3. Best(Finalists, View)' = Best(Finalists, View)
      BY <1>5, <1>6, <2>1 DEF Best
    <2>4. Winners(Finalists, View)' = Winners(Finalists, View)
      BY <2>2, <2>3 DEF Winners
    <2> QED
      BY <2>4 DEF Selection
  <1> QED
    BY <1>1, <1>5, <1>6 DEF SelectSeeds, ValidateSeeds, Candidates

(* A selected pick is a config.                                             *)
LEMMA PickTyped == IInv /\ pc \in {"validate", "ended"} => pick \in Configs
PROOF
  BY SelectionTyped DEF IInv, PickStands

(* What is drawn for a job: a replay is the row, a run of the selection has *)
(* no success to replay.                                                    *)
LEMMA FinishAnswers ==
  ASSUME IInv, Finish
  PROVE  \E j \in Jobs \ DOMAIN out, x \in Results, hit \in BOOLEAN :
           /\ Answer(j, x, hit)
           /\ pc = "select" /\ Succeeded(Identity(j)) => x = known[Identity(j)]
PROOF
  <1>1. PICK j \in Jobs \ DOMAIN out : Replay(j) \/ Run(j)
    BY DEF Finish
  <1>2. pc = "validate" => pick \in Configs
    BY PickTyped
  <1>3. Identity(j) \in Configs \X Seeds
    BY <1>2, JobsTyped DEF IInv
  <1>4. CASE Replay(j)
    <2>1. known[Identity(j)] \in Results
      BY <1>3, <1>4 DEF Replay, Succeeded, IInv, TypeOK
    <2> QED
      BY <1>4, <2>1 DEF Replay
  <1>5. CASE Run(j)
    <2>1. PICK x \in Results : Answer(j, x, FALSE)
      BY <1>5 DEF Run
    <2>2. pc = "select" => ~TwinRan(j)
      <3>1. SUFFICES ASSUME pc = "select", NEW i \in DOMAIN out, Identity(i) = Identity(j) PROVE FALSE
        BY DEF TwinRan
      <3>2. i \in Jobs
        BY <3>1 DEF IInv, AnswersRecorded
      <3>3. i = j
        BY <1>2, <3>1, <3>2, JobsTyped DEF IInv
      <3> QED
        BY <3>3
    <2> QED
      BY <1>5, <2>1, <2>2 DEF Run
  <1> QED
    BY <1>1, <1>4, <1>5

(* An answer keeps the types.                                               *)
LEMMA AnswerTyped ==
  ASSUME IInv, NEW j \in Jobs \ DOMAIN out, NEW x \in Results, NEW hit \in BOOLEAN, Answer(j, x, hit)
  PROVE  TypeOK'
PROOF
  <1>1. pc = "validate" => pick \in Configs
    BY PickTyped
  <1>2. j \in Job
    BY <1>1, JobsTyped DEF IInv
  <1>3. /\ DOMAIN out' \subseteq Job
        /\ \A i \in DOMAIN out' : out'[i] \in [score : Results, hit : BOOLEAN]
    BY <1>2 DEF IInv, TypeOK, Answer, Job, Seeds, SelectSeeds, ValidateSeeds, past
  <1>4. known' \in [Configs \X Seeds -> Results \cup {NoRow}]
    BY DEF IInv, TypeOK, Answer
  <1> QED
    BY <1>3, <1>4 DEF IInv, TypeOK, Answer, past, Job, Seeds, SelectSeeds, ValidateSeeds

(* An answer of the selection is recorded, and changes no row of a settled  *)
(* selection.                                                               *)
LEMMA SelectAnswer ==
  ASSUME IInv, pc = "select",
         NEW j \in Jobs \ DOMAIN out, NEW x \in Results, NEW hit \in BOOLEAN, Answer(j, x, hit),
         Succeeded(Identity(j)) => x = known[Identity(j)]
  PROVE  AnswersRecorded' /\ SettledHolds'
PROOF
  <1>1. /\ Identity(j) \in Candidates \X SelectSeeds /\ Identity(j) \in Configs \X Seeds
        /\ \A i \in Jobs : i = <<"select", Identity(i)[1], Identity(i)[2]>>
    BY JobsTyped DEF IInv
  <1>2. /\ Candidates' = Candidates /\ SelectSeeds' = SelectSeeds /\ Jobs' = Jobs /\ pc' = "select"
    BY Frame DEF Answer, Jobs
  <1>3. known' \in [Configs \X Seeds -> Results \cup {NoRow}] /\ known \in [Configs \X Seeds -> Results \cup {NoRow}]
    BY AnswerTyped DEF IInv, TypeOK, Seeds, Answer
  <1>4. \A k \in Configs \X Seeds : k # Identity(j) => known'[k] = known[k]
    BY <1>3 DEF Answer
  <1>5. x = (IF Succeeded(Identity(j))' THEN known'[Identity(j)] ELSE Failed)
    BY <1>1, <1>3, MarksApart DEF Answer, Succeeded
  <1>6. \A k \in Configs \X SelectSeeds : k \in Configs \X Seeds
    BY DEF Seeds
  <1>7. AnswersRecorded'
    <2>1. ASSUME NEW i \in DOMAIN out'
          PROVE  i \in Jobs /\ out'[i].score = (IF Succeeded(Identity(i))' THEN known'[Identity(i)] ELSE Failed)
      <3>1. CASE i = j
        BY <1>5, <3>1 DEF Answer
      <3>2. CASE i # j
        <4>1. i \in DOMAIN out /\ out'[i] = out[i]
          BY <3>2 DEF Answer
        <4>2. i \in Jobs /\ out[i].score = (IF Succeeded(Identity(i)) THEN known[Identity(i)] ELSE Failed)
          BY <4>1 DEF IInv, AnswersRecorded
        <4>3. Identity(i) # Identity(j) /\ Identity(i) \in Configs \X Seeds
          BY <1>1, <3>2, <4>2, JobsTyped DEF IInv
        <4>4. known'[Identity(i)] = known[Identity(i)]
          BY <1>4, <4>3
        <4> QED
          BY <4>1, <4>2, <4>4 DEF Succeeded
      <3> QED
        BY <3>1, <3>2
    <2>2. ASSUME NEW k \in Configs \X SelectSeeds, k[1] \notin Candidates PROVE known'[k] = NoRow
      <3>1. k # Identity(j)
        BY <1>1, <2>2
      <3> QED
        BY <1>4, <1>6, <2>2, <3>1 DEF IInv, AnswersRecorded
    <2> QED
      BY <1>2, <2>1, <2>2 DEF AnswersRecorded
  <1>8. SettledHolds'
    <2>1. SUFFICES ASSUME settled # None PROVE SettledHolds'
      BY DEF SettledHolds, Answer
    <2>2. Succeeded(Identity(j))
      BY <1>1, <2>1 DEF IInv, SettledHolds
    <2>3. known' = known
      BY <2>2 DEF Answer
    <2>4. View' = View
      BY <1>2, <2>3 DEF View, Succeeded
    <2> QED
      BY <1>2, <2>3, <2>4, Frame DEF IInv, SettledHolds, Answer, Succeeded
  <1> QED
    BY <1>7, <1>8

(* An answer on a held-out seed leaves the rows of the selection alone.     *)
LEMMA ValidateAnswer ==
  ASSUME IInv, pc = "validate",
         NEW j \in Jobs \ DOMAIN out, NEW x \in Results, NEW hit \in BOOLEAN, Answer(j, x, hit)
  PROVE  AnswersRecorded' /\ PickStands' /\ SettledHolds'
PROOF
  <1>1. Identity(j)[2] \notin SelectSeeds
    BY PickTyped, JobsTyped, SeedsApart DEF IInv
  <1>2. \A c \in Configs, s \in SelectSeeds : known'[<<c, s>>] = known[<<c, s>>]
    BY <1>1 DEF Answer, IInv, TypeOK, Seeds, Identity
  <1>3. /\ SelectSeeds' = SelectSeeds /\ Candidates' = Candidates /\ Finalists' = Finalists
        /\ pc' = "validate" /\ pick' = pick /\ settled' = settled
    BY Frame DEF Answer
  <1>4. View' = View
    BY <1>2, <1>3 DEF View, Succeeded
  <1>5. Selection(Finalists, View)' = Selection(Finalists, View)
    BY <1>4, Frame DEF Answer
  <1>6. Candidates \subseteq Configs
    BY ConfigsAssumption DEF Candidates, Finalists, Pooled
  <1>7. AnswersRecorded'
    BY <1>2, <1>3 DEF IInv, AnswersRecorded
  <1>8. SettledHolds'
    BY <1>2, <1>3, <1>5, <1>6 DEF IInv, SettledHolds, Succeeded
  <1> QED
    BY <1>3, <1>5, <1>7, <1>8 DEF IInv, PickStands

(* When all answers are there, what was routed is what the rows say.        *)
LEMMA RoutedIsView ==
  ASSUME IInv, pc = "select", Jobs \subseteq DOMAIN out PROVE Routed = View
PROOF
  <1>1. ASSUME NEW c \in Configs, NEW s \in SelectSeeds PROVE Routed[c][s] = View[c][s]
    <2>1. CASE c \in Candidates
      <3>1. <<"select", c, s>> \in Jobs
        BY <2>1 DEF Jobs, IInv, Pool, Candidates
      <3> QED
        BY <1>1, <3>1 DEF IInv, AnswersRecorded, Identity, Routed, View
    <2>2. CASE c \notin Candidates
      <3>1. <<"select", c, s>> \notin DOMAIN out
        BY <2>2 DEF Jobs, IInv, Pool, Candidates, AnswersRecorded
      <3>2. known[<<c, s>>] = NoRow
        BY <1>1, <2>2 DEF IInv, AnswersRecorded
      <3> QED
        BY <1>1, <3>1, <3>2 DEF Routed, View, Succeeded
    <2> QED
      BY <2>1, <2>2
  <1> QED
    BY <1>1 DEF Routed, View

(* The initial state satisfies the invariant.                               *)
LEMMA InitInvariant == Init => IInv
PROOF
  <1> SUFFICES ASSUME Init PROVE IInv
    OBVIOUS
  <1>1. TypeOK
    BY ScoresAssumption DEF Init, TypeOK, Job, Results
  <1>2. \A k \in Configs \X SelectSeeds : k[1] \notin Candidates => known[k] = NoRow
    <2>1. \A k \in Configs \X SelectSeeds : k \in Configs \X Seeds /\ k[2] \notin ValidateSeeds
      BY <1>1, SeedsApart DEF Seeds
    <2> QED
      BY <2>1 DEF Init
  <1> QED
    BY <1>1, <1>2 DEF Init, IInv, Pool, NoPickYet, AnswersRecorded, PickStands, SettledHolds

(* Every step keeps the invariant.                                          *)
LEMMA InvariantStep == IInv /\ [Next]_vars => IInv'
PROOF
  <1> SUFFICES ASSUME IInv, [Next]_vars PROVE IInv'
    OBVIOUS
  <1>1. ASSUME Start PROVE IInv'
    <2>1. UNCHANGED past
      BY <1>1 DEF Start
    <2>2. View' = View
      BY <1>1, <2>1, Frame DEF Start, View, Succeeded
    <2>3. Finalists \in SUBSET Configs
      BY DEF Finalists, Pooled
    <2>4. TypeOK'
      BY <1>1, <2>3 DEF Start, past, IInv, TypeOK, Job, Seeds, SelectSeeds, ValidateSeeds
    <2>5. Pool' /\ NoPickYet' /\ PickStands'
      BY <1>1, <2>1, Frame DEF Start, Pool, NoPickYet, PickStands
    <2>6. AnswersRecorded'
      BY <1>1, <2>1, Frame DEF Start, IInv, AnswersRecorded
    <2>7. SettledHolds'
      BY <1>1, <2>1, <2>2, Frame DEF Start, IInv, SettledHolds, Succeeded
    <2> QED
      BY <2>4, <2>5, <2>6, <2>7 DEF IInv
  <1>2. ASSUME Finish PROVE IInv'
    <2>1. PICK j \in Jobs \ DOMAIN out, x \in Results, hit \in BOOLEAN :
            /\ Answer(j, x, hit)
            /\ pc = "select" /\ Succeeded(Identity(j)) => x = known[Identity(j)]
      BY <1>2, FinishAnswers
    <2>2. TypeOK'
      BY <2>1, AnswerTyped
    <2>3. Pool' /\ NoPickYet'
      BY <2>1, Frame DEF Answer, IInv, Pool, NoPickYet
    <2>4. CASE pc = "select"
      <3>1. AnswersRecorded' /\ SettledHolds'
        BY <2>1, <2>4, SelectAnswer
      <3>2. PickStands'
        BY <2>1, <2>4 DEF Answer, PickStands
      <3> QED
        BY <2>2, <2>3, <3>1, <3>2 DEF IInv
    <2>5. CASE pc = "validate"
      BY <2>1, <2>2, <2>3, <2>5, ValidateAnswer DEF IInv
    <2> QED
      BY <2>4, <2>5 DEF Jobs
  <1>3. ASSUME Select PROVE IInv'
    <2>1. UNCHANGED past /\ known' = known
      BY <1>3 DEF Select, Choose
    <2>2. View' = View
      BY <2>1, Frame DEF View, Succeeded
    <2>3. Selection(cands, Routed) = Selection(Finalists, View)
      BY <1>3, RoutedIsView DEF Select, Choose, IInv, Pool
    <2>4. TypeOK'
      BY <1>3, <2>3, SelectionTyped DEF Select, Choose, past, IInv, TypeOK, Job, Seeds, SelectSeeds, ValidateSeeds
    <2>5. Pool' /\ NoPickYet'
      BY <1>3, <2>1, Frame DEF Select, Choose, IInv, Pool, NoPickYet
    <2>6. PickStands'
      BY <1>3, <2>1, <2>2, <2>3, Frame DEF Select, Choose, PickStands
    <2>7. AnswersRecorded'
      BY <1>3, <2>1, Frame DEF Select, Choose, IInv, AnswersRecorded
    <2>8. SettledHolds'
      <3>1. CASE \A j \in Jobs : j \in DOMAIN out /\ out[j].score # Failed
        <4>1. ASSUME NEW c \in Candidates, NEW s \in SelectSeeds PROVE Succeeded(<<c, s>>)
          <5>1. <<"select", c, s>> \in Jobs
            BY <1>3, <4>1 DEF Select, Choose, Jobs, IInv, Pool, Candidates
          <5>2. <<"select", c, s>> \in DOMAIN out /\ out[<<"select", c, s>>].score # Failed
            BY <1>3, <3>1, <5>1 DEF Select, Choose
          <5> QED
            BY <1>3, <5>2 DEF Select, Choose, IInv, AnswersRecorded, Identity
        <4>2. settled' = Selection(Finalists, View)
          BY <1>3, <2>3, <3>1 DEF Select, Choose
        <4> QED
          BY <2>1, <2>2, <4>1, <4>2, Frame DEF SettledHolds, Succeeded
      <3>2. CASE ~\A j \in Jobs : j \in DOMAIN out /\ out[j].score # Failed
        BY <1>3, <2>1, <2>2, <3>2, Frame DEF Select, Choose, IInv, SettledHolds, Succeeded
      <3> QED
        BY <3>1, <3>2
    <2> QED
      BY <2>4, <2>5, <2>6, <2>7, <2>8 DEF IInv
  <1>4. ASSUME Report PROVE IInv'
    <2>1. UNCHANGED past /\ View' = View
      BY <1>4, Frame DEF Report, View, Succeeded
    <2>2. TypeOK' /\ Pool' /\ NoPickYet' /\ AnswersRecorded'
      BY <1>4, <2>1, Frame DEF Report, past, IInv, TypeOK, Job, Seeds, SelectSeeds, ValidateSeeds,
         Pool, NoPickYet, AnswersRecorded
    <2> QED
      BY <1>4, <2>1, <2>2, Frame DEF Report, IInv, PickStands, SettledHolds, Succeeded
  <1>5. ASSUME Die PROVE IInv'
    <2>1. UNCHANGED past /\ View' = View
      BY <1>5, Frame DEF Die, View, Succeeded
    <2>2. TypeOK' /\ Pool' /\ NoPickYet' /\ AnswersRecorded'
      BY <1>5, <2>1, Frame DEF Die, past, IInv, TypeOK, Job, Seeds, SelectSeeds, ValidateSeeds,
         Pool, NoPickYet, AnswersRecorded
    <2> QED
      BY <1>5, <2>1, <2>2, Frame DEF Die, IInv, PickStands, SettledHolds, Succeeded
  <1>6. CASE UNCHANGED vars
    <2>1. UNCHANGED past /\ View' = View
      BY <1>6, Frame DEF vars, View, Succeeded
    <2>2. TypeOK' /\ Pool' /\ NoPickYet'
      BY <1>6, <2>1, Frame DEF vars, past, IInv, TypeOK, Job, Seeds, SelectSeeds, ValidateSeeds, Pool, NoPickYet
    <2>3. AnswersRecorded'
      BY <1>6, <2>1, Frame DEF vars, IInv, AnswersRecorded, Jobs, Succeeded
    <2> QED
      BY <1>6, <2>1, <2>2, <2>3, Frame DEF vars, IInv, PickStands, SettledHolds, Succeeded
  <1> QED
    BY <1>1, <1>2, <1>3, <1>4, <1>5, <1>6 DEF Next, Over

(* What IInv names holds of every reachable state, whatever the search      *)
(* left and however often the script is killed.                             *)
THEOREM Inductive == Spec => []IInv
PROOF
  BY InitInvariant, InvariantStep, PTL DEF Spec

(* The pick of a start is the one the database's rows select, to its end.   *)
THEOREM PickFollowsRows == Spec => []PickStands
PROOF
  <1>1. IInv => PickStands
    BY DEF IInv
  <1> QED
    BY <1>1, Inductive, PTL

(* At the invariant, a settled pick is the pick.                            *)
LEMMA SettledFollows == IInv => SettledStays
PROOF
  BY DEF IInv, TypeOK, NoPickYet, PickStands, SettledHolds, SettledStays

(* Once a selection had no failed evaluation, all starts pick what it did.  *)
THEOREM PickSettles == Spec => []SettledStays
PROOF
  BY SettledFollows, Inductive, PTL

(* At the invariant, a pick that is not the default is a winner.            *)
LEMMA EarnedFollows == IInv => PickEarned
PROOF
  <1>1. ASSUME IInv, pc \in {"validate", "ended"}, pick # Default
        PROVE  /\ pick \in Finalists /\ Finished(pick)
               /\ \A c \in Finalists \ {pick} : Finished(c) => Better(View, pick, c)
               /\ Finished(Default) => Total(View[pick]) + args.min_gain < Total(View[Default])
    <2>1. pick \in Winners(Finalists, View)
      BY <1>1 DEF IInv, PickStands, Selection
    <2>2. pick \in Finalists /\ Complete(View[pick]) /\ SelectSeeds # {}
      BY <2>1 DEF Winners, Best, Complete, View, Finalists, Pooled
    <2>3. ASSUME NEW c \in Configs PROVE Finished(c) <=> Complete(View[c])
      BY <2>2, MarksApart, ScoresAssumption DEF Finished, Complete, View, Succeeded, NoRow, Failed
    <2>4. Finalists \subseteq Configs
      BY DEF Finalists, Pooled
    <2> QED
      BY <2>1, <2>2, <2>3, <2>4, ConfigsAssumption DEF Winners, Best, Beats
  <1> QED
    BY <1>1 DEF PickEarned

(* A pick other than the default finished on every selection seed and beats *)
(* the default by the margin where that finished too.                       *)
THEOREM PickIsEarned == Spec => []PickEarned
PROOF
  BY EarnedFollows, Inductive, PTL

-----------------------------------------------------------------------------
(* The second experiment: the inductive invariant, in named parts.          *)

(* The incumbent is what the first rows of the default arm say.             *)
IncumbentIs ==
  /\ incumbent = [s \in DOMAIN incumbent |-> FirstOf(lottery, s)]
  /\ DOMAIN incumbent \subseteq SeedsIn(lottery) \cap IncumbentSeeds
LotteryIs == lottery \in Seq([seed : Nat, ok : BOOLEAN])

(* Without --orfs-var, the two scripts' identities are the same.            *)
OneTool == ~orfs => \A k \in good \cup failed : k = <<"plain", k[2], k[3]>>

(* What the report compares has a success in the database.                  *)
Printed(b) == IF b = "default" THEN DefaultFlow ELSE summary[b]
Compared ==
  \A a \in Searchers : \A s \in compared[a] : \A b \in {a, "default"} :
    s \in ValidateSeeds2 /\ Printed(b) # None2 /\ (~orfs => <<"plain", Printed(b), s>> \in good)

(* A good answer of a pass is a success in the database.                    *)
AnswersGood ==
  Passing => /\ DOMAIN out2 \subseteq Jobs2
             /\ \A j \in DOMAIN out2 : out2[j] = "good" => Identity2(j) \in good

(* What was a success before a late validation answers good and is not run, *)
(* and all that the report compares is.                                     *)
Replaying == step2 = "revalidate" /\ ~orfs
NotAgain ==
  Replaying =>
    /\ before \subseteq Successful
    /\ \A k \in ran : <<k[2], k[3]>> \notin before
    /\ \A j \in DOMAIN out2 : <<Best2(j[1]), j[2]>> \in before => out2[j] = "good"
StillCompared ==
  Replaying =>
    \A a \in Searchers : \A s \in compared[a] : \A b \in {a, "default"} : <<Best2(b), s>> \in before

IInv2 == LotteryIs /\ IncumbentIs /\ OneTool /\ Compared /\ AnswersGood /\ NotAgain /\ StillCompared

-----------------------------------------------------------------------------
(* Each set of numbers has a least one.                                     *)
LEMMA LeastOf ==
  ASSUME NEW S, S \subseteq Nat, S # {}
  PROVE  Min(S) \in S /\ \A x \in S : Min(S) <= x
PROOF
  <1>1. \E x \in S : \A y \in S : ~(<<y, x>> \in OpToRel(<, Nat))
    BY NatLessThanWellFounded, WFMin
  <1>2. \E x \in S : \A y \in S : ~(y < x)
    BY <1>1 DEF OpToRel
  <1>3. \E x \in S : \A y \in S : x <= y
    BY <1>2
  <1> QED
    BY <1>3 DEF Min

(* Rows that are appended do not change which row of a seed is the first.   *)
LEMMA FirstStays ==
  ASSUME NEW R, NEW rs \in Seq(R), NEW ext \in Seq(R), NEW s \in SeedsIn(rs)
  PROVE  s \in SeedsIn(rs \o ext) /\ FirstOf(rs \o ext, s) = FirstOf(rs, s)
PROOF
  <1> DEFINE all2 == rs \o ext
  <1>1. PICK i \in 1..Len(rs) : rs[i].seed = s
    BY DEF SeedsIn, Range
  <1>2. /\ all2 \in Seq(R) /\ Len(all2) = Len(rs) + Len(ext)
        /\ \A k \in 1..Len(rs) : all2[k] = rs[k]
    OBVIOUS
  <1> HIDE DEF all2
  <1>3. /\ RowsOf(rs, s) = {k \in 1..Len(rs) : rs[k].seed = s}
        /\ RowsOf(all2, s) = {k \in 1..Len(all2) : all2[k].seed = s}
    BY <1>2 DEF RowsOf
  <1>4. i \in RowsOf(rs, s) /\ i \in RowsOf(all2, s) /\ i \in 1..Len(all2)
    BY <1>1, <1>2, <1>3
  <1>5. RowsOf(rs, s) \subseteq Nat /\ RowsOf(all2, s) \subseteq Nat
    BY <1>3
  <1>6. /\ Min(RowsOf(rs, s)) \in RowsOf(rs, s) /\ \A k \in RowsOf(rs, s) : Min(RowsOf(rs, s)) <= k
        /\ Min(RowsOf(all2, s)) \in RowsOf(all2, s) /\ \A k \in RowsOf(all2, s) : Min(RowsOf(all2, s)) <= k
    <2>1. RowsOf(rs, s) # {} /\ RowsOf(all2, s) # {}
      BY <1>4
    <2> QED
      BY <1>5, <2>1, LeastOf
  <1>7. ASSUME NEW m, NEW n, m \in RowsOf(rs, s), \A k \in RowsOf(rs, s) : m <= k,
               n \in RowsOf(all2, s), \A k \in RowsOf(all2, s) : n <= k
        PROVE  m = n
    <2>1. m \in 1..Len(rs) /\ n \in 1..Len(all2) /\ m \in RowsOf(all2, s)
      BY <1>2, <1>3, <1>7
    <2>2. n <= m
      BY <1>7, <2>1
    <2>3. n \in 1..Len(rs)
      BY <2>1, <2>2
    <2>4. n \in RowsOf(rs, s)
      BY <1>2, <1>3, <1>7, <2>3
    <2>5. m <= n
      BY <1>7, <2>4
    <2> QED
      BY <2>1, <2>2, <2>5
  <1>8. Min(RowsOf(rs, s)) = Min(RowsOf(all2, s)) /\ Min(RowsOf(rs, s)) \in 1..Len(rs)
    BY <1>3, <1>6, <1>7
  <1>9. FirstOf(all2, s) = FirstOf(rs, s)
    BY <1>2, <1>8 DEF FirstOf
  <1>10. s \in SeedsIn(all2)
    BY <1>1, <1>2, <1>4 DEF SeedsIn, Range
  <1> QED
    BY <1>9, <1>10 DEF all2

(* A start of the default arm appends rows.                                 *)
LEMMA LotteryGrows ==
  ASSUME LotteryIs, DefaultArm
  PROVE  /\ LotteryIs'
         /\ \A s \in SeedsIn(lottery) : s \in SeedsIn(lottery') /\ FirstOf(lottery', s) = FirstOf(lottery, s)
         /\ incumbent' = Incumbent(lottery') \/ incumbent' = incumbent
PROOF
  <1> DEFINE R == [seed : Nat, ok : BOOLEAN]
  <1>1. PICK bad \in SUBSET Range(DefaultSeeds), n \in 0..Len(DefaultSeeds) :
          /\ lottery' = lottery \o [i \in 1..n |-> [seed |-> DefaultSeeds[i], ok |-> DefaultSeeds[i] \notin bad]]
          /\ incumbent' = Incumbent(lottery') \/ incumbent' = incumbent
    BY DEF DefaultArm
  <1> DEFINE ext == [i \in 1..n |-> [seed |-> DefaultSeeds[i], ok |-> DefaultSeeds[i] \notin bad]]
  <1>2. \A i \in 1..n : [seed |-> DefaultSeeds[i], ok |-> DefaultSeeds[i] \notin bad] \in R
    BY SeedsAssumption2
  <1>3. ext \in Seq(R) /\ lottery \in Seq(R) /\ lottery' = lottery \o ext
    <2> HIDE DEF R
    <2>1. n \in Nat
      BY SeedsAssumption2
    <2> QED
      BY <1>1, <1>2, <2>1 DEF LotteryIs, R
  <1> HIDE DEF ext, R
  <1>4. lottery' \in Seq(R)
    BY <1>3
  <1>5. ASSUME NEW s \in SeedsIn(lottery)
        PROVE  s \in SeedsIn(lottery \o ext) /\ FirstOf(lottery \o ext, s) = FirstOf(lottery, s)
    BY <1>3, FirstStays
  <1>6. LotteryIs'
    BY <1>4 DEF LotteryIs, R
  <1> QED
    BY <1>1, <1>3, <1>5, <1>6

(* The rows of the default arm keep the incumbent where it is.              *)
LEMMA IncumbentStep ==
  ASSUME LotteryIs, IncumbentIs, DefaultArm
  PROVE  IncumbentIs' /\ (DOMAIN incumbent = IncumbentSeeds => incumbent' = incumbent)
PROOF
  <1>1. ASSUME incumbent' = Incumbent(lottery')
        PROVE  IncumbentIs' /\ (DOMAIN incumbent = IncumbentSeeds => incumbent' = incumbent)
    <2>1. incumbent' = [s \in SeedsIn(lottery') \cap IncumbentSeeds |-> FirstOf(lottery', s)]
      BY <1>1 DEF Incumbent, CountedRow
    <2>2. DOMAIN incumbent' = SeedsIn(lottery') \cap IncumbentSeeds
      BY <2>1
    <2>3. IncumbentIs'
      BY <2>1, <2>2 DEF IncumbentIs
    <2>4. ASSUME DOMAIN incumbent = IncumbentSeeds PROVE incumbent' = incumbent
      <3>1. IncumbentSeeds \subseteq SeedsIn(lottery)
        BY <2>4 DEF IncumbentIs
      <3>2. SeedsIn(lottery') \cap IncumbentSeeds = IncumbentSeeds
        BY <3>1, LotteryGrows
      <3>3. \A s \in IncumbentSeeds : FirstOf(lottery', s) = FirstOf(lottery, s)
        BY <3>1, LotteryGrows
      <3>4. incumbent = [s \in IncumbentSeeds |-> FirstOf(lottery, s)]
        BY <2>4 DEF IncumbentIs
      <3>5. incumbent' = [s \in IncumbentSeeds |-> FirstOf(lottery', s)]
        BY <2>1, <3>2
      <3> QED
        BY <3>3, <3>4, <3>5
    <2> QED
      BY <2>3, <2>4
  <1>2. ASSUME incumbent' = incumbent PROVE IncumbentIs'
    <2>1. \A s \in DOMAIN incumbent : s \in SeedsIn(lottery') /\ FirstOf(lottery', s) = FirstOf(lottery, s)
      BY LotteryGrows DEF IncumbentIs
    <2>2. [s \in DOMAIN incumbent |-> FirstOf(lottery', s)] = [s \in DOMAIN incumbent |-> FirstOf(lottery, s)]
      BY <2>1
    <2> QED
      BY <1>2, <2>1, <2>2 DEF IncumbentIs
  <1> QED
    BY <1>1, <1>2, LotteryGrows

(* What a step leaves alone that neither runs, answers, reports nor starts  *)
(* a pass.                                                                  *)
LEMMA Aside ==
  ASSUME OneTool, Compared, UNCHANGED <<scripts, good, failed, written>>, ~Passing'
  PROVE  OneTool' /\ Compared' /\ AnswersGood' /\ NotAgain' /\ StillCompared'
PROOF
  <1>1. orfs' = orfs /\ good' = good /\ failed' = failed /\ summary' = summary /\ compared' = compared
    BY DEF scripts, written
  <1>2. OneTool'
    BY <1>1 DEF OneTool
  <1>3. Compared'
    BY <1>1 DEF Compared, Printed
  <1> QED
    BY <1>2, <1>3 DEF AnswersGood, NotAgain, StillCompared, Replaying, Passing

(* A pass begins without answers.                                           *)
LEMMA PassFrame ==
  ASSUME UNCHANGED <<scripts, step2, found2, summary>>
  PROVE  /\ Tool' = Tool /\ Jobs2' = Jobs2 /\ (Passing' <=> Passing) /\ (Replaying' <=> Replaying)
         /\ \A a : Best2(a)' = Best2(a)
         /\ \A j : Identity2(j)' = Identity2(j)
PROOF
  <1>1. orfs' = orfs /\ step2' = step2 /\ found2' = found2 /\ summary' = summary
    BY DEF scripts
  <1>2. Tool' = Tool
    BY <1>1 DEF Tool, RunTool
  <1>3. \A a : Best2(a)' = Best2(a)
    BY <1>1 DEF Best2, Results2
  <1>4. Jobs2' = Jobs2
    BY <1>3 DEF Jobs2
  <1>5. \A j : Identity2(j)' = Identity2(j)
    BY <1>2, <1>3 DEF Identity2
  <1> QED
    BY <1>1, <1>2, <1>3, <1>4, <1>5 DEF Passing, Replaying

(* Without --orfs-var an identity is a config on a seed.                    *)
LEMMA OneIdentity ==
  ASSUME OneTool, ~orfs, NEW j
  PROVE  /\ Tool = "plain" /\ Identity2(j) = <<"plain", Best2(j[1]), j[2]>>
         /\ Identity2(j) \in good <=> <<Best2(j[1]), j[2]>> \in Successful
PROOF
  <1>1. Tool = "plain"
    BY DEF Tool, RunTool
  <1>2. Identity2(j) = <<"plain", Best2(j[1]), j[2]>>
    BY <1>1 DEF Identity2
  <1>3. ASSUME NEW k \in good, <<k[2], k[3]>> = <<Best2(j[1]), j[2]>> PROVE Identity2(j) \in good
    <2>1. k = <<"plain", k[2], k[3]>>
      BY DEF OneTool
    <2>2. k[2] = Best2(j[1]) /\ k[3] = j[2]
      BY <1>3
    <2> QED
      BY <1>2, <2>1, <2>2
  <1>4. ASSUME Identity2(j) \in good PROVE <<Best2(j[1]), j[2]>> \in Successful
    BY <1>2, <1>4 DEF Successful
  <1> QED
    BY <1>1, <1>2, <1>3, <1>4 DEF Successful

(* A job that answers, by a replay or a run of its identity.                *)
LEMMA AnswerStep ==
  ASSUME OneTool, Compared, AnswersGood, NotAgain, StillCompared, Replay2 \/ Run2 \/ TimeOut2
  PROVE  OneTool' /\ Compared' /\ AnswersGood' /\ NotAgain' /\ StillCompared'
PROOF
  <1>1. PICK j \in Jobs2 \ DOMAIN out2, x \in {"good", "bad", "late"} :
          /\ Passing /\ Answered(j, x)
          /\ UNCHANGED <<scripts, step2, found2, before, written>>
          /\ \/ x = "good" /\ Identity2(j) \in good /\ good' = good /\ failed' = failed /\ ran' = ran
             \/ /\ Runs(j) /\ ran' = ran \cup {Identity2(j)}
                /\ good' = (IF x = "good" THEN good \cup {Identity2(j)} ELSE good)
                /\ failed' = (IF x # "good" THEN failed \cup {Identity2(j)} ELSE failed)
    <2>1. CASE Replay2
      BY <2>1 DEF Replay2, rows2
    <2>2. CASE Run2
      BY <2>2 DEF Run2, Ends2
    <2>3. CASE TimeOut2
      BY <2>3 DEF TimeOut2, Ends2, Passing
    <2> QED
      BY <2>1, <2>2, <2>3
  <1>2. /\ Tool' = Tool /\ Jobs2' = Jobs2 /\ Passing' /\ (Replaying' <=> Replaying)
        /\ \A a : Best2(a)' = Best2(a)
        /\ \A i : Identity2(i)' = Identity2(i)
    <2>1. UNCHANGED <<scripts, step2, found2, summary>>
      BY <1>1 DEF written
    <2> QED
      BY <1>1, <2>1, PassFrame
  <1>3. /\ DOMAIN out2' = DOMAIN out2 \cup {j}
        /\ \A i \in DOMAIN out2' : out2'[i] = (IF i = j THEN x ELSE out2[i])
    BY <1>1 DEF Answered
  <1>4. orfs' = orfs /\ summary' = summary /\ compared' = compared /\ before' = before
    BY <1>1 DEF scripts, written
  <1>5. good \subseteq good' /\ good' \cup failed' \subseteq good \cup failed \cup {Identity2(j)}
    BY <1>1
  <1>6. x = "good" => Identity2(j) \in good'
    BY <1>1
  <1>7. OneTool'
    <2>1. SUFFICES ASSUME ~orfs, NEW k \in good' \cup failed' PROVE k = <<"plain", k[2], k[3]>>
      BY <1>4 DEF OneTool
    <2>2. CASE k = Identity2(j)
      <3>1. Identity2(j) = <<"plain", Best2(j[1]), j[2]>>
        BY <2>1, OneIdentity
      <3> QED
        BY <2>2, <3>1
    <2>3. CASE k \in good \cup failed
      BY <2>1, <2>3 DEF OneTool
    <2> QED
      BY <1>5, <2>2, <2>3
  <1>8. Compared'
    <2>1. \A b : Printed(b)' = Printed(b)
      BY <1>4 DEF Printed
    <2> QED
      BY <1>4, <1>5, <2>1 DEF Compared
  <1>9. AnswersGood'
    BY <1>1, <1>2, <1>3, <1>5, <1>6 DEF AnswersGood
  <1>10. Successful \subseteq Successful'
    BY <1>5 DEF Successful
  <1>11. Replaying /\ Runs(j) => <<Best2(j[1]), j[2]>> \notin before
    <2>1. SUFFICES ASSUME Replaying, Runs(j) PROVE <<Best2(j[1]), j[2]>> \notin before
      OBVIOUS
    <2>2. ~orfs /\ before \subseteq Successful
      BY <2>1 DEF Replaying, NotAgain
    <2>3. CASE Identity2(j) \notin good
      BY <2>2, <2>3, OneIdentity
    <2>4. CASE Twin(j)
      <3>1. Identity2(j) \in ran
        BY <2>4 DEF Twin
      <3>2. Identity2(j) = <<"plain", Best2(j[1]), j[2]>>
        BY <2>2, OneIdentity
      <3>3. \A k \in ran : <<k[2], k[3]>> \notin before
        BY <2>1 DEF NotAgain
      <3>4. Identity2(j)[2] = Best2(j[1]) /\ Identity2(j)[3] = j[2]
        BY <3>2
      <3> QED
        BY <3>1, <3>3, <3>4
    <2> QED
      BY <2>1, <2>3, <2>4 DEF Runs
  <1>12. NotAgain'
    <2>1. SUFFICES ASSUME Replaying PROVE
            /\ before' \subseteq Successful'
            /\ \A k \in ran' : <<k[2], k[3]>> \notin before'
            /\ \A i \in DOMAIN out2' : <<Best2(i[1])', i[2]>> \in before' => out2'[i] = "good"
      BY <1>2 DEF NotAgain
    <2>2. before' \subseteq Successful'
      BY <1>4, <1>10, <2>1 DEF NotAgain
    <2>3. ASSUME NEW k \in ran' PROVE <<k[2], k[3]>> \notin before'
      <3>1. CASE k \in ran
        BY <1>4, <2>1, <3>1 DEF NotAgain
      <3>2. CASE k = Identity2(j) /\ Runs(j)
        <4>1. k[2] = Best2(j[1]) /\ k[3] = j[2]
          BY <3>2 DEF Identity2
        <4> QED
          BY <1>4, <1>11, <2>1, <3>2, <4>1
      <3> QED
        BY <1>1, <3>1, <3>2
    <2>4. ASSUME NEW i \in DOMAIN out2', <<Best2(i[1])', i[2]>> \in before' PROVE out2'[i] = "good"
      <3>1. Best2(i[1])' = Best2(i[1])
        BY <1>2
      <3>2. CASE i = j
        BY <1>1, <1>3, <1>4, <1>11, <2>1, <2>4, <3>1, <3>2
      <3>3. CASE i # j
        BY <1>3, <1>4, <2>1, <2>4, <3>1, <3>3 DEF NotAgain
      <3> QED
        BY <3>2, <3>3
    <2> QED
      BY <2>2, <2>3, <2>4
  <1>13. StillCompared'
    <2>1. SUFFICES ASSUME Replaying, NEW a \in Searchers, NEW s \in compared[a], NEW b \in {a, "default"}
                   PROVE  <<Best2(b)', s>> \in before
      BY <1>2, <1>4 DEF StillCompared
    <2>2. Best2(b)' = Best2(b)
      BY <1>2
    <2> QED
      BY <2>1, <2>2 DEF StillCompared
  <1> QED
    BY <1>7, <1>8, <1>9, <1>12, <1>13

(* A pass of run_arms.py begins.                                            *)
LEMMA ValidateStep ==
  ASSUME OneTool, Compared, Validate2
  PROVE  OneTool' /\ Compared' /\ AnswersGood' /\ NotAgain' /\ StillCompared'
PROOF
  <1>1. /\ step2' = "validate" /\ out2' = <<>> /\ orfs' = orfs /\ good' = good /\ failed' = failed
        /\ summary' = summary /\ compared' = compared
    BY DEF Validate2, StartPass, scripts, rows2, written
  <1>2. OneTool' /\ Compared'
    BY <1>1 DEF OneTool, Compared, Printed
  <1>3. AnswersGood'
    BY <1>1 DEF AnswersGood
  <1> QED
    BY <1>1, <1>2, <1>3 DEF NotAgain, StillCompared, Replaying

(* revalidate.py begins, with what the logs of late containers hold.        *)
LEMMA RevalidateStep ==
  ASSUME OneTool, Compared, Revalidate
  PROVE  OneTool' /\ Compared' /\ AnswersGood' /\ NotAgain' /\ StillCompared'
PROOF
  <1>1. /\ step2' = "revalidate" /\ out2' = <<>> /\ ran' = {} /\ orfs' = orfs /\ failed' = failed
        /\ good' = good \cup Late /\ Late \subseteq failed
        /\ before' = Successful \cup {<<k[2], k[3]>> : k \in Late}
        /\ summary' = summary /\ compared' = compared
    BY DEF Revalidate, StartPass, Recovered, Late, scripts, written
  <1>2. OneTool'
    BY <1>1 DEF OneTool
  <1>3. Compared'
    <2>1. \A b : Printed(b)' = Printed(b)
      BY <1>1 DEF Printed
    <2> QED
      BY <1>1, <2>1 DEF Compared
  <1>4. AnswersGood'
    BY <1>1 DEF AnswersGood
  <1>5. before' \subseteq Successful'
    <2>1. Successful' = {<<k[2], k[3]>> : k \in good'}
      BY DEF Successful
    <2> QED
      BY <1>1, <2>1 DEF Successful
  <1>6. NotAgain'
    BY <1>1, <1>5 DEF NotAgain
  <1>7. StillCompared'
    <2>1. \A b : Best2(b)' = Printed(b)
      BY <1>1 DEF Best2, Results2, Printed
    <2>2. ASSUME ~orfs, NEW a \in Searchers, NEW s \in compared[a], NEW b \in {a, "default"}
          PROVE  <<Best2(b)', s>> \in before'
      <3>1. <<"plain", Printed(b), s>> \in good
        BY <2>2 DEF Compared
      <3>2. <<Printed(b), s>> \in Successful
        BY <3>1 DEF Successful
      <3> QED
        BY <1>1, <2>1, <3>2
    <2> QED
      BY <1>1, <2>2 DEF StillCompared, Replaying
  <1> QED
    BY <1>2, <1>3, <1>4, <1>6, <1>7

(* What is compared has answered good.                                      *)
LEMMA ReportStep ==
  ASSUME OneTool, AnswersGood, Report2
  PROVE  OneTool' /\ Compared' /\ AnswersGood' /\ NotAgain' /\ StillCompared'
PROOF
  <1>1. /\ Passing /\ step2' = "off" /\ orfs' = orfs /\ good' = good /\ failed' = failed
        /\ summary' = Results2 /\ compared' = [a \in Searchers |-> Pairs(a)]
    BY DEF Report2, scripts, rows2
  <1>2. OneTool'
    BY <1>1 DEF OneTool
  <1>3. \A b : Printed(b)' = Best2(b)
    BY <1>1 DEF Printed, Best2
  <1>4. ASSUME NEW a \in Searchers, NEW s \in Pairs(a), NEW b \in {a, "default"}
        PROVE  s \in ValidateSeeds2 /\ Best2(b) # None2 /\ (~orfs => <<"plain", Best2(b), s>> \in good)
    <2>1. s \in ValidateSeeds2 /\ <<b, s>> \in DOMAIN out2 /\ out2[<<b, s>>] = "good"
      BY DEF Pairs, Scored
    <2>2. <<b, s>> \in Jobs2 /\ Identity2(<<b, s>>) \in good
      BY <1>1, <2>1 DEF AnswersGood
    <2>3. Best2(b) # None2
      BY <2>2 DEF Jobs2
    <2>4. ~orfs => Identity2(<<b, s>>) = <<"plain", Best2(b), s>>
      BY DEF Identity2, Tool, RunTool
    <2> QED
      BY <2>1, <2>2, <2>3, <2>4
  <1>5. \A a \in Searchers : compared'[a] = Pairs(a)
    BY <1>1
  <1>6. Compared'
    BY <1>1, <1>3, <1>4, <1>5 DEF Compared
  <1> QED
    BY <1>1, <1>2, <1>6 DEF AnswersGood, NotAgain, StillCompared, Passing, Replaying

(* The second experiment begins in its invariant.                           *)
LEMMA InitInvariant2 == InitV2 => IInv2
PROOF
  <1> SUFFICES ASSUME InitV2 PROVE IInv2
    OBVIOUS
  <1>1. /\ lottery = <<>> /\ incumbent = <<>> /\ good = {} /\ failed = {}
        /\ compared = [a \in Searchers |-> {}] /\ step2 = "off"
    BY DEF InitV2
  <1>2. LotteryIs
    BY <1>1 DEF LotteryIs
  <1>3. IncumbentIs
    BY <1>1 DEF IncumbentIs
  <1>4. OneTool /\ Compared
    BY <1>1 DEF OneTool, Compared
  <1> QED
    BY <1>1, <1>2, <1>3, <1>4 DEF IInv2, AnswersGood, NotAgain, StillCompared, Replaying, Passing

(* Every step keeps the parts, and the incumbent once it covers its seeds.  *)
LEMMA InvariantStep2 ==
  ASSUME IInv2, [NextV2]_vars2
  PROVE  IInv2' /\ (DOMAIN incumbent = IncumbentSeeds => incumbent' = incumbent)
PROOF
  <1> USE DEF IInv2
  <1>1. ASSUME DefaultArm PROVE IInv2' /\ (DOMAIN incumbent = IncumbentSeeds => incumbent' = incumbent)
    <2>1. UNCHANGED <<scripts, good, failed, written>> /\ ~Passing'
      BY <1>1 DEF DefaultArm, rows2, Passing
    <2> QED
      BY <1>1, <2>1, Aside, LotteryGrows, IncumbentStep
  <1>2. ASSUME UNCHANGED <<lottery, incumbent>> PROVE LotteryIs' /\ IncumbentIs'
    BY <1>2 DEF LotteryIs, IncumbentIs
  <1>3. ASSUME RunArms \/ ArmEnds \/ ArmRaised \/ Die2 PROVE IInv2' /\ incumbent' = incumbent
    <2>1. UNCHANGED <<scripts, good, failed, written, lottery, incumbent>> /\ ~Passing'
      BY <1>3 DEF RunArms, ArmEnds, ArmRaised, Die2, rows2, Passing
    <2> QED
      BY <1>2, <2>1, Aside
  <1>4. ASSUME Replay2 \/ Run2 \/ TimeOut2 PROVE IInv2' /\ incumbent' = incumbent
    <2>1. UNCHANGED <<lottery, incumbent>>
      BY <1>4 DEF Replay2, Run2, TimeOut2, Ends2
    <2> QED
      BY <1>2, <1>4, <2>1, AnswerStep
  <1>5. ASSUME Validate2 PROVE IInv2' /\ incumbent' = incumbent
    <2>1. UNCHANGED <<lottery, incumbent>>
      BY <1>5 DEF Validate2
    <2> QED
      BY <1>2, <1>5, <2>1, ValidateStep
  <1>6. ASSUME Revalidate PROVE IInv2' /\ incumbent' = incumbent
    <2>1. UNCHANGED <<lottery, incumbent>>
      BY <1>6 DEF Revalidate
    <2> QED
      BY <1>2, <1>6, <2>1, RevalidateStep
  <1>7. ASSUME Report2 PROVE IInv2' /\ incumbent' = incumbent
    <2>1. UNCHANGED <<lottery, incumbent>>
      BY <1>7 DEF Report2
    <2> QED
      BY <1>2, <1>7, <2>1, ReportStep
  <1>8. ASSUME LateEnds \/ UNCHANGED vars2 PROVE IInv2' /\ incumbent' = incumbent
    <2>1. UNCHANGED <<scripts, step2, found2, good, failed, pass, written, lottery, incumbent>>
      BY <1>8 DEF LateEnds, vars2, scripts, pass, written
    <2>2. /\ orfs' = orfs /\ good' = good /\ failed' = failed /\ out2' = out2 /\ ran' = ran /\ before' = before
          /\ summary' = summary /\ compared' = compared
      BY <2>1 DEF scripts, pass, written
    <2>3. /\ Jobs2' = Jobs2 /\ (Passing' <=> Passing) /\ (Replaying' <=> Replaying)
          /\ \A a : Best2(a)' = Best2(a)
          /\ \A j : Identity2(j)' = Identity2(j)
      BY <2>1, <2>2, PassFrame
    <2>4. OneTool' /\ Compared'
      BY <2>2 DEF OneTool, Compared, Printed
    <2>5. AnswersGood'
      BY <2>2, <2>3 DEF AnswersGood
    <2>6. NotAgain'
      BY <2>2, <2>3 DEF NotAgain, Successful
    <2>7. StillCompared'
      BY <2>2, <2>3 DEF StillCompared
    <2> QED
      BY <1>2, <2>1, <2>4, <2>5, <2>6, <2>7
  <1> QED
    BY <1>1, <1>3, <1>4, <1>5, <1>6, <1>7, <1>8 DEF NextV2, Over2

(* What the invariant says of a late validation.                            *)
LEMMA ReplaysFollow == IInv2 => RevalidateReplays
PROOF
  <1> SUFFICES ASSUME IInv2, step2 = "revalidate", ~orfs
               PROVE  /\ \A k \in ran : <<k[2], k[3]>> \notin before
                      /\ Jobs2 \subseteq DOMAIN out2 => \A a \in Searchers : compared[a] \subseteq Pairs(a)
    BY DEF RevalidateReplays
  <1>1. Replaying /\ (\A b : Best2(b) = Printed(b))
    BY DEF Replaying, Best2, Results2, Printed
  <1>2. \A k \in ran : <<k[2], k[3]>> \notin before
    BY <1>1 DEF IInv2, NotAgain
  <1>3. ASSUME Jobs2 \subseteq DOMAIN out2, NEW a \in Searchers, NEW s \in compared[a], NEW b \in {a, "default"}
        PROVE  s \in ValidateSeeds2 /\ Scored(b, s)
    <2>1. s \in ValidateSeeds2 /\ Best2(b) # None2
      BY <1>1, <1>3 DEF IInv2, Compared
    <2>2. <<b, s>> \in Jobs2
      BY <1>3, <2>1 DEF Jobs2
    <2>3. <<Best2(b), s>> \in before
      BY <1>1, <1>3 DEF IInv2, StillCompared
    <2>4. \A j \in DOMAIN out2 : <<Best2(j[1]), j[2]>> \in before => out2[j] = "good"
      BY <1>1 DEF IInv2, NotAgain
    <2>5. out2[<<b, s>>] = "good"
      BY <1>3, <2>2, <2>3, <2>4
    <2> QED
      BY <1>3, <2>1, <2>2, <2>5 DEF Scored
  <1> QED
    BY <1>2, <1>3 DEF Pairs

-----------------------------------------------------------------------------
(* Filters of sequences, and the greatest of finitely many numbers.         *)
IsSeq(s) == s \in Seq(Range(s))

(* A sequence has a row in its range exactly if it has it at an index.      *)
LEMMA SeqIs ==
  ASSUME NEW s
  PROVE  /\ IsSeq(s) => Len(s) \in Nat /\ DOMAIN s = 1..Len(s) /\ \A i \in 1..Len(s) : s[i] \in Range(s)
         /\ \A n \in Nat : s = [i \in 1..n |-> s[i]] => IsSeq(s) /\ Len(s) = n
PROOF
  <1>1. ASSUME IsSeq(s)
        PROVE  Len(s) \in Nat /\ DOMAIN s = 1..Len(s) /\ \A i \in 1..Len(s) : s[i] \in Range(s)
    <2> DEFINE T == Range(s)
    <2>1. s \in Seq(T)
      BY <1>1 DEF IsSeq
    <2> HIDE DEF T
    <2>2. Len(s) \in Nat /\ DOMAIN s = 1..Len(s)
      BY <2>1
    <2> QED
      BY <2>2 DEF Range
  <1>2. ASSUME NEW n \in Nat, s = [i \in 1..n |-> s[i]] PROVE IsSeq(s) /\ Len(s) = n
    <2> DEFINE T == Range(s)
    <2>1. \A i \in 1..n : s[i] \in T
      BY <1>2 DEF Range
    <2> HIDE DEF T
    <2>2. s \in Seq(T) /\ Len(s) = n
      BY <1>2, <2>1
    <2> QED
      BY <2>2 DEF IsSeq, T
  <1> QED
    BY <1>1, <1>2

(* A sequence is one over any set that has its elements.                    *)
LEMMA SeqOver ==
  ASSUME NEW s, IsSeq(s), NEW T, Range(s) \subseteq T
  PROVE  s \in Seq(T)
PROOF
  <1> DEFINE R == Range(s)
  <1>1. s \in Seq(R) /\ R \subseteq T
    BY DEF IsSeq
  <1> HIDE DEF R
  <1>2. /\ Len(s) \in Nat /\ s = [i \in 1..Len(s) |-> s[i]]
        /\ \A i \in 1..Len(s) : s[i] \in T
    BY <1>1
  <1> QED
    BY <1>2

(* What appending does to a sequence's range.                               *)
LEMMA AppendIs ==
  ASSUME NEW s, IsSeq(s), NEW e
  PROVE  IsSeq(Append(s, e)) /\ Range(Append(s, e)) = Range(s) \cup {e}
PROOF
  <1> DEFINE t == Append(s, e)
             T == Range(s) \cup {e}
  <1>1. Len(s) \in Nat /\ DOMAIN s = 1..Len(s) /\ s \in Seq(T)
    <2>1. Range(s) \subseteq T
      OBVIOUS
    <2> HIDE DEF T
    <2> QED
      BY <2>1, SeqIs, SeqOver
  <1>2. e \in T
    OBVIOUS
  <1> HIDE DEF T
  <1>3. /\ t \in Seq(T) /\ Len(t) = Len(s) + 1 /\ t[Len(s) + 1] = e
        /\ \A i \in 1..Len(s) : t[i] = s[i]
    BY <1>1, <1>2
  <1> HIDE DEF t
  <1>4. t = [i \in 1..Len(t) |-> t[i]] /\ Len(t) \in Nat /\ DOMAIN t = 1..Len(t)
    BY <1>3
  <1>5. IsSeq(t)
    BY <1>4, SeqIs
  <1>6. \A i \in DOMAIN t : i \in 1..Len(s) \/ i = Len(s) + 1
    BY <1>1, <1>3, <1>4
  <1>7. Range(t) = Range(s) \cup {e}
    <2>1. \A r \in Range(t) : r \in Range(s) \cup {e}
      BY <1>1, <1>3, <1>6 DEF Range
    <2>2. \A r \in Range(s) : r \in Range(t)
      <3>1. \A i \in 1..Len(s) : i \in DOMAIN t
        BY <1>1, <1>3, <1>4
      <3> QED
        BY <1>1, <1>3, <3>1 DEF Range
    <2>3. e \in Range(t)
      <3>1. Len(s) + 1 \in DOMAIN t
        BY <1>1, <1>3, <1>4
      <3> QED
        BY <1>3, <3>1 DEF Range
    <2> QED
      BY <2>1, <2>2, <2>3
  <1> QED
    BY <1>5, <1>7 DEF t

(* What joining does to their ranges.                                       *)
LEMMA ConcatIs ==
  ASSUME NEW s, NEW t, IsSeq(s), IsSeq(t)
  PROVE  IsSeq(s \o t) /\ Range(s \o t) = Range(s) \cup Range(t)
PROOF
  <1> DEFINE u == s \o t
             m == Len(s)
             n == Len(t)
  <1>1. /\ m \in Nat /\ DOMAIN s = 1..m /\ n \in Nat /\ DOMAIN t = 1..n
    BY SeqIs
  <1> DEFINE T == Range(s) \cup Range(t)
  <1>2. s \in Seq(T) /\ t \in Seq(T)
    <2>1. Range(s) \subseteq T /\ Range(t) \subseteq T
      OBVIOUS
    <2> HIDE DEF T
    <2> QED
      BY <2>1, SeqOver
  <1> HIDE DEF T
  <1>3. /\ \A i \in 1..(m + n) : u[i] = (IF i <= m THEN s[i] ELSE t[i - m])
        /\ DOMAIN u = 1..(m + n) /\ u = [i \in 1..(m + n) |-> u[i]]
    <2>1. u \in Seq(T) /\ Len(u) = m + n
      BY <1>2
    <2>2. \A i \in 1..(m + n) : u[i] = (IF i <= m THEN s[i] ELSE t[i - m])
      BY <1>2
    <2> HIDE DEF u
    <2> QED
      BY <2>1, <2>2
  <1> HIDE DEF u, m, n
  <1>4. IsSeq(u)
    BY <1>1, <1>3, SeqIs
  <1>5. \A r \in Range(u) : r \in Range(s) \cup Range(t)
    <2>1. \A i \in 1..(m + n) : i \in 1..m \/ (i - m \in 1..n /\ ~(i <= m))
      BY <1>1
    <2>2. ASSUME NEW i \in 1..(m + n) PROVE u[i] \in Range(s) \cup Range(t)
      <3>1. CASE i \in 1..m
        BY <1>1, <1>3, <3>1 DEF Range
      <3>2. CASE i - m \in 1..n /\ ~(i <= m)
        BY <1>1, <1>3, <3>2 DEF Range
      <3> QED
        BY <2>1, <3>1, <3>2
    <2> QED
      BY <1>3, <2>2 DEF Range
  <1>6. ASSUME NEW i \in 1..m PROVE s[i] \in Range(u)
    <2>1. i \in 1..(m + n) /\ i <= m
      BY <1>1
    <2> QED
      BY <1>3, <2>1 DEF Range
  <1>7. ASSUME NEW i \in 1..n PROVE t[i] \in Range(u)
    <2>1. m + i \in 1..(m + n) /\ ~(m + i <= m) /\ (m + i) - m = i
      BY <1>1
    <2>2. u[m + i] = t[i]
      BY <1>3, <2>1
    <2> QED
      BY <1>3, <2>1, <2>2 DEF Range
  <1>8. Range(u) = Range(s) \cup Range(t)
    <2>1. \A r \in Range(s) : r \in Range(u)
      BY <1>1, <1>6 DEF Range
    <2>2. \A r \in Range(t) : r \in Range(u)
      BY <1>1, <1>7 DEF Range
    <2> QED
      BY <1>5, <2>1, <2>2
  <1> QED
    BY <1>4, <1>8 DEF u

(* At picks the elements of the chosen indices, each of them once.          *)
LEMMA AtIs ==
  ASSUME NEW s, NEW n \in Nat, DOMAIN s = 1..n, NEW I \in SUBSET (1..n)
  PROVE  /\ Cardinality(I) \in Nat /\ IsSeq(At(s, I)) /\ Len(At(s, I)) = Cardinality(I)
         /\ DOMAIN At(s, I) = 1..Cardinality(I)
         /\ Range(At(s, I)) = {s[i] : i \in I}
PROOF
  <1> DEFINE N == Cardinality(I)
             Below(i) == {j \in I : j < i}
             R == [i \in I |-> Cardinality(Below(i))]
             t == At(s, I)
  <1>1. IsFiniteSet(I) /\ N \in Nat /\ \A i \in I : i \in Nat
    <2>1. IsFiniteSet(1..n)
      BY FS_Interval
    <2>2. IsFiniteSet(I)
      BY <2>1, FS_Subset
    <2>3. N \in Nat
      BY <2>2, FS_CardinalityType
    <2>4. \A i \in I : i \in Nat
      OBVIOUS
    <2> QED
      BY <2>2, <2>3, <2>4
  <1>2. ASSUME NEW i \in I
        PROVE  /\ IsFiniteSet(Below(i)) /\ Cardinality(Below(i)) \in Nat /\ Cardinality(Below(i)) < N
    <2>1. Below(i) \in SUBSET I /\ i \notin Below(i)
      BY <1>1
    <2> HIDE DEF Below
    <2>2. /\ IsFiniteSet(Below(i)) /\ Cardinality(Below(i)) <= N
          /\ N = Cardinality(Below(i)) => I = Below(i)
      BY <1>1, <2>1, FS_Subset
    <2>3. Cardinality(Below(i)) \in Nat /\ N # Cardinality(Below(i))
      BY <2>1, <2>2, FS_CardinalityType
    <2> HIDE DEF N
    <2> QED
      BY <1>1, <2>2, <2>3
  <1>3. ASSUME NEW i \in I, NEW j \in I, i < j PROVE Cardinality(Below(i)) < Cardinality(Below(j))
    <2>1. Below(i) \in SUBSET Below(j) /\ i \in Below(j) /\ i \notin Below(i)
      <3>1. i \in Nat /\ j \in Nat
        BY <1>1
      <3>2. ASSUME NEW l \in I, l < i PROVE l < j
        <4>1. l \in Nat
          BY <1>1
        <4> QED
          BY <1>3, <3>1, <3>2, <4>1
      <3>3. ~(i < i)
        BY <3>1
      <3> QED
        BY <1>3, <3>2, <3>3
    <2>2. /\ IsFiniteSet(Below(j)) /\ Cardinality(Below(j)) \in Nat /\ Cardinality(Below(i)) \in Nat
      BY <1>2
    <2> HIDE DEF Below
    <2>3. /\ Cardinality(Below(i)) <= Cardinality(Below(j))
          /\ Cardinality(Below(j)) = Cardinality(Below(i)) => Below(j) = Below(i)
      BY <2>1, <2>2, FS_Subset
    <2> QED
      BY <2>1, <2>2, <2>3
  <1>4. ASSUME NEW i \in I, NEW j \in I, Cardinality(Below(i)) = Cardinality(Below(j)) PROVE i = j
    <2>1. Cardinality(Below(i)) \in Nat /\ Cardinality(Below(j)) \in Nat
      BY <1>2
    <2>2. ~(i < j) /\ ~(j < i)
      <3> HIDE DEF Below
      <3> QED
        BY <1>3, <1>4, <2>1
    <2> QED
      BY <1>1, <2>2
  <1>5. R \in Injection(I, 0..(N - 1))
    <2>1. \A i \in I : R[i] \in 0..(N - 1)
      <3> HIDE DEF Below, N
      <3> QED
        BY <1>1, <1>2
    <2>2. R \in [I -> 0..(N - 1)]
      <3> HIDE DEF Below, N
      <3> QED
        BY <2>1
    <2>3. \A i, j \in I : R[i] = R[j] => i = j
      <3> HIDE DEF Below
      <3> QED
        BY <1>4
    <2> HIDE DEF R
    <2> QED
      BY <2>2, <2>3 DEF Injection, IsInjective
  <1>6. \A k \in 0..(N - 1) : \E i \in I : R[i] = k
    <2>1. IsFiniteSet(0..(N - 1)) /\ Cardinality(0..(N - 1)) = N
      <3> HIDE DEF N
      <3> QED
        BY <1>1, FS_Interval
    <2> HIDE DEF R
    <2>2. R \in Surjection(I, 0..(N - 1))
      BY <1>5, <2>1, FS_Injection
    <2> QED
      BY <2>2 DEF Surjection
  <1>7. \A k \in 1..N : \E i \in I : Cardinality(Below(i)) = k - 1
    <2>1. \A k \in 1..N : k - 1 \in 0..(N - 1)
      <3> HIDE DEF N
      <3> QED
        BY <1>1
    <2> QED
      <3> HIDE DEF Below, N
      <3> QED
        BY <1>6, <2>1
  <1>8. t = [k \in 1..N |-> s[CHOOSE i \in I : Cardinality(Below(i)) = k - 1]]
    BY DEF At
  <1> HIDE DEF Below, N, R
  <1>9. ASSUME NEW k \in 1..N PROVE \E i \in I : t[k] = s[i]
    <2> DEFINE i == CHOOSE i \in I : Cardinality(Below(i)) = k - 1
    <2>1. i \in I
      BY <1>7
    <2>2. t[k] = s[i]
      BY <1>8
    <2> HIDE DEF i
    <2> QED
      BY <2>1, <2>2
  <1>10. ASSUME NEW i \in I PROVE \E k \in 1..N : t[k] = s[i]
    <2> DEFINE k == Cardinality(Below(i)) + 1
               j == CHOOSE j \in I : Cardinality(Below(j)) = k - 1
    <2>1. k \in 1..N /\ k - 1 = Cardinality(Below(i))
      BY <1>1, <1>2
    <2>2. j \in I /\ Cardinality(Below(j)) = k - 1
      BY <2>1
    <2>3. t[k] = s[j]
      BY <1>8, <2>1
    <2> HIDE DEF k, j
    <2>4. j = i
      BY <1>4, <2>1, <2>2
    <2> QED
      BY <2>1, <2>3, <2>4
  <1>11. DOMAIN t = 1..N /\ t = [k \in 1..N |-> t[k]]
    BY <1>8
  <1> HIDE DEF t
  <1>12. IsSeq(t) /\ Len(t) = N
    BY <1>1, <1>11, SeqIs
  <1>13. Range(t) = {s[i] : i \in I}
    BY <1>9, <1>10, <1>11 DEF Range
  <1> QED
    BY <1>1, <1>11, <1>12, <1>13 DEF t, N

(* The filters of a repair keep what passes them.                           *)
LEMMA FiltersAre ==
  ASSUME NEW s, IsSeq(s)
  PROVE  /\ IsSeq(Good(s)) /\ Range(Good(s)) = {r \in Range(s) : Succeeds(r.res)}
         /\ IsSeq(Rest(s)) /\ Range(Rest(s)) = {r \in Range(s) : ~Succeeds(r.res)}
PROOF
  <1> DEFINE I == {i \in DOMAIN s : Succeeds(s[i].res)}
             J == {i \in DOMAIN s : ~Succeeds(s[i].res)}
  <1>1. Len(s) \in Nat /\ DOMAIN s = 1..Len(s)
    BY SeqIs
  <1>2. Good(s) = At(s, I) /\ Rest(s) = At(s, J)
    BY DEF Good, Rest, Of
  <1>3. I \in SUBSET (1..Len(s)) /\ J \in SUBSET (1..Len(s))
    BY <1>1
  <1>4. /\ {s[i] : i \in I} = {r \in Range(s) : Succeeds(r.res)}
        /\ {s[i] : i \in J} = {r \in Range(s) : ~Succeeds(r.res)}
    BY DEF Range
  <1> HIDE DEF I, J
  <1>5. IsSeq(At(s, I)) /\ Range(At(s, I)) = {s[i] : i \in I}
    BY <1>1, <1>3, AtIs
  <1>6. IsSeq(At(s, J)) /\ Range(At(s, J)) = {s[i] : i \in J}
    BY <1>1, <1>3, AtIs
  <1> QED
    BY <1>2, <1>4, <1>5, <1>6

(* Finitely many numbers have a greatest one.                               *)
LEMMA GreatestOf ==
  ASSUME NEW S, IsFiniteSet(S), S \subseteq Nat, S # {}
  PROVE  Max(S) \in S /\ \A x \in S : x <= Max(S)
PROOF
  <1> DEFINE HasMax(T) == \E x \in T : \A y \in T : y <= x
             Bad1 == {k \in Nat : \E T \in SUBSET S : T # {} /\ Cardinality(T) = k /\ ~HasMax(T)}
  <1>1. \A T \in SUBSET S : IsFiniteSet(T) /\ Cardinality(T) \in Nat
    BY FS_Subset, FS_CardinalityType
  <1>2. HasMax(S)
    <2>1. SUFFICES ASSUME ~HasMax(S) PROVE FALSE
      OBVIOUS
    <2>2. Bad1 \subseteq Nat /\ Bad1 # {}
      <3> HIDE DEF HasMax
      <3>1. Cardinality(S) \in Bad1
        BY <1>1, <2>1
      <3> QED
        BY <3>1
    <2>3. PICK k \in Bad1 : \A l \in Bad1 : k <= l
      <3> HIDE DEF Bad1
      <3> QED
        BY <2>2, LeastOf
    <2>4. PICK T \in SUBSET S : T # {} /\ Cardinality(T) = k /\ ~HasMax(T)
      <3> HIDE DEF HasMax
      <3> QED
        BY <2>3
    <2>5. PICK m \in T : TRUE
      BY <2>4
    <2> DEFINE U == T \ {m}
    <2>6. Cardinality(U) = k - 1 /\ k \in Nat /\ k - 1 \in Nat /\ U \in SUBSET S
      <3>1. Cardinality(U) = Cardinality(T) - 1
        BY <1>1, FS_RemoveElement
      <3>2. Cardinality(U) \in Nat
        BY <1>1
      <3> HIDE DEF U
      <3>3. U \in SUBSET S
        BY DEF U
      <3> QED
        BY <1>1, <2>4, <3>1, <3>2, <3>3
    <2>7. U # {}
      <3>1. SUFFICES ASSUME U = {} PROVE HasMax(T)
        BY <2>4
      <3>2. \A y \in T : y = m
        BY <3>1
      <3>3. m \in Nat
        OBVIOUS
      <3> QED
        BY <3>2, <3>3
    <2>8. HasMax(U)
      <3> HIDE DEF HasMax, U
      <3>1. k - 1 \notin Bad1
        BY <2>3, <2>6
      <3> QED
        BY <2>6, <2>7, <3>1
    <2>9. PICK n \in U : \A y \in U : y <= n
      BY <2>8
    <2>10. n \in T /\ n \in Nat /\ m \in Nat /\ \A y \in T : y = m \/ y <= n
      BY <2>9
    <2>11. CASE m <= n
      <3>1. \A y \in T : y <= n
        BY <2>10, <2>11
      <3> QED
        BY <2>4, <2>10, <3>1
    <2>12. CASE n <= m
      <3>1. \A y \in T : y \in Nat
        OBVIOUS
      <3>2. \A y \in T : y <= m
        BY <2>10, <2>12, <3>1
      <3> QED
        BY <2>4, <3>2
    <2> QED
      BY <2>10, <2>11, <2>12
  <1>3. \E x \in S : \A y \in S : x >= y
    BY <1>2
  <1> QED
    BY <1>3 DEF Max

-----------------------------------------------------------------------------
(* The first experiment: the inductive invariant, in named parts.           *)
Keys == ArmRuns \X Places
RowsAre ==
  /\ DOMAIN rows = Keys
  /\ \A k \in Keys : IsSeq(rows[k]) /\ \A r \in Range(rows[k]) : r.rnd \in Nat
TodoIs ==
  /\ DOMAIN todo = ArmRuns
  /\ \A a \in ArmRuns : IsSeq(todo[a]) /\ \A t \in Range(todo[a]) : t.place \in Places /\ t.rnd \in Nat
RoundsAre == rnd \in [ArmRuns -> Nat] /\ last \in [ArmRuns -> Nat]

(* What a repair is about to delete holds no success.                       *)
NothingToLose ==
  xpc = "copied" =>
    \A k \in Keys : k[1] \in jobs /\ k[2] # "cache" => \A r \in Range(rows[k]) : ~Succeeds(r.res)

IInv1 == RowsAre /\ TodoIs /\ RoundsAre /\ jobs \subseteq ArmRuns /\ NothingToLose

(* The number of the last round is a number.                                *)
LEMMA MaxRoundIs ==
  ASSUME RowsAre, NEW a \in ArmRuns
  PROVE  MaxRound(a) \in Nat /\ \A r \in Range(rows[<<a, "search">>]) : r.rnd <= MaxRound(a)
PROOF
  <1> DEFINE s == rows[<<a, "search">>]
             n == Len(s)
             T == {0} \cup {r.rnd : r \in Range(s)}
             f == [i \in 1..(n + 1) |-> IF i = n + 1 THEN 0 ELSE s[i].rnd]
  <1>1. IsSeq(s) /\ \A r \in Range(s) : r.rnd \in Nat
    BY DEF RowsAre, Keys, Places
  <1>2. n \in Nat /\ DOMAIN s = 1..n /\ \A i \in 1..n : s[i] \in Range(s)
    BY <1>1, SeqIs
  <1> HIDE DEF s, n
  <1>3. f \in [1..(n + 1) -> T]
    <2>1. \A i \in 1..(n + 1) : i # n + 1 => i \in 1..n
      BY <1>2
    <2>2. \A i \in 1..(n + 1) : f[i] \in T
      BY <1>2, <2>1
    <2> HIDE DEF T
    <2> QED
      BY <2>2
  <1>4. \A x \in T : \E i \in 1..(n + 1) : f[i] = x
    <2>1. f[n + 1] = 0 /\ n + 1 \in 1..(n + 1)
      BY <1>2
    <2>2. \A i \in 1..n : i \in 1..(n + 1) /\ f[i] = s[i].rnd
      BY <1>2
    <2>3. \A r \in Range(s) : \E i \in 1..n : r = s[i]
      BY <1>2 DEF Range
    <2> HIDE DEF f
    <2> QED
      BY <2>1, <2>2, <2>3
  <1>5. IsFiniteSet(T)
    <2>1. f \in Surjection(1..(n + 1), T)
      <3> HIDE DEF f, T
      <3> QED
        BY <1>3, <1>4 DEF Surjection
    <2>2. IsFiniteSet(1..(n + 1))
      BY <1>2, FS_Interval
    <2> HIDE DEF f, T
    <2> QED
      BY <2>1, <2>2, FS_Surjection
  <1>6. T \subseteq Nat /\ T # {}
    BY <1>1
  <1>7. MaxRound(a) = Max(T)
    BY DEF MaxRound, s
  <1>8. \A r \in Range(s) : r.rnd \in T
    OBVIOUS
  <1> HIDE DEF T
  <1>9. Max(T) \in T /\ \A x \in T : x <= Max(T)
    BY <1>5, <1>6, GreatestOf
  <1> QED
    BY <1>6, <1>7, <1>8, <1>9 DEF s

(* A batch is asked for: one entry for each of its requests.                *)
LEMMA AskIs ==
  ASSUME TodoIs, kind' = kind, NEW a \in ArmRuns, NEW place \in Places, rnd'[a] \in Nat,
         NEW n \in Nat, NEW ids, DOMAIN ids = 1..n, Ask(a, ids, place)
  PROVE  TodoIs'
PROOF
  <1>1. PICK failing \in SUBSET (Range(ids) \ Measured) :
          todo' = [todo EXCEPT ![a] = [i \in DOMAIN ids |->
                    [place |-> place, rnd |-> IF place = "search" THEN rnd'[a] ELSE 1, id |-> ids[i],
                     res |-> IF ids[i] \in failing THEN Infra ELSE Outcome(ids[i])]]]
    BY DEF Ask
  <1> DEFINE Entry(i) == [place |-> place, rnd |-> IF place = "search" THEN rnd'[a] ELSE 1, id |-> ids[i],
                          res |-> IF ids[i] \in failing THEN Infra ELSE Outcome(ids[i])]
             new == [i \in 1..n |-> Entry(i)]
  <1>2. \A i \in 1..n : Entry(i).place \in Places /\ Entry(i).rnd \in Nat
    OBVIOUS
  <1>3. todo' = [todo EXCEPT ![a] = new]
    BY <1>1
  <1> HIDE DEF Entry
  <1>4. new = [i \in 1..n |-> new[i]] /\ DOMAIN new = 1..n /\ \A i \in 1..n : new[i] = Entry(i)
    OBVIOUS
  <1> HIDE DEF new
  <1>5. IsSeq(new)
    BY <1>4, SeqIs
  <1>6. \A t \in Range(new) : t.place \in Places /\ t.rnd \in Nat
    BY <1>2, <1>4 DEF Range
  <1>7. DOMAIN todo' = DOMAIN todo /\ \A b \in DOMAIN todo : todo'[b] = (IF b = a THEN new ELSE todo[b])
    BY <1>3
  <1> QED
    BY <1>5, <1>6, <1>7 DEF TodoIs, ArmRuns

(* The first entry of a batch is recorded.                                  *)
LEMMA RecordIs ==
  ASSUME RowsAre, TodoIs, NEW a \in ArmRuns, Record(a)
  PROVE  /\ RowsAre' /\ TodoIs' /\ kind' = kind /\ searching' = searching
         /\ \A k \in Keys : Range(rows[k]) \subseteq Range(rows'[k])
PROOF
  <1> DEFINE h == Head(todo[a])
             key == <<a, h.place>>
             s == todo[a]
  <1>1. /\ s # <<>> /\ rows' = [rows EXCEPT ![key] = Append(@, Kept(h))]
        /\ todo' = [todo EXCEPT ![a] = Tail(@)] /\ kind' = kind /\ searching' = searching
    BY DEF Record
  <1>2. IsSeq(s) /\ \A t \in Range(s) : t.place \in Places /\ t.rnd \in Nat
    BY DEF TodoIs
  <1>3. Len(s) \in Nat /\ Len(s) # 0 /\ DOMAIN s = 1..Len(s) /\ \A i \in 1..Len(s) : s[i] \in Range(s)
    <2>1. Len(s) \in Nat /\ DOMAIN s = 1..Len(s) /\ \A i \in 1..Len(s) : s[i] \in Range(s)
      BY <1>2, SeqIs
    <2> DEFINE T == Range(s)
    <2>2. s \in Seq(T)
      BY <1>2 DEF IsSeq
    <2> HIDE DEF s, T
    <2>3. Len(s) # 0
      BY <1>1, <2>2
    <2> QED
      BY <2>1, <2>3
  <1>4. h \in Range(s) /\ h.place \in Places /\ h.rnd \in Nat
    <2>1. h = s[1]
      OBVIOUS
    <2>2. 1 \in 1..Len(s)
      BY <1>3
    <2> QED
      BY <1>2, <1>3, <2>1, <2>2
  <1>5. IsSeq(Tail(s)) /\ Range(Tail(s)) \subseteq Range(s)
    <2>1. Tail(s) = [i \in 1..(Len(s) - 1) |-> s[i + 1]]
      OBVIOUS
    <2> DEFINE u == Tail(s)
               n == Len(s) - 1
    <2>2. n \in Nat /\ u = [i \in 1..n |-> s[i + 1]]
      BY <1>3, <2>1
    <2>3. \A i \in 1..n : i + 1 \in 1..Len(s)
      BY <1>3
    <2> HIDE DEF u, n
    <2>4. u = [i \in 1..n |-> u[i]] /\ DOMAIN u = 1..n /\ \A i \in 1..n : u[i] = s[i + 1]
      BY <2>2
    <2>5. IsSeq(u)
      BY <2>2, <2>4, SeqIs
    <2>6. \A r \in Range(u) : r \in Range(s)
      BY <1>3, <2>3, <2>4 DEF Range
    <2> QED
      BY <2>5, <2>6 DEF u
  <1>6. key \in Keys
    BY <1>4 DEF Keys
  <1>7. Kept(h).rnd = h.rnd
    BY DEF Kept
  <1>8. ArmRuns' = ArmRuns /\ Keys' = Keys
    BY <1>1 DEF ArmRuns, Keys, Places
  <1> HIDE DEF key, h
  <1>9. /\ DOMAIN rows' = Keys
        /\ \A k \in Keys : rows'[k] = (IF k = key THEN Append(rows[k], Kept(h)) ELSE rows[k])
    BY <1>1 DEF RowsAre
  <1>10. ASSUME NEW k \in Keys
         PROVE  /\ IsSeq(rows'[k]) /\ Range(rows[k]) \subseteq Range(rows'[k])
                /\ \A r \in Range(rows'[k]) : r.rnd \in Nat
    <2>1. IsSeq(rows[k]) /\ \A r \in Range(rows[k]) : r.rnd \in Nat
      BY DEF RowsAre
    <2>2. CASE k # key
      BY <1>9, <2>1, <2>2
    <2>3. CASE k = key
      <3>1. rows'[k] = Append(rows[k], Kept(h))
        BY <1>9, <2>3
      <3>2. IsSeq(Append(rows[k], Kept(h))) /\ Range(Append(rows[k], Kept(h))) = Range(rows[k]) \cup {Kept(h)}
        BY <2>1, AppendIs
      <3> QED
        BY <1>4, <1>7, <2>1, <3>1, <3>2
    <2> QED
      BY <2>2, <2>3
  <1>11. RowsAre'
    BY <1>8, <1>9, <1>10 DEF RowsAre
  <1>12. TodoIs'
    <2>1. DOMAIN todo' = ArmRuns /\ \A b \in ArmRuns : todo'[b] = (IF b = a THEN Tail(s) ELSE todo[b])
      BY <1>1 DEF TodoIs
    <2> HIDE DEF s
    <2>2. ASSUME NEW b \in ArmRuns
          PROVE  IsSeq(todo'[b]) /\ \A t \in Range(todo'[b]) : t.place \in Places /\ t.rnd \in Nat
      BY <1>2, <1>5, <2>1 DEF TodoIs
    <2> QED
      BY <1>8, <2>1, <2>2 DEF TodoIs, Places
  <1> QED
    BY <1>1, <1>10, <1>11, <1>12

(* What a stage asks for, in the order of a filter, is a sequence.          *)
LEMMA StagesAre ==
  ASSUME RowsAre, NEW a \in ArmRuns, NEW stage
  PROVE  /\ IsSeq(Now(a, stage)) /\ IsSeq(Feasible(Now(a, stage)))
         /\ \E n \in Nat : DOMAIN Lines(Feasible(Now(a, stage))) = 1..n
         /\ \E n \in Nat : DOMAIN Choice(Now(a, stage)) = 1..n
PROOF
  <1> DEFINE s == rows[<<a, "search">>]
             I == {i \in DOMAIN s : s[i].rnd = rnd[a] /\ s[i].id.stage = stage}
             t == Now(a, stage)
             J == {i \in DOMAIN t : Succeeds(t[i].res)}
             u == Feasible(t)
  <1>1. IsSeq(s)
    BY DEF RowsAre, Keys, Places
  <1>2. t = At(s, I)
    BY DEF Now, Of
  <1>3. IsSeq(t)
    <2>1. Len(s) \in Nat /\ DOMAIN s = 1..Len(s) /\ I \in SUBSET (1..Len(s))
      BY <1>1, SeqIs
    <2> HIDE DEF I, s, t
    <2> QED
      BY <1>2, <2>1, AtIs
  <1> HIDE DEF t
  <1>4. u = At(t, J)
    BY DEF Feasible, Of
  <1>5. IsSeq(u) /\ Len(u) \in Nat /\ DOMAIN u = 1..Len(u)
    <2>1. Len(t) \in Nat /\ DOMAIN t = 1..Len(t) /\ J \in SUBSET (1..Len(t))
      BY <1>3, SeqIs
    <2> HIDE DEF J, u
    <2>2. IsSeq(u)
      BY <1>4, <2>1, AtIs
    <2> QED
      BY <2>2, SeqIs
  <1>6. DOMAIN Lines(u) = 1..Len(u)
    BY <1>5 DEF Lines
  <1>7. DOMAIN Choice(t) = 1..Min({RouteTop, Len(u)})
    BY DEF Choice, Lines, Sorted
  <1>8. Min({RouteTop, Len(u)}) \in Nat
    <2> DEFINE T == {RouteTop, Len(u)}
    <2>1. T \subseteq Nat /\ T # {}
      BY <1>5, LoopAssumption
    <2> HIDE DEF T
    <2>2. Min(T) \in T
      BY <2>1, LeastOf
    <2> QED
      BY <2>1, <2>2 DEF T
  <1> HIDE DEF u
  <1> QED
    BY <1>3, <1>5, <1>6, <1>7, <1>8 DEF t, u

(* What is proposed is a batch.                                             *)
LEMMA ProposalsAre ==
  ASSUME RoundsAre, NEW a \in ArmRuns, NEW cs \in Proposals(a)
  PROVE  DOMAIN cs = 1..Batch /\ Batch \in Nat
PROOF
  <1> DEFINE c == Call(a)
  <1>1. c \in Int /\ Batch \in Nat
    BY LoopAssumption DEF Call, RoundsAre
  <1>2. CASE Random(a)
    <2>1. cs = SubSeq(Drawn[a], c * Batch + 1, (c + 1) * Batch)
      BY <1>2 DEF Proposals
    <2>2. DOMAIN cs = 1..(1 + (c + 1) * Batch - (c * Batch + 1))
      BY <2>1
    <2> HIDE DEF c
    <2>3. (c + 1) * Batch = c * Batch + Batch /\ c * Batch \in Int
      BY <1>1
    <2>4. \A p \in Int : 1 + (p + Batch) - (p + 1) = Batch
      BY <1>1
    <2> QED
      BY <1>1, <2>2, <2>3, <2>4
  <1>3. CASE ~Random(a)
    BY <1>1, <1>3 DEF Proposals
  <1> QED
    BY <1>2, <1>3

(* A step of an arm-run adds rows, and keeps the types.                     *)
LEMMA SearchIs ==
  ASSUME RowsAre, TodoIs, RoundsAre, NEW a \in ArmRuns, Search(a)
  PROVE  /\ RowsAre' /\ TodoIs' /\ RoundsAre' /\ kind' = kind
         /\ \A k \in Keys : Range(rows[k]) \subseteq Range(rows'[k])
PROOF
  <1>1. ASSUME kind' = kind, rows' = rows
        PROVE  RowsAre' /\ \A k \in Keys : Range(rows[k]) \subseteq Range(rows'[k])
    BY <1>1 DEF RowsAre, Keys, ArmRuns, Places
  <1>2. ASSUME kind' = kind, todo' = todo PROVE TodoIs'
    BY <1>2 DEF TodoIs, ArmRuns, Places
  <1>3. ASSUME kind' = kind, searching' = searching PROVE RoundsAre' /\ rnd'[a] \in Nat
    BY <1>3 DEF RoundsAre, ArmRuns, searching
  <1>4. CASE Record(a)
    BY <1>3, <1>4, RecordIs
  <1>5. CASE Enter(a)
    <2>1. MaxRound(a) \in Nat /\ MaxRound(a) + Rounds \in Nat
      <3>1. MaxRound(a) \in Nat
        BY MaxRoundIs
      <3>2. Rounds \in Nat
        BY LoopAssumption
      <3> QED
        BY <3>1, <3>2
    <2>2. RoundsAre'
      BY <1>5, <2>1 DEF Enter, RoundsAre, ArmRuns
    <2> QED
      BY <1>1, <1>2, <1>5, <2>2 DEF Enter
  <1>6. CASE EnterLottery(a)
    <2> DEFINE n == Rounds * RouteTop
               ids == [i \in DOMAIN LotterySeeds |-> Id("route", DefaultKnobs, LotterySeeds[i])]
    <2>1. n \in Nat /\ DOMAIN ids = 1..n
      BY LoopAssumption DEF LotterySeeds
    <2>2. RoundsAre' /\ rnd'[a] \in Nat
      BY <1>6 DEF EnterLottery, RoundsAre, ArmRuns
    <2>3. Ask(a, ids, "search") /\ kind' = kind /\ rows' = rows
      BY <1>6 DEF EnterLottery
    <2> HIDE DEF n, ids
    <2>4. "search" \in Places
      BY DEF Places
    <2>5. TodoIs'
      BY <2>1, <2>2, <2>3, <2>4, AskIs
    <2> QED
      BY <1>1, <2>2, <2>3, <2>5
  <1>7. CASE Propose(a)
    <2>1. PICK cs \in Proposals(a) : Ask(a, Requests("proxy", cs), "search")
      BY <1>7 DEF Propose
    <2>2. DOMAIN Requests("proxy", cs) = 1..Batch /\ Batch \in Nat
      BY ProposalsAre DEF Requests
    <2>3. RoundsAre' /\ rnd'[a] \in Nat /\ kind' = kind /\ rows' = rows
      BY <1>7 DEF Propose, RoundsAre, ArmRuns
    <2>4. "search" \in Places
      BY DEF Places
    <2>5. TodoIs'
      BY <2>1, <2>2, <2>3, <2>4, AskIs
    <2> QED
      BY <1>1, <2>3, <2>5
  <1>8. CASE ProposeRaises(a)
    BY <1>1, <1>2, <1>3, <1>8 DEF ProposeRaises
  <1>9. ASSUME NEW stage, NEW cs, Ask(a, Requests(stage, cs), "search"), \E n \in Nat : DOMAIN cs = 1..n,
               UNCHANGED <<kind, rows, last>>, rnd' = rnd
        PROVE  RowsAre' /\ TodoIs' /\ RoundsAre' /\ kind' = kind /\ \A k \in Keys : Range(rows[k]) \subseteq Range(rows'[k])
    <2>1. PICK n \in Nat : DOMAIN Requests(stage, cs) = 1..n
      BY <1>9 DEF Requests
    <2>2. RoundsAre' /\ rnd'[a] \in Nat /\ kind' = kind /\ rows' = rows
      BY <1>9 DEF RoundsAre, ArmRuns
    <2>3. "search" \in Places
      BY DEF Places
    <2>4. TodoIs'
      BY <1>9, <2>1, <2>2, <2>3, AskIs
    <2> QED
      BY <1>1, <2>2, <2>4
  <1>10. CASE ScreenByGrt(a)
    <2> DEFINE cs == Lines(Feasible(Now(a, "proxy")))
    <2>1. Ask(a, Requests("grt", cs), "search") /\ UNCHANGED <<kind, rows, last>> /\ rnd' = rnd
      BY <1>10 DEF ScreenByGrt
    <2>2. \E n \in Nat : DOMAIN cs = 1..n
      BY StagesAre
    <2> HIDE DEF cs
    <2> QED
      BY <1>9, <2>1, <2>2
  <1>11. CASE RouteByHpwl(a) \/ RouteByGrt(a)
    <2>1. PICK stage \in Stages : Route(a, stage)
      BY <1>11 DEF RouteByHpwl, RouteByGrt, Stages
    <2> DEFINE cs == Choice(Now(a, stage))
    <2>2. Ask(a, Requests("route", cs), "search") /\ UNCHANGED <<kind, rows, last>> /\ rnd' = rnd
      BY <2>1 DEF Route
    <2>3. \E n \in Nat : DOMAIN cs = 1..n
      BY StagesAre
    <2> HIDE DEF cs
    <2> QED
      BY <1>9, <2>2, <2>3
  <1>12. CASE EndRound(a)
    BY <1>1, <1>2, <1>3, <1>12 DEF EndRound
  <1> QED
    BY <1>4, <1>5, <1>6, <1>7, <1>8, <1>10, <1>11, <1>12 DEF Search

(* Successes that keep a row are kept.                                      *)
LEMMA MeasuredGrows ==
  ASSUME kind' = kind,
         \A k \in Keys : \A r \in Range(rows[k]) : Succeeds(r.res) => \E l \in Keys : r \in Range(rows'[l])
  PROVE  Measured \subseteq Measured'
PROOF
  <1>1. ArmRuns' = ArmRuns
    BY DEF ArmRuns
  <1>2. /\ AllRows = UNION {Range(rows[k]) : k \in Keys}
        /\ AllRows' = UNION {Range(rows'[k]) : k \in Keys}
    BY <1>1 DEF AllRows, Keys, Places
  <1>3. ASSUME NEW r \in AllRows, Succeeds(r.res) PROVE r \in AllRows'
    BY <1>2, <1>3
  <1>4. Measured' = {r.id : r \in {x \in AllRows' : Succeeds(x.res)}}
    BY DEF Measured, Succeeds, Bad, Infra
  <1> QED
    BY <1>3, <1>4 DEF Measured

(* Rows that are only appended keep them.                                   *)
LEMMA GrowthKeeps ==
  ASSUME kind' = kind, \A k \in Keys : Range(rows[k]) \subseteq Range(rows'[k])
  PROVE  Measured \subseteq Measured'
PROOF
  BY MeasuredGrows

(* A repair moves the successes into the cache and leaves none behind.      *)
LEMMA RepairIs ==
  ASSUME IInv1, Repair
  PROVE  RowsAre' /\ NothingToLose' /\ jobs' \subseteq ArmRuns /\ Measured \subseteq Measured'
PROOF
  <1>1. /\ kind' = kind /\ jobs' = InfraFailed /\ xpc' = "copied" /\ rows' = SetAside(InfraFailed)
        /\ InfraFailed \subseteq ArmRuns
    BY DEF Repair, InfraFailed
  <1>2. ArmRuns' = ArmRuns /\ Keys' = Keys
    BY <1>1 DEF ArmRuns, Keys, Places
  <1>3. /\ DOMAIN rows' = Keys
        /\ \A k \in Keys : rows'[k] =
             (IF k[1] \notin InfraFailed THEN rows[k]
              ELSE IF k[2] = "cache"
                   THEN rows[k] \o Good(rows[<<k[1], "search">>]) \o Good(rows[<<k[1], "validate">>])
              ELSE Rest(rows[k]))
    BY <1>1 DEF SetAside, SetAsideWith, IInv1, RowsAre
  <1>4. \A k \in Keys : IsSeq(rows[k]) /\ \A r \in Range(rows[k]) : r.rnd \in Nat
    BY DEF IInv1, RowsAre
  <1>5. ASSUME NEW k \in Keys, k[1] \in InfraFailed, k[2] # "cache"
        PROVE  IsSeq(rows'[k]) /\ Range(rows'[k]) = {r \in Range(rows[k]) : ~Succeeds(r.res)}
    BY <1>3, <1>4, <1>5, FiltersAre
  <1>6. ASSUME NEW k \in Keys, k[1] \in InfraFailed, k[2] = "cache"
        PROVE  /\ IsSeq(rows'[k]) /\ <<k[1], "search">> \in Keys /\ <<k[1], "validate">> \in Keys
               /\ Range(rows'[k]) = Range(rows[k])
                    \cup {r \in Range(rows[<<k[1], "search">>]) : Succeeds(r.res)}
                    \cup {r \in Range(rows[<<k[1], "validate">>]) : Succeeds(r.res)}
    <2> DEFINE s == rows[k]
               t == Good(rows[<<k[1], "search">>])
               u == Good(rows[<<k[1], "validate">>])
    <2>1. <<k[1], "search">> \in Keys /\ <<k[1], "validate">> \in Keys
      BY DEF Keys, Places
    <2>2. /\ IsSeq(s) /\ IsSeq(t) /\ IsSeq(u)
          /\ Range(t) = {r \in Range(rows[<<k[1], "search">>]) : Succeeds(r.res)}
          /\ Range(u) = {r \in Range(rows[<<k[1], "validate">>]) : Succeeds(r.res)}
      BY <1>4, <2>1, FiltersAre
    <2>3. rows'[k] = (s \o t) \o u
      BY <1>3, <1>6
    <2> HIDE DEF s, t, u
    <2>4. IsSeq(s \o t) /\ Range(s \o t) = Range(s) \cup Range(t)
      BY <2>2, ConcatIs
    <2>5. IsSeq((s \o t) \o u) /\ Range((s \o t) \o u) = Range(s \o t) \cup Range(u)
      BY <2>2, <2>4, ConcatIs
    <2> QED
      BY <2>1, <2>2, <2>3, <2>4, <2>5 DEF s
  <1>7. \A k \in Keys : k[1] \notin InfraFailed => rows'[k] = rows[k]
    BY <1>3
  <1>8. RowsAre'
    <2>1. ASSUME NEW k \in Keys PROVE IsSeq(rows'[k]) /\ \A r \in Range(rows'[k]) : r.rnd \in Nat
      <3>1. CASE k[1] \notin InfraFailed
        BY <1>4, <1>7, <3>1
      <3>2. CASE k[1] \in InfraFailed /\ k[2] # "cache"
        BY <1>4, <1>5, <3>2
      <3>3. CASE k[1] \in InfraFailed /\ k[2] = "cache"
        BY <1>4, <1>6, <3>3
      <3> QED
        BY <3>1, <3>2, <3>3
    <2> QED
      BY <1>2, <1>3, <2>1 DEF RowsAre
  <1>9. NothingToLose'
    <2>1. ASSUME NEW k \in Keys, k[1] \in InfraFailed, k[2] # "cache", NEW r \in Range(rows'[k])
          PROVE  ~Succeeds(r.res)
      BY <1>5, <2>1
    <2>2. \A x : Succeeds(x)' <=> Succeeds(x)
      BY DEF Succeeds, Bad, Infra
    <2> QED
      BY <1>1, <1>2, <2>1, <2>2 DEF NothingToLose
  <1>10. Measured \subseteq Measured'
    <2>1. ASSUME NEW k \in Keys, NEW r \in Range(rows[k]), Succeeds(r.res)
          PROVE  \E l \in Keys : r \in Range(rows'[l])
      <3>1. CASE k[1] \notin InfraFailed
        BY <1>7, <3>1
      <3>2. CASE k[1] \in InfraFailed /\ k[2] = "cache"
        BY <1>6, <3>2
      <3>3. CASE k[1] \in InfraFailed /\ k[2] # "cache"
        <4> DEFINE c == <<k[1], "cache">>
        <4>1. c \in Keys /\ c[1] = k[1] /\ c[2] = "cache"
          BY DEF Keys, Places
        <4>2. k = <<k[1], "search">> \/ k = <<k[1], "validate">>
          BY <3>3 DEF Keys, Places
        <4> HIDE DEF c
        <4>3. r \in Range(rows'[c])
          BY <1>6, <2>1, <3>3, <4>1, <4>2
        <4> QED
          BY <4>1, <4>3
      <3> QED
        BY <3>1, <3>2, <3>3
    <2> QED
      BY <1>1, <2>1, MeasuredGrows
  <1> QED
    BY <1>1, <1>8, <1>9, <1>10

(* The purge deletes what has no success.                                   *)
LEMMA PurgeIs ==
  ASSUME IInv1, Purge
  PROVE  RowsAre' /\ Measured \subseteq Measured'
PROOF
  <1>1. /\ kind' = kind /\ xpc = "copied" /\ DOMAIN rows' = DOMAIN rows
        /\ \A k \in DOMAIN rows : rows'[k] = (IF k[1] \in jobs /\ k[2] # "cache" THEN <<>> ELSE rows[k])
    BY DEF Purge
  <1>2. ArmRuns' = ArmRuns /\ Keys' = Keys /\ DOMAIN rows = Keys
    BY <1>1 DEF ArmRuns, Keys, Places, IInv1, RowsAre
  <1>3. IsSeq(<<>>) /\ Range(<<>>) = {}
    BY DEF IsSeq, Range
  <1>4. RowsAre'
    <2>1. ASSUME NEW k \in Keys PROVE IsSeq(rows'[k]) /\ \A r \in Range(rows'[k]) : r.rnd \in Nat
      <3>1. rows'[k] = <<>> \/ rows'[k] = rows[k]
        BY <1>1, <1>2
      <3>2. IsSeq(rows[k]) /\ \A r \in Range(rows[k]) : r.rnd \in Nat
        BY DEF IInv1, RowsAre
      <3>3. CASE rows'[k] = <<>>
        BY <1>3, <3>3
      <3> QED
        BY <3>1, <3>2, <3>3
    <2> QED
      BY <1>1, <1>2, <2>1 DEF RowsAre
  <1>5. ASSUME NEW k \in Keys, NEW r \in Range(rows[k]), Succeeds(r.res)
        PROVE  \E l \in Keys : r \in Range(rows'[l])
    <2>1. ~(k[1] \in jobs /\ k[2] # "cache")
      BY <1>1, <1>5 DEF IInv1, NothingToLose
    <2> QED
      BY <1>1, <1>2, <1>5, <2>1
  <1> QED
    BY <1>1, <1>4, <1>5, MeasuredGrows

(* The first experiment begins in its invariant.                            *)
LEMMA InitInvariant1 == InitV1 => IInv1
PROOF
  <1> SUFFICES ASSUME InitV1 PROVE IInv1
    OBVIOUS
  <1>1. /\ rows = [k \in Keys |-> <<>>] /\ rnd = [a \in ArmRuns |-> 0] /\ last = [a \in ArmRuns |-> 0]
        /\ todo = [a \in ArmRuns |-> <<>>] /\ xpc = "off" /\ jobs = {}
    BY DEF InitV1, Keys
  <1>2. IsSeq(<<>>) /\ Range(<<>>) = {}
    BY DEF IsSeq, Range
  <1>3. RowsAre /\ TodoIs
    BY <1>1, <1>2 DEF RowsAre, TodoIs
  <1> QED
    BY <1>1, <1>3 DEF IInv1, RoundsAre, NothingToLose

(* The end of a start drops what is not recorded.                           *)
LEMMA StopIs ==
  ASSUME IInv1, Stop, UNCHANGED <<kind, rows, searching>>
  PROVE  IInv1' /\ Measured \subseteq Measured'
PROOF
  <1>1. /\ kind' = kind /\ rows' = rows /\ rnd' = rnd /\ last' = last /\ xpc' = "off" /\ jobs' = {}
        /\ todo' = [a \in ArmRuns |-> <<>>]
    BY DEF Stop, searching
  <1>2. ArmRuns' = ArmRuns /\ Keys' = Keys
    BY <1>1 DEF ArmRuns, Keys, Places
  <1>3. IsSeq(<<>>) /\ Range(<<>>) = {}
    BY DEF IsSeq, Range
  <1>4. TodoIs'
    BY <1>1, <1>2, <1>3 DEF TodoIs
  <1>5. RowsAre' /\ RoundsAre'
    BY <1>1, <1>2 DEF IInv1, RowsAre, RoundsAre
  <1>6. Measured \subseteq Measured'
    BY <1>1, GrowthKeeps
  <1> QED
    BY <1>1, <1>4, <1>5, <1>6 DEF IInv1, NothingToLose

(* A batch or a record of a start that is not about to purge.               *)
LEMMA BatchKeeps ==
  ASSUME RowsAre', TodoIs', RoundsAre', jobs' \subseteq ArmRuns, kind' = kind, xpc' # "copied",
         \A k \in Keys : Range(rows[k]) \subseteq Range(rows'[k])
  PROVE  IInv1' /\ Measured \subseteq Measured'
PROOF
  <1>1. ArmRuns' = ArmRuns
    BY DEF ArmRuns
  <1>2. NothingToLose'
    BY DEF NothingToLose
  <1>3. Measured \subseteq Measured'
    BY GrowthKeeps
  <1> QED
    BY <1>1, <1>2, <1>3 DEF IInv1

(* Every step keeps the parts, and each success that was recorded.          *)
LEMMA InvariantStep1 ==
  ASSUME IInv1, [NextV1]_vars1
  PROVE  IInv1' /\ Measured \subseteq Measured'
PROOF
  <1>1. RowsAre /\ TodoIs /\ RoundsAre /\ jobs \subseteq ArmRuns
    BY DEF IInv1
  <1>2. ASSUME UNCHANGED <<kind, rows, searching, todo>>, jobs' \subseteq ArmRuns, xpc' # "copied"
        PROVE  IInv1' /\ Measured \subseteq Measured'
    <2>1. kind' = kind /\ rows' = rows /\ rnd' = rnd /\ last' = last /\ todo' = todo
      BY <1>2 DEF searching
    <2>2. ArmRuns' = ArmRuns /\ Keys' = Keys
      BY <2>1 DEF ArmRuns, Keys, Places
    <2>3. RowsAre' /\ TodoIs' /\ RoundsAre'
      BY <1>1, <2>1, <2>2 DEF RowsAre, TodoIs, RoundsAre, Places
    <2> QED
      BY <1>2, <2>1, <2>3, BatchKeeps
  <1>3. ASSUME RunExperiment PROVE IInv1' /\ Measured \subseteq Measured'
    BY <1>2, <1>3 DEF RunExperiment, Launch
  <1>4. ASSUME ArmStep PROVE IInv1' /\ Measured \subseteq Measured'
    <2>1. PICK a \in ArmRuns : Search(a)
      BY <1>1, <1>4 DEF ArmStep
    <2>2. xpc' # "copied" /\ jobs' \subseteq ArmRuns
      BY <1>1, <1>4 DEF ArmStep, driving
    <2>3. /\ RowsAre' /\ TodoIs' /\ RoundsAre' /\ kind' = kind
          /\ \A k \in Keys : Range(rows[k]) \subseteq Range(rows'[k])
      BY <1>1, <2>1, SearchIs
    <2> QED
      BY <2>2, <2>3, BatchKeeps
  <1>5. ASSUME ArmOutOfTime \/ MapEnds \/ EndValidation PROVE IInv1' /\ Measured \subseteq Measured'
    <2>1. UNCHANGED <<kind, rows, searching, todo>> /\ jobs' = jobs /\ xpc' # "copied"
      BY <1>5 DEF ArmOutOfTime, MapEnds, EndValidation, driving
    <2> QED
      BY <1>1, <1>2, <2>1
  <1>6. ASSUME MapRaises \/ Write \/ Kill PROVE IInv1' /\ Measured \subseteq Measured'
    <2>1. Stop /\ UNCHANGED <<kind, rows, searching>>
      BY <1>6 DEF MapRaises, Write, Kill
    <2> QED
      BY <2>1, StopIs
  <1>7. ASSUME Validate PROVE IInv1' /\ Measured \subseteq Measured'
    <2>1. PICK a \in jobs : \/ UNCHANGED todo
                            \/ Ask(a, HeldOut(a), "validate")
      BY <1>7 DEF Validate, First
    <2>2. /\ kind' = kind /\ rows' = rows /\ rnd' = rnd /\ last' = last /\ jobs' = jobs /\ xpc' # "copied"
      BY <1>7 DEF Validate, searching, driving
    <2>3. CASE UNCHANGED todo
      BY <1>1, <1>2, <2>2, <2>3 DEF searching
    <2>4. CASE Ask(a, HeldOut(a), "validate")
      <3>1. Len(HeldOutSeeds) \in Nat /\ DOMAIN HeldOut(a) = 1..Len(HeldOutSeeds)
        BY LoopAssumption DEF HeldOut
      <3>2. a \in ArmRuns /\ rnd'[a] \in Nat /\ "validate" \in Places
        BY <1>1, <2>2 DEF RoundsAre, Places
      <3>3. TodoIs'
        BY <1>1, <2>2, <2>4, <3>1, <3>2, AskIs
      <3>4. ArmRuns' = ArmRuns /\ Keys' = Keys
        BY <2>2 DEF ArmRuns, Keys, Places
      <3>5. RowsAre' /\ RoundsAre'
        BY <1>1, <2>2, <3>4 DEF RowsAre, RoundsAre
      <3> QED
        BY <1>1, <2>2, <3>3, <3>5, BatchKeeps
    <2> QED
      BY <2>1, <2>3, <2>4
  <1>8. ASSUME RecordValidation PROVE IInv1' /\ Measured \subseteq Measured'
    <2>1. PICK a \in ArmRuns : Record(a)
      BY <1>1, <1>8 DEF RecordValidation
    <2>2. xpc' # "copied" /\ jobs' \subseteq ArmRuns
      BY <1>1, <1>8 DEF RecordValidation, driving
    <2>3. /\ RowsAre' /\ TodoIs' /\ kind' = kind /\ searching' = searching
          /\ \A k \in Keys : Range(rows[k]) \subseteq Range(rows'[k])
      BY <1>1, <2>1, RecordIs
    <2>4. RoundsAre'
      BY <1>1, <2>3 DEF RoundsAre, searching, ArmRuns
    <2> QED
      BY <2>2, <2>3, <2>4, BatchKeeps
  <1>9. ASSUME Repair PROVE IInv1' /\ Measured \subseteq Measured'
    <2>1. kind' = kind /\ todo' = todo /\ rnd' = rnd /\ last' = last
      BY <1>9 DEF Repair, searching
    <2>2. TodoIs' /\ RoundsAre' /\ ArmRuns' = ArmRuns
      BY <1>1, <2>1 DEF TodoIs, RoundsAre, ArmRuns, Places
    <2>3. RowsAre' /\ NothingToLose' /\ jobs' \subseteq ArmRuns /\ Measured \subseteq Measured'
      BY <1>9, RepairIs
    <2> QED
      BY <2>2, <2>3 DEF IInv1
  <1>10. ASSUME Purge PROVE IInv1' /\ Measured \subseteq Measured'
    <2>1. kind' = kind /\ todo' = todo /\ rnd' = rnd /\ last' = last /\ jobs' = jobs /\ xpc' = "search"
      BY <1>10 DEF Purge, Launch, searching
    <2>2. TodoIs' /\ RoundsAre' /\ ArmRuns' = ArmRuns
      BY <1>1, <2>1 DEF TodoIs, RoundsAre, ArmRuns, Places
    <2>3. RowsAre' /\ Measured \subseteq Measured'
      BY <1>10, PurgeIs
    <2> QED
      BY <1>1, <2>1, <2>2, <2>3 DEF IInv1, NothingToLose
  <1>11. ASSUME UNCHANGED vars1 PROVE IInv1' /\ Measured \subseteq Measured'
    <2>1. /\ kind' = kind /\ rows' = rows /\ rnd' = rnd /\ last' = last /\ todo' = todo /\ jobs' = jobs
          /\ xpc' = xpc
      BY <1>11 DEF vars1, searching, driving
    <2>2. ArmRuns' = ArmRuns /\ Keys' = Keys
      BY <2>1 DEF ArmRuns, Keys, Places
    <2>3. IInv1'
      BY <2>1, <2>2 DEF IInv1, RowsAre, TodoIs, RoundsAre, NothingToLose, Places, Succeeds, Bad, Infra
    <2>4. Measured \subseteq Measured'
      BY <2>1, GrowthKeeps
    <2> QED
      BY <2>3, <2>4
  <1> QED
    BY <1>3, <1>4, <1>5, <1>6, <1>7, <1>8, <1>9, <1>10, <1>11 DEF NextV1, Over1

-----------------------------------------------------------------------------
(* The scripts of Driver: a database belongs to one of them, the parts of   *)
(* the others do not move.                                                  *)
DInv ==
  /\ script = "v1" => IInv1
  /\ IF script = "v2" THEN IInv2 ELSE step2 = "off"
  /\ IF script = "final" THEN IInv ELSE pc = "off" /\ settled = None

(* The scripts begin in it.                                                 *)
LEMMA DriverInitially == DriverInit => DInv
PROOF
  <1>1. CASE script = "v1" /\ InitV1 /\ Unused2 /\ UnusedFinal
    BY <1>1, InitInvariant1 DEF DInv, Unused2, UnusedFinal
  <1>2. CASE script = "v2" /\ InitV2 /\ Unused1 /\ UnusedFinal
    BY <1>2, InitInvariant2 DEF DInv, UnusedFinal
  <1>3. CASE script = "final" /\ Init /\ Unused1 /\ Unused2
    BY <1>3, InitInvariant DEF DInv, Unused2
  <1> QED
    BY <1>1, <1>2, <1>3 DEF DriverInit

(* Every script's step keeps its part.                                      *)
LEMMA DriverStep ==
  ASSUME DInv, [DriverNext]_all
  PROVE  /\ DInv' /\ (DOMAIN incumbent = IncumbentSeeds => incumbent' = incumbent)
         /\ Measured \subseteq Measured' \/ UNCHANGED vars1
PROOF
  <1>1. script' = script
    BY DEF DriverNext, Experiment1, Experiment2, FinalRound2, all
  <1>2. IF script = "v2" THEN [NextV2]_vars2 ELSE UNCHANGED vars2
    BY DEF DriverNext, Experiment1, Experiment2, FinalRound2, all
  <1>3. IF script = "final" THEN [Next]_vars ELSE UNCHANGED vars
    BY DEF DriverNext, Experiment1, Experiment2, FinalRound2, all, finals
  <1> DEFINE Kept1 == (script = "v1" => IInv1') /\ (Measured \subseteq Measured' \/ UNCHANGED vars1)
  <1>4. Kept1
    <2>1. IF script = "v1" THEN [NextV1]_vars1 ELSE UNCHANGED vars1
      BY DEF DriverNext, Experiment1, Experiment2, FinalRound2, all
    <2>2. CASE script = "v1"
      <3>1. [NextV1]_vars1
        BY <2>1, <2>2
      <3>2. IInv1
        BY <2>2 DEF DInv
      <3> QED
        BY <3>1, <3>2, InvariantStep1
    <2>3. CASE script # "v1"
      BY <2>1, <2>3
    <2> QED
      BY <2>2, <2>3
  <1> HIDE DEF Kept1
  <1>5. CASE script = "v2"
    <2>1. IInv2' /\ (DOMAIN incumbent = IncumbentSeeds => incumbent' = incumbent)
      BY <1>2, <1>5, InvariantStep2 DEF DInv
    <2>2. pc' = "off" /\ settled' = None
      BY <1>3, <1>5 DEF DInv, vars
    <2> QED
      BY <1>1, <1>5, <1>4, <2>1, <2>2 DEF DInv, Kept1
  <1>6. CASE script # "v2"
    <2>1. step2' = "off" /\ incumbent' = incumbent
      BY <1>2, <1>6 DEF DInv, vars2
    <2>2. script = "final" => IInv'
      BY <1>3, InvariantStep DEF DInv
    <2>3. script # "final" => pc' = "off" /\ settled' = None
      BY <1>3 DEF DInv, vars
    <2> QED
      BY <1>1, <1>6, <1>4, <2>1, <2>2, <2>3 DEF DInv, Kept1
  <1> QED
    BY <1>5, <1>6

(* What DInv names holds of every state of every script.                    *)
THEOREM DriverInductive == DriverSpec => []DInv
PROOF
  <1>1. DInv /\ [DriverNext]_all => DInv'
    BY DriverStep
  <1> QED
    BY <1>1, DriverInitially, PTL DEF DriverSpec

(* revalidate.py runs no validation again that was a success before it or   *)
(* that a log shows to have ended since, and once everything is answered    *)
(* the comparison has the pairs it had, if there is no --orfs-var.          *)
THEOREM LateValidationReplays == DriverSpec => []RevalidateReplays
PROOF
  <1>1. DInv => RevalidateReplays
    BY ReplaysFollow DEF DInv, RevalidateReplays
  <1> QED
    BY <1>1, DriverInductive, PTL

(* The incumbent that the searching arm-runs are shown does not move once   *)
(* it covers all its seeds, however often the default arm is run again.     *)
THEOREM IncumbentIsStable == DriverSpec => IncumbentStands
PROOF
  <1>1. DInv /\ [DriverNext]_all => [DOMAIN incumbent = IncumbentSeeds => incumbent' = incumbent]_vars2
    BY DriverStep
  <1> QED
    BY <1>1, DriverInductive, PTL DEF DriverSpec, IncumbentStands

(* The final round's pick settles and is earned under the scripts, too.     *)
THEOREM FinalRoundOfDriver == DriverSpec => [](SettledStays /\ PickEarned)
PROOF
  <1>1. DInv => SettledStays /\ PickEarned
    <2>1. CASE script = "final"
      BY <2>1, SettledFollows, EarnedFollows DEF DInv
    <2>2. CASE script # "final"
      BY <2>2 DEF DInv, SettledStays, PickEarned
    <2> QED
      BY <2>1, <2>2
  <1> QED
    BY <1>1, DriverInductive, PTL

(* No step of the first experiment, of a kill or of a repair loses a        *)
(* success that was recorded: it stays in the rows that are replayed.       *)
THEOREM SuccessesAreKept == DriverSpec => SuccessesKept
PROOF
  <1>1. DInv /\ [DriverNext]_all => [Measured \subseteq Measured']_vars1
    BY DriverStep
  <1> QED
    BY <1>1, DriverInductive, PTL DEF DriverSpec, SuccessesKept

-----------------------------------------------------------------------------
(* The first experiment, more closely: where its arm-runs are, what its     *)
(* rows say, and what they owe to the generator and to the placer.          *)
Hist(a) == rows[<<a, "search">>]
Looping == {"round", "proxy", "grt", "route"}
Stations == Looping \cup {"idle", "queued", "searched", "late", "raised", "validating", "validated"}

(* An arm-run is where the experiment's own phase lets it be.               *)
StationIs(a) ==
  /\ a \notin jobs \/ xpc \in {"off", "copied"} => at[a] = "idle"
  /\ a \in jobs /\ xpc = "search" => at[a] \in Looping \cup {"queued", "searched", "late", "raised"}
  /\ a \in jobs /\ xpc = "validate" => at[a] \in {"searched", "late", "validating", "validated"}

(* A batch runs at its stage only, and is of the search or of the held-out  *)
(* seeds.                                                                   *)
BatchIs(a) ==
  /\ at[a] \notin {"proxy", "grt", "route", "validating"} => todo[a] = <<>>
  /\ \A t \in Range(todo[a]) : t.place = (IF at[a] = "validating" THEN "validate" ELSE "search")

(* The rounds of a start follow those that have rows; the seed lottery has  *)
(* one.                                                                     *)
CallIs(a) ==
  /\ rnd[a] <= last[a]
  /\ at[a] = "searched" => rnd[a] = last[a]
  /\ kind[a] = "default_seeds" => at[a] \notin {"round", "proxy", "grt"} /\ (at[a] = "route" => rnd[a] = last[a])
  /\ kind[a] # "default_seeds" /\ at[a] = "round" => last[a] - Rounds <= rnd[a]
  /\ kind[a] # "default_seeds" /\ at[a] \in {"proxy", "grt", "route"} => last[a] - Rounds < rnd[a]

Located ==
  /\ xpc \in {"off", "search", "validate", "copied"}
  /\ \E x \in Lineups : kind = x.arms
  /\ at \in [ArmRuns -> Stations]
  /\ \A a \in ArmRuns : StationIs(a) /\ BatchIs(a) /\ CallIs(a)

(* A row says what its identity is evaluated to, or that it failed for the  *)
(* infrastructure; what a repair set aside are successes.                   *)
Asked(id) == /\ id.stage \in Stages /\ id.cfg \in PlacerConfigs
             /\ id.seed \in {SearchSeed} \cup Range(LotterySeeds) \cup Range(HeldOutSeeds)
Truthful(r) == r.rnd \in Nat /\ Asked(r.id) /\ r.res \in {Infra, Outcome(r.id)}
Truths ==
  /\ \A k \in Keys : \A r \in Range(rows[k]) : Truthful(r) /\ (k[2] = "cache" => Succeeds(r.res))
  /\ \A a \in ArmRuns : \A t \in Range(todo[a]) : Truthful(t)

(* A new round is above every row of the search; its stages follow another. *)
NewestRound(a) ==
  kind[a] # "default_seeds" =>
    /\ at[a] \in Looping => \A r \in Range(Hist(a)) : r.rnd <= rnd[a]
    /\ at[a] \in {"proxy", "grt", "route"} => \A t \in Range(todo[a]) : t.rnd = rnd[a] /\ t.id.stage = at[a]
    /\ at[a] = "proxy" => \A r \in Range(Hist(a)) : r.rnd = rnd[a] => r.id.stage = "proxy"

(* What the proxy-only arm routes succeeded in the placer in the same round,*)
(* a candidate that is routed twice did so twice.                           *)
RoutedRow(r) == r.id.stage = "route" /\ Succeeds(r.res)
PlacedRow(r) == r.id.stage = "proxy" /\ Succeeds(r.res)
RoutedAlike(r, u) == RoutedRow(r) /\ RoutedRow(u) /\ r.id.cfg = u.id.cfg /\ r.rnd = u.rnd
PlacedTwice(h, c) ==
  \E p, q \in DOMAIN h : p # q /\ PlacedRow(h[p]) /\ PlacedRow(h[q]) /\ h[p].id.cfg = c /\ h[q].id.cfg = c
PlacedIn(h, n, c) == \E p \in Range(h) : PlacedRow(p) /\ p.id.cfg = c /\ p.rnd = n
RowsBacked(h) ==
  /\ \A r \in Range(h) : r.id.stage # "grt" /\ (RoutedRow(r) => PlacedIn(h, r.rnd, r.id.cfg))
  /\ \A i, j \in DOMAIN h : i # j /\ RoutedAlike(h[i], h[j]) => PlacedTwice(h, h[i].id.cfg)
BatchBacked(h, n, s) ==
  /\ \A t \in Range(s) : PlacedIn(h, n, t.id.cfg)
  /\ \A k, l \in DOMAIN s : k # l /\ s[k].id.cfg = s[l].id.cfg => PlacedTwice(h, s[k].id.cfg)
  /\ \A r \in Range(h), t \in Range(s) :
       RoutedRow(r) /\ r.rnd = n /\ r.id.cfg = t.id.cfg => PlacedTwice(h, t.id.cfg)
Backed(a) ==
  kind[a] = "llm_proxy" =>
    /\ at[a] # "grt" /\ RowsBacked(Hist(a))
    /\ at[a] = "route" => BatchBacked(Hist(a), rnd[a], todo[a])

Rounded == \A a \in ArmRuns : NewestRound(a) /\ Backed(a)

(* What a batch that is asked for looks like.                               *)
LEMMA AskGives ==
  ASSUME TodoIs, NEW a \in ArmRuns, NEW n \in Nat, NEW ids, DOMAIN ids = 1..n, NEW place, Ask(a, ids, place)
  PROVE  /\ DOMAIN todo' = ArmRuns /\ \A b \in ArmRuns \ {a} : todo'[b] = todo[b]
         /\ IsSeq(todo'[a]) /\ DOMAIN todo'[a] = 1..n /\ Len(todo'[a]) = n
         /\ \A i \in 1..n :
              /\ todo'[a][i].place = place /\ todo'[a][i].rnd = (IF place = "search" THEN rnd'[a] ELSE 1)
              /\ todo'[a][i].id = ids[i] /\ todo'[a][i].res \in {Infra, Outcome(ids[i])}
PROOF
  <1>1. PICK failing \in SUBSET (Range(ids) \ Measured) :
          todo' = [todo EXCEPT ![a] = [i \in DOMAIN ids |->
                    [place |-> place, rnd |-> IF place = "search" THEN rnd'[a] ELSE 1, id |-> ids[i],
                     res |-> IF ids[i] \in failing THEN Infra ELSE Outcome(ids[i])]]]
    BY DEF Ask
  <1> DEFINE new == [i \in 1..n |-> [place |-> place, rnd |-> IF place = "search" THEN rnd'[a] ELSE 1, id |-> ids[i],
                                     res |-> IF ids[i] \in failing THEN Infra ELSE Outcome(ids[i])]]
  <1>2. todo' = [todo EXCEPT ![a] = new]
    BY <1>1
  <1>3. /\ new = [i \in 1..n |-> new[i]] /\ DOMAIN new = 1..n
        /\ \A i \in 1..n :
             /\ new[i].place = place /\ new[i].rnd = (IF place = "search" THEN rnd'[a] ELSE 1)
             /\ new[i].id = ids[i] /\ new[i].res \in {Infra, Outcome(ids[i])}
    OBVIOUS
  <1> HIDE DEF new
  <1>4. IsSeq(new) /\ Len(new) = n
    BY <1>3, SeqIs
  <1>5. DOMAIN todo' = ArmRuns /\ (\A b \in ArmRuns \ {a} : todo'[b] = todo[b]) /\ todo'[a] = new
    BY <1>2 DEF TodoIs
  <1> QED
    BY <1>3, <1>4, <1>5

(* The entries of a batch, seen as the elements of a sequence.              *)
LEMMA BatchRange ==
  ASSUME NEW s, NEW n \in Nat, DOMAIN s = 1..n
  PROVE  /\ \A t \in Range(s) : \E i \in 1..n : t = s[i]
         /\ \A i \in 1..n : s[i] \in Range(s)
PROOF
  BY DEF Range

(* What a record takes from the batch and adds to the rows.                 *)
LEMMA RecordGives ==
  ASSUME RowsAre, TodoIs, NEW a \in ArmRuns, Record(a)
  PROVE  /\ Len(todo[a]) \in Nat \ {0} /\ todo[a][1] \in Range(todo[a]) /\ todo[a][1].place \in Places
         /\ DOMAIN rows' = Keys
         /\ \A k \in Keys : rows'[k] = (IF k = <<a, todo[a][1].place>> THEN Append(rows[k], Kept(todo[a][1])) ELSE rows[k])
         /\ DOMAIN todo' = ArmRuns /\ \A b \in ArmRuns \ {a} : todo'[b] = todo[b]
         /\ IsSeq(todo'[a]) /\ Len(todo'[a]) = Len(todo[a]) - 1 /\ DOMAIN todo'[a] = 1..(Len(todo[a]) - 1)
         /\ \A i \in 1..(Len(todo[a]) - 1) : todo'[a][i] = todo[a][i + 1] /\ i + 1 \in 1..Len(todo[a])
         /\ Range(todo'[a]) \subseteq Range(todo[a])
         /\ kind' = kind /\ at' = at /\ rnd' = rnd /\ last' = last /\ faults' = faults
PROOF
  <1> DEFINE s == todo[a]
             h == Head(todo[a])
  <1>1. /\ s # <<>> /\ rows' = [rows EXCEPT ![<<a, h.place>>] = Append(@, Kept(h))]
        /\ todo' = [todo EXCEPT ![a] = Tail(@)] /\ kind' = kind /\ at' = at /\ searching' = searching /\ faults' = faults
    BY DEF Record
  <1>2. IsSeq(s) /\ \A t \in Range(s) : t.place \in Places
    BY DEF TodoIs
  <1>3. Len(s) \in Nat /\ Len(s) # 0 /\ DOMAIN s = 1..Len(s) /\ \A i \in 1..Len(s) : s[i] \in Range(s)
    <2>1. Len(s) \in Nat /\ DOMAIN s = 1..Len(s) /\ \A i \in 1..Len(s) : s[i] \in Range(s)
      BY <1>2, SeqIs
    <2> DEFINE T == Range(s)
    <2>2. s \in Seq(T)
      BY <1>2 DEF IsSeq
    <2> HIDE DEF s, T
    <2>3. Len(s) # 0
      BY <1>1, <2>2
    <2> QED
      BY <2>1, <2>3
  <1>4. h = s[1] /\ s[1] \in Range(s) /\ s[1].place \in Places
    <2>1. h = s[1]
      OBVIOUS
    <2>2. 1 \in 1..Len(s)
      BY <1>3
    <2> QED
      BY <1>2, <1>3, <2>1, <2>2
  <1> DEFINE u == Tail(s)
             n == Len(s) - 1
  <1>5. IsSeq(u) /\ Len(u) = n /\ DOMAIN u = 1..n /\ \A i \in 1..n : u[i] = s[i + 1] /\ i + 1 \in 1..Len(s)
    <2>1. Tail(s) = [i \in 1..(Len(s) - 1) |-> s[i + 1]]
      OBVIOUS
    <2>2. n \in Nat /\ u = [i \in 1..n |-> s[i + 1]]
      BY <1>3, <2>1
    <2>3. \A i \in 1..n : i + 1 \in 1..Len(s)
      BY <1>3
    <2> HIDE DEF u, n
    <2>4. u = [i \in 1..n |-> u[i]] /\ DOMAIN u = 1..n /\ \A i \in 1..n : u[i] = s[i + 1]
      BY <2>2
    <2> QED
      BY <2>2, <2>3, <2>4, SeqIs
  <1>6. <<a, s[1].place>> \in Keys
    BY <1>4 DEF Keys
  <1>7. DOMAIN rows = Keys /\ DOMAIN todo = ArmRuns
    BY DEF RowsAre, TodoIs
  <1> HIDE DEF u, h
  <1>8. /\ DOMAIN rows' = Keys
        /\ \A k \in Keys : rows'[k] = (IF k = <<a, s[1].place>> THEN Append(rows[k], Kept(s[1])) ELSE rows[k])
    BY <1>1, <1>4, <1>6, <1>7
  <1>9. DOMAIN todo' = ArmRuns /\ (\A b \in ArmRuns \ {a} : todo'[b] = todo[b]) /\ todo'[a] = u
    BY <1>1, <1>7 DEF u
  <1>10. Range(u) \subseteq Range(s)
    <2> HIDE DEF n
    <2> QED
      BY <1>3, <1>5 DEF Range
  <1>11. rnd' = rnd /\ last' = last
    BY <1>1 DEF searching
  <1> HIDE DEF s
  <1> QED
    BY <1>1, <1>3, <1>4, <1>5, <1>8, <1>9, <1>10, <1>11 DEF s
(* A step of one arm-run leaves the others where they are.                  *)
Apart(a) ==
  /\ kind' = kind
  /\ \A b \in ArmRuns \ {a} : at'[b] = at[b] /\ rnd'[b] = rnd[b] /\ last'[b] = last[b] /\ todo'[b] = todo[b]
  /\ \A k \in Keys : k[1] # a => rows'[k] = rows[k]

(* What such a step has to show.                                            *)
LEMMA OneArm ==
  ASSUME Located, NEW a \in ArmRuns, Apart(a), xpc' = xpc, jobs' = jobs, at' \in [ArmRuns -> Stations],
         StationIs(a)', BatchIs(a)', CallIs(a)'
  PROVE  Located'
PROOF
  <1>1. ArmRuns' = ArmRuns /\ kind' = kind /\ Stations' = Stations
    BY DEF Apart, ArmRuns, Stations, Looping
  <1>2. ASSUME NEW b \in ArmRuns, b # a PROVE StationIs(b)' /\ BatchIs(b)' /\ CallIs(b)'
    <2>1. at'[b] = at[b] /\ rnd'[b] = rnd[b] /\ last'[b] = last[b] /\ todo'[b] = todo[b]
      BY <1>2 DEF Apart
    <2>2. StationIs(b) /\ BatchIs(b) /\ CallIs(b)
      BY DEF Located
    <2>3. StationIs(b)'
      BY <2>1, <2>2 DEF StationIs, Looping
    <2>4. BatchIs(b)'
      BY <2>1, <2>2 DEF BatchIs
    <2>5. CallIs(b)'
      BY <1>1, <2>1, <2>2 DEF CallIs
    <2> QED
      BY <2>3, <2>4, <2>5
  <1> QED
    BY <1>1, <1>2 DEF Located

(* Going to a place.                                                        *)
LEMMA GoingIs ==
  ASSUME Located, NEW a \in ArmRuns, NEW p \in Stations, GoTo(a, p)
  PROVE  at' \in [ArmRuns -> Stations] /\ at'[a] = p /\ \A b \in ArmRuns \ {a} : at'[b] = at[b]
PROOF
  BY DEF Located, GoTo

(* A batch of the search is asked for at its stage.                         *)
LEMMA AskedBatch ==
  ASSUME Located, TodoIs, NEW a \in ArmRuns, NEW n \in Nat, NEW ids, DOMAIN ids = 1..n, NEW place \in Places,
         Ask(a, ids, place), kind' = kind, NEW p \in {"proxy", "grt", "route", "validating"},
         at'[a] = p, place = (IF p = "validating" THEN "validate" ELSE "search")
  PROVE  BatchIs(a)' /\ \A b \in ArmRuns \ {a} : todo'[b] = todo[b]
PROOF
  <1>1. /\ \A b \in ArmRuns \ {a} : todo'[b] = todo[b]
        /\ DOMAIN todo'[a] = 1..n /\ \A i \in 1..n : todo'[a][i].place = place
    BY AskGives
  <1>2. \A t \in Range(todo'[a]) : t.place = place
    BY <1>1 DEF Range
  <1> QED
    BY <1>1, <1>2 DEF BatchIs

(* A record.                                                                *)
LEMMA RecordLocated ==
  ASSUME Located, RowsAre, TodoIs, NEW a \in ArmRuns, Record(a), xpc' = xpc, jobs' = jobs
  PROVE  Located' /\ Apart(a)
PROOF
  <1>1. StationIs(a) /\ BatchIs(a) /\ CallIs(a) /\ at \in [ArmRuns -> Stations]
    BY DEF Located
  <1>2. /\ kind' = kind /\ at' = at /\ rnd' = rnd /\ last' = last
        /\ DOMAIN rows' = Keys
        /\ \A k \in Keys : rows'[k] = (IF k = <<a, todo[a][1].place>> THEN Append(rows[k], Kept(todo[a][1])) ELSE rows[k])
        /\ \A b \in ArmRuns \ {a} : todo'[b] = todo[b]
        /\ Range(todo'[a]) \subseteq Range(todo[a]) /\ Len(todo[a]) \in Nat \ {0}
    BY RecordGives
  <1>3. Apart(a)
    BY <1>2 DEF Apart
  <1>4. todo[a] # <<>>
    BY DEF Record
  <1>5. StationIs(a)' /\ BatchIs(a)' /\ CallIs(a)'
    BY <1>1, <1>2, <1>4 DEF StationIs, BatchIs, CallIs
  <1> QED
    BY <1>1, <1>2, <1>3, <1>5, OneArm

(* A step of the loop.                                                      *)
LEMMA SearchLocated ==
  ASSUME Located, RowsAre, TodoIs, RoundsAre, NEW a \in jobs, a \in ArmRuns, Search(a), xpc = "search",
         xpc' = xpc, jobs' = jobs
  PROVE  Located' /\ Apart(a)
PROOF
  <1>1. /\ StationIs(a) /\ BatchIs(a) /\ CallIs(a) /\ at \in [ArmRuns -> Stations]
        /\ rnd[a] \in Nat /\ last[a] \in Nat
    BY DEF Located, RoundsAre
  <1>2. /\ Rounds \in Nat \ {0} /\ Batch \in Nat /\ RouteTop \in Nat /\ "search" \in Places
    BY LoopAssumption DEF Places
  <1>3. \A k \in Keys : k[1] # a => k # <<a, "search">>
    OBVIOUS
  <1>4. ASSUME kind' = kind, rows' = rows, at' \in [ArmRuns -> Stations],
               \A b \in ArmRuns \ {a} : at'[b] = at[b] /\ todo'[b] = todo[b] /\ rnd'[b] = rnd[b] /\ last'[b] = last[b],
               StationIs(a)', BatchIs(a)', CallIs(a)'
        PROVE  Located' /\ Apart(a)
    <2>1. Apart(a)
      BY <1>4 DEF Apart
    <2> QED
      BY <1>4, <2>1, OneArm
  <1>5. ASSUME Record(a) PROVE Located' /\ Apart(a)
    BY <1>5, RecordLocated
  <1>6. ASSUME Enter(a) PROVE Located' /\ Apart(a)
    <2>1. /\ at[a] = "queued" /\ kind[a] # "default_seeds" /\ GoTo(a, "round")
          /\ rnd' = [rnd EXCEPT ![a] = MaxRound(a)] /\ last' = [last EXCEPT ![a] = MaxRound(a) + Rounds]
          /\ kind' = kind /\ rows' = rows /\ todo' = todo
      BY <1>6 DEF Enter
    <2>2. MaxRound(a) \in Nat
      BY MaxRoundIs
    <2>3. at' \in [ArmRuns -> Stations] /\ at'[a] = "round" /\ \A b \in ArmRuns \ {a} : at'[b] = at[b]
      BY <2>1, GoingIs DEF Stations, Looping
    <2>4. /\ rnd'[a] = MaxRound(a) /\ last'[a] = MaxRound(a) + Rounds
          /\ \A b \in ArmRuns \ {a} : rnd'[b] = rnd[b] /\ last'[b] = last[b]
      BY <2>1 DEF RoundsAre
    <2>5. StationIs(a)' /\ BatchIs(a)'
      BY <1>1, <2>1, <2>3 DEF StationIs, BatchIs, Looping
    <2>6. CallIs(a)'
      BY <1>1, <1>2, <2>1, <2>2, <2>3, <2>4 DEF CallIs
    <2> QED
      BY <1>4, <2>1, <2>3, <2>4, <2>5, <2>6
  <1>7. ASSUME EnterLottery(a) PROVE Located' /\ Apart(a)
    <2> DEFINE ids == [i \in DOMAIN LotterySeeds |-> Id("route", DefaultKnobs, LotterySeeds[i])]
               n == Rounds * RouteTop
    <2>1. /\ at[a] = "queued" /\ kind[a] = "default_seeds" /\ GoTo(a, "route")
          /\ rnd' = [rnd EXCEPT ![a] = 1] /\ last' = [last EXCEPT ![a] = 1]
          /\ kind' = kind /\ rows' = rows /\ Ask(a, ids, "search")
      BY <1>7 DEF EnterLottery
    <2>2. n \in Nat /\ DOMAIN ids = 1..n
      BY <1>2 DEF LotterySeeds
    <2>3. at' \in [ArmRuns -> Stations] /\ at'[a] = "route" /\ \A b \in ArmRuns \ {a} : at'[b] = at[b]
      BY <2>1, GoingIs DEF Stations, Looping
    <2>4. rnd'[a] = 1 /\ last'[a] = 1 /\ \A b \in ArmRuns \ {a} : rnd'[b] = rnd[b] /\ last'[b] = last[b]
      BY <2>1 DEF RoundsAre
    <2> HIDE DEF ids, n
    <2>5. BatchIs(a)' /\ \A b \in ArmRuns \ {a} : todo'[b] = todo[b]
      BY <1>2, <2>1, <2>2, <2>3, AskedBatch
    <2>6. StationIs(a)' /\ CallIs(a)'
      BY <1>1, <2>1, <2>3, <2>4 DEF StationIs, CallIs, Looping
    <2> QED
      BY <1>4, <2>1, <2>3, <2>4, <2>5, <2>6
  <1>8. ASSUME Propose(a) PROVE Located' /\ Apart(a)
    <2>1. /\ at[a] = "round" /\ rnd[a] < last[a] /\ GoTo(a, "proxy") /\ rnd' = [rnd EXCEPT ![a] = @ + 1]
          /\ kind' = kind /\ rows' = rows /\ last' = last
      BY <1>8 DEF Propose
    <2>2. PICK cs \in Proposals(a) : Ask(a, Requests("proxy", cs), "search")
      BY <1>8 DEF Propose
    <2> DEFINE ids == Requests("proxy", cs)
    <2>3. DOMAIN ids = 1..Batch
      BY ProposalsAre DEF Requests
    <2>4. at' \in [ArmRuns -> Stations] /\ at'[a] = "proxy" /\ \A b \in ArmRuns \ {a} : at'[b] = at[b]
      BY <2>1, GoingIs DEF Stations, Looping
    <2>5. rnd'[a] = rnd[a] + 1 /\ \A b \in ArmRuns \ {a} : rnd'[b] = rnd[b]
      BY <2>1 DEF RoundsAre
    <2>6. Ask(a, ids, "search")
      BY <2>2
    <2> HIDE DEF ids
    <2>7. BatchIs(a)' /\ \A b \in ArmRuns \ {a} : todo'[b] = todo[b]
      BY <1>2, <2>1, <2>3, <2>4, <2>6, AskedBatch
    <2>8. StationIs(a)' /\ CallIs(a)'
      BY <1>1, <1>2, <2>1, <2>4, <2>5 DEF StationIs, CallIs, Looping
    <2> QED
      BY <1>4, <2>1, <2>4, <2>5, <2>7, <2>8
  <1>9. ASSUME ProposeRaises(a) PROVE Located' /\ Apart(a)
    <2>1. /\ at[a] = "round" /\ GoTo(a, "raised")
          /\ kind' = kind /\ rows' = rows /\ rnd' = rnd /\ last' = last /\ todo' = todo
      BY <1>9 DEF ProposeRaises, searching
    <2>2. at' \in [ArmRuns -> Stations] /\ at'[a] = "raised" /\ \A b \in ArmRuns \ {a} : at'[b] = at[b]
      BY <2>1, GoingIs DEF Stations
    <2>3. StationIs(a)' /\ BatchIs(a)' /\ CallIs(a)'
      BY <1>1, <2>1, <2>2 DEF StationIs, BatchIs, CallIs
    <2> QED
      BY <1>4, <2>1, <2>2, <2>3
  <1>10. ASSUME NEW p \in {"grt", "route"}, NEW ids, \E n \in Nat : DOMAIN ids = 1..n, Ask(a, ids, "search"),
                at[a] \in {"proxy", "grt"}, GoTo(a, p), kind' = kind, rows' = rows, rnd' = rnd, last' = last
         PROVE  Located' /\ Apart(a)
    <2>1. PICK n \in Nat : DOMAIN ids = 1..n
      BY <1>10
    <2>2. at' \in [ArmRuns -> Stations] /\ at'[a] = p /\ \A b \in ArmRuns \ {a} : at'[b] = at[b]
      BY <1>10, GoingIs DEF Stations, Looping
    <2>3. BatchIs(a)' /\ \A b \in ArmRuns \ {a} : todo'[b] = todo[b]
      BY <1>2, <1>10, <2>1, <2>2, AskedBatch
    <2>4. StationIs(a)' /\ CallIs(a)'
      BY <1>1, <1>10, <2>2 DEF StationIs, CallIs, Looping
    <2> QED
      BY <1>4, <1>10, <2>2, <2>3, <2>4
  <1>11. ASSUME ScreenByGrt(a) PROVE Located' /\ Apart(a)
    <2> DEFINE cs == Lines(Feasible(Now(a, "proxy")))
               ids == Requests("grt", cs)
    <2>1. \E n \in Nat : DOMAIN ids = 1..n
      BY StagesAre DEF Requests
    <2>2. /\ Ask(a, ids, "search") /\ at[a] = "proxy" /\ GoTo(a, "grt") /\ kind' = kind /\ rows' = rows
          /\ rnd' = rnd /\ last' = last
      BY <1>11 DEF ScreenByGrt
    <2> HIDE DEF ids
    <2> QED
      BY <1>10, <2>1, <2>2
  <1>12. ASSUME RouteByHpwl(a) \/ RouteByGrt(a) PROVE Located' /\ Apart(a)
    <2>1. PICK stage \in {"proxy", "grt"} : Route(a, stage)
      BY <1>12 DEF RouteByHpwl, RouteByGrt
    <2> DEFINE ids == Requests("route", Choice(Now(a, stage)))
    <2>2. \E n \in Nat : DOMAIN ids = 1..n
      BY StagesAre DEF Requests
    <2>3. /\ Ask(a, ids, "search") /\ at[a] = stage /\ GoTo(a, "route") /\ kind' = kind /\ rows' = rows
          /\ rnd' = rnd /\ last' = last
      BY <2>1 DEF Route
    <2> HIDE DEF ids
    <2> QED
      BY <1>10, <2>2, <2>3
  <1>13. ASSUME EndRound(a) PROVE Located' /\ Apart(a)
    <2>1. /\ at[a] = "route" /\ todo[a] = <<>> /\ GoTo(a, IF rnd[a] = last[a] THEN "searched" ELSE "round")
          /\ kind' = kind /\ rows' = rows /\ rnd' = rnd /\ last' = last /\ todo' = todo
      BY <1>13 DEF EndRound, searching, Batched
    <2> DEFINE p == IF rnd[a] = last[a] THEN "searched" ELSE "round"
    <2>2. at' \in [ArmRuns -> Stations] /\ at'[a] = p /\ \A b \in ArmRuns \ {a} : at'[b] = at[b]
      BY <2>1, GoingIs DEF Stations, Looping
    <2>3. StationIs(a)' /\ BatchIs(a)'
      BY <1>1, <2>1, <2>2 DEF StationIs, BatchIs, Looping, Range
    <2>4. CallIs(a)'
      BY <1>1, <1>2, <2>1, <2>2 DEF CallIs
    <2> QED
      BY <1>4, <2>1, <2>2, <2>3, <2>4
  <1> QED
    BY <1>5, <1>6, <1>7, <1>8, <1>9, <1>11, <1>12, <1>13 DEF Search
(* The end of a start brings every arm-run home.                            *)
LEMMA StopLocated ==
  ASSUME Located, RoundsAre, Stop, kind' = kind, searching' = searching
  PROVE  Located'
PROOF
  <1>1. /\ ArmRuns' = ArmRuns /\ Stations' = Stations /\ xpc' = "off" /\ jobs' = {}
        /\ at' = [a \in ArmRuns |-> "idle"] /\ todo' = [a \in ArmRuns |-> <<>>]
        /\ rnd' = rnd /\ last' = last
    BY DEF Stop, searching, ArmRuns, Stations, Looping
  <1>2. at' \in [ArmRuns -> Stations]
    BY <1>1 DEF Stations
  <1>3. Range(<<>>) = {}
    BY DEF Range
  <1>4. ASSUME NEW a \in ArmRuns PROVE StationIs(a)' /\ BatchIs(a)' /\ CallIs(a)'
    BY <1>1, <1>3, <1>4 DEF Located, StationIs, BatchIs, CallIs
  <1> QED
    BY <1>1, <1>2, <1>4 DEF Located

(* Launching queues the arm-runs of the start.                              *)
LEMMA LaunchLocated ==
  ASSUME Located, NEW as \in SUBSET ArmRuns, Launch(as), xpc \in {"off", "copied"}, UNCHANGED <<kind, searching, todo>>
  PROVE  Located'
PROOF
  <1>1. /\ ArmRuns' = ArmRuns /\ Stations' = Stations /\ xpc' = "search" /\ jobs' = as
        /\ at' = [a \in ArmRuns |-> IF a \in as THEN "queued" ELSE "idle"]
        /\ rnd' = rnd /\ last' = last /\ todo' = todo
    BY DEF Launch, searching, ArmRuns, Stations, Looping
  <1>2. at' \in [ArmRuns -> Stations]
    BY <1>1 DEF Stations
  <1>3. ASSUME NEW a \in ArmRuns PROVE StationIs(a)' /\ BatchIs(a)' /\ CallIs(a)'
    <2>1. StationIs(a) /\ BatchIs(a) /\ CallIs(a) /\ at[a] = "idle"
      BY DEF Located, StationIs
    <2>2. at'[a] = (IF a \in as THEN "queued" ELSE "idle")
      BY <1>1
    <2>3. StationIs(a)'
      BY <1>1, <2>2 DEF StationIs
    <2>4. BatchIs(a)'
      BY <1>1, <2>1, <2>2 DEF BatchIs, Range
    <2>5. CallIs(a)'
      BY <1>1, <2>1, <2>2 DEF CallIs
    <2> QED
      BY <2>3, <2>4, <2>5
  <1> QED
    BY <1>1, <1>2, <1>3 DEF Located

(* Every step of the experiment.                                            *)
LEMMA LocatedStep ==
  ASSUME IInv1, Located, [NextV1]_vars1
  PROVE  Located'
PROOF
  <1>1. /\ RowsAre /\ TodoIs /\ RoundsAre /\ jobs \subseteq ArmRuns /\ at \in [ArmRuns -> Stations]
        /\ \A a \in ArmRuns : StationIs(a) /\ BatchIs(a) /\ CallIs(a)
    BY DEF IInv1, Located
  <1>2. ASSUME RunExperiment \/ Purge PROVE Located'
    <2>1. PICK as \in SUBSET ArmRuns : Launch(as)
      BY <1>1, <1>2 DEF RunExperiment, Purge
    <2>2. xpc \in {"off", "copied"} /\ UNCHANGED <<kind, searching, todo>>
      BY <1>2 DEF RunExperiment, Purge
    <2> QED
      BY <2>1, <2>2, LaunchLocated
  <1>3. ASSUME ArmStep PROVE Located'
    <2>1. PICK a \in jobs : Search(a)
      BY <1>3 DEF ArmStep
    <2>2. xpc = "search" /\ xpc' = xpc /\ jobs' = jobs
      BY <1>3 DEF ArmStep, driving
    <2> QED
      BY <1>1, <2>1, <2>2, SearchLocated
  <1>4. ASSUME NEW a \in jobs, NEW p \in Stations, GoTo(a, p), UNCHANGED <<kind, rows, searching, todo, xpc, jobs>>,
               todo[a] = <<>>, StationIs(a)', p \notin {"searched", "round", "proxy", "grt", "route", "validating"}
        PROVE  Located'
    <2>1. /\ at' \in [ArmRuns -> Stations] /\ at'[a] = p /\ \A b \in ArmRuns \ {a} : at'[b] = at[b]
          /\ rnd' = rnd /\ last' = last
      BY <1>1, <1>4, GoingIs DEF searching
    <2>2. Apart(a)
      BY <1>4, <2>1 DEF Apart
    <2>3. BatchIs(a)'
      BY <1>4, <2>1 DEF BatchIs, Range
    <2>4. CallIs(a)'
      BY <1>1, <1>4, <2>1 DEF CallIs
    <2> QED
      BY <1>1, <1>4, <2>1, <2>2, <2>3, <2>4, OneArm
  <1>5. ASSUME ArmOutOfTime PROVE Located'
    <2>1. PICK a \in jobs : at[a] \in {"round", "queued"} /\ GoTo(a, "late")
      BY <1>5 DEF ArmOutOfTime
    <2>2. xpc = "search" /\ UNCHANGED <<kind, rows, searching, todo, xpc, jobs>>
      BY <1>5 DEF ArmOutOfTime, driving
    <2>3. todo[a] = <<>> /\ "late" \in Stations
      BY <1>1, <2>1 DEF BatchIs, Stations
    <2>4. at'[a] = "late"
      BY <1>1, <2>1, <2>3, GoingIs
    <2>5. StationIs(a)'
      BY <2>2, <2>4 DEF StationIs
    <2> QED
      BY <1>4, <2>1, <2>2, <2>3, <2>5
  <1>6. ASSUME MapEnds PROVE Located'
    <2>1. /\ xpc = "search" /\ \A a \in jobs : at[a] \in {"searched", "late"}
          /\ xpc' = "validate" /\ jobs' = jobs /\ kind' = kind /\ at' = at /\ rnd' = rnd /\ last' = last /\ todo' = todo
      BY <1>6 DEF MapEnds, searching
    <2>2. ArmRuns' = ArmRuns /\ Stations' = Stations
      BY <2>1 DEF ArmRuns, Stations, Looping
    <2>3. ASSUME NEW a \in ArmRuns PROVE StationIs(a)' /\ BatchIs(a)' /\ CallIs(a)'
      BY <1>1, <2>1 DEF StationIs, BatchIs, CallIs
    <2> QED
      BY <2>1, <2>2, <2>3 DEF Located
  <1>7. ASSUME MapRaises \/ Write \/ Kill PROVE Located'
    <2>1. Stop /\ kind' = kind /\ searching' = searching
      BY <1>7 DEF MapRaises, Write, Kill
    <2> QED
      BY <1>1, <2>1, StopLocated
  <1>8. ASSUME Validate PROVE Located'
    <2>1. PICK a \in jobs :
            /\ at[a] # "validated"
            /\ IF BestRouted(a) = Bad THEN GoTo(a, "validated") /\ UNCHANGED <<todo, faults>>
               ELSE GoTo(a, "validating") /\ Ask(a, HeldOut(a), "validate")
      BY <1>8 DEF Validate, First
    <2>2. /\ xpc = "validate" /\ todo[a] = <<>> /\ at[a] # "validating"
          /\ kind' = kind /\ rows' = rows /\ searching' = searching /\ xpc' = xpc /\ jobs' = jobs
      BY <1>8, <2>1 DEF Validate, Batched, driving
    <2>3. CASE GoTo(a, "validated") /\ UNCHANGED todo
      <3>1. "validated" \in Stations
        BY DEF Stations
      <3>2. at'[a] = "validated"
        BY <1>1, <2>3, <3>1, GoingIs
      <3>3. StationIs(a)'
        BY <2>2, <3>2 DEF StationIs
      <3> QED
        BY <1>4, <2>1, <2>2, <2>3, <3>1, <3>3
    <2>4. CASE GoTo(a, "validating") /\ Ask(a, HeldOut(a), "validate")
      <3>1. "validating" \in Stations /\ "validate" \in Places
        BY DEF Stations, Places
      <3>2. /\ at' \in [ArmRuns -> Stations] /\ at'[a] = "validating" /\ \A b \in ArmRuns \ {a} : at'[b] = at[b]
            /\ rnd' = rnd /\ last' = last
        BY <1>1, <2>2, <2>4, <3>1, GoingIs DEF searching
      <3>3. Len(HeldOutSeeds) \in Nat /\ DOMAIN HeldOut(a) = 1..Len(HeldOutSeeds)
        BY LoopAssumption DEF HeldOut
      <3>4. BatchIs(a)' /\ \A b \in ArmRuns \ {a} : todo'[b] = todo[b]
        BY <1>1, <2>2, <2>4, <3>1, <3>2, <3>3, AskedBatch
      <3>5. StationIs(a)' /\ CallIs(a)'
        BY <1>1, <2>2, <3>2 DEF StationIs, CallIs
      <3>6. Apart(a)
        BY <2>2, <3>2, <3>4 DEF Apart
      <3> QED
        BY <1>1, <2>2, <3>2, <3>4, <3>5, <3>6, OneArm
    <2> QED
      BY <2>1, <2>3, <2>4
  <1>9. ASSUME RecordValidation PROVE Located'
    <2>1. PICK a \in jobs : Record(a)
      BY <1>9 DEF RecordValidation
    <2>2. xpc' = xpc /\ jobs' = jobs
      BY <1>9 DEF RecordValidation, driving
    <2> QED
      BY <1>1, <2>1, <2>2, RecordLocated
  <1>10. ASSUME EndValidation PROVE Located'
    <2>1. PICK a \in jobs : at[a] = "validating" /\ todo[a] = <<>> /\ GoTo(a, "validated")
      BY <1>10 DEF EndValidation, Batched
    <2>2. xpc = "validate" /\ UNCHANGED <<kind, rows, searching, todo, xpc, jobs>>
      BY <1>10 DEF EndValidation
    <2>3. "validated" \in Stations
      BY DEF Stations
    <2>4. at'[a] = "validated"
      BY <1>1, <2>1, <2>3, GoingIs
    <2>5. StationIs(a)'
      BY <2>2, <2>4 DEF StationIs
    <2> QED
      BY <1>4, <2>1, <2>2, <2>3, <2>5
  <1>11. ASSUME Repair PROVE Located'
    <2>1. /\ xpc = "off" /\ xpc' = "copied" /\ kind' = kind /\ at' = at /\ rnd' = rnd /\ last' = last /\ todo' = todo
      BY <1>11 DEF Repair, searching
    <2>2. ArmRuns' = ArmRuns /\ Stations' = Stations
      BY <2>1 DEF ArmRuns, Stations, Looping
    <2>3. ASSUME NEW a \in ArmRuns PROVE StationIs(a)' /\ BatchIs(a)' /\ CallIs(a)'
      BY <1>1, <2>1 DEF StationIs, BatchIs, CallIs
    <2> QED
      BY <2>1, <2>2, <2>3 DEF Located
  <1>12. CASE UNCHANGED vars1
    <2>1. xpc' = xpc /\ jobs' = jobs /\ kind' = kind /\ at' = at /\ rnd' = rnd /\ last' = last /\ todo' = todo
      BY <1>12 DEF vars1, searching, driving
    <2>2. ArmRuns' = ArmRuns /\ Stations' = Stations
      BY <2>1 DEF ArmRuns, Stations, Looping
    <2>3. ASSUME NEW a \in ArmRuns PROVE StationIs(a)' /\ BatchIs(a)' /\ CallIs(a)'
      BY <1>1, <2>1 DEF StationIs, BatchIs, CallIs, Looping
    <2> QED
      BY <2>1, <2>2, <2>3 DEF Located
  <1> QED
    BY <1>2, <1>3, <1>5, <1>6, <1>7, <1>8, <1>9, <1>10, <1>11, <1>12 DEF NextV1, Over1
-----------------------------------------------------------------------------
(* In a finite order, those below an element give it its own rank, and      *)
(* every rank is taken.                                                     *)
Lower(I, L, i) == {j \in I : <<j, i>> \in L}
StrictOrder(I, L) ==
  /\ \A i \in I : <<i, i>> \notin L
  /\ \A i, j, k \in I : <<i, j>> \in L /\ <<j, k>> \in L => <<i, k>> \in L
  /\ \A i, j \in I : i = j \/ <<i, j>> \in L \/ <<j, i>> \in L
Ranked(I, L) ==
  /\ Cardinality(I) \in Nat
  /\ \A i \in I : Cardinality(Lower(I, L, i)) \in 0..(Cardinality(I) - 1)
  /\ \A i, j \in I : <<i, j>> \in L => Cardinality(Lower(I, L, i)) < Cardinality(Lower(I, L, j))
  /\ \A i, j \in I : Cardinality(Lower(I, L, i)) = Cardinality(Lower(I, L, j)) => i = j
  /\ \A k \in 0..(Cardinality(I) - 1) : \E i \in I : Cardinality(Lower(I, L, i)) = k
LEMMA RanksAre ==
  ASSUME NEW I, IsFiniteSet(I), NEW L, StrictOrder(I, L)
  PROVE  Ranked(I, L)
PROOF
  <1> DEFINE N == Cardinality(I)
             C(i) == Cardinality(Lower(I, L, i))
             R == [i \in I |-> C(i)]
  <1>1. N \in Nat
    BY FS_CardinalityType
  <1>2. ASSUME NEW i \in I PROVE IsFiniteSet(Lower(I, L, i)) /\ C(i) \in 0..(N - 1)
    <2>1. Lower(I, L, i) \in SUBSET I /\ i \notin Lower(I, L, i)
      BY DEF Lower, StrictOrder
    <2>2. /\ IsFiniteSet(Lower(I, L, i)) /\ C(i) <= N /\ (N = C(i) => I = Lower(I, L, i))
      BY <2>1, FS_Subset
    <2>3. C(i) \in Nat /\ N # C(i)
      BY <2>1, <2>2, FS_CardinalityType
    <2> HIDE DEF N, C
    <2> QED
      BY <1>1, <2>2, <2>3
  <1>3. ASSUME NEW i \in I, NEW j \in I, <<i, j>> \in L PROVE C(i) < C(j)
    <2>1. Lower(I, L, i) \in SUBSET Lower(I, L, j)
      BY <1>3 DEF Lower, StrictOrder
    <2>2. i \in Lower(I, L, j) /\ i \notin Lower(I, L, i)
      BY <1>3 DEF Lower, StrictOrder
    <2>3. C(i) <= C(j) /\ (C(j) = C(i) => Lower(I, L, j) = Lower(I, L, i))
      BY <1>2, <2>1, FS_Subset
    <2>4. C(i) # C(j) /\ C(i) \in Int /\ C(j) \in Int
      BY <1>2, <2>2, <2>3
    <2> HIDE DEF C
    <2> QED
      BY <2>3, <2>4
  <1>4. ASSUME NEW i \in I, NEW j \in I, C(i) = C(j) PROVE i = j
    <2>1. C(i) \in Int /\ C(j) \in Int
      BY <1>2
    <2>2. i = j \/ <<i, j>> \in L \/ <<j, i>> \in L
      BY DEF StrictOrder
    <2> HIDE DEF C
    <2> QED
      BY <1>3, <1>4, <2>1, <2>2
  <1>5. R \in Injection(I, 0..(N - 1))
    <2>1. R \in [I -> 0..(N - 1)]
      <3> HIDE DEF C, N
      <3> QED
        BY <1>2
    <2>2. \A i, j \in I : R[i] = R[j] => i = j
      <3> HIDE DEF C
      <3> QED
        BY <1>4
    <2> HIDE DEF R
    <2> QED
      BY <2>1, <2>2 DEF Injection, IsInjective
  <1>6. \A k \in 0..(N - 1) : \E i \in I : R[i] = k
    <2>1. IsFiniteSet(0..(N - 1)) /\ Cardinality(0..(N - 1)) = N
      <3> HIDE DEF N
      <3> QED
        BY <1>1, FS_Interval
    <2> HIDE DEF R
    <2>2. R \in Surjection(I, 0..(N - 1))
      BY <1>5, <2>1, FS_Injection
    <2> QED
      BY <2>2 DEF Surjection
  <1>7. \A k \in 0..(N - 1) : \E i \in I : C(i) = k
    BY <1>6
  <1> QED
    BY <1>1, <1>2, <1>3, <1>4, <1>7 DEF Ranked

(* Indices are ordered.                                                     *)
Less(I) == {p \in I \X I : p[1] < p[2]}
LEMMA LessIs ==
  ASSUME NEW n \in Nat, NEW I \in SUBSET (1..n)
  PROVE  /\ IsFiniteSet(I) /\ StrictOrder(I, Less(I))
         /\ \A i \in I : Lower(I, Less(I), i) = {j \in I : j < i}
PROOF
  <1>1. IsFiniteSet(I)
    <2>1. IsFiniteSet(1..n)
      BY FS_Interval
    <2> QED
      BY <2>1, FS_Subset
  <1>2. \A i \in I : i \in Nat
    OBVIOUS
  <1>3. \A i, j \in I : <<i, j>> \in Less(I) <=> i < j
    BY DEF Less
  <1>4. StrictOrder(I, Less(I))
    <2>1. \A i \in I : <<i, i>> \notin Less(I)
      BY <1>2, <1>3
    <2>2. \A i, j, k \in I : <<i, j>> \in Less(I) /\ <<j, k>> \in Less(I) => <<i, k>> \in Less(I)
      <3>1. SUFFICES ASSUME NEW i \in I, NEW j \in I, NEW k \in I, i < j, j < k PROVE i < k
        BY <1>3
      <3>2. i \in Nat /\ j \in Nat /\ k \in Nat
        BY <1>2
      <3> QED
        BY <3>1, <3>2
    <2>3. \A i, j \in I : i = j \/ <<i, j>> \in Less(I) \/ <<j, i>> \in Less(I)
      <3>1. SUFFICES ASSUME NEW i \in I, NEW j \in I PROVE i = j \/ i < j \/ j < i
        BY <1>3
      <3>2. i \in Nat /\ j \in Nat
        BY <1>2
      <3> QED
        BY <3>2
    <2> QED
      BY <2>1, <2>2, <2>3 DEF StrictOrder
  <1> QED
    BY <1>1, <1>3, <1>4 DEF Lower

(* How many of the indices are below one of them.                           *)
LEMMA BelowIs ==
  ASSUME NEW n \in Nat, NEW I \in SUBSET (1..n)
  PROVE  /\ Cardinality(I) \in Nat
         /\ \A i \in I : Cardinality({j \in I : j < i}) \in 0..(Cardinality(I) - 1) /\ i \in Nat
         /\ \A i, j \in I : i < j => Cardinality({l \in I : l < i}) < Cardinality({l \in I : l < j})
         /\ \A i, j \in I : Cardinality({l \in I : l < i}) = Cardinality({l \in I : l < j}) => i = j
         /\ \A k \in 0..(Cardinality(I) - 1) : \E i \in I : Cardinality({j \in I : j < i}) = k
PROOF
  <1>1. IsFiniteSet(I) /\ StrictOrder(I, Less(I))
    BY LessIs
  <1>2. \A i \in I : Lower(I, Less(I), i) = {j \in I : j < i}
    BY LessIs
  <1>3. \A i, j \in I : <<i, j>> \in Less(I) <=> i < j
    BY DEF Less
  <1>4. \A i \in I : i \in Nat
    OBVIOUS
  <1> DEFINE L == Less(I)
  <1>5. /\ Cardinality(I) \in Nat
        /\ \A i \in I : Cardinality(Lower(I, L, i)) \in 0..(Cardinality(I) - 1)
        /\ \A i, j \in I : <<i, j>> \in L => Cardinality(Lower(I, L, i)) < Cardinality(Lower(I, L, j))
        /\ \A i, j \in I : Cardinality(Lower(I, L, i)) = Cardinality(Lower(I, L, j)) => i = j
        /\ \A k \in 0..(Cardinality(I) - 1) : \E i \in I : Cardinality(Lower(I, L, i)) = k
    <2> HIDE DEF L
    <2>1. IsFiniteSet(I) /\ StrictOrder(I, L)
      BY <1>1 DEF L
    <2>2. Ranked(I, L)
      BY <2>1, RanksAre
    <2> QED
      BY <2>2 DEF Ranked
  <1>6. \A i \in I : Cardinality(Lower(I, Less(I), i)) = Cardinality({j \in I : j < i})
    BY <1>2
  <1>7. \A i \in I : Cardinality({j \in I : j < i}) \in 0..(Cardinality(I) - 1)
    BY <1>5, <1>6
  <1>8. \A i, j \in I : i < j => Cardinality({l \in I : l < i}) < Cardinality({l \in I : l < j})
    BY <1>3, <1>5, <1>6
  <1>9. \A i, j \in I : Cardinality({l \in I : l < i}) = Cardinality({l \in I : l < j}) => i = j
    BY <1>5, <1>6
  <1>10. \A k \in 0..(Cardinality(I) - 1) : \E i \in I : Cardinality({j \in I : j < i}) = k
    BY <1>5, <1>6
  <1> QED
    BY <1>4, <1>5, <1>7, <1>8, <1>9, <1>10

(* What a filter keeps it keeps in order: an enumeration of the indices.    *)
Enumerates(e, m, I) ==
  /\ e \in [1..m -> I] /\ \A i \in I : \E k \in 1..m : e[k] = i
  /\ \A k, l \in 1..m : k < l => e[k] < e[l]
Picks(t, s, e, m, I) == Enumerates(e, m, I) /\ t = [k \in 1..m |-> s[e[k]]]
LEMMA AtEnumerates ==
  ASSUME NEW s, NEW n \in Nat, NEW I \in SUBSET (1..n)
  PROVE  \E m \in Nat : \E e : Picks(At(s, I), s, e, m, I)
PROOF
  <1> DEFINE C(i) == Cardinality({j \in I : j < i})
             N == Cardinality(I)
             e == [k \in 1..N |-> CHOOSE i \in I : C(i) = k - 1]
  <1>1. /\ N \in Nat /\ \A i \in I : C(i) \in 0..(N - 1) /\ i \in Nat
        /\ \A i, j \in I : i < j => C(i) < C(j)
        /\ \A i, j \in I : C(i) = C(j) => i = j
        /\ \A k \in 0..(N - 1) : \E i \in I : C(i) = k
    BY BelowIs
  <1> HIDE DEF C, N
  <1>2. ASSUME NEW k \in 1..N PROVE e[k] \in I /\ C(e[k]) = k - 1
    <2>1. k - 1 \in 0..(N - 1)
      BY <1>1
    <2>2. \E i \in I : C(i) = k - 1
      BY <1>1, <2>1
    <2> QED
      BY <2>2
  <1>3. e \in [1..N -> I]
    BY <1>2
  <1>4. At(s, I) = [k \in 1..N |-> s[e[k]]]
    BY DEF At, C, N
  <1> HIDE DEF e
  <1>5. \A i \in I : \E k \in 1..N : e[k] = i
    <2>1. SUFFICES ASSUME NEW i \in I PROVE \E k \in 1..N : e[k] = i
      OBVIOUS
    <2>2. C(i) + 1 \in 1..N /\ (C(i) + 1) - 1 = C(i)
      BY <1>1
    <2>3. e[C(i) + 1] \in I /\ C(e[C(i) + 1]) = C(i)
      BY <1>2, <2>2
    <2> QED
      BY <1>1, <2>2, <2>3
  <1>6. ASSUME NEW k \in 1..N, NEW l \in 1..N, k < l PROVE e[k] < e[l]
    <2>1. e[k] \in I /\ e[l] \in I /\ C(e[k]) = k - 1 /\ C(e[l]) = l - 1
      BY <1>2
    <2>2. k \in Int /\ l \in Int
      BY <1>1
    <2>3. e[k] \in Nat /\ e[l] \in Nat
      BY <1>1, <2>1
    <2>4. k - 1 # l - 1 /\ ~(l - 1 < k - 1)
      BY <1>6, <2>2
    <2>5. e[k] # e[l] /\ ~(C(e[l]) < C(e[k]))
      BY <2>1, <2>4
    <2>6. ~(e[l] < e[k])
      BY <1>1, <2>1, <2>5
    <2> QED
      BY <2>3, <2>5, <2>6
  <1>7. Enumerates(e, N, I) /\ N \in Nat
    BY <1>1, <1>3, <1>5, <1>6 DEF Enumerates
  <1>8. Picks(At(s, I), s, e, N, I)
    BY <1>4, <1>7 DEF Picks
  <1> QED
    BY <1>7, <1>8

(* There is one enumeration.                                                *)
LEMMA AtIsEnumerated ==
  ASSUME NEW s, NEW n \in Nat, NEW I \in SUBSET (1..n), NEW m \in Nat, NEW e, Enumerates(e, m, I)
  PROVE  Cardinality(I) = m /\ Picks(At(s, I), s, e, m, I)
PROOF
  <1> DEFINE C(i) == Cardinality({j \in I : j < i})
  <1>0. \A i \in I : i \in Nat
    OBVIOUS
  <1>1. /\ e \in [1..m -> I] /\ (\A i \in I : \E k \in 1..m : e[k] = i)
        /\ \A k, l \in 1..m : k < l => e[k] < e[l]
    BY DEF Enumerates
  <1>2. \A k, l \in 1..m : e[k] = e[l] => k = l
    <2>1. SUFFICES ASSUME NEW k \in 1..m, NEW l \in 1..m, e[k] = e[l], k # l PROVE FALSE
      OBVIOUS
    <2>2. e[k] \in Nat /\ e[l] \in Nat
      <3>1. e[k] \in I /\ e[l] \in I
        BY <1>1
      <3> QED
        BY <1>0, <3>1
    <2>3. k < l \/ l < k
      BY <2>1
    <2> QED
      BY <1>1, <2>1, <2>2, <2>3
  <1>3. e \in Surjection(1..m, I) /\ e \in Injection(1..m, I)
    BY <1>1, <1>2 DEF Surjection, Injection, IsInjective
  <1>4. IsFiniteSet(1..m) /\ Cardinality(1..m) = m
    BY FS_Interval
  <1>5. Cardinality(I) = m
    BY <1>3, <1>4, FS_Surjection
  <1>6. \A i, j \in I : C(i) = C(j) => i = j
    BY BelowIs
  <1>7. ASSUME NEW k \in 1..m PROVE C(e[k]) = k - 1
    <2> DEFINE B == {j \in I : j < e[k]}
               f == [l \in 1..(k - 1) |-> e[l]]
    <2>1. \A l \in 1..(k - 1) : l \in 1..m /\ l < k
      OBVIOUS
    <2>2. \A l \in 1..(k - 1) : e[l] \in B
      BY <1>1, <2>1
    <2>3. ASSUME NEW j \in B PROVE \E l \in 1..(k - 1) : e[l] = j
      <3>1. PICK l \in 1..m : e[l] = j
        BY <1>1
      <3>2. e[l] < e[k] /\ e[l] \in Nat /\ e[k] \in Nat
        <4>1. e[l] \in I /\ e[k] \in I
          BY <1>1
        <4> QED
          BY <1>0, <3>1, <4>1
      <3>3. ~(k < l) /\ k # l
        BY <1>1, <3>2
      <3>4. l \in 1..(k - 1)
        BY <3>3
      <3> QED
        BY <3>1, <3>4
    <2> HIDE DEF B
    <2>4. f \in Surjection(1..(k - 1), B) /\ f \in Injection(1..(k - 1), B)
      BY <1>2, <2>1, <2>2, <2>3 DEF Surjection, Injection, IsInjective
    <2>5. IsFiniteSet(1..(k - 1)) /\ Cardinality(1..(k - 1)) = k - 1
      BY FS_Interval
    <2> HIDE DEF f
    <2>6. Cardinality(B) = k - 1
      BY <2>4, <2>5, FS_Surjection
    <2> QED
      BY <2>6 DEF B
  <1>8. At(s, I) = [k \in 1..m |-> s[CHOOSE i \in I : C(i) = k - 1]]
    BY <1>5 DEF At
  <1> HIDE DEF C
  <1>9. ASSUME NEW k \in 1..m PROVE (CHOOSE i \in I : C(i) = k - 1) = e[k]
    <2>1. e[k] \in I
      BY <1>1
    <2> QED
      BY <1>6, <1>7, <2>1
  <1> QED
    BY <1>5, <1>8, <1>9 DEF Picks

(* The feasible ones, and which of the rows they are.                       *)
LEMMA FeasibleIs ==
  ASSUME NEW s, IsSeq(s)
  PROVE  \E m \in Nat : \E e \in [1..m -> {i \in 1..Len(s) : Succeeds(s[i].res)}] :
           /\ Enumerates(e, m, {i \in 1..Len(s) : Succeeds(s[i].res)})
           /\ Feasible(s) = [k \in 1..m |-> s[e[k]]] /\ IsSeq(Feasible(s)) /\ Len(Feasible(s)) = m
PROOF
  <1> DEFINE I == {i \in 1..Len(s) : Succeeds(s[i].res)}
             t == Feasible(s)
  <1>1. Len(s) \in Nat /\ DOMAIN s = 1..Len(s)
    BY SeqIs
  <1>2. t = At(s, I)
    BY <1>1 DEF Feasible, Of
  <1>3. I \in SUBSET (1..Len(s))
    OBVIOUS
  <1> HIDE DEF I, t
  <1>4. \E m \in Nat : \E e : Picks(At(s, I), s, e, m, I)
    <2> DEFINE n == Len(s)
    <2>1. n \in Nat /\ I \in SUBSET (1..n)
      BY <1>1, <1>3
    <2> HIDE DEF n
    <2> QED
      BY <2>1, AtEnumerates
  <1>4a. PICK m \in Nat : \E e : Picks(At(s, I), s, e, m, I)
    BY <1>4
  <1>4b. PICK e : Enumerates(e, m, I) /\ At(s, I) = [k \in 1..m |-> s[e[k]]]
    BY <1>4a DEF Picks
  <1>5. m \in Nat /\ e \in [1..m -> I] /\ t = [k \in 1..m |-> s[e[k]]]
    BY <1>2, <1>4b DEF Enumerates
  <1>6. IsSeq(t) /\ Len(t) = m
    <2>1. t = [k \in 1..m |-> t[k]]
      BY <1>5
    <2> QED
      BY <1>5, <2>1, SeqIs
  <1> QED
    BY <1>4b, <1>5, <1>6 DEF I, t

(* The order of the scores, ties by position.                               *)
ByScore(s) == {p \in (1..Len(s)) \X (1..Len(s)) : Before(s, ScoreOf, p[1], p[2])}
LEMMA ByScoreIs ==
  ASSUME NEW s, IsSeq(s), \A i \in 1..Len(s) : s[i].res \in Int
  PROVE  /\ Ranked(1..Len(s), ByScore(s)) /\ Cardinality(1..Len(s)) = Len(s)
         /\ \A j \in 1..Len(s) : Rank(s, ScoreOf, j) = Cardinality(Lower(1..Len(s), ByScore(s), j))
PROOF
  <1> DEFINE n == Len(s)
             I == 1..n
             L == ByScore(s)
  <1>1. n \in Nat /\ DOMAIN s = I
    BY SeqIs
  <1>2. IsFiniteSet(I) /\ Cardinality(I) = n
    BY <1>1, FS_Interval
  <1>3. \A i, j \in I : <<i, j>> \in L <=> s[i].res < s[j].res \/ (s[i].res = s[j].res /\ i < j)
    BY DEF ByScore, Before, ScoreOf
  <1>4. \A i \in I : i \in Nat /\ s[i].res \in Int
    BY <1>1
  <1> HIDE DEF n, I, L
  <1>5. StrictOrder(I, L)
    <2>1. \A i \in I : <<i, i>> \notin L
      BY <1>3, <1>4
    <2>2. \A i, j, k \in I : <<i, j>> \in L /\ <<j, k>> \in L => <<i, k>> \in L
      <3>1. SUFFICES ASSUME NEW i \in I, NEW j \in I, NEW k \in I, <<i, j>> \in L, <<j, k>> \in L PROVE <<i, k>> \in L
        OBVIOUS
      <3>2. /\ i \in Nat /\ j \in Nat /\ k \in Nat
            /\ s[i].res \in Int /\ s[j].res \in Int /\ s[k].res \in Int
        BY <1>4
      <3>3. /\ s[i].res < s[j].res \/ (s[i].res = s[j].res /\ i < j)
            /\ s[j].res < s[k].res \/ (s[j].res = s[k].res /\ j < k)
        BY <1>3, <3>1
      <3>4. s[i].res < s[k].res \/ (s[i].res = s[k].res /\ i < k)
        BY <3>2, <3>3
      <3> QED
        BY <1>3, <3>4
    <2>3. \A i, j \in I : i = j \/ <<i, j>> \in L \/ <<j, i>> \in L
      <3>1. SUFFICES ASSUME NEW i \in I, NEW j \in I PROVE i = j \/ <<i, j>> \in L \/ <<j, i>> \in L
        OBVIOUS
      <3>2. i \in Nat /\ j \in Nat /\ s[i].res \in Int /\ s[j].res \in Int
        BY <1>4
      <3>3. i = j \/ (s[i].res < s[j].res \/ (s[i].res = s[j].res /\ i < j))
                  \/ (s[j].res < s[i].res \/ (s[j].res = s[i].res /\ j < i))
        BY <3>2
      <3> QED
        BY <1>3, <3>3
    <2> QED
      BY <2>1, <2>2, <2>3 DEF StrictOrder
  <1>6. Ranked(I, L)
    BY <1>2, <1>5, RanksAre
  <1>7. ASSUME NEW j \in I PROVE Rank(s, ScoreOf, j) = Cardinality(Lower(I, L, j))
    <2>1. {i \in DOMAIN s : Before(s, ScoreOf, i, j)} = Lower(I, L, j)
      BY <1>1 DEF Lower, L, ByScore, I, n
    <2> QED
      BY <2>1 DEF Rank
  <1> QED
    BY <1>2, <1>6, <1>7 DEF I, n, L

(* The lesser of two numbers.                                               *)
LEMMA LesserIs ==
  ASSUME NEW m \in Nat, NEW n \in Nat
  PROVE  Min({m, n}) \in Nat /\ Min({m, n}) <= n /\ Min({m, n}) <= m
PROOF
  <1> DEFINE T == {m, n}
  <1>1. T \subseteq Nat /\ T # {} /\ m \in T /\ n \in T
    OBVIOUS
  <1> HIDE DEF T
  <1>2. Min(T) \in T /\ \A x \in T : Min(T) <= x
    BY <1>1, LeastOf
  <1> QED
    BY <1>1, <1>2 DEF T

(* The best of s: each of them once.                                        *)
OneToOne(w, q, n) == w \in [1..q -> 1..n] /\ \A k, l \in 1..q : w[k] = w[l] => k = l
LEMMA SortedIs ==
  ASSUME NEW s, IsSeq(s), \A i \in 1..Len(s) : s[i].res \in Int
  PROVE  \E q \in Nat : \E w : OneToOne(w, q, Len(s)) /\ Sorted(s, ScoreOf, RouteTop) = [k \in 1..q |-> s[w[k]]]
PROOF
  <1> DEFINE n == Len(s)
             q == Min({RouteTop, n})
             w == [k \in 1..q |-> CHOOSE j \in DOMAIN s : Rank(s, ScoreOf, j) = k - 1]
  <1>1. n \in Nat /\ DOMAIN s = 1..n
    BY SeqIs
  <1>2. q \in Nat /\ q <= n
    BY <1>1, LesserIs, LoopAssumption
  <1>3. Sorted(s, ScoreOf, RouteTop) = [k \in 1..q |-> s[w[k]]]
    BY DEF Sorted
  <1>4. \A k \in 0..(n - 1) : \E j \in 1..n : Rank(s, ScoreOf, j) = k
    <2>1. /\ Ranked(1..n, ByScore(s)) /\ Cardinality(1..n) = n
          /\ \A j \in 1..n : Rank(s, ScoreOf, j) = Cardinality(Lower(1..n, ByScore(s), j))
      BY ByScoreIs
    <2> HIDE DEF n
    <2> QED
      BY <2>1 DEF Ranked
  <1> HIDE DEF n, q
  <1>5. ASSUME NEW k \in 1..q PROVE w[k] \in 1..n /\ Rank(s, ScoreOf, w[k]) = k - 1
    <2>1. k - 1 \in 0..(n - 1)
      BY <1>1, <1>2
    <2>2. \E j \in DOMAIN s : Rank(s, ScoreOf, j) = k - 1
      BY <1>1, <1>4, <2>1
    <2> QED
      BY <1>1, <2>2
  <1>6. w = [k \in 1..q |-> w[k]]
    OBVIOUS
  <1> HIDE DEF w
  <1>7. ASSUME NEW k \in 1..q, NEW l \in 1..q, w[k] = w[l] PROVE k = l
    <2>1. k - 1 = l - 1
      BY <1>5, <1>7
    <2>2. k \in Int /\ l \in Int
      BY <1>2
    <2> QED
      BY <2>1, <2>2
  <1>8. OneToOne(w, q, n)
    BY <1>5, <1>6, <1>7 DEF OneToOne
  <1> QED
    BY <1>2, <1>3, <1>8 DEF n

(* What is chosen of s: successes of s, each of them once.                  *)
LEMMA ChoiceIs ==
  ASSUME NEW s, IsSeq(s), \A i \in 1..Len(s) : s[i].res \in Int
  PROVE  \E q \in Nat : \E w : /\ OneToOne(w, q, Len(s)) /\ DOMAIN Choice(s) = 1..q
                           /\ \A k \in 1..q : Succeeds(s[w[k]].res) /\ Choice(s)[k] = s[w[k]].id.cfg
PROOF
  <1>1. Len(s) \in Nat
    BY SeqIs
  <1>2. PICK m \in Nat : \E e \in [1..m -> {i \in 1..Len(s) : Succeeds(s[i].res)}] :
          /\ Enumerates(e, m, {i \in 1..Len(s) : Succeeds(s[i].res)})
          /\ Feasible(s) = [k \in 1..m |-> s[e[k]]] /\ IsSeq(Feasible(s)) /\ Len(Feasible(s)) = m
    BY FeasibleIs
  <1>2a. PICK e \in [1..m -> {i \in 1..Len(s) : Succeeds(s[i].res)}] :
          /\ Enumerates(e, m, {i \in 1..Len(s) : Succeeds(s[i].res)})
          /\ Feasible(s) = [k \in 1..m |-> s[e[k]]] /\ IsSeq(Feasible(s)) /\ Len(Feasible(s)) = m
    BY <1>2
  <1> DEFINE t == Feasible(s)
  <1>3. /\ IsSeq(t) /\ Len(t) = m /\ \A k \in 1..m : t[k] = s[e[k]] /\ e[k] \in 1..Len(s) /\ Succeeds(s[e[k]].res)
    BY <1>2a
  <1>4. \A k, l \in 1..m : e[k] = e[l] => k = l
    <2>1. SUFFICES ASSUME NEW k \in 1..m, NEW l \in 1..m, e[k] = e[l], k # l PROVE FALSE
      OBVIOUS
    <2>2. k < l \/ l < k
      BY <2>1
    <2>3. e[k] \in Nat /\ ~(e[k] < e[k])
      BY <1>1, <1>3
    <2>4. \A i, j \in 1..m : i < j => e[i] < e[j]
      BY <1>2a DEF Enumerates
    <2> QED
      BY <2>1, <2>2, <2>3, <2>4
  <1> HIDE DEF t
  <1>5. PICK q \in Nat : \E w : OneToOne(w, q, Len(t)) /\ Sorted(t, ScoreOf, RouteTop) = [k \in 1..q |-> t[w[k]]]
    <2>1. \A i \in 1..Len(t) : t[i].res \in Int
      BY <1>3
    <2> QED
      BY <1>3, <2>1, SortedIs
  <1>5a. PICK w : OneToOne(w, q, Len(t)) /\ Sorted(t, ScoreOf, RouteTop) = [k \in 1..q |-> t[w[k]]]
    BY <1>5
  <1> DEFINE v == [k \in 1..q |-> e[w[k]]]
  <1>6. w \in [1..q -> 1..m] /\ \A k, l \in 1..q : w[k] = w[l] => k = l
    BY <1>3, <1>5a DEF OneToOne
  <1>7. OneToOne(v, q, Len(s))
    BY <1>3, <1>4, <1>6 DEF OneToOne
  <1>8. Choice(s) = Lines(Sorted(t, ScoreOf, RouteTop))
    BY DEF Choice, t
  <1>9. DOMAIN Choice(s) = 1..q /\ \A k \in 1..q : Choice(s)[k] = t[w[k]].id.cfg
    BY <1>5a, <1>8 DEF Lines
  <1>10. \A k \in 1..q : Succeeds(s[v[k]].res) /\ Choice(s)[k] = s[v[k]].id.cfg
    BY <1>3, <1>6, <1>9
  <1> HIDE DEF v
  <1>11. \E x : /\ OneToOne(x, q, Len(s)) /\ DOMAIN Choice(s) = 1..q
                /\ \A k \in 1..q : Succeeds(s[x[k]].res) /\ Choice(s)[k] = s[x[k]].id.cfg
    BY <1>7, <1>9, <1>10
  <1> QED
    BY <1>5, <1>11

(* The rows of the current round's stage are rows of the search.            *)
NowFrom(a, stage, m, e) ==
  /\ OneToOne(e, m, Len(Hist(a))) /\ Len(Now(a, stage)) = m
  /\ \A k \in 1..m : /\ Now(a, stage)[k] = Hist(a)[e[k]]
                     /\ Hist(a)[e[k]].rnd = rnd[a] /\ Hist(a)[e[k]].id.stage = stage

LEMMA NowIs ==
  ASSUME RowsAre, NEW a \in ArmRuns, NEW stage
  PROVE  /\ IsSeq(Now(a, stage))
         /\ \E m \in Nat : \E e : NowFrom(a, stage, m, e)
PROOF
  <1> DEFINE s == Hist(a)
             I == {i \in 1..Len(s) : s[i].rnd = rnd[a] /\ s[i].id.stage = stage}
             t == Now(a, stage)
  <1>1. IsSeq(s)
    BY DEF RowsAre, Keys, Places, Hist
  <1>2. Len(s) \in Nat /\ DOMAIN s = 1..Len(s)
    BY <1>1, SeqIs
  <1>3. t = At(s, I)
    BY <1>2 DEF Now, Of, Hist
  <1>4. IsSeq(t)
    BY StagesAre
  <1>5. I \in SUBSET (1..Len(s))
    OBVIOUS
  <1>6. \A i \in I : i \in 1..Len(s) /\ s[i].rnd = rnd[a] /\ s[i].id.stage = stage
    OBVIOUS
  <1> HIDE DEF I, t, s
  <1> DEFINE n == Len(s)
  <1>7. PICK m \in Nat : \E e : Picks(At(s, I), s, e, m, I)
    <2>1. n \in Nat /\ I \in SUBSET (1..n)
      BY <1>2, <1>5
    <2> HIDE DEF n
    <2> QED
      BY <2>1, AtEnumerates
  <1>7a. PICK e : Enumerates(e, m, I) /\ At(s, I) = [k \in 1..m |-> s[e[k]]]
    BY <1>7 DEF Picks
  <1>8. m \in Nat /\ e \in [1..m -> I] /\ t = [k \in 1..m |-> s[e[k]]] /\ \A k, l \in 1..m : k < l => e[k] < e[l]
    BY <1>3, <1>7a DEF Enumerates
  <1>9. Len(t) = m
    <2>1. t = [k \in 1..m |-> t[k]]
      BY <1>8
    <2> QED
      BY <1>8, <2>1, SeqIs
  <1>10. OneToOne(e, m, Len(s))
    <2>1. \A k \in 1..m : e[k] \in 1..Len(s)
      BY <1>6, <1>8
    <2>2. e \in [1..m -> 1..Len(s)]
      BY <1>8, <2>1
    <2>3. ASSUME NEW k \in 1..m, NEW l \in 1..m, e[k] = e[l], k # l PROVE FALSE
      <3>1. k < l \/ l < k
        BY <1>8, <2>3
      <3>2. e[k] \in Nat /\ ~(e[k] < e[k])
        BY <1>2, <2>1
      <3> QED
        BY <1>8, <2>3, <3>1, <3>2
    <2> QED
      BY <2>2, <2>3 DEF OneToOne
  <1>11. \A k \in 1..m : t[k] = s[e[k]] /\ s[e[k]].rnd = rnd[a] /\ s[e[k]].id.stage = stage
    BY <1>6, <1>8
  <1>12. /\ OneToOne(e, m, Len(s)) /\ Len(t) = m
         /\ \A k \in 1..m : t[k] = s[e[k]] /\ s[e[k]].rnd = rnd[a] /\ s[e[k]].id.stage = stage
    BY <1>9, <1>10, <1>11
  <1>13. NowFrom(a, stage, m, e)
    BY <1>12 DEF NowFrom, s, t
  <1> QED
    BY <1>4, <1>8, <1>13 DEF t
(* The rows of a stage.                                                     *)
LEMMA OfStageIs ==
  ASSUME NEW s, IsSeq(s), NEW stage
  PROVE  /\ IsSeq(OfStage(s, stage)) /\ Len(OfStage(s, stage)) \in Nat
         /\ DOMAIN OfStage(s, stage) = 1..Len(OfStage(s, stage))
         /\ Range(OfStage(s, stage)) = {r \in Range(s) : r.id.stage = stage}
PROOF
  <1> DEFINE I == {i \in DOMAIN s : s[i].id.stage = stage}
             t == OfStage(s, stage)
  <1>1. Len(s) \in Nat /\ DOMAIN s = 1..Len(s)
    BY SeqIs
  <1>2. t = At(s, I)
    BY DEF OfStage, Of
  <1>3. I \in SUBSET (1..Len(s))
    BY <1>1
  <1>4. {s[i] : i \in I} = {r \in Range(s) : r.id.stage = stage}
    BY DEF Range
  <1> HIDE DEF I, t
  <1>5. IsSeq(t) /\ Range(t) = {s[i] : i \in I}
    BY <1>1, <1>2, <1>3, AtIs
  <1>6. Len(t) \in Nat /\ DOMAIN t = 1..Len(t)
    BY <1>5, SeqIs
  <1> QED
    BY <1>4, <1>5, <1>6 DEF t

(* An evaluation ends in a number or fails.                                 *)
LEMMA OutcomeIs == ASSUME NEW id, Asked(id) PROVE Outcome(id) \in Nat \cup {Bad}
PROOF
  <1> DEFINE S == {SearchSeed} \cup Range(LotterySeeds) \cup Range(HeldOutSeeds)
             c == id.cfg
             s == id.seed
  <1>1. c \in PlacerConfigs /\ s \in S /\ id.stage \in Stages
    BY DEF Asked
  <1>2. \A d \in PlacerConfigs, e \in S : {Hpwl[d], GrtWl[d], RoutedWl[d, e]} \subseteq Nat \cup {Bad}
    BY NumbersAssumption
  <1>3. Outcome(id) \in {Hpwl[c], GrtWl[c], RoutedWl[c, s]}
    BY <1>1 DEF Outcome, Stages
  <1> HIDE DEF S, c, s
  <1> QED
    BY <1>1, <1>2, <1>3

LEMMA TruthfulIs ==
  ASSUME NEW r, Truthful(r)
  PROVE  r.res \in Int /\ (Succeeds(r.res) => r.res = Outcome(r.id) /\ r.res \in Nat)
PROOF
  BY OutcomeIs DEF Truthful, Succeeds, Bad, Infra

(* The best routed result is the one of a row.                              *)
LEMMA BestIs ==
  ASSUME RowsAre, Truths, NEW a \in ArmRuns, BestRouted(a) # Bad
  PROVE  BestConfig(a) \in PlacerConfigs
PROOF
  <1> DEFINE s == rows[<<a, "search">>]
             t == OfStage(s, "route")
             X == RoutedScores(s)
             b == BestRouted(a)
             J == {i \in DOMAIN t : t[i].res = b}
  <1>1. IsSeq(s) /\ \A r \in Range(s) : Truthful(r)
    BY DEF RowsAre, Truths, Keys, Places
  <1>2. Len(t) \in Nat /\ DOMAIN t = 1..Len(t) /\ Range(t) = {r \in Range(s) : r.id.stage = "route"}
    BY <1>1, OfStageIs
  <1>3. X = {r.res : r \in {x \in Range(t) : Succeeds(x.res)}}
    BY DEF RoutedScores
  <1>4. X # {} /\ b = Min(X)
    BY DEF BestRouted, Bad
  <1> HIDE DEF s, X, b
  <1>5. X \subseteq Nat
    BY <1>1, <1>2, <1>3, TruthfulIs
  <1>6. b \in X
    BY <1>4, <1>5, LeastOf
  <1>7. \E r \in Range(t) : r.res = b
    BY <1>3, <1>6
  <1> HIDE DEF t
  <1>8. J # {} /\ J \subseteq Nat
    BY <1>2, <1>7 DEF Range
  <1>9. Min(J) \in J
    <2> HIDE DEF J
    <2> QED
      BY <1>8, LeastOf
  <1>10. t[Min(J)] \in Range(t)
    BY <1>9 DEF Range
  <1>11. BestConfig(a) = t[Min(J)].id.cfg
    BY DEF BestConfig, s, t, b
  <1> HIDE DEF J
  <1>12. Truthful(t[Min(J)])
    BY <1>1, <1>2, <1>10
  <1> QED
    BY <1>11, <1>12 DEF Truthful, Asked

(* A call of a generator that draws enough stays within what it draws.      *)
LEMMA CallFits ==
  ASSUME NEW c \in Nat, NEW m \in Nat, c < m, NEW b \in Nat, NEW k \in 1..b
  PROVE  c * b + k \in 1..(m * b)
PROOF
  <1>1. PICK d \in Nat : m = c + 1 + d
    <2>1. m - c - 1 \in Nat /\ m = c + 1 + (m - c - 1)
      OBVIOUS
    <2> QED
      BY <2>1
  <1>2. c * b \in Nat /\ d * b \in Nat
    OBVIOUS
  <1>3. m * b = c * b + b + d * b
    BY <1>1
  <1> QED
    BY <1>2, <1>3

(* What a random arm-run's generator draws for a call of its loop.          *)
LEMMA DrawnIs ==
  ASSUME Located, NEW a \in ArmRuns, Random(a), NEW c \in 0..(Rounds - 1)
  PROVE  DOMAIN DrawnIn(a, c) = 1..Batch /\ \A k \in 1..Batch : DrawnIn(a, c)[k] \in PlacerConfigs
PROOF
  <1> DEFINE d == c * Batch
             cs == DrawnIn(a, c)
  <1>1. Batch \in Nat /\ Rounds \in Nat
    BY LoopAssumption
  <1>2. Drawn[a] \in [1..Rounds * Batch -> PlacerConfigs]
    BY LineupsAssumption DEF Located, Random, ArmRuns
  <1>3. d \in Int /\ (c + 1) * Batch = d + Batch
    BY <1>1
  <1>4. \A k \in 1..Batch : d + k \in 1..(Rounds * Batch)
    BY <1>1, CallFits
  <1>5. cs = SubSeq(Drawn[a], d + 1, d + Batch)
    BY <1>3 DEF DrawnIn
  <1> HIDE DEF d, cs
  <1>6. \A i \in (d + 1)..(d + Batch) : Drawn[a][i] \in PlacerConfigs
    <2>1. SUFFICES ASSUME NEW i \in (d + 1)..(d + Batch) PROVE Drawn[a][i] \in PlacerConfigs
      OBVIOUS
    <2>2. i - d \in 1..Batch /\ d + (i - d) = i
      BY <1>1, <1>3
    <2>3. i \in 1..(Rounds * Batch)
      BY <1>4, <2>2
    <2> QED
      BY <1>2, <2>3
  <1>7. cs \in Seq(PlacerConfigs) /\ Len(cs) = Batch
    <2>1. /\ cs \in Seq(PlacerConfigs)
          /\ Len(cs) = (IF d + 1 <= d + Batch THEN (d + Batch) - (d + 1) + 1 ELSE 0)
      BY <1>1, <1>3, <1>5, <1>6, SubSeqProperties
    <2> QED
      BY <1>1, <1>3, <2>1
  <1> QED
    BY <1>7 DEF cs

(* What may be proposed: the candidates of the generator, in a random arm.  *)
LEMMA ProposalsAsked ==
  ASSUME Located, RoundsAre, NEW a \in ArmRuns, at[a] = "round", rnd[a] < last[a], NEW cs \in Proposals(a)
  PROVE  /\ DOMAIN cs = 1..Batch /\ \A k \in 1..Batch : cs[k] \in PlacerConfigs
         /\ Random(a) => Call(a) \in 0..(Rounds - 1) /\ cs = DrawnIn(a, Call(a))
PROOF
  <1> DEFINE c == Call(a)
  <1>1. DOMAIN cs = 1..Batch /\ Batch \in Nat /\ Rounds \in Nat
    BY ProposalsAre, LoopAssumption
  <1>2. CASE Random(a)
    <2>1. c \in 0..(Rounds - 1)
      <3>1. rnd[a] \in Nat /\ last[a] \in Nat /\ kind[a] # "default_seeds" /\ last[a] - Rounds <= rnd[a]
        BY <1>2 DEF RoundsAre, Random, Located, CallIs
      <3> QED
        BY <1>1, <3>1 DEF Call
    <2>2. cs = DrawnIn(a, c)
      BY <1>2 DEF Proposals, DrawnIn
    <2> HIDE DEF c
    <2> QED
      BY <1>1, <1>2, <2>1, <2>2, DrawnIs DEF c
  <1>3. CASE ~Random(a)
    BY <1>1, <1>3 DEF Proposals
  <1> QED
    BY <1>2, <1>3

(* A batch of askable identities keeps the rows true.                       *)
LEMMA AskTrue ==
  ASSUME TodoIs, Truths, kind' = kind, rows' = rows, NEW a \in ArmRuns, NEW n \in Nat, NEW ids, DOMAIN ids = 1..n,
         \A i \in 1..n : Asked(ids[i]), NEW place, rnd'[a] \in Nat, Ask(a, ids, place)
  PROVE  Truths'
PROOF
  <1>1. ArmRuns' = ArmRuns /\ Keys' = Keys
    BY DEF ArmRuns, Keys, Places
  <1>2. /\ \A b \in ArmRuns \ {a} : todo'[b] = todo[b]
        /\ DOMAIN todo'[a] = 1..n
        /\ \A i \in 1..n :
             /\ todo'[a][i].rnd = (IF place = "search" THEN rnd'[a] ELSE 1)
             /\ todo'[a][i].id = ids[i] /\ todo'[a][i].res \in {Infra, Outcome(ids[i])}
    BY AskGives
  <1>3. \A i \in 1..n : Truthful(todo'[a][i])
    BY <1>2 DEF Truthful
  <1>4. \A t \in Range(todo'[a]) : Truthful(t)
    BY <1>2, <1>3 DEF Range
  <1>5. \A b \in ArmRuns : \A t \in Range(todo'[b]) : Truthful(t)
    BY <1>2, <1>4 DEF Truths
  <1>6. \A k \in Keys : \A r \in Range(rows'[k]) : Truthful(r) /\ (k[2] = "cache" => Succeeds(r.res))
    BY DEF Truths
  <1> QED
    BY <1>1, <1>5, <1>6 DEF Truths

(* What a stage asks for are rows' candidates.                              *)
LEMMA StageAsked ==
  ASSUME RowsAre, Truths, NEW a \in ArmRuns, NEW stage
  PROVE  /\ \A i \in 1..Len(Now(a, stage)) : Truthful(Now(a, stage)[i]) /\ Now(a, stage)[i].res \in Int
         /\ \E n \in Nat : /\ DOMAIN Lines(Feasible(Now(a, stage))) = 1..n
                           /\ \A k \in 1..n : Lines(Feasible(Now(a, stage)))[k] \in PlacerConfigs
         /\ \E n \in Nat : /\ DOMAIN Choice(Now(a, stage)) = 1..n
                           /\ \A k \in 1..n : Choice(Now(a, stage))[k] \in PlacerConfigs
PROOF
  <1> DEFINE s == Now(a, stage)
  <1>1. IsSeq(s) /\ \A i \in 1..Len(s) : Truthful(s[i])
    <2>1. IsSeq(Hist(a)) /\ \A r \in Range(Hist(a)) : Truthful(r)
      BY DEF RowsAre, Truths, Keys, Places, Hist
    <2>2. \A i \in 1..Len(Hist(a)) : Hist(a)[i] \in Range(Hist(a))
      BY <2>1, SeqIs
    <2>3. PICK m \in Nat : \E e : NowFrom(a, stage, m, e)
      BY NowIs
    <2>4. PICK e : OneToOne(e, m, Len(Hist(a))) /\ Len(s) = m /\ \A k \in 1..m : s[k] = Hist(a)[e[k]]
      BY <2>3 DEF NowFrom
    <2>5. Len(s) = m /\ \A k \in 1..m : e[k] \in 1..Len(Hist(a))
      BY <2>4 DEF OneToOne
    <2>6. IsSeq(s)
      BY NowIs
    <2> HIDE DEF s
    <2> QED
      BY <2>1, <2>2, <2>4, <2>5, <2>6
  <1> HIDE DEF s
  <1>2. \A i \in 1..Len(s) : s[i].res \in Int /\ s[i].id.cfg \in PlacerConfigs
    BY <1>1, TruthfulIs DEF Truthful, Asked
  <1>3. \E n \in Nat : DOMAIN Lines(Feasible(s)) = 1..n /\ \A k \in 1..n : Lines(Feasible(s))[k] \in PlacerConfigs
    <2>1. PICK m \in Nat : \E e \in [1..m -> {i \in 1..Len(s) : Succeeds(s[i].res)}] :
            /\ Enumerates(e, m, {i \in 1..Len(s) : Succeeds(s[i].res)})
            /\ Feasible(s) = [k \in 1..m |-> s[e[k]]] /\ IsSeq(Feasible(s)) /\ Len(Feasible(s)) = m
      BY <1>1, FeasibleIs
    <2>2. PICK e \in [1..m -> {i \in 1..Len(s) : Succeeds(s[i].res)}] : Feasible(s) = [k \in 1..m |-> s[e[k]]]
      BY <2>1
    <2>3. DOMAIN Lines(Feasible(s)) = 1..m /\ \A k \in 1..m : Lines(Feasible(s))[k] = s[e[k]].id.cfg /\ e[k] \in 1..Len(s)
      BY <2>2 DEF Lines
    <2> QED
      BY <1>2, <2>3
  <1>4. \E n \in Nat : DOMAIN Choice(s) = 1..n /\ \A k \in 1..n : Choice(s)[k] \in PlacerConfigs
    <2>1. PICK q \in Nat : \E w : /\ OneToOne(w, q, Len(s)) /\ DOMAIN Choice(s) = 1..q
                                  /\ \A k \in 1..q : Succeeds(s[w[k]].res) /\ Choice(s)[k] = s[w[k]].id.cfg
      BY <1>1, <1>2, ChoiceIs
    <2>2. PICK w : /\ OneToOne(w, q, Len(s)) /\ DOMAIN Choice(s) = 1..q
                   /\ \A k \in 1..q : Succeeds(s[w[k]].res) /\ Choice(s)[k] = s[w[k]].id.cfg
      BY <2>1
    <2>3. \A k \in 1..q : w[k] \in 1..Len(s)
      BY <2>2 DEF OneToOne
    <2> QED
      BY <1>2, <2>2, <2>3
  <1> QED
    BY <1>1, <1>2, <1>3, <1>4 DEF s
(* Rows and batches that only lose entries stay true.                       *)
LEMMA FewerTrue ==
  ASSUME Truths, kind' = kind,
         \A k \in Keys : \A r \in Range(rows'[k]) : (\E q \in {"search", "validate", k[2]} : r \in Range(rows[<<k[1], q>>])) /\ (k[2] = "cache" => Succeeds(r.res)),
         \A a \in ArmRuns : Range(todo'[a]) \subseteq Range(todo[a])
  PROVE  Truths'
PROOF
  <1>1. ArmRuns' = ArmRuns /\ Keys' = Keys
    BY DEF ArmRuns, Keys, Places
  <1>2. ASSUME NEW k \in Keys, NEW r \in Range(rows'[k]) PROVE Truthful(r) /\ (k[2] = "cache" => Succeeds(r.res))
    <2>1. PICK q \in {"search", "validate", k[2]} : r \in Range(rows[<<k[1], q>>])
      BY <1>2
    <2>2. <<k[1], q>> \in Keys
      BY DEF Keys, Places
    <2>3. Truthful(r)
      BY <2>1, <2>2 DEF Truths
    <2> QED
      BY <1>2, <2>3
  <1>3. \A a \in ArmRuns : \A t \in Range(todo'[a]) : Truthful(t)
    BY DEF Truths
  <1> QED
    BY <1>1, <1>2, <1>3 DEF Truths

(* A record copies a result of the batch.                                   *)
LEMMA RecordTrue ==
  ASSUME RowsAre, TodoIs, Located, Truths, NEW a \in ArmRuns, Record(a)
  PROVE  Truths'
PROOF
  <1> DEFINE t == todo[a][1]
             K == <<a, t.place>>
  <1>1. /\ t \in Range(todo[a]) /\ t.place \in Places /\ kind' = kind
        /\ \A k \in Keys : rows'[k] = (IF k = K THEN Append(rows[k], Kept(t)) ELSE rows[k])
        /\ \A b \in ArmRuns \ {a} : todo'[b] = todo[b]
        /\ Range(todo'[a]) \subseteq Range(todo[a])
    BY RecordGives
  <1>2. ArmRuns' = ArmRuns /\ Keys' = Keys
    BY <1>1 DEF ArmRuns, Keys, Places
  <1>3. Truthful(t) /\ t.place # "cache" /\ K \in Keys
    BY <1>1 DEF Truths, Located, BatchIs, Keys
  <1>4. Truthful(Kept(t))
    BY <1>3 DEF Truthful, Kept
  <1>5. IsSeq(rows[K]) /\ \A r \in Range(rows[K]) : Truthful(r)
    BY <1>3 DEF RowsAre, Truths
  <1>6. \A r \in Range(Append(rows[K], Kept(t))) : Truthful(r)
    BY <1>4, <1>5, AppendIs
  <1>7. K[2] # "cache"
    BY <1>3
  <1> HIDE DEF t, K
  <1>8. \A k \in Keys : \A r \in Range(rows'[k]) : Truthful(r) /\ (k[2] = "cache" => Succeeds(r.res))
    BY <1>1, <1>6, <1>7 DEF Truths
  <1>9. \A b \in ArmRuns : \A u \in Range(todo'[b]) : Truthful(u)
    BY <1>1 DEF Truths
  <1> QED
    BY <1>2, <1>8, <1>9 DEF Truths

(* The candidates of a list, asked for at a stage.                          *)
LEMMA RequestsAsked ==
  ASSUME NEW cs, NEW n \in Nat, DOMAIN cs = 1..n, \A k \in 1..n : cs[k] \in PlacerConfigs, NEW stage \in Stages
  PROVE  DOMAIN Requests(stage, cs) = 1..n /\ \A i \in 1..n : Asked(Requests(stage, cs)[i])
PROOF
  BY DEF Requests, Id, Asked

(* The steps of an arm-run.                                                 *)
LEMMA SearchTrue ==
  ASSUME RowsAre, TodoIs, RoundsAre, Located, Truths, NEW a \in ArmRuns, Search(a)
  PROVE  Truths'
PROOF
  <1>1. ASSUME kind' = kind, rows' = rows, todo' = todo PROVE Truths'
    BY <1>1 DEF Truths, ArmRuns, Keys, Places
  <1>2. CASE Record(a)
    BY <1>2, RecordTrue
  <1>3. CASE Enter(a) \/ ProposeRaises(a) \/ EndRound(a)
    BY <1>1, <1>3 DEF Enter, ProposeRaises, EndRound
  <1>4. CASE EnterLottery(a)
    <2> DEFINE ids == [i \in DOMAIN LotterySeeds |-> Id("route", DefaultKnobs, LotterySeeds[i])]
               n == Rounds * RouteTop
    <2>1. n \in Nat /\ DOMAIN LotterySeeds = 1..n
      BY LoopAssumption DEF LotterySeeds
    <2>2. \A i \in 1..n : LotterySeeds[i] \in Range(LotterySeeds)
      BY <2>1 DEF Range
    <2> HIDE DEF n
    <2>3. DOMAIN ids = 1..n /\ \A i \in 1..n : Asked(ids[i])
      BY <2>1, <2>2, LoopAssumption DEF Id, Asked, Stages
    <2>4. Ask(a, ids, "search") /\ kind' = kind /\ rows' = rows /\ rnd'[a] \in Nat
      BY <1>4 DEF EnterLottery, RoundsAre
    <2> HIDE DEF ids
    <2> QED
      BY <2>1, <2>3, <2>4, AskTrue
  <1>5. CASE Propose(a)
    <2>1. PICK cs \in Proposals(a) : Ask(a, Requests("proxy", cs), "search")
      BY <1>5 DEF Propose
    <2>2. at[a] = "round" /\ rnd[a] < last[a] /\ kind' = kind /\ rows' = rows /\ rnd'[a] \in Nat
      BY <1>5 DEF Propose, RoundsAre
    <2>3. DOMAIN cs = 1..Batch /\ \A k \in 1..Batch : cs[k] \in PlacerConfigs
      BY <2>2, ProposalsAsked
    <2>4. Batch \in Nat /\ "proxy" \in Stages
      BY LoopAssumption DEF Stages
    <2>5. DOMAIN Requests("proxy", cs) = 1..Batch /\ \A i \in 1..Batch : Asked(Requests("proxy", cs)[i])
      BY <2>3, <2>4, RequestsAsked
    <2> QED
      BY <2>1, <2>2, <2>4, <2>5, AskTrue
  <1>6. ASSUME NEW cs, NEW n \in Nat, DOMAIN cs = 1..n, \A k \in 1..n : cs[k] \in PlacerConfigs, NEW stage \in Stages,
               kind' = kind, rows' = rows, rnd' = rnd, Ask(a, Requests(stage, cs), "search")
        PROVE  Truths'
    <2>1. DOMAIN Requests(stage, cs) = 1..n /\ \A i \in 1..n : Asked(Requests(stage, cs)[i])
      BY <1>6, RequestsAsked
    <2>2. rnd'[a] \in Nat
      BY <1>6 DEF RoundsAre
    <2> QED
      BY <1>6, <2>1, <2>2, AskTrue
  <1>7. CASE ScreenByGrt(a)
    <2>1. /\ kind' = kind /\ rows' = rows /\ rnd' = rnd /\ "grt" \in Stages
          /\ Ask(a, Requests("grt", Lines(Feasible(Now(a, "proxy")))), "search")
      BY <1>7 DEF ScreenByGrt, Stages
    <2>2. PICK n \in Nat : /\ DOMAIN Lines(Feasible(Now(a, "proxy"))) = 1..n
                           /\ \A k \in 1..n : Lines(Feasible(Now(a, "proxy")))[k] \in PlacerConfigs
      BY StageAsked
    <2> QED
      BY <2>1, <2>2, <1>6
  <1>8. CASE RouteByHpwl(a) \/ RouteByGrt(a)
    <2>1. PICK stage \in {"proxy", "grt"} : Route(a, stage)
      BY <1>8 DEF RouteByHpwl, RouteByGrt
    <2>2. /\ kind' = kind /\ rows' = rows /\ rnd' = rnd /\ "route" \in Stages
          /\ Ask(a, Requests("route", Choice(Now(a, stage))), "search")
      BY <2>1 DEF Route, Stages
    <2>3. PICK n \in Nat : /\ DOMAIN Choice(Now(a, stage)) = 1..n
                           /\ \A k \in 1..n : Choice(Now(a, stage))[k] \in PlacerConfigs
      BY StageAsked
    <2> QED
      BY <2>2, <2>3, <1>6
  <1> QED
    BY <1>2, <1>3, <1>4, <1>5, <1>7, <1>8 DEF Search

(* Every step of the experiment.                                            *)
LEMMA TruthsStep ==
  ASSUME IInv1, Located, Truths, [NextV1]_vars1
  PROVE  Truths'
PROOF
  <1>1. RowsAre /\ TodoIs /\ RoundsAre /\ jobs \subseteq ArmRuns
    BY DEF IInv1
  <1>2. ASSUME kind' = kind, rows' = rows, todo' = todo \/ todo' = [a \in ArmRuns |-> <<>>] PROVE Truths'
    <2>1. ArmRuns' = ArmRuns /\ Keys' = Keys
      BY <1>2 DEF ArmRuns, Keys, Places
    <2>2. \A a \in ArmRuns : Range(todo'[a]) \subseteq Range(todo[a])
      BY <1>2 DEF Range
    <2> QED
      BY <1>2, <2>1, <2>2 DEF Truths
  <1>3. CASE RunExperiment \/ ArmOutOfTime \/ MapEnds \/ MapRaises \/ EndValidation \/ Write \/ Kill \/ UNCHANGED vars1
    BY <1>2, <1>3 DEF RunExperiment, ArmOutOfTime, MapEnds, MapRaises, EndValidation, Write, Kill, Stop, vars1
  <1>4. CASE ArmStep
    BY <1>1, <1>4, SearchTrue DEF ArmStep
  <1>5. CASE Validate
    <2>1. PICK a \in jobs : \/ UNCHANGED todo
                            \/ BestRouted(a) # Bad /\ Ask(a, HeldOut(a), "validate")
      BY <1>5 DEF Validate, First
    <2>2. kind' = kind /\ rows' = rows /\ rnd' = rnd
      BY <1>5 DEF Validate, searching
    <2>3. CASE UNCHANGED todo
      BY <1>2, <2>2, <2>3
    <2>4. CASE BestRouted(a) # Bad /\ Ask(a, HeldOut(a), "validate")
      <3>1. Len(HeldOutSeeds) \in Nat /\ DOMAIN HeldOutSeeds = 1..Len(HeldOutSeeds)
        BY LoopAssumption
      <3>2. BestConfig(a) \in PlacerConfigs
        BY <1>1, <2>4, BestIs
      <3>3. \A i \in 1..Len(HeldOutSeeds) : HeldOutSeeds[i] \in Range(HeldOutSeeds)
        BY <3>1 DEF Range
      <3>4. /\ DOMAIN HeldOut(a) = 1..Len(HeldOutSeeds)
            /\ \A i \in 1..Len(HeldOutSeeds) : Asked(HeldOut(a)[i])
        BY <3>1, <3>2, <3>3 DEF HeldOut, Id, Asked, Stages
      <3>5. a \in ArmRuns /\ rnd'[a] \in Nat
        BY <1>1, <2>2 DEF RoundsAre
      <3> QED
        BY <1>1, <2>2, <2>4, <3>1, <3>4, <3>5, AskTrue
    <2> QED
      BY <2>1, <2>3, <2>4
  <1>6. CASE RecordValidation
    BY <1>1, <1>6, RecordTrue DEF RecordValidation
  <1>7. CASE Repair
    <2>1. kind' = kind /\ todo' = todo /\ rows' = SetAside(InfraFailed) /\ DOMAIN rows = Keys
      BY <1>1, <1>7 DEF Repair, RowsAre
    <2>2. \A k \in Keys : rows'[k] =
             (IF k[1] \notin InfraFailed THEN rows[k]
              ELSE IF k[2] = "cache"
                   THEN rows[k] \o Good(rows[<<k[1], "search">>]) \o Good(rows[<<k[1], "validate">>])
              ELSE Rest(rows[k]))
      BY <2>1 DEF SetAside, SetAsideWith
    <2>3. ASSUME NEW k \in Keys, NEW r \in Range(rows'[k])
          PROVE  /\ \E q \in {"search", "validate", k[2]} : r \in Range(rows[<<k[1], q>>])
                 /\ k[2] = "cache" => Succeeds(r.res)
      <3>1. /\ k = <<k[1], k[2]>> /\ <<k[1], "search">> \in Keys /\ <<k[1], "validate">> \in Keys
        BY DEF Keys, Places
      <3> DEFINE s == rows[<<k[1], "search">>]
                 v == rows[<<k[1], "validate">>]
      <3>2. IsSeq(rows[k]) /\ IsSeq(s) /\ IsSeq(v)
        BY <1>1, <3>1 DEF RowsAre
      <3>3. /\ IsSeq(Good(s)) /\ Range(Good(s)) = {x \in Range(s) : Succeeds(x.res)}
            /\ IsSeq(Good(v)) /\ Range(Good(v)) = {x \in Range(v) : Succeeds(x.res)}
            /\ Range(Rest(rows[k])) = {x \in Range(rows[k]) : ~Succeeds(x.res)}
        BY <3>2, FiltersAre
      <3>4. CASE rows'[k] = rows[k]
        BY <2>3, <3>1, <3>4 DEF Truths
      <3>5. CASE k[2] = "cache" /\ rows'[k] = rows[k] \o Good(s) \o Good(v)
        <4>1. IsSeq(rows[k] \o Good(s)) /\ Range(rows[k] \o Good(s)) = Range(rows[k]) \cup Range(Good(s))
          BY <3>2, <3>3, ConcatIs
        <4>2. Range(rows'[k]) = Range(rows[k]) \cup Range(Good(s)) \cup Range(Good(v))
          BY <3>3, <3>5, <4>1, ConcatIs
        <4>3. r \in Range(rows[k]) \/ r \in Range(Good(s)) \/ r \in Range(Good(v))
          BY <2>3, <4>2
        <4>4. r \in Range(rows[k]) => Succeeds(r.res)
          BY <3>5 DEF Truths
        <4> QED
          BY <3>1, <3>3, <4>3, <4>4
      <3>6. CASE k[2] # "cache" /\ rows'[k] = Rest(rows[k])
        BY <2>3, <3>1, <3>3, <3>6
      <3> QED
        BY <2>2, <3>4, <3>5, <3>6
    <2> QED
      BY <2>1, <2>3, FewerTrue
  <1>8. CASE Purge
    <2>1. /\ kind' = kind /\ todo' = todo
          /\ \A k \in Keys : rows'[k] = (IF k[1] \in jobs /\ k[2] # "cache" THEN <<>> ELSE rows[k])
      BY <1>1, <1>8 DEF Purge, Launch, RowsAre
    <2>2. ASSUME NEW k \in Keys, NEW r \in Range(rows'[k])
          PROVE  /\ \E q \in {"search", "validate", k[2]} : r \in Range(rows[<<k[1], q>>])
                 /\ k[2] = "cache" => Succeeds(r.res)
      <3>1. rows'[k] = rows[k] \/ rows'[k] = <<>>
        BY <2>1
      <3>2. r \in Range(rows[k]) /\ k = <<k[1], k[2]>>
        BY <2>2, <3>1 DEF Range, Keys
      <3> QED
        BY <3>2 DEF Truths
    <2> QED
      BY <2>1, <2>2, FewerTrue
  <1> QED
    BY <1>3, <1>4, <1>5, <1>6, <1>7, <1>8 DEF NextV1, Over1
-----------------------------------------------------------------------------
(* What the arm-run without routes in its prompt routes has been placed.    *)

(* What is placed stays placed when a row is added.                         *)
LEMMA StaysPlaced ==
  ASSUME NEW h, IsSeq(h), NEW r
  PROVE  /\ \A n, c : PlacedIn(h, n, c) => PlacedIn(Append(h, r), n, c)
         /\ \A c : PlacedTwice(h, c) => PlacedTwice(Append(h, r), c)
         /\ DOMAIN Append(h, r) = 1..(Len(h) + 1) /\ DOMAIN h = 1..Len(h) /\ Len(h) \in Nat
         /\ Append(h, r)[Len(h) + 1] = r /\ \A i \in 1..Len(h) : Append(h, r)[i] = h[i]
         /\ Range(Append(h, r)) = Range(h) \cup {r}
PROOF
  <1> DEFINE g == Append(h, r)
  <1>1. Len(h) \in Nat /\ DOMAIN h = 1..Len(h)
    BY SeqIs
  <1>2. Range(g) = Range(h) \cup {r}
    BY AppendIs
  <1>3. DOMAIN g = 1..(Len(h) + 1) /\ g[Len(h) + 1] = r /\ \A i \in 1..Len(h) : g[i] = h[i]
    <2> DEFINE T == Range(h) \cup {r}
    <2>1. h \in Seq(T) /\ r \in T
      <3>1. Range(h) \subseteq T
        OBVIOUS
      <3> HIDE DEF T
      <3> QED
        BY <3>1, SeqOver DEF T
    <2> HIDE DEF T
    <2> QED
      BY <1>1, <2>1
  <1> HIDE DEF g
  <1>4. ASSUME NEW c, PlacedTwice(h, c) PROVE PlacedTwice(g, c)
    <2>1. PICK p \in 1..Len(h), q \in 1..Len(h) :
            p # q /\ PlacedRow(h[p]) /\ PlacedRow(h[q]) /\ h[p].id.cfg = c /\ h[q].id.cfg = c
      BY <1>1, <1>4 DEF PlacedTwice
    <2>2. p \in DOMAIN g /\ q \in DOMAIN g /\ g[p] = h[p] /\ g[q] = h[q]
      BY <1>1, <1>3
    <2> QED
      BY <2>1, <2>2 DEF PlacedTwice
  <1>5. ASSUME NEW n, NEW c, PlacedIn(h, n, c) PROVE PlacedIn(g, n, c)
    BY <1>2, <1>5 DEF PlacedIn
  <1> QED
    BY <1>1, <1>2, <1>3, <1>4, <1>5 DEF g

(* A row that is not routed disturbs nothing.                               *)
LEMMA PlacedAdded ==
  ASSUME NEW h, IsSeq(h), NEW r, RowsBacked(h), ~RoutedRow(r), r.id.stage # "grt"
  PROVE  RowsBacked(Append(h, r))
PROOF
  <1> DEFINE g == Append(h, r)
  <1>1. /\ \A n, c : PlacedIn(h, n, c) => PlacedIn(g, n, c)
        /\ \A c : PlacedTwice(h, c) => PlacedTwice(g, c)
        /\ DOMAIN g = 1..(Len(h) + 1) /\ DOMAIN h = 1..Len(h) /\ Len(h) \in Nat
        /\ g[Len(h) + 1] = r /\ \A i \in 1..Len(h) : g[i] = h[i]
        /\ Range(g) = Range(h) \cup {r}
    BY StaysPlaced
  <1> HIDE DEF g
  <1>2. ASSUME NEW x \in Range(g) PROVE x.id.stage # "grt" /\ (RoutedRow(x) => PlacedIn(g, x.rnd, x.id.cfg))
    BY <1>1 DEF RowsBacked
  <1>3. ASSUME NEW i \in DOMAIN g, NEW j \in DOMAIN g, i # j, RoutedAlike(g[i], g[j]) PROVE PlacedTwice(g, g[i].id.cfg)
    <2>1. i # Len(h) + 1 /\ j # Len(h) + 1
      BY <1>1, <1>3 DEF RoutedAlike
    <2>2. i \in DOMAIN h /\ j \in DOMAIN h /\ g[i] = h[i] /\ g[j] = h[j]
      BY <1>1, <2>1
    <2> QED
      BY <1>1, <1>3, <2>2 DEF RowsBacked
  <1> QED
    BY <1>2, <1>3 DEF RowsBacked, g

(* The next row of a batch that is routed.                                  *)
LEMMA RoutedAdded ==
  ASSUME NEW h, IsSeq(h), RowsBacked(h), NEW n, NEW s, Len(s) \in Nat \ {0}, DOMAIN s = 1..Len(s), BatchBacked(h, n, s),
         NEW r, r.id = s[1].id, r.id.stage # "grt", r.rnd = n,
         NEW u, DOMAIN u = 1..(Len(s) - 1), \A i \in 1..(Len(s) - 1) : u[i] = s[i + 1] /\ i + 1 \in 1..Len(s)
  PROVE  RowsBacked(Append(h, r)) /\ BatchBacked(Append(h, r), n, u)
PROOF
  <1> DEFINE g == Append(h, r)
  <1>1. /\ \A m, c : PlacedIn(h, m, c) => PlacedIn(g, m, c)
        /\ \A c : PlacedTwice(h, c) => PlacedTwice(g, c)
        /\ DOMAIN g = 1..(Len(h) + 1) /\ DOMAIN h = 1..Len(h) /\ Len(h) \in Nat
        /\ g[Len(h) + 1] = r /\ \A i \in 1..Len(h) : g[i] = h[i]
        /\ Range(g) = Range(h) \cup {r}
    BY StaysPlaced
  <1>2. s[1] \in Range(s) /\ 1 \in DOMAIN s
    BY DEF Range
  <1>3. \A t \in Range(u) : \E k \in 1..(Len(s) - 1) : t = s[k + 1] /\ k + 1 \in DOMAIN s /\ k + 1 # 1 /\ t \in Range(s)
    <2>1. SUFFICES ASSUME NEW t \in Range(u)
                   PROVE \E k \in 1..(Len(s) - 1) : t = s[k + 1] /\ k + 1 \in DOMAIN s /\ k + 1 # 1 /\ t \in Range(s)
      OBVIOUS
    <2>2. PICK k \in 1..(Len(s) - 1) : t = u[k]
      BY DEF Range
    <2>3. t = s[k + 1] /\ k + 1 \in DOMAIN s /\ k + 1 # 1
      BY <2>2
    <2>4. t \in Range(s)
      BY <2>3 DEF Range
    <2> QED
      BY <2>3, <2>4
  <1> HIDE DEF g
  <1>4. ASSUME NEW x \in Range(g) PROVE x.id.stage # "grt" /\ (RoutedRow(x) => PlacedIn(g, x.rnd, x.id.cfg))
    <2>1. CASE x \in Range(h)
      BY <1>1, <2>1 DEF RowsBacked
    <2>2. CASE x = r
      BY <1>1, <1>2, <2>2 DEF BatchBacked
    <2> QED
      BY <1>1, <1>4, <2>1, <2>2
  <1>5. ASSUME NEW i \in DOMAIN g, NEW j \in DOMAIN g, i # j, RoutedAlike(g[i], g[j]) PROVE PlacedTwice(g, g[i].id.cfg)
    <2>1. CASE i # Len(h) + 1 /\ j # Len(h) + 1
      <3>1. i \in DOMAIN h /\ j \in DOMAIN h /\ g[i] = h[i] /\ g[j] = h[j]
        BY <1>1, <2>1
      <3> QED
        BY <1>1, <1>5, <3>1 DEF RowsBacked
    <2>2. ASSUME NEW k \in DOMAIN g, k # Len(h) + 1, RoutedRow(g[k]), g[k].id.cfg = r.id.cfg, g[k].rnd = r.rnd
          PROVE  PlacedTwice(g, r.id.cfg)
      <3>1. k \in DOMAIN h /\ g[k] = h[k] /\ h[k] \in Range(h)
        BY <1>1, <2>2 DEF Range
      <3>2. PlacedTwice(h, s[1].id.cfg)
        BY <1>2, <2>2, <3>1 DEF BatchBacked
      <3> QED
        BY <1>1, <3>2
    <2>3. CASE i = Len(h) + 1
      BY <1>1, <1>5, <2>2, <2>3 DEF RoutedAlike
    <2>4. CASE j = Len(h) + 1
      BY <1>1, <1>5, <2>2, <2>4 DEF RoutedAlike
    <2> QED
      BY <2>1, <2>3, <2>4
  <1>6. RowsBacked(g)
    BY <1>4, <1>5 DEF RowsBacked
  <1>7. \A t \in Range(u) : PlacedIn(g, n, t.id.cfg)
    BY <1>1, <1>3 DEF BatchBacked
  <1>8. ASSUME NEW k \in DOMAIN u, NEW l \in DOMAIN u, k # l, u[k].id.cfg = u[l].id.cfg PROVE PlacedTwice(g, u[k].id.cfg)
    <2>1. u[k] = s[k + 1] /\ u[l] = s[l + 1] /\ k + 1 \in DOMAIN s /\ l + 1 \in DOMAIN s /\ k + 1 # l + 1
      BY <1>8
    <2> QED
      BY <1>1, <1>8, <2>1 DEF BatchBacked
  <1>9. ASSUME NEW x \in Range(g), NEW t \in Range(u), RoutedRow(x), x.rnd = n, x.id.cfg = t.id.cfg
        PROVE  PlacedTwice(g, t.id.cfg)
    <2>1. PICK k \in 1..(Len(s) - 1) : t = s[k + 1] /\ k + 1 \in DOMAIN s /\ k + 1 # 1 /\ t \in Range(s)
      BY <1>3
    <2>2. CASE x \in Range(h)
      BY <1>1, <1>9, <2>1, <2>2 DEF BatchBacked
    <2>3. CASE x = r
      BY <1>1, <1>2, <1>9, <2>1, <2>3 DEF BatchBacked
    <2> QED
      BY <1>1, <1>9, <2>2, <2>3
  <1>10. BatchBacked(g, n, u)
    BY <1>7, <1>8, <1>9 DEF BatchBacked
  <1> QED
    BY <1>6, <1>10 DEF g

(* What the placer's scores choose to be routed has been placed.            *)
LEMMA ChosenPlaced ==
  ASSUME RowsAre, Truths, NEW a \in ArmRuns, NEW s, NEW n \in Nat, DOMAIN s = 1..n,
         DOMAIN Choice(Now(a, "proxy")) = 1..n, \A i \in 1..n : s[i].id.cfg = Choice(Now(a, "proxy"))[i],
         \A r \in Range(Hist(a)) : r.rnd = rnd[a] => r.id.stage = "proxy"
  PROVE  BatchBacked(Hist(a), rnd[a], s)
PROOF
  <1> DEFINE h == Hist(a)
             w == Now(a, "proxy")
  <1>1. IsSeq(h) /\ DOMAIN h = 1..Len(h)
    BY SeqIs DEF RowsAre, Keys, Places, Hist
  <1>2. PICK m \in Nat : \E e : NowFrom(a, "proxy", m, e)
    BY NowIs
  <1>3. PICK e : /\ OneToOne(e, m, Len(h)) /\ Len(w) = m
                 /\ \A k \in 1..m : w[k] = h[e[k]] /\ h[e[k]].rnd = rnd[a] /\ h[e[k]].id.stage = "proxy"
    BY <1>2 DEF NowFrom
  <1>4. IsSeq(w) /\ \A i \in 1..Len(w) : w[i].res \in Int
    BY NowIs, StageAsked
  <1>5. PICK q \in Nat : \E x : /\ OneToOne(x, q, Len(w)) /\ DOMAIN Choice(w) = 1..q
                               /\ \A k \in 1..q : Succeeds(w[x[k]].res) /\ Choice(w)[k] = w[x[k]].id.cfg
    BY <1>4, ChoiceIs
  <1>6. PICK x : /\ OneToOne(x, q, Len(w)) /\ DOMAIN Choice(w) = 1..q
                 /\ \A k \in 1..q : Succeeds(w[x[k]].res) /\ Choice(w)[k] = w[x[k]].id.cfg
    BY <1>5
  <1>7. DOMAIN s = DOMAIN Choice(w)
    OBVIOUS
  <1> HIDE DEF h, w
  <1> DEFINE p == [k \in 1..q |-> e[x[k]]]
  <1>8. \A k \in DOMAIN s : /\ k \in 1..q /\ k \in 1..n /\ x[k] \in 1..m /\ p[k] = e[x[k]] /\ p[k] \in DOMAIN h
    BY <1>1, <1>3, <1>6, <1>7 DEF OneToOne
  <1>9. \A k \in DOMAIN s : h[p[k]].rnd = rnd[a] /\ PlacedRow(h[p[k]]) /\ h[p[k]].id.cfg = s[k].id.cfg
    BY <1>3, <1>6, <1>7, <1>8 DEF PlacedRow, w
  <1>10. \A k, l \in DOMAIN s : p[k] = p[l] => k = l
    BY <1>3, <1>6, <1>7, <1>8 DEF OneToOne
  <1> HIDE DEF p
  <1>11. ASSUME NEW t \in Range(s) PROVE PlacedIn(h, rnd[a], t.id.cfg)
    <2>1. PICK k \in DOMAIN s : t = s[k]
      BY DEF Range
    <2>2. h[p[k]] \in Range(h)
      BY <1>8 DEF Range
    <2> QED
      BY <1>9, <2>1, <2>2 DEF PlacedIn
  <1>12. ASSUME NEW k \in DOMAIN s, NEW l \in DOMAIN s, k # l, s[k].id.cfg = s[l].id.cfg
         PROVE  PlacedTwice(h, s[k].id.cfg)
    <2>1. p[k] # p[l] /\ p[k] \in DOMAIN h /\ p[l] \in DOMAIN h
      BY <1>8, <1>10, <1>12
    <2> QED
      BY <1>9, <1>12, <2>1 DEF PlacedTwice
  <1>13. \A r \in Range(h) : ~(RoutedRow(r) /\ r.rnd = rnd[a])
    BY DEF RoutedRow, h
  <1> QED
    BY <1>11, <1>12, <1>13 DEF BatchBacked, h
(* An arm-run whose rows stay and that enters no stage keeps its part.      *)
LEMMA QuietRounded ==
  ASSUME NEW a \in ArmRuns, NewestRound(a), Backed(a), kind' = kind, Hist(a)' = Hist(a),
         \/ at'[a] = at[a] /\ rnd'[a] = rnd[a] /\ todo'[a] = todo[a]
         \/ at'[a] \notin Looping
         \/ at'[a] = "round" /\ \A r \in Range(Hist(a)) : r.rnd <= rnd'[a]
  PROVE  NewestRound(a)' /\ Backed(a)'
PROOF
  <1>1. NewestRound(a)'
    BY DEF NewestRound, Looping
  <1>2. Backed(a)'
    BY DEF Backed, Looping
  <1> QED
    BY <1>1, <1>2

(* A step of one arm-run.                                                   *)
LEMMA OneRounded ==
  ASSUME Rounded, NEW a \in ArmRuns, Apart(a), NewestRound(a)', Backed(a)'
  PROVE  Rounded'
PROOF
  <1>1. ArmRuns' = ArmRuns /\ kind' = kind
    BY DEF Apart, ArmRuns
  <1>2. ASSUME NEW b \in ArmRuns, b # a PROVE NewestRound(b)' /\ Backed(b)'
    <2>1. at'[b] = at[b] /\ rnd'[b] = rnd[b] /\ todo'[b] = todo[b]
      BY <1>2 DEF Apart
    <2>2. <<b, "search">> \in Keys
      BY DEF Keys, Places
    <2>3. Hist(b)' = Hist(b)
      BY <1>2, <2>2 DEF Apart, Hist
    <2>4. NewestRound(b) /\ Backed(b)
      BY DEF Rounded
    <2> QED
      BY <1>1, <2>1, <2>3, <2>4, QuietRounded
  <1> QED
    BY <1>1, <1>2 DEF Rounded

(* A record.                                                                *)
LEMMA RecordRounded ==
  ASSUME RowsAre, TodoIs, RoundsAre, Located, Rounded, NEW a \in ArmRuns, Record(a), Apart(a)
  PROVE  Rounded'
PROOF
  <1> DEFINE t == todo[a][1]
             h == Hist(a)
             K == <<a, "search">>
  <1>1. /\ Len(todo[a]) \in Nat \ {0} /\ t \in Range(todo[a]) /\ t.place \in Places
        /\ \A k \in Keys : rows'[k] = (IF k = <<a, t.place>> THEN Append(rows[k], Kept(t)) ELSE rows[k])
        /\ DOMAIN todo'[a] = 1..(Len(todo[a]) - 1)
        /\ \A i \in 1..(Len(todo[a]) - 1) : todo'[a][i] = todo[a][i + 1] /\ i + 1 \in 1..Len(todo[a])
        /\ Range(todo'[a]) \subseteq Range(todo[a])
        /\ kind' = kind /\ at' = at /\ rnd' = rnd
    BY RecordGives
  <1>2. NewestRound(a) /\ Backed(a) /\ K \in Keys /\ BatchIs(a) /\ rnd[a] \in Nat
    BY DEF Rounded, Keys, Places, Located, RoundsAre
  <1>3. IsSeq(h) /\ IsSeq(todo[a])
    BY <1>2 DEF RowsAre, Hist, TodoIs
  <1>4. CASE at[a] = "validating"
    <2>1. t.place = "validate"
      BY <1>1, <1>2, <1>4 DEF BatchIs
    <2>2. Hist(a)' = Hist(a)
      BY <1>1, <1>2, <2>1 DEF Hist
    <2>3. at'[a] \notin Looping
      BY <1>1, <1>4 DEF Looping
    <2>4. NewestRound(a)' /\ Backed(a)'
      BY <1>1, <1>2, <2>2, <2>3, QuietRounded
    <2> QED
      BY <2>4, OneRounded
  <1>5. CASE at[a] # "validating"
    <2>1. t.place = "search" /\ todo[a] # <<>>
      BY <1>1, <1>2, <1>5 DEF BatchIs, Record
    <2>2. at[a] \in {"proxy", "grt", "route"}
      BY <1>2, <1>5, <2>1 DEF BatchIs
    <2> DEFINE r == Kept(t)
    <2>3. Hist(a)' = Append(h, r)
      BY <1>1, <1>2, <2>1 DEF Hist
    <2>4. r.id = t.id /\ r.rnd = t.rnd
      BY DEF Kept
    <2>5. Range(Append(h, r)) = Range(h) \cup {r}
      BY <1>3, AppendIs
    <2> HIDE DEF r, h, t
    <2>6. NewestRound(a)'
      <3>1. SUFFICES ASSUME kind[a] # "default_seeds"
                     PROVE  /\ \A x \in Range(Append(h, r)) : x.rnd <= rnd[a]
                            /\ \A x \in Range(todo'[a]) : x.rnd = rnd[a] /\ x.id.stage = at[a]
                            /\ at[a] = "proxy" => \A x \in Range(Append(h, r)) : x.rnd = rnd[a] => x.id.stage = "proxy"
        BY <1>1, <2>3 DEF NewestRound
      <3>2. /\ \A x \in Range(h) : x.rnd <= rnd[a]
            /\ \A x \in Range(todo[a]) : x.rnd = rnd[a] /\ x.id.stage = at[a]
            /\ at[a] = "proxy" => \A x \in Range(h) : x.rnd = rnd[a] => x.id.stage = "proxy"
        BY <1>2, <2>2, <3>1 DEF NewestRound, Looping, h
      <3>3. r.rnd = rnd[a] /\ r.id.stage = at[a] /\ rnd[a] <= rnd[a]
        BY <1>1, <1>2, <2>4, <3>2
      <3> QED
        BY <1>1, <2>5, <3>2, <3>3
    <2>7. Backed(a)'
      <3>1. SUFFICES ASSUME kind[a] = "llm_proxy"
                     PROVE  /\ at[a] # "grt" /\ RowsBacked(Append(h, r))
                            /\ at[a] = "route" => BatchBacked(Append(h, r), rnd[a], todo'[a])
        BY <1>1, <2>3 DEF Backed
      <3>2. /\ at[a] # "grt" /\ RowsBacked(h) /\ (at[a] = "route" => BatchBacked(h, rnd[a], todo[a]))
            /\ r.rnd = rnd[a] /\ r.id.stage = at[a]
        BY <1>1, <1>2, <2>2, <2>4, <3>1 DEF Backed, NewestRound, h
      <3>3. CASE at[a] = "proxy"
        <4>1. ~RoutedRow(r) /\ r.id.stage # "grt"
          BY <3>2, <3>3 DEF RoutedRow
        <4> QED
          BY <1>3, <3>2, <3>3, <4>1, PlacedAdded
      <3>4. CASE at[a] = "route"
        <4>1. DOMAIN todo[a] = 1..Len(todo[a])
          BY <1>3, SeqIs
        <4>2. r.id = todo[a][1].id /\ r.id.stage # "grt"
          BY <2>4, <3>2, <3>4 DEF t
        <4>3. RowsBacked(Append(h, r)) /\ BatchBacked(Append(h, r), rnd[a], todo'[a])
          BY <1>1, <1>3, <3>2, <3>4, <4>1, <4>2, RoutedAdded
        <4> QED
          BY <3>2, <4>3
      <3> QED
        BY <2>2, <3>2, <3>3, <3>4
    <2> QED
      BY <2>6, <2>7, OneRounded
  <1> QED
    BY <1>4, <1>5

(* The steps of an arm-run.                                                 *)
LEMMA SearchRounded ==
  ASSUME RowsAre, TodoIs, RoundsAre, Located, Truths, Rounded, NEW a \in ArmRuns, Search(a), Apart(a)
  PROVE  Rounded'
PROOF
  <1>1. NewestRound(a) /\ Backed(a) /\ kind' = kind /\ a \in DOMAIN at /\ rnd[a] \in Nat /\ a \in DOMAIN rnd
    BY DEF Rounded, Apart, Located, RoundsAre
  <1>2. ASSUME rows' = rows PROVE Hist(a)' = Hist(a)
    BY <1>2 DEF Hist
  <1>3. CASE Record(a)
    BY <1>3, RecordRounded
  <1>4. ASSUME rows' = rows, \/ at'[a] \notin Looping
                             \/ at'[a] = "round" /\ \A r \in Range(Hist(a)) : r.rnd <= rnd'[a]
        PROVE  Rounded'
    <2>1. NewestRound(a)' /\ Backed(a)'
      BY <1>1, <1>2, <1>4, QuietRounded
    <2> QED
      BY <2>1, OneRounded
  <1>5. CASE Enter(a)
    <2>1. rows' = rows /\ at'[a] = "round" /\ rnd'[a] = MaxRound(a)
      BY <1>1, <1>5 DEF Enter, GoTo
    <2>2. \A r \in Range(Hist(a)) : r.rnd <= rnd'[a]
      BY <2>1, MaxRoundIs DEF Hist
    <2> QED
      BY <1>4, <2>1, <2>2
  <1>6. CASE ProposeRaises(a)
    BY <1>1, <1>4, <1>6 DEF ProposeRaises, GoTo, Looping
  <1>7. CASE EndRound(a)
    <2>1. rows' = rows /\ at[a] = "route" /\ rnd'[a] = rnd[a] /\ at'[a] \in {"searched", "round"}
      BY <1>1, <1>7 DEF EndRound, GoTo, searching
    <2>2. CASE kind[a] = "default_seeds"
      <3>1. NewestRound(a)' /\ Backed(a)'
        BY <1>1, <2>2 DEF NewestRound, Backed
      <3> QED
        BY <3>1, OneRounded
    <2>3. CASE kind[a] # "default_seeds"
      <3>1. \A r \in Range(Hist(a)) : r.rnd <= rnd'[a]
        BY <1>1, <2>1, <2>3 DEF NewestRound, Looping
      <3> QED
        BY <1>4, <2>1, <3>1 DEF Looping
    <2> QED
      BY <2>2, <2>3
  <1>8. CASE EnterLottery(a)
    <2>1. kind[a] = "default_seeds"
      BY <1>8 DEF EnterLottery
    <2>2. NewestRound(a)' /\ Backed(a)'
      BY <1>1, <2>1 DEF NewestRound, Backed
    <2> QED
      BY <2>2, OneRounded
  <1>9. ASSUME NEW p \in {"proxy", "grt", "route"}, NEW cs, NEW n \in Nat, DOMAIN cs = 1..n, rows' = rows, at'[a] = p,
               rnd'[a] \in Nat, Ask(a, Requests(p, cs), "search"),
               \A r \in Range(Hist(a)) : r.rnd <= rnd'[a],
               p = "proxy" => \A r \in Range(Hist(a)) : r.rnd # rnd'[a],
               kind[a] = "llm_proxy" =>
                 /\ p # "grt"
                 /\ p = "route" =>
                      /\ rnd'[a] = rnd[a] /\ cs = Choice(Now(a, "proxy"))
                      /\ \A r \in Range(Hist(a)) : r.rnd = rnd[a] => r.id.stage = "proxy"
        PROVE  Rounded'
    <2> DEFINE ids == Requests(p, cs)
               s == todo'[a]
    <2>1. DOMAIN ids = 1..n /\ \A i \in 1..n : ids[i].cfg = cs[i] /\ ids[i].stage = p
      BY <1>9 DEF Requests, Id
    <2>2. Ask(a, ids, "search")
      BY <1>9
    <2> HIDE DEF ids
    <2>3. DOMAIN s = 1..n /\ \A i \in 1..n : s[i].rnd = rnd'[a] /\ s[i].id = ids[i]
      BY <1>9, <2>1, <2>2, AskGives
    <2>4. Hist(a)' = Hist(a)
      BY <1>2, <1>9
    <2>5. \A t \in Range(s) : t.rnd = rnd'[a] /\ t.id.stage = p
      BY <2>1, <2>3 DEF Range
    <2>6. NewestRound(a)'
      BY <1>9, <2>4, <2>5 DEF NewestRound
    <2>7. Backed(a)'
      <3>1. SUFFICES ASSUME kind[a] = "llm_proxy"
                     PROVE  /\ p # "grt" /\ RowsBacked(Hist(a))
                            /\ p = "route" => BatchBacked(Hist(a), rnd'[a], s)
        BY <1>1, <1>9, <2>4 DEF Backed
      <3>2. p # "grt" /\ RowsBacked(Hist(a))
        BY <1>1, <1>9, <3>1 DEF Backed
      <3>3. ASSUME p = "route" PROVE BatchBacked(Hist(a), rnd'[a], s)
        <4>1. /\ rnd'[a] = rnd[a] /\ cs = Choice(Now(a, "proxy"))
              /\ \A r \in Range(Hist(a)) : r.rnd = rnd[a] => r.id.stage = "proxy"
          BY <1>9, <3>1, <3>3
        <4>2. DOMAIN Choice(Now(a, "proxy")) = 1..n /\ \A i \in 1..n : s[i].id.cfg = Choice(Now(a, "proxy"))[i]
          BY <1>9, <2>1, <2>3, <4>1
        <4> HIDE DEF s
        <4>3. BatchBacked(Hist(a), rnd[a], s)
          BY <2>3, <4>1, <4>2, <1>9, ChosenPlaced
        <4> QED
          BY <4>1, <4>3
      <3> QED
        BY <3>2, <3>3
    <2> QED
      BY <2>6, <2>7, OneRounded
  <1>10. CASE Propose(a)
    <2>1. /\ rows' = rows /\ at[a] = "round" /\ at'[a] = "proxy" /\ rnd'[a] = rnd[a] + 1
          /\ \E cs \in Proposals(a) : Ask(a, Requests("proxy", cs), "search")
      BY <1>1, <1>10 DEF Propose, GoTo
    <2>2. PICK cs \in Proposals(a) : Ask(a, Requests("proxy", cs), "search")
      BY <2>1
    <2>3. DOMAIN cs = 1..Batch /\ Batch \in Nat
      BY ProposalsAre
    <2>4. CASE kind[a] = "default_seeds"
      <3>1. NewestRound(a)' /\ Backed(a)'
        BY <1>1, <2>4 DEF NewestRound, Backed
      <3> QED
        BY <3>1, OneRounded
    <2>5. CASE kind[a] # "default_seeds"
      <3>1. \A r \in Range(Hist(a)) : r.rnd <= rnd[a] /\ r.rnd \in Nat
        BY <1>1, <2>1, <2>5 DEF NewestRound, Looping, RowsAre, Keys, Places, Hist
      <3>2. \A r \in Range(Hist(a)) : r.rnd <= rnd'[a] /\ r.rnd # rnd'[a]
        BY <1>1, <2>1, <3>1
      <3>3. rnd'[a] \in Nat
        BY <1>1, <2>1
      <3> QED
        BY <1>9, <2>1, <2>2, <2>3, <3>2, <3>3
    <2> QED
      BY <2>4, <2>5
  <1>11. CASE ScreenByGrt(a)
    <2>1. /\ rows' = rows /\ at[a] = "proxy" /\ at'[a] = "grt" /\ rnd'[a] = rnd[a] /\ HasGrt(a)
          /\ Ask(a, Requests("grt", Lines(Feasible(Now(a, "proxy")))), "search")
      BY <1>1, <1>11 DEF ScreenByGrt, GoTo
    <2>2. PICK n \in Nat : DOMAIN Lines(Feasible(Now(a, "proxy"))) = 1..n
      BY StageAsked
    <2>3. kind[a] \notin {"llm_proxy", "default_seeds"}
      BY <2>1 DEF HasGrt
    <2>4. \A r \in Range(Hist(a)) : r.rnd <= rnd'[a]
      BY <1>1, <2>1, <2>3 DEF NewestRound, Looping
    <2> DEFINE cs == Lines(Feasible(Now(a, "proxy")))
    <2>5. DOMAIN cs = 1..n /\ Ask(a, Requests("grt", cs), "search")
      BY <2>1, <2>2
    <2> HIDE DEF cs
    <2> QED
      BY <1>1, <1>9, <2>1, <2>3, <2>4, <2>5
  <1>12. CASE RouteByHpwl(a) \/ RouteByGrt(a)
    <2>1. PICK stage \in {"proxy", "grt"} : Route(a, stage) /\ (stage = "proxy" <=> ~HasGrt(a))
      BY <1>12 DEF RouteByHpwl, RouteByGrt
    <2> DEFINE cs == Choice(Now(a, stage))
    <2>2. /\ rows' = rows /\ at[a] = stage /\ at'[a] = "route" /\ rnd'[a] = rnd[a]
          /\ Ask(a, Requests("route", cs), "search")
      BY <1>1, <2>1 DEF Route, GoTo
    <2>3. PICK n \in Nat : DOMAIN cs = 1..n
      BY StageAsked
    <2>4. CASE kind[a] = "default_seeds"
      <3>1. NewestRound(a)' /\ Backed(a)'
        BY <1>1, <2>4 DEF NewestRound, Backed
      <3> QED
        BY <3>1, OneRounded
    <2>5. CASE kind[a] # "default_seeds"
      <3>1. \A r \in Range(Hist(a)) : r.rnd <= rnd'[a]
        BY <1>1, <2>2, <2>5 DEF NewestRound, Looping
      <3>2. kind[a] = "llm_proxy" => stage = "proxy"
        BY <2>1 DEF HasGrt
      <3>3. kind[a] = "llm_proxy" =>
              cs = Choice(Now(a, "proxy")) /\ \A r \in Range(Hist(a)) : r.rnd = rnd[a] => r.id.stage = "proxy"
        BY <1>1, <2>2, <2>5, <3>2 DEF NewestRound
      <3> HIDE DEF cs
      <3> QED
        BY <1>1, <1>9, <2>2, <2>3, <3>1, <3>3
    <2> QED
      BY <2>4, <2>5
  <1> QED
    BY <1>3, <1>5, <1>6, <1>7, <1>8, <1>10, <1>11, <1>12 DEF Search

(* Every step of the experiment.                                            *)
LEMMA RoundedStep ==
  ASSUME IInv1, Located, Truths, Rounded, [NextV1]_vars1
  PROVE  Rounded'
PROOF
  <1>1. RowsAre /\ TodoIs /\ RoundsAre /\ jobs \subseteq ArmRuns /\ at \in [ArmRuns -> Stations]
    BY DEF IInv1, Located
  <1>2. ASSUME kind' = kind,
               \A a \in ArmRuns : Hist(a)' = Hist(a) /\ (at'[a] \notin Looping \/ (at'[a] = at[a] /\ rnd'[a] = rnd[a] /\ todo'[a] = todo[a]))
        PROVE  Rounded'
    <2>1. ArmRuns' = ArmRuns
      BY <1>2 DEF ArmRuns
    <2>2. ASSUME NEW a \in ArmRuns PROVE NewestRound(a)' /\ Backed(a)'
      <3>1. NewestRound(a) /\ Backed(a)
        BY DEF Rounded
      <3> QED
        BY <1>2, <3>1, QuietRounded
    <2> QED
      BY <2>1, <2>2 DEF Rounded
  <1>3. ASSUME rows' = rows PROVE \A a \in ArmRuns : Hist(a)' = Hist(a)
    BY <1>3 DEF Hist
  <1>4. CASE RunExperiment
    <2>1. kind' = kind /\ rows' = rows /\ \A a \in ArmRuns : at'[a] \notin Looping
      BY <1>4 DEF RunExperiment, Launch, Looping
    <2> QED
      BY <1>2, <1>3, <2>1
  <1>5. CASE ArmStep
    <2>1. PICK a \in jobs : Search(a)
      BY <1>5 DEF ArmStep
    <2>2. xpc = "search" /\ xpc' = xpc /\ jobs' = jobs
      BY <1>5 DEF ArmStep, driving
    <2>3. Apart(a)
      BY <1>1, <2>1, <2>2, SearchLocated
    <2> QED
      BY <1>1, <2>1, <2>3, SearchRounded
  <1>6. CASE ArmOutOfTime
    <2>1. PICK a \in jobs : GoTo(a, "late")
      BY <1>6 DEF ArmOutOfTime
    <2>2. kind' = kind /\ rows' = rows /\ rnd' = rnd /\ todo' = todo
      BY <1>6 DEF ArmOutOfTime, searching
    <2>3. \A b \in ArmRuns : at'[b] \notin Looping \/ at'[b] = at[b]
      BY <1>1, <2>1 DEF GoTo, Looping
    <2> QED
      BY <1>2, <1>3, <2>2, <2>3
  <1>7. CASE MapEnds \/ UNCHANGED vars1
    <2>1. kind' = kind /\ rows' = rows /\ rnd' = rnd /\ todo' = todo /\ at' = at
      BY <1>7 DEF MapEnds, searching, vars1
    <2> QED
      BY <1>2, <1>3, <2>1
  <1>8. CASE MapRaises \/ Write \/ Kill
    <2>1. Stop /\ kind' = kind /\ rows' = rows
      BY <1>8 DEF MapRaises, Write, Kill
    <2>2. \A a \in ArmRuns : at'[a] \notin Looping
      BY <2>1 DEF Stop, Looping
    <2> QED
      BY <1>2, <1>3, <2>1, <2>2
  <1>9. CASE Validate \/ EndValidation
    <2>1. PICK a \in jobs : GoTo(a, "validated") \/ GoTo(a, "validating")
      BY <1>9 DEF Validate, EndValidation, First
    <2>2. kind' = kind /\ rows' = rows /\ rnd' = rnd
      BY <1>9 DEF Validate, EndValidation, searching
    <2>3. /\ at'[a] \notin Looping /\ \A b \in ArmRuns \ {a} : at'[b] = at[b]
      BY <1>1, <2>1 DEF GoTo, Looping
    <2>4. \A b \in ArmRuns : at[b] \notin Looping
      <3>1. xpc = "validate"
        BY <1>9 DEF Validate, EndValidation
      <3>2. ASSUME NEW b \in ArmRuns PROVE at[b] \notin Looping
        <4>1. StationIs(b)
          BY DEF Located
        <4> QED
          BY <3>1, <4>1 DEF StationIs, Looping
      <3> QED
        BY <3>2
    <2> QED
      BY <1>2, <1>3, <2>2, <2>3, <2>4
  <1>10. CASE RecordValidation
    <2>1. PICK a \in jobs : Record(a)
      BY <1>10 DEF RecordValidation
    <2>2. xpc' = xpc /\ jobs' = jobs
      BY <1>10 DEF RecordValidation, driving
    <2>3. Apart(a)
      BY <1>1, <2>1, <2>2, RecordLocated
    <2> QED
      BY <1>1, <2>1, <2>3, RecordRounded
  <1>11. ASSUME kind' = kind, \A a \in ArmRuns : at'[a] \notin Looping,
                \A a \in ArmRuns : Hist(a)' = Hist(a) \/ \A r \in Range(Hist(a)') : ~Succeeds(r.res) /\ r \in Range(Hist(a))
         PROVE  Rounded'
    <2>1. ArmRuns' = ArmRuns
      BY <1>11 DEF ArmRuns
    <2>2. ASSUME NEW a \in ArmRuns PROVE NewestRound(a)' /\ Backed(a)'
      <3>1. NewestRound(a) /\ Backed(a)
        BY DEF Rounded
      <3>2. CASE Hist(a)' = Hist(a)
        BY <1>11, <3>1, <3>2, QuietRounded
      <3>3. CASE \A r \in Range(Hist(a)') : ~Succeeds(r.res) /\ r \in Range(Hist(a))
        <4> DEFINE g == Hist(a)'
        <4>1. \A i \in DOMAIN g : g[i] \in Range(g)
          BY DEF Range
        <4> HIDE DEF g
        <4>2. kind[a] = "llm_proxy" => RowsBacked(g)
          BY <3>1, <3>3, <4>1 DEF Backed, RowsBacked, RoutedRow, RoutedAlike, g
        <4>3. at'[a] \notin Looping
          BY <1>11
        <4> QED
          BY <1>11, <4>2, <4>3 DEF NewestRound, Backed, Looping, g
      <3> QED
        BY <1>11, <3>2, <3>3
    <2> QED
      BY <2>1, <2>2 DEF Rounded
  <1>12. CASE Repair
    <2>1. kind' = kind /\ at' = at /\ xpc = "off" /\ rows' = SetAside(InfraFailed)
      BY <1>12 DEF Repair
    <2>2. ASSUME NEW a \in ArmRuns
          PROVE  /\ at'[a] \notin Looping
                 /\ Hist(a)' = Hist(a) \/ \A r \in Range(Hist(a)') : ~Succeeds(r.res) /\ r \in Range(Hist(a))
      <3>1. at[a] = "idle"
        BY <2>1 DEF Located, StationIs
      <3>2. <<a, "search">> \in DOMAIN rows /\ IsSeq(Hist(a))
        BY <1>1 DEF RowsAre, Keys, Places, Hist
      <3>3. Hist(a)' = (IF a \notin InfraFailed THEN Hist(a) ELSE Rest(Hist(a)))
        BY <2>1, <3>2 DEF SetAside, SetAsideWith, Hist
      <3>4. Range(Rest(Hist(a))) = {r \in Range(Hist(a)) : ~Succeeds(r.res)}
        BY <3>2, FiltersAre
      <3> QED
        BY <2>1, <3>1, <3>3, <3>4 DEF Looping
    <2> QED
      BY <1>11, <2>1, <2>2
  <1>13. CASE Purge
    <2>1. /\ kind' = kind /\ \A a \in ArmRuns : at'[a] \notin Looping
          /\ rows' = [k \in DOMAIN rows |-> IF k[1] \in jobs /\ k[2] # "cache" THEN <<>> ELSE rows[k]]
      BY <1>13 DEF Purge, Launch, Looping
    <2>2. ASSUME NEW a \in ArmRuns PROVE Hist(a)' = Hist(a) \/ Hist(a)' = <<>>
      <3>1. <<a, "search">> \in DOMAIN rows
        BY <1>1 DEF RowsAre, Keys, Places
      <3> QED
        BY <2>1, <3>1 DEF Hist
    <2>3. Range(<<>>) = {}
      BY DEF Range
    <2> QED
      BY <1>11, <2>1, <2>2, <2>3
  <1> QED
    BY <1>4, <1>5, <1>6, <1>7, <1>8, <1>9, <1>10, <1>12, <1>13 DEF NextV1, Over1

LEMMA RoundedInit == InitV1 => Rounded
PROOF
  <1> SUFFICES ASSUME InitV1 PROVE Rounded
    OBVIOUS
  <1>1. ASSUME NEW a \in ArmRuns PROVE NewestRound(a) /\ Backed(a)
    <2>1. Hist(a) = <<>> /\ at[a] = "idle"
      BY DEF InitV1, Hist, Places
    <2>2. Range(<<>>) = {} /\ DOMAIN <<>> = {}
      BY DEF Range
    <2> QED
      BY <2>1, <2>2 DEF NewestRound, Backed, Looping, RowsBacked
  <1> QED
    BY <1>1 DEF Rounded
-----------------------------------------------------------------------------
(* What the prompt shows of candidates that do not tie.                     *)

(* As many on both sides.                                                   *)
LEMMA AsMany ==
  ASSUME NEW S, IsFiniteSet(S), NEW T, NEW f \in [S -> T], \A t \in T : \E x \in S : f[x] = t,
         \A x, y \in S : f[x] = f[y] => x = y
  PROVE  IsFiniteSet(T) /\ Cardinality(T) = Cardinality(S)
PROOF
  <1>1. f \in Surjection(S, T) /\ f \in Injection(S, T)
    BY DEF Surjection, Injection, IsInjective
  <1> QED
    BY <1>1, FS_Surjection

(* What two filters keep, one after the other, both of them keep.           *)
KeepIn(s, T) == At(s, {i \in DOMAIN s : s[i] \in T})
LEMMA KeepTwice ==
  ASSUME NEW s, IsSeq(s), NEW S, NEW T
  PROVE  KeepIn(KeepIn(s, S), T) = KeepIn(s, S \cap T)
PROOF
  <1> DEFINE t == KeepIn(s, S)
             n == Len(s)
             I == {i \in DOMAIN s : s[i] \in S}
             J == {i \in DOMAIN s : s[i] \in S \cap T}
             K == {k \in DOMAIN t : t[k] \in T}
  <1>1. n \in Nat /\ DOMAIN s = 1..n
    BY SeqIs
  <1>2. I \in SUBSET (1..n) /\ J \in SUBSET (1..n) /\ J \subseteq I
    BY <1>1
  <1>3. /\ \A i : i \in I <=> i \in DOMAIN s /\ s[i] \in S
        /\ \A i : i \in J <=> i \in I /\ s[i] \in T
        /\ \A k : k \in K <=> k \in DOMAIN t /\ t[k] \in T
    OBVIOUS
  <1>4. t = At(s, I) /\ KeepIn(t, T) = At(t, K) /\ KeepIn(s, S \cap T) = At(s, J)
    BY DEF KeepIn
  <1> HIDE DEF I, J, K, n, t
  <1>5. PICK m \in Nat : \E e : Picks(At(s, I), s, e, m, I)
    BY <1>1, <1>2, AtEnumerates
  <1>6. PICK e : Enumerates(e, m, I) /\ t = [k \in 1..m |-> s[e[k]]]
    BY <1>4, <1>5 DEF Picks
  <1>7. K \in SUBSET (1..m)
    BY <1>3, <1>6
  <1>8. PICK l \in Nat : \E f : Picks(At(t, K), t, f, l, K)
    BY <1>7, AtEnumerates
  <1>9. PICK f : Enumerates(f, l, K) /\ At(t, K) = [k \in 1..l |-> t[f[k]]]
    BY <1>8 DEF Picks
  <1> DEFINE g == [k \in 1..l |-> e[f[k]]]
  <1>10. /\ e \in [1..m -> I] /\ (\A i \in I : \E k \in 1..m : e[k] = i) /\ \A i, j \in 1..m : i < j => e[i] < e[j]
         /\ f \in [1..l -> K] /\ (\A i \in K : \E k \in 1..l : f[k] = i) /\ \A i, j \in 1..l : i < j => f[i] < f[j]
    BY <1>6, <1>9 DEF Enumerates
  <1>11. \A k \in 1..l : f[k] \in K /\ f[k] \in 1..m /\ e[f[k]] \in I /\ t[f[k]] = s[e[f[k]]] /\ t[f[k]] \in T
    BY <1>3, <1>6, <1>7, <1>10
  <1>12. g \in [1..l -> J]
    BY <1>3, <1>11
  <1>13. ASSUME NEW i \in J PROVE \E k \in 1..l : g[k] = i
    <2>1. PICK p \in 1..m : e[p] = i
      BY <1>2, <1>10
    <2>2. p \in K
      BY <1>3, <1>6, <2>1
    <2> QED
      BY <1>10, <2>1, <2>2
  <1>14. \A i, j \in 1..l : i < j => g[i] < g[j]
    BY <1>10, <1>11
  <1>15. Enumerates(g, l, J)
    BY <1>12, <1>13, <1>14 DEF Enumerates
  <1>16. At(t, K) = [k \in 1..l |-> s[g[k]]]
    BY <1>9, <1>11
  <1> HIDE DEF g
  <1>17. At(s, J) = [k \in 1..l |-> s[g[k]]]
    <2>1. Picks(At(s, J), s, g, l, J)
      BY <1>1, <1>2, <1>15, AtIsEnumerated
    <2> QED
      BY <2>1 DEF Picks
  <1>18. At(t, K) = At(s, J)
    BY <1>16, <1>17
  <1> QED
    BY <1>4, <1>18 DEF t

(* A list of rows that names every candidate of C once.                     *)
ListsOnce(g, C) ==
  /\ IsSeq(g) /\ \A i \in 1..Len(g) : g[i].id.cfg \in C
  /\ \A c \in C : \E i \in 1..Len(g) : g[i].id.cfg = c
  /\ \A i, j \in 1..Len(g) : g[i].id.cfg = g[j].id.cfg => i = j
Apiece(C) ==
  /\ \A c \in C : Hpwl[c] \in Nat
  /\ \A c, d \in C : Hpwl[c] = Hpwl[d] => c = d

(* Their order by wirelength is that of the candidates.                     *)
LineOrder(C) == {p \in C \X C : Hpwl[p[1]] < Hpwl[p[2]]}
LineAt(C, k) == CHOOSE c \in C : Cardinality(Lower(C, LineOrder(C), c)) = k - 1
LEMMA LinesAre ==
  ASSUME NEW g, NEW C, ListsOnce(g, C), Apiece(C)
  PROVE  Lines(Sorted(g, HpwlOf, TopK)) = [k \in 1..Min({TopK, Cardinality(C)}) |-> LineAt(C, k)]
PROOF
  <1> DEFINE n == Len(g)
             I == 1..n
             b == [i \in I |-> g[i].id.cfg]
             L == LineOrder(C)
             R(j) == Cardinality({i \in DOMAIN g : Before(g, HpwlOf, i, j)})
  <1>1. /\ n \in Nat /\ DOMAIN g = I
    BY SeqIs DEF ListsOnce
  <1>2. /\ b \in [I -> C] /\ (\A c \in C : \E i \in I : b[i] = c) /\ \A i, j \in I : b[i] = b[j] => i = j
    BY DEF ListsOnce
  <1>3. \A c, d \in C : <<c, d>> \in L <=> Hpwl[c] < Hpwl[d]
    BY DEF LineOrder
  <1>4. \A j \in I : {i \in DOMAIN g : Before(g, HpwlOf, i, j)} = {i \in I : <<b[i], b[j]>> \in L}
    <2>1. SUFFICES ASSUME NEW j \in I, NEW i \in I PROVE Before(g, HpwlOf, i, j) <=> <<b[i], b[j]>> \in L
      BY <1>1
    <2>2. b[i] \in C /\ b[j] \in C /\ b[i] = g[i].id.cfg /\ b[j] = g[j].id.cfg
      BY <1>2
    <2>3. Hpwl[b[i]] = Hpwl[b[j]] => i = j
      BY <1>2, <2>2 DEF Apiece
    <2>4. i \in Nat /\ ~(i < i)
      BY <1>1
    <2>5. Before(g, HpwlOf, i, j) <=> Hpwl[b[i]] < Hpwl[b[j]] \/ (Hpwl[b[i]] = Hpwl[b[j]] /\ i < j)
      BY <2>2 DEF Before, HpwlOf
    <2> HIDE DEF b, L
    <2>6. <<b[i], b[j]>> \in L <=> Hpwl[b[i]] < Hpwl[b[j]]
      BY <1>3, <2>2
    <2>7. ~(Hpwl[b[i]] = Hpwl[b[j]] /\ i < j)
      BY <2>3, <2>4
    <2> QED
      BY <2>5, <2>6, <2>7
  <1>5. IsFiniteSet(I) /\ Cardinality(I) = n
    <2>1. n \in Nat
      BY <1>1
    <2> HIDE DEF n
    <2> QED
      BY <2>1, FS_Interval
  <1>5a. \A k : Sorted(g, HpwlOf, TopK) = [l \in 1..Min({TopK, n}) |-> g[CHOOSE j \in DOMAIN g : R(j) = l - 1]]
    BY DEF Sorted, Rank
  <1> HIDE DEF L, b, I
  <1>6. IsFiniteSet(C) /\ Cardinality(C) = n
    BY <1>2, <1>5, AsMany
  <1>7. StrictOrder(C, L)
    <2>1. \A c \in C : Hpwl[c] \in Nat
      BY DEF Apiece
    <2>2. \A c \in C : <<c, c>> \notin L
      BY <1>3, <2>1
    <2>3. ASSUME NEW c \in C, NEW d \in C, NEW e \in C, <<c, d>> \in L, <<d, e>> \in L PROVE <<c, e>> \in L
      <3>1. Hpwl[c] < Hpwl[d] /\ Hpwl[d] < Hpwl[e]
        BY <1>3, <2>3
      <3>2. Hpwl[c] < Hpwl[e]
        BY <2>1, <3>1
      <3> QED
        BY <1>3, <3>2
    <2>4. ASSUME NEW c \in C, NEW d \in C PROVE c = d \/ <<c, d>> \in L \/ <<d, c>> \in L
      <3>1. Hpwl[c] = Hpwl[d] \/ Hpwl[c] < Hpwl[d] \/ Hpwl[d] < Hpwl[c]
        BY <2>1
      <3> QED
        BY <1>3, <3>1 DEF Apiece
    <2> QED
      BY <2>2, <2>3, <2>4 DEF StrictOrder
  <1>8. Ranked(C, L)
    BY <1>6, <1>7, RanksAre
  <1>9. ASSUME NEW j \in I PROVE R(j) = Cardinality(Lower(C, L, b[j]))
    <2> DEFINE S == {i \in I : <<b[i], b[j]>> \in L}
               T == Lower(C, L, b[j])
               f == [i \in S |-> b[i]]
    <2>1. IsFiniteSet(S)
      BY <1>5, FS_Subset
    <2>2. f \in [S -> T] /\ (\A t \in T : \E x \in S : f[x] = t) /\ \A x, y \in S : f[x] = f[y] => x = y
      BY <1>2 DEF Lower
    <2>3. R(j) = Cardinality(S)
      BY <1>4
    <2> HIDE DEF S, T, f
    <2>4. Cardinality(T) = Cardinality(S)
      BY <2>1, <2>2, AsMany
    <2> QED
      BY <2>3, <2>4 DEF T
  <1> HIDE DEF R
  <1> DEFINE q == Min({TopK, n})
  <1>10. q \in Nat /\ q <= n
    BY <1>1, LesserIs, LoopAssumption
  <1> HIDE DEF q
  <1>11. ASSUME NEW l \in 1..q PROVE g[CHOOSE j \in DOMAIN g : R(j) = l - 1].id.cfg = LineAt(C, l)
    <2> DEFINE J == CHOOSE j \in DOMAIN g : R(j) = l - 1
    <2>1. l - 1 \in 0..(Cardinality(C) - 1)
      BY <1>1, <1>6, <1>10
    <2>2. PICK c \in C : Cardinality(Lower(C, L, c)) = l - 1
      BY <1>8, <2>1 DEF Ranked
    <2>3. \E j \in DOMAIN g : R(j) = l - 1
      BY <1>1, <1>2, <1>9, <2>2
    <2>4. J \in DOMAIN g /\ R(J) = l - 1
      BY <2>3
    <2> HIDE DEF J
    <2>5. Cardinality(Lower(C, L, b[J])) = l - 1 /\ b[J] \in C
      BY <1>1, <1>2, <1>9, <2>4
    <2>6. LineAt(C, l) \in C /\ Cardinality(Lower(C, L, LineAt(C, l))) = l - 1
      BY <2>2 DEF LineAt, L
    <2>7. b[J] = LineAt(C, l)
      <3>1. \A x, y \in C : Cardinality(Lower(C, L, x)) = Cardinality(Lower(C, L, y)) => x = y
        BY <1>8 DEF Ranked
      <3> QED
        BY <2>5, <2>6, <3>1
    <2>8. b[J] = g[J].id.cfg
      BY <1>1, <2>4 DEF b
    <2> QED
      BY <2>7, <2>8 DEF J
  <1>12. Sorted(g, HpwlOf, TopK) = [l \in 1..q |-> g[CHOOSE j \in DOMAIN g : R(j) = l - 1]]
    BY <1>5a DEF q, R
  <1>13. Lines(Sorted(g, HpwlOf, TopK)) = [l \in 1..q |-> g[CHOOSE j \in DOMAIN g : R(j) = l - 1].id.cfg]
    BY <1>12 DEF Lines
  <1>14. q = Min({TopK, Cardinality(C)})
    BY <1>6 DEF q
  <1> QED
    BY <1>11, <1>13, <1>14
(* The rows at some positions, whose candidates differ.                     *)
LEMMA AtLists ==
  ASSUME NEW h, IsSeq(h), NEW I \in SUBSET (1..Len(h)), \A i, j \in I : h[i].id.cfg = h[j].id.cfg => i = j
  PROVE  ListsOnce(At(h, I), {h[i].id.cfg : i \in I})
PROOF
  <1> DEFINE n == Len(h)
             g == At(h, I)
             C == {h[i].id.cfg : i \in I}
  <1>1. n \in Nat /\ DOMAIN h = 1..n /\ I \in SUBSET (1..n)
    BY SeqIs
  <1>2. IsSeq(g)
    BY <1>1, AtIs
  <1> HIDE DEF n
  <1>3. PICK m \in Nat : \E e : Picks(At(h, I), h, e, m, I)
    BY <1>1, AtEnumerates
  <1>4. PICK e : Enumerates(e, m, I) /\ g = [k \in 1..m |-> h[e[k]]]
    BY <1>3 DEF Picks
  <1>5. Len(g) = m
    <2>1. DOMAIN g = 1..m
      BY <1>4
    <2>2. Len(g) \in Nat /\ DOMAIN g = 1..Len(g) /\ g = [k \in 1..m |-> g[k]]
      BY <1>2, <1>4, SeqIs
    <2> HIDE DEF g
    <2> QED
      BY <1>2, <2>1, <2>2, SeqIs
  <1>6. /\ e \in [1..m -> I] /\ (\A i \in I : \E k \in 1..m : e[k] = i)
        /\ \A k, l \in 1..m : k < l => e[k] < e[l]
    BY <1>4 DEF Enumerates
  <1>7. \A k \in 1..m : g[k] = h[e[k]] /\ e[k] \in I /\ e[k] \in Nat
    <2>1. \A i \in I : i \in Nat
      BY <1>1
    <2> HIDE DEF g
    <2> QED
      BY <1>4, <1>6, <2>1
  <1> HIDE DEF g
  <1>8. \A k \in 1..m : g[k].id.cfg \in C
    BY <1>7
  <1>9. ASSUME NEW c \in C PROVE \E k \in 1..m : g[k].id.cfg = c
    <2>1. PICK i \in I : h[i].id.cfg = c
      BY <1>9
    <2>2. PICK k \in 1..m : e[k] = i
      BY <1>6
    <2>3. g[k] = h[i]
      BY <1>7, <2>2
    <2> QED
      BY <2>1, <2>3
  <1>10. ASSUME NEW k \in 1..m, NEW l \in 1..m, g[k].id.cfg = g[l].id.cfg PROVE k = l
    <2>1. e[k] = e[l]
      <3>1. e[k] \in I /\ e[l] \in I /\ h[e[k]].id.cfg = h[e[l]].id.cfg
        BY <1>7, <1>10
      <3> QED
        BY <3>1
    <2>2. k < l => e[k] < e[l]
      BY <1>6
    <2>3. l < k => e[l] < e[k]
      BY <1>6
    <2> QED
      BY <1>3, <1>7, <2>1, <2>2, <2>3
  <1> QED
    BY <1>2, <1>5, <1>8, <1>9, <1>10 DEF ListsOnce, g

(* Two lists of different candidates, one after the other.                  *)
LEMMA ConcatLists ==
  ASSUME NEW u, NEW v, NEW A, NEW B, ListsOnce(u, A), ListsOnce(v, B), A \cap B = {}
  PROVE  ListsOnce(u \o v, A \cup B)
PROOF
  <1> DEFINE g == u \o v
             m == Len(u)
             n == Len(v)
             T == Range(u) \cup Range(v)
  <1>1. /\ IsSeq(u) /\ IsSeq(v) /\ m \in Nat /\ n \in Nat /\ DOMAIN u = 1..m /\ DOMAIN v = 1..n
    BY SeqIs DEF ListsOnce
  <1>2. IsSeq(g)
    BY <1>1, ConcatIs
  <1>3. u \in Seq(T) /\ v \in Seq(T)
    <2>1. Range(u) \subseteq T /\ Range(v) \subseteq T
      OBVIOUS
    <2> HIDE DEF T
    <2> QED
      BY <1>1, <2>1, SeqOver
  <1> HIDE DEF T
  <1>4. Len(g) = m + n /\ (\A i \in 1..m : g[i] = u[i]) /\ \A i \in 1..n : g[m + i] = v[i]
    BY <1>1, <1>3
  <1>5. \A i \in 1..(m + n) : i \in 1..m \/ (i - m \in 1..n /\ m + (i - m) = i)
    BY <1>1
  <1>6. /\ \A i \in 1..m : u[i].id.cfg \in A /\ i \in 1..(m + n)
        /\ \A i \in 1..n : v[i].id.cfg \in B /\ m + i \in 1..(m + n)
        /\ \A c \in A : \E i \in 1..m : u[i].id.cfg = c
        /\ \A c \in B : \E i \in 1..n : v[i].id.cfg = c
        /\ \A i, j \in 1..m : u[i].id.cfg = u[j].id.cfg => i = j
        /\ \A i, j \in 1..n : v[i].id.cfg = v[j].id.cfg => i = j
    BY <1>1 DEF ListsOnce
  <1> HIDE DEF g, m, n
  <1>7. ASSUME NEW i \in 1..(m + n) PROVE g[i].id.cfg \in A \cup B
    <2>1. CASE i \in 1..m
      BY <1>4, <1>6, <2>1
    <2>2. CASE i - m \in 1..n /\ m + (i - m) = i
      <3>1. g[m + (i - m)] = v[i - m]
        BY <1>4, <2>2
      <3> QED
        BY <1>6, <2>2, <3>1
    <2> QED
      BY <1>5, <2>1, <2>2
  <1>8. ASSUME NEW c \in A \cup B PROVE \E i \in 1..(m + n) : g[i].id.cfg = c
    <2>1. CASE c \in A
      BY <1>4, <1>6, <2>1
    <2>2. CASE c \in B
      BY <1>4, <1>6, <2>2
    <2> QED
      BY <2>1, <2>2
  <1>9. ASSUME NEW i \in 1..(m + n), NEW j \in 1..(m + n), g[i].id.cfg = g[j].id.cfg PROVE i = j
    <2> DEFINE k == i - m
               l == j - m
    <2>1. /\ i \in 1..m \/ (k \in 1..n /\ m + k = i)
          /\ j \in 1..m \/ (l \in 1..n /\ m + l = j)
      BY <1>5
    <2> HIDE DEF k, l
    <2>2. CASE i \in 1..m /\ j \in 1..m
      BY <1>4, <1>6, <1>9, <2>2
    <2>3. CASE i \in 1..m /\ l \in 1..n /\ m + l = j
      <3>1. g[i].id.cfg \in A /\ g[j].id.cfg \in B
        BY <1>4, <1>6, <2>3
      <3> QED
        BY <1>9, <3>1
    <2>4. CASE j \in 1..m /\ k \in 1..n /\ m + k = i
      <3>1. g[j].id.cfg \in A /\ g[i].id.cfg \in B
        BY <1>4, <1>6, <2>4
      <3> QED
        BY <1>9, <3>1
    <2>5. CASE k \in 1..n /\ m + k = i /\ l \in 1..n /\ m + l = j
      <3>1. g[i] = v[k] /\ g[j] = v[l]
        BY <1>4, <2>5
      <3>2. k = l
        BY <1>6, <1>9, <2>5, <3>1
      <3> QED
        BY <2>5, <3>2
    <2> QED
      BY <2>1, <2>2, <2>3, <2>4, <2>5
  <1> QED
    BY <1>2, <1>4, <1>7, <1>8, <1>9 DEF ListsOnce, g

(* Nothing to keep, and nothing to join.                                    *)
LEMMA NothingAt ==
  ASSUME NEW s, IsSeq(s)
  PROVE  At(s, {}) = <<>> /\ s \o <<>> = s /\ <<>> \o s = s
PROOF
  <1> DEFINE R == Range(s)
  <1>1. s \in Seq(R)
    BY DEF IsSeq
  <1> HIDE DEF R
  <1>2. s \o <<>> = s /\ <<>> \o s = s
    BY <1>1
  <1>3. Cardinality({}) = 0
    BY FS_EmptySet
  <1>4. At(s, {}) = <<>>
    BY <1>3 DEF At
  <1> QED
    BY <1>2, <1>4

(* What a proposer may learn from, by the positions of the rows.            *)
Wins(h, stage) == {i \in DOMAIN h : h[i].id.stage = stage /\ Succeeds(h[i].res)}
LEMMA HistoryIs ==
  ASSUME NEW h, IsSeq(h), Wins(h, "grt") = {}
  PROVE  History(h).good = At(h, Wins(h, "route")) \o At(h, {i \in Wins(h, "proxy") : \A j \in Wins(h, "route") : h[j].id.cfg # h[i].id.cfg})
PROOF
  <1> DEFINE A == Wins(h, "route")
             u == At(h, A)
             w == At(h, {})
             P == {i \in Wins(h, "proxy") : \A j \in A : h[j].id.cfg # h[i].id.cfg}
  <1>1. Len(h) \in Nat /\ DOMAIN h = 1..Len(h)
    BY SeqIs
  <1>2. A \in SUBSET (1..Len(h)) /\ P \in SUBSET (1..Len(h))
    BY <1>1 DEF Wins
  <1>3. IsSeq(u) /\ Range(u) = {h[i] : i \in A}
    <2> HIDE DEF A
    <2> QED
      BY <1>1, <1>2, AtIs
  <1>4. w = <<>> /\ u \o w = u /\ Cfgs(w) = {}
    <2>1. w = <<>> /\ u \o <<>> = u
      BY <1>3, NothingAt
    <2> HIDE DEF w, u
    <2>2. Range(w) = {}
      BY <2>1 DEF Range
    <2>3. Cfgs(w) = {}
      BY <2>2 DEF Cfgs
    <2> QED
      BY <2>1, <2>3
  <1>5. {i \in DOMAIN h : h[i].id.stage = "route" /\ Succeeds(h[i].res)} = A
    BY DEF Wins
  <1>6. {i \in DOMAIN h : h[i].id.stage = "grt" /\ Succeeds(h[i].res) /\ h[i].id.cfg \notin Cfgs(u)} = {}
    BY DEF Wins
  <1>7. {i \in DOMAIN h : h[i].id.stage = "proxy" /\ Succeeds(h[i].res) /\ h[i].id.cfg \notin Cfgs(u) \cup Cfgs(w)} = P
    <2>1. Cfgs(u) = {h[i].id.cfg : i \in A}
      BY <1>3 DEF Cfgs
    <2> HIDE DEF u, w, A
    <2>2. \A i : i \in P <=> i \in DOMAIN h /\ h[i].id.stage = "proxy" /\ Succeeds(h[i].res) /\ h[i].id.cfg \notin Cfgs(u)
      BY <2>1 DEF Wins
    <2> HIDE DEF P
    <2> QED
      BY <1>4, <2>2
  <1>8. History(h).good = u \o w \o At(h, P)
    <2> DEFINE routed == Of(h, LAMBDA r : r.id.stage = "route" /\ Succeeds(r.res))
               grt == Of(h, LAMBDA r : r.id.stage = "grt" /\ Succeeds(r.res) /\ r.id.cfg \notin Cfgs(routed))
               proxy == Of(h, LAMBDA r : /\ r.id.stage = "proxy" /\ Succeeds(r.res)
                                         /\ r.id.cfg \notin Cfgs(routed) \cup Cfgs(grt))
    <2>1. History(h).good = routed \o grt \o proxy
      BY DEF History
    <2>2. routed = u
      BY <1>5 DEF Of
    <2> HIDE DEF routed
    <2>3. grt = At(h, {i \in DOMAIN h : h[i].id.stage = "grt" /\ Succeeds(h[i].res) /\ h[i].id.cfg \notin Cfgs(u)})
      BY <2>2 DEF Of
    <2> HIDE DEF grt
    <2>4. grt = w
      BY <1>6, <2>3
    <2>5. proxy = At(h, {i \in DOMAIN h : h[i].id.stage = "proxy" /\ Succeeds(h[i].res) /\ h[i].id.cfg \notin Cfgs(u) \cup Cfgs(w)})
      BY <2>2, <2>4 DEF Of
    <2> HIDE DEF proxy
    <2>6. proxy = At(h, P)
      BY <1>7, <2>5
    <2> QED
      BY <2>1, <2>2, <2>4, <2>6
  <1> HIDE DEF u, w
  <1>9. History(h).good = u \o At(h, P)
    BY <1>4, <1>8
  <1> QED
    BY <1>9 DEF u, P
(* Filters, by what they keep of the rows U.                                *)
Failures(U) == {r \in U : ~Succeeds(r.res)}
Screens(U)  == {r \in U : r.id.stage = "proxy"}
LEMMA KeepIs ==
  ASSUME NEW s, IsSeq(s), NEW U, Range(s) \subseteq U
  PROVE  /\ History(s).bad = KeepIn(s, Failures(U)) /\ OfStage(s, "proxy") = KeepIn(s, Screens(U))
         /\ \A T : IsSeq(KeepIn(s, T)) /\ Range(KeepIn(s, T)) = Range(s) \cap T
PROOF
  <1>1. Len(s) \in Nat /\ DOMAIN s = 1..Len(s)
    BY SeqIs
  <1>2. \A i \in DOMAIN s : s[i] \in U
    BY DEF Range
  <1>3. /\ {i \in DOMAIN s : ~Succeeds(s[i].res)} = {i \in DOMAIN s : s[i] \in Failures(U)}
        /\ {i \in DOMAIN s : s[i].id.stage = "proxy"} = {i \in DOMAIN s : s[i] \in Screens(U)}
    BY <1>2 DEF Failures, Screens
  <1>4. /\ History(s).bad = At(s, {i \in DOMAIN s : ~Succeeds(s[i].res)})
        /\ OfStage(s, "proxy") = At(s, {i \in DOMAIN s : s[i].id.stage = "proxy"})
    BY DEF History, OfStage, Of
  <1>5. ASSUME NEW T PROVE IsSeq(KeepIn(s, T)) /\ Range(KeepIn(s, T)) = Range(s) \cap T
    <2> DEFINE I == {i \in DOMAIN s : s[i] \in T}
    <2>1. I \in SUBSET (1..Len(s)) /\ {s[i] : i \in I} = Range(s) \cap T
      BY <1>1 DEF Range
    <2>2. KeepIn(s, T) = At(s, I)
      BY DEF KeepIn
    <2> HIDE DEF I
    <2>3. IsSeq(At(s, I)) /\ Range(At(s, I)) = {s[i] : i \in I}
      BY <1>1, <2>1, AtIs
    <2> QED
      BY <2>1, <2>2, <2>3
  <1> QED
    BY <1>3, <1>4, <1>5 DEF KeepIn

(* The failures of the placer are the same without the other rows.          *)
LEMMA FailuresShown ==
  ASSUME NEW h, IsSeq(h)
  PROVE  OfStage(History(h).bad, "proxy") = OfStage(History(OfStage(h, "proxy")).bad, "proxy")
PROOF
  <1> DEFINE U == Range(h)
             T == Screens(U)
             F == Failures(U)
             a1 == KeepIn(h, F)
             b1 == KeepIn(h, T)
             b2 == KeepIn(h, T \cap F)
  <1>1. /\ History(h).bad = a1 /\ OfStage(h, "proxy") = b1
        /\ IsSeq(a1) /\ Range(a1) \subseteq U /\ IsSeq(b1) /\ Range(b1) \subseteq U /\ IsSeq(b2) /\ Range(b2) \subseteq U
    BY KeepIs
  <1>2. KeepIn(a1, T) = KeepIn(h, F \cap T) /\ KeepIn(b1, F) = b2 /\ KeepIn(b2, T) = KeepIn(h, (T \cap F) \cap T)
    <2> HIDE DEF T, F
    <2> QED
      BY KeepTwice
  <1>3. F \cap T = (T \cap F) \cap T
    OBVIOUS
  <1> HIDE DEF a1, b1, b2
  <1>4. OfStage(a1, "proxy") = KeepIn(a1, T) /\ History(b1).bad = KeepIn(b1, F) /\ OfStage(b2, "proxy") = KeepIn(b2, T)
    <2>1. OfStage(a1, "proxy") = KeepIn(a1, T)
      BY <1>1, KeepIs
    <2>2. History(b1).bad = KeepIn(b1, F)
      BY <1>1, KeepIs
    <2>3. OfStage(b2, "proxy") = KeepIn(b2, T)
      BY <1>1, KeepIs
    <2> QED
      BY <2>1, <2>2, <2>3
  <1> HIDE DEF T, F
  <1> QED
    BY <1>1, <1>2, <1>3, <1>4

(* Where the rows of the placer do not tie, they do not in the history.     *)
LEMMA TiesAre ==
  ASSUME NEW h, IsSeq(h), NoTies(OfStage(h, "proxy")), NEW p \in Wins(h, "proxy"), NEW q \in Wins(h, "proxy"), h[p].res = h[q].res
  PROVE  p = q
PROOF
  <1> DEFINE n == Len(h)
             I == {i \in DOMAIN h : h[i].id.stage = "proxy"}
             t == OfStage(h, "proxy")
  <1>1. n \in Nat /\ DOMAIN h = 1..n
    BY SeqIs
  <1>2. t = At(h, I)
    BY DEF OfStage, Of
  <1>3. I \in SUBSET (1..n) /\ p \in I /\ q \in I /\ Succeeds(h[p].res) /\ Succeeds(h[q].res)
    BY <1>1 DEF Wins
  <1>4. \A i, j \in DOMAIN t : Succeeds(t[i].res) /\ t[i].res = t[j].res => i = j
    BY DEF NoTies
  <1> HIDE DEF n, I, t
  <1>5. PICK m \in Nat : \E e : Picks(At(h, I), h, e, m, I)
    BY <1>1, <1>3, AtEnumerates
  <1>6. PICK e : Enumerates(e, m, I) /\ t = [k \in 1..m |-> h[e[k]]]
    BY <1>2, <1>5 DEF Picks
  <1>7. PICK k \in 1..m : e[k] = p
    BY <1>3, <1>6 DEF Enumerates
  <1>8. PICK l \in 1..m : e[l] = q
    BY <1>3, <1>6 DEF Enumerates
  <1>9. k \in DOMAIN t /\ l \in DOMAIN t /\ t[k] = h[p] /\ t[l] = h[q]
    BY <1>6, <1>7, <1>8
  <1> QED
    BY <1>3, <1>4, <1>7, <1>8, <1>9

(* The prompt of the arm-run that must not learn from routes.               *)
LEMMA BlindFollows ==
  ASSUME RowsAre, Truths, Rounded
  PROVE  BlindToRoutes
PROOF
  <1> DEFINE scr(a) == OfStage(rows[<<a, "search">>], "proxy")
  <1>1. SUFFICES ASSUME NEW a \in ArmRuns, kind[a] = "llm_proxy", NoTies(scr(a))
                 PROVE  Shown(rows[<<a, "search">>]) = Shown(scr(a))
    BY DEF BlindToRoutes
  <1> DEFINE h == rows[<<a, "search">>]
             t == scr(a)
             A == Wins(h, "route")
             B == Wins(h, "proxy")
             P == {i \in B : \A j \in A : h[j].id.cfg # h[i].id.cfg}
             C == {h[i].id.cfg : i \in B}
             CA == {h[i].id.cfg : i \in A}
             CP == {h[i].id.cfg : i \in P}
  <1>2. IsSeq(h) /\ (\A r \in Range(h) : Truthful(r)) /\ RowsBacked(h)
    BY <1>1 DEF RowsAre, Truths, Keys, Places, Rounded, Backed, Hist
  <1>3. Len(h) \in Nat /\ DOMAIN h = 1..Len(h)
    BY <1>2, SeqIs
  <1>4. t = OfStage(h, "proxy") /\ NoTies(t)
    BY <1>1
  <1>5. IsSeq(t) /\ DOMAIN t = 1..Len(t) /\ Range(t) = {r \in Range(h) : r.id.stage = "proxy"}
    BY <1>2, <1>4, OfStageIs
  <1> HIDE DEF t, h, scr
  <1>6. \A i \in DOMAIN h : h[i] \in Range(h) /\ Truthful(h[i])
    BY <1>2 DEF Range
  <1>7. \A i \in B : h[i].res = Hpwl[h[i].id.cfg] /\ h[i].res \in Nat /\ i \in DOMAIN h /\ PlacedRow(h[i])
    <2>1. ASSUME NEW i \in B PROVE h[i].res = Hpwl[h[i].id.cfg] /\ h[i].res \in Nat /\ i \in DOMAIN h /\ PlacedRow(h[i])
      <3>1. i \in DOMAIN h /\ h[i].id.stage = "proxy" /\ Succeeds(h[i].res)
        BY DEF Wins
      <3>2. h[i].res = Outcome(h[i].id) /\ h[i].res \in Nat
        BY <1>6, <3>1, TruthfulIs
      <3>3. Outcome(h[i].id) = Hpwl[h[i].id.cfg]
        BY <3>1 DEF Outcome
      <3> QED
        BY <3>1, <3>2, <3>3 DEF PlacedRow
    <2> QED
      BY <2>1
  <1>8. \A i \in DOMAIN h : PlacedRow(h[i]) => i \in B
    BY DEF PlacedRow, Wins
  <1>9. \A i, j \in B : h[i].res = h[j].res => i = j
    BY <1>2, <1>4, TiesAre
  <1> HIDE DEF B
  <1>10. \A i, j \in B : h[i].id.cfg = h[j].id.cfg => i = j
    BY <1>7, <1>9
  <1>11. Apiece(C)
    <2>1. \A c \in C : \E i \in B : c = h[i].id.cfg /\ Hpwl[c] = h[i].res /\ h[i].res \in Nat
      BY <1>7
    <2> HIDE DEF C
    <2> QED
      BY <1>9, <2>1 DEF Apiece
  <1>12. \A c : ~PlacedTwice(h, c)
    BY <1>8, <1>10 DEF PlacedTwice
  <1>13. \A n, c : PlacedIn(h, n, c) => \E i \in B : h[i].id.cfg = c /\ h[i].rnd = n
    BY <1>8 DEF PlacedIn, Range
  <1>14. \A i \in A : i \in DOMAIN h /\ h[i] \in Range(h) /\ RoutedRow(h[i]) /\ PlacedIn(h, h[i].rnd, h[i].id.cfg)
    BY <1>2, <1>6 DEF Wins, RoutedRow, RowsBacked
  <1> HIDE DEF A
  <1>15. \A i, j \in A : h[i].id.cfg = h[j].id.cfg => i = j
    <2>1. SUFFICES ASSUME NEW i \in A, NEW j \in A, h[i].id.cfg = h[j].id.cfg, i # j PROVE FALSE
      OBVIOUS
    <2>2. PICK p \in B : h[p].id.cfg = h[i].id.cfg /\ h[p].rnd = h[i].rnd
      BY <1>13, <1>14
    <2>3. PICK q \in B : h[q].id.cfg = h[j].id.cfg /\ h[q].rnd = h[j].rnd
      BY <1>13, <1>14
    <2>4. p = q
      BY <1>10, <2>1, <2>2, <2>3
    <2>5. RoutedAlike(h[i], h[j])
      BY <1>14, <2>1, <2>2, <2>3, <2>4 DEF RoutedAlike
    <2>6. PlacedTwice(h, h[i].id.cfg)
      BY <1>2, <1>14, <2>1, <2>5 DEF RowsBacked
    <2> QED
      BY <1>12, <2>6
  <1>16. CA \subseteq C
    BY <1>13, <1>14
  <1>17. CA \cap CP = {} /\ CA \cup CP = C
    <2>1. \A i \in B : i \in P \/ h[i].id.cfg \in CA
      OBVIOUS
    <2>2. CP \subseteq C /\ CA \cap CP = {}
      OBVIOUS
    <2>3. C \subseteq CA \cup CP
      BY <2>1
    <2> QED
      BY <1>16, <2>2, <2>3
  <1>18. A \in SUBSET (1..Len(h)) /\ P \in SUBSET (1..Len(h)) /\ (\A i, j \in P : h[i].id.cfg = h[j].id.cfg => i = j)
    BY <1>3, <1>7, <1>10, <1>14
  <1>19. History(h).good = At(h, A) \o At(h, P)
    <2>1. Wins(h, "grt") = {}
      BY <1>2, <1>6 DEF Wins, RowsBacked
    <2> QED
      BY <1>2, <2>1, HistoryIs DEF A, B
  <1> HIDE DEF P
  <1>20. ListsOnce(At(h, A), CA) /\ ListsOnce(At(h, P), CP)
    BY <1>2, <1>15, <1>18, AtLists
  <1> HIDE DEF CA, CP
  <1>21. ListsOnce(History(h).good, C)
    BY <1>17, <1>19, <1>20, ConcatLists
  <1> DEFINE D == Wins(t, "proxy")
             CD == {t[i].id.cfg : i \in D}
  <1>22. \A i \in DOMAIN t : t[i].id.stage = "proxy" /\ t[i] \in Range(h) /\ t[i] \in Range(t)
    BY <1>5 DEF Range
  <1>23. Wins(t, "grt") = {} /\ Wins(t, "route") = {} /\ D \subseteq DOMAIN t /\ D \in SUBSET (1..Len(t))
    BY <1>5, <1>22 DEF Wins
  <1>24. History(t).good = At(t, D)
    <2> DEFINE E == {i \in D : \A j \in {} : t[j].id.cfg # t[i].id.cfg}
    <2>1. History(t).good = At(t, {}) \o At(t, E)
      BY <1>5, <1>23, HistoryIs
    <2>2. E = D
      OBVIOUS
    <2> HIDE DEF E, D
    <2>3. IsSeq(At(t, D)) /\ At(t, {}) = <<>>
      <3>1. Len(t) \in Nat /\ DOMAIN t = 1..Len(t)
        BY <1>5, SeqIs
      <3>2. IsSeq(At(t, D))
        BY <1>23, <3>1, AtIs
      <3>3. At(t, {}) = <<>>
        BY <1>5, NothingAt
      <3> QED
        BY <3>2, <3>3
    <2>4. <<>> \o At(t, D) = At(t, D)
      BY <2>3, NothingAt
    <2> QED
      BY <2>1, <2>2, <2>3, <2>4
  <1>25. \A k \in D : \E i \in B : t[k] = h[i]
    BY <1>8, <1>22 DEF Wins, Range, PlacedRow
  <1>26. \A i \in B : \E k \in D : t[k] = h[i]
    <2>1. SUFFICES ASSUME NEW i \in B PROVE \E k \in D : t[k] = h[i]
      OBVIOUS
    <2>2. h[i] \in Range(t)
      BY <1>5, <1>6, <1>7 DEF PlacedRow
    <2>3. PICK k \in DOMAIN t : t[k] = h[i]
      BY <2>2 DEF Range
    <2>4. k \in D
      BY <1>7, <2>3 DEF Wins, PlacedRow
    <2> QED
      BY <2>3, <2>4
  <1>27. \A k, l \in D : t[k].id.cfg = t[l].id.cfg => k = l
    <2>1. SUFFICES ASSUME NEW k \in D, NEW l \in D, t[k].id.cfg = t[l].id.cfg PROVE k = l
      OBVIOUS
    <2>2. t[k].res = t[l].res
      BY <1>7, <1>25, <2>1
    <2>3. k \in DOMAIN t /\ l \in DOMAIN t /\ Succeeds(t[k].res)
      BY DEF Wins
    <2> QED
      BY <1>4, <2>2, <2>3 DEF NoTies
  <1> HIDE DEF D
  <1>28. CD = C
    BY <1>25, <1>26
  <1>29. ListsOnce(At(t, D), CD)
    BY <1>5, <1>23, <1>27, AtLists
  <1> HIDE DEF CD, C
  <1>30. ListsOnce(History(t).good, C)
    BY <1>24, <1>28, <1>29
  <1>31. Lines(Sorted(History(h).good, HpwlOf, TopK)) = Lines(Sorted(History(t).good, HpwlOf, TopK))
    <2>1. Lines(Sorted(History(h).good, HpwlOf, TopK)) = [k \in 1..Min({TopK, Cardinality(C)}) |-> LineAt(C, k)]
      BY <1>11, <1>21, LinesAre
    <2>2. Lines(Sorted(History(t).good, HpwlOf, TopK)) = [k \in 1..Min({TopK, Cardinality(C)}) |-> LineAt(C, k)]
      BY <1>11, <1>30, LinesAre
    <2> QED
      BY <2>1, <2>2
  <1>32. OfStage(History(h).bad, "proxy") = OfStage(History(t).bad, "proxy")
    BY <1>2, <1>4, FailuresShown
  <1>33. Shown(h) = Shown(t)
    BY <1>31, <1>32 DEF Shown
  <1> QED
    BY <1>33 DEF h, t
-----------------------------------------------------------------------------
(* What an undisturbed search of an arm-run without a model asks for: in    *)
(* each of its calls, and all of its routes.                                *)
RoutesIn(a, n) == Range(Requests("route", Screened(a, DrawnIn(a, n))))
Plan(a) ==
  [random    |-> Random(a),
   placed    |-> [n \in Nat |-> Requests("proxy", DrawnIn(a, n))],
   estimated |-> [n \in Nat |-> Requests("grt", Lines(Feasible(True("proxy", DrawnIn(a, n)))))],
   routed    |-> [n \in Nat |-> RoutesIn(a, n)],
   routes    |-> IF Random(a) THEN UNION {RoutesIn(a, n) : n \in 0..Rounds - 1}
                 ELSE {Id("route", DefaultKnobs, s) : s \in Range(LotterySeeds)}]

(* The rows h from m on, and the batch s after them, are those of ids.      *)
Covers(h, s, n, m, ids) ==
  /\ Len(h) + Len(s) = m + Len(ids)
  /\ \A i \in 1..m : h[i].rnd < n
  /\ \A i \in (m + 1)..Len(h) : h[i].id = ids[i - m] /\ h[i].rnd = n
  /\ \A k \in 1..Len(s) : s[k].id = ids[Len(h) - m + k]
HasRow(h, i) == \E r \in Range(h) : r.id = i
HasAll(h, Q, calls) == \A n \in 0..calls - 1 : \A i \in Q[n] : HasRow(h, i)

(* At the place p of its call c an arm-run is on the track of its plan: its *)
(* routes are planned, those of the calls before are there, and its batch   *)
(* and the rows of its round are what the call's stages ask for.            *)
Track(P, p, h, s, n, c) ==
  /\ \A r \in Range(h) : r.id.stage = "route" => r.id \in P.routes
  /\ p = "route" => \A t \in Range(s) : t.id \in P.routes
  /\ p = "proxy" => \E m \in 0..Len(h) : Covers(h, s, n, m, P.placed[c - 1])
  /\ p = "grt" => \E m \in 0..Len(h) : Covers(h, s, n, m, P.placed[c - 1] \o P.estimated[c - 1])
  /\ P.random /\ p = "round" => HasAll(h, P.routed, c)
  /\ P.random /\ p \in {"proxy", "grt", "route"} => HasAll(h, P.routed, c - 1)
  /\ p = "route" => \A i \in (IF P.random THEN P.routed[c - 1] ELSE P.routes) : HasRow(h, i) \/ HasRow(s, i)
  /\ p = "searched" => \A i \in P.routes : HasRow(h, i)

Clean(h) == \A r \in Range(h) : r.res # Infra
OnTrack(a) == ~Asks(a) /\ Clean(Hist(a)) => Track(Plan(a), at[a], Hist(a), todo[a], rnd[a], Call(a))

(* What is found, and what is reported, of such a search.                   *)
EntryIs(a) ==
  /\ entry[a] = [best |-> entry[a].best, early |-> entry[a].early, validated |-> entry[a].validated]
  /\ xpc = "validate" /\ a \in jobs /\ ~Asks(a) /\ ~entry[a].early /\ Clean(Hist(a)) => entry[a].best = Undisturbed(a)
ReportIs(a) ==
  a \notin lost /\ ~Asks(a) /\ report[a] # Missing /\ ~report[a].early /\ ~MetInfra(a)
    => report[a].best = Undisturbed(a)
Healing == DOMAIN entry = ArmRuns /\ \A a \in ArmRuns : OnTrack(a) /\ EntryIs(a) /\ ReportIs(a)

(* Rows are only added.                                                     *)
LEMMA HasMore ==
  ASSUME NEW h, IsSeq(h), NEW r
  PROVE  /\ \A i : HasRow(h, i) => HasRow(Append(h, r), i)
         /\ HasRow(Append(h, r), r.id)
         /\ \A Q, c : HasAll(h, Q, c) => HasAll(Append(h, r), Q, c)
PROOF
  <1>1. Range(Append(h, r)) = Range(h) \cup {r}
    BY AppendIs
  <1>2. \A i : HasRow(h, i) => HasRow(Append(h, r), i)
    BY <1>1 DEF HasRow
  <1> QED
    BY <1>1, <1>2 DEF HasRow, HasAll

(* A record takes the next identity of the batch into the rows.             *)
LEMMA CoversMoves ==
  ASSUME NEW h, IsSeq(h), NEW s, Len(s) \in Nat \ {0},
         NEW u, Len(u) = Len(s) - 1, \A i \in 1..(Len(s) - 1) : u[i] = s[i + 1],
         NEW n, NEW r, r.id = s[1].id, r.rnd = n, NEW m \in 0..Len(h), NEW ids, Covers(h, s, n, m, ids)
  PROVE  m \in 0..Len(Append(h, r)) /\ Covers(Append(h, r), u, n, m, ids)
PROOF
  <1> DEFINE g == Append(h, r)
             p == Len(h)
             q == Len(s)
  <1>1. p \in Nat /\ q \in Nat \ {0} /\ m \in 0..p /\ p + q = m + Len(ids)
    BY SeqIs DEF Covers
  <1>2. Len(g) = p + 1 /\ g[p + 1] = r /\ \A i \in 1..p : g[i] = h[i]
    <2>1. DOMAIN g = 1..(p + 1) /\ g[p + 1] = r /\ \A i \in 1..p : g[i] = h[i]
      BY StaysPlaced
    <2>2. IsSeq(g)
      BY AppendIs
    <2> HIDE DEF g, p
    <2>3. Len(g) \in Nat /\ DOMAIN g = 1..Len(g)
      BY <2>2, SeqIs
    <2> QED
      BY <1>1, <2>1, <2>3
  <1>3. /\ \A i \in 1..m : h[i].rnd < n
        /\ \A i \in (m + 1)..p : h[i].id = ids[i - m] /\ h[i].rnd = n
        /\ \A k \in 1..q : s[k].id = ids[p - m + k]
    BY DEF Covers
  <1> HIDE DEF g, p, q
  <1>4. (p + 1) + (q - 1) = m + Len(ids)
    BY <1>1
  <1>5. \A i \in 1..m : g[i].rnd < n
    BY <1>1, <1>2, <1>3
  <1>6. ASSUME NEW i \in (m + 1)..(p + 1) PROVE g[i].id = ids[i - m] /\ g[i].rnd = n
    <2>1. CASE i = p + 1
      <3>1. 1 \in 1..q /\ p - m + 1 = i - m
        BY <1>1, <2>1
      <3>2. s[1].id = ids[i - m]
        BY <1>3, <3>1
      <3> QED
        BY <1>2, <2>1, <3>2
    <2>2. CASE i # p + 1
      <3>1. i \in (m + 1)..p /\ i \in 1..p
        BY <1>1, <1>6, <2>2
      <3>2. g[i] = h[i]
        BY <1>2, <3>1
      <3>3. h[i].id = ids[i - m] /\ h[i].rnd = n
        BY <1>3, <3>1
      <3> QED
        BY <3>2, <3>3
    <2> QED
      BY <2>1, <2>2
  <1>7. ASSUME NEW k \in 1..(q - 1) PROVE u[k].id = ids[(p + 1) - m + k]
    <2>1. k + 1 \in 1..q /\ p - m + (k + 1) = (p + 1) - m + k
      BY <1>1
    <2>2. u[k] = s[k + 1]
      BY DEF q
    <2>3. s[k + 1].id = ids[p - m + (k + 1)]
      BY <1>3, <2>1
    <2> QED
      BY <2>1, <2>2, <2>3
  <1>8. Len(u) = q - 1
    BY DEF q
  <1>9. m \in 0..(p + 1)
    BY <1>1
  <1>10. Covers(g, u, n, m, ids)
    BY <1>2, <1>4, <1>5, <1>6, <1>7, <1>8 DEF Covers
  <1> QED
    BY <1>2, <1>9, <1>10 DEF g

(* A record stays on the track.                                             *)
LEMMA TrackMoves ==
  ASSUME NEW P, NEW p, NEW h, IsSeq(h), NEW s, Len(s) \in Nat \ {0}, DOMAIN s = 1..Len(s),
         NEW u, DOMAIN u = 1..(Len(s) - 1), Len(u) = Len(s) - 1, \A i \in 1..(Len(s) - 1) : u[i] = s[i + 1],
         NEW n, NEW c, Track(P, p, h, s, n, c), p \in {"proxy", "grt", "route"},
         NEW r, r.id = s[1].id, r.rnd = n \/ p = "route", r.id.stage = p \/ p = "route"
  PROVE  Track(P, p, Append(h, r), u, n, c)
PROOF
  <1> DEFINE g == Append(h, r)
  <1>1. Range(g) = Range(h) \cup {r}
    BY AppendIs
  <1>2. s[1] \in Range(s)
    BY DEF Range
  <1>3. ASSUME NEW t \in Range(s) PROVE t = s[1] \/ t \in Range(u)
    <2>1. PICK k \in 1..Len(s) : t = s[k]
      BY <1>3, BatchRange
    <2>2. CASE k # 1
      <3>1. k - 1 \in 1..(Len(s) - 1) /\ (k - 1) + 1 = k
        BY <2>2
      <3>2. u[k - 1] = s[k]
        BY <3>1
      <3> QED
        BY <2>1, <3>1, <3>2 DEF Range
    <2> QED
      BY <2>1, <2>2
  <1>4. ASSUME NEW t \in Range(u) PROVE t \in Range(s)
    <2>1. Len(s) - 1 \in Nat
      OBVIOUS
    <2>2. PICK k \in 1..(Len(s) - 1) : t = u[k]
      BY <1>4, <2>1, BatchRange
    <2>3. k + 1 \in 1..Len(s) /\ u[k] = s[k + 1]
      BY <2>1
    <2> QED
      BY <2>2, <2>3, BatchRange
  <1>5. /\ \A i : HasRow(h, i) => HasRow(g, i)
        /\ HasRow(g, r.id)
        /\ \A Q, k : HasAll(h, Q, k) => HasAll(g, Q, k)
    BY HasMore
  <1> HIDE DEF g
  <1>6. \A x \in Range(g) : x.id.stage = "route" => x.id \in P.routes
    <2>1. r.id.stage = "route" => r.id \in P.routes
      BY <1>2 DEF Track
    <2> QED
      BY <1>1, <2>1 DEF Track
  <1>7. p = "route" => \A t \in Range(u) : t.id \in P.routes
    BY <1>4 DEF Track
  <1>8. ASSUME NEW ids, p # "route", \E m \in 0..Len(h) : Covers(h, s, n, m, ids)
        PROVE  \E m \in 0..Len(g) : Covers(g, u, n, m, ids)
    <2>1. PICK m \in 0..Len(h) : Covers(h, s, n, m, ids)
      BY <1>8
    <2> QED
      BY <1>8, <2>1, CoversMoves DEF g
  <1>9. p = "route" => \A i \in (IF P.random THEN P.routed[c - 1] ELSE P.routes) : HasRow(g, i) \/ HasRow(u, i)
    <2>1. \A i : HasRow(s, i) => HasRow(g, i) \/ HasRow(u, i)
      BY <1>3, <1>5 DEF HasRow
    <2> QED
      BY <1>5, <2>1 DEF Track
  <1>10. /\ p = "proxy" => \E m \in 0..Len(g) : Covers(g, u, n, m, P.placed[c - 1])
         /\ p = "grt" => \E m \in 0..Len(g) : Covers(g, u, n, m, P.placed[c - 1] \o P.estimated[c - 1])
    <2>1. p = "proxy" => \E m \in 0..Len(h) : Covers(h, s, n, m, P.placed[c - 1])
      BY DEF Track
    <2>2. p = "grt" => \E m \in 0..Len(h) : Covers(h, s, n, m, P.placed[c - 1] \o P.estimated[c - 1])
      BY DEF Track
    <2>3. CASE p = "proxy"
      BY <1>8, <2>1, <2>3
    <2>4. CASE p = "grt"
      BY <1>8, <2>2, <2>4
    <2> QED
      BY <2>3, <2>4
  <1>11. P.random => HasAll(g, P.routed, c - 1)
    BY <1>5 DEF Track
  <1> QED
    BY <1>6, <1>7, <1>9, <1>10, <1>11 DEF Track, g

(* Rows that say the same of the same identities, whatever their rounds.    *)
Alike(s, t) ==
  /\ IsSeq(s) /\ IsSeq(t) /\ Len(s) = Len(t)
  /\ \A k \in 1..Len(s) : s[k].id = t[k].id /\ s[k].res = t[k].res

LEMMA LinesAlike == ASSUME NEW s, NEW t, Alike(s, t) PROVE Lines(s) = Lines(t)
PROOF
  <1>1. DOMAIN s = 1..Len(s) /\ DOMAIN t = 1..Len(s)
    BY SeqIs DEF Alike
  <1>2. \A k \in 1..Len(s) : s[k].id.cfg = t[k].id.cfg
    BY DEF Alike
  <1> QED
    BY <1>1, <1>2 DEF Lines

(* The feasible ones of them are alike.                                     *)
LEMMA FeasibleAlike == ASSUME NEW s, NEW t, Alike(s, t) PROVE Alike(Feasible(s), Feasible(t))
PROOF
  <1> DEFINE n == Len(s)
             I == {i \in 1..n : Succeeds(s[i].res)}
  <1>1. n \in Nat /\ DOMAIN s = 1..n /\ DOMAIN t = 1..n
    BY SeqIs DEF Alike
  <1>2. I = {i \in 1..n : Succeeds(t[i].res)}
    BY DEF Alike
  <1>3. Feasible(s) = At(s, I) /\ Feasible(t) = At(t, I)
    BY <1>1, <1>2 DEF Feasible, Of
  <1>4. I \in SUBSET (1..n) /\ \A i \in I : i \in 1..n
    OBVIOUS
  <1>5. \A i \in 1..n : s[i].id = t[i].id /\ s[i].res = t[i].res
    BY DEF Alike
  <1> HIDE DEF n, I
  <1>6. PICK m \in Nat : \E e : Picks(At(s, I), s, e, m, I)
    BY <1>1, <1>4, AtEnumerates
  <1>7. PICK e : Picks(At(s, I), s, e, m, I)
    BY <1>6
  <1>8. Enumerates(e, m, I)
    BY <1>7 DEF Picks
  <1>9. Picks(At(t, I), t, e, m, I)
    BY <1>1, <1>4, <1>8, AtIsEnumerated
  <1> DEFINE f == At(s, I)
             g == At(t, I)
  <1>10. f = [k \in 1..m |-> s[e[k]]] /\ g = [k \in 1..m |-> t[e[k]]] /\ \A k \in 1..m : e[k] \in I
    BY <1>7, <1>8, <1>9 DEF Picks, Enumerates
  <1> HIDE DEF f, g
  <1>11. f = [k \in 1..m |-> f[k]] /\ g = [k \in 1..m |-> g[k]]
    BY <1>10
  <1>12. IsSeq(f) /\ Len(f) = m /\ IsSeq(g) /\ Len(g) = m
    BY <1>11, SeqIs
  <1>13. \A k \in 1..m : f[k].id = g[k].id /\ f[k].res = g[k].res
    BY <1>4, <1>5, <1>10
  <1> QED
    BY <1>3, <1>12, <1>13 DEF Alike, f, g

(* The same candidates are chosen of them.                                  *)
LEMMA ChoiceAlike ==
  ASSUME NEW s, NEW t, Alike(s, t), \A i \in 1..Len(s) : s[i].res \in Int
  PROVE  Choice(s) = Choice(t)
PROOF
  <1> DEFINE f == Feasible(s)
             g == Feasible(t)
             n == Len(f)
             q == Min({RouteTop, n})
  <1>1. Alike(f, g)
    BY FeasibleAlike
  <1>2. n \in Nat /\ DOMAIN f = 1..n /\ DOMAIN g = 1..n
    <2> HIDE DEF f, g
    <2> QED
      BY <1>1, SeqIs DEF Alike
  <1>3. \A i \in 1..n : f[i].res \in Int
    <2>1. IsSeq(s)
      BY DEF Alike
    <2>2. PICK m \in Nat : \E e \in [1..m -> {i \in 1..Len(s) : Succeeds(s[i].res)}] :
            f = [k \in 1..m |-> s[e[k]]] /\ Len(f) = m
      BY <2>1, FeasibleIs
    <2>3. PICK e \in [1..m -> {i \in 1..Len(s) : Succeeds(s[i].res)}] : f = [k \in 1..m |-> s[e[k]]] /\ Len(f) = m
      BY <2>2
    <2> HIDE DEF f
    <2> QED
      BY <2>3
  <1> HIDE DEF f, g, n
  <1>4. \A i \in 1..n : f[i].id = g[i].id /\ f[i].res = g[i].res
    BY <1>1 DEF Alike, n
  <1>5. \A j \in 1..n : Rank(f, ScoreOf, j) = Rank(g, ScoreOf, j)
    <2>1. SUFFICES ASSUME NEW j \in 1..n PROVE Rank(f, ScoreOf, j) = Rank(g, ScoreOf, j)
      OBVIOUS
    <2>2. \A i \in 1..n : Before(f, ScoreOf, i, j) <=> Before(g, ScoreOf, i, j)
      BY <1>4 DEF Before, ScoreOf
    <2>3. {i \in DOMAIN f : Before(f, ScoreOf, i, j)} = {i \in DOMAIN g : Before(g, ScoreOf, i, j)}
      BY <1>2, <2>2
    <2> QED
      BY <2>3 DEF Rank
  <1>6. \A k \in 0..(n - 1) : \E j \in 1..n : Rank(f, ScoreOf, j) = k
    <2>1. IsSeq(f) /\ \A i \in 1..Len(f) : f[i].res \in Int
      BY <1>1, <1>3 DEF Alike, n
    <2>2. /\ Ranked(1..n, ByScore(f)) /\ Cardinality(1..n) = n
          /\ \A j \in 1..n : Rank(f, ScoreOf, j) = Cardinality(Lower(1..n, ByScore(f), j))
      BY <2>1, ByScoreIs DEF n
    <2> QED
      BY <2>2 DEF Ranked
  <1>7. q \in Nat /\ q <= n
    BY <1>2, LesserIs, LoopAssumption
  <1> DEFINE nth(u, k) == CHOOSE j \in DOMAIN u : Rank(u, ScoreOf, j) = k - 1
  <1>8. Len(g) = n
    BY <1>1 DEF Alike, n
  <1>9. /\ Sorted(f, ScoreOf, RouteTop) = [k \in 1..q |-> f[nth(f, k)]]
        /\ Sorted(g, ScoreOf, RouteTop) = [k \in 1..q |-> g[nth(g, k)]]
    BY <1>8 DEF Sorted, n
  <1> HIDE DEF q
  <1>10. ASSUME NEW k \in 1..q PROVE nth(f, k) = nth(g, k) /\ nth(f, k) \in 1..n
    <2>1. k - 1 \in 0..(n - 1)
      BY <1>2, <1>7
    <2>2. \E j \in 1..n : Rank(f, ScoreOf, j) = k - 1
      BY <1>6, <2>1
    <2>3. nth(f, k) \in 1..n
      BY <1>2, <2>2
    <2>4. \A j : (j \in DOMAIN f /\ Rank(f, ScoreOf, j) = k - 1) <=> (j \in DOMAIN g /\ Rank(g, ScoreOf, j) = k - 1)
      BY <1>2, <1>5
    <2>5. nth(f, k) = nth(g, k)
      BY <2>4
    <2> QED
      BY <2>3, <2>5
  <1> HIDE DEF nth
  <1>11. \A k \in 1..q : f[nth(f, k)].id.cfg = g[nth(g, k)].id.cfg
    BY <1>4, <1>10
  <1> DEFINE x == Sorted(f, ScoreOf, RouteTop)
             y == Sorted(g, ScoreOf, RouteTop)
  <1>12. DOMAIN x = 1..q /\ DOMAIN y = 1..q /\ \A k \in 1..q : x[k].id.cfg = y[k].id.cfg
    BY <1>9, <1>11
  <1> HIDE DEF x, y
  <1>13. Lines(x) = Lines(y)
    BY <1>12 DEF Lines
  <1> QED
    BY <1>13 DEF Choice, f, g, x, y

(* What is left of the feasible ones is all of them.                        *)
LEMMA FeasibleTwice == ASSUME NEW s, IsSeq(s) PROVE Feasible(Feasible(s)) = Feasible(s)
PROOF
  <1> DEFINE T == {r \in Range(s) : Succeeds(r.res)}
             f == Feasible(s)
  <1>1. DOMAIN s = 1..Len(s) /\ \A i \in 1..Len(s) : s[i] \in Range(s)
    BY SeqIs
  <1>2. {i \in DOMAIN s : Succeeds(s[i].res)} = {i \in DOMAIN s : s[i] \in T}
    BY <1>1
  <1>3. f = KeepIn(s, T)
    BY <1>2 DEF Feasible, Of, KeepIn
  <1>4. PICK m \in Nat : \E e \in [1..m -> {i \in 1..Len(s) : Succeeds(s[i].res)}] :
          f = [k \in 1..m |-> s[e[k]]] /\ Len(f) = m
    BY FeasibleIs
  <1>5. PICK e \in [1..m -> {i \in 1..Len(s) : Succeeds(s[i].res)}] : f = [k \in 1..m |-> s[e[k]]]
    BY <1>4
  <1> HIDE DEF f
  <1>6. \A k \in DOMAIN f : f[k] \in T /\ Succeeds(f[k].res)
    BY <1>1, <1>5
  <1>7. {k \in DOMAIN f : Succeeds(f[k].res)} = {k \in DOMAIN f : f[k] \in T}
    BY <1>6
  <1>8. Feasible(f) = KeepIn(f, T)
    BY <1>7 DEF Feasible, Of, KeepIn
  <1> HIDE DEF T
  <1>9. KeepIn(KeepIn(s, T), T) = KeepIn(s, T \cap T)
    BY KeepTwice
  <1>10. T \cap T = T
    OBVIOUS
  <1> QED
    BY <1>3, <1>8, <1>9, <1>10 DEF f

(* Two sequences, one behind the other.                                     *)
Joined(g, u, v) ==
  /\ Len(g) = Len(u) + Len(v)
  /\ \A i \in 1..Len(u) : g[i] = u[i]
  /\ \A i \in 1..Len(v) : g[Len(u) + i] = v[i]
LEMMA JoinIs ==
  ASSUME NEW u, NEW v, IsSeq(u), IsSeq(v)
  PROVE  Joined(u \o v, u, v)
PROOF
  <1> DEFINE T == Range(u) \cup Range(v)
             g == u \o v
             m == Len(u)
             n == Len(v)
  <1>1. m \in Nat /\ n \in Nat /\ DOMAIN u = 1..m /\ DOMAIN v = 1..n
    BY SeqIs
  <1>2. u \in Seq(T) /\ v \in Seq(T)
    <2>1. Range(u) \subseteq T /\ Range(v) \subseteq T
      OBVIOUS
    <2> HIDE DEF T
    <2> QED
      BY <2>1, SeqOver
  <1> HIDE DEF T
  <1>3. Len(g) = m + n /\ (\A i \in 1..m : g[i] = u[i]) /\ \A i \in 1..n : g[m + i] = v[i]
    BY <1>1, <1>2
  <1> QED
    BY <1>3 DEF Joined, g, m, n

(* The requests of a stage, and what is true of them.                       *)
LEMMA RequestsAre ==
  ASSUME NEW cs, NEW n \in Nat, DOMAIN cs = 1..n, NEW stage
  PROVE  /\ IsSeq(Requests(stage, cs)) /\ Len(Requests(stage, cs)) = n /\ DOMAIN Requests(stage, cs) = 1..n
         /\ IsSeq(True(stage, cs)) /\ Len(True(stage, cs)) = n
         /\ \A k \in 1..n : /\ Requests(stage, cs)[k] = Id(stage, cs[k], SearchSeed)
                            /\ True(stage, cs)[k].id = Id(stage, cs[k], SearchSeed)
                            /\ True(stage, cs)[k].res = Outcome(Id(stage, cs[k], SearchSeed))
PROOF
  <1> DEFINE u == Requests(stage, cs)
             v == True(stage, cs)
  <1>1. u = [k \in 1..n |-> Id(stage, cs[k], SearchSeed)]
    BY DEF Requests
  <1>2. v = [k \in 1..n |-> [id  |-> Id(stage, cs[k], SearchSeed),
                             res |-> Outcome(Id(stage, cs[k], SearchSeed))]]
    BY DEF True
  <1> HIDE DEF u, v
  <1>3. DOMAIN u = 1..n /\ \A k \in 1..n : u[k] = Id(stage, cs[k], SearchSeed)
    BY <1>1
  <1>4. DOMAIN v = 1..n /\ \A k \in 1..n : /\ v[k].id = Id(stage, cs[k], SearchSeed)
                                           /\ v[k].res = Outcome(Id(stage, cs[k], SearchSeed))
    BY <1>2
  <1>5. u = [k \in 1..n |-> u[k]] /\ v = [k \in 1..n |-> v[k]]
    BY <1>1, <1>2
  <1>6. IsSeq(u) /\ Len(u) = n /\ IsSeq(v) /\ Len(v) = n
    BY <1>5, SeqIs
  <1> QED
    BY <1>3, <1>4, <1>6 DEF u, v

(* Where the rows of the round are the requests of a stage behind others of *)
(* another stage, and none failed for the infrastructure, the stage sees    *)
(* what is true of its candidates.                                          *)
LEMMA StageTrue ==
  ASSUME RowsAre, RoundsAre, Truths, NEW a \in ArmRuns, Clean(Hist(a)), NEW stage, NEW cs, NEW n \in Nat, DOMAIN cs = 1..n,
         NEW u, IsSeq(u), \A k \in 1..Len(u) : u[k].stage # stage, NEW s, Len(s) = 0,
         NEW m \in 0..Len(Hist(a)), Covers(Hist(a), s, rnd[a], m, u \o Requests(stage, cs))
  PROVE  Alike(Now(a, stage), True(stage, cs)) /\ \A i \in 1..Len(Now(a, stage)) : Now(a, stage)[i].res \in Int
PROOF
  <1> DEFINE h == Hist(a)
             p == Len(h)
             b == Len(u)
             d == m + b
             v == Requests(stage, cs)
             g == u \o v
             I == {i \in 1..p : h[i].rnd = rnd[a] /\ h[i].id.stage = stage}
             e == [k \in 1..n |-> d + k]
             t == Now(a, stage)
             w == True(stage, cs)
  <1>1. IsSeq(h) /\ (\A r \in Range(h) : Truthful(r) /\ r.res # Infra) /\ rnd[a] \in Nat
    BY DEF RowsAre, RoundsAre, Truths, Clean, Hist, Keys, Places
  <1>2. p \in Nat /\ DOMAIN h = 1..p /\ b \in Nat /\ m \in 0..p
    BY <1>1, SeqIs
  <1>3. \A i \in 1..p : h[i].res = Outcome(h[i].id) /\ h[i].rnd \in Nat
    BY <1>1, SeqIs DEF Truthful
  <1>4. /\ IsSeq(v) /\ Len(v) = n /\ IsSeq(w) /\ Len(w) = n
        /\ \A k \in 1..n : /\ v[k] = Id(stage, cs[k], SearchSeed) /\ w[k].id = Id(stage, cs[k], SearchSeed)
                           /\ w[k].res = Outcome(Id(stage, cs[k], SearchSeed))
    BY RequestsAre
  <1> HIDE DEF v, w
  <1>5. Len(g) = b + n /\ (\A i \in 1..b : g[i] = u[i]) /\ \A i \in 1..n : g[b + i] = v[i]
    <2>1. IsSeq(u) /\ IsSeq(v) /\ Len(v) = n
      BY <1>4
    <2>2. Joined(g, u, v)
      BY <2>1, JoinIs
    <2> HIDE DEF g
    <2>3. /\ Len(g) = b + Len(v) /\ \A i \in 1..b : g[i] = u[i]
          /\ \A i \in 1..Len(v) : g[b + i] = v[i]
      BY <2>2 DEF Joined
    <2> QED
      BY <2>1, <2>3
  <1>6. t = At(h, I)
    BY <1>2 DEF Now, Of, Hist
  <1>7. /\ p + 0 = m + Len(g) /\ \A i \in 1..m : h[i].rnd < rnd[a]
        /\ \A i \in (m + 1)..p : h[i].id = g[i - m] /\ h[i].rnd = rnd[a]
    BY DEF Covers, v
  <1> HIDE DEF h, p, b, g, t
  <1>8. p = d + n /\ d \in Nat
    BY <1>2, <1>5, <1>7
  <1>9. ASSUME NEW i \in 1..p, i <= d PROVE i \notin I
    <2>1. CASE i <= m
      <3>1. i \in 1..m
        BY <1>2, <2>1
      <3>2. h[i].rnd < rnd[a]
        BY <1>7, <3>1
      <3>3. h[i].rnd \in Nat
        BY <1>3
      <3> QED
        BY <1>1, <3>2, <3>3
    <2>2. CASE ~(i <= m)
      <3>1. i \in (m + 1)..p /\ i - m \in 1..b
        BY <1>2, <1>9, <2>2
      <3>2. h[i].id = g[i - m] /\ g[i - m] = u[i - m]
        BY <1>5, <1>7, <3>1
      <3>3. u[i - m].stage # stage
        BY <3>1 DEF b
      <3> QED
        BY <3>2, <3>3
    <2> QED
      BY <2>1, <2>2
  <1>10. ASSUME NEW k \in 1..n
         PROVE  d + k \in I /\ h[d + k].id = Id(stage, cs[k], SearchSeed)
    <2>1. d + k \in (m + 1)..p /\ d + k \in 1..p /\ (d + k) - m = b + k
      BY <1>2, <1>8
    <2>2. h[d + k].id = g[b + k] /\ h[d + k].rnd = rnd[a]
      BY <1>7, <2>1
    <2>3. h[d + k].id = Id(stage, cs[k], SearchSeed)
      BY <1>4, <1>5, <2>2
    <2> QED
      BY <2>1, <2>2, <2>3 DEF Id
  <1>11. I \in SUBSET (1..p)
    OBVIOUS
  <1> HIDE DEF I
  <1>12. Enumerates(e, n, I)
    <2>1. e \in [1..n -> I]
      BY <1>10
    <2>2. ASSUME NEW i \in I PROVE \E k \in 1..n : e[k] = i
      <3>1. i \in 1..p /\ ~(i <= d)
        BY <1>9, <1>11
      <3>2. i - d \in 1..n /\ d + (i - d) = i
        BY <1>8, <3>1
      <3> QED
        BY <3>2
    <2>3. \A k, l \in 1..n : k < l => e[k] < e[l]
      BY <1>8
    <2> HIDE DEF e
    <2> QED
      BY <2>1, <2>2, <2>3 DEF Enumerates
  <1>13. \A k \in 1..n : e[k] = d + k
    OBVIOUS
  <1> HIDE DEF e
  <1>14. Picks(At(h, I), h, e, n, I)
    BY <1>2, <1>11, <1>12, AtIsEnumerated
  <1>15. t = [k \in 1..n |-> h[e[k]]]
    BY <1>6, <1>14 DEF Picks
  <1>16. IsSeq(t) /\ Len(t) = n
    <2>1. t = [k \in 1..n |-> t[k]]
      BY <1>15
    <2> QED
      BY <2>1, SeqIs
  <1>17. ASSUME NEW k \in 1..n PROVE t[k].id = w[k].id /\ t[k].res = w[k].res
    <2>1. t[k] = h[d + k] /\ d + k \in 1..p
      BY <1>10, <1>11, <1>13, <1>15
    <2>2. h[d + k].id = Id(stage, cs[k], SearchSeed) /\ h[d + k].res = Outcome(h[d + k].id)
      BY <1>3, <1>10, <2>1
    <2> QED
      BY <1>4, <2>1, <2>2
  <1>18. Alike(t, w)
    BY <1>4, <1>16, <1>17 DEF Alike
  <1>19. \A i \in 1..Len(t) : t[i].res \in Int
    BY StageAsked DEF t
  <1> QED
    BY <1>18, <1>19 DEF t, w

(* The kinds of arm-runs, and the numbers of their calls.                   *)
LEMMA KindIs ==
  ASSUME Located, NEW a \in ArmRuns
  PROVE  Random(a) \/ Asks(a) \/ kind[a] = "default_seeds"
PROOF
  <1>1. PICK x \in Lineups : kind = x.arms
    BY DEF Located
  <1>2. x.arms \in Seq({"default_seeds", "random_proxy", "random_grt", "llm_proxy", "llm_grt", "llm_grt_expanded"})
    BY LineupsAssumption
  <1>3. kind[a] \in {"default_seeds", "random_proxy", "random_grt", "llm_proxy", "llm_grt", "llm_grt_expanded"}
    BY <1>1, <1>2 DEF ArmRuns
  <1> QED
    BY <1>3 DEF Random, Asks

LEMMA CallCounts ==
  ASSUME Located, RoundsAre, NEW a \in ArmRuns, kind[a] # "default_seeds"
  PROVE  /\ at[a] \in {"proxy", "grt", "route"} => Call(a) - 1 \in 0..(Rounds - 1)
         /\ at[a] = "round" => Call(a) \in Nat /\ (rnd[a] < last[a] => Call(a) \in 0..(Rounds - 1))
         /\ rnd[a] = last[a] => Call(a) = Rounds
PROOF
  <1>1. rnd[a] \in Nat /\ last[a] \in Nat /\ rnd[a] <= last[a] /\ Rounds \in Nat
    BY LoopAssumption DEF RoundsAre, Located, CallIs
  <1>2. at[a] = "round" => last[a] - Rounds <= rnd[a]
    BY DEF Located, CallIs
  <1>3. at[a] \in {"proxy", "grt", "route"} => last[a] - Rounds < rnd[a]
    BY DEF Located, CallIs
  <1> QED
    BY <1>1, <1>2, <1>3 DEF Call

(* What the stages of an arm-run on its track see.                          *)
LEMMA PlacedTrue ==
  ASSUME RowsAre, RoundsAre, Located, Truths, NEW a \in ArmRuns, ~Asks(a), Clean(Hist(a)), OnTrack(a),
         at[a] = "proxy", todo[a] = <<>>
  PROVE  /\ Random(a) /\ Call(a) - 1 \in 0..(Rounds - 1)
         /\ Alike(Now(a, "proxy"), True("proxy", DrawnIn(a, Call(a) - 1)))
         /\ \A i \in 1..Len(Now(a, "proxy")) : Now(a, "proxy")[i].res \in Int
PROOF
  <1> DEFINE c == Call(a) - 1
             cs == DrawnIn(a, c)
             u == Requests("proxy", cs)
  <1>1. kind[a] # "default_seeds" /\ Random(a)
    BY KindIs DEF Located, CallIs
  <1>2. c \in 0..(Rounds - 1) /\ Batch \in Nat
    BY <1>1, CallCounts, LoopAssumption
  <1>3. DOMAIN cs = 1..Batch
    <2> HIDE DEF c
    <2> QED
      BY <1>1, <1>2, DrawnIs
  <1>4. IsSeq(u)
    <2> HIDE DEF cs
    <2> QED
      BY <1>2, <1>3, RequestsAre
  <1>5. \E m \in 0..Len(Hist(a)) : Covers(Hist(a), todo[a], rnd[a], m, Plan(a).placed[c])
    BY DEF OnTrack, Track
  <1>6. Plan(a).placed[c] = u
    <2>1. c \in Nat
      BY <1>2, LoopAssumption
    <2> HIDE DEF c
    <2> QED
      BY <2>1 DEF Plan
  <1> HIDE DEF c, cs, u
  <1>7. <<>> \o u = u
    BY <1>4, NothingAt
  <1>8. IsSeq(<<>>) /\ Len(<<>>) = 0
    BY DEF IsSeq
  <1>9. PICK m \in 0..Len(Hist(a)) : Covers(Hist(a), <<>>, rnd[a], m, <<>> \o u)
    BY <1>5, <1>6, <1>7
  <1>10. \A k \in 1..Len(<<>>) : <<>>[k].stage # "proxy"
    BY <1>8
  <1>11. Covers(Hist(a), <<>>, rnd[a], m, <<>> \o Requests("proxy", cs))
    BY <1>9 DEF u
  <1>12. Alike(Now(a, "proxy"), True("proxy", cs)) /\ \A i \in 1..Len(Now(a, "proxy")) : Now(a, "proxy")[i].res \in Int
    BY <1>2, <1>3, <1>8, <1>10, <1>11, StageTrue
  <1> QED
    BY <1>1, <1>2, <1>12 DEF cs, c

LEMMA EstimatedTrue ==
  ASSUME RowsAre, RoundsAre, Located, Truths, NEW a \in ArmRuns, ~Asks(a), Clean(Hist(a)), OnTrack(a),
         at[a] = "grt", todo[a] = <<>>
  PROVE  /\ Random(a) /\ Call(a) - 1 \in 0..(Rounds - 1)
         /\ Alike(Now(a, "grt"), True("grt", Lines(Feasible(True("proxy", DrawnIn(a, Call(a) - 1))))))
         /\ \A i \in 1..Len(Now(a, "grt")) : Now(a, "grt")[i].res \in Int
PROOF
  <1> DEFINE c == Call(a) - 1
             cs == DrawnIn(a, c)
             u == Requests("proxy", cs)
             f == Feasible(True("proxy", cs))
             es == Lines(f)
             v == Requests("grt", es)
  <1>1. kind[a] # "default_seeds" /\ Random(a)
    BY KindIs DEF Located, CallIs
  <1>2. c \in 0..(Rounds - 1) /\ Batch \in Nat
    BY <1>1, CallCounts, LoopAssumption
  <1>3. DOMAIN cs = 1..Batch
    <2> HIDE DEF c
    <2> QED
      BY <1>1, <1>2, DrawnIs
  <1>4. IsSeq(u) /\ Len(u) = Batch /\ \A k \in 1..Batch : u[k] = Id("proxy", cs[k], SearchSeed)
    <2> HIDE DEF cs
    <2> QED
      BY <1>2, <1>3, RequestsAre
  <1>5. PICK n \in Nat : DOMAIN es = 1..n
    <2>1. IsSeq(True("proxy", cs))
      <3> HIDE DEF cs
      <3> QED
        BY <1>2, <1>3, RequestsAre
    <2>2. IsSeq(f)
      <3> HIDE DEF cs
      <3> QED
        BY <2>1, FeasibleIs
    <2> HIDE DEF f
    <2>3. Len(f) \in Nat /\ DOMAIN f = 1..Len(f)
      BY <2>2, SeqIs
    <2> QED
      BY <2>3 DEF Lines
  <1>6. \E m \in 0..Len(Hist(a)) : Covers(Hist(a), todo[a], rnd[a], m, Plan(a).placed[c] \o Plan(a).estimated[c])
    BY DEF OnTrack, Track
  <1>7. Plan(a).placed[c] = u /\ Plan(a).estimated[c] = v
    <2>1. c \in Nat
      BY <1>2, LoopAssumption
    <2> HIDE DEF c
    <2> QED
      BY <2>1 DEF Plan
  <1> HIDE DEF c, cs, u, es, v, f
  <1>8. Len(<<>>) = 0
    OBVIOUS
  <1>9. PICK m \in 0..Len(Hist(a)) : Covers(Hist(a), <<>>, rnd[a], m, u \o Requests("grt", es))
    BY <1>6, <1>7 DEF v
  <1>10. \A k \in 1..Len(u) : u[k].stage # "grt"
    BY <1>4 DEF Id
  <1>11. Alike(Now(a, "grt"), True("grt", es)) /\ \A i \in 1..Len(Now(a, "grt")) : Now(a, "grt")[i].res \in Int
    BY <1>4, <1>5, <1>8, <1>9, <1>10, StageTrue
  <1> QED
    BY <1>1, <1>2, <1>11 DEF cs, c, es, f

(* What they choose is what an undisturbed search would.                    *)
LEMMA ScreenedTrue ==
  ASSUME RowsAre, RoundsAre, Located, Truths, NEW a \in ArmRuns, ~Asks(a), Clean(Hist(a)), OnTrack(a),
         NEW stage, stage = (IF HasGrt(a) THEN "grt" ELSE "proxy"), at[a] = stage, todo[a] = <<>>
  PROVE  Random(a) /\ Call(a) - 1 \in 0..(Rounds - 1) /\ Choice(Now(a, stage)) = Screened(a, DrawnIn(a, Call(a) - 1))
PROOF
  <1> DEFINE cs == DrawnIn(a, Call(a) - 1)
             x == True("proxy", cs)
             ok == Feasible(x)
  <1>1. CASE HasGrt(a)
    <2>1. /\ Random(a) /\ Call(a) - 1 \in 0..(Rounds - 1)
          /\ Alike(Now(a, "grt"), True("grt", Lines(ok)))
          /\ \A i \in 1..Len(Now(a, "grt")) : Now(a, "grt")[i].res \in Int
      BY <1>1, EstimatedTrue
    <2>2. Choice(Now(a, "grt")) = Choice(True("grt", Lines(ok)))
      <3> HIDE DEF ok
      <3> QED
        BY <2>1, ChoiceAlike
    <2> QED
      BY <1>1, <2>1, <2>2 DEF Screened
  <1>2. CASE ~HasGrt(a)
    <2>1. /\ Random(a) /\ Call(a) - 1 \in 0..(Rounds - 1)
          /\ Alike(Now(a, "proxy"), x)
          /\ \A i \in 1..Len(Now(a, "proxy")) : Now(a, "proxy")[i].res \in Int
      BY <1>2, PlacedTrue
    <2>2. Choice(Now(a, "proxy")) = Choice(x)
      <3> HIDE DEF x
      <3> QED
        BY <2>1, ChoiceAlike
    <2>3. Feasible(ok) = ok
      <3>1. IsSeq(x)
        BY <2>1 DEF Alike
      <3> HIDE DEF x
      <3> QED
        BY <3>1, FeasibleTwice
    <2>4. Choice(x) = Choice(ok)
      BY <2>3 DEF Choice
    <2> QED
      BY <1>2, <2>1, <2>2, <2>4 DEF Screened
  <1> QED
    BY <1>1, <1>2

(* What is planned for an arm-run depends on its kind only.                 *)
LEMMA PlanKept ==
  ASSUME NEW a, kind' = kind
  PROVE  /\ Plan(a)' = Plan(a) /\ Undisturbed(a)' = Undisturbed(a)
         /\ Asks(a)' = Asks(a)
PROOF
  <1>1. HasGrt(a)' = HasGrt(a) /\ Random(a)' = Random(a) /\ Asks(a)' = Asks(a)
    BY DEF HasGrt, Random, Asks
  <1>2. \A cs : Screened(a, cs)' = Screened(a, cs)
    BY <1>1 DEF Screened
  <1>3. \A n : RoutesIn(a, n)' = RoutesIn(a, n)
    BY <1>2 DEF RoutesIn
  <1> QED
    BY <1>1, <1>3 DEF Plan, Undisturbed, RoutesIn

(* Where the rows of the search stay, an arm-run that stays, or that is     *)
(* sent out of the loop, stays on its track.                                *)
LEMMA QuietTrack ==
  ASSUME NEW a \in ArmRuns, OnTrack(a), kind' = kind, Hist(a)' = Hist(a),
         \/ at'[a] = at[a] /\ rnd'[a] = rnd[a] /\ last'[a] = last[a] /\ todo'[a] = todo[a]
         \/ at'[a] \notin Looping \cup {"searched"}
  PROVE  OnTrack(a)'
PROOF
  <1>1. Plan(a)' = Plan(a) /\ Asks(a)' = Asks(a)
    BY PlanKept
  <1> DEFINE h == Hist(a)
             P == Plan(a)
  <1>2. SUFFICES ASSUME ~Asks(a), Clean(h) PROVE Track(P, at'[a], h, todo'[a], rnd'[a], Call(a)')
    BY <1>1 DEF OnTrack, Clean
  <1>3. Track(P, at[a], h, todo[a], rnd[a], Call(a))
    BY <1>2 DEF OnTrack
  <1> HIDE DEF h, P
  <1>4. CASE at'[a] = at[a] /\ rnd'[a] = rnd[a] /\ last'[a] = last[a] /\ todo'[a] = todo[a]
    <2>1. Call(a)' = Call(a)
      BY <1>4 DEF Call
    <2> QED
      BY <1>3, <1>4, <2>1
  <1>5. CASE at'[a] \notin Looping \cup {"searched"}
    BY <1>3, <1>5 DEF Track, Looping
  <1> QED
    BY <1>4, <1>5

(* What a plan says.                                                        *)
LEMMA PlanIs ==
  ASSUME NEW a \in ArmRuns
  PROVE  /\ Plan(a).random = Random(a)
         /\ \A i \in Plan(a).routes : i.stage = "route"
         /\ \A c \in 0..(Rounds - 1) :
              /\ Plan(a).placed[c] = Requests("proxy", DrawnIn(a, c))
              /\ Plan(a).estimated[c] = Requests("grt", Lines(Feasible(True("proxy", DrawnIn(a, c)))))
              /\ Plan(a).routed[c] = Range(Requests("route", Screened(a, DrawnIn(a, c))))
              /\ Random(a) => Plan(a).routed[c] \subseteq Plan(a).routes
         /\ Random(a) => \A i \in Plan(a).routes : \E c \in 0..(Rounds - 1) : i \in Plan(a).routed[c]
         /\ ~Random(a) => Plan(a).routes = {Id("route", DefaultKnobs, s) : s \in Range(LotterySeeds)}
PROOF
  <1>1. \A c \in 0..(Rounds - 1) : c \in Nat
    BY LoopAssumption
  <1>2. Plan(a).random = Random(a)
    BY DEF Plan
  <1>3. ASSUME NEW c \in 0..(Rounds - 1)
        PROVE  /\ Plan(a).placed[c] = Requests("proxy", DrawnIn(a, c))
               /\ Plan(a).estimated[c] = Requests("grt", Lines(Feasible(True("proxy", DrawnIn(a, c)))))
               /\ Plan(a).routed[c] = RoutesIn(a, c)
               /\ Random(a) => RoutesIn(a, c) \subseteq Plan(a).routes
    BY <1>1 DEF Plan
  <1>4. ~Random(a) => Plan(a).routes = {Id("route", DefaultKnobs, s) : s \in Range(LotterySeeds)}
    BY DEF Plan
  <1>5. Random(a) => \A i \in Plan(a).routes : \E c \in 0..(Rounds - 1) : i \in RoutesIn(a, c)
    BY DEF Plan
  <1>6. \A c : \A i \in RoutesIn(a, c) : i.stage = "route"
    <2>1. ASSUME NEW cs PROVE \A i \in Range(Requests("route", cs)) : i.stage = "route"
      BY DEF Requests, Range, Id
    <2> QED
      BY <2>1 DEF RoutesIn
  <1>7. \A i \in Plan(a).routes : i.stage = "route"
    <2>1. CASE Random(a)
      BY <1>5, <1>6, <2>1
    <2>2. CASE ~Random(a)
      BY <1>4, <2>2 DEF Id
    <2> QED
      BY <2>1, <2>2
  <1>8. \A c \in 0..(Rounds - 1) : Plan(a).routed[c] = Range(Requests("route", Screened(a, DrawnIn(a, c))))
    BY <1>3 DEF RoutesIn
  <1>9. Random(a) => \A i \in Plan(a).routes : \E c \in 0..(Rounds - 1) : i \in Plan(a).routed[c]
    BY <1>3, <1>5
  <1> QED
    BY <1>2, <1>3, <1>4, <1>7, <1>8, <1>9

(* A batch has what it is asked for.                                        *)
LEMMA BatchHas ==
  ASSUME NEW n \in Nat, NEW s, DOMAIN s = 1..n, NEW ids, DOMAIN ids = 1..n, \A k \in 1..n : s[k].id = ids[k]
  PROVE  (\A t \in Range(s) : t.id \in Range(ids)) /\ \A i \in Range(ids) : HasRow(s, i)
PROOF
  <1>1. \A k \in 1..n : s[k] \in Range(s) /\ ids[k] \in Range(ids)
    BY BatchRange
  <1>2. ASSUME NEW t \in Range(s) PROVE t.id \in Range(ids)
    <2>1. PICK k \in 1..n : t = s[k]
      BY <1>2, BatchRange
    <2> QED
      BY <1>1, <2>1
  <1>3. ASSUME NEW i \in Range(ids) PROVE HasRow(s, i)
    <2>1. PICK k \in 1..n : i = ids[k]
      BY <1>3, BatchRange
    <2> QED
      BY <1>1, <2>1 DEF HasRow
  <1> QED
    BY <1>2, <1>3

(* An arm-run that is routed what its plan routes is on its track.          *)
LEMMA RouteTrack ==
  ASSUME NEW P, NEW h, NEW n \in Nat, NEW s, DOMAIN s = 1..n, NEW ids, DOMAIN ids = 1..n, \A k \in 1..n : s[k].id = ids[k],
         NEW c, NEW r, \A x \in Range(h) : x.id.stage = "route" => x.id \in P.routes,
         P.random => HasAll(h, P.routed, c - 1),
         Range(ids) \subseteq P.routes, Range(ids) = (IF P.random THEN P.routed[c - 1] ELSE P.routes)
  PROVE  Track(P, "route", h, s, r, c)
PROOF
  <1>1. (\A t \in Range(s) : t.id \in Range(ids)) /\ \A i \in Range(ids) : HasRow(s, i)
    BY BatchHas
  <1> QED
    BY <1>1 DEF Track

(* A record of the search, or of the held-out seeds.                        *)
LEMMA RecordTrack ==
  ASSUME RowsAre, TodoIs, Located, NEW a \in ArmRuns, NewestRound(a), OnTrack(a), Record(a)
  PROVE  OnTrack(a)'
PROOF
  <1> DEFINE h == Hist(a)
             s == todo[a]
             u == todo'[a]
             p == at[a]
  <1>1. /\ Len(s) \in Nat \ {0} /\ s[1] \in Range(s) /\ DOMAIN s = 1..Len(s)
        /\ rows'[<<a, "search">>] = (IF s[1].place = "search" THEN Append(h, Kept(s[1])) ELSE h)
        /\ DOMAIN u = 1..(Len(s) - 1) /\ Len(u) = Len(s) - 1 /\ \A i \in 1..(Len(s) - 1) : u[i] = s[i + 1]
        /\ kind' = kind /\ at' = at /\ rnd' = rnd /\ last' = last
    <2>1. <<a, "search">> \in Keys
      BY DEF Keys, Places
    <2>2. IsSeq(s)
      BY DEF TodoIs
    <2>3. DOMAIN s = 1..Len(s)
      BY <2>2, SeqIs
    <2> QED
      BY <2>1, <2>3, RecordGives DEF Hist
  <1>2. BatchIs(a) /\ CallIs(a)
    BY DEF Located
  <1>3. p \in {"proxy", "grt", "route", "validating"} /\ s[1].place = (IF p = "validating" THEN "validate" ELSE "search")
    <2>1. s # <<>>
      BY DEF Record
    <2> QED
      BY <1>1, <1>2, <2>1 DEF BatchIs
  <1>4. CASE p = "validating"
    <2>1. Hist(a)' = h
      BY <1>1, <1>3, <1>4 DEF Hist
    <2>2. at'[a] \notin Looping \cup {"searched"}
      BY <1>1, <1>4 DEF Looping
    <2> QED
      BY <1>1, <2>1, <2>2, QuietTrack
  <1>5. CASE p # "validating"
    <2> DEFINE r == Kept(s[1])
               g == Append(h, r)
    <2>1. Hist(a)' = g
      BY <1>1, <1>3, <1>5 DEF Hist
    <2>2. IsSeq(h)
      BY DEF RowsAre, Keys, Places, Hist
    <2>3. Clean(g) => Clean(h)
      <3>1. Range(g) = Range(h) \cup {r}
        BY <2>2, AppendIs
      <3> QED
        BY <3>1 DEF Clean
    <2>4. Plan(a)' = Plan(a) /\ Asks(a)' = Asks(a) /\ Call(a)' = Call(a)
      BY <1>1, PlanKept DEF Call
    <2>5. SUFFICES ASSUME ~Asks(a), Clean(g) PROVE Track(Plan(a), p, g, u, rnd[a], Call(a))
      BY <1>1, <2>1, <2>4 DEF OnTrack, Clean
    <2>6. Track(Plan(a), p, h, s, rnd[a], Call(a))
      BY <2>3, <2>5 DEF OnTrack
    <2>7. r.id = s[1].id /\ r.rnd = s[1].rnd
      BY DEF Kept
    <2>8. p = "route" \/ (r.rnd = rnd[a] /\ r.id.stage = p)
      BY <1>1, <1>2, <1>3, <1>5, <2>7 DEF CallIs, NewestRound
    <2> HIDE DEF g, r, h, s, u, p
    <2>9. p \in {"proxy", "grt", "route"}
      BY <1>3, <1>5
    <2>10. Track(Plan(a), p, Append(h, r), u, rnd[a], Call(a))
      BY <1>1, <2>2, <2>6, <2>7, <2>8, <2>9, TrackMoves
    <2> QED
      BY <2>10 DEF g
  <1> QED
    BY <1>4, <1>5

(* The loop is entered, or the lottery.                                     *)
LEMMA EnterTrack ==
  ASSUME RowsAre, TodoIs, RoundsAre, Located, NEW a \in ArmRuns, OnTrack(a), Enter(a) \/ EnterLottery(a)
  PROVE  OnTrack(a)'
PROOF
  <1> DEFINE h == Hist(a)
             P == Plan(a)
  <1>1. kind' = kind /\ rows' = rows /\ at \in [ArmRuns -> Stations]
    BY DEF Enter, EnterLottery, Located
  <1>2. Plan(a)' = Plan(a) /\ Asks(a)' = Asks(a) /\ Hist(a)' = h
    BY <1>1, PlanKept DEF Hist
  <1>3. SUFFICES ASSUME ~Asks(a), Clean(h) PROVE Track(P, at'[a], h, todo'[a], rnd'[a], Call(a)')
    BY <1>2 DEF OnTrack, Clean
  <1>4. \A r \in Range(h) : r.id.stage = "route" => r.id \in P.routes
    BY <1>3 DEF OnTrack, Track
  <1> HIDE DEF h, P
  <1>5. CASE Enter(a)
    <2>1. MaxRound(a) \in Nat /\ Rounds \in Nat
      BY MaxRoundIs, LoopAssumption
    <2>2. at'[a] = "round" /\ rnd'[a] = MaxRound(a) /\ last'[a] = MaxRound(a) + Rounds
      BY <1>1, <1>5 DEF Enter, GoTo, RoundsAre
    <2>3. Call(a)' = 0
      BY <2>1, <2>2 DEF Call
    <2>4. HasAll(h, P.routed, 0)
      BY DEF HasAll
    <2> QED
      BY <1>4, <2>2, <2>3, <2>4 DEF Track
  <1>6. CASE EnterLottery(a)
    <2> DEFINE ids == [i \in DOMAIN LotterySeeds |-> Id("route", DefaultKnobs, LotterySeeds[i])]
               n == Rounds * RouteTop
    <2>1. n \in Nat /\ DOMAIN LotterySeeds = 1..n
      BY LoopAssumption DEF LotterySeeds
    <2> HIDE DEF n
    <2>2. at'[a] = "route" /\ ~Random(a) /\ Ask(a, ids, "search")
      BY <1>1, <1>6 DEF EnterLottery, GoTo, Random
    <2>3. DOMAIN ids = 1..n
      BY <2>1
    <2>4. ~P.random /\ P.routes = {Id("route", DefaultKnobs, s) : s \in Range(LotterySeeds)}
      BY <2>2, PlanIs DEF P
    <2>5. Range(ids) = P.routes
      BY <2>1, <2>4 DEF Range
    <2> HIDE DEF ids
    <2>6. DOMAIN todo'[a] = 1..n /\ \A k \in 1..n : todo'[a][k].id = ids[k]
      BY <2>1, <2>2, <2>3, AskGives
    <2>7. /\ P.random => HasAll(h, P.routed, Call(a)' - 1)
          /\ Range(ids) \subseteq P.routes
          /\ Range(ids) = (IF P.random THEN P.routed[Call(a)' - 1] ELSE P.routes)
      BY <2>4, <2>5
    <2>8. Track(P, "route", h, todo'[a], rnd'[a], Call(a)')
      BY <1>4, <2>1, <2>3, <2>6, <2>7, RouteTrack
    <2> QED
      BY <2>2, <2>8
  <1> QED
    BY <1>5, <1>6

(* The candidates of the call are drawn.                                    *)
LEMMA ProposeTrack ==
  ASSUME RowsAre, TodoIs, RoundsAre, Located, NEW a \in ArmRuns, NewestRound(a), OnTrack(a), Propose(a)
  PROVE  OnTrack(a)'
PROOF
  <1> DEFINE h == Hist(a)
             P == Plan(a)
             c == Call(a)
  <1>1. /\ kind' = kind /\ rows' = rows /\ last' = last /\ at'[a] = "proxy" /\ at[a] = "round" /\ rnd[a] < last[a]
        /\ rnd'[a] = rnd[a] + 1 /\ rnd[a] \in Nat /\ last[a] \in Nat
    BY DEF Propose, Located, RoundsAre, GoTo
  <1>2. Plan(a)' = Plan(a) /\ Asks(a)' = Asks(a) /\ Hist(a)' = h
    BY <1>1, PlanKept DEF Hist
  <1>3. Call(a)' = c + 1 /\ c \in Int
    <2>1. Call(a)' = (rnd[a] + 1) - (last[a] - Rounds)
      BY <1>1 DEF Call
    <2>2. c = rnd[a] - (last[a] - Rounds)
      BY DEF Call
    <2>3. Rounds \in Nat
      BY LoopAssumption
    <2> HIDE DEF c
    <2> QED
      BY <1>1, <2>1, <2>2, <2>3
  <1>4. SUFFICES ASSUME ~Asks(a), Clean(h) PROVE Track(P, "proxy", h, todo'[a], rnd[a] + 1, c + 1)
    BY <1>1, <1>2, <1>3 DEF OnTrack, Clean
  <1>5. Track(P, "round", h, todo[a], rnd[a], c)
    BY <1>1, <1>4 DEF OnTrack
  <1>6. kind[a] # "default_seeds" /\ Random(a)
    BY <1>1, <1>4, KindIs DEF Located, CallIs
  <1>7. PICK cs \in Proposals(a) : Ask(a, Requests("proxy", cs), "search")
    BY DEF Propose
  <1>8. DOMAIN cs = 1..Batch /\ c \in 0..(Rounds - 1) /\ cs = DrawnIn(a, c) /\ Batch \in Nat
    BY <1>1, <1>6, ProposalsAsked, LoopAssumption
  <1> DEFINE ids == Requests("proxy", cs)
             s == todo'[a]
  <1>9. Len(ids) = Batch /\ DOMAIN ids = 1..Batch
    BY <1>8, RequestsAre
  <1>10. P.placed[c] = ids /\ P.random
    <2> HIDE DEF c
    <2> QED
      BY <1>6, <1>8, PlanIs
  <1>11. IsSeq(h) /\ \A r \in Range(h) : r.rnd \in Nat /\ r.rnd <= rnd[a]
    BY <1>1, <1>6 DEF RowsAre, NewestRound, Keys, Places, Hist, Looping
  <1>12. Len(h) \in Nat /\ \A i \in 1..Len(h) : h[i].rnd \in Nat /\ h[i].rnd <= rnd[a]
    <2> HIDE DEF h
    <2> QED
      BY <1>11, SeqIs
  <1> HIDE DEF ids
  <1>13. Len(s) = Batch /\ \A k \in 1..Batch : s[k].id = ids[k]
    BY <1>7, <1>8, <1>9, AskGives DEF ids
  <1> HIDE DEF h, s, c, P
  <1>14. Covers(h, s, rnd[a] + 1, Len(h), ids)
    <2> DEFINE m == Len(h)
               n == rnd[a] + 1
    <2>1. \A i \in 1..m : h[i].rnd < n
      BY <1>1, <1>12
    <2>2. m + Len(s) = m + Len(ids)
      BY <1>9, <1>13
    <2>3. \A k \in 1..Len(s) : s[k].id = ids[m - m + k]
      <3>1. \A k \in 1..Batch : m - m + k = k
        BY <1>8, <1>12
      <3> QED
        BY <1>13, <3>1
    <2>4. \A i \in (m + 1)..m : FALSE
      BY <1>12
    <2> QED
      BY <2>1, <2>2, <2>3, <2>4 DEF Covers
  <1>15. Len(h) \in 0..Len(h) /\ (c + 1) - 1 = c
    BY <1>3, <1>12
  <1>16. HasAll(h, P.routed, c) /\ \A r \in Range(h) : r.id.stage = "route" => r.id \in P.routes
    BY <1>5, <1>10 DEF Track
  <1>17. /\ \E m \in 0..Len(h) : Covers(h, s, rnd[a] + 1, m, P.placed[(c + 1) - 1])
         /\ HasAll(h, P.routed, (c + 1) - 1)
    BY <1>10, <1>14, <1>15, <1>16
  <1>18. Track(P, "proxy", h, s, rnd[a] + 1, c + 1)
    BY <1>16, <1>17 DEF Track
  <1> QED
    BY <1>18 DEF P, h, s, c

(* The rows of a stage, and the batch of the next one behind them.          *)
LEMMA CoversJoined ==
  ASSUME NEW h, IsSeq(h), NEW m \in 0..Len(h), NEW u, NEW v, IsSeq(u), IsSeq(v), NEW n, NEW t, Len(t) = 0,
         Covers(h, t, n, m, u), NEW s, Len(s) = Len(v), \A k \in 1..Len(v) : s[k].id = v[k]
  PROVE  Covers(h, s, n, m, u \o v)
PROOF
  <1> DEFINE p == Len(h)
             b == Len(u)
             q == Len(v)
             g == u \o v
  <1>1. p \in Nat /\ b \in Nat /\ q \in Nat /\ m \in 0..p
    BY SeqIs
  <1>2. Joined(g, u, v)
    BY JoinIs
  <1> HIDE DEF g
  <1>3. Len(g) = b + q /\ (\A i \in 1..b : g[i] = u[i]) /\ \A i \in 1..q : g[b + i] = v[i]
    BY <1>2 DEF Joined
  <1>4. /\ p + 0 = m + b /\ \A i \in 1..m : h[i].rnd < n
        /\ \A i \in (m + 1)..p : h[i].id = u[i - m] /\ h[i].rnd = n
    BY DEF Covers
  <1>5. Len(s) = q /\ \A k \in 1..q : s[k].id = v[k]
    OBVIOUS
  <1> HIDE DEF p, b, q
  <1>6. ASSUME NEW i \in (m + 1)..p PROVE h[i].id = g[i - m] /\ h[i].rnd = n
    <2>1. i - m \in 1..b
      BY <1>1, <1>4
    <2> QED
      BY <1>3, <1>4, <2>1
  <1>7. ASSUME NEW k \in 1..q PROVE s[k].id = g[p - m + k]
    <2>1. p - m + k = b + k
      BY <1>1, <1>4
    <2> QED
      BY <1>3, <1>5, <2>1
  <1>8. p + q = m + (b + q)
    BY <1>1, <1>4
  <1>9. Covers(h, s, n, m, g)
    BY <1>3, <1>4, <1>5, <1>6, <1>7, <1>8 DEF Covers, p
  <1> QED
    BY <1>9 DEF g

(* The estimates of the feasible ones.                                      *)
LEMMA ScreenTrack ==
  ASSUME RowsAre, TodoIs, RoundsAre, Located, Truths, NEW a \in ArmRuns, OnTrack(a), ScreenByGrt(a)
  PROVE  OnTrack(a)'
PROOF
  <1> DEFINE h == Hist(a)
             P == Plan(a)
             c == Call(a)
             cs == DrawnIn(a, c - 1)
             es == Lines(Feasible(True("proxy", cs)))
             u == Requests("proxy", cs)
             v == Requests("grt", es)
             s == todo'[a]
  <1>1. /\ kind' = kind /\ rows' = rows /\ last' = last /\ rnd' = rnd /\ at'[a] = "grt" /\ at[a] = "proxy" /\ todo[a] = <<>>
        /\ Ask(a, Requests("grt", Lines(Feasible(Now(a, "proxy")))), "search")
    BY DEF ScreenByGrt, Located, GoTo, Batched
  <1>2. Plan(a)' = Plan(a) /\ Asks(a)' = Asks(a) /\ Hist(a)' = h /\ Call(a)' = c
    BY <1>1, PlanKept DEF Hist, Call
  <1>3. SUFFICES ASSUME ~Asks(a), Clean(h) PROVE Track(P, "grt", h, s, rnd[a], c)
    BY <1>1, <1>2 DEF OnTrack, Clean
  <1>4. Track(P, "proxy", h, <<>>, rnd[a], c)
    BY <1>1, <1>3 DEF OnTrack
  <1>5. Random(a) /\ c - 1 \in 0..(Rounds - 1) /\ Alike(Now(a, "proxy"), True("proxy", cs))
    BY <1>1, <1>3, PlacedTrue
  <1>6. Lines(Feasible(Now(a, "proxy"))) = es
    <2> HIDE DEF cs
    <2> QED
      BY <1>5, FeasibleAlike, LinesAlike
  <1>7. P.placed[c - 1] = u /\ P.estimated[c - 1] = v /\ P.random
    <2> HIDE DEF c
    <2> QED
      BY <1>5, PlanIs
  <1>8. IsSeq(h) /\ Batch \in Nat
    BY LoopAssumption DEF RowsAre, Keys, Places, Hist
  <1>9. DOMAIN cs = 1..Batch
    <2> HIDE DEF c
    <2> QED
      BY <1>5, DrawnIs
  <1>10. IsSeq(u)
    <2> HIDE DEF cs
    <2> QED
      BY <1>8, <1>9, RequestsAre
  <1>11. PICK n \in Nat : DOMAIN es = 1..n
    BY <1>6, StageAsked
  <1> HIDE DEF es
  <1>12. IsSeq(v) /\ Len(v) = n /\ DOMAIN v = 1..n
    BY <1>11, RequestsAre
  <1>13. Ask(a, v, "search")
    BY <1>1, <1>6
  <1> HIDE DEF v
  <1>14. Len(s) = Len(v) /\ \A k \in 1..Len(v) : s[k].id = v[k]
    BY <1>12, <1>13, AskGives
  <1> HIDE DEF u, h, s, P, c, cs
  <1>15. PICK m \in 0..Len(h) : Covers(h, <<>>, rnd[a], m, u)
    BY <1>4, <1>7 DEF Track
  <1>16. Len(<<>>) = 0
    OBVIOUS
  <1>17. Covers(h, s, rnd[a], m, u \o v)
    BY <1>8, <1>10, <1>12, <1>14, <1>15, <1>16, CoversJoined
  <1>18. \E k \in 0..Len(h) : Covers(h, s, rnd[a], k, P.placed[c - 1] \o P.estimated[c - 1])
    BY <1>7, <1>17
  <1>19. HasAll(h, P.routed, c - 1) /\ \A r \in Range(h) : r.id.stage = "route" => r.id \in P.routes
    BY <1>4, <1>7 DEF Track
  <1> QED
    BY <1>18, <1>19 DEF Track

(* The best of them are routed.                                             *)
LEMMA RoutesTrack ==
  ASSUME RowsAre, TodoIs, RoundsAre, Located, Truths, NEW a \in ArmRuns, OnTrack(a), RouteByHpwl(a) \/ RouteByGrt(a)
  PROVE  OnTrack(a)'
PROOF
  <1> DEFINE h == Hist(a)
             P == Plan(a)
             c == Call(a)
             stage == IF HasGrt(a) THEN "grt" ELSE "proxy"
             ids == Requests("route", Choice(Now(a, stage)))
  <1>1. Route(a, stage)
    BY DEF RouteByHpwl, RouteByGrt
  <1> HIDE DEF ids, stage
  <1>2. /\ kind' = kind /\ rows' = rows /\ last' = last /\ rnd' = rnd /\ at'[a] = "route" /\ at[a] = stage /\ todo[a] = <<>>
        /\ Ask(a, ids, "search")
    BY <1>1 DEF Route, Located, GoTo, Batched, ids
  <1>3. Plan(a)' = Plan(a) /\ Asks(a)' = Asks(a) /\ Hist(a)' = h /\ Call(a)' = c
    BY <1>2, PlanKept DEF Hist, Call
  <1>4. SUFFICES ASSUME ~Asks(a), Clean(h) PROVE Track(P, "route", h, todo'[a], rnd[a], c)
    BY <1>2, <1>3 DEF OnTrack, Clean
  <1>5. Track(P, stage, h, <<>>, rnd[a], c)
    BY <1>2, <1>4 DEF OnTrack
  <1>6. Random(a) /\ c - 1 \in 0..(Rounds - 1) /\ Choice(Now(a, stage)) = Screened(a, DrawnIn(a, c - 1))
    BY <1>2, <1>4, ScreenedTrue DEF stage
  <1>7. P.random /\ Range(ids) = P.routed[c - 1] /\ P.routed[c - 1] \subseteq P.routes
    <2>1. Range(ids) = Range(Requests("route", Screened(a, DrawnIn(a, c - 1))))
      BY <1>6 DEF ids
    <2> HIDE DEF c, ids
    <2> QED
      BY <1>6, <2>1, PlanIs
  <1>8. PICK n \in Nat : DOMAIN Choice(Now(a, stage)) = 1..n
    BY StageAsked
  <1>9. DOMAIN ids = 1..n
    <2> DEFINE cs == Choice(Now(a, stage))
    <2>1. DOMAIN cs = 1..n
      BY <1>8
    <2> HIDE DEF cs
    <2>2. DOMAIN Requests("route", cs) = 1..n
      BY <2>1, RequestsAre
    <2> QED
      BY <2>2 DEF ids, cs
  <1>10. DOMAIN todo'[a] = 1..n /\ \A k \in 1..n : todo'[a][k].id = ids[k]
    BY <1>2, <1>9, AskGives
  <1>11. /\ P.random => HasAll(h, P.routed, c - 1)
         /\ \A r \in Range(h) : r.id.stage = "route" => r.id \in P.routes
    <2>1. stage \in {"proxy", "grt"}
      BY DEF stage
    <2> HIDE DEF h, P, c
    <2> QED
      BY <1>5, <2>1 DEF Track
  <1>12. Range(ids) \subseteq P.routes /\ Range(ids) = (IF P.random THEN P.routed[c - 1] ELSE P.routes)
    BY <1>7
  <1> HIDE DEF h, P, c
  <1> QED
    BY <1>9, <1>10, <1>11, <1>12, RouteTrack

(* The round is over, or the search.                                        *)
LEMMA EndTrack ==
  ASSUME RowsAre, RoundsAre, Located, NEW a \in ArmRuns, OnTrack(a), EndRound(a)
  PROVE  OnTrack(a)'
PROOF
  <1> DEFINE h == Hist(a)
             P == Plan(a)
             c == Call(a)
             p == IF rnd[a] = last[a] THEN "searched" ELSE "round"
  <1>1. /\ kind' = kind /\ rows' = rows /\ last' = last /\ rnd' = rnd /\ at'[a] = p /\ at[a] = "route"
        /\ todo[a] = <<>> /\ todo' = todo
    BY DEF EndRound, Located, GoTo, Batched, searching
  <1>2. Plan(a)' = Plan(a) /\ Asks(a)' = Asks(a) /\ Hist(a)' = h /\ Call(a)' = c
    BY <1>1, PlanKept DEF Hist, Call
  <1>3. SUFFICES ASSUME ~Asks(a), Clean(h) PROVE Track(P, p, h, <<>>, rnd[a], c)
    BY <1>1, <1>2 DEF OnTrack, Clean
  <1>4. Track(P, "route", h, <<>>, rnd[a], c)
    BY <1>1, <1>3 DEF OnTrack
  <1>5. \A i : ~HasRow(<<>>, i)
    BY DEF HasRow, Range
  <1>6. P.random = Random(a) /\ (Random(a) => \A i \in P.routes : \E n \in 0..(Rounds - 1) : i \in P.routed[n])
    BY PlanIs
  <1>7. Random(a) => kind[a] # "default_seeds"
    BY DEF Random
  <1>8. kind[a] # "default_seeds" => c - 1 \in 0..(Rounds - 1) /\ (rnd[a] = last[a] => c = Rounds)
    BY <1>1, CallCounts
  <1> HIDE DEF h, P, c
  <1>9. \A r \in Range(h) : r.id.stage = "route" => r.id \in P.routes
    BY <1>4 DEF Track
  <1>10. \A i \in (IF P.random THEN P.routed[c - 1] ELSE P.routes) : HasRow(h, i)
    BY <1>4, <1>5 DEF Track
  <1>11. P.random => HasAll(h, P.routed, c)
    <2>1. SUFFICES ASSUME P.random PROVE HasAll(h, P.routed, c)
      OBVIOUS
    <2>2. HasAll(h, P.routed, c - 1) /\ c - 1 \in 0..(Rounds - 1) /\ Rounds \in Nat
      BY <1>4, <1>6, <1>7, <1>8, <2>1, LoopAssumption DEF Track
    <2>3. ASSUME NEW n \in 0..c - 1, NEW i \in P.routed[n] PROVE HasRow(h, i)
      <3>1. c \in Int
        BY <2>2, CallCounts, <1>6, <1>7, <2>1 DEF c, Call, RoundsAre
      <3>2. n = c - 1 \/ n \in 0..(c - 1) - 1
        BY <2>2, <3>1
      <3> QED
        BY <1>10, <2>1, <2>2, <2>3, <3>2 DEF HasAll
    <2> QED
      BY <2>3 DEF HasAll
  <1>12. p = "searched" => \A i \in P.routes : HasRow(h, i)
    <2>1. SUFFICES ASSUME rnd[a] = last[a], NEW i \in P.routes PROVE HasRow(h, i)
      OBVIOUS
    <2>2. CASE P.random
      <3>1. PICK n \in 0..(Rounds - 1) : i \in P.routed[n]
        BY <1>6, <2>2
      <3>2. c = Rounds
        BY <1>6, <1>7, <1>8, <2>1, <2>2
      <3> QED
        BY <1>11, <2>2, <3>1, <3>2 DEF HasAll
    <2>3. CASE ~P.random
      BY <1>10, <2>3
    <2> QED
      BY <2>2, <2>3
  <1>13. p \in {"searched", "round"}
    OBVIOUS
  <1> HIDE DEF p
  <1> QED
    BY <1>9, <1>11, <1>12, <1>13 DEF Track

(* The steps of an arm-run of the search.                                   *)
LEMMA SearchTrack ==
  ASSUME RowsAre, TodoIs, RoundsAre, Located, Truths, NEW a \in ArmRuns, NewestRound(a), OnTrack(a), Search(a)
  PROVE  OnTrack(a)'
PROOF
  <1>1. CASE ProposeRaises(a)
    <2>1. Asks(a)' = Asks(a) /\ Asks(a)
      BY <1>1 DEF ProposeRaises, Asks
    <2> QED
      BY <2>1 DEF OnTrack
  <1> QED
    BY <1>1, RecordTrack, EnterTrack, ProposeTrack, ScreenTrack, RoutesTrack, EndTrack DEF Search

(* What a search on its track has found.                                    *)
LEMMA FoundTrue ==
  ASSUME RowsAre, Truths, NEW a \in ArmRuns, ~Asks(a), Clean(Hist(a)), OnTrack(a), at[a] = "searched"
  PROVE  BestRouted(a) = Undisturbed(a)
PROOF
  <1> DEFINE h == Hist(a)
             I == Plan(a).routes
             R == RoutedScores(h)
             X == {Outcome(i) : i \in I} \ {Bad}
  <1>1. IsSeq(h) /\ \A r \in Range(h) : r.res = Outcome(r.id) /\ r.res # Infra
    BY DEF RowsAre, Truths, Truthful, Clean, Hist, Keys, Places
  <1>2. (\A r \in Range(h) : r.id.stage = "route" => r.id \in I) /\ \A i \in I : \E r \in Range(h) : r.id = i
    BY DEF OnTrack, Track, HasRow
  <1>3. \A i \in I : i.stage = "route"
    BY PlanIs
  <1>4. Undisturbed(a) = BestOf(I)
    BY DEF Undisturbed, Plan, RoutesIn
  <1>5. BestRouted(a) = (IF R = {} THEN Bad ELSE Min(R))
    BY DEF BestRouted, Hist
  <1>6. BestOf(I) = (IF X = {} THEN Bad ELSE Min(X))
    BY DEF BestOf
  <1> HIDE DEF h, I
  <1>7. Range(OfStage(h, "route")) = {r \in Range(h) : r.id.stage = "route"}
    BY <1>1, OfStageIs
  <1>8. R = {r.res : r \in {x \in Range(h) : x.id.stage = "route" /\ Succeeds(x.res)}}
    BY <1>7 DEF RoutedScores
  <1>9. ASSUME NEW y \in R PROVE y \in X
    <2>1. PICK r \in Range(h) : r.id.stage = "route" /\ Succeeds(r.res) /\ y = r.res
      BY <1>8, <1>9
    <2>2. r.id \in I /\ y = Outcome(r.id) /\ y # Bad
      BY <1>1, <1>2, <2>1 DEF Succeeds
    <2> QED
      BY <2>2
  <1>10. ASSUME NEW y \in X PROVE y \in R
    <2>1. PICK i \in I : y = Outcome(i) /\ y # Bad
      BY <1>10
    <2>2. PICK r \in Range(h) : r.id = i
      BY <1>2
    <2>3. r.id.stage = "route" /\ r.res = y /\ Succeeds(r.res)
      BY <1>1, <1>3, <2>1, <2>2 DEF Succeeds
    <2> QED
      BY <1>8, <2>3
  <1> HIDE DEF R, X
  <1>11. R = X
    BY <1>9, <1>10
  <1> QED
    BY <1>4, <1>5, <1>6, <1>11

(* As long as rows are only added, reports stay what they are.              *)
LEMMA HealingGrows ==
  ASSUME Healing, kind' = kind, \A k \in Keys : Range(rows[k]) \subseteq Range(rows'[k]),
         report' = report, lost' = lost, DOMAIN entry' = ArmRuns, \A a \in ArmRuns : OnTrack(a)' /\ EntryIs(a)'
  PROVE  Healing'
PROOF
  <1>1. ArmRuns' = ArmRuns
    BY DEF ArmRuns
  <1>2. ASSUME NEW a \in ArmRuns PROVE ReportIs(a)'
    <2>1. Undisturbed(a)' = Undisturbed(a) /\ Asks(a)' = Asks(a)
      BY PlanKept
    <2>2. MetInfra(a) => MetInfra(a)'
      BY DEF MetInfra, Keys, Places
    <2>3. ReportIs(a) /\ Missing' = Missing
      BY DEF Healing, Missing
    <2> QED
      BY <2>1, <2>2, <2>3 DEF ReportIs
  <1> QED
    BY <1>1, <1>2 DEF Healing

LEMMA EntryKept ==
  ASSUME NEW a \in ArmRuns, EntryIs(a), kind' = kind, Range(Hist(a)) \subseteq Range(Hist(a)'), jobs' = jobs, entry' = entry,
         xpc' = xpc
  PROVE  EntryIs(a)'
PROOF
  <1>1. Undisturbed(a)' = Undisturbed(a) /\ Asks(a)' = Asks(a)
    BY PlanKept
  <1>2. Clean(Hist(a))' => Clean(Hist(a))
    BY DEF Clean
  <1> QED
    BY <1>1, <1>2 DEF EntryIs

(* The end of a start, and its beginning, send every arm-run out of the     *)
(* loop; what the start found is forgotten.                                 *)
LEMMA HomeTrack ==
  ASSUME Healing, kind' = kind, rows' = rows, at' \in [ArmRuns -> {"idle", "queued"}]
  PROVE  \A a \in ArmRuns : OnTrack(a)'
PROOF
  <1>1. SUFFICES ASSUME NEW a \in ArmRuns PROVE OnTrack(a)'
    OBVIOUS
  <1>2. at'[a] \notin Looping \cup {"searched"}
    <2>1. at'[a] \in {"idle", "queued"}
      OBVIOUS
    <2> QED
      BY <2>1 DEF Looping
  <1>3. Hist(a)' = Hist(a)
    BY DEF Hist
  <1> QED
    BY <1>2, <1>3, QuietTrack DEF Healing

LEMMA StopHeals ==
  ASSUME Healing, Stop, kind' = kind, rows' = rows
  PROVE  /\ \A a \in ArmRuns : OnTrack(a)' /\ EntryIs(a)'
         /\ DOMAIN entry' = ArmRuns
PROOF
  <1>1. xpc' = "off" /\ entry' = [a \in ArmRuns |-> Missing] /\ at' = [a \in ArmRuns |-> "idle"]
    BY DEF Stop
  <1>2. at' \in [ArmRuns -> {"idle", "queued"}]
    BY <1>1
  <1>3. \A a \in ArmRuns : OnTrack(a)'
    BY <1>2, HomeTrack
  <1>4. ASSUME NEW a \in ArmRuns PROVE EntryIs(a)'
    BY <1>1 DEF EntryIs, Missing
  <1> QED
    BY <1>1, <1>3, <1>4

LEMMA LaunchHeals ==
  ASSUME Healing, NEW as, Launch(as), kind' = kind, entry' = entry,
         \A a \in ArmRuns : Range(Hist(a)') \subseteq Range(Hist(a)) /\ (Hist(a)' = Hist(a) \/ Range(Hist(a)') = {})
  PROVE  \A a \in ArmRuns : OnTrack(a)' /\ EntryIs(a)'
PROOF
  <1>1. SUFFICES ASSUME NEW a \in ArmRuns PROVE OnTrack(a)' /\ EntryIs(a)'
    OBVIOUS
  <1>2. at' = [b \in ArmRuns |-> IF b \in as THEN "queued" ELSE "idle"] /\ xpc' = "search"
    BY DEF Launch
  <1>3. at'[a] \in {"idle", "queued"}
    BY <1>2
  <1>4. at'[a] \notin Looping \cup {"searched"}
    BY <1>3 DEF Looping
  <1>5. CASE Hist(a)' = Hist(a)
    <2>1. OnTrack(a)'
      BY <1>4, <1>5, QuietTrack DEF Healing
    <2> QED
      BY <1>2, <2>1 DEF Healing, EntryIs
  <1>6. CASE Range(Hist(a)') = {}
    <2>1. OnTrack(a)'
      BY <1>4, <1>6 DEF OnTrack, Track, Looping
    <2> QED
      BY <1>2, <2>1 DEF Healing, EntryIs
  <1> QED
    BY <1>1, <1>5, <1>6

(* Every step of the experiment.                                            *)
LEMMA HealingStep ==
  ASSUME IInv1, Located, Truths, Rounded, Healing, [NextV1]_vars1
  PROVE  Healing'
PROOF
  <1>1. /\ RowsAre /\ TodoIs /\ RoundsAre /\ jobs \subseteq ArmRuns
        /\ \A a \in ArmRuns : NewestRound(a) /\ OnTrack(a) /\ EntryIs(a) /\ ReportIs(a) /\ StationIs(a) /\ BatchIs(a)
        /\ DOMAIN entry = ArmRuns /\ at \in [ArmRuns -> Stations]
    BY DEF IInv1, Rounded, Healing, Located
  <1>2. ASSUME RunExperiment PROVE Healing'
    <2>1. kind' = kind /\ rows' = rows /\ entry' = entry /\ report' = report /\ lost' = lost /\ Launch(ArmRuns)
      BY <1>2 DEF RunExperiment
    <2>2. \A a \in ArmRuns : Hist(a)' = Hist(a)
      BY <2>1 DEF Hist
    <2>3. \A a \in ArmRuns : OnTrack(a)' /\ EntryIs(a)'
      BY <2>1, <2>2, LaunchHeals
    <2> QED
      BY <1>1, <2>1, <2>3, HealingGrows
  <1>3. ASSUME NEW a \in ArmRuns, Apart(a), OnTrack(a)', jobs' = jobs, entry' = entry, report' = report, lost' = lost,
               xpc' = xpc, \A k \in Keys : Range(rows[k]) \subseteq Range(rows'[k])
        PROVE  Healing'
    <2>1. \A b \in ArmRuns : <<b, "search">> \in Keys /\ <<b, "search">>[1] = b
      BY DEF Keys, Places
    <2>2. ASSUME NEW b \in ArmRuns, b # a PROVE OnTrack(b)'
      <3>1. Hist(b)' = Hist(b)
        BY <1>3, <2>1, <2>2 DEF Apart, Hist
      <3>2. at'[b] = at[b] /\ rnd'[b] = rnd[b] /\ last'[b] = last[b] /\ todo'[b] = todo[b] /\ kind' = kind
        BY <1>3, <2>2 DEF Apart
      <3> QED
        BY <1>1, <3>1, <3>2, QuietTrack
    <2>3. ASSUME NEW b \in ArmRuns PROVE EntryIs(b)'
      <3>1. Range(Hist(b)) \subseteq Range(Hist(b)')
        BY <1>3, <2>1 DEF Hist
      <3> QED
        BY <1>1, <1>3, <3>1, EntryKept DEF Apart
    <2> QED
      BY <1>1, <1>3, <2>2, <2>3, HealingGrows DEF Apart
  <1>4. ASSUME ArmStep PROVE Healing'
    <2>1. PICK a \in jobs : Search(a)
      BY <1>4 DEF ArmStep
    <2>2. xpc = "search" /\ UNCHANGED <<xpc, jobs, entry, report, lost>>
      BY <1>4 DEF ArmStep, driving
    <2>3. Apart(a) /\ a \in ArmRuns
      BY <1>1, <2>1, <2>2, SearchLocated
    <2>4. OnTrack(a)'
      BY <1>1, <2>1, <2>3, SearchTrack
    <2>5. \A k \in Keys : Range(rows[k]) \subseteq Range(rows'[k])
      BY <1>1, <2>1, <2>3, SearchIs
    <2> QED
      BY <1>3, <2>2, <2>3, <2>4, <2>5
  <1>5. ASSUME NEW a \in jobs, at'[a] \notin Looping \cup {"searched"}, UNCHANGED <<kind, rows, searching>>,
               \A b \in ArmRuns \ {a} : at'[b] = at[b] /\ todo'[b] = todo[b]
        PROVE  Apart(a) /\ OnTrack(a)' /\ \A b \in ArmRuns : OnTrack(b)'
    <2>1. Apart(a) /\ \A b \in ArmRuns : Hist(b)' = Hist(b)
      BY <1>5 DEF Apart, searching, Hist
    <2>2. OnTrack(a)'
      BY <1>1, <1>5, <2>1, QuietTrack
    <2>3. ASSUME NEW b \in ArmRuns, b # a PROVE OnTrack(b)'
      <3>1. at'[b] = at[b] /\ rnd'[b] = rnd[b] /\ last'[b] = last[b] /\ todo'[b] = todo[b] /\ kind' = kind
        BY <1>5, <2>3 DEF searching
      <3> QED
        BY <1>1, <2>1, <3>1, QuietTrack
    <2> QED
      BY <2>1, <2>2, <2>3
  <1>6. ASSUME ArmOutOfTime PROVE Healing'
    <2>1. PICK a \in jobs : GoTo(a, "late")
      BY <1>6 DEF ArmOutOfTime
    <2>2. UNCHANGED <<kind, rows, searching, todo, xpc, jobs, entry, report, lost>>
      BY <1>6 DEF ArmOutOfTime, driving
    <2>3. at'[a] = "late" /\ \A b \in ArmRuns \ {a} : at'[b] = at[b]
      BY <1>1, <2>1 DEF GoTo
    <2>4. at'[a] \notin Looping \cup {"searched"}
      BY <2>3 DEF Looping
    <2>5. Apart(a) /\ OnTrack(a)'
      BY <1>5, <2>2, <2>3, <2>4
    <2> QED
      BY <1>1, <1>3, <2>2, <2>5
  <1>7. ASSUME MapEnds PROVE Healing'
    <2>1. /\ \A a \in jobs : at[a] \in {"searched", "late"}
          /\ entry' = [a \in ArmRuns |-> IF a \in jobs THEN Found(a) ELSE Missing]
          /\ UNCHANGED <<kind, rows, at, searching, todo, jobs, report, lost>>
      BY <1>7 DEF MapEnds
    <2>2. ASSUME NEW a \in ArmRuns PROVE OnTrack(a)'
      <3>1. Hist(a)' = Hist(a) /\ at'[a] = at[a] /\ rnd'[a] = rnd[a] /\ last'[a] = last[a] /\ todo'[a] = todo[a]
        BY <2>1 DEF Hist, searching
      <3> QED
        BY <1>1, <2>1, <3>1, QuietTrack
    <2>3. ASSUME NEW a \in ArmRuns PROVE EntryIs(a)'
      <3>1. CASE a \in jobs
        <4>1. entry'[a] = Found(a)
          BY <2>1, <3>1
        <4>2. Undisturbed(a)' = Undisturbed(a) /\ Asks(a)' = Asks(a) /\ Clean(Hist(a))' = Clean(Hist(a))
          BY <2>1, PlanKept DEF Hist, Clean
        <4>3. ~Asks(a) /\ at[a] = "searched" /\ Clean(Hist(a)) => BestRouted(a) = Undisturbed(a)
          BY <1>1, FoundTrue
        <4> QED
          BY <2>1, <3>1, <4>1, <4>2, <4>3 DEF EntryIs, Found
      <3>2. CASE a \notin jobs
        <4>1. entry'[a] = Missing /\ a \notin jobs'
          BY <2>1, <3>2
        <4> QED
          BY <4>1 DEF EntryIs, Missing
      <3> QED
        BY <3>1, <3>2
    <2> QED
      BY <2>1, <2>2, <2>3, HealingGrows
  <1>8. ASSUME MapRaises \/ Kill PROVE Healing'
    <2>1. Stop /\ UNCHANGED <<kind, rows, report, lost>>
      BY <1>8 DEF MapRaises, Kill
    <2>2. (\A a \in ArmRuns : OnTrack(a)' /\ EntryIs(a)') /\ DOMAIN entry' = ArmRuns
      BY <2>1, StopHeals
    <2> QED
      BY <2>1, <2>2, HealingGrows
  <1>9. ASSUME Validate PROVE Healing'
    <2>1. PICK a \in jobs, p \in {"validated", "validating"} :
            GoTo(a, p) /\ (UNCHANGED todo \/ Ask(a, HeldOut(a), "validate"))
      BY <1>9 DEF Validate, First
    <2>2. UNCHANGED <<kind, rows, searching, xpc, jobs, entry, report, lost>>
      BY <1>9 DEF Validate, driving
    <2>3. at'[a] = p /\ \A b \in ArmRuns \ {a} : at'[b] = at[b]
      BY <1>1, <2>1 DEF GoTo
    <2>4. at'[a] \notin Looping \cup {"searched"}
      BY <2>3 DEF Looping
    <2>5. \A b \in ArmRuns \ {a} : todo'[b] = todo[b]
      <3>1. Len(HeldOutSeeds) \in Nat /\ DOMAIN HeldOut(a) = 1..Len(HeldOutSeeds)
        BY LoopAssumption DEF HeldOut
      <3> QED
        BY <1>1, <2>1, <3>1, AskGives
    <2>6. Apart(a) /\ OnTrack(a)'
      BY <1>5, <2>2, <2>3, <2>4, <2>5
    <2> QED
      BY <1>1, <1>3, <2>2, <2>6
  <1>10. ASSUME RecordValidation PROVE Healing'
    <2>1. PICK a \in jobs : Record(a)
      BY <1>10 DEF RecordValidation
    <2>2. UNCHANGED <<xpc, jobs, entry, report, lost>>
      BY <1>10 DEF RecordValidation, driving
    <2>3. Apart(a) /\ a \in ArmRuns
      BY <1>1, <2>1, <2>2, RecordLocated
    <2>4. OnTrack(a)'
      BY <1>1, <2>1, <2>3, RecordTrack
    <2>5. \A k \in Keys : Range(rows[k]) \subseteq Range(rows'[k])
      BY <1>1, <2>1, <2>3, RecordIs
    <2> QED
      BY <1>3, <2>2, <2>3, <2>4, <2>5
  <1>11. ASSUME EndValidation PROVE Healing'
    <2>1. PICK a \in jobs : GoTo(a, "validated") /\ entry' = [entry EXCEPT ![a].validated = Validated1(a)]
      BY <1>11 DEF EndValidation
    <2>2. UNCHANGED <<kind, rows, searching, todo, xpc, jobs, report, lost>>
      BY <1>11 DEF EndValidation
    <2>3. at'[a] = "validated" /\ \A b \in ArmRuns \ {a} : at'[b] = at[b]
      BY <1>1, <2>1 DEF GoTo
    <2>4. at'[a] \notin Looping \cup {"searched"}
      BY <2>3 DEF Looping
    <2>5. \A b \in ArmRuns : OnTrack(b)'
      BY <1>5, <2>2, <2>3, <2>4
    <2>6. ASSUME NEW b \in ArmRuns PROVE EntryIs(b)'
      <3>1. Undisturbed(b)' = Undisturbed(b) /\ Asks(b)' = Asks(b) /\ Clean(Hist(b))' = Clean(Hist(b))
        BY <2>2, PlanKept DEF Hist, Clean
      <3>2. entry[b] = [best |-> entry[b].best, early |-> entry[b].early, validated |-> entry[b].validated]
        BY <1>1 DEF EntryIs
      <3>3. CASE b = a
        <4>1. entry'[a] = [best |-> entry[a].best, early |-> entry[a].early, validated |-> Validated1(a)]
          BY <1>1, <2>1, <3>2, <3>3
        <4>2. entry'[a].best = entry[a].best /\ entry'[a].early = entry[a].early /\ entry'[a].validated = Validated1(a)
          BY <4>1
        <4> QED
          BY <1>1, <2>2, <3>1, <3>3, <4>1, <4>2 DEF EntryIs
      <3>4. CASE b # a
        <4>1. entry'[b] = entry[b]
          BY <1>1, <2>1, <3>4
        <4> QED
          BY <1>1, <2>2, <3>1, <4>1 DEF EntryIs
      <3> QED
        BY <3>3, <3>4
    <2>7. DOMAIN entry' = ArmRuns
      BY <1>1, <2>1
    <2> QED
      BY <2>2, <2>5, <2>6, <2>7, HealingGrows
  <1>12. ASSUME Write PROVE Healing'
    <2>1. Stop /\ UNCHANGED <<kind, rows>> /\ xpc = "validate" /\ report' = Merged /\ lost' = lost \ jobs
      BY <1>12 DEF Write
    <2>2. (\A a \in ArmRuns : OnTrack(a)' /\ EntryIs(a)') /\ DOMAIN entry' = ArmRuns
      BY <2>1, StopHeals
    <2>3. ASSUME NEW a \in ArmRuns PROVE ReportIs(a)'
      <3>1. Undisturbed(a)' = Undisturbed(a) /\ Asks(a)' = Asks(a) /\ MetInfra(a)' = MetInfra(a) /\ Missing' = Missing
        BY <2>1, PlanKept DEF MetInfra, Missing
      <3>2. ~MetInfra(a) => Clean(Hist(a))
        BY DEF MetInfra, Clean, Hist
      <3>3. report'[a] = (IF a \in jobs THEN entry[a] ELSE report[a])
        BY <2>1 DEF Merged
      <3> QED
        BY <1>1, <2>1, <3>1, <3>2, <3>3 DEF ReportIs, EntryIs
    <2>4. ArmRuns' = ArmRuns
      BY <2>1 DEF ArmRuns
    <2> QED
      BY <2>2, <2>3, <2>4 DEF Healing
  <1>13. ASSUME Repair PROVE Healing'
    <2>1. /\ xpc' = "copied" /\ UNCHANGED <<kind, at, searching, todo, entry, report, lost>>
          /\ rows' = SetAside(InfraFailed) /\ DOMAIN rows = Keys
      BY <1>1, <1>13 DEF Repair, RowsAre
    <2>2. \A k \in Keys : k[2] # "cache" => rows'[k] = (IF k[1] \notin InfraFailed THEN rows[k] ELSE Rest(rows[k]))
      BY <2>1 DEF SetAside, SetAsideWith
    <2>3. ASSUME NEW a \in ArmRuns, NEW place \in {"search", "validate"}
          PROVE  /\ Range(rows'[<<a, place>>]) \subseteq Range(rows[<<a, place>>])
                 /\ \A r \in Range(rows[<<a, place>>]) : r.res = Infra => r \in Range(rows'[<<a, place>>])
      <3>1. <<a, place>> \in Keys /\ <<a, place>>[2] # "cache"
        BY DEF Keys, Places
      <3>2. IsSeq(rows[<<a, place>>])
        BY <1>1, <3>1 DEF RowsAre
      <3>3. Range(Rest(rows[<<a, place>>])) = {r \in Range(rows[<<a, place>>]) : ~Succeeds(r.res)}
        BY <3>2, FiltersAre
      <3>4. rows'[<<a, place>>] \in {rows[<<a, place>>], Rest(rows[<<a, place>>])}
        BY <2>2, <3>1
      <3> QED
        BY <3>3, <3>4 DEF Succeeds
    <2>4. ASSUME NEW a \in ArmRuns PROVE OnTrack(a)' /\ EntryIs(a)' /\ ReportIs(a)'
      <3>1. Plan(a)' = Plan(a) /\ Undisturbed(a)' = Undisturbed(a) /\ Asks(a)' = Asks(a) /\ Missing' = Missing
        BY <2>1, PlanKept DEF Missing
      <3>2. Range(Hist(a)') \subseteq Range(Hist(a)) /\ \A r \in Range(Hist(a)) : r.res = Infra => r \in Range(Hist(a)')
        BY <2>3 DEF Hist
      <3>3. Clean(Hist(a))' => Clean(Hist(a))
        BY <3>2 DEF Clean
      <3>4. MetInfra(a) => MetInfra(a)'
        BY <2>3 DEF MetInfra
      <3>5. at[a] = "idle"
        BY <1>1, <1>13 DEF Repair, StationIs
      <3>6. OnTrack(a)'
        BY <1>1, <2>1, <3>1, <3>2, <3>3, <3>5 DEF OnTrack, Track
      <3>7. EntryIs(a)'
        BY <1>1, <2>1 DEF EntryIs
      <3>8. ReportIs(a)'
        BY <1>1, <2>1, <3>1, <3>4 DEF ReportIs
      <3> QED
        BY <3>6, <3>7, <3>8
    <2>5. ArmRuns' = ArmRuns
      BY <2>1 DEF ArmRuns
    <2> QED
      BY <1>1, <2>1, <2>4, <2>5 DEF Healing
  <1>14. ASSUME Purge PROVE Healing'
    <2>1. /\ UNCHANGED <<kind, entry, report>> /\ lost' = lost \cup jobs /\ Launch(jobs) /\ DOMAIN rows = Keys
          /\ rows' = [k \in DOMAIN rows |-> IF k[1] \in jobs /\ k[2] # "cache" THEN <<>> ELSE rows[k]]
      BY <1>1, <1>14 DEF Purge, RowsAre
    <2>2. ASSUME NEW a \in ArmRuns, NEW place \in {"search", "validate"}
          PROVE  rows'[<<a, place>>] = (IF a \in jobs THEN <<>> ELSE rows[<<a, place>>])
      <3>1. <<a, place>> \in Keys
        BY DEF Keys, Places
      <3> QED
        BY <2>1, <3>1
    <2>3. Range(<<>>) = {}
      BY DEF Range
    <2>4. \A a \in ArmRuns : Range(Hist(a)') \subseteq Range(Hist(a)) /\ (Hist(a)' = Hist(a) \/ Range(Hist(a)') = {})
      BY <2>2, <2>3 DEF Hist
    <2>5. \A a \in ArmRuns : OnTrack(a)' /\ EntryIs(a)'
      BY <2>1, <2>4, LaunchHeals
    <2>6. ASSUME NEW a \in ArmRuns PROVE ReportIs(a)'
      <3>1. Undisturbed(a)' = Undisturbed(a) /\ Asks(a)' = Asks(a) /\ Missing' = Missing
        BY <2>1, PlanKept DEF Missing
      <3>2. CASE a \in jobs
        BY <2>1, <3>2 DEF ReportIs
      <3>3. CASE a \notin jobs
        <4>1. MetInfra(a)' = MetInfra(a)
          BY <2>2, <3>3 DEF MetInfra
        <4> QED
          BY <1>1, <2>1, <3>1, <4>1 DEF ReportIs
      <3> QED
        BY <3>2, <3>3
    <2>7. ArmRuns' = ArmRuns
      BY <2>1 DEF ArmRuns
    <2> QED
      BY <1>1, <2>1, <2>5, <2>6, <2>7 DEF Healing
  <1>15. ASSUME UNCHANGED vars1 PROVE Healing'
    <2>1. UNCHANGED <<kind, rows, at, searching, todo, xpc, jobs, entry, report, lost>>
      BY <1>15 DEF vars1, driving
    <2>2. ASSUME NEW a \in ArmRuns PROVE OnTrack(a)' /\ EntryIs(a)'
      <3>1. Hist(a)' = Hist(a) /\ at'[a] = at[a] /\ rnd'[a] = rnd[a] /\ last'[a] = last[a] /\ todo'[a] = todo[a]
        BY <2>1 DEF Hist, searching
      <3>2. OnTrack(a)'
        BY <1>1, <2>1, <3>1, QuietTrack
      <3>3. EntryIs(a)'
        BY <1>1, <2>1, <3>1, EntryKept
      <3> QED
        BY <3>2, <3>3
    <2> QED
      BY <1>1, <2>1, <2>2, HealingGrows
  <1> QED
    BY <1>2, <1>4, <1>6, <1>7, <1>8, <1>9, <1>10, <1>11, <1>12, <1>13, <1>14, <1>15 DEF NextV1, Over1

LEMMA HealingInit == InitV1 => Healing
PROOF
  <1> SUFFICES ASSUME InitV1 PROVE Healing
    OBVIOUS
  <1>1. /\ rows = [k \in Keys |-> <<>>] /\ at = [a \in ArmRuns |-> "idle"] /\ xpc = "off"
        /\ entry = [a \in ArmRuns |-> Missing] /\ report = [a \in ArmRuns |-> Missing]
    BY DEF InitV1, Keys
  <1>2. ASSUME NEW a \in ArmRuns PROVE OnTrack(a) /\ EntryIs(a) /\ ReportIs(a)
    <2>1. Range(Hist(a)) = {} /\ at[a] = "idle" /\ entry[a] = Missing /\ report[a] = Missing
      BY <1>1 DEF Hist, Keys, Places, Range
    <2>2. OnTrack(a)
      BY <2>1 DEF OnTrack, Track
    <2> QED
      BY <1>1, <2>1, <2>2 DEF EntryIs, ReportIs, Missing
  <1> QED
    BY <1>1, <1>2 DEF Healing

LEMMA HealingFollows == ASSUME Healing PROVE RepairHeals
PROOF
  BY DEF Healing, ReportIs, RepairHeals
-----------------------------------------------------------------------------
(* The second experiment: what is validated and what is written are         *)
(* configs, once the arm-runs have ended.                                   *)
FlowOrNone == FlowConfigs \cup {None2}
Typed2 ==
  /\ DOMAIN found2 = Searchers /\ \A a \in Searchers : found2[a] \in FlowOrNone \cup {"running", "raised"}
  /\ step2 = "validate" => \A a \in Searchers : found2[a] \in FlowOrNone
  /\ summary = <<>> \/ \A a \in Searchers : summary[a] \in FlowOrNone
  /\ step2 = "revalidate" => summary # <<>>
  /\ good \cup failed \subseteq Identities
  /\ \A k \in DOMAIN log : log[k] \in {"late", "bad"} => k \in failed

(* What a pass evaluates are identities.                                    *)
LEMMA PassTyped ==
  ASSUME Typed2, Passing, NEW j \in Jobs2
  PROVE  Identity2(j) \in Identities
PROOF
  <1>1. j[1] \in Searchers \cup {"default"} /\ j[2] \in ValidateSeeds2 /\ Best2(j[1]) # None2
    BY DEF Jobs2
  <1>2. \A a \in Searchers : Results2[a] \in FlowOrNone
    BY DEF Typed2, Passing, Results2
  <1>3. Best2(j[1]) \in FlowConfigs
    BY <1>1, <1>2, SeedsAssumption2 DEF Best2, FlowOrNone
  <1>4. Tool \in Tools
    BY DEF Tool, Tools, RunTool
  <1> QED
    BY <1>1, <1>3, <1>4 DEF Identity2, Identities

LEMMA Typed2Init == InitV2 => Typed2
PROOF
  BY DEF InitV2, Typed2

LEMMA Typed2Step ==
  ASSUME Typed2, [NextV2]_vars2
  PROVE  Typed2'
PROOF
  <1>1. CASE UNCHANGED vars2
    BY <1>1 DEF vars2, Typed2
  <1>2. CASE RunArms
    BY <1>2 DEF RunArms, rows2, written, Typed2
  <1>3. CASE DefaultArm
    BY <1>3 DEF DefaultArm, rows2, written, Typed2
  <1>4. CASE ArmEnds
    <2>1. /\ step2 = "arms" /\ step2' = step2 /\ UNCHANGED <<summary, good, failed, log>>
          /\ \E a \in Searchers, c \in FlowConfigs \cup {None2, "raised"} : found2' = [found2 EXCEPT ![a] = c]
      BY <1>4 DEF ArmEnds, rows2, written
    <2> QED
      BY <2>1 DEF Typed2, FlowOrNone
  <1>5. CASE ArmRaised
    BY <1>5 DEF ArmRaised, rows2, written, Typed2
  <1>6. CASE Validate2
    BY <1>6 DEF Validate2, StartPass, rows2, written, Typed2
  <1>7. CASE Replay2
    BY <1>7 DEF Replay2, rows2, written, Typed2
  <1>8. CASE Run2 \/ TimeOut2
    <2>1. PICK j \in Jobs2, x \in {"good", "bad", "late"} : Ends2(j, x)
      BY <1>8 DEF Run2, TimeOut2
    <2>2. Passing
      BY <1>8 DEF Run2, TimeOut2, Passing
    <2> DEFINE k == Identity2(j)
    <2>3. k \in Identities
      BY <2>2, PassTyped
    <2>4. /\ log' = [log EXCEPT ![k] = x] /\ good' = (IF x = "good" THEN good \cup {k} ELSE good)
          /\ failed' = (IF x # "good" THEN failed \cup {k} ELSE failed)
          /\ step2' = step2 /\ found2' = found2 /\ summary' = summary
      BY <2>1 DEF Ends2, written
    <2> HIDE DEF k
    <2>5. good' \cup failed' \subseteq Identities
      BY <2>3, <2>4 DEF Typed2
    <2>6. ASSUME NEW i \in DOMAIN log, log'[i] \in {"late", "bad"} PROVE i \in failed'
      <3>1. CASE i = k
        BY <2>4, <2>6, <3>1
      <3>2. CASE i # k
        BY <2>4, <2>6, <3>2 DEF Typed2
      <3> QED
        BY <3>1, <3>2
    <2>7. DOMAIN log' = DOMAIN log
      BY <2>4
    <2> QED
      BY <2>4, <2>5, <2>6, <2>7 DEF Typed2
  <1>9. CASE LateEnds
    <2>1. PICK k \in Identities, x \in {"good", "bad", "none"} : log[k] = "late" /\ log' = [log EXCEPT ![k] = x]
      BY <1>9 DEF LateEnds
    <2>2. UNCHANGED <<step2, found2, good, failed, summary>>
      BY <1>9 DEF LateEnds, written
    <2>3. ASSUME NEW i \in DOMAIN log, log'[i] \in {"late", "bad"} PROVE i \in failed
      BY <2>1, <2>3 DEF Typed2
    <2>4. DOMAIN log' = DOMAIN log
      BY <2>1
    <2> QED
      BY <2>2, <2>3, <2>4 DEF Typed2
  <1>10. CASE Report2
    <2>1. /\ Passing /\ summary' = Results2 /\ step2' = "off" /\ UNCHANGED <<found2, good, failed, log>>
      BY <1>10 DEF Report2, rows2
    <2>2. \A a \in Searchers : Results2[a] \in FlowOrNone
      BY <2>1 DEF Typed2, Passing, Results2
    <2> QED
      BY <2>1, <2>2 DEF Typed2
  <1>11. CASE Die2
    BY <1>11 DEF Die2, rows2, written, Typed2
  <1>12. CASE Revalidate
    <2>1. /\ summary # <<>> /\ step2' = "revalidate" /\ good' = Recovered
          /\ UNCHANGED <<found2, failed, log, summary>>
      BY <1>12 DEF Revalidate, StartPass, written
    <2>2. good' \subseteq good \cup failed
      BY <2>1 DEF Recovered, Late
    <2> QED
      BY <2>1, <2>2 DEF Typed2
  <1> QED
    BY <1>1, <1>2, <1>3, <1>4, <1>5, <1>6, <1>7, <1>8, <1>9, <1>10, <1>11, <1>12 DEF NextV2, Over2

LEMMA LocatedInit == InitV1 => Located /\ Truths
PROOF
  <1> SUFFICES ASSUME InitV1 PROVE Located /\ Truths
    OBVIOUS
  <1>1. /\ (\E x \in Lineups : kind = x.arms) /\ rows = [k \in Keys |-> <<>>]
        /\ at = [a \in ArmRuns |-> "idle"] /\ rnd = [a \in ArmRuns |-> 0] /\ last = [a \in ArmRuns |-> 0]
        /\ todo = [a \in ArmRuns |-> <<>>] /\ xpc = "off" /\ jobs = {}
    BY DEF InitV1, Keys
  <1>2. Range(<<>>) = {}
    BY DEF Range
  <1>3. at \in [ArmRuns -> Stations]
    BY <1>1 DEF Stations
  <1>4. ASSUME NEW a \in ArmRuns PROVE StationIs(a) /\ BatchIs(a) /\ CallIs(a)
    BY <1>1, <1>2, <1>4 DEF StationIs, BatchIs, CallIs
  <1>5. Truths
    BY <1>1, <1>2 DEF Truths
  <1> QED
    BY <1>1, <1>3, <1>4, <1>5 DEF Located

(* The experiments' part of the scripts.                                    *)
Typed ==
  /\ IF script = "v1" THEN Located /\ Truths /\ Rounded /\ Healing ELSE kind = <<>>
  /\ IF script = "v2" THEN Typed2 ELSE good = {} /\ failed = {} /\ log = <<>>

LEMMA TypedInit == DriverInit => Typed
PROOF
  <1>1. CASE script = "v1" /\ InitV1 /\ Unused2 /\ UnusedFinal
    BY <1>1, LocatedInit, RoundedInit, HealingInit DEF Typed, Unused2
  <1>2. CASE script = "v2" /\ InitV2 /\ Unused1 /\ UnusedFinal
    BY <1>2, Typed2Init DEF Typed, Unused1
  <1>3. CASE script = "final" /\ Init /\ Unused1 /\ Unused2
    BY <1>3 DEF Typed, Unused1, Unused2
  <1> QED
    BY <1>1, <1>2, <1>3 DEF DriverInit

LEMMA TypedStep ==
  ASSUME DInv, Typed, [DriverNext]_all
  PROVE  Typed'
PROOF
  <1>1. script' = script
    BY DEF DriverNext, Experiment1, Experiment2, FinalRound2, all
  <1>2. IF script = "v2" THEN [NextV2]_vars2 ELSE UNCHANGED vars2
    BY DEF DriverNext, Experiment1, Experiment2, FinalRound2, all
  <1>3. IF script = "v1" THEN [NextV1]_vars1 ELSE UNCHANGED vars1
    BY DEF DriverNext, Experiment1, Experiment2, FinalRound2, all
  <1>4. CASE script = "v1"
    <2>1. IInv1 /\ Located /\ Truths /\ Rounded /\ Healing /\ [NextV1]_vars1
      BY <1>3, <1>4 DEF DInv, Typed
    <2>2. Located' /\ Truths' /\ Rounded' /\ Healing'
      BY <2>1, LocatedStep, TruthsStep, RoundedStep, HealingStep
    <2>3. UNCHANGED <<good, failed, log>>
      BY <1>2, <1>4 DEF vars2, rows2
    <2> QED
      BY <1>1, <1>4, <2>2, <2>3 DEF Typed
  <1>5. CASE script = "v2"
    <2>1. Typed2 /\ [NextV2]_vars2 /\ kind' = kind
      BY <1>2, <1>3, <1>5 DEF Typed, vars1
    <2>2. Typed2'
      BY <2>1, Typed2Step
    <2> QED
      BY <1>1, <1>5, <2>1, <2>2 DEF Typed
  <1>6. CASE script \notin {"v1", "v2"}
    <2>1. kind' = kind /\ UNCHANGED <<good, failed, log>>
      BY <1>2, <1>3, <1>6 DEF vars1, vars2, rows2
    <2> QED
      BY <1>1, <1>6, <2>1 DEF Typed
  <1> QED
    BY <1>4, <1>5, <1>6

LEMMA TypedFollows == Typed => ExperimentsTypeOK
PROOF
  <1> SUFFICES ASSUME Typed PROVE ExperimentsTypeOK
    OBVIOUS
  <1>1. \A r \in AllRows : RowOK(r)
    <2>1. CASE script = "v1"
      <3>1. \A k \in Keys : \A r \in Range(rows[k]) : Truthful(r)
        BY <2>1 DEF Typed, Truths
      <3>2. ASSUME NEW r \in AllRows PROVE RowOK(r)
        <4>1. PICK k \in Keys : r \in Range(rows[k])
          BY <3>2 DEF AllRows, Keys
        <4> QED
          BY <3>1, <4>1 DEF Truthful, Asked, RowOK
      <3> QED
        BY <3>2
    <2>2. CASE script # "v1"
      <3>1. ArmRuns = {}
        BY <2>2 DEF Typed, ArmRuns
      <3> QED
        BY <3>1 DEF AllRows
    <2> QED
      BY <2>1, <2>2
  <1>2. ASSUME NEW a \in ArmRuns
        PROVE  rnd[a] <= last[a] /\ \A r \in Range(rows[<<a, "cache">>]) : Succeeds(r.res)
    <2>1. script = "v1"
      BY <1>2 DEF Typed, ArmRuns
    <2>2. <<a, "cache">> \in Keys
      BY DEF Keys, Places
    <2> QED
      BY <2>1, <2>2 DEF Typed, Located, CallIs, Truths
  <1>3. good \cup failed \subseteq Identities /\ \A k \in DOMAIN log : log[k] \in {"late", "bad"} => k \in failed
    BY DEF Typed, Typed2
  <1> QED
    BY <1>1, <1>2, <1>3 DEF ExperimentsTypeOK

THEOREM ExperimentsAreTyped == DriverSpec => []ExperimentsTypeOK
PROOF
  <1>1. DInv /\ Typed /\ [DriverNext]_all => Typed'
    BY TypedStep
  <1> QED
    BY <1>1, TypedInit, TypedFollows, DriverInductive, PTL DEF DriverSpec

(* What the proxy-only model is shown does not depend on what was routed,   *)
(* neither the candidates nor their order (experiment.py, _history): where  *)
(* no two of its results tie, the routed rows change nothing.               *)
THEOREM PromptIsBlind == DriverSpec => []BlindToRoutes
PROOF
  <1>1. DInv /\ Typed /\ [DriverNext]_all => Typed'
    BY TypedStep
  <1>2. ASSUME DInv, Typed PROVE BlindToRoutes
    <2>1. CASE script = "v1"
      BY <1>2, <2>1, BlindFollows DEF DInv, Typed, IInv1
    <2>2. CASE script # "v1"
      <3>1. ArmRuns = {}
        BY <1>2, <2>2 DEF Typed, ArmRuns
      <3> QED
        BY <3>1 DEF BlindToRoutes
    <2> QED
      BY <2>1, <2>2
  <1> QED
    BY <1>1, <1>2, TypedInit, DriverInductive, PTL DEF DriverSpec

(* The report tells of an arm-run without a model what a search that        *)
(* nothing disturbed would (experiment.py, run_arm; repair_v1.py), whatever *)
(* failed, was killed, resumed or repaired before.                          *)
THEOREM RepairDoesHeal == DriverSpec => []RepairHeals
PROOF
  <1>1. DInv /\ Typed /\ [DriverNext]_all => Typed'
    BY TypedStep
  <1>2. ASSUME Typed PROVE RepairHeals
    <2>1. CASE script = "v1"
      BY <1>2, <2>1, HealingFollows DEF Typed
    <2>2. CASE script # "v1"
      <3>1. ArmRuns = {}
        BY <1>2, <2>2 DEF Typed, ArmRuns
      <3> QED
        BY <3>1 DEF RepairHeals
    <2> QED
      BY <2>1, <2>2
  <1> QED
    BY <1>1, <1>2, TypedInit, DriverInductive, PTL DEF DriverSpec
=============================================================================
