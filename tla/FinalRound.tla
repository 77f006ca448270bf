----------------------------- MODULE FinalRound -----------------------------
(***************************************************************************)
(* The routed final round: run_final_round_v2 (experiment.py) on the       *)
(* database a search left.  It pools the best configs of all arm-runs,     *)
(* runs them and the default flow to the end of the flow on the selection  *)
(* seeds, picks one, and runs the pick and the default on held-out seeds.  *)
(*                                                                         *)
(* The requests of a phase run at once, each in a thread, and are recorded *)
(* as they finish; what has succeeded before, in this start or an earlier  *)
(* one, is replayed from the database.  A kill, or an evaluation that      *)
(* raises, ends the start and loses what is not recorded.                  *)
(*                                                                         *)
(* A result is its score_timing; Dirty is a finished route whose score is  *)
(* +inf (DRC violations, no timing), Failed an evaluation that is not ok.   *)
(* Lower is better, configs are numbered in the order of their texts.      *)
(***************************************************************************)
EXTENDS Integers, FiniteSetsExt, Functions

CONSTANTS Arms,           \* the searching arm-runs
          Configs,        \* the flow configs
          Default,        \* the default flow
          Scores,         \* finite routed scores
          Searches,       \* what searches may have left: config_stats of each arm-run
          Settings,       \* the script's arguments; min_gain times the number of its seeds
          Validated,      \* routes of the default on a held-out seed that the search left
          MaxStarts       \* bound: starts of the script

Failed == -1
Dirty  == -2
NoRow  == -3
None   == -4

Results == Scores \cup {Failed, Dirty}
Stat    == [seeds : Nat, score : Nat, failed : BOOLEAN]

ASSUME ConfigsAssumption == Configs \subseteq Nat /\ IsFiniteSet(Configs) /\ Default \in Configs
ASSUME SettingsAssumption ==   \* final_round.py refuses seeds that overlap
  \A x \in Settings : /\ x \in [top : Nat, min_seeds : Nat \ {0}, min_gain : Nat,
                                  select : SUBSET Nat, validate : SUBSET Nat]
                      /\ x.select \cap x.validate = {}
ASSUME ScoresAssumption == Scores \subseteq Nat /\ Validated \subseteq Results \cup {NoRow}
ASSUME SearchesAssumption == Searches \subseteq [Arms -> [Configs -> Stat]]

VARIABLES search,        \* the search's rows
          args,          \* the script's arguments
          known,         \* the first success of an identity, or that all rows of it failed
          cands,         \* the finalists of this start
          pc,            \* "off", "select", "validate", "ended"
          out,           \* the answers of the phase
          pick,          \* the winner of this start
          starts,
          settled        \* the winner of a start whose selection had no failed evaluation

past == <<search, args>>
vars == <<past, known, cands, pc, out, pick, starts, settled>>

SelectSeeds   == args.select
ValidateSeeds == args.validate
Seeds == SelectSeeds \cup ValidateSeeds

-----------------------------------------------------------------------------
(* pool_candidates: the best mean of a config over the arm-runs that have   *)
(* measured it on enough seeds, none failed; the first `top` of them.       *)
Means(c) == {search[a][c].score : a \in {b \in Arms : /\ search[b][c].seeds >= args.min_seeds
                                             /\ ~search[b][c].failed}}
Pooled   == {c \in Configs : Means(c) # {}}
Ahead(c, d) == \/ Min(Means(c)) < Min(Means(d))
               \/ Min(Means(c)) = Min(Means(d)) /\ c < d
Finalists == {c \in Pooled : Cardinality({d \in Pooled : Ahead(d, c)}) < args.top} \ {Default}

(* route_select_v2 on the routed scores f[c][s] of config c on seed s.       *)
CompleteOnSome(g) == \E s \in DOMAIN g : g[s] \in Scores
Complete(g) == DOMAIN g # {} /\ \A s \in DOMAIN g : g[s] \in Scores
Total(g)    == SumFunction(g)
Better(f, c, d) == \/ Total(f[c]) < Total(f[d])
                   \/ Total(f[c]) = Total(f[d]) /\ Ahead(c, d)
Best(F, f) == {c \in F : Complete(f[c])
                 /\ \A d \in F \ {c} : Complete(f[d]) => Better(f, c, d)}
Beats(f, c) == Complete(f[Default]) => Total(f[c]) + args.min_gain < Total(f[Default])
Winners(F, f) == {c \in Best(F, f) : Beats(f, c)}
Selection(F, f) == IF Winners(F, f) = {} THEN Default ELSE CHOOSE c \in Winners(F, f) : TRUE

-----------------------------------------------------------------------------
(* The requests of the phase: who asks, a config, a seed.  A pick that is   *)
(* the default is asked for twice.                                          *)
Jobs == CASE pc = "select" -> {"select"} \X ({Default} \cup cands) \X SelectSeeds
          [] pc = "validate" -> ({"default"} \X {Default} \X ValidateSeeds)
                                  \cup ({"select"} \X {pick} \X ValidateSeeds)
          [] OTHER -> {}
Identity(j) == <<j[2], j[3]>>

Init ==
  /\ search \in Searches /\ args \in Settings
  /\ \E x \in Validated :
       known = [k \in Configs \X Seeds |->
                  IF k[1] = Default /\ k[2] \in ValidateSeeds THEN x ELSE NoRow]
  /\ cands = {} /\ pc = "off" /\ out = <<>> /\ pick = None /\ starts = 0 /\ settled = None

Start ==
  /\ pc \in {"off", "ended"} /\ starts < MaxStarts
  /\ starts' = starts + 1 /\ pc' = "select" /\ out' = <<>> /\ pick' = None
  /\ cands' = Finalists
  /\ UNCHANGED <<past, known, settled>>

(* A job ends and its row is recorded.  The first success of an identity    *)
(* stays the one that is replayed.                                          *)
Succeeded(k) == known[k] \notin {NoRow, Failed}
Answer(j, x, hit) ==
  /\ out' = [i \in DOMAIN out \cup {j} |-> IF i = j THEN [score |-> x, hit |-> hit] ELSE out[i]]
  /\ known' = IF Succeeded(Identity(j)) THEN known ELSE [known EXCEPT ![Identity(j)] = x]
  /\ UNCHANGED <<past, cands, pc, pick, starts, settled>>

Replay(j) == Succeeded(Identity(j)) /\ Answer(j, known[Identity(j)], TRUE)

(* It looks before the row of the other job of its identity is there.       *)
TwinRan(j) == \E i \in DOMAIN out : Identity(i) = Identity(j) /\ ~out[i].hit
RunAlways(j) == \E x \in Results : Answer(j, x, FALSE)
Run(j) == (~Succeeded(Identity(j)) \/ TwinRan(j)) /\ \E x \in Results : Answer(j, x, FALSE)

Finish == \E j \in Jobs \ DOMAIN out : Replay(j) \/ Run(j)

Routed == [c \in Configs |-> [s \in SelectSeeds |->
             IF <<"select", c, s>> \in DOMAIN out THEN out[<<"select", c, s>>].score ELSE Failed]]
Choose ==
  /\ pick' = Selection(cands, Routed) /\ pc' = "validate" /\ out' = <<>>
  /\ settled' = IF \A j \in Jobs : j \in DOMAIN out /\ out[j].score # Failed
                THEN Selection(cands, Routed) ELSE settled
  /\ UNCHANGED <<past, known, cands, starts>>
SelectEarly == pc = "select" /\ Choose
Select == pc = "select" /\ Jobs \subseteq DOMAIN out /\ Choose

Report ==
  /\ pc = "validate" /\ Jobs \subseteq DOMAIN out
  /\ pc' = "ended"
  /\ UNCHANGED <<past, known, cands, out, pick, starts, settled>>

(* A kill, or an evaluation that raises.                                    *)
Die ==
  /\ pc \in {"select", "validate"} /\ starts < MaxStarts
  /\ pc' = "off" /\ out' = <<>> /\ pick' = None
  /\ UNCHANGED <<past, known, cands, starts, settled>>

Over == pc = "ended" /\ starts = MaxStarts /\ UNCHANGED vars

Next == Start \/ Finish \/ Select \/ Report \/ Die \/ Over

Spec == Init /\ [][Next]_vars
-----------------------------------------------------------------------------
Job == {"select", "default"} \X Configs \X Seeds
TypeOK ==
  /\ search \in Searches /\ args \in Settings
  /\ known \in [Configs \X Seeds -> Results \cup {NoRow}]
  /\ pc \in {"off", "select", "validate", "ended"} /\ cands \in SUBSET Configs
  /\ DOMAIN out \subseteq Job /\ \A j \in DOMAIN out : out[j] \in [score : Results, hit : BOOLEAN]
  /\ pick \in Configs \cup {None} /\ settled \in Configs \cup {None} /\ starts \in Nat

(* The routed scores as a reader of the database finds them.                *)
View == [c \in Configs |-> [s \in SelectSeeds |->
           IF Succeeded(<<c, s>>) THEN known[<<c, s>>] ELSE Failed]]
Candidates == {Default} \cup Finalists

(* No pick before the selection is over.                                    *)
NoPickYet == pc \in {"off", "select"} => pick = None

(* The finalists are those of the search's rows in every start.             *)
Pool == pc \in {"select", "validate", "ended"} => cands = Finalists

(* What a thread answered is what the database replays.                     *)
AnswersRecorded ==
  /\ pc = "select" => \A j \in DOMAIN out :
       j \in Jobs /\ out[j].score = (IF Succeeded(Identity(j)) THEN known[Identity(j)] ELSE Failed)
  /\ \A k \in Configs \X SelectSeeds : k[1] \notin Candidates => known[k] = NoRow

(* experiment.py:404-407: the pick follows from the rows, whatever order    *)
(* they came in, however many starts were interrupted while they were made, *)
(* and whatever the held-out seeds brought since: who reads the database    *)
(* later selects the same.                                                  *)
PickStands == pc \in {"validate", "ended"} => pick = Selection(Finalists, View)

(* A start whose selection had no failed evaluation settles the pick: each  *)
(* later start, which replays it, makes the same one.                       *)
SettledHolds ==
  settled # None => /\ settled = Selection(Finalists, View)
                    /\ \A c \in Candidates, s \in SelectSeeds : Succeeded(<<c, s>>)
SettledStays == settled # None /\ pick # None => pick = settled

IInv == TypeOK /\ Pool /\ NoPickYet /\ AnswersRecorded /\ PickStands /\ SettledHolds

(* experiment.py:425-428, as far as it holds: a pick other than the default *)
(* is a finalist with a score on every selection seed, ahead of the others  *)
(* that have one, and when the default does so too, it beats the default by *)
(* more than min_gain.                                                      *)
Finished(c) == \A s \in SelectSeeds : known[<<c, s>>] \in Scores
PickEarned ==
  pc \in {"validate", "ended"} /\ pick # Default =>
    /\ pick \in Finalists /\ Finished(pick)
    /\ \A c \in Finalists \ {pick} : Finished(c) => Better(View, pick, c)
    /\ Finished(Default) => Total(View[pick]) + args.min_gain < Total(View[Default])
=============================================================================
