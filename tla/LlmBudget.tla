----------------------------- MODULE LlmBudget -----------------------------
(***************************************************************************)
(* The LLM arm-runs of one experiment share one CostMeter (llm.py).  In    *)
(* every round a proposer calls GeminiREST.complete, which checks the      *)
(* meter, posts the request with retries, and adds the answer's price.     *)
(* The arm-runs are threads: the check, the request and the addition are   *)
(* separate steps, and only the check and the addition hold the lock.  The *)
(* arm-run then evaluates a round, on random configs when the call failed; *)
(* a cap that is reached ends it (search.py run_search_v2).                *)
(*                                                                         *)
(* The provider charges for what it generates, whether the answer arrives  *)
(* or not: an attempt that times out, or whose body is not read, may have  *)
(* been charged, and the meter is not told.                                *)
(*                                                                         *)
(* The driver may be killed, or finish, and be started again on the same   *)
(* database: every process has a meter of its own.                         *)
(***************************************************************************)
EXTENDS Integers, FiniteSets

CONSTANTS Arms,       \* the LLM arm-runs
          Cap,        \* cap_usd, in units of price
          MaxCost,    \* the price of the dearest attempt
          Tries,      \* GeminiREST's tries
          Rounds,     \* rounds that use up an arm-run's evaluation budget
          MaxKills    \* bound: restarts of the driver

ASSUME ArmsAssumption  == IsFiniteSet(Arms)
ASSUME PriceAssumption == Cap \in Nat \ {0} /\ MaxCost \in Nat
ASSUME TriesAssumption == Tries \in Nat \ {0} /\ Rounds \in Nat /\ MaxKills \in Nat

VARIABLES spent,            \* spent_usd of this process' meter
          pc, tries, price, \* each arm-run's call: attempts left, what this one is charged
          again,            \* propose is called a second time in this round
          left,             \* rounds its evaluation budget still allows
          stop,             \* why it ended
          kills,            \* restarts so far
          billed,           \* history: all that the provider has charged
          unseen            \* history: the part of it that a meter was not told

call == <<pc, tries, price, again>>
bill == <<billed, unseen>>
vars == <<spent, call, left, stop, kills, bill>>

-----------------------------------------------------------------------------
Costs == 0..MaxCost
InFlight == {a \in Arms : pc[a] \in {"post", "wait", "add"}}
Goto(a, l) == pc' = [pc EXCEPT ![a] = l]
Finish(a, why) == Goto(a, "ended") /\ stop' = [stop EXCEPT ![a] = why]

Init ==
  /\ spent = 0 /\ kills = 0 /\ billed = 0 /\ unseen = 0
  /\ pc = [a \in Arms |-> "top"] /\ tries = [a \in Arms |-> 0]
  /\ price = [a \in Arms |-> 0] /\ again = [a \in Arms |-> FALSE]
  /\ left = [a \in Arms |-> Rounds] /\ stop = [a \in Arms |-> "none"]

(* The loop of run_search_v2: the evaluation budget is used up, or another  *)
(* round starts with a call of the proposer.                                *)
BudgetUsed(a) ==
  /\ pc[a] = "top" /\ left[a] = 0 /\ Finish(a, "budget")
  /\ UNCHANGED <<spent, tries, price, again, left, kills, bill>>

Propose(a) ==
  /\ pc[a] = "top" /\ left[a] > 0 /\ Goto(a, "check")
  /\ UNCHANGED <<spent, tries, price, again, left, stop, kills, bill>>

(* CostMeter.check.  The request goes out later, without the meter's lock.  *)
CheckPassesAtCap(a) ==
  /\ pc[a] = "check" /\ spent <= Cap /\ Goto(a, "post")
  /\ tries' = [tries EXCEPT ![a] = Tries]
  /\ UNCHANGED <<spent, price, again, left, stop, kills, bill>>
CheckPasses(a) ==
  /\ pc[a] = "check" /\ spent < Cap /\ Goto(a, "post")
  /\ tries' = [tries EXCEPT ![a] = Tries]
  /\ UNCHANGED <<spent, price, again, left, stop, kills, bill>>

CheckRaises(a) ==
  /\ pc[a] = "check" /\ spent >= Cap /\ Finish(a, "llm_budget")
  /\ again' = [again EXCEPT ![a] = FALSE]
  /\ UNCHANGED <<spent, tries, price, left, kills, bill>>

(* One attempt of _call: the provider generates an answer and charges for   *)
(* it, or it is charged nothing because it never came to that.              *)
Attempt(a) ==
  /\ pc[a] = "post" /\ Goto(a, "wait")
  /\ \E c \in Costs : price' = [price EXCEPT ![a] = c] /\ billed' = billed + c
  /\ UNCHANGED <<spent, tries, again, left, stop, kills, unseen>>

(* It ends with an answer, with a failure that is tried again (a time-out,  *)
(* a body that is no JSON, a server error), or with an LLMError, after a    *)
(* fatal failure or the last attempt.                                       *)
Answer(a) ==
  /\ pc[a] = "wait" /\ Goto(a, "add")
  /\ tries' = [tries EXCEPT ![a] = 0]
  /\ UNCHANGED <<spent, price, again, left, stop, kills, bill>>

Unmetered(a, c) == price' = [price EXCEPT ![a] = 0] /\ unseen' = unseen + c

(* Mutant: the tries are not counted.                                       *)
RetryForever(a) ==
  /\ pc[a] = "wait" /\ tries[a] > 1 /\ Goto(a, "post") /\ Unmetered(a, price[a])
  /\ UNCHANGED <<spent, tries, again, left, stop, kills, billed>>
Retry(a) ==
  /\ pc[a] = "wait" /\ tries[a] > 1 /\ Goto(a, "post") /\ Unmetered(a, price[a])
  /\ tries' = [tries EXCEPT ![a] = @ - 1]
  /\ UNCHANGED <<spent, again, left, stop, kills, billed>>

CallFails(a) ==
  /\ pc[a] = "wait" /\ Goto(a, "eval") /\ Unmetered(a, price[a])
  /\ tries' = [tries EXCEPT ![a] = 0] /\ again' = [again EXCEPT ![a] = FALSE]
  /\ UNCHANGED <<spent, left, stop, kills, billed>>

(* CostMeter.add, of what the answer's usageMetadata says, if it has any;   *)
(* the answer becomes this round's configs.                                 *)
Told(a, c) == spent' = spent + c /\ Unmetered(a, price[a] - c)

Add(a) ==
  /\ pc[a] = "add" /\ Goto(a, "eval")
  /\ \E c \in 0..price[a] : Told(a, c)
  /\ again' = [again EXCEPT ![a] = FALSE]
  /\ UNCHANGED <<tries, left, stop, kills, billed>>

(* The answer's text cannot be read (a TypeError): run_search_v2 takes it   *)
(* for a propose without a stage and calls the proposer a second time.  A   *)
(* second TypeError ends the driver, see Restart.                           *)
TextBeforeAdd(a) ==
  /\ pc[a] = "add" /\ ~again[a] /\ Goto(a, "check")
  /\ price' = [price EXCEPT ![a] = 0] /\ again' = [again EXCEPT ![a] = TRUE]
  /\ UNCHANGED <<spent, tries, left, stop, kills, bill>>
AddAndProposeAgain(a) ==
  /\ pc[a] = "add" /\ ~again[a] /\ Goto(a, "check")
  /\ \E c \in 0..price[a] : Told(a, c)
  /\ again' = [again EXCEPT ![a] = TRUE]
  /\ UNCHANGED <<tries, left, stop, kills, billed>>

EvaluateUncounted(a) ==
  /\ pc[a] = "eval" /\ Goto(a, "top")
  /\ UNCHANGED <<spent, tries, price, again, left, stop, kills, bill>>
Evaluate(a) ==
  /\ pc[a] = "eval" /\ Goto(a, "top")
  /\ left' = [left EXCEPT ![a] = @ - 1]
  /\ UNCHANGED <<spent, tries, price, again, stop, kills, bill>>

(* The driver is killed, or has ended, and is started again: a round that   *)
(* was not evaluated is proposed again, and the meter starts at zero.  The  *)
(* answers of the calls in the air are lost, and charged.                   *)
Restart ==
  /\ kills < MaxKills /\ kills' = kills + 1
  /\ spent' = 0
  /\ pc' = [a \in Arms |-> "top"] /\ stop' = [a \in Arms |-> "none"]
  /\ price' = [a \in Arms |-> 0] /\ tries' = [a \in Arms |-> 0] /\ again' = [a \in Arms |-> FALSE]
  /\ UNCHANGED <<left, bill>>

Over == (\A a \in Arms : pc[a] = "ended") /\ kills = MaxKills /\ UNCHANGED vars

Arm(a) ==
  \/ BudgetUsed(a) \/ Propose(a) \/ CheckPasses(a) \/ CheckRaises(a) \/ Attempt(a)
  \/ Answer(a) \/ Retry(a) \/ CallFails(a) \/ Add(a) \/ AddAndProposeAgain(a) \/ Evaluate(a)
Next == (\E a \in Arms : Arm(a)) \/ Restart \/ Over

Spec == Init /\ [][Next]_vars
(* Threads are scheduled, and every HTTP attempt ends (it has a timeout).   *)
FairSpec == Spec /\ \A a \in Arms : WF_vars(Arm(a))
-----------------------------------------------------------------------------
TypeOK ==
  /\ spent \in Nat /\ kills \in Nat /\ billed \in Nat /\ unseen \in Nat
  /\ pc \in [Arms -> {"top", "check", "post", "wait", "add", "eval", "ended"}]
  /\ tries \in [Arms -> Nat] /\ price \in [Arms -> Nat] /\ again \in [Arms -> BOOLEAN]
  /\ left \in [Arms -> Int] /\ stop \in [Arms -> {"none", "budget", "llm_budget"}]

(* Once the cap is reached the calls in the air are all that can still be   *)
(* added: nobody starts another one.                                        *)
Ceiling == Cap - 1 + MaxCost * Cardinality(Arms)
NoMoreThanInFlight ==
  /\ \A a \in Arms : price[a] \in Costs
  /\ spent >= Cap => spent + MaxCost * Cardinality(InFlight) <= Ceiling

(* Who ended for the cost cap found the meter there, and it stays there.    *)
CapSeen == \A a \in Arms : stop[a] = "llm_budget" => spent >= Cap

(* llm.py:257, 356-357: the cap holds up to one call of each arm-run.  No   *)
(* interleaving of checks, requests, retries and additions of the threads   *)
(* takes one meter past that.                                               *)
OvershootBounded == spent <= Ceiling

IInv == TypeOK /\ NoMoreThanInFlight /\ CapSeen

(* llm.py:257, 371-383 and 402-408: what an experiment can be charged.  Each *)
(* start of the driver pays one ceiling at most, whatever calls a kill takes  *)
(* with it, but for what its meter is not told of; and that is no more than   *)
(* the dearest price of every attempt of two calls in each round, of the      *)
(* rounds of all arm-runs and the one that each arm-run repeats after a kill. *)
AttemptsOfRound == 2 * Tries
UnseenCeiling == MaxCost * (Cardinality(Arms) * (AttemptsOfRound * (Rounds + kills)))
BilledBounded == billed <= (kills + 1) * Ceiling + unseen /\ unseen <= UnseenCeiling

(* search.py:547: once one arm-run has ended for the cost cap, no other gets *)
(* past the check again: the cap is reached for all of them.                *)
CapStaysReached ==
  [][kills' = kills =>
       \A a \in Arms : stop[a] = "llm_budget" => \A b \in Arms : ~(pc[b] = "check" /\ pc'[b] = "post")]_vars

(* Every arm-run ends, whatever the provider answers: by its evaluations,   *)
(* or by the cap.                                                           *)
ArmsEnd == \A a \in Arms : <>[](pc[a] = "ended")
=============================================================================
