------------------------------ MODULE Dispatch ------------------------------
(* The two ways a batch of requests reaches the evaluators of Handoff:       *)
(* ChiaEvaluator (pnr_node/node.py), which sends each distinct request of a  *)
(* batch to a machine of the cluster, and BatchEvaluator (pnr_node/batch.py),*)
(* which places a batch one by one and then routes it in parallel.  A worker *)
(* may be killed or lost from sight, and a machine may leave.                *)
EXTENDS Handoff, Sequences, FiniteSets, SequencesExt

CONSTANTS Batches,   \* the batches that evaluate_many of one evaluator is called with
          Slots,     \* the machines with pnr and GPU, that split mode counts slots of
          Home,      \* the machine of the evaluators that use no cluster
          MaxCalls,  \* bound: calls of evaluate_many
          MaxLosses  \* bound: workers killed or lost, machines gone

ASSUME DispatchAssumption ==
  /\ IsFiniteSet(Tasks) /\ Home \in Disks /\ Slots \subseteq Disks /\ MaxCalls \in Nat /\ MaxLosses \in Nat
  /\ \A b \in Batches : b \in Seq([id : Ids, stage : Stages])

VARIABLES kind,     \* how this evaluator dispatches
          slot,     \* _split_vm: the machine of an identity in split mode, None without slots
          held,     \* _vm: the machine that holds an identity's grt directory
          call,     \* the calls of evaluate_many, which may overlap
          up,       \* the machines of the cluster
          calls,    \* calls begun
          losses,   \* workers and machines lost
          passed,   \* split mode: tasks whose route_remote has a machine
          mixed,    \* history: one request was asked for twice at a time
          crossed,  \* history: two evaluations worked on one placement at a time
          screened  \* history: identities whose grt run was answered ok with no route of it under way

Kinds  == {"single", "affinity", "split", "local", "batch"}
Chia   == {"single", "affinity", "split"}
Calls  == 1..MaxCalls
NoCall == [pc |-> "idle", reqs |-> <<>>, ref |-> <<>>]

handoffVars  == <<flow, nature, place, grt, task>>
dispatchVars == <<kind, slot, held, call, up, calls, losses, passed, mixed, crossed, screened>>
nodeVars     == <<handoffVars, dispatchVars>>

Requests(c)  == ToSet(call[c].reqs)
Placed(t)    == task[t].pc = "done" \/ task[t].lost   \* there is a result, or an error
Seen(t)      == Placed(t) /\ (kind = "split" => t \in passed)   \* get(ref) returns or raises

(* Two live evaluations in the directory of one placement, in one key-named  *)
(* run directory.                                                            *)
Share(tk, t, u) ==
  /\ t # u /\ tk[t].pc \notin {"free", "queued", "done"} /\ tk[u].pc \notin {"free", "queued", "done"}
  /\ tk[t].disk = tk[u].disk /\ tk[t].id = tk[u].id
Crossed(tk) == \E t, u \in Tasks : Share(tk, t, u)

-----------------------------------------------------------------------------
(* The members of a set of numbers in their order.                           *)
Ascending(S) ==
  CHOOSE f \in [1..Cardinality(S) -> S] : \A i, j \in 1..Cardinality(S) : i < j => f[i] < f[j]

(* evaluate_many of ChiaEvaluator: each distinct key once, in the order of   *)
(* the first requests.  BatchEvaluator takes the batch as it is.             *)
Distinct(b) ==
  LET first == {k \in 1..Len(b) : \A j \in 1..k - 1 : b[j] # b[k]}
      order == Ascending(first)
  IN  [k \in 1..Cardinality(first) |-> b[order[k]]]

(* Mutant: the keys of a batch are not made distinct.                        *)
SentAll(b) == b

Sent(b) == IF kind = "batch" THEN b ELSE Distinct(b)

(* Mutant: a route is not sent where its grt run is.                         *)
WhereAny(r) ==
  IF kind \in {"local", "batch"} THEN {Home}
  ELSE IF kind = "split" /\ slot[r.id] # None THEN {slot[r.id]} ELSE up

(* Where a request may run: pinned by its identity in split mode, to the     *)
(* machine of its grt run for a route with affinity, or anywhere.            *)
Where(r) ==
  IF kind \in {"local", "batch"} THEN {Home}
  ELSE IF kind = "split" /\ slot[r.id] # None THEN {slot[r.id]}
  ELSE IF kind = "affinity" /\ r.stage = "route" /\ held[r.id] # None THEN {held[r.id]}
  ELSE up

(* A task for a machine that has left is never scheduled; the evaluators     *)
(* without a cluster start with the first request.                           *)
Begins(k, d) == d \in up /\ (kind \in {"local", "batch"} => k = 1)

NewTask(k, r, d, still) ==
  [NoTask EXCEPT !.pc = IF Begins(k, d) THEN "look" ELSE "queued", !.disk = d, !.id = r.id,
                 !.stage = IF kind = "batch" THEN "proxy" ELSE r.stage,
                 !.again = r.stage = "route" /\ r.id \in still]

Ask(b) ==
  LET todo == Sent(b)
      free == SetToSeq({t \in Tasks : task[t].pc = "free"})
      c    == calls + 1
      still == screened \ {i \in Ids : [id |-> i, stage |-> "grt"] \in ToSet(b)}
  IN  /\ c \in Calls
      /\ Len(todo) <= Len(free)
      /\ \E d \in [1..Len(todo) -> Disks] :
           /\ \A k \in 1..Len(todo) : d[k] \in Where(todo[k])
           /\ task' = [t \in Tasks |->
                IF \E k \in 1..Len(todo) : free[k] = t
                THEN LET k == CHOOSE j \in 1..Len(todo) : free[j] = t IN NewTask(k, todo[k], d[k], still)
                ELSE [task[t] EXCEPT !.again = @ /\ task[t].id \in still]]
      /\ call' = [call EXCEPT ![c] = [pc |-> IF kind = "batch" THEN "placing" ELSE "running", reqs |-> todo,
                                      ref |-> SubSeq(free, 1, Len(todo))]]
      /\ calls' = c
      /\ mixed' = \/ mixed
                  \/ \E e \in Calls \ {c} : Requests(e) \cap ToSet(b) # {}
                  \/ kind = "batch" /\ Cardinality(ToSet(b)) < Len(b)
      /\ screened' = still
      /\ UNCHANGED <<flow, nature, place, grt, kind, slot, held, up, losses, passed>>

(* Mutant: a failed placement ends the loop over the batch.                  *)
StartNextGood(c) ==
  \E k \in 2..Len(call[c].ref) :
    LET t == call[c].ref[k] IN
    /\ kind \in {"local", "batch"} /\ task[t].pc = "queued"
    /\ task[call[c].ref[k - 1]].ans = "ok"
    /\ Goto(t, "look")
    /\ UNCHANGED <<flow, nature, place, grt, kind, slot, held, call, up, calls, losses, mixed, screened, passed>>

(* One evaluation after the other: in this process, or on the one GPU.       *)
StartNext(c) ==
  \E k \in 2..Len(call[c].ref) :
    LET t == call[c].ref[k] IN
    /\ kind \in {"local", "batch"} /\ task[t].pc = "queued"
    /\ task[call[c].ref[k - 1]].pc = "done"
    /\ Goto(t, "look")
    /\ UNCHANGED <<flow, nature, place, grt, kind, slot, held, call, up, calls, losses, mixed, screened, passed>>

(* Phase 2 of the batch: what was placed is evaluated in parallel, its       *)
(* placement being cached now.                                               *)
RoutePhase(c) ==
  /\ call[c].pc = "placing" /\ \A k \in 1..Len(call[c].ref) : task[call[c].ref[k]].pc = "done"
  /\ call' = [call EXCEPT ![c].pc = "running"]
  /\ task' = [t \in Tasks |->
       IF \E k \in 1..Len(call[c].ref) : /\ call[c].ref[k] = t /\ task[t].ans = "ok"
                                         /\ call[c].reqs[k].stage # "proxy"
       THEN LET k == CHOOSE j \in 1..Len(call[c].ref) : call[c].ref[j] = t IN
            [NoTask EXCEPT !.pc = "look", !.disk = Home, !.id = call[c].reqs[k].id,
                           !.stage = call[c].reqs[k].stage, !.again = task[t].again]
       ELSE task[t]]
  /\ UNCHANGED <<flow, nature, place, grt, kind, slot, held, up, calls, losses, mixed, screened, passed>>

(* route_remote, on a machine that has the resources it asks for, when what  *)
(* place_remote returned is there: it goes on from the placement, or only    *)
(* returns the result of a proxy or of a failure, or raises the loss of      *)
(* place_remote.                                                             *)
RouteStarts(t, d) ==
  /\ kind = "split" /\ t \notin passed /\ (task[t].pc = "handed" \/ Placed(t))
  /\ d \in Where([id |-> task[t].id, stage |-> task[t].stage]) \cap up
  /\ \/ /\ task[t].pc = "handed" /\ ~task[t].lost
        /\ task' = [task EXCEPT ![t] = [@ EXCEPT !.pc = "route", !.disk = d]]
     \/ Placed(t) /\ UNCHANGED task
  /\ passed' = passed \cup {t}
  /\ UNCHANGED <<flow, nature, place, grt, kind, slot, held, call, up, calls, losses, mixed, screened>>

(* The results are in: where the grt and route runs that succeeded ran is    *)
(* remembered.  A task that was lost from sight keeps its directory.         *)
Return(c) ==
  LET good(stages) == {k \in 1..Len(call[c].ref) :
                         LET t == call[c].ref[k] IN
                         /\ task[t].ans = "ok" /\ ~task[t].lost /\ task[t].stage \in stages}
  IN  /\ call[c].pc = "running" /\ \A k \in 1..Len(call[c].ref) : Seen(call[c].ref[k])
      /\ held' = [i \in Ids |->
           IF kind \in Chia /\ \E k \in good({"grt", "route"}) : call[c].reqs[k].id = i
           THEN task[call[c].ref[CHOOSE k \in good({"grt", "route"}) :
                       /\ call[c].reqs[k].id = i
                       /\ \A j \in good({"grt", "route"}) : call[c].reqs[j].id = i => j <= k]].disk
           ELSE held[i]]
      /\ screened' = screened \cup {i \in Ids :
           /\ \E k \in good({"grt"}) : call[c].reqs[k].id = i
           /\ \A e \in Calls : [id |-> i, stage |-> "route"] \notin Requests(e)}
      /\ task' = [t \in Tasks |-> IF t \in ToSet(call[c].ref) /\ task[t].pc = "done" THEN NoTask
                                  ELSE task[t]]
      /\ call' = [call EXCEPT ![c] = NoCall]
      /\ passed' = {t \in passed : task'[t].pc # "free"}
      /\ UNCHANGED <<flow, nature, place, grt, kind, slot, up, calls, losses, mixed>>

-----------------------------------------------------------------------------
(* get raises for this task, but its process goes on in its directory.       *)
LoseSight(t) ==
  /\ kind \in Chia /\ Working(t) /\ ~task[t].lost /\ losses < MaxLosses
  /\ task' = [task EXCEPT ![t].lost = TRUE]
  /\ losses' = losses + 1
  /\ UNCHANGED <<flow, nature, place, grt, kind, slot, held, call, up, calls, mixed, screened, passed>>

(* A worker that nobody waits for ends, and is gone.                         *)
Forget(t) ==
  /\ task[t].lost /\ task[t].pc \in {"handed", "done"} /\ \A c \in Calls : t \notin ToSet(call[c].ref)
  /\ task' = [task EXCEPT ![t] = NoTask]
  /\ passed' = passed \ {t}
  /\ UNCHANGED <<flow, nature, place, grt, kind, slot, held, call, up, calls, losses, mixed, screened>>

(* A machine leaves for good, with its files and its vm_<name> resource, and *)
(* what ran on it fails.  A route_remote that has no machine yet stays so if *)
(* it is pinned to that one.                                                 *)
LoseMachine(d) ==
  /\ kind \in Chia /\ d \in up /\ up # {d} /\ losses < MaxLosses
  /\ up' = up \ {d}
  /\ task' = [t \in Tasks |-> IF Working(t) /\ task[t].disk = d
                              THEN [task[t] EXCEPT !.pc = "done", !.ans = "failed"] ELSE task[t]]
  /\ losses' = losses + 1
  /\ UNCHANGED <<flow, nature, place, grt, kind, slot, held, call, calls, mixed, screened, passed>>

-----------------------------------------------------------------------------
(* Slots are counted once, when the evaluator is made.  A cluster without    *)
(* vm_* resources has none; random_controls_run.py, whose own evaluator maps *)
(* every request to a slot, then exits.                                      *)
PinnedSlots == [Ids -> Slots]
SplitSlots  == PinnedSlots \cup {[i \in Ids |-> None]}

(* The evaluators that _evaluator builds have the plain flow.                *)
DispatchInit ==
  /\ HandoffInit
  /\ kind \in Kinds /\ (kind # "batch" => flow = "plain")
  /\ slot \in SplitSlots
  /\ (kind # "split" => slot = [i \in Ids |-> None])
  /\ held = [i \in Ids |-> None]
  /\ call = [c \in Calls |-> NoCall]
  /\ up = Disks /\ calls = 0 /\ losses = 0 /\ passed = {}
  /\ mixed = FALSE /\ crossed = FALSE /\ screened = {}

(* A step of a worker, of evaluate_remote or of place_remote.                *)
Work(t) ==
  /\ Evaluate(t, IF kind = "split" THEN "handed" ELSE "route")
  /\ UNCHANGED <<kind, slot, held, call, up, calls, losses, mixed, screened, passed>>

DispatchStep ==
  \/ \E b \in Batches : Ask(b)
  \/ \E c \in Calls : StartNext(c) \/ RoutePhase(c) \/ Return(c)
  \/ \E t \in Tasks : Work(t) \/ Forget(t) \/ LoseSight(t) \/ \E d \in Disks : RouteStarts(t, d)
  \/ \E d \in Disks : LoseMachine(d)
Observe == crossed' = (crossed \/ Crossed(task'))
DispatchNext == DispatchStep /\ Observe

(* Every tool has a timeout, so evaluations end; the cluster runs a task it  *)
(* has the resources for, and get returns what there is.                     *)
Progress ==
  /\ \/ \E t \in Tasks : Work(t) \/ \E d \in Disks : RouteStarts(t, d)
     \/ \E c \in Calls : StartNext(c) \/ RoutePhase(c) \/ Return(c)
  /\ Observe

-----------------------------------------------------------------------------
(* node.py:246-248 says why keys are sent once: two evaluations never work   *)
(* at a time in one key-named directory, as long as no worker is lost from   *)
(* sight, calls that overlap have no request in common and a batch that is   *)
(* given to BatchEvaluator has none twice.                                   *)
OneRunPerDirectory ==
  ~mixed /\ losses = 0 =>
    \A t, u \in Tasks : Share(task, t, u) /\ task[t].stage = task[u].stage => task[t].stage = "proxy"

(* raw_handoff.py:636 and 936: a result that is answered ok comes from       *)
(* whole files, whatever is killed on the way and left half written, unless  *)
(* two evaluations of one placement have met on a disk or a route half runs  *)
(* where it likes (node.py:193).                                             *)
Together(i) == kind = "split" => slot[i] # None
WholeResults ==
  ~crossed => \A t \in Tasks : task[t].ans = "ok" /\ Together(task[t].id) => task[t].whole

(* raw_handoff.py:926: "screening a candidate and then routing it never      *)
(* repeats CTS/grt", for the dispatches that keep a candidate on a machine.  *)
Kept(i) == kind \in {"affinity", "local", "batch"} \/ slot[i] # None
ScreenedNotRepeated ==
  losses = 0 /\ ~mixed =>
    \A t \in Tasks : task[t].again /\ Kept(task[t].id) => task[t].from # "base"

(* node.py:280, "a lost worker must not kill the search": every batch comes  *)
(* back, unless it has a task pinned to a machine that has left, one that is *)
(* not begun or the route half of one in split mode, which is never          *)
(* scheduled: when nothing that was begun can go on, no other call waits.    *)
Pinned(t) ==
  \/ task[t].pc = "queued" /\ task[t].disk \notin up
  \/ kind = "split" /\ t \notin passed /\ Where([id |-> task[t].id, stage |-> task[t].stage]) \cap up = {}
Stranded(c)  == \E t \in ToSet(call[c].ref) : Pinned(t)
BatchReturns == ~ENABLED Progress => \A c \in Calls : call[c].pc = "idle" \/ Stranded(c)

DispatchTypeOK ==
  /\ HandoffTypeOK
  /\ kind \in Kinds /\ slot \in [Ids -> Disks \cup {None}] /\ held \in [Ids -> Disks \cup {None}]
  /\ \A c \in Calls : /\ call[c].pc \in {"idle", "placing", "running"}
                        /\ Len(call[c].ref) = Len(call[c].reqs)
                        /\ ToSet(call[c].ref) \subseteq Tasks
  /\ up \subseteq Disks /\ calls \in 0..MaxCalls /\ losses \in 0..MaxLosses
  /\ passed \subseteq Tasks /\ mixed \in BOOLEAN /\ crossed \in BOOLEAN /\ screened \subseteq Ids
=============================================================================
