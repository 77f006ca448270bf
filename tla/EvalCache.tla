------------------------------ MODULE EvalCache ------------------------------
(***************************************************************************)
(* Evaluations requested by concurrent arm-runs.  Every arm-run is one     *)
(* thread of run_experiment_v2.  It calls CachedEvaluator.evaluate_many    *)
(* (db.py) on a batch of requests, which looks every request up in the     *)
(* shared ResultsDB and hands the misses to ArmRunEvaluator.evaluate_many  *)
(* (arm_eval.py): a thread pool whose threads share, across all arm-runs,  *)
(* an in-flight table of futures and a semaphore, and each run one         *)
(* run_arm.sh subprocess that starts a container.  The caller              *)
(* (run_search_v2's run) then records the answers, one row at a time.      *)
(*                                                                         *)
(* A request is its key().  The id of a run is the number of the future    *)
(* created for it.  Processes outlive the threads that started them: a     *)
(* timeout kills only the script, and a killed driver kills nothing.       *)
(***************************************************************************)
EXTENDS Naturals, Sequences, FiniteSets

CONSTANTS Arms,          \* the arm-runs
          Keys,          \* the request identities
          Workers,       \* permits of the shared semaphore, threads of one pool
          Batches,       \* the batches (sequences of keys) an arm-run may ask for
          MaxCalls,      \* bound: calls of evaluate_many by all arm-runs
          MaxTimeouts,   \* bound: expiries of timeout_s
          MaxCrashes     \* bound: kills and restarts of the driver process

ASSUME WorkersAssumption == Workers \in Nat \ {0}
ASSUME FiniteAssumption  == IsFiniteSet(Arms) /\ IsFiniteSet(Keys)
ASSUME BatchesAssumption == Batches \subseteq Seq(Keys) /\ <<>> \notin Batches
ASSUME BoundsAssumption  == /\ MaxCalls \in Nat
                            /\ MaxTimeouts \in Nat /\ MaxCrashes \in Nat

VARIABLES rows,       \* the evals table, in id order
          committed,  \* how many of the rows are committed
          inflight,   \* _Shared.inflight: key -> its run, 0 when absent
          permits,    \* _Shared.sem
          whose,      \* the runs in creation order: the owner and the key,
          proc, fut,  \* and each run's process and its future
          logs,       \* arm, key -> the result lines in that label's log file
          pc, batch, pos, out,     \* per arm-run: the call it is in
          queue, task, joined,     \* per arm-run: its thread pool
          calls, timeouts, crashes \* what the bounds count

db      == <<rows, committed>>
shared  == <<inflight, permits>>
procs   == <<whose, proc, fut, logs>>
caller  == <<pc, batch, pos, out>>
pool    == <<queue, task, joined>>
counted == <<calls, timeouts, crashes>>
vars    == <<db, shared, procs, caller, pool, counted>>

-----------------------------------------------------------------------------
Runs == 1..Len(whose)

(* A future's content, and a caller's answer.  "hit" is a replay from the   *)
(* database, src the run whose container printed the result, 0 for the      *)
(* failure made up when the log holds no result.                            *)
Blank   == [st |-> "blank", ok |-> FALSE, src |-> 0]
Raised  == [st |-> "raised", ok |-> FALSE, src |-> 0]
Value(o, s) == [st |-> "value", ok |-> o, src |-> s]
Hit(s)      == [st |-> "hit", ok |-> TRUE, src |-> s]

Values  == [st: {"value"}, ok: BOOLEAN, src: Nat]
Futures == {Blank, Raised} \cup Values
Answers == {Blank} \cup Values \cup [st: {"hit"}, ok: {TRUE}, src: Nat]

Lines    == [ok: BOOLEAN, src: Nat]
OwnerOf  == [arm: Arms, key: Keys]
ProcStates == {"none", "slot", "cont", "gone"}
Row      == [arm: Arms, key: Keys, ans: Answers \ {Blank}]
TaskStates == {"idle", "waiting", "sem", "run", "read", "pop", "done"}
CallStates == {"idle", "lookup", "exec", "record", "commit", "dead"}

(* The threads inside ArmRunEvaluator.evaluate, and those that own a run.   *)
Active(a) == {k \in Keys : task[a][k] \notin {"idle", "done"}}
OwnerStates == {"sem", "run", "read", "pop"}
Owners(k) == {a \in Arms : task[a][k] \in OwnerStates}
Holders   == {h \in Arms \X Keys : task[h[1]][h[2]] = "run"}

Live(k) == {r \in Runs : whose[r].key = k /\ proc[r] \in {"slot", "cont"}}

(* ResultsDB.lookup: the first successful row of a key, from any arm-run.   *)
OkRowsFirstRowOnly(k) ==
  {i \in 1..Len(rows) : /\ rows[i].key = k /\ rows[i].ans.ok
                       /\ \A j \in 1..(i - 1) : rows[j].key # k}
OkRowsFailed(k) == {i \in 1..Len(rows) : rows[i].key = k /\ ~rows[i].ans.ok}
OkRows(k) == {i \in 1..Len(rows) : rows[i].key = k /\ rows[i].ans.ok}
FirstRowNewest(S) == CHOOSE i \in S : \A j \in S : i >= j
FirstRow(S) == CHOOSE i \in S : \A j \in S : i <= j

-----------------------------------------------------------------------------
Init ==
  /\ rows = <<>> /\ committed = 0
  /\ inflight = [k \in Keys |-> 0] /\ permits = Workers
  /\ whose = <<>> /\ proc = <<>> /\ fut = <<>>
  /\ logs = [a \in Arms |-> [k \in Keys |-> {}]]
  /\ pc = [a \in Arms |-> "idle"] /\ batch = [a \in Arms |-> <<>>]
  /\ pos = [a \in Arms |-> 1] /\ out = [a \in Arms |-> <<>>]
  /\ queue = [a \in Arms |-> <<>>]
  /\ task = [a \in Arms |-> [k \in Keys |-> "idle"]]
  /\ joined = [a \in Arms |-> [k \in Keys |-> 0]]
  /\ calls = 0 /\ timeouts = 0 /\ crashes = 0

-----------------------------------------------------------------------------
(* CachedEvaluator.evaluate_many: all look-ups first, each its own          *)
(* statement.  The misses' distinct keys are dispatched in order.           *)
Call(a) ==
  /\ pc[a] = "idle" /\ calls < MaxCalls
  /\ \E b \in Batches :
       /\ batch' = [batch EXCEPT ![a] = b]
       /\ out' = [out EXCEPT ![a] = [i \in 1..Len(b) |-> Blank]]
  /\ pc' = [pc EXCEPT ![a] = "lookup"]
  /\ pos' = [pos EXCEPT ![a] = 1]
  /\ calls' = calls + 1
  /\ UNCHANGED <<db, shared, procs, pool, timeouts, crashes>>

(* After the last look-up the misses go to the pool, if there are any.      *)
AfterLookup(a, q) == IF pos[a] < Len(batch[a]) THEN "lookup"
                     ELSE IF q = <<>> THEN "record" ELSE "exec"
NextPos(a) == IF pos[a] < Len(batch[a]) THEN pos[a] + 1 ELSE 1

LookupHit(a) ==
  LET k == batch[a][pos[a]] IN
  /\ pc[a] = "lookup" /\ OkRows(k) # {}
  /\ out' = [out EXCEPT ![a][pos[a]] =
               Hit(rows[FirstRow(OkRows(k))].ans.src)]
  /\ pc' = [pc EXCEPT ![a] = AfterLookup(a, queue[a])]
  /\ pos' = [pos EXCEPT ![a] = NextPos(a)]
  /\ UNCHANGED <<db, shared, procs, batch, pool, counted>>

LookupMiss(a) ==
  LET k == batch[a][pos[a]]
      q == IF \E i \in 1..Len(queue[a]) : queue[a][i] = k THEN queue[a] ELSE Append(queue[a], k)
  IN  /\ pc[a] = "lookup" /\ OkRows(k) = {}
      /\ queue' = [queue EXCEPT ![a] = q]
      /\ pc' = [pc EXCEPT ![a] = AfterLookup(a, q)]
      /\ pos' = [pos EXCEPT ![a] = NextPos(a)]
      /\ UNCHANGED <<db, shared, procs, batch, out, task, joined, counted>>

-----------------------------------------------------------------------------
(* ArmRunEvaluator.evaluate, in the pool's threads.                         *)
ThreadFree(a) == /\ pc[a] = "exec" /\ queue[a] # <<>>
                 /\ Cardinality(Active(a)) < Workers

(* No future in the table: this thread creates one and owns the run.        *)
OwnIgnoresInflight(a) ==
  LET k == Head(queue[a]) IN
  /\ ThreadFree(a) /\ task[a][k] = "idle"
  /\ inflight' = [inflight EXCEPT ![k] = Len(whose) + 1]
  /\ whose' = Append(whose, [arm |-> a, key |-> k])
  /\ proc' = Append(proc, "none")
  /\ fut' = Append(fut, Blank)
  /\ task' = [task EXCEPT ![a][k] = "sem"]
  /\ joined' = [joined EXCEPT ![a][k] = Len(whose) + 1]
  /\ queue' = [queue EXCEPT ![a] = Tail(@)]
  /\ UNCHANGED <<db, permits, logs, caller, counted>>
Own(a) ==
  LET k == Head(queue[a]) IN
  /\ ThreadFree(a) /\ inflight[k] = 0
  /\ inflight' = [inflight EXCEPT ![k] = Len(whose) + 1]
  /\ whose' = Append(whose, [arm |-> a, key |-> k])
  /\ proc' = Append(proc, "none")
  /\ fut' = Append(fut, Blank)
  /\ task' = [task EXCEPT ![a][k] = "sem"]
  /\ joined' = [joined EXCEPT ![a][k] = Len(whose) + 1]
  /\ queue' = [queue EXCEPT ![a] = Tail(@)]
  /\ UNCHANGED <<db, permits, logs, caller, counted>>

(* A run of this identity is in flight: wait on its future.                 *)
Join(a) ==
  LET k == Head(queue[a]) IN
  /\ ThreadFree(a) /\ inflight[k] # 0
  /\ task' = [task EXCEPT ![a][k] = "waiting"]
  /\ joined' = [joined EXCEPT ![a][k] = inflight[k]]
  /\ queue' = [queue EXCEPT ![a] = Tail(@)]
  /\ UNCHANGED <<db, shared, procs, caller, counted>>

(* _run: take the semaphore and start the script, which waits for a slot.   *)
LaunchWithoutPermit(a, k) ==
  /\ task[a][k] = "sem"
  /\ permits' = permits - 1
  /\ task' = [task EXCEPT ![a][k] = "run"]
  /\ proc' = [proc EXCEPT ![joined[a][k]] = "slot"]
  /\ UNCHANGED <<db, inflight, whose, fut, logs, caller, queue, joined, counted>>
Launch(a, k) ==
  /\ task[a][k] = "sem" /\ permits > 0
  /\ permits' = permits - 1
  /\ task' = [task EXCEPT ![a][k] = "run"]
  /\ proc' = [proc EXCEPT ![joined[a][k]] = "slot"]
  /\ UNCHANGED <<db, inflight, whose, fut, logs, caller, queue, joined, counted>>

(* The script cannot be started (OSError): the log is read all the same.    *)
LaunchFails(a, k) ==
  /\ task[a][k] = "sem" /\ permits > 0
  /\ task' = [task EXCEPT ![a][k] = "read"]
  /\ UNCHANGED <<db, shared, procs, caller, queue, joined, counted>>

(* The script has a slot: it truncates the label's log, then runs docker.   *)
StartContainer(r) ==
  /\ proc[r] = "slot"
  /\ proc' = [proc EXCEPT ![r] = "cont"]
  /\ logs' = [logs EXCEPT ![whose[r].arm][whose[r].key] = {}]
  /\ UNCHANGED <<db, shared, whose, fut, caller, pool, counted>>

(* The container ends, with or without a result line.  When the owner still *)
(* waits for the script, subprocess.run returns and the permit is released. *)
Awaited(r) == task[whose[r].arm][whose[r].key] = "run" /\ joined[whose[r].arm][whose[r].key] = r
Printed(r) == {{}} \cup {{[ok |-> o, src |-> r]} : o \in BOOLEAN}
EndContainerKeepsPermit(r) ==
  /\ proc[r] = "cont"
  /\ proc' = [proc EXCEPT ![r] = "gone"]
  /\ \E new \in Printed(r) :
       logs' = [logs EXCEPT ![whose[r].arm][whose[r].key] = @ \cup new]
  /\ IF Awaited(r) THEN task' = [task EXCEPT ![whose[r].arm][whose[r].key] = "read"]
     ELSE UNCHANGED task
  /\ UNCHANGED <<db, inflight, permits, whose, fut, caller, queue, joined, counted>>
EndContainer(r) ==
  /\ proc[r] = "cont"
  /\ proc' = [proc EXCEPT ![r] = "gone"]
  /\ \E new \in Printed(r) :
       logs' = [logs EXCEPT ![whose[r].arm][whose[r].key] = @ \cup new]
  /\ IF Awaited(r)
     THEN /\ task' = [task EXCEPT ![whose[r].arm][whose[r].key] = "read"]
          /\ permits' = permits + 1
     ELSE UNCHANGED <<task, permits>>
  /\ UNCHANGED <<db, inflight, whose, fut, caller, queue, joined, counted>>

(* TimeoutExpired: subprocess.run kills the script, never the container.    *)
TimeoutKeepsPermit(a, k) ==
  /\ task[a][k] = "run" /\ timeouts < MaxTimeouts
  /\ task' = [task EXCEPT ![a][k] = "read"]
  /\ proc' = [proc EXCEPT ![joined[a][k]] = IF @ = "slot" THEN "gone" ELSE @]
  /\ timeouts' = timeouts + 1
  /\ UNCHANGED <<db, shared, whose, fut, logs, caller, queue, joined, calls, crashes>>
Timeout(a, k) ==
  /\ task[a][k] = "run" /\ timeouts < MaxTimeouts
  /\ task' = [task EXCEPT ![a][k] = "read"]
  /\ permits' = permits + 1
  /\ proc' = [proc EXCEPT ![joined[a][k]] = IF @ = "slot" THEN "gone" ELSE @]
  /\ timeouts' = timeouts + 1
  /\ UNCHANGED <<db, inflight, whose, fut, logs, caller, queue, joined, calls, crashes>>

(* The log's last result line is the answer, whichever run printed it, and  *)
(* the future is resolved with it.  The writers' offsets in a log that was  *)
(* truncated under one of them decide which line is last: any may be.       *)
LogAnswersOfArm(a, k) == {Value(l.ok, l.src) : l \in UNION {logs[a][j] : j \in Keys}}
LogAnswers(a, k) == {Value(l.ok, l.src) : l \in logs[a][k]}
ReadLog(a, k) ==
  LET found == LogAnswers(a, k) IN
  /\ task[a][k] = "read"
  /\ \E res \in IF found = {} THEN {Value(FALSE, 0)} ELSE found :
       fut' = [fut EXCEPT ![joined[a][k]] = res]
  /\ task' = [task EXCEPT ![a][k] = "pop"]
  /\ UNCHANGED <<db, shared, whose, proc, logs, caller, queue, joined, counted>>

(* _run raises (an undecodable log, say): the future carries the exception. *)
RunRaisesForgetsFuture(a, k) ==
  /\ task[a][k] = "read"
  /\ task' = [task EXCEPT ![a][k] = "pop"]
  /\ UNCHANGED <<db, shared, procs, caller, queue, joined, counted>>
RunRaises(a, k) ==
  /\ task[a][k] = "read"
  /\ fut' = [fut EXCEPT ![joined[a][k]] = Raised]
  /\ task' = [task EXCEPT ![a][k] = "pop"]
  /\ UNCHANGED <<db, shared, whose, proc, logs, caller, queue, joined, counted>>

(* finally: the owner takes its entry out of the table.                     *)
Pop(a, k) ==
  /\ task[a][k] = "pop"
  /\ inflight' = [inflight EXCEPT ![k] = 0]
  /\ task' = [task EXCEPT ![a][k] = "done"]
  /\ UNCHANGED <<db, permits, procs, caller, queue, joined, counted>>

(* fut.result() returns, or raises, in a thread that joined the run.        *)
WakePops(a, k) ==
  /\ task[a][k] = "waiting" /\ fut[joined[a][k]] # Blank
  /\ inflight' = [inflight EXCEPT ![k] = 0]
  /\ task' = [task EXCEPT ![a][k] = "done"]
  /\ UNCHANGED <<db, permits, procs, caller, queue, joined, counted>>
Wake(a, k) ==
  /\ task[a][k] = "waiting" /\ fut[joined[a][k]] # Blank
  /\ task' = [task EXCEPT ![a][k] = "done"]
  /\ UNCHANGED <<db, shared, procs, caller, queue, joined, counted>>

-----------------------------------------------------------------------------
(* list(ex.map(...)): results are consumed in order.  At the first one that *)
(* raises, the tasks not yet started are cancelled; the pool is then left   *)
(* once its running threads end, and the exception leaves the call.         *)
Fut(a, k) == fut[joined[a][k]]
Misses(a) == {i \in 1..Len(batch[a]) : out[a][i].st = "blank"}
Failing(a) == {i \in Misses(a) : task[a][batch[a][i]] = "done" /\ Fut(a, batch[a][i]) = Raised}

CancelQueued(a) ==
  /\ pc[a] = "exec" /\ queue[a] # <<>>
  /\ \E i \in Failing(a) : \A j \in Misses(a) : j < i => task[a][batch[a][j]] = "done"
  /\ queue' = [queue EXCEPT ![a] = <<>>]
  /\ UNCHANGED <<db, shared, procs, caller, task, joined, counted>>

LeavePool(a) ==
  /\ task' = [task EXCEPT ![a] = [k \in Keys |-> "idle"]]
  /\ joined' = [joined EXCEPT ![a] = [k \in Keys |-> 0]]
LeaveCall(a) ==
  /\ batch' = [batch EXCEPT ![a] = <<>>]
  /\ out' = [out EXCEPT ![a] = <<>>]

Drained(a) == pc[a] = "exec" /\ queue[a] = <<>> /\ Active(a) = {}

(* The results are fanned back out to the positions that missed.            *)
CollectFirstOnly(a) ==
  /\ Drained(a) /\ Failing(a) = {}
  /\ out' = [out EXCEPT ![a] = [i \in 1..Len(batch[a]) |->
               IF i \in Misses(a) /\ \A j \in Misses(a) : batch[a][j] = batch[a][i] => i <= j
               THEN Fut(a, batch[a][i]) ELSE out[a][i]]]
  /\ LeavePool(a)
  /\ pc' = [pc EXCEPT ![a] = "record"]
  /\ UNCHANGED <<db, shared, procs, batch, pos, queue, counted>>
Collect(a) ==
  /\ Drained(a) /\ Failing(a) = {}
  /\ out' = [out EXCEPT ![a] = [i \in 1..Len(batch[a]) |->
               IF i \in Misses(a) THEN Fut(a, batch[a][i]) ELSE out[a][i]]]
  /\ LeavePool(a)
  /\ pc' = [pc EXCEPT ![a] = "record"]
  /\ UNCHANGED <<db, shared, procs, batch, pos, queue, counted>>

CallRaises(a) ==
  /\ Drained(a) /\ Failing(a) # {}
  /\ LeavePool(a)
  /\ pc' = [pc EXCEPT ![a] = "dead"]
  /\ LeaveCall(a)
  /\ UNCHANGED <<db, shared, procs, pos, queue, counted>>

(* record_eval: the INSERT and the commit take the connection's lock apart. *)
(* A commit commits what every arm-run inserted so far.                     *)
Insert(a) ==
  /\ pc[a] = "record"
  /\ rows' = Append(rows, [arm |-> a, key |-> batch[a][pos[a]], ans |-> out[a][pos[a]]])
  /\ pc' = [pc EXCEPT ![a] = "commit"]
  /\ UNCHANGED <<committed, shared, procs, batch, pos, out, pool, counted>>

Commit(a) ==
  /\ pc[a] = "commit"
  /\ committed' = Len(rows)
  /\ pos' = [pos EXCEPT ![a] = NextPos(a)]
  /\ IF pos[a] < Len(batch[a])
     THEN pc' = [pc EXCEPT ![a] = "record"] /\ UNCHANGED <<batch, out>>
     ELSE pc' = [pc EXCEPT ![a] = "idle"] /\ LeaveCall(a)
  /\ UNCHANGED <<rows, shared, procs, pool, counted>>

-----------------------------------------------------------------------------
(* The driver is killed and started again on the same ResultsDB: uncommitted *)
(* rows and all threads are gone, scripts and containers are not.            *)
Crash ==
  /\ crashes < MaxCrashes
  /\ rows' = SubSeq(rows, 1, committed)
  /\ inflight' = [k \in Keys |-> 0] /\ permits' = Workers
  /\ pc' = [a \in Arms |-> "idle"] /\ batch' = [a \in Arms |-> <<>>]
  /\ pos' = [a \in Arms |-> 1] /\ out' = [a \in Arms |-> <<>>]
  /\ queue' = [a \in Arms |-> <<>>]
  /\ task' = [a \in Arms |-> [k \in Keys |-> "idle"]]
  /\ joined' = [a \in Arms |-> [k \in Keys |-> 0]]
  /\ crashes' = crashes + 1
  /\ UNCHANGED <<committed, procs, calls, timeouts>>

(* Every arm-run has ended and no process is left.                          *)
Finished ==
  /\ \A a \in Arms : pc[a] = "dead" \/ (pc[a] = "idle" /\ calls = MaxCalls)
  /\ \A r \in Runs : proc[r] \notin {"slot", "cont"}
  /\ UNCHANGED vars

Thread(a, k) ==
  \/ Launch(a, k) \/ LaunchFails(a, k) \/ ReadLog(a, k) \/ RunRaises(a, k)
  \/ Pop(a, k) \/ Wake(a, k)

Caller(a) ==
  \/ LookupHit(a) \/ LookupMiss(a) \/ Own(a) \/ Join(a) \/ CancelQueued(a)
  \/ Collect(a) \/ CallRaises(a) \/ Insert(a) \/ Commit(a)

Process(r) == StartContainer(r) \/ EndContainer(r)

Next ==
  \/ \E a \in Arms : Call(a) \/ Caller(a)
  \/ \E a \in Arms, k \in Keys : Thread(a, k) \/ Timeout(a, k)
  \/ \E r \in Runs : Process(r)
  \/ Crash
  \/ Finished

(* Threads are scheduled, every waiting script gets a slot and every        *)
(* container ends.  Arm-runs need not ask, and nothing need time out.       *)
Fairness ==
  /\ \A a \in Arms : WF_vars(Caller(a))
  /\ \A a \in Arms, k \in Keys : WF_vars(Thread(a, k))
  /\ WF_vars(\E r \in Runs : Process(r))

Spec     == Init /\ [][Next]_vars
FairSpec == Spec /\ Fairness
-----------------------------------------------------------------------------
TypeOK ==
  /\ rows \in Seq(Row) /\ committed \in 0..Len(rows)
  /\ inflight \in [Keys -> Nat] /\ permits \in Nat
  /\ whose \in Seq(OwnerOf) /\ proc \in Seq(ProcStates)
  /\ fut \in Seq(Futures) /\ Len(proc) = Len(whose) /\ Len(fut) = Len(whose)
  /\ logs \in [Arms -> [Keys -> SUBSET Lines]]
  /\ pc \in [Arms -> CallStates] /\ batch \in [Arms -> Seq(Keys)]
  /\ pos \in [Arms -> Nat] /\ out \in [Arms -> Seq(Answers)]
  /\ queue \in [Arms -> Seq(Keys)]
  /\ task \in [Arms -> [Keys -> TaskStates]]
  /\ joined \in [Arms -> [Keys -> Nat]]
  /\ calls \in Nat /\ timeouts \in Nat /\ crashes \in Nat

(* The futures of the threads in the pool: unresolved until the log is read,*)
(* resolved before the entry leaves the table, never resolved twice.        *)
FuturesFollowTasks == \A a \in Arms, k \in Keys :
  /\ IF task[a][k] = "idle" THEN joined[a][k] = 0 ELSE joined[a][k] \in Runs
  /\ task[a][k] \in {"sem", "run", "read"} => Fut(a, k) = Blank
  /\ task[a][k] \in {"pop", "done"} => Fut(a, k) # Blank

(* A pool only has the call's distinct misses, each once.                   *)
Queued(a, k) == \E i \in 1..Len(queue[a]) : queue[a][i] = k
Pooled(a) ==
  /\ pc[a] # "exec" => \A k \in Keys : task[a][k] = "idle"
  /\ pc[a] \notin {"lookup", "exec"} => queue[a] = <<>>
  /\ \A i, j \in 1..Len(queue[a]) : queue[a][i] = queue[a][j] => i = j
  /\ \A i \in 1..Len(queue[a]) : task[a][queue[a][i]] = "idle"
PoolOfCall == \A a \in Arms : Pooled(a)

(* Every position of a batch gets an answer that is a result, also when a   *)
(* key is repeated or only some look-ups of it hit; a call some task of     *)
(* which raised never gets to record (db.py evaluate_many).                 *)
Answered(a) ==
  /\ Len(out[a]) = Len(batch[a])
  /\ pc[a] \notin {"idle", "dead"} => pos[a] \in 1..Len(batch[a])
  /\ pc[a] \in {"lookup", "exec"} => \A i \in 1..Len(out[a]) : out[a][i].st # "value"
  /\ pc[a] = "lookup" => \A i \in Misses(a) : i < pos[a] => Queued(a, batch[a][i])
  /\ pc[a] = "exec" => \/ Failing(a) # {}
                      \/ \A i \in Misses(a) : Queued(a, batch[a][i]) \/ task[a][batch[a][i]] # "idle"
  /\ pc[a] \in {"record", "commit"} => Misses(a) = {}
AllAnswered == \A a \in Arms : Answered(a)

(* At most one thread of the whole driver owns a run of a key, and the      *)
(* in-flight table names that thread's run exactly while there is one       *)
(* (arm_eval.py evaluate).                                                  *)
OneOwner ==
  /\ \A k \in Keys : \A a, b \in Owners(k) : a = b
  /\ \A k \in Keys : \A a \in Owners(k) :
       /\ inflight[k] = joined[a][k] /\ joined[a][k] \in Runs
       /\ whose[joined[a][k]].arm = a /\ whose[joined[a][k]].key = k
  /\ \A k \in Keys : Owners(k) = {} => inflight[k] = 0

(* No permit is lost or made up: timeouts, failed launches and exceptions   *)
(* give back what they took, so the cap on running scripts stays Workers.   *)
PermitsExact == permits + Cardinality(Holders) = Workers

(* A thread that joined a run waits on a future that is resolved or that a  *)
(* thread still in evaluate will resolve: nobody waits for nothing.         *)
WaitersHaveOwners ==
  \A a \in Arms, k \in Keys : task[a][k] = "waiting" =>
    /\ joined[a][k] \in Runs
    /\ \/ fut[joined[a][k]] # Blank
       \/ \E b \in Arms : /\ task[b][k] \in OwnerStates /\ joined[b][k] = joined[a][k]

IInv == /\ TypeOK /\ FuturesFollowTasks /\ PoolOfCall /\ AllAnswered
        /\ OneOwner /\ WaitersHaveOwners

(* arm_eval.py:8 without timeouts and kills: two requests with the same     *)
(* identity never have their scripts or containers, which share the         *)
(* key-named work directory, at the same time.                              *)
OneProcessPerKey == \A k \in Keys : Cardinality(Live(k)) <= 1

(* Every replayed row repeats the earliest successful row of its key, so    *)
(* all the replays of an identity agree, also when two arm-runs measured it *)
(* (db.py lookup).                                                          *)
ReplaysAgree ==
  \A j \in 1..Len(rows) : rows[j].ans.st = "hit" =>
    \E i \in OkRows(rows[j].key) :
       /\ i < j /\ rows[i].ans.st # "hit" /\ rows[i].ans.src = rows[j].ans.src
       /\ \A h \in OkRows(rows[j].key) : i <= h

(* A row's result was printed by a run of the row's own key, whichever      *)
(* arm-run asked for it and however it came: own run, joined run, stale log *)
(* or replay.                                                               *)
RowsMatchKey ==
  \A j \in 1..Len(rows) : LET s == rows[j].ans.src IN
    s # 0 => s \in Runs /\ whose[s].key = rows[j].key

(* An arm-run never starts a run of a key for which it has itself recorded  *)
(* a success.                                                               *)
NoRerunOfOwnSuccess ==
  [][\A a \in Arms : Len(whose') > Len(whose) /\ whose'[Len(whose')].arm = a =>
       ~ \E i \in 1..Len(rows) : /\ rows[i].arm = a /\ rows[i].ans.ok
                                /\ rows[i].key = whose'[Len(whose')].key]_vars

(* db.py:150: "an experiment identity already measured is replayed instead  *)
(* of re-run".  Across arm-runs the code does not give this.                *)
MeasuredIsReplayed ==
  [][Len(whose') > Len(whose) => OkRows(whose'[Len(whose')].key) = {}]_vars

(* Every call of evaluate_many comes back (or raises), whatever expires,    *)
(* fails to start or raises on the way.                                     *)
CallsReturn ==
  \A a \in Arms : pc[a] \in {"lookup", "exec", "record", "commit"} ~> pc[a] \in {"idle", "dead"}

(* Whatever the threads, the processes and the database do, the evaluators  *)
(* keep the promise of SingleFlight: the table's runs are its flights.      *)
SF == INSTANCE SingleFlight
        WITH Callers <- Arms, Verdicts <- Futures, Undecided <- Blank, flight <- inflight,
             verdict <- fut, asked <- joined
ImplementsSingleFlight == SF!Init /\ [][SF!Next]_SF!vars
=============================================================================
