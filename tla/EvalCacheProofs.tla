--------------------------- MODULE EvalCacheProofs ---------------------------
(***************************************************************************)
(* IInv is inductive, permits are exact, and the evaluators implement      *)
(* SingleFlight: for any arm-runs, keys, batches and bounds.               *)
(***************************************************************************)
EXTENDS EvalCache, SequenceTheorems, FiniteSetTheorems, WellFoundedInduction, TLAPS

LEMMA InitIInv == Init => IInv
<1> SUFFICES ASSUME Init PROVE IInv
  OBVIOUS
<1> USE DEF Init
<1>1. TypeOK
  BY WorkersAssumption DEF TypeOK, TaskStates, CallStates
<1>2. FuturesFollowTasks
  BY DEF FuturesFollowTasks
<1>3. PoolOfCall
  BY DEF PoolOfCall, Pooled
<1>4. AllAnswered
  BY DEF AllAnswered, Answered, Misses
<1>5. OneOwner
  BY DEF OneOwner, Owners, OwnerStates
<1>6. WaitersHaveOwners
  BY DEF WaitersHaveOwners
<1> QED
  BY <1>1, <1>2, <1>3, <1>4, <1>5, <1>6 DEF IInv

(* What TypeOK says of a caller's own entries, element by element.          *)
LEMMA SequenceTypes ==
  ASSUME TypeOK, NEW a \in Arms
  PROVE  /\ batch[a] \in Seq(Keys) /\ Len(batch[a]) \in Nat
         /\ \A i \in 1..Len(batch[a]) : batch[a][i] \in Keys
         /\ queue[a] \in Seq(Keys) /\ Len(queue[a]) \in Nat
         /\ \A i \in 1..Len(queue[a]) : queue[a][i] \in Keys
         /\ out[a] \in Seq(Answers) /\ Len(out[a]) \in Nat
         /\ \A i \in 1..Len(out[a]) : out[a][i] \in Answers
         /\ \A k \in Keys : task[a][k] \in TaskStates /\ joined[a][k] \in Nat
         /\ pos[a] \in Nat
BY DEF TypeOK

(* A thread's step inside evaluate: its task moves on, no future that is    *)
(* resolved changes.  The call it serves sees nothing of it.                *)
LEMMA TaskStep ==
  ASSUME IInv, NEW a \in Arms, NEW k \in Keys, NEW s \in TaskStates \ {"idle"},
         task[a][k] \notin {"idle", "done"},
         task' = [task EXCEPT ![a][k] = s],
         \A r \in Runs : fut[r] # Blank => fut'[r] = fut[r],
         UNCHANGED <<pc, batch, pos, out, queue, joined, whose>>
  PROVE  /\ \A b \in Arms, j \in Keys : task'[b][j] = IF b = a /\ j = k THEN s ELSE task[b][j]
         /\ task' \in [Arms -> [Keys -> TaskStates]]
         /\ PoolOfCall' /\ AllAnswered'
<1>1. /\ \A b \in Arms, j \in Keys : task'[b][j] = IF b = a /\ j = k THEN s ELSE task[b][j]
      /\ task' \in [Arms -> [Keys -> TaskStates]]
  BY DEF IInv, TypeOK
<1>2. PoolOfCall'
  <2> SUFFICES ASSUME NEW b \in Arms PROVE
        /\ pc[b] # "exec" => \A j \in Keys : task'[b][j] = "idle"
        /\ pc[b] \notin {"lookup", "exec"} => queue[b] = <<>>
        /\ \A i, j \in 1..Len(queue[b]) : queue[b][i] = queue[b][j] => i = j
        /\ \A i \in 1..Len(queue[b]) : task'[b][queue[b][i]] = "idle"
    BY DEF PoolOfCall, Pooled
  <2>1. pc[b] # "exec" => \A j \in Keys : task'[b][j] = "idle"
    BY <1>1 DEF PoolOfCall, Pooled, IInv
  <2>2. ASSUME NEW i \in 1..Len(queue[b]) PROVE task'[b][queue[b][i]] = "idle"
    <3>1. queue[b][i] \in Keys /\ task[b][queue[b][i]] = "idle"
      BY SequenceTypes DEF PoolOfCall, Pooled, IInv
    <3> QED
      BY <1>1, <3>1
  <2> QED
    BY <2>1, <2>2 DEF PoolOfCall, Pooled, IInv
<1>3. \A b \in Arms : Failing(b) \subseteq Failing(b)'
  <2> SUFFICES ASSUME NEW b \in Arms, NEW i \in Failing(b) PROVE i \in Failing(b)'
    OBVIOUS
  <2>1. batch[b][i] \in Keys
    BY SequenceTypes DEF Failing, Misses, IInv
  <2>2. task[b][batch[b][i]] = "done" /\ joined[b][batch[b][i]] \in Runs
    BY <2>1 DEF Failing, FuturesFollowTasks, IInv
  <2>3. Fut(b, batch[b][i])' = Fut(b, batch[b][i])
    BY <2>1, <2>2 DEF Fut, FuturesFollowTasks, IInv
  <2> QED
    BY <1>1, <2>1, <2>2, <2>3 DEF Failing, Misses
<1>4. AllAnswered'
  <2> SUFFICES ASSUME NEW b \in Arms PROVE
        /\ Len(out[b]) = Len(batch[b])
        /\ pc[b] \notin {"idle", "dead"} => pos[b] \in 1..Len(batch[b])
        /\ pc[b] \in {"lookup", "exec"} => \A i \in 1..Len(out[b]) : out[b][i].st # "value"
        /\ pc[b] = "lookup" => \A i \in Misses(b) : i < pos[b] => Queued(b, batch[b][i])
        /\ pc[b] = "exec" => \/ Failing(b)' # {}
              \/ \A i \in Misses(b) : Queued(b, batch[b][i]) \/ task'[b][batch[b][i]] # "idle"
        /\ pc[b] \in {"record", "commit"} => Misses(b) = {}
    BY DEF AllAnswered, Answered, Misses, Queued
  <2>1. \A i \in Misses(b) : batch[b][i] \in Keys
    BY SequenceTypes DEF Misses, IInv
  <2>2. \A j \in Keys : task[b][j] # "idle" => task'[b][j] # "idle"
    BY <1>1
  <2> QED
    BY <1>3, <2>1, <2>2 DEF AllAnswered, Answered, IInv
<1> QED
  BY <1>1, <1>2, <1>4

LEMMA LaunchIInv == ASSUME NEW a \in Arms, NEW k \in Keys, IInv, Launch(a, k) PROVE IInv'
<1> USE DEF Launch, db, shared, procs, caller, pool, counted
<1>1. /\ \A b \in Arms, j \in Keys : task'[b][j] = IF b = a /\ j = k THEN "run" ELSE task[b][j]
      /\ task' \in [Arms -> [Keys -> TaskStates]]
      /\ PoolOfCall' /\ AllAnswered'
  BY TaskStep DEF TaskStates
<1>2. TypeOK'
  <2>1. joined[a][k] \in 1..Len(proc)
    BY DEF FuturesFollowTasks, Runs, IInv, TypeOK
  <2>2. proc' \in Seq(ProcStates) /\ Len(proc') = Len(proc)
    BY <2>1 DEF ProcStates, IInv, TypeOK
  <2>3. permits' \in Nat
    BY DEF IInv, TypeOK
  <2> QED
    BY <1>1, <2>2, <2>3 DEF TypeOK, IInv
<1>3. FuturesFollowTasks'
  BY <1>1 DEF FuturesFollowTasks, Runs, Fut, IInv
<1>4. OneOwner'
  BY <1>1 DEF OneOwner, Owners, OwnerStates, Runs, IInv
<1>5. WaitersHaveOwners'
  BY <1>1 DEF WaitersHaveOwners, OwnerStates, Runs, IInv
<1> QED
  BY <1>1, <1>2, <1>3, <1>4, <1>5 DEF IInv

LEMMA LaunchFailsIInv == ASSUME NEW a \in Arms, NEW k \in Keys, IInv, LaunchFails(a, k) PROVE IInv'
<1> USE DEF LaunchFails, db, shared, procs, caller, pool, counted
<1>1. /\ \A b \in Arms, j \in Keys : task'[b][j] = IF b = a /\ j = k THEN "read" ELSE task[b][j]
      /\ task' \in [Arms -> [Keys -> TaskStates]]
      /\ PoolOfCall' /\ AllAnswered'
  BY TaskStep DEF TaskStates
<1>2. TypeOK'
  BY <1>1 DEF TypeOK, IInv
<1>3. FuturesFollowTasks'
  BY <1>1 DEF FuturesFollowTasks, Runs, Fut, IInv
<1>4. OneOwner'
  BY <1>1 DEF OneOwner, Owners, OwnerStates, Runs, IInv
<1>5. WaitersHaveOwners'
  BY <1>1 DEF WaitersHaveOwners, OwnerStates, Runs, IInv
<1> QED
  BY <1>1, <1>2, <1>3, <1>4, <1>5 DEF IInv

LEMMA TimeoutIInv == ASSUME NEW a \in Arms, NEW k \in Keys, IInv, Timeout(a, k) PROVE IInv'
<1> USE DEF Timeout, db, shared, procs, caller, pool, counted
<1>1. /\ \A b \in Arms, j \in Keys : task'[b][j] = IF b = a /\ j = k THEN "read" ELSE task[b][j]
      /\ task' \in [Arms -> [Keys -> TaskStates]]
      /\ PoolOfCall' /\ AllAnswered'
  BY TaskStep DEF TaskStates
<1>2. TypeOK'
  <2>1. joined[a][k] \in 1..Len(proc)
    BY DEF FuturesFollowTasks, Runs, IInv, TypeOK
  <2>2. proc' \in Seq(ProcStates) /\ Len(proc') = Len(proc)
    BY <2>1 DEF ProcStates, IInv, TypeOK
  <2>3. permits' \in Nat /\ timeouts' \in Nat
    BY DEF IInv, TypeOK
  <2> QED
    BY <1>1, <2>2, <2>3 DEF TypeOK, IInv
<1>3. FuturesFollowTasks'
  BY <1>1 DEF FuturesFollowTasks, Runs, Fut, IInv
<1>4. OneOwner'
  BY <1>1 DEF OneOwner, Owners, OwnerStates, Runs, IInv
<1>5. WaitersHaveOwners'
  BY <1>1 DEF WaitersHaveOwners, OwnerStates, Runs, IInv
<1> QED
  BY <1>1, <1>2, <1>3, <1>4, <1>5 DEF IInv

(* Resolving the owner's future leaves every resolved future alone.         *)
LEMMA ResolveFuture ==
  ASSUME NEW a \in Arms, NEW k \in Keys, NEW v \in Futures \ {Blank},
         IInv, task[a][k] = "read", fut' = [fut EXCEPT ![joined[a][k]] = v]
  PROVE  /\ joined[a][k] \in Runs /\ fut[joined[a][k]] = Blank
         /\ fut' \in Seq(Futures) /\ Len(fut') = Len(fut)
         /\ \A r \in Runs : fut'[r] = IF r = joined[a][k] THEN v ELSE fut[r]
<1>1. joined[a][k] \in Runs /\ fut[joined[a][k]] = Blank
  BY DEF FuturesFollowTasks, Fut, IInv
<1>2. Runs = 1..Len(fut) /\ fut \in Seq(Futures)
  BY DEF Runs, IInv, TypeOK
<1> QED
  BY <1>1, <1>2

LEMMA ReadLogIInv == ASSUME NEW a \in Arms, NEW k \in Keys, IInv, ReadLog(a, k) PROVE IInv'
<1> USE DEF db, shared, procs, caller, pool, counted
<1>b. /\ task[a][k] = "read" /\ task' = [task EXCEPT ![a][k] = "pop"]
      /\ UNCHANGED <<db, shared, whose, proc, logs, caller, queue, joined, counted>>
  BY DEF ReadLog
<1>a. LogAnswers(a, k) \subseteq Futures \ {Blank} /\ Value(FALSE, 0) \in Futures \ {Blank}
  BY DEF LogAnswers, Futures, Values, Value, Lines, Blank, IInv, TypeOK
<1>0. PICK v \in Futures \ {Blank} : fut' = [fut EXCEPT ![joined[a][k]] = v]
  BY <1>a DEF ReadLog
<1>r. /\ joined[a][k] \in Runs /\ fut[joined[a][k]] = Blank
      /\ fut' \in Seq(Futures) /\ Len(fut') = Len(fut)
      /\ \A r \in Runs : fut'[r] = IF r = joined[a][k] THEN v ELSE fut[r]
  BY <1>0, <1>b, ResolveFuture, ZenonT(40)
<1>1. /\ \A b \in Arms, j \in Keys : task'[b][j] = IF b = a /\ j = k THEN "pop" ELSE task[b][j]
      /\ task' \in [Arms -> [Keys -> TaskStates]]
      /\ PoolOfCall' /\ AllAnswered'
  BY <1>b, <1>r, TaskStep DEF TaskStates
<1>2. TypeOK'
  BY <1>1, <1>b, <1>r DEF TypeOK, IInv
<1>3. FuturesFollowTasks'
  <2> SUFFICES ASSUME NEW b \in Arms, NEW j \in Keys PROVE
        /\ IF task'[b][j] = "idle" THEN joined[b][j] = 0 ELSE joined[b][j] \in Runs
        /\ task'[b][j] \in {"sem", "run", "read"} => fut'[joined[b][j]] = Blank
        /\ task'[b][j] \in {"pop", "done"} => fut'[joined[b][j]] # Blank
    BY <1>b DEF FuturesFollowTasks, Fut, Runs
  <2>1. IF task'[b][j] = "idle" THEN joined[b][j] = 0 ELSE joined[b][j] \in Runs
    BY <1>1, <1>b DEF FuturesFollowTasks, IInv
  <2>2. ASSUME task'[b][j] \in {"sem", "run", "read"} PROVE fut'[joined[b][j]] = Blank
    <3>1. task[b][j] = task'[b][j] /\ joined[b][j] \in Runs /\ fut[joined[b][j]] = Blank
      BY <1>1, <1>b, <2>2 DEF FuturesFollowTasks, Fut, IInv
    <3>2. joined[b][j] # joined[a][k]
      BY <1>1, <1>b, <2>2, <3>1 DEF OneOwner, Owners, OwnerStates, IInv
    <3> QED
      BY <1>r, <3>1, <3>2
  <2>3. ASSUME task'[b][j] \in {"pop", "done"} PROVE fut'[joined[b][j]] # Blank
    BY <1>0, <1>b, <1>1, <1>r, <2>1, <2>3 DEF FuturesFollowTasks, Fut, IInv
  <2> QED
    BY <2>1, <2>2, <2>3
<1>4. OneOwner'
  BY <1>1, <1>b DEF OneOwner, Owners, OwnerStates, Runs, IInv
<1>5. WaitersHaveOwners'
  BY <1>0, <1>1, <1>b, <1>r DEF WaitersHaveOwners, OwnerStates, Runs, IInv
<1> QED
  BY <1>1, <1>2, <1>3, <1>4, <1>5 DEF IInv

LEMMA RunRaisesIInv == ASSUME NEW a \in Arms, NEW k \in Keys, IInv, RunRaises(a, k) PROVE IInv'
<1> USE DEF db, shared, procs, caller, pool, counted
<1>b. /\ task[a][k] = "read" /\ task' = [task EXCEPT ![a][k] = "pop"]
      /\ UNCHANGED <<db, shared, whose, proc, logs, caller, queue, joined, counted>>
  BY DEF RunRaises
<1>0. Raised \in Futures \ {Blank}
  BY DEF Futures, Raised, Blank
<1>c. fut' = [fut EXCEPT ![joined[a][k]] = Raised]
  BY DEF RunRaises
<1>r. /\ joined[a][k] \in Runs /\ fut[joined[a][k]] = Blank
      /\ fut' \in Seq(Futures) /\ Len(fut') = Len(fut)
      /\ \A r \in Runs : fut'[r] = IF r = joined[a][k] THEN Raised ELSE fut[r]
  BY <1>0, <1>c, <1>b, ResolveFuture, ZenonT(40)
<1>1. /\ \A b \in Arms, j \in Keys : task'[b][j] = IF b = a /\ j = k THEN "pop" ELSE task[b][j]
      /\ task' \in [Arms -> [Keys -> TaskStates]]
      /\ PoolOfCall' /\ AllAnswered'
  BY <1>b, <1>r, TaskStep DEF TaskStates
<1>2. TypeOK'
  BY <1>1, <1>b, <1>r DEF TypeOK, IInv
<1>3. FuturesFollowTasks'
  <2> SUFFICES ASSUME NEW b \in Arms, NEW j \in Keys PROVE
        /\ IF task'[b][j] = "idle" THEN joined[b][j] = 0 ELSE joined[b][j] \in Runs
        /\ task'[b][j] \in {"sem", "run", "read"} => fut'[joined[b][j]] = Blank
        /\ task'[b][j] \in {"pop", "done"} => fut'[joined[b][j]] # Blank
    BY <1>b DEF FuturesFollowTasks, Fut, Runs
  <2>1. IF task'[b][j] = "idle" THEN joined[b][j] = 0 ELSE joined[b][j] \in Runs
    BY <1>1, <1>b DEF FuturesFollowTasks, IInv
  <2>2. ASSUME task'[b][j] \in {"sem", "run", "read"} PROVE fut'[joined[b][j]] = Blank
    <3>1. task[b][j] = task'[b][j] /\ joined[b][j] \in Runs /\ fut[joined[b][j]] = Blank
      BY <1>1, <1>b, <2>2 DEF FuturesFollowTasks, Fut, IInv
    <3>2. joined[b][j] # joined[a][k]
      BY <1>1, <1>b, <2>2, <3>1 DEF OneOwner, Owners, OwnerStates, IInv
    <3> QED
      BY <1>r, <3>1, <3>2
  <2>3. ASSUME task'[b][j] \in {"pop", "done"} PROVE fut'[joined[b][j]] # Blank
    BY <1>0, <1>b, <1>1, <1>r, <2>1, <2>3 DEF FuturesFollowTasks, Fut, IInv
  <2> QED
    BY <2>1, <2>2, <2>3
<1>4. OneOwner'
  BY <1>1, <1>b DEF OneOwner, Owners, OwnerStates, Runs, IInv
<1>5. WaitersHaveOwners'
  BY <1>0, <1>1, <1>b, <1>r DEF WaitersHaveOwners, OwnerStates, Runs, IInv
<1> QED
  BY <1>1, <1>2, <1>3, <1>4, <1>5 DEF IInv

LEMMA PopIInv == ASSUME NEW a \in Arms, NEW k \in Keys, IInv, Pop(a, k) PROVE IInv'
<1> USE DEF Pop, db, shared, procs, caller, pool, counted
<1>1. /\ \A b \in Arms, j \in Keys : task'[b][j] = IF b = a /\ j = k THEN "done" ELSE task[b][j]
      /\ task' \in [Arms -> [Keys -> TaskStates]]
      /\ PoolOfCall' /\ AllAnswered'
  BY TaskStep DEF TaskStates
<1>2. TypeOK'
  BY <1>1 DEF TypeOK, IInv
<1>3. FuturesFollowTasks'
  BY <1>1 DEF FuturesFollowTasks, Runs, Fut, IInv
<1>4. OneOwner'
  <2>1. \A j \in Keys : inflight'[j] = IF j = k THEN 0 ELSE inflight[j]
    BY DEF TypeOK, IInv
  <2> QED
    BY <1>1, <2>1 DEF OneOwner, Owners, OwnerStates, Runs, IInv
<1>5. WaitersHaveOwners'
  <2>1. fut[joined[a][k]] # Blank
    BY DEF FuturesFollowTasks, Fut, IInv
  <2> QED
    BY <1>1, <2>1 DEF WaitersHaveOwners, OwnerStates, Runs, IInv
<1> QED
  BY <1>1, <1>2, <1>3, <1>4, <1>5 DEF IInv

LEMMA WakeIInv == ASSUME NEW a \in Arms, NEW k \in Keys, IInv, Wake(a, k) PROVE IInv'
<1> USE DEF Wake, db, shared, procs, caller, pool, counted
<1>1. /\ \A b \in Arms, j \in Keys : task'[b][j] = IF b = a /\ j = k THEN "done" ELSE task[b][j]
      /\ task' \in [Arms -> [Keys -> TaskStates]]
      /\ PoolOfCall' /\ AllAnswered'
  BY TaskStep DEF TaskStates
<1>2. TypeOK'
  BY <1>1 DEF TypeOK, IInv
<1>3. FuturesFollowTasks'
  BY <1>1 DEF FuturesFollowTasks, Runs, Fut, IInv
<1>4. OneOwner'
  BY <1>1 DEF OneOwner, Owners, OwnerStates, Runs, IInv
<1>5. WaitersHaveOwners'
  BY <1>1 DEF WaitersHaveOwners, OwnerStates, Runs, IInv
<1> QED
  BY <1>1, <1>2, <1>3, <1>4, <1>5 DEF IInv

LEMMA StartContainerIInv == ASSUME NEW r \in Runs, IInv, StartContainer(r) PROVE IInv'
<1> USE DEF StartContainer, db, shared, procs, caller, pool, counted
<1>1. TypeOK'
  <2>1. r \in 1..Len(proc) /\ proc' \in Seq(ProcStates) /\ Len(proc') = Len(proc)
    BY DEF Runs, ProcStates, IInv, TypeOK
  <2>2. logs' \in [Arms -> [Keys -> SUBSET Lines]]
    BY DEF IInv, TypeOK, Runs
  <2> QED
    BY <2>1, <2>2 DEF TypeOK, IInv
<1>2. FuturesFollowTasks' /\ PoolOfCall' /\ OneOwner' /\ WaitersHaveOwners'
  BY DEF IInv, FuturesFollowTasks, PoolOfCall, Pooled, OneOwner, Owners, WaitersHaveOwners, Fut, Runs
<1>3. AllAnswered'
  BY DEF IInv, AllAnswered, Answered, Misses, Failing, Fut, Queued
<1> QED
  BY <1>1, <1>2, <1>3 DEF IInv

(* Threads and calls alike are untouched when only process state changes.   *)
LEMMA EndContainerIInv == ASSUME NEW r \in Runs, IInv, EndContainer(r) PROVE IInv'
<1> USE DEF db, shared, procs, caller, pool, counted
<1> DEFINE a == whose[r].arm
           k == whose[r].key
<1>0. a \in Arms /\ k \in Keys
  <2>1. whose[r] \in OwnerOf
    BY DEF Runs, IInv, TypeOK
  <2> QED
    BY <2>1 DEF OwnerOf
<1>1. proc' \in Seq(ProcStates) /\ Len(proc') = Len(proc)
  BY DEF EndContainer, Runs, ProcStates, IInv, TypeOK
<1>2. logs' \in [Arms -> [Keys -> SUBSET Lines]]
  <2>1. PICK new \in SUBSET Lines : logs' = [logs EXCEPT ![a][k] = @ \cup new]
    <3>1. Printed(r) \subseteq SUBSET Lines
      BY DEF Printed, Lines, Runs
    <3> QED
      BY <3>1 DEF EndContainer
  <2> QED
    BY <1>0, <2>1 DEF IInv, TypeOK
<1>3. UNCHANGED <<db, inflight, whose, fut, caller, queue, joined, counted>>
  BY DEF EndContainer
<1>4. CASE ~Awaited(r)
  <2>1. UNCHANGED <<task, permits>>
    BY <1>4 DEF EndContainer
  <2>2. TypeOK'
    BY <1>1, <1>2, <1>3, <2>1 DEF TypeOK, IInv
  <2>3. FuturesFollowTasks' /\ PoolOfCall' /\ OneOwner' /\ WaitersHaveOwners'
    BY <1>3, <2>1 DEF IInv, FuturesFollowTasks, PoolOfCall, Pooled, OneOwner, Owners, WaitersHaveOwners, Fut, Runs
  <2>4. AllAnswered'
    BY <1>3, <2>1 DEF IInv, AllAnswered, Answered, Misses, Failing, Fut, Queued
  <2> QED
    BY <2>2, <2>3, <2>4 DEF IInv
<1>5. CASE Awaited(r)
  <2>1. /\ task[a][k] = "run" /\ task' = [task EXCEPT ![a][k] = "read"]
        /\ permits' = permits + 1
    BY <1>5 DEF EndContainer, Awaited
  <2> HIDE DEF a, k
  <2>2. /\ \A b \in Arms, j \in Keys : task'[b][j] = IF b = a /\ j = k THEN "read" ELSE task[b][j]
        /\ task' \in [Arms -> [Keys -> TaskStates]]
        /\ PoolOfCall' /\ AllAnswered'
    BY <1>0, <1>3, <2>1, TaskStep DEF TaskStates
  <2>3. TypeOK'
    <3>1. permits' \in Nat
      BY <2>1 DEF TypeOK, IInv
    <3> QED
      BY <1>1, <1>2, <1>3, <2>2, <3>1 DEF TypeOK, IInv
  <2>4. FuturesFollowTasks'
    BY <1>3, <2>1, <2>2 DEF FuturesFollowTasks, Runs, Fut, IInv
  <2>5. OneOwner'
    BY <1>3, <2>1, <2>2 DEF OneOwner, Owners, OwnerStates, Runs, IInv
  <2>6. WaitersHaveOwners'
    BY <1>3, <2>1, <2>2 DEF WaitersHaveOwners, OwnerStates, Runs, IInv
  <2> QED
    BY <2>2, <2>3, <2>4, <2>5, <2>6 DEF IInv
<1> QED
  BY <1>4, <1>5

(* The caller's steps.                                                      *)
LEMMA CallFrame ==
  ASSUME IInv, NEW c \in Arms, UNCHANGED fut, pc'[c] = pc[c], batch'[c] = batch[c],
         out'[c] = out[c], pos'[c] = pos[c], queue'[c] = queue[c], task'[c] = task[c],
         joined'[c] = joined[c]
  PROVE  Pooled(c)' /\ Answered(c)'
<1>1. Pooled(c) /\ Answered(c)
  BY DEF IInv, PoolOfCall, AllAnswered
<1>2. Misses(c)' = Misses(c)
  BY DEF Misses
<1>3. Failing(c)' = Failing(c)
  BY <1>2 DEF Failing, Fut
<1> QED
  BY <1>1, <1>2, <1>3 DEF Pooled, Answered, Queued

LEMMA CallIInv == ASSUME NEW a \in Arms, IInv, Call(a) PROVE IInv'
<1> USE DEF db, shared, procs, caller, pool, counted
<1>1. PICK b \in Batches : /\ batch' = [batch EXCEPT ![a] = b]
                           /\ out' = [out EXCEPT ![a] = [i \in 1..Len(b) |-> Blank]]
  BY DEF Call
<1>2. b \in Seq(Keys) /\ b # <<>> /\ Len(b) \in Nat \ {0}
  BY BatchesAssumption
<1>3. /\ pc[a] = "idle" /\ pc' = [pc EXCEPT ![a] = "lookup"] /\ pos' = [pos EXCEPT ![a] = 1]
      /\ calls' = calls + 1
      /\ UNCHANGED <<db, shared, procs, pool, timeouts, crashes>>
  BY DEF Call
<1>4. /\ [i \in 1..Len(b) |-> Blank] \in Seq(Answers) /\ Len([i \in 1..Len(b) |-> Blank]) = Len(b)
      /\ \A i \in 1..Len(b) : [j \in 1..Len(b) |-> Blank][i] = Blank
  BY <1>2 DEF Answers
<1>5. TypeOK'
  BY <1>1, <1>2, <1>3, <1>4 DEF TypeOK, CallStates, IInv
<1>6. FuturesFollowTasks' /\ OneOwner' /\ WaitersHaveOwners'
  BY <1>3 DEF IInv, FuturesFollowTasks, OneOwner, Owners, WaitersHaveOwners, Fut, Runs
<1>7. /\ batch'[a] = b /\ out'[a] = [i \in 1..Len(b) |-> Blank] /\ pc'[a] = "lookup" /\ pos'[a] = 1
      /\ \A c \in Arms \ {a} : /\ batch'[c] = batch[c] /\ out'[c] = out[c]
                               /\ pc'[c] = pc[c] /\ pos'[c] = pos[c]
  BY <1>1, <1>3 DEF IInv, TypeOK
<1>8. PoolOfCall' /\ AllAnswered'
  <2> SUFFICES ASSUME NEW c \in Arms PROVE Pooled(c)' /\ Answered(c)'
    BY DEF PoolOfCall, AllAnswered
  <2>1. CASE c = a
    <3>1. Pooled(c)'
      BY <1>3, <1>7, <2>1 DEF Pooled, PoolOfCall, IInv
    <3>2. Answered(c)'
      BY <1>2, <1>4, <1>7, <2>1 DEF Answered, Misses, Blank
    <3> QED
      BY <3>1, <3>2
  <2>2. CASE c # a
    BY <1>3, <1>7, <2>2, CallFrame
  <2> QED
    BY <2>1, <2>2
<1> QED
  BY <1>5, <1>6, <1>8 DEF IInv

(* A look-up that hits takes a row that exists: the first one.              *)
LEMMA FirstRowIsRow ==
  ASSUME NEW k \in Keys, OkRows(k) # {}
  PROVE  FirstRow(OkRows(k)) \in OkRows(k) /\ \A j \in OkRows(k) : FirstRow(OkRows(k)) <= j
<1> DEFINE S == OkRows(k)
           R == {ss \in Nat \X Nat : ss[1] < ss[2]}
<1>1. S \subseteq Nat
  BY DEF OkRows
<1>2. IsWellFoundedOn(R, Nat)
  BY NatLessThanWellFounded DEF OpToRel
<1>3. \E i \in S : \A j \in S : ~(<<j, i>> \in R)
  <2> HIDE DEF R
  <2> QED
    BY <1>1, <1>2, WFMin
<1>4. PICK i \in S : \A j \in S : ~(<<j, i>> \in R)
  BY <1>3
<1>5. \A j \in Nat : j < i => <<j, i>> \in R
  <2> SUFFICES ASSUME NEW j \in Nat, j < i PROVE <<j, i>> \in R
    OBVIOUS
  <2>1. <<j, i>> \in Nat \X Nat /\ <<j, i>>[1] = j /\ <<j, i>>[2] = i
    BY <1>1
  <2> QED
    BY <2>1
<1>6. \A j \in S : i <= j
  <2> SUFFICES ASSUME NEW j \in S, ~(i <= j) PROVE FALSE
    OBVIOUS
  <2>1. j \in Nat /\ i \in Nat /\ j < i
    BY <1>1
  <2> HIDE DEF R, S
  <2>2. <<j, i>> \in R
    BY <1>5, <2>1
  <2> QED
    BY <1>4, <2>2
<1> QED
  BY <1>6 DEF FirstRow

LEMMA LookupHitIInv == ASSUME NEW a \in Arms, IInv, LookupHit(a) PROVE IInv'
<1> USE DEF db, shared, procs, caller, pool, counted
<1> DEFINE k == batch[a][pos[a]]
           h == Hit(rows[FirstRow(OkRows(k))].ans.src)
<1>1. /\ pc[a] = "lookup" /\ OkRows(k) # {}
      /\ out' = [out EXCEPT ![a][pos[a]] = h]
      /\ pc' = [pc EXCEPT ![a] = AfterLookup(a, queue[a])]
      /\ pos' = [pos EXCEPT ![a] = NextPos(a)]
      /\ UNCHANGED <<db, shared, procs, batch, pool, counted>>
  BY DEF LookupHit
<1>2. pos[a] \in 1..Len(batch[a]) /\ Len(out[a]) = Len(batch[a]) /\ k \in Keys
  BY <1>1, SequenceTypes DEF IInv, AllAnswered, Answered
<1>3. h \in Answers /\ h.st = "hit"
  <2>1. rows[FirstRow(OkRows(k))] \in Row
    <3>1. FirstRow(OkRows(k)) \in OkRows(k)
      BY <1>1, <1>2, FirstRowIsRow
    <3>2. FirstRow(OkRows(k)) \in 1..Len(rows)
      BY <3>1 DEF OkRows
    <3> QED
      BY <3>2 DEF IInv, TypeOK
  <2>2. rows[FirstRow(OkRows(k))].ans.src \in Nat
    BY <2>1 DEF Row, Answers, Values, Blank
  <2> QED
    BY <2>2 DEF Answers, Hit
<1> HIDE DEF h, k
<1>4. /\ pos'[a] = NextPos(a) /\ pc'[a] = AfterLookup(a, queue[a])
      /\ out'[a] = [out[a] EXCEPT ![pos[a]] = h]
      /\ \A c \in Arms \ {a} : pos'[c] = pos[c] /\ pc'[c] = pc[c] /\ out'[c] = out[c]
  BY <1>1 DEF IInv, TypeOK
<1>5. /\ out'[a] \in Seq(Answers) /\ Len(out'[a]) = Len(out[a])
      /\ \A i \in 1..Len(out[a]) : out'[a][i] = IF i = pos[a] THEN h ELSE out[a][i]
  BY <1>2, <1>3, <1>4, SequenceTypes DEF IInv
<1>6. NextPos(a) \in 1..Len(batch[a]) /\ AfterLookup(a, queue[a]) \in CallStates
  BY <1>2, SequenceTypes DEF NextPos, AfterLookup, CallStates, IInv
<1>7. TypeOK'
  BY <1>1, <1>4, <1>5, <1>6, SequenceTypes, SMTT(30) DEF IInv, TypeOK
<1>8. FuturesFollowTasks' /\ OneOwner' /\ WaitersHaveOwners'
  BY <1>1 DEF IInv, FuturesFollowTasks, OneOwner, Owners, WaitersHaveOwners, Fut, Runs
<1>9. Pooled(a)' /\ Answered(a)'
  <2>1. Pooled(a) /\ Answered(a)
    BY DEF IInv, PoolOfCall, AllAnswered
  <2>2. Misses(a)' = Misses(a) \ {pos[a]}
    BY <1>1, <1>2, <1>3, <1>5 DEF Misses
  <2>3. Pooled(a)'
    BY <1>1, <1>4, <2>1 DEF Pooled, AfterLookup
  <2>4. \A j : Queued(a, j)' = Queued(a, j)
    BY <1>1 DEF Queued
  <2>5. \A i \in 1..Len(out'[a]) : out'[a][i].st # "value"
    BY <1>1, <1>3, <1>5, <2>1 DEF Answered
  <2>7. \A i \in Misses(a)' : i <= pos[a] => Queued(a, batch[a][i])'
    BY <1>1, <1>2, <2>1, <2>2, <2>4, SequenceTypes DEF Answered, Misses, IInv
  <2>8. \A i \in Misses(a)' : i < pos'[a] => Queued(a, batch[a][i])'
    BY <1>2, <1>4, <2>7, SequenceTypes DEF NextPos, Misses, IInv
  <2>9. pc'[a] \in {"exec", "record"} => \A i \in Misses(a)' : Queued(a, batch[a][i])'
    <3>1. pc'[a] \in {"exec", "record"} => pos[a] = Len(batch[a])
      BY <1>2, <1>4, SequenceTypes DEF AfterLookup, IInv
    <3>2. \A i \in Misses(a)' : i \in 1..Len(batch[a])
      BY <1>1 DEF Misses
    <3> QED
      BY <2>7, <3>1, <3>2, SequenceTypes DEF IInv
  <2>10. pc'[a] = "record" => queue'[a] = <<>>
    BY <1>1, <1>4 DEF AfterLookup
  <2>11. pc'[a] = "record" => Misses(a)' = {}
    BY <2>9, <2>10 DEF Queued
  <2>12. pc'[a] \in {"lookup", "exec", "record"}
    BY <1>4 DEF AfterLookup
  <2>13. Answered(a)'
    BY <1>1, <1>2, <1>4, <1>5, <1>6, <2>5, <2>8, <2>9, <2>11, <2>12 DEF Answered
  <2> QED
    BY <2>3, <2>13
<1>10. \A c \in Arms \ {a} : Pooled(c)' /\ Answered(c)'
  BY <1>1, <1>4, CallFrame
<1> QED
  BY <1>7, <1>8, <1>9, <1>10 DEF IInv, PoolOfCall, AllAnswered

LEMMA LookupMissIInv == ASSUME NEW a \in Arms, IInv, LookupMiss(a) PROVE IInv'
<1> USE DEF db, shared, procs, caller, pool, counted
<1> DEFINE k == batch[a][pos[a]]
           q == IF \E i \in 1..Len(queue[a]) : queue[a][i] = k THEN queue[a] ELSE Append(queue[a], k)
<1>1. /\ pc[a] = "lookup"
      /\ queue' = [queue EXCEPT ![a] = q]
      /\ pc' = [pc EXCEPT ![a] = AfterLookup(a, q)]
      /\ pos' = [pos EXCEPT ![a] = NextPos(a)]
      /\ UNCHANGED <<db, shared, procs, batch, out, task, joined, counted>>
  BY DEF LookupMiss
<1>2. pos[a] \in 1..Len(batch[a]) /\ Len(out[a]) = Len(batch[a]) /\ k \in Keys
  BY <1>1, SequenceTypes DEF IInv, AllAnswered, Answered
<1>3. /\ q \in Seq(Keys) /\ Len(q) \in Nat
      /\ \A i \in 1..Len(q) : q[i] = k \/ (i \in 1..Len(queue[a]) /\ q[i] = queue[a][i])
      /\ \A i \in 1..Len(queue[a]) : i \in 1..Len(q) /\ q[i] = queue[a][i]
      /\ \E i \in 1..Len(q) : q[i] = k
      /\ \A i, j \in 1..Len(q) : q[i] = q[j] => i = j
  <2>1. \A i, j \in 1..Len(queue[a]) : queue[a][i] = queue[a][j] => i = j
    BY DEF IInv, PoolOfCall, Pooled
  <2>2. CASE \E i \in 1..Len(queue[a]) : queue[a][i] = k
    BY <2>1, <2>2, SequenceTypes DEF IInv
  <2>3. CASE ~(\E i \in 1..Len(queue[a]) : queue[a][i] = k)
    <3>1. /\ q = Append(queue[a], k) /\ q \in Seq(Keys) /\ Len(q) = Len(queue[a]) + 1
          /\ q[Len(queue[a]) + 1] = k
          /\ \A i \in 1..Len(queue[a]) : q[i] = queue[a][i]
      BY <1>2, <2>3, SequenceTypes DEF IInv
    <3> HIDE DEF q, k
    <3>2. Len(queue[a]) \in Nat
      BY SequenceTypes DEF IInv
    <3> QED
      BY <2>1, <2>3, <3>1, <3>2
  <2> QED
    BY <2>2, <2>3
<1> HIDE DEF q, k
<1>4. /\ pos'[a] = NextPos(a) /\ pc'[a] = AfterLookup(a, q) /\ queue'[a] = q
      /\ \A c \in Arms \ {a} : pos'[c] = pos[c] /\ pc'[c] = pc[c] /\ queue'[c] = queue[c]
  BY <1>1 DEF IInv, TypeOK
<1>5. NextPos(a) \in 1..Len(batch[a]) /\ AfterLookup(a, q) \in CallStates
  BY <1>2, SequenceTypes DEF NextPos, AfterLookup, CallStates, IInv
<1>6. TypeOK'
  <2>1. queue' \in [Arms -> Seq(Keys)]
    BY <1>1, <1>3 DEF IInv, TypeOK
  <2>2. pc' \in [Arms -> CallStates] /\ pos' \in [Arms -> Nat]
    <3>1. NextPos(a) \in Nat
      BY <1>2, SequenceTypes DEF NextPos, IInv
    <3> QED
      BY <1>1, <1>5, <3>1 DEF IInv, TypeOK
  <2> QED
    BY <1>1, <2>1, <2>2 DEF IInv, TypeOK
<1>7. FuturesFollowTasks' /\ OneOwner' /\ WaitersHaveOwners'
  BY <1>1 DEF IInv, FuturesFollowTasks, OneOwner, Owners, WaitersHaveOwners, Fut, Runs
<1>8. Pooled(a)' /\ Answered(a)'
  <2>1. Pooled(a) /\ Answered(a)
    BY DEF IInv, PoolOfCall, AllAnswered
  <2>2. Misses(a)' = Misses(a) /\ \A i \in Misses(a) : i \in 1..Len(batch[a])
    BY <1>1 DEF Misses
  <2>3. pc'[a] \in {"lookup", "exec"}
    BY <1>3, <1>4 DEF AfterLookup
  <2>4. Pooled(a)'
    <3>1. \A i \in 1..Len(q) : task[a][q[i]] = "idle"
      BY <1>1, <1>2, <1>3, <2>1 DEF Pooled
    <3> QED
      BY <1>1, <1>3, <1>4, <2>1, <2>3, <3>1 DEF Pooled
  <2>5. \A i \in 1..Len(out'[a]) : out'[a][i].st # "value"
    BY <1>1, <2>1 DEF Answered
  <2>6. \A i \in Misses(a) : i <= pos[a] => Queued(a, batch[a][i])'
    <3>1. \A i \in Misses(a) : i < pos[a] => Queued(a, batch[a][i])
      BY <1>1, <2>1 DEF Answered
    <3>2. \A j : Queued(a, j) => Queued(a, j)'
      BY <1>3, <1>4 DEF Queued
    <3>3. \E j \in 1..Len(queue'[a]) : queue'[a][j] = batch[a][pos[a]]
      BY <1>3, <1>4 DEF k
    <3>4. \A i \in Misses(a) : i <= pos[a] => i < pos[a] \/ i = pos[a]
      BY <1>2, <2>2, SequenceTypes DEF IInv
    <3> QED
      BY <1>1, <3>1, <3>2, <3>3, <3>4 DEF Queued
  <2>7. \A i \in Misses(a) : i < pos'[a] => Queued(a, batch[a][i])'
    BY <1>2, <1>4, <2>2, <2>6, SequenceTypes DEF NextPos, IInv
  <2>8. pc'[a] = "exec" => \A i \in Misses(a) : Queued(a, batch[a][i])'
    <3>1. pc'[a] = "exec" => pos[a] = Len(batch[a])
      BY <1>2, <1>4, SequenceTypes DEF AfterLookup, IInv
    <3> QED
      BY <2>2, <2>6, <3>1, SequenceTypes DEF IInv
  <2>9. Answered(a)'
    BY <1>1, <1>2, <1>4, <1>5, <2>2, <2>3, <2>5, <2>7, <2>8 DEF Answered
  <2> QED
    BY <2>4, <2>9
<1>9. \A c \in Arms \ {a} : Pooled(c)' /\ Answered(c)'
  BY <1>1, <1>4, CallFrame
<1> QED
  BY <1>6, <1>7, <1>8, <1>9 DEF IInv, PoolOfCall, AllAnswered

(* A free thread takes the first queued task, which is that of an idle key. *)
LEMMA TakeTask ==
  ASSUME IInv, NEW a \in Arms, ThreadFree(a), NEW k, k = Head(queue[a]),
         NEW s \in {"sem", "waiting"}, NEW n \in Nat,
         task' = [task EXCEPT ![a][k] = s],
         joined' = [joined EXCEPT ![a][k] = n],
         queue' = [queue EXCEPT ![a] = Tail(@)],
         \A r \in Runs : fut'[r] = fut[r],
         UNCHANGED <<pc, batch, pos, out>>
  PROVE  /\ k \in Keys /\ task[a][k] = "idle"
         /\ queue' \in [Arms -> Seq(Keys)]
         /\ task' \in [Arms -> [Keys -> TaskStates]] /\ joined' \in [Arms -> [Keys -> Nat]]
         /\ \A b \in Arms, j \in Keys : task'[b][j] = IF b = a /\ j = k THEN s ELSE task[b][j]
         /\ \A b \in Arms, j \in Keys : joined'[b][j] = IF b = a /\ j = k THEN n ELSE joined[b][j]
         /\ PoolOfCall' /\ AllAnswered'
<1>1. /\ queue[a] \in Seq(Keys) /\ queue[a] # <<>> /\ Len(queue[a]) \in Nat
      /\ \A i \in 1..Len(queue[a]) : queue[a][i] \in Keys
      /\ pc[a] = "exec"
  BY SequenceTypes DEF ThreadFree, IInv
<1>2. /\ 1 \in 1..Len(queue[a]) /\ k = queue[a][1] /\ k \in Keys /\ task[a][k] = "idle"
  BY <1>1 DEF IInv, PoolOfCall, Pooled
<1> DEFINE q == Tail(queue[a])
<1>3. /\ q \in Seq(Keys) /\ Len(q) = Len(queue[a]) - 1
      /\ \A i \in 1..Len(q) : i + 1 \in 1..Len(queue[a]) /\ q[i] = queue[a][i + 1]
  BY <1>1
<1> HIDE DEF q
<1>4. /\ queue' \in [Arms -> Seq(Keys)] /\ queue'[a] = q
      /\ \A b \in Arms \ {a} : queue'[b] = queue[b]
  BY <1>3 DEF IInv, TypeOK, q
<1>5. /\ task' \in [Arms -> [Keys -> TaskStates]] /\ joined' \in [Arms -> [Keys -> Nat]]
      /\ \A b \in Arms, j \in Keys : task'[b][j] = IF b = a /\ j = k THEN s ELSE task[b][j]
      /\ \A b \in Arms, j \in Keys : joined'[b][j] = IF b = a /\ j = k THEN n ELSE joined[b][j]
  BY <1>2 DEF IInv, TypeOK, TaskStates
<1>6. ASSUME NEW j, Queued(a, j) PROVE Queued(a, j)' \/ j = k
  <2>1. PICK i \in 1..Len(queue[a]) : queue[a][i] = j
    BY <1>6 DEF Queued
  <2>2. CASE i = 1
    BY <1>2, <2>1, <2>2
  <2>3. CASE i # 1
    <3>1. i - 1 \in 1..Len(q) /\ q[i - 1] = j
      BY <1>1, <1>3, <2>1, <2>3
    <3> QED
      BY <1>4, <3>1 DEF Queued
  <2> QED
    BY <2>2, <2>3
<1>7. ASSUME NEW i \in 1..Len(q) PROVE q[i] # k /\ task[a][q[i]] = "idle"
  <2>1. i + 1 \in 1..Len(queue[a]) /\ q[i] = queue[a][i + 1] /\ i + 1 # 1
    BY <1>3
  <2>2. queue[a][i + 1] # queue[a][1]
    BY <1>2, <2>1 DEF IInv, PoolOfCall, Pooled
  <2>3. task[a][queue[a][i + 1]] = "idle"
    BY <2>1 DEF IInv, PoolOfCall, Pooled
  <2> QED
    BY <1>2, <2>1, <2>2, <2>3
<1>8. PoolOfCall'
  <2> SUFFICES ASSUME NEW b \in Arms PROVE Pooled(b)'
    BY DEF PoolOfCall
  <2>1. CASE b = a
    <3>1. \A i, j \in 1..Len(q) : q[i] = q[j] => i = j
      <4>1. \A i, j \in 1..Len(queue[a]) : queue[a][i] = queue[a][j] => i = j
        BY DEF IInv, PoolOfCall, Pooled
      <4>2. \A i, j \in 1..Len(q) : i + 1 = j + 1 => i = j
        BY <1>3
      <4> QED
        BY <1>3, <4>1, <4>2
    <3>2. \A i \in 1..Len(q) : q[i] \in Keys
      BY <1>3
    <3>3. \A i \in 1..Len(q) : task'[a][q[i]] = "idle"
      BY <1>5, <1>7, <3>2
    <3> QED
      BY <1>1, <1>4, <2>1, <3>1, <3>3 DEF Pooled
  <2>2. CASE b # a
    <3>1. \A j \in Keys : task'[b][j] = task[b][j]
      BY <1>5, <2>2
    <3>2. \A i \in 1..Len(queue[b]) : queue[b][i] \in Keys
      BY SequenceTypes DEF IInv
    <3> QED
      BY <1>4, <2>2, <3>1, <3>2 DEF Pooled, PoolOfCall, IInv
  <2> QED
    BY <2>1, <2>2
<1>9. AllAnswered'
  <2> SUFFICES ASSUME NEW b \in Arms PROVE Answered(b)'
    BY DEF AllAnswered
  <2>1. Answered(b) /\ Misses(b)' = Misses(b) /\ \A i \in Misses(b) : batch[b][i] \in Keys
    BY SequenceTypes DEF AllAnswered, Misses, IInv
  <2>2. Failing(b) \subseteq Failing(b)'
    <3> SUFFICES ASSUME NEW i \in Failing(b) PROVE i \in Failing(b)'
      OBVIOUS
    <3>1. i \in Misses(b) /\ batch[b][i] \in Keys /\ task[b][batch[b][i]] = "done"
      BY <2>1 DEF Failing
    <3>2. ~(b = a /\ batch[b][i] = k)
      BY <1>2, <3>1
    <3>3. task'[b][batch[b][i]] = "done" /\ joined'[b][batch[b][i]] = joined[b][batch[b][i]]
      BY <1>5, <3>1, <3>2
    <3>4. joined[b][batch[b][i]] \in Runs
      BY <3>1 DEF FuturesFollowTasks, IInv
    <3> QED
      BY <2>1, <3>1, <3>3, <3>4 DEF Failing, Fut
  <2>3. CASE b = a
    <3>1. \A j \in Keys : Queued(a, j) \/ task[a][j] # "idle" => Queued(a, j)' \/ task'[a][j] # "idle"
      BY <1>2, <1>5, <1>6
    <3>2. /\ Len(out[a]) = Len(batch[a]) /\ pos[a] \in 1..Len(batch[a])
          /\ \A i \in 1..Len(out[a]) : out[a][i].st # "value"
          /\ \/ Failing(a) # {}
             \/ \A i \in Misses(a) : Queued(a, batch[a][i]) \/ task[a][batch[a][i]] # "idle"
      BY <1>1, <2>1, <2>3 DEF Answered
    <3>3. \/ Failing(a)' # {}
          \/ \A i \in Misses(a) : Queued(a, batch[a][i])' \/ task'[a][batch[a][i]] # "idle"
      <4>1. CASE Failing(a) # {}
        BY <2>2, <2>3, <4>1
      <4>2. CASE \A i \in Misses(a) : Queued(a, batch[a][i]) \/ task[a][batch[a][i]] # "idle"
        BY <2>1, <2>3, <3>1, <4>2 DEF Queued
      <4> QED
        BY <3>2, <4>1, <4>2
    <3> QED
      BY <1>1, <2>1, <2>3, <3>2, <3>3 DEF Answered
  <2>4. CASE b # a
    <3>1. \A j : Queued(b, j)' = Queued(b, j)
      BY <1>4, <2>4 DEF Queued
    <3>2. \A j \in Keys : task'[b][j] = task[b][j]
      BY <1>5, <2>4
    <3>3. \A i \in Misses(b) : /\ Queued(b, batch[b][i])' = Queued(b, batch[b][i])
                               /\ task'[b][batch[b][i]] = task[b][batch[b][i]]
      BY <2>1, <3>1, <3>2
    <3> QED
      BY <2>1, <2>2, <3>3 DEF Answered
  <2> QED
    BY <2>3, <2>4
<1> QED
  BY <1>2, <1>4, <1>5, <1>8, <1>9

LEMMA JoinIInv == ASSUME NEW a \in Arms, IInv, Join(a) PROVE IInv'
<1> USE DEF db, shared, procs, caller, pool, counted
<1> DEFINE k == Head(queue[a])
<1>1. /\ ThreadFree(a) /\ inflight[k] # 0
      /\ task' = [task EXCEPT ![a][k] = "waiting"]
      /\ joined' = [joined EXCEPT ![a][k] = inflight[k]]
      /\ queue' = [queue EXCEPT ![a] = Tail(@)]
      /\ UNCHANGED <<db, shared, procs, caller, counted>>
  BY DEF Join
<1>2. k \in Keys
  BY <1>1, SequenceTypes DEF ThreadFree, IInv
<1> HIDE DEF k
<1>3. inflight[k] \in Nat
  BY <1>2 DEF IInv, TypeOK
<1>4. /\ k \in Keys /\ task[a][k] = "idle"
      /\ queue' \in [Arms -> Seq(Keys)]
      /\ task' \in [Arms -> [Keys -> TaskStates]] /\ joined' \in [Arms -> [Keys -> Nat]]
      /\ \A b \in Arms, j \in Keys :
           task'[b][j] = IF b = a /\ j = k THEN "waiting" ELSE task[b][j]
      /\ \A b \in Arms, j \in Keys :
           joined'[b][j] = IF b = a /\ j = k THEN inflight[k] ELSE joined[b][j]
      /\ PoolOfCall' /\ AllAnswered'
  BY <1>1, <1>3, TakeTask DEF k
<1>5. TypeOK'
  BY <1>1, <1>4 DEF IInv, TypeOK
<1>6. PICK o \in Arms : /\ task[o][k] \in OwnerStates /\ o # a
                        /\ joined[o][k] = inflight[k] /\ inflight[k] \in Runs
  BY <1>1, <1>2, <1>4 DEF OneOwner, Owners, OwnerStates, IInv
<1>7. FuturesFollowTasks'
  BY <1>1, <1>4, <1>6 DEF FuturesFollowTasks, Fut, Runs, IInv
<1>8. OneOwner'
  <2>1. \A b \in Arms, j \in Keys : task'[b][j] \in OwnerStates <=> task[b][j] \in OwnerStates
    BY <1>4 DEF OwnerStates
  <2>2. \A j \in Keys : Owners(j)' = Owners(j)
    BY <2>1 DEF Owners
  <2>3. \A j \in Keys : \A b \in Owners(j) : joined'[b][j] = joined[b][j]
    BY <1>4 DEF Owners, OwnerStates
  <2> QED
    BY <1>1, <2>2, <2>3 DEF OneOwner, Runs, IInv
<1>9. WaitersHaveOwners'
  <2> SUFFICES ASSUME NEW b \in Arms, NEW j \in Keys, task'[b][j] = "waiting"
               PROVE  /\ joined'[b][j] \in Runs'
                      /\ \/ fut'[joined'[b][j]] # Blank
                         \/ \E c \in Arms : /\ task'[c][j] \in OwnerStates
                                            /\ joined'[c][j] = joined'[b][j]
    BY DEF WaitersHaveOwners
  <2>1. CASE b = a /\ j = k
    BY <1>1, <1>4, <1>6, <2>1 DEF Runs
  <2>2. CASE ~(b = a /\ j = k)
    <3>1. task[b][j] = "waiting" /\ joined'[b][j] = joined[b][j]
      BY <1>4, <2>2
    <3>2. CASE fut[joined[b][j]] # Blank
      BY <1>1, <3>1, <3>2 DEF WaitersHaveOwners, Runs, IInv
    <3>3. CASE fut[joined[b][j]] = Blank
      <4>1. PICK c \in Arms : task[c][j] \in OwnerStates /\ joined[c][j] = joined[b][j]
        BY <3>1, <3>3 DEF WaitersHaveOwners, IInv
      <4>2. ~(c = a /\ j = k)
        BY <1>4, <4>1 DEF OwnerStates
      <4>3. task'[c][j] \in OwnerStates /\ joined'[c][j] = joined'[b][j]
        BY <1>4, <3>1, <4>1, <4>2
      <4> QED
        BY <1>1, <3>1, <4>3 DEF WaitersHaveOwners, Runs, IInv
    <3> QED
      BY <3>2, <3>3
  <2> QED
    BY <2>1, <2>2
<1> QED
  BY <1>4, <1>5, <1>7, <1>8, <1>9 DEF IInv

LEMMA OwnIInv == ASSUME NEW a \in Arms, IInv, Own(a) PROVE IInv'
<1> USE DEF db, shared, procs, caller, pool, counted
<1> DEFINE k == Head(queue[a])
           n == Len(whose) + 1
           o == [arm |-> a, key |-> k]
<1>1. /\ ThreadFree(a) /\ inflight[k] = 0
      /\ inflight' = [inflight EXCEPT ![k] = n]
      /\ whose' = Append(whose, o)
      /\ proc' = Append(proc, "none")
      /\ fut' = Append(fut, Blank)
      /\ task' = [task EXCEPT ![a][k] = "sem"]
      /\ joined' = [joined EXCEPT ![a][k] = n]
      /\ queue' = [queue EXCEPT ![a] = Tail(@)]
      /\ UNCHANGED <<db, permits, logs, caller, counted>>
  BY DEF Own
<1>2. k \in Keys /\ o \in OwnerOf /\ o.arm = a /\ o.key = k
  <2>1. k \in Keys
    BY <1>1, SequenceTypes DEF ThreadFree, IInv
  <2> QED
    BY <2>1 DEF OwnerOf
<1> HIDE DEF k, o
<1>3. /\ whose \in Seq(OwnerOf) /\ proc \in Seq(ProcStates) /\ fut \in Seq(Futures)
      /\ Len(whose) \in Nat /\ Len(proc) = Len(whose) /\ Len(fut) = Len(whose) /\ n \in Nat
  BY DEF IInv, TypeOK
<1>4. /\ whose' \in Seq(OwnerOf) /\ Len(whose') = n /\ whose'[n] = o
      /\ \A r \in Runs : whose'[r] = whose[r]
  BY <1>1, <1>2, <1>3 DEF Runs
<1>5. /\ proc' \in Seq(ProcStates) /\ Len(proc') = n
      /\ fut' \in Seq(Futures) /\ Len(fut') = n /\ fut'[n] = Blank
      /\ \A r \in Runs : fut'[r] = fut[r]
  BY <1>1, <1>3 DEF Runs, ProcStates, Futures
<1>6. Runs' = Runs \cup {n} /\ n \notin Runs
  BY <1>3, <1>4 DEF Runs
<1>7. /\ k \in Keys /\ task[a][k] = "idle"
      /\ queue' \in [Arms -> Seq(Keys)]
      /\ task' \in [Arms -> [Keys -> TaskStates]] /\ joined' \in [Arms -> [Keys -> Nat]]
      /\ \A b \in Arms, j \in Keys :
           task'[b][j] = IF b = a /\ j = k THEN "sem" ELSE task[b][j]
      /\ \A b \in Arms, j \in Keys :
           joined'[b][j] = IF b = a /\ j = k THEN n ELSE joined[b][j]
      /\ PoolOfCall' /\ AllAnswered'
  <2> HIDE DEF n
  <2> QED
    BY <1>1, <1>3, <1>5, TakeTask DEF k
<1>8. /\ inflight' \in [Keys -> Nat]
      /\ \A j \in Keys : inflight'[j] = IF j = k THEN n ELSE inflight[j]
  BY <1>1, <1>3, <1>7 DEF IInv, TypeOK
<1> HIDE DEF n
<1>9. TypeOK'
  BY <1>1, <1>4, <1>5, <1>7, <1>8 DEF IInv, TypeOK
<1>10. FuturesFollowTasks'
  <2> SUFFICES ASSUME NEW b \in Arms, NEW j \in Keys PROVE
        /\ IF task'[b][j] = "idle" THEN joined'[b][j] = 0 ELSE joined'[b][j] \in Runs'
        /\ task'[b][j] \in {"sem", "run", "read"} => fut'[joined'[b][j]] = Blank
        /\ task'[b][j] \in {"pop", "done"} => fut'[joined'[b][j]] # Blank
    BY DEF FuturesFollowTasks, Fut
  <2>1. CASE b = a /\ j = k
    BY <1>5, <1>6, <1>7, <2>1
  <2>2. CASE ~(b = a /\ j = k)
    <3>1. task'[b][j] = task[b][j] /\ joined'[b][j] = joined[b][j]
      BY <1>7, <2>2
    <3>2. IF task[b][j] = "idle" THEN joined[b][j] = 0 ELSE joined[b][j] \in Runs
      BY DEF FuturesFollowTasks, IInv
    <3>3. task[b][j] # "idle" => fut'[joined[b][j]] = fut[joined[b][j]]
      BY <1>5, <3>2
    <3> QED
      BY <1>6, <3>1, <3>2, <3>3 DEF FuturesFollowTasks, Fut, IInv
  <2> QED
    BY <2>1, <2>2
<1>11. Owners(k) = {}
  BY <1>1, <1>7 DEF OneOwner, Runs, IInv
<1>12. OneOwner'
  <2>1. \A j \in Keys : Owners(j)' = IF j = k THEN {a} ELSE Owners(j)
    <3>1. \A b \in Arms, j \in Keys :
            task'[b][j] \in OwnerStates <=> (b = a /\ j = k) \/ task[b][j] \in OwnerStates
      BY <1>7 DEF OwnerStates
    <3> QED
      BY <1>11, <3>1 DEF Owners
  <2> SUFFICES ASSUME NEW j \in Keys PROVE
        /\ \A b, c \in Owners(j)' : b = c
        /\ \A b \in Owners(j)' : /\ inflight'[j] = joined'[b][j] /\ joined'[b][j] \in Runs'
                                 /\ whose'[joined'[b][j]].arm = b /\ whose'[joined'[b][j]].key = j
        /\ Owners(j)' = {} => inflight'[j] = 0
    BY DEF OneOwner
  <2>2. CASE j = k
    <3>1. Owners(j)' = {a} /\ inflight'[j] = n /\ joined'[a][j] = n /\ n \in Runs'
      BY <1>6, <1>7, <1>8, <2>1, <2>2
    <3>2. whose'[n].arm = a /\ whose'[n].key = j
      BY <1>2, <1>4, <2>2
    <3> QED
      BY <2>2, <3>1, <3>2
  <2>3. CASE j # k
    <3>1. \A b \in Owners(j) : joined'[b][j] = joined[b][j]
      BY <1>7, <2>3 DEF Owners
    <3> QED
      BY <1>4, <1>6, <1>8, <2>1, <2>3, <3>1 DEF OneOwner, IInv
  <2> QED
    BY <2>2, <2>3
<1>13. WaitersHaveOwners'
  <2> SUFFICES ASSUME NEW b \in Arms, NEW j \in Keys, task'[b][j] = "waiting"
               PROVE  /\ joined'[b][j] \in Runs'
                      /\ \/ fut'[joined'[b][j]] # Blank
                         \/ \E c \in Arms : /\ task'[c][j] \in OwnerStates
                                            /\ joined'[c][j] = joined'[b][j]
    BY DEF WaitersHaveOwners
  <2>1. ~(b = a /\ j = k) /\ task[b][j] = "waiting" /\ joined'[b][j] = joined[b][j]
    BY <1>7
  <2>2. joined[b][j] \in Runs
    BY <2>1 DEF WaitersHaveOwners, IInv
  <2>3. CASE fut[joined[b][j]] # Blank
    BY <1>5, <1>6, <2>1, <2>2, <2>3
  <2>4. CASE fut[joined[b][j]] = Blank
    <3>1. PICK c \in Arms : task[c][j] \in OwnerStates /\ joined[c][j] = joined[b][j]
      BY <2>1, <2>4 DEF WaitersHaveOwners, IInv
    <3>2. ~(c = a /\ j = k)
      BY <1>7, <3>1 DEF OwnerStates
    <3> QED
      BY <1>6, <1>7, <2>1, <2>2, <3>1, <3>2
  <2> QED
    BY <2>3, <2>4
<1> QED
  BY <1>7, <1>9, <1>10, <1>12, <1>13 DEF IInv

LEMMA CancelQueuedIInv == ASSUME NEW a \in Arms, IInv, CancelQueued(a) PROVE IInv'
<1> USE DEF db, shared, procs, caller, pool, counted
<1>1. /\ pc[a] = "exec" /\ Failing(a) # {}
      /\ queue' = [queue EXCEPT ![a] = <<>>]
      /\ UNCHANGED <<db, shared, procs, caller, task, joined, counted>>
  BY DEF CancelQueued
<1>2. /\ queue' \in [Arms -> Seq(Keys)] /\ queue'[a] = <<>>
      /\ \A c \in Arms \ {a} : queue'[c] = queue[c]
  BY <1>1 DEF IInv, TypeOK
<1>3. TypeOK'
  BY <1>1, <1>2 DEF IInv, TypeOK
<1>4. FuturesFollowTasks' /\ OneOwner' /\ WaitersHaveOwners'
  BY <1>1 DEF IInv, FuturesFollowTasks, OneOwner, Owners, WaitersHaveOwners, Fut, Runs
<1>5. Pooled(a)' /\ Answered(a)'
  <2>1. Pooled(a) /\ Answered(a)
    BY DEF IInv, PoolOfCall, AllAnswered
  <2>2. Misses(a)' = Misses(a)
    BY <1>1 DEF Misses
  <2>3. Failing(a)' = Failing(a)
    BY <1>1, <2>2 DEF Failing, Fut
  <2>4. Pooled(a)'
    BY <1>1, <1>2, <2>1 DEF Pooled
  <2> QED
    BY <1>1, <2>1, <2>2, <2>3, <2>4 DEF Answered
<1>6. \A c \in Arms \ {a} : Pooled(c)' /\ Answered(c)'
  BY <1>1, <1>2, CallFrame
<1> QED
  BY <1>3, <1>4, <1>5, <1>6 DEF IInv, PoolOfCall, AllAnswered

(* A call that leaves its drained pool owns no run and waits for none.      *)
LEMMA LeavingPool ==
  ASSUME IInv, NEW a \in Arms, Drained(a), LeavePool(a),
         UNCHANGED <<inflight, whose, fut, queue>>
  PROVE  /\ task' \in [Arms -> [Keys -> TaskStates]] /\ joined' \in [Arms -> [Keys -> Nat]]
         /\ \A j \in Keys : task[a][j] \in {"idle", "done"}
         /\ \A j \in Keys : task'[a][j] = "idle" /\ joined'[a][j] = 0
         /\ \A c \in Arms \ {a} : task'[c] = task[c] /\ joined'[c] = joined[c]
         /\ FuturesFollowTasks' /\ OneOwner' /\ WaitersHaveOwners'
<1>1. \A j \in Keys : task[a][j] \in {"idle", "done"}
  BY DEF Drained, Active
<1>2. /\ task' \in [Arms -> [Keys -> TaskStates]] /\ joined' \in [Arms -> [Keys -> Nat]]
      /\ \A j \in Keys : task'[a][j] = "idle" /\ joined'[a][j] = 0
      /\ \A c \in Arms \ {a} : task'[c] = task[c] /\ joined'[c] = joined[c]
  BY DEF LeavePool, TaskStates, IInv, TypeOK
<1>3. FuturesFollowTasks'
  <2> SUFFICES ASSUME NEW b \in Arms, NEW j \in Keys PROVE
        /\ IF task'[b][j] = "idle" THEN joined'[b][j] = 0 ELSE joined'[b][j] \in Runs
        /\ task'[b][j] \in {"sem", "run", "read"} => fut[joined'[b][j]] = Blank
        /\ task'[b][j] \in {"pop", "done"} => fut[joined'[b][j]] # Blank
    BY DEF FuturesFollowTasks, Fut, Runs
  <2>1. CASE b = a
    BY <1>2, <2>1
  <2>2. CASE b # a
    BY <1>2, <2>2 DEF FuturesFollowTasks, Fut, IInv
  <2> QED
    BY <2>1, <2>2
<1>4. \A b \in Arms, j \in Keys : /\ task'[b][j] \in OwnerStates <=> task[b][j] \in OwnerStates
                                  /\ task[b][j] \in OwnerStates => joined'[b][j] = joined[b][j]
  BY <1>1, <1>2 DEF OwnerStates
<1>5. OneOwner'
  <2>1. \A j \in Keys : Owners(j)' = Owners(j)
    BY <1>4 DEF Owners
  <2>2. \A j \in Keys : \A b \in Owners(j) : joined'[b][j] = joined[b][j]
    BY <1>4 DEF Owners
  <2> QED
    BY <2>1, <2>2 DEF OneOwner, Runs, IInv
<1>6. WaitersHaveOwners'
  <2> SUFFICES ASSUME NEW b \in Arms, NEW j \in Keys, task'[b][j] = "waiting"
               PROVE  /\ joined'[b][j] \in Runs
                      /\ \/ fut[joined'[b][j]] # Blank
                         \/ \E c \in Arms : /\ task'[c][j] \in OwnerStates
                                            /\ joined'[c][j] = joined'[b][j]
    BY DEF WaitersHaveOwners, Runs
  <2>1. task[b][j] = "waiting" /\ joined'[b][j] = joined[b][j]
    BY <1>2
  <2> QED
    BY <1>4, <2>1 DEF WaitersHaveOwners, IInv
<1> QED
  BY <1>1, <1>2, <1>3, <1>5, <1>6

LEMMA CollectIInv == ASSUME NEW a \in Arms, IInv, Collect(a) PROVE IInv'
<1> USE DEF db, shared, procs, caller, pool, counted
<1> DEFINE o == [i \in 1..Len(batch[a]) |-> IF i \in Misses(a) THEN Fut(a, batch[a][i]) ELSE out[a][i]]
<1>1. /\ Drained(a) /\ Failing(a) = {} /\ LeavePool(a)
      /\ out' = [out EXCEPT ![a] = o]
      /\ pc' = [pc EXCEPT ![a] = "record"]
      /\ UNCHANGED <<db, shared, procs, batch, pos, queue, counted>>
  BY DEF Collect
<1>2. /\ task' \in [Arms -> [Keys -> TaskStates]] /\ joined' \in [Arms -> [Keys -> Nat]]
      /\ \A j \in Keys : task[a][j] \in {"idle", "done"}
      /\ \A j \in Keys : task'[a][j] = "idle" /\ joined'[a][j] = 0
      /\ \A c \in Arms \ {a} : task'[c] = task[c] /\ joined'[c] = joined[c]
      /\ FuturesFollowTasks' /\ OneOwner' /\ WaitersHaveOwners'
  BY <1>1, LeavingPool
<1>3. Pooled(a) /\ Answered(a) /\ pc[a] = "exec" /\ queue[a] = <<>>
  BY <1>1 DEF IInv, PoolOfCall, AllAnswered, Drained
<1>4. ASSUME NEW i \in 1..Len(batch[a])
      PROVE  o[i] \in Answers /\ o[i].st # "blank"
  <2>1. CASE i \in Misses(a)
    <3>1. batch[a][i] \in Keys
      BY SequenceTypes DEF IInv
    <3>2. ~Queued(a, batch[a][i])
      BY <1>3 DEF Queued
    <3>3. task[a][batch[a][i]] = "done"
      BY <1>1, <1>2, <1>3, <2>1, <3>1, <3>2 DEF Answered
    <3>4. Fut(a, batch[a][i]) # Raised
      BY <1>1, <2>1, <3>3 DEF Failing
    <3>5. Fut(a, batch[a][i]) # Blank /\ joined[a][batch[a][i]] \in Runs
      BY <3>1, <3>3 DEF FuturesFollowTasks, IInv
    <3>6. Fut(a, batch[a][i]) \in Futures
      BY <3>5, SMTT(30) DEF Fut, Runs, IInv, TypeOK
    <3>7. Fut(a, batch[a][i]) \in Values
      BY <3>4, <3>5, <3>6 DEF Futures
    <3>8. o[i] = Fut(a, batch[a][i])
      BY <2>1
    <3> QED
      BY <3>7, <3>8 DEF Answers, Values
  <2>2. CASE i \notin Misses(a)
    <3>1. o[i] = out[a][i] /\ out[a][i].st # "blank"
      BY <2>2 DEF Misses
    <3> QED
      BY <1>3, <3>1, SequenceTypes DEF Answered, IInv
  <2> QED
    BY <2>1, <2>2
<1>5. o \in Seq(Answers) /\ Len(o) = Len(batch[a])
  <2>1. Len(batch[a]) \in Nat
    BY SequenceTypes DEF IInv
  <2>2. o \in [1..Len(batch[a]) -> Answers]
    BY <1>4
  <2> HIDE DEF o
  <2> QED
    BY <2>1, <2>2
<1> HIDE DEF o
<1>6. /\ out' \in [Arms -> Seq(Answers)] /\ pc' \in [Arms -> CallStates]
      /\ out'[a] = o /\ pc'[a] = "record"
      /\ \A c \in Arms \ {a} : out'[c] = out[c] /\ pc'[c] = pc[c]
  BY <1>1, <1>5 DEF CallStates, IInv, TypeOK
<1>7. TypeOK'
  BY <1>1, <1>2, <1>6 DEF IInv, TypeOK
<1>8. Pooled(a)'
  BY <1>1, <1>2, <1>3, <1>6 DEF Pooled
<1>9. Answered(a)'
  <2>1. Misses(a)' = {}
    BY <1>1, <1>4, <1>6 DEF Misses
  <2> QED
    BY <1>1, <1>3, <1>5, <1>6, <2>1 DEF Answered
<1>10. \A c \in Arms \ {a} : Pooled(c)' /\ Answered(c)'
  BY <1>1, <1>2, <1>6, CallFrame
<1> QED
  BY <1>2, <1>7, <1>8, <1>9, <1>10 DEF IInv, PoolOfCall, AllAnswered

(* A call that is over has no batch and no answers left.                    *)
LEMMA CallOver ==
  ASSUME IInv, NEW a \in Arms, LeaveCall(a), queue'[a] = <<>>,
         \A j \in Keys : task'[a][j] = "idle", pc'[a] \in {"idle", "dead"}
  PROVE  /\ batch' \in [Arms -> Seq(Keys)] /\ out' \in [Arms -> Seq(Answers)]
         /\ \A c \in Arms \ {a} : batch'[c] = batch[c] /\ out'[c] = out[c]
         /\ Pooled(a)' /\ Answered(a)'
<1>1. /\ batch' \in [Arms -> Seq(Keys)] /\ out' \in [Arms -> Seq(Answers)]
      /\ batch'[a] = <<>> /\ out'[a] = <<>>
      /\ \A c \in Arms \ {a} : batch'[c] = batch[c] /\ out'[c] = out[c]
  BY DEF LeaveCall, IInv, TypeOK
<1> QED
  BY <1>1 DEF Pooled, Answered

LEMMA CallRaisesIInv == ASSUME NEW a \in Arms, IInv, CallRaises(a) PROVE IInv'
<1> USE DEF db, shared, procs, caller, pool, counted
<1>1. /\ Drained(a) /\ LeavePool(a) /\ LeaveCall(a)
      /\ pc' = [pc EXCEPT ![a] = "dead"]
      /\ UNCHANGED <<db, shared, procs, pos, queue, counted>>
  BY DEF CallRaises
<1>2. /\ task' \in [Arms -> [Keys -> TaskStates]] /\ joined' \in [Arms -> [Keys -> Nat]]
      /\ \A j \in Keys : task'[a][j] = "idle" /\ joined'[a][j] = 0
      /\ \A c \in Arms \ {a} : task'[c] = task[c] /\ joined'[c] = joined[c]
      /\ FuturesFollowTasks' /\ OneOwner' /\ WaitersHaveOwners'
  BY <1>1, LeavingPool
<1>3. /\ pc' \in [Arms -> CallStates] /\ pc'[a] = "dead"
      /\ \A c \in Arms \ {a} : pc'[c] = pc[c]
  BY <1>1 DEF CallStates, IInv, TypeOK
<1>4. /\ batch' \in [Arms -> Seq(Keys)] /\ out' \in [Arms -> Seq(Answers)]
      /\ \A c \in Arms \ {a} : batch'[c] = batch[c] /\ out'[c] = out[c]
      /\ Pooled(a)' /\ Answered(a)'
  <2>1. queue'[a] = <<>>
    BY <1>1 DEF Drained
  <2> QED
    BY <1>1, <1>2, <1>3, <2>1, CallOver
<1>5. TypeOK'
  BY <1>1, <1>2, <1>3, <1>4 DEF IInv, TypeOK
<1>6. \A c \in Arms \ {a} : Pooled(c)' /\ Answered(c)'
  BY <1>1, <1>2, <1>3, <1>4, CallFrame
<1> QED
  BY <1>2, <1>4, <1>5, <1>6 DEF IInv, PoolOfCall, AllAnswered

LEMMA InsertIInv == ASSUME NEW a \in Arms, IInv, Insert(a) PROVE IInv'
<1> USE DEF db, shared, procs, caller, pool, counted
<1> DEFINE r == [arm |-> a, key |-> batch[a][pos[a]], ans |-> out[a][pos[a]]]
<1>1. /\ pc[a] = "record" /\ rows' = Append(rows, r)
      /\ pc' = [pc EXCEPT ![a] = "commit"]
      /\ UNCHANGED <<committed, shared, procs, batch, pos, out, pool, counted>>
  BY DEF Insert
<1>2. Pooled(a) /\ Answered(a)
  BY DEF IInv, PoolOfCall, AllAnswered
<1>3. r \in Row
  <2>1. pos[a] \in 1..Len(batch[a]) /\ Len(out[a]) = Len(batch[a]) /\ Misses(a) = {}
    BY <1>1, <1>2 DEF Answered
  <2>2. batch[a][pos[a]] \in Keys /\ out[a][pos[a]] \in Answers
    BY <2>1, SequenceTypes DEF IInv
  <2>3. out[a][pos[a]] # Blank
    BY <2>1 DEF Misses, Blank
  <2> QED
    BY <2>2, <2>3 DEF Row
<1> HIDE DEF r
<1>4. rows' \in Seq(Row) /\ committed \in 0..Len(rows')
  BY <1>1, <1>3 DEF IInv, TypeOK
<1>5. /\ pc' \in [Arms -> CallStates] /\ pc'[a] = "commit"
      /\ \A c \in Arms \ {a} : pc'[c] = pc[c]
  BY <1>1 DEF CallStates, IInv, TypeOK
<1>6. TypeOK'
  BY <1>1, <1>4, <1>5 DEF IInv, TypeOK
<1>7. FuturesFollowTasks' /\ OneOwner' /\ WaitersHaveOwners'
  BY <1>1 DEF IInv, FuturesFollowTasks, OneOwner, Owners, WaitersHaveOwners, Fut, Runs
<1>8. Pooled(a)' /\ Answered(a)'
  <2>1. Misses(a)' = Misses(a)
    BY <1>1 DEF Misses
  <2> QED
    BY <1>1, <1>2, <1>5, <2>1 DEF Pooled, Answered
<1>9. \A c \in Arms \ {a} : Pooled(c)' /\ Answered(c)'
  BY <1>1, <1>5, CallFrame
<1> QED
  BY <1>6, <1>7, <1>8, <1>9 DEF IInv, PoolOfCall, AllAnswered

LEMMA CommitIInv == ASSUME NEW a \in Arms, IInv, Commit(a) PROVE IInv'
<1> USE DEF db, shared, procs, caller, pool, counted
<1>1. /\ pc[a] = "commit" /\ committed' = Len(rows)
      /\ pos' = [pos EXCEPT ![a] = NextPos(a)]
      /\ UNCHANGED <<rows, shared, procs, pool, counted>>
  BY DEF Commit
<1>2. /\ Pooled(a) /\ Answered(a) /\ pos[a] \in 1..Len(batch[a])
      /\ Misses(a) = {} /\ queue[a] = <<>> /\ \A j \in Keys : task[a][j] = "idle"
  BY <1>1 DEF IInv, PoolOfCall, Pooled, AllAnswered, Answered
<1>3. /\ pos' \in [Arms -> Nat] /\ pos'[a] = NextPos(a) /\ NextPos(a) \in 1..Len(batch[a])
      /\ \A c \in Arms \ {a} : pos'[c] = pos[c]
  <2>1. NextPos(a) \in 1..Len(batch[a])
    BY <1>2, SequenceTypes DEF NextPos, IInv
  <2>2. NextPos(a) \in Nat
    BY <2>1, SequenceTypes DEF IInv
  <2> QED
    BY <1>1, <2>1, <2>2 DEF IInv, TypeOK
<1>4. rows' \in Seq(Row) /\ committed' \in 0..Len(rows')
  BY <1>1 DEF IInv, TypeOK
<1>5. FuturesFollowTasks' /\ OneOwner' /\ WaitersHaveOwners'
  BY <1>1 DEF IInv, FuturesFollowTasks, OneOwner, Owners, WaitersHaveOwners, Fut, Runs
<1>6. CASE pos[a] < Len(batch[a])
  <2>1. pc' = [pc EXCEPT ![a] = "record"] /\ UNCHANGED <<batch, out>>
    BY <1>6 DEF Commit
  <2>2. /\ pc' \in [Arms -> CallStates] /\ pc'[a] = "record"
        /\ \A c \in Arms \ {a} : pc'[c] = pc[c]
    BY <2>1 DEF CallStates, IInv, TypeOK
  <2>3. TypeOK'
    BY <1>1, <1>3, <1>4, <2>1, <2>2 DEF IInv, TypeOK
  <2>4. Pooled(a)' /\ Answered(a)'
    <3>1. Misses(a)' = {}
      BY <1>2, <2>1 DEF Misses
    <3> QED
      BY <1>1, <1>2, <1>3, <2>1, <2>2, <3>1 DEF Pooled, Answered
  <2>5. \A c \in Arms \ {a} : Pooled(c)' /\ Answered(c)'
    BY <1>1, <1>3, <2>1, <2>2, CallFrame
  <2> QED
    BY <1>5, <2>3, <2>4, <2>5 DEF IInv, PoolOfCall, AllAnswered
<1>7. CASE ~(pos[a] < Len(batch[a]))
  <2>1. pc' = [pc EXCEPT ![a] = "idle"] /\ LeaveCall(a)
    BY <1>7 DEF Commit
  <2>2. /\ pc' \in [Arms -> CallStates] /\ pc'[a] = "idle"
        /\ \A c \in Arms \ {a} : pc'[c] = pc[c]
    BY <2>1 DEF CallStates, IInv, TypeOK
  <2>3. /\ batch' \in [Arms -> Seq(Keys)] /\ out' \in [Arms -> Seq(Answers)]
        /\ \A c \in Arms \ {a} : batch'[c] = batch[c] /\ out'[c] = out[c]
        /\ Pooled(a)' /\ Answered(a)'
    BY <1>1, <1>2, <2>1, <2>2, CallOver
  <2>4. TypeOK'
    BY <1>1, <1>3, <1>4, <2>2, <2>3 DEF IInv, TypeOK
  <2>5. \A c \in Arms \ {a} : Pooled(c)' /\ Answered(c)'
    BY <1>1, <1>3, <2>2, <2>3, CallFrame
  <2> QED
    BY <1>5, <2>3, <2>4, <2>5 DEF IInv, PoolOfCall, AllAnswered
<1> QED
  BY <1>6, <1>7

LEMMA CrashIInv == ASSUME IInv, Crash PROVE IInv'
<1> USE DEF Crash, db, shared, procs, caller, pool, counted
<1>1. TypeOK'
  <2>1. rows' \in Seq(Row) /\ Len(rows') = committed /\ committed \in Nat
    BY SubSeqProperties DEF IInv, TypeOK
  <2>2. crashes' \in Nat /\ permits' \in Nat
    BY WorkersAssumption DEF IInv, TypeOK
  <2> QED
    BY <2>1, <2>2 DEF IInv, TypeOK, CallStates, TaskStates
<1>2. FuturesFollowTasks' /\ PoolOfCall' /\ WaitersHaveOwners'
  BY DEF FuturesFollowTasks, PoolOfCall, Pooled, WaitersHaveOwners
<1>3. AllAnswered'
  BY DEF AllAnswered, Answered
<1>4. OneOwner'
  BY DEF OneOwner, Owners, OwnerStates
<1> QED
  BY <1>1, <1>2, <1>3, <1>4 DEF IInv

LEMMA StutterIInv == ASSUME IInv, UNCHANGED vars PROVE IInv'
<1> USE DEF vars, db, shared, procs, caller, pool, counted
<1>1. TypeOK'
  BY DEF IInv, TypeOK
<1>2. FuturesFollowTasks' /\ PoolOfCall' /\ OneOwner' /\ WaitersHaveOwners'
  BY DEF IInv, FuturesFollowTasks, PoolOfCall, Pooled, OneOwner, Owners, WaitersHaveOwners, Fut, Runs
<1>3. AllAnswered'
  BY DEF IInv, AllAnswered, Answered, Misses, Failing, Fut, Queued
<1> QED
  BY <1>1, <1>2, <1>3 DEF IInv

LEMMA NextIInv == ASSUME IInv, [Next]_vars PROVE IInv'
<1>1. ASSUME NEW a \in Arms, Call(a) \/ Caller(a) PROVE IInv'
  BY <1>1, CallIInv, LookupHitIInv, LookupMissIInv, OwnIInv, JoinIInv, CancelQueuedIInv,
     CollectIInv, CallRaisesIInv, InsertIInv, CommitIInv DEF Caller
<1>2. ASSUME NEW a \in Arms, NEW k \in Keys, Thread(a, k) \/ Timeout(a, k) PROVE IInv'
  BY <1>2, LaunchIInv, LaunchFailsIInv, ReadLogIInv, RunRaisesIInv, PopIInv, WakeIInv,
     TimeoutIInv DEF Thread
<1>3. ASSUME NEW r \in Runs, Process(r) PROVE IInv'
  BY <1>3, StartContainerIInv, EndContainerIInv DEF Process
<1>4. CASE Crash
  BY <1>4, CrashIInv
<1>5. CASE Finished \/ UNCHANGED vars
  BY <1>5, StutterIInv DEF Finished
<1> QED
  BY <1>1, <1>2, <1>3, <1>4, <1>5 DEF Next

(* The driver's state is well-typed, a thread owns a run exactly while the  *)
(* in-flight table names it, whoever joined a run has an owner or an answer,*)
(* and every position of a batch is answered: whatever the arm-runs, keys,  *)
(* batches, timeouts and kills (arm_eval.py evaluate, db.py evaluate_many). *)
THEOREM Inductive == Spec => []IInv
<1>1. Init => IInv
  BY InitIInv
<1>2. IInv /\ [Next]_vars => IInv'
  BY NextIInv
<1> QED
  BY <1>1, <1>2, PTL DEF Spec

(* At most one thread of the driver owns a run of a key, and the in-flight  *)
(* table names that run exactly while there is one.                         *)
THEOREM RunsHaveOneOwner == Spec => []OneOwner
<1>1. IInv => OneOwner
  BY DEF IInv
<1> QED
  BY <1>1, Inductive, PTL

(* No thread waits on a future that nobody is going to resolve.             *)
THEOREM NobodyWaitsForNothing == Spec => []WaitersHaveOwners
<1>1. IInv => WaitersHaveOwners
  BY DEF IInv
<1> QED
  BY <1>1, Inductive, PTL

(* evaluate_many returns a result for every position of its batch.          *)
THEOREM BatchesAreAnswered == Spec => []AllAnswered
<1>1. IInv => AllAnswered
  BY DEF IInv
<1> QED
  BY <1>1, Inductive, PTL

-----------------------------------------------------------------------------
(* The semaphore's ledger.                                                  *)
LEMMA HoldersFinite == IsFiniteSet(Holders) /\ Cardinality(Holders) \in Nat
<1>1. IsFiniteSet(Arms \X Keys)
  BY FiniteAssumption, FS_Product
<1>2. Holders \subseteq Arms \X Keys
  BY DEF Holders
<1> QED
  BY <1>1, <1>2, FS_Subset, FS_CardinalityType

(* A thread that neither had nor gets a permit leaves the ledger alone.     *)
LEMMA SameHolders ==
  ASSUME IInv, PermitsExact, UNCHANGED permits,
         \A b \in Arms, j \in Keys : task'[b][j] = "run" <=> task[b][j] = "run"
  PROVE  PermitsExact'
<1>1. Holders' = Holders
  BY DEF Holders
<1> QED
  BY <1>1 DEF PermitsExact

LEMMA TakePermit ==
  ASSUME IInv, PermitsExact, NEW a \in Arms, NEW k \in Keys, task[a][k] # "run",
         permits > 0, permits' = permits - 1, task' = [task EXCEPT ![a][k] = "run"]
  PROVE  PermitsExact'
<1>1. \A b \in Arms, j \in Keys : task'[b][j] = IF b = a /\ j = k THEN "run" ELSE task[b][j]
  BY DEF IInv, TypeOK
<1>2. Holders' = Holders \cup {<<a, k>>} /\ <<a, k>> \notin Holders
  BY <1>1 DEF Holders
<1>3. Cardinality(Holders') = Cardinality(Holders) + 1
  BY <1>2, HoldersFinite, FS_AddElement
<1> QED
  BY <1>3, HoldersFinite, WorkersAssumption DEF PermitsExact, IInv, TypeOK

LEMMA GivePermit ==
  ASSUME IInv, PermitsExact, NEW a \in Arms, NEW k \in Keys, task[a][k] = "run",
         permits' = permits + 1, task' = [task EXCEPT ![a][k] = "read"]
  PROVE  PermitsExact'
<1>1. \A b \in Arms, j \in Keys : task'[b][j] = IF b = a /\ j = k THEN "read" ELSE task[b][j]
  BY DEF IInv, TypeOK
<1>2. Holders' = Holders \ {<<a, k>>} /\ <<a, k>> \in Holders
  BY <1>1 DEF Holders
<1>3. Cardinality(Holders') = Cardinality(Holders) - 1
  BY <1>2, HoldersFinite, FS_RemoveElement
<1> QED
  BY <1>3, HoldersFinite, WorkersAssumption DEF PermitsExact, IInv, TypeOK

LEMMA PermitsStep == ASSUME IInv, PermitsExact, [Next]_vars PROVE PermitsExact'
<1> USE DEF vars, db, shared, procs, caller, pool, counted
<1>1. ASSUME NEW a \in Arms, Call(a) \/ LookupHit(a) \/ LookupMiss(a) \/ CancelQueued(a)
                             \/ Insert(a) \/ Commit(a)
      PROVE  PermitsExact'
  <2>1. UNCHANGED <<permits, task>>
    BY <1>1 DEF Call, LookupHit, LookupMiss, CancelQueued, Insert, Commit
  <2> QED
    BY <2>1, SameHolders
<1>2. ASSUME NEW a \in Arms, Own(a) \/ Join(a) PROVE PermitsExact'
  <2> DEFINE k == Head(queue[a])
  <2>1. PICK s \in {"sem", "waiting"} : UNCHANGED permits /\ task' = [task EXCEPT ![a][k] = s]
    BY <1>2 DEF Own, Join
  <2>2. k \in Keys /\ task[a][k] = "idle"
    <3>1. /\ queue[a] \in Seq(Keys) /\ queue[a] # <<>> /\ Len(queue[a]) \in Nat
      BY <1>2, SequenceTypes DEF Own, Join, ThreadFree, IInv
    <3>2. k = queue[a][1] /\ k \in Keys /\ 1 \in 1..Len(queue[a])
      BY <3>1
    <3> QED
      BY <3>2 DEF PoolOfCall, Pooled, IInv
  <2> HIDE DEF k
  <2>3. \A b \in Arms, j \in Keys : task'[b][j] = IF b = a /\ j = k THEN s ELSE task[b][j]
    BY <2>1, <2>2 DEF IInv, TypeOK
  <2> QED
    BY <2>1, <2>2, <2>3, SameHolders
<1>3. ASSUME NEW a \in Arms, Collect(a) \/ CallRaises(a) PROVE PermitsExact'
  <2>1. Drained(a) /\ LeavePool(a) /\ UNCHANGED <<permits, inflight, whose, fut, queue>>
    BY <1>3 DEF Collect, CallRaises
  <2>2. /\ \A j \in Keys : task[a][j] \in {"idle", "done"}
        /\ \A j \in Keys : task'[a][j] = "idle" /\ joined'[a][j] = 0
        /\ \A c \in Arms \ {a} : task'[c] = task[c] /\ joined'[c] = joined[c]
    BY <2>1, LeavingPool
  <2> QED
    BY <2>1, <2>2, SameHolders
<1>4. ASSUME NEW a \in Arms, NEW k \in Keys, Launch(a, k) PROVE PermitsExact'
  BY <1>4, TakePermit DEF Launch
<1>5. ASSUME NEW a \in Arms, NEW k \in Keys, Timeout(a, k) PROVE PermitsExact'
  BY <1>5, GivePermit DEF Timeout
<1>6. ASSUME NEW a \in Arms, NEW k \in Keys,
             LaunchFails(a, k) \/ ReadLog(a, k) \/ RunRaises(a, k) \/ Pop(a, k) \/ Wake(a, k)
      PROVE  PermitsExact'
  <2>1. PICK s \in {"read", "pop", "done"} : task' = [task EXCEPT ![a][k] = s]
    BY <1>6 DEF LaunchFails, ReadLog, RunRaises, Pop, Wake
  <2>2. UNCHANGED permits /\ task[a][k] # "run"
    BY <1>6 DEF LaunchFails, ReadLog, RunRaises, Pop, Wake
  <2>3. \A b \in Arms, j \in Keys : task'[b][j] = IF b = a /\ j = k THEN s ELSE task[b][j]
    BY <2>1 DEF IInv, TypeOK
  <2> QED
    BY <2>2, <2>3, SameHolders
<1>7. ASSUME NEW r \in Runs, StartContainer(r) PROVE PermitsExact'
  BY <1>7, SameHolders DEF StartContainer
<1>8. ASSUME NEW r \in Runs, EndContainer(r) PROVE PermitsExact'
  <2>1. CASE ~Awaited(r)
    BY <1>8, <2>1, SameHolders DEF EndContainer
  <2>2. CASE Awaited(r)
    <3>1. whose[r].arm \in Arms /\ whose[r].key \in Keys
      <4>1. whose[r] \in OwnerOf
        BY DEF Runs, IInv, TypeOK
      <4> QED
        BY <4>1 DEF OwnerOf
    <3>2. /\ task[whose[r].arm][whose[r].key] = "run"
          /\ task' = [task EXCEPT ![whose[r].arm][whose[r].key] = "read"]
          /\ permits' = permits + 1
      BY <1>8, <2>2 DEF EndContainer, Awaited
    <3> QED
      BY <3>1, <3>2, GivePermit
  <2> QED
    BY <2>1, <2>2
<1>9. CASE Crash
  <2>1. permits' = Workers /\ \A b \in Arms, j \in Keys : task'[b][j] = "idle"
    BY <1>9 DEF Crash
  <2>2. Holders' = {}
    BY <2>1 DEF Holders
  <2> QED
    BY <2>1, <2>2, FS_EmptySet, WorkersAssumption DEF PermitsExact
<1>10. CASE Finished \/ UNCHANGED vars
  BY <1>10, SameHolders DEF Finished
<1> QED
  BY <1>1, <1>2, <1>3, <1>4, <1>5, <1>6, <1>7, <1>8, <1>9, <1>10 DEF Next, Caller, Thread, Process

(* The semaphore never loses or gains a permit: through timeouts, failed    *)
(* launches, exceptions and restarts, the free permits and the scripts that *)
(* are awaited add up to Workers (arm_eval.py _run).                        *)
THEOREM PermitsAreExact == Spec => []PermitsExact
<1>1. Init => PermitsExact
  <2> SUFFICES ASSUME Init PROVE PermitsExact
    OBVIOUS
  <2>1. permits = Workers /\ Holders = {}
    BY DEF Init, Holders
  <2> QED
    BY <2>1, FS_EmptySet, WorkersAssumption DEF PermitsExact
<1>2. IInv /\ PermitsExact /\ [Next]_vars => PermitsExact'
  BY PermitsStep
<1> QED
  BY <1>1, <1>2, Inductive, PTL DEF Spec

-----------------------------------------------------------------------------
(* The evaluators implement SingleFlight: in-flight entries are flights,    *)
(* futures are verdicts.  Owning a run takes off, joining attaches, reading *)
(* the log or raising decides, the owner's pop lands, leaving the pool      *)
(* leaves, and a restart of the driver restarts.                            *)
LEMMA InitImplements == Init => SF!Init
BY DEF Init, SF!Init

LEMMA OwnTakesOff == ASSUME NEW a \in Arms, IInv, Own(a) PROVE \E k \in Keys : SF!TakeOff(a, k)
<1> DEFINE h == Head(queue[a])
<1>1. h \in Keys
  BY SequenceTypes DEF Own, ThreadFree, IInv
<1>2. /\ inflight[h] = 0
      /\ inflight' = [inflight EXCEPT ![h] = Len(whose) + 1]
      /\ fut' = Append(fut, Blank)
      /\ joined' = [joined EXCEPT ![a][h] = Len(whose) + 1]
  BY DEF Own
<1>3. Len(fut) = Len(whose)
  BY DEF IInv, TypeOK
<1> HIDE DEF h
<1>4. SF!TakeOff(a, h)
  BY <1>2, <1>3 DEF SF!TakeOff
<1> QED
  BY <1>1, <1>4

LEMMA JoinAttaches == ASSUME NEW a \in Arms, IInv, Join(a) PROVE \E k \in Keys : SF!Attach(a, k)
<1> DEFINE h == Head(queue[a])
<1>1. h \in Keys
  BY SequenceTypes DEF Join, ThreadFree, IInv
<1>2. /\ inflight[h] # 0 /\ joined' = [joined EXCEPT ![a][h] = inflight[h]]
      /\ UNCHANGED <<inflight, fut>>
  BY DEF Join, shared, procs
<1> HIDE DEF h
<1>3. SF!Attach(a, h)
  BY <1>2 DEF SF!Attach
<1> QED
  BY <1>1, <1>3

(* The owner's entry is in the table, and its future unresolved, until it   *)
(* has read the log; the one future that changes is its own.                *)
LEMMA ResolvingDecides ==
  ASSUME NEW a \in Arms, NEW k \in Keys, IInv, ReadLog(a, k) \/ RunRaises(a, k)
  PROVE  SF!Decide(k)
<1>1. task[a][k] = "read" /\ UNCHANGED <<inflight, joined>>
  BY DEF ReadLog, RunRaises, shared
<1>2. PICK v \in Futures \ {Blank} : fut' = [fut EXCEPT ![joined[a][k]] = v]
  <2>1. LogAnswers(a, k) \subseteq Futures \ {Blank} /\ Value(FALSE, 0) \in Futures \ {Blank}
    BY DEF LogAnswers, Futures, Values, Value, Lines, Blank, IInv, TypeOK
  <2>2. Raised \in Futures \ {Blank}
    BY DEF Futures, Raised, Blank
  <2> QED
    BY <2>1, <2>2 DEF ReadLog, RunRaises
<1>3. /\ joined[a][k] \in Runs /\ fut[joined[a][k]] = Blank
      /\ \A r \in Runs : fut'[r] = IF r = joined[a][k] THEN v ELSE fut[r]
  BY <1>1, <1>2, ResolveFuture, ZenonT(40)
<1>4. inflight[k] = joined[a][k] /\ inflight[k] # 0
  BY <1>1, <1>3 DEF OneOwner, Owners, OwnerStates, Runs, IInv
<1>5. DOMAIN fut = Runs /\ DOMAIN fut' = Runs
  BY <1>2 DEF Runs, IInv, TypeOK
<1> QED
  BY <1>1, <1>2, <1>3, <1>4, <1>5 DEF SF!Decide

LEMMA PopLands == ASSUME NEW a \in Arms, NEW k \in Keys, IInv, Pop(a, k) PROVE SF!Land(k)
<1>1. /\ task[a][k] = "pop" /\ inflight' = [inflight EXCEPT ![k] = 0]
      /\ UNCHANGED <<fut, joined>>
  BY DEF Pop, procs
<1>2. joined[a][k] \in Runs /\ fut[joined[a][k]] # Blank
  BY <1>1 DEF FuturesFollowTasks, Fut, IInv
<1>3. inflight[k] = joined[a][k] /\ inflight[k] # 0
  BY <1>1, <1>2 DEF OneOwner, Owners, OwnerStates, Runs, IInv
<1> QED
  BY <1>1, <1>2, <1>3 DEF SF!Land

LEMMA LeavingLeaves ==
  ASSUME NEW a \in Arms, IInv, Collect(a) \/ CallRaises(a)
  PROVE  SF!Leave(a)
<1>1. Drained(a) /\ LeavePool(a) /\ UNCHANGED <<inflight, whose, fut, queue>>
  BY DEF Collect, CallRaises, shared, procs
<1>2. \A k \in Keys : task[a][k] \in {"idle", "done"}
  BY <1>1, LeavingPool
<1>3. \A k \in Keys : joined[a][k] # 0 => fut[joined[a][k]] # Blank
  BY <1>2 DEF FuturesFollowTasks, Fut, IInv
<1> QED
  BY <1>1, <1>3 DEF SF!Leave, LeavePool

LEMMA NextImplements == ASSUME IInv, [Next]_vars PROVE [SF!Next]_SF!vars
<1> USE DEF vars, db, shared, procs, caller, pool, counted
<1>1. ASSUME NEW a \in Arms, Own(a) \/ Join(a) PROVE SF!Next
  BY <1>1, OwnTakesOff, JoinAttaches DEF SF!Next
<1>2. ASSUME NEW a \in Arms, Call(a) \/ LookupHit(a) \/ LookupMiss(a) \/ CancelQueued(a)
                             \/ Insert(a) \/ Commit(a)
      PROVE  UNCHANGED SF!vars
  BY <1>2 DEF Call, LookupHit, LookupMiss, CancelQueued, Insert, Commit, SF!vars
<1>3. ASSUME NEW a \in Arms, Collect(a) \/ CallRaises(a) PROVE SF!Next
  BY <1>3, LeavingLeaves DEF SF!Next
<1>4. ASSUME NEW a \in Arms, NEW k \in Keys, ReadLog(a, k) \/ RunRaises(a, k) PROVE SF!Next
  BY <1>4, ResolvingDecides DEF SF!Next
<1>5. ASSUME NEW a \in Arms, NEW k \in Keys, Pop(a, k) PROVE SF!Next
  BY <1>5, PopLands DEF SF!Next
<1>6. ASSUME NEW a \in Arms, NEW k \in Keys,
             Launch(a, k) \/ LaunchFails(a, k) \/ Wake(a, k) \/ Timeout(a, k)
      PROVE  UNCHANGED SF!vars
  BY <1>6 DEF Launch, LaunchFails, Wake, Timeout, SF!vars
<1>7. ASSUME NEW r \in Runs, StartContainer(r) \/ EndContainer(r) PROVE UNCHANGED SF!vars
  BY <1>7 DEF StartContainer, EndContainer, SF!vars
<1>8. CASE Crash
  BY <1>8 DEF Crash, SF!Restart, SF!Next
<1>9. CASE Finished \/ UNCHANGED vars
  BY <1>9 DEF Finished, SF!vars
<1> QED
  BY <1>1, <1>2, <1>3, <1>4, <1>5, <1>6, <1>7, <1>8, <1>9 DEF Next, Caller, Thread, Process

(* Whatever interleaving, timeouts, failures and restarts: one flight per   *)
(* key at a time, joined only while it is in the air, given one verdict     *)
(* before it lands, and left only with a verdict (arm_eval.py evaluate).    *)
THEOREM Implementation == Spec => ImplementsSingleFlight
<1>1. Init => SF!Init
  BY InitImplements
<1>2. IInv /\ [Next]_vars => [SF!Next]_SF!vars
  BY NextImplements
<1> QED
  BY <1>1, <1>2, Inductive, PTL DEF Spec, ImplementsSingleFlight
=============================================================================
