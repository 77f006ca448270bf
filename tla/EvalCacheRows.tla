---------------------------- MODULE EvalCacheRows ----------------------------
(***************************************************************************)
(* What the ResultsDB tells of an identity: every recorded result was      *)
(* printed by a run of the row's own key, and all replays agree.           *)
(***************************************************************************)
EXTENDS EvalCacheProofs

(* Which steps write which part of the state.                               *)
LEMMA Writers ==
  ASSUME [Next]_vars
  PROVE  /\ UNCHANGED whose \/ \E a \in Arms : Own(a)
         /\ UNCHANGED rows \/ Crash \/ \E a \in Arms : Insert(a)
         /\ UNCHANGED logs \/ \E r \in Runs : StartContainer(r) \/ EndContainer(r)
         /\ \/ UNCHANGED fut
            \/ \E a \in Arms : Own(a)
            \/ \E a \in Arms, k \in Keys : ReadLog(a, k) \/ RunRaises(a, k)
         /\ \/ UNCHANGED <<batch, out>>
            \/ Crash
            \/ \E a \in Arms : Call(a) \/ LookupHit(a) \/ Collect(a) \/ CallRaises(a) \/ Commit(a)
         /\ \/ UNCHANGED queue
            \/ Crash
            \/ \E a \in Arms : LookupMiss(a) \/ Own(a) \/ Join(a) \/ CancelQueued(a)
<1> USE DEF vars, db, shared, procs, caller, pool, counted
<1>1. ASSUME NEW a \in Arms, Call(a) \/ LookupHit(a) \/ LookupMiss(a) \/ CancelQueued(a)
                             \/ Collect(a) \/ CallRaises(a) \/ Insert(a) \/ Commit(a)
      PROVE  /\ UNCHANGED <<whose, logs, fut>>
             /\ UNCHANGED rows \/ Insert(a)
             /\ \/ UNCHANGED <<batch, out>>
                \/ Call(a) \/ LookupHit(a) \/ Collect(a) \/ CallRaises(a) \/ Commit(a)
             /\ UNCHANGED queue \/ LookupMiss(a) \/ CancelQueued(a)
  BY <1>1 DEF Call, LookupHit, LookupMiss, CancelQueued, Collect, CallRaises, Insert, Commit
<1>2. ASSUME NEW a \in Arms, Own(a) \/ Join(a)
      PROVE  UNCHANGED <<rows, logs, batch, out>> /\ (Join(a) => UNCHANGED <<whose, fut>>)
  BY <1>2 DEF Own, Join
<1>3. ASSUME NEW a \in Arms, NEW k \in Keys, Thread(a, k) \/ Timeout(a, k)
      PROVE  /\ UNCHANGED <<whose, rows, logs, batch, out, queue>>
             /\ UNCHANGED fut \/ ReadLog(a, k) \/ RunRaises(a, k)
  BY <1>3 DEF Thread, Launch, LaunchFails, ReadLog, RunRaises, Pop, Wake, Timeout
<1>4. ASSUME NEW r \in Runs, Process(r) PROVE UNCHANGED <<whose, rows, fut, batch, out, queue>>
  BY <1>4 DEF Process, StartContainer, EndContainer
<1>5. CASE Crash
  BY <1>5 DEF Crash
<1>6. CASE Finished \/ UNCHANGED vars
  BY <1>6 DEF Finished
<1> QED
  BY <1>1, <1>2, <1>3, <1>4, <1>5, <1>6 DEF Next, Caller, Process

-----------------------------------------------------------------------------
(* A printed result belongs to a key; wherever it is, it belongs to the key *)
(* it is kept under: in a log, a future, an answer, a row.                  *)
PrintedFor(s, k) == s # 0 => s \in Runs /\ whose[s].key = k
TaskRuns      == \A a \in Arms, k \in Keys : task[a][k] # "idle" => whose[joined[a][k]].key = k
LogSources    == \A a \in Arms, k \in Keys : \A l \in logs[a][k] : PrintedFor(l.src, k)
FutureSources == \A r \in Runs : PrintedFor(fut[r].src, whose[r].key)
AnswerSources == \A a \in Arms : \A i \in 1..Len(out[a]) : PrintedFor(out[a][i].src, batch[a][i])
SourcesMatch  == TaskRuns /\ LogSources /\ FutureSources /\ AnswerSources /\ RowsMatchKey

LEMMA InitSources == Init => SourcesMatch
BY DEF Init, SourcesMatch, TaskRuns, LogSources, FutureSources, AnswerSources, RowsMatchKey, Runs

(* The table of runs only grows.                                            *)
LEMMA RunsStay ==
  ASSUME IInv, [Next]_vars
  PROVE  /\ \A r \in Runs : r \in Runs' /\ whose'[r] = whose[r]
         /\ \A s, k : PrintedFor(s, k) => PrintedFor(s, k)'
<1>1. CASE UNCHANGED whose
  BY <1>1 DEF Runs, PrintedFor
<1>2. ASSUME NEW a \in Arms, Own(a)
      PROVE  \A r \in Runs : r \in Runs' /\ whose'[r] = whose[r]
  <2>1. whose \in Seq(OwnerOf) /\ Len(whose) \in Nat
    BY DEF IInv, TypeOK
  <2>2. PICK o : whose' = Append(whose, o)
    BY <1>2 DEF Own
  <2>3. Len(whose') = Len(whose) + 1 /\ \A r \in 1..Len(whose) : whose'[r] = whose[r]
    BY <2>1, <2>2
  <2> QED
    BY <2>1, <2>3 DEF Runs
<1> QED
  BY <1>1, <1>2, Writers DEF PrintedFor

LEMMA TaskRunsStep == ASSUME IInv, TaskRuns, [Next]_vars PROVE TaskRuns'
<1> USE DEF vars, db, shared, procs, caller, pool, counted
<1>0. \A a \in Arms, k \in Keys : task[a][k] # "idle" =>
        /\ joined[a][k] \in Runs /\ whose[joined[a][k]].key = k
        /\ whose'[joined[a][k]].key = k
  BY RunsStay DEF TaskRuns, IInv, FuturesFollowTasks
<1>s. ASSUME UNCHANGED joined, \A a \in Arms, k \in Keys : task[a][k] = "idle" => task'[a][k] = "idle"
      PROVE  TaskRuns'
  BY <1>0, <1>s DEF TaskRuns
<1>1. ASSUME NEW a \in Arms, Call(a) \/ LookupHit(a) \/ LookupMiss(a) \/ CancelQueued(a)
                             \/ Insert(a) \/ Commit(a)
      PROVE  TaskRuns'
  <2>1. UNCHANGED <<task, joined>>
    BY <1>1 DEF Call, LookupHit, LookupMiss, CancelQueued, Insert, Commit
  <2> QED
    BY <2>1, <1>s
<1>2. ASSUME NEW a \in Arms, Own(a) PROVE TaskRuns'
  <2> DEFINE k == Head(queue[a])
             n == Len(whose) + 1
  <2>1. /\ task' = [task EXCEPT ![a][k] = "sem"] /\ joined' = [joined EXCEPT ![a][k] = n]
        /\ ThreadFree(a) /\ whose' = Append(whose, [arm |-> a, key |-> k])
    BY <1>2 DEF Own
  <2>2. k \in Keys
    BY <2>1, SequenceTypes DEF ThreadFree, IInv
  <2>3. whose'[n].key = k
    <3>1. whose \in Seq(OwnerOf) /\ [arm |-> a, key |-> k] \in OwnerOf
      BY <2>2 DEF OwnerOf, IInv, TypeOK
    <3>2. whose'[n] = [arm |-> a, key |-> k]
      BY <2>1, <3>1
    <3> QED
      BY <3>2
  <2> HIDE DEF k, n
  <2>4. \A b \in Arms, j \in Keys :
          /\ task'[b][j] = IF b = a /\ j = k THEN "sem" ELSE task[b][j]
          /\ joined'[b][j] = IF b = a /\ j = k THEN n ELSE joined[b][j]
    BY <2>1, <2>2 DEF IInv, TypeOK
  <2> QED
    BY <1>0, <2>3, <2>4 DEF TaskRuns
<1>3. ASSUME NEW a \in Arms, Join(a) PROVE TaskRuns'
  <2> DEFINE k == Head(queue[a])
             n == inflight[k]
  <2>1. /\ task' = [task EXCEPT ![a][k] = "waiting"] /\ joined' = [joined EXCEPT ![a][k] = n]
        /\ ThreadFree(a) /\ UNCHANGED whose /\ n # 0
    BY <1>3 DEF Join
  <2>2. k \in Keys
    BY <2>1, SequenceTypes DEF ThreadFree, IInv
  <2>3. whose[n].key = k
    BY <2>1, <2>2 DEF OneOwner, IInv
  <2> HIDE DEF k, n
  <2>4. \A b \in Arms, j \in Keys :
          /\ task'[b][j] = IF b = a /\ j = k THEN "waiting" ELSE task[b][j]
          /\ joined'[b][j] = IF b = a /\ j = k THEN n ELSE joined[b][j]
    BY <2>1, <2>2 DEF IInv, TypeOK
  <2> QED
    BY <1>0, <2>1, <2>3, <2>4 DEF TaskRuns
<1>4. ASSUME NEW a \in Arms, Collect(a) \/ CallRaises(a) PROVE TaskRuns'
  <2>1. /\ \A j \in Keys : task'[a][j] = "idle"
        /\ \A c \in Arms \ {a} : task'[c] = task[c] /\ joined'[c] = joined[c]
    <3>1. Drained(a) /\ LeavePool(a) /\ UNCHANGED <<inflight, whose, fut, queue>>
      BY <1>4 DEF Collect, CallRaises
    <3> QED
      BY <3>1, LeavingPool
  <2> QED
    BY <1>0, <2>1 DEF TaskRuns
<1>5. ASSUME NEW a \in Arms, NEW k \in Keys, Thread(a, k) \/ Timeout(a, k) PROVE TaskRuns'
  <2>1. PICK s \in {"run", "read", "pop", "done"} : task' = [task EXCEPT ![a][k] = s]
    BY <1>5 DEF Thread, Launch, LaunchFails, ReadLog, RunRaises, Pop, Wake, Timeout
  <2>2. task[a][k] # "idle" /\ UNCHANGED joined
    BY <1>5 DEF Thread, Launch, LaunchFails, ReadLog, RunRaises, Pop, Wake, Timeout
  <2>3. \A b \in Arms, j \in Keys : task'[b][j] = IF b = a /\ j = k THEN s ELSE task[b][j]
    BY <2>1 DEF IInv, TypeOK
  <2> QED
    BY <1>s, <2>2, <2>3
<1>6. ASSUME NEW r \in Runs, Process(r) PROVE TaskRuns'
  <2>1. CASE UNCHANGED <<task, joined>>
    BY <2>1, <1>s
  <2>2. CASE EndContainer(r) /\ Awaited(r)
    <3>1. whose[r].arm \in Arms /\ whose[r].key \in Keys
      <4>1. whose[r] \in OwnerOf
        BY DEF Runs, IInv, TypeOK
      <4> QED
        BY <4>1 DEF OwnerOf
    <3>2. /\ task[whose[r].arm][whose[r].key] = "run" /\ UNCHANGED joined
          /\ task' = [task EXCEPT ![whose[r].arm][whose[r].key] = "read"]
      BY <2>2 DEF EndContainer, Awaited
    <3>3. \A b \in Arms, j \in Keys : task[b][j] = "idle" => task'[b][j] = "idle"
      BY <3>1, <3>2 DEF IInv, TypeOK
    <3> QED
      BY <1>s, <3>2, <3>3
  <2> QED
    BY <1>6, <2>1, <2>2 DEF Process, StartContainer, EndContainer
<1>7. CASE Crash
  BY <1>7 DEF Crash, TaskRuns
<1>8. CASE Finished \/ UNCHANGED vars
  BY <1>8, <1>s DEF Finished
<1> QED
  BY <1>1, <1>2, <1>3, <1>4, <1>5, <1>6, <1>7, <1>8 DEF Next, Caller

LEMMA LogSourcesStep == ASSUME IInv, LogSources, [Next]_vars PROVE LogSources'
<1>1. CASE UNCHANGED logs
  BY <1>1, RunsStay DEF LogSources
<1>2. ASSUME NEW r \in Runs, StartContainer(r) \/ EndContainer(r) PROVE LogSources'
  <2> DEFINE a == whose[r].arm
             k == whose[r].key
  <2>1. a \in Arms /\ k \in Keys
    <3>1. whose[r] \in OwnerOf
      BY DEF Runs, IInv, TypeOK
    <3> QED
      BY <3>1 DEF OwnerOf
  <2>2. logs \in [Arms -> [Keys -> SUBSET Lines]]
    BY DEF IInv, TypeOK
  <2>3. \A b \in Arms, j \in Keys : \A l \in logs'[b][j] :
          l \in logs[b][j] \/ (j = k /\ l.src = r)
    <3>1. CASE StartContainer(r)
      <4>1. logs' = [logs EXCEPT ![a][k] = {}]
        BY <3>1 DEF StartContainer
      <4> HIDE DEF a, k
      <4> QED
        BY <2>1, <2>2, <4>1
    <3>2. CASE EndContainer(r)
      <4>1. PICK new \in Printed(r) : logs' = [logs EXCEPT ![a][k] = @ \cup new]
        BY <3>2 DEF EndContainer
      <4>2. \A l \in new : l.src = r
        BY DEF Printed
      <4> HIDE DEF a, k
      <4> QED
        BY <2>1, <2>2, <4>1, <4>2
    <3> QED
      BY <1>2, <3>1, <3>2
  <2>4. \A b \in Arms, j \in Keys : \A l \in logs'[b][j] : PrintedFor(l.src, j)
    BY <2>3 DEF LogSources, PrintedFor
  <2> QED
    BY <2>4, RunsStay DEF LogSources
<1> QED
  BY <1>1, <1>2, Writers

LEMMA FutureSourcesStep ==
  ASSUME IInv, TaskRuns, LogSources, FutureSources, [Next]_vars PROVE FutureSources'
<1>0. Runs = 1..Len(fut) /\ fut \in Seq(Futures) /\ Len(fut) \in Nat
  BY DEF Runs, IInv, TypeOK
<1>1. CASE UNCHANGED <<whose, fut>>
  BY <1>1, RunsStay DEF FutureSources, Runs
<1>2. ASSUME NEW a \in Arms, Own(a) PROVE FutureSources'
  <2>1. fut' = Append(fut, Blank) /\ Len(whose') = Len(whose) + 1
    BY <1>2 DEF Own, IInv, TypeOK
  <2>2. /\ \A r \in Runs : fut'[r] = fut[r]
        /\ fut'[Len(whose) + 1] = Blank
        /\ Runs' = Runs \cup {Len(whose) + 1}
    BY <1>0, <2>1 DEF Runs, IInv, TypeOK
  <2>3. ASSUME NEW r \in Runs PROVE PrintedFor(fut[r].src, whose[r].key)'
    <3>1. PrintedFor(fut[r].src, whose[r].key)
      BY DEF FutureSources
    <3> QED
      BY <2>2, <3>1, RunsStay DEF PrintedFor
  <2>4. \A r \in Runs' : r \in Runs \/ fut'[r].src = 0
    BY <2>2 DEF Blank
  <2> QED
    BY <2>3, <2>4 DEF FutureSources, PrintedFor
<1>3. ASSUME NEW a \in Arms, NEW k \in Keys, ReadLog(a, k) \/ RunRaises(a, k) PROVE FutureSources'
  <2>1. task[a][k] = "read" /\ UNCHANGED whose
    BY <1>3 DEF ReadLog, RunRaises
  <2>2. PICK v \in Futures \ {Blank} : /\ fut' = [fut EXCEPT ![joined[a][k]] = v]
                                       /\ PrintedFor(v.src, k)
    <3>1. CASE ReadLog(a, k)
      <4>1. PICK v \in LogAnswers(a, k) \cup {Value(FALSE, 0)} : fut' = [fut EXCEPT ![joined[a][k]] = v]
        BY <3>1 DEF ReadLog
      <4>2. \A l \in logs[a][k] : /\ Value(l.ok, l.src) \in Futures \ {Blank}
                                  /\ Value(l.ok, l.src).src = l.src
        BY DEF Futures, Values, Value, Lines, Blank, IInv, TypeOK
      <4>3. Value(FALSE, 0) \in Futures \ {Blank} /\ Value(FALSE, 0).src = 0
        BY DEF Futures, Values, Value, Blank
      <4>4. v = Value(FALSE, 0) \/ \E l \in logs[a][k] : v = Value(l.ok, l.src)
        BY DEF LogAnswers
      <4>5. v \in Futures \ {Blank} /\ PrintedFor(v.src, k)
        <5>1. \A l \in logs[a][k] : PrintedFor(l.src, k)
          BY DEF LogSources
        <5>2. PrintedFor(0, k)
          BY DEF PrintedFor
        <5> QED
          BY <4>2, <4>3, <4>4, <5>1, <5>2
      <4> QED
        BY <4>1, <4>5
    <3>2. CASE RunRaises(a, k)
      <4>1. fut' = [fut EXCEPT ![joined[a][k]] = Raised]
        BY <3>2 DEF RunRaises
      <4>2. Raised \in Futures \ {Blank} /\ PrintedFor(Raised.src, k)
        BY DEF Futures, Raised, Blank, PrintedFor
      <4> QED
        BY <4>1, <4>2
    <3> QED
      BY <1>3, <3>1, <3>2
  <2>3. \A r \in Runs : fut'[r] = IF r = joined[a][k] THEN v ELSE fut[r]
    BY <2>1, <2>2, ResolveFuture, ZenonT(40)
  <2>4. whose[joined[a][k]].key = k
    BY <2>1 DEF TaskRuns
  <2> QED
    BY <2>1, <2>2, <2>3, <2>4 DEF FutureSources, PrintedFor, Runs
<1> QED
  BY <1>1, <1>2, <1>3, Writers

(* What each caller's step makes of its answers: they are blank, or a       *)
(* replayed row, or the future of the run that was joined, or as before.    *)
LEMMA AnswersStep ==
  ASSUME IInv, [Next]_vars, NEW b \in Arms, NEW i \in 1..Len(out'[b])
  PROVE  LET k == batch'[b][i]
             x == out'[b][i]
         IN  \/ x = Blank
             \/ i \in 1..Len(out[b]) /\ k = batch[b][i] /\ x = out[b][i]
             \/ /\ OkRows(k) # {} /\ x = Hit(rows[FirstRow(OkRows(k))].ans.src)
                /\ k \in Keys /\ UNCHANGED <<rows, whose>>
             \/ k \in Keys /\ task[b][k] # "idle" /\ x = Fut(b, k) /\ UNCHANGED whose
<1> USE DEF vars, db, shared, procs, caller, pool, counted
<1> DEFINE k == batch'[b][i]
           x == out'[b][i]
<1>1. CASE UNCHANGED <<batch, out>>
  BY <1>1
<1>2. CASE Crash
  BY <1>2 DEF Crash
<1>3. ASSUME NEW a \in Arms, a # b,
             Call(a) \/ LookupHit(a) \/ Collect(a) \/ CallRaises(a) \/ Commit(a)
      PROVE  batch'[b] = batch[b] /\ out'[b] = out[b]
  BY <1>3 DEF Call, LookupHit, Collect, CallRaises, Commit, LeaveCall, IInv, TypeOK
<1>4. CASE Call(b)
  <2>1. PICK q \in Batches : out' = [out EXCEPT ![b] = [j \in 1..Len(q) |-> Blank]]
    BY <1>4 DEF Call
  <2>2. out'[b] = [j \in 1..Len(q) |-> Blank] /\ Len(q) \in Nat
    BY <2>1, BatchesAssumption DEF IInv, TypeOK
  <2>3. Len(out'[b]) = Len(q)
    BY <2>2
  <2> QED
    BY <2>2, <2>3
<1>5. CASE LookupHit(b)
  <2> DEFINE h == Hit(rows[FirstRow(OkRows(batch[b][pos[b]]))].ans.src)
  <2>1. /\ out' = [out EXCEPT ![b][pos[b]] = h] /\ pc[b] = "lookup"
        /\ OkRows(batch[b][pos[b]]) # {} /\ UNCHANGED <<rows, whose, batch>>
    BY <1>5 DEF LookupHit
  <2>2. pos[b] \in 1..Len(batch[b]) /\ Len(out[b]) = Len(batch[b]) /\ batch[b][pos[b]] \in Keys
    BY <2>1, SequenceTypes DEF IInv, AllAnswered, Answered
  <2> HIDE DEF h
  <2>3. out'[b] = [out[b] EXCEPT ![pos[b]] = h] /\ out[b] \in Seq(Answers)
    BY <2>1 DEF IInv, TypeOK
  <2>4. i \in 1..Len(out[b]) /\ x = IF i = pos[b] THEN h ELSE out[b][i]
    BY <2>2, <2>3
  <2> QED
    BY <2>1, <2>2, <2>4 DEF h
<1>6. CASE Collect(b)
  <2>1. /\ Drained(b) /\ UNCHANGED <<batch, whose>>
        /\ out' = [out EXCEPT ![b] = [j \in 1..Len(batch[b]) |->
               IF j \in Misses(b) THEN Fut(b, batch[b][j]) ELSE out[b][j]]]
        /\ Failing(b) = {}
    BY <1>6 DEF Collect
  <2>2. Len(batch[b]) \in Nat /\ Len(out[b]) = Len(batch[b]) /\ pc[b] = "exec" /\ queue[b] = <<>>
    BY <2>1, SequenceTypes DEF Drained, IInv, AllAnswered, Answered
  <2>3. out'[b] = [j \in 1..Len(batch[b]) |->
               IF j \in Misses(b) THEN Fut(b, batch[b][j]) ELSE out[b][j]]
    BY <2>1 DEF IInv, TypeOK
  <2>4. i \in 1..Len(batch[b]) /\ x = IF i \in Misses(b) THEN Fut(b, batch[b][i]) ELSE out[b][i]
    BY <2>2, <2>3
  <2>5. i \in Misses(b) => task[b][batch[b][i]] # "idle"
    BY <2>1, <2>2 DEF IInv, AllAnswered, Answered, Queued
  <2>6. batch[b][i] \in Keys
    BY <2>4, SequenceTypes DEF IInv
  <2> QED
    BY <2>1, <2>2, <2>4, <2>5, <2>6
<1>7. CASE CallRaises(b) \/ Commit(b)
  <2>1. UNCHANGED <<batch, out>> \/ LeaveCall(b)
    BY <1>7 DEF CallRaises, Commit
  <2>2. LeaveCall(b) => out'[b] = <<>>
    BY DEF LeaveCall, IInv, TypeOK
  <2> QED
    BY <2>1, <2>2
<1> QED
  BY <1>1, <1>2, <1>3, <1>4, <1>5, <1>6, <1>7, Writers

LEMMA AnswerSourcesStep ==
  ASSUME IInv, SourcesMatch, [Next]_vars PROVE AnswerSources'
<1> SUFFICES ASSUME NEW b \in Arms, NEW i \in 1..Len(out'[b])
             PROVE  PrintedFor(out[b][i].src, batch[b][i])'
  BY DEF AnswerSources
<1> DEFINE k == batch'[b][i]
           x == out'[b][i]
<1>1. CASE x = Blank
  BY <1>1 DEF Blank, PrintedFor
<1>2. CASE i \in 1..Len(out[b]) /\ k = batch[b][i] /\ x = out[b][i]
  <2>1. PrintedFor(out[b][i].src, batch[b][i])
    BY <1>2 DEF SourcesMatch, AnswerSources
  <2> QED
    BY <1>2, <2>1, RunsStay DEF PrintedFor
<1>3. CASE /\ OkRows(k) # {} /\ x = Hit(rows[FirstRow(OkRows(k))].ans.src)
           /\ k \in Keys /\ UNCHANGED <<rows, whose>>
  <2>1. FirstRow(OkRows(k)) \in OkRows(k)
    BY <1>3, FirstRowIsRow
  <2>2. PrintedFor(rows[FirstRow(OkRows(k))].ans.src, k)
    BY <2>1 DEF SourcesMatch, RowsMatchKey, OkRows, PrintedFor
  <2> QED
    BY <1>3, <2>2 DEF Hit, PrintedFor, Runs
<1>4. CASE k \in Keys /\ task[b][k] # "idle" /\ x = Fut(b, k) /\ UNCHANGED whose
  <2>1. joined[b][k] \in Runs /\ whose[joined[b][k]].key = k
    BY <1>4 DEF SourcesMatch, TaskRuns, IInv, FuturesFollowTasks
  <2>2. PrintedFor(fut[joined[b][k]].src, k)
    BY <2>1 DEF SourcesMatch, FutureSources
  <2> QED
    BY <1>4, <2>2 DEF Fut, PrintedFor, Runs
<1> QED
  BY <1>1, <1>2, <1>3, <1>4, AnswersStep

(* The rows after a step: those before it, or the committed ones, or one    *)
(* more, which records an answer of the arm-run's batch.                    *)
LEMMA RowsStep ==
  ASSUME IInv, [Next]_vars
  PROVE  /\ Len(rows) \in Nat /\ Len(rows') \in Nat
         /\ \A j \in 1..Len(rows) : j \in 1..Len(rows') => rows'[j] = rows[j]
         /\ \/ Len(rows') <= Len(rows) /\ (UNCHANGED rows \/ \A a \in Arms : out'[a] = <<>>)
            \/ /\ Len(rows') = Len(rows) + 1
               /\ \E a \in Arms, i \in Nat :
                    /\ Insert(a) /\ i \in 1..Len(out[a]) /\ i \in 1..Len(batch[a])
                    /\ rows'[Len(rows')] = [arm |-> a, key |-> batch[a][i], ans |-> out[a][i]]
<1>0. rows \in Seq(Row) /\ Len(rows) \in Nat /\ committed \in 0..Len(rows)
  BY DEF IInv, TypeOK
<1>1. CASE UNCHANGED rows
  BY <1>0, <1>1
<1>2. CASE Crash
  <2>1. rows' = SubSeq(rows, 1, committed) /\ \A a \in Arms : out'[a] = <<>>
    BY <1>2 DEF Crash
  <2>2. Len(rows') = committed /\ \A j \in 1..committed : rows'[j] = rows[j]
    BY <1>0, <2>1, SubSeqProperties
  <2> QED
    BY <1>0, <2>1, <2>2
<1>3. ASSUME NEW a \in Arms, Insert(a)
      PROVE  /\ Len(rows') = Len(rows) + 1
             /\ \A j \in 1..Len(rows) : rows'[j] = rows[j]
             /\ pos[a] \in Nat /\ pos[a] \in 1..Len(out[a]) /\ pos[a] \in 1..Len(batch[a])
             /\ rows'[Len(rows')] = [arm |-> a, key |-> batch[a][pos[a]], ans |-> out[a][pos[a]]]
  <2> DEFINE r == [arm |-> a, key |-> batch[a][pos[a]], ans |-> out[a][pos[a]]]
  <2>1. rows' = Append(rows, r) /\ pc[a] = "record"
    BY <1>3 DEF Insert
  <2> HIDE DEF r
  <2>2. /\ Len(rows') = Len(rows) + 1 /\ rows'[Len(rows) + 1] = r
        /\ \A j \in 1..Len(rows) : rows'[j] = rows[j]
    BY <1>0, <2>1
  <2>3. pos[a] \in 1..Len(batch[a]) /\ Len(out[a]) = Len(batch[a]) /\ pos[a] \in Nat
    BY <2>1, SequenceTypes DEF IInv, AllAnswered, Answered
  <2> QED
    BY <2>2, <2>3 DEF r
<1>4. ASSUME NEW a \in Arms, Insert(a)
      PROVE  \E i \in Nat :
               /\ Insert(a) /\ i \in 1..Len(out[a]) /\ i \in 1..Len(batch[a])
               /\ rows'[Len(rows')] = [arm |-> a, key |-> batch[a][i], ans |-> out[a][i]]
  BY <1>3, <1>4
<1>5. CASE \E a \in Arms : Insert(a)
  <2>1. /\ Len(rows') = Len(rows) + 1
        /\ \A j \in 1..Len(rows) : rows'[j] = rows[j]
    BY <1>3, <1>5
  <2> QED
    BY <1>0, <1>4, <1>5, <2>1
<1> QED
  BY <1>1, <1>2, <1>5, Writers

LEMMA RowSourcesStep == ASSUME IInv, SourcesMatch, [Next]_vars PROVE RowsMatchKey'
<1> SUFFICES ASSUME NEW j \in 1..Len(rows') PROVE PrintedFor(rows[j].ans.src, rows[j].key)'
  BY DEF RowsMatchKey, PrintedFor
<1>1. CASE j \in 1..Len(rows)
  <2>1. PrintedFor(rows[j].ans.src, rows[j].key) /\ rows'[j] = rows[j]
    BY <1>1, RowsStep DEF SourcesMatch, RowsMatchKey, PrintedFor
  <2> QED
    BY <2>1, RunsStay DEF PrintedFor
<1>2. CASE j \notin 1..Len(rows)
  <2>1. PICK a \in Arms, i \in Nat : /\ i \in 1..Len(out[a])
                                   /\ rows'[j] = [arm |-> a, key |-> batch[a][i], ans |-> out[a][i]]
    BY <1>2, RowsStep
  <2>2. PrintedFor(out[a][i].src, batch[a][i])
    BY <2>1 DEF SourcesMatch, AnswerSources
  <2> QED
    BY <2>1, <2>2, RunsStay DEF PrintedFor
<1> QED
  BY <1>1, <1>2

(* A recorded result was printed by a run of its own key, whichever arm-run *)
(* asked for it and however it came: own run, joined run, stale log or      *)
(* replay, through timeouts, kills and restarts (db.py, arm_eval.py).       *)
THEOREM RowsAreOfTheirKey == Spec => []RowsMatchKey
<1>1. Init => SourcesMatch
  BY InitSources
<1>2. IInv /\ SourcesMatch /\ [Next]_vars => SourcesMatch'
  BY TaskRunsStep, LogSourcesStep, FutureSourcesStep, AnswerSourcesStep, RowSourcesStep DEF SourcesMatch
<1>3. SourcesMatch => RowsMatchKey
  BY DEF SourcesMatch
<1> QED
  BY <1>1, <1>2, <1>3, Inductive, PTL DEF Spec

-----------------------------------------------------------------------------
(* What a replay repeats: the earliest successful row, which is no replay.  *)
Replays(s, k) ==
  \E i \in OkRows(k) : /\ rows[i].ans.st # "hit" /\ rows[i].ans.src = s
                       /\ \A h \in OkRows(k) : i <= h
HitsReplay ==
  \A a \in Arms : \A i \in 1..Len(out[a]) :
    out[a][i].st = "hit" => Replays(out[a][i].src, batch[a][i])

(* The earliest successful row stays the earliest, as long as it is there.  *)
LEMMA EarliestStays ==
  ASSUME IInv, [Next]_vars, NEW k, NEW i \in OkRows(k), \A h \in OkRows(k) : i <= h,
         i <= Len(rows')
  PROVE  i \in OkRows(k)' /\ rows'[i] = rows[i] /\ \A h \in OkRows(k)' : i <= h
<1>1. /\ Len(rows) \in Nat /\ Len(rows') \in Nat
      /\ \A j \in 1..Len(rows) : j \in 1..Len(rows') => rows'[j] = rows[j]
  BY RowsStep
<1>2. i \in 1..Len(rows) /\ i \in 1..Len(rows')
  BY <1>1 DEF OkRows
<1>3. ASSUME NEW h \in OkRows(k)' PROVE i <= h
  <2>1. h \in 1..Len(rows') /\ rows'[h].key = k /\ rows'[h].ans.ok
    BY <1>3 DEF OkRows
  <2>2. CASE h \in 1..Len(rows)
    <3>1. h \in OkRows(k)
      BY <1>1, <2>1, <2>2 DEF OkRows
    <3> QED
      BY <3>1
  <2>3. CASE h \notin 1..Len(rows)
    BY <1>1, <1>2, <2>1, <2>3
  <2> QED
    BY <2>2, <2>3
<1> QED
  BY <1>1, <1>2, <1>3 DEF OkRows

LEMMA HitsReplayStep == ASSUME IInv, HitsReplay, ReplaysAgree, [Next]_vars PROVE HitsReplay'
<1> SUFFICES ASSUME NEW b \in Arms, NEW i \in 1..Len(out'[b]), out'[b][i].st = "hit"
             PROVE  Replays(out[b][i].src, batch[b][i])'
  BY DEF HitsReplay
<1>k. PICK k, x : k = batch'[b][i] /\ x = out'[b][i]
  OBVIOUS
<1>0. Len(rows) \in Nat /\ Len(rows') \in Nat /\ (Len(rows) <= Len(rows') \/ out'[b] = <<>>)
  BY RowsStep
<1>1. Len(rows) <= Len(rows')
  BY <1>0
<1>2. Replays(x.src, k)
  <2>1. CASE i \in 1..Len(out[b]) /\ k = batch[b][i] /\ x = out[b][i]
    BY <1>k, <2>1 DEF HitsReplay
  <2>2. CASE /\ OkRows(k) # {} /\ x = Hit(rows[FirstRow(OkRows(k))].ans.src) /\ k \in Keys
    <3> DEFINE f == FirstRow(OkRows(k))
    <3>1. f \in OkRows(k) /\ \A h \in OkRows(k) : f <= h
      BY <2>2, FirstRowIsRow
    <3>2. x.src = rows[f].ans.src
      BY <2>2 DEF Hit
    <3> HIDE DEF f
    <3>3. f \in 1..Len(rows) /\ rows[f].key = k
      BY <3>1 DEF OkRows
    <3>4. rows[f].ans.st # "hit"
      <4> SUFFICES ASSUME rows[f].ans.st = "hit" PROVE FALSE
        OBVIOUS
      <4>1. PICK e \in OkRows(k) : e < f
        BY <3>3 DEF ReplaysAgree
      <4>2. e \in Nat /\ f \in Nat /\ f <= e
        BY <3>1, <3>3 DEF OkRows
      <4> QED
        BY <4>1, <4>2
    <3> QED
      BY <3>1, <3>2, <3>4 DEF Replays
  <2>3. CASE k \in Keys /\ task[b][k] # "idle" /\ x = Fut(b, k)
    <3>1. fut[joined[b][k]] \in Futures
      BY <2>3 DEF IInv, FuturesFollowTasks, TypeOK, Runs
    <3>2. fut[joined[b][k]].st # "hit"
      BY <3>1 DEF Futures, Values, Blank, Raised
    <3> QED
      BY <1>k, <2>3, <3>2 DEF Fut
  <2>4. x # Blank
    BY <1>k DEF Blank
  <2>5. \/ x = Blank
        \/ i \in 1..Len(out[b]) /\ k = batch[b][i] /\ x = out[b][i]
        \/ OkRows(k) # {} /\ x = Hit(rows[FirstRow(OkRows(k))].ans.src) /\ k \in Keys
        \/ k \in Keys /\ task[b][k] # "idle" /\ x = Fut(b, k)
    BY <1>k, AnswersStep
  <2> QED
    BY <2>1, <2>2, <2>3, <2>4, <2>5
<1>3. PICK e \in OkRows(k) : /\ rows[e].ans.st # "hit" /\ rows[e].ans.src = x.src
                             /\ \A h \in OkRows(k) : e <= h
  BY <1>2 DEF Replays
<1>4. e <= Len(rows')
  BY <1>0, <1>1 DEF OkRows
<1>5. e \in OkRows(k)' /\ rows'[e] = rows[e] /\ \A h \in OkRows(k)' : e <= h
  BY <1>3, <1>4, EarliestStays
<1> QED
  BY <1>k, <1>3, <1>5 DEF Replays, OkRows

LEMMA ReplaysAgreeStep == ASSUME IInv, HitsReplay, ReplaysAgree, [Next]_vars PROVE ReplaysAgree'
<1> SUFFICES ASSUME NEW j \in 1..Len(rows'), rows'[j].ans.st = "hit"
             PROVE  \E i \in OkRows(rows[j].key)' :
                      /\ i < j /\ rows'[i].ans.st # "hit" /\ rows'[i].ans.src = rows'[j].ans.src
                      /\ \A h \in OkRows(rows[j].key)' : i <= h
  BY DEF ReplaysAgree
<1>k. PICK k : k = rows'[j].key
  OBVIOUS
<1>0. Len(rows) \in Nat /\ Len(rows') \in Nat
  BY RowsStep
<1>1. PICK i \in OkRows(k) : /\ i < j /\ rows[i].ans.st # "hit" /\ rows[i].ans.src = rows'[j].ans.src
                            /\ \A h \in OkRows(k) : i <= h
  <2>1. CASE j \in 1..Len(rows)
    <3>1. rows'[j] = rows[j]
      BY <2>1, RowsStep
    <3> QED
      BY <1>k, <2>1, <3>1 DEF ReplaysAgree
  <2>2. CASE j \notin 1..Len(rows)
    <3>1. PICK a \in Arms, i \in Nat :
            /\ i \in 1..Len(out[a]) /\ Len(rows') = Len(rows) + 1 /\ j = Len(rows')
            /\ rows'[j] = [arm |-> a, key |-> batch[a][i], ans |-> out[a][i]]
      <4>1. Len(rows') = Len(rows) + 1 /\ j = Len(rows')
        BY <1>0, <2>2, RowsStep
      <4>2. ~(Len(rows') <= Len(rows))
        BY <1>0, <4>1
      <4> QED
        BY <4>1, <4>2, RowsStep
    <3>2. k = batch[a][i] /\ rows'[j].ans = out[a][i] /\ Replays(out[a][i].src, batch[a][i])
      BY <1>k, <3>1 DEF HitsReplay
    <3>3. \A e \in OkRows(k) : e < j
      BY <1>0, <3>1 DEF OkRows
    <3> QED
      BY <3>2, <3>3 DEF Replays
  <2> QED
    BY <2>1, <2>2
<1>2. i <= Len(rows')
  BY <1>0, <1>1 DEF OkRows
<1>3. i \in OkRows(k)' /\ rows'[i] = rows[i] /\ \A h \in OkRows(k)' : i <= h
  BY <1>1, <1>2, EarliestStays
<1> QED
  BY <1>k, <1>1, <1>3 DEF OkRows

(* All replays of an identity repeat its earliest successful row, which was *)
(* measured, also when two arm-runs measured it or rows were lost (db.py).  *)
THEOREM ReplaysAgreeAlways == Spec => []ReplaysAgree
<1>1. Init => HitsReplay /\ ReplaysAgree
  BY DEF Init, HitsReplay, ReplaysAgree
<1>2. IInv /\ HitsReplay /\ ReplaysAgree /\ [Next]_vars => HitsReplay' /\ ReplaysAgree'
  BY HitsReplayStep, ReplaysAgreeStep
<1> QED
  BY <1>1, <1>2, Inductive, PTL DEF Spec

-----------------------------------------------------------------------------
(* What an arm-run has queued it has not recorded a success of.             *)
QueuesUnmeasured ==
  \A a \in Arms : \A i \in 1..Len(queue[a]), j \in 1..Len(rows) :
    ~(rows[j].arm = a /\ rows[j].ans.ok /\ rows[j].key = queue[a][i])

LEMMA QueuesStep ==
  ASSUME IInv, [Next]_vars, NEW b \in Arms, NEW i \in 1..Len(queue'[b])
  PROVE  \/ \E h \in 1..Len(queue[b]) : queue[b][h] = queue'[b][i]
         \/ OkRows(queue'[b][i]) = {} /\ UNCHANGED rows
<1> USE DEF vars, db, shared, procs, caller, pool, counted
<1>1. CASE UNCHANGED queue
  BY <1>1
<1>2. CASE Crash
  BY <1>2 DEF Crash
<1>3. ASSUME NEW a \in Arms, a # b, LookupMiss(a) \/ Own(a) \/ Join(a) \/ CancelQueued(a)
      PROVE  queue'[b] = queue[b]
  BY <1>3 DEF LookupMiss, Own, Join, CancelQueued, IInv, TypeOK
<1>4. queue[b] \in Seq(Keys) /\ Len(queue[b]) \in Nat
  BY DEF IInv, TypeOK
<1>5. CASE LookupMiss(b)
  <2> DEFINE k == batch[b][pos[b]]
  <2>1. /\ queue'[b] = IF \E n \in 1..Len(queue[b]) : queue[b][n] = k THEN queue[b]
                       ELSE Append(queue[b], k)
        /\ OkRows(k) = {} /\ UNCHANGED rows /\ pc[b] = "lookup"
    BY <1>5 DEF LookupMiss, IInv, TypeOK
  <2>2. k \in Keys
    BY <2>1, SequenceTypes DEF IInv, AllAnswered, Answered
  <2> HIDE DEF k
  <2>3. CASE queue'[b] = Append(queue[b], k)
    <3>1. queue'[b][i] = k \/ (i \in 1..Len(queue[b]) /\ queue'[b][i] = queue[b][i])
      BY <1>4, <2>2, <2>3
    <3> QED
      BY <2>1, <3>1
  <2> QED
    BY <2>1, <2>3
<1>6. CASE Own(b) \/ Join(b)
  <2>1. queue'[b] = Tail(queue[b]) /\ queue[b] # <<>>
    BY <1>6 DEF Own, Join, ThreadFree, IInv, TypeOK
  <2>2. i + 1 \in 1..Len(queue[b]) /\ queue'[b][i] = queue[b][i + 1]
    BY <1>4, <2>1
  <2> QED
    BY <2>2
<1>7. CASE CancelQueued(b)
  BY <1>7 DEF CancelQueued, IInv, TypeOK
<1> QED
  BY <1>1, <1>2, <1>3, <1>5, <1>6, <1>7, Writers

LEMMA QueuesUnmeasuredStep ==
  ASSUME IInv, QueuesUnmeasured, [Next]_vars PROVE QueuesUnmeasured'
<1> SUFFICES ASSUME NEW b \in Arms, NEW i \in 1..Len(queue'[b]), NEW j \in 1..Len(rows'),
                    rows'[j].arm = b, rows'[j].ans.ok, rows'[j].key = queue'[b][i]
             PROVE  FALSE
  BY DEF QueuesUnmeasured
<1>1. CASE j \in 1..Len(rows)
  <2>1. rows'[j] = rows[j]
    BY <1>1, RowsStep
  <2>2. j \in OkRows(queue'[b][i])
    BY <1>1, <2>1 DEF OkRows
  <2>3. PICK h \in 1..Len(queue[b]) : queue[b][h] = queue'[b][i]
    BY <2>2, QueuesStep
  <2> QED
    BY <1>1, <2>1, <2>3 DEF QueuesUnmeasured
<1>2. CASE j \notin 1..Len(rows)
  <2>1. PICK a \in Arms, n \in Nat :
          Insert(a) /\ rows'[j] = [arm |-> a, key |-> batch[a][n], ans |-> out[a][n]]
    BY <1>2, RowsStep
  <2>2. a = b /\ pc[b] = "record" /\ UNCHANGED queue
    BY <2>1 DEF Insert, pool
  <2>3. queue[b] = <<>>
    BY <2>2 DEF IInv, PoolOfCall, Pooled
  <2> QED
    BY <2>2, <2>3
<1> QED
  BY <1>1, <1>2

LEMMA OwnedIsUnmeasured ==
  ASSUME IInv, QueuesUnmeasured, [Next]_vars,
         NEW a \in Arms, Len(whose') > Len(whose), whose'[Len(whose')].arm = a
  PROVE  ~ \E i \in 1..Len(rows) : /\ rows[i].arm = a /\ rows[i].ans.ok
                                   /\ rows[i].key = whose'[Len(whose')].key
<1>0. whose \in Seq(OwnerOf) /\ Len(whose) \in Nat
  BY DEF IInv, TypeOK
<1>1. PICK b \in Arms : Own(b)
  BY <1>0, Writers
<1> DEFINE k == Head(queue[b])
<1>2. whose' = Append(whose, [arm |-> b, key |-> k]) /\ queue[b] # <<>> /\ queue[b] \in Seq(Keys)
  BY <1>1 DEF Own, ThreadFree, IInv, TypeOK
<1>3. 1 \in 1..Len(queue[b]) /\ k = queue[b][1] /\ k \in Keys
  BY <1>2
<1>4. [arm |-> b, key |-> k] \in OwnerOf
  BY <1>3 DEF OwnerOf
<1> HIDE DEF k
<1>5. whose'[Len(whose')] = [arm |-> b, key |-> k]
  BY <1>0, <1>2, <1>4
<1> QED
  BY <1>3, <1>5 DEF QueuesUnmeasured

(* An arm-run never starts a run of a key for which it has itself recorded  *)
(* a success that is still in the database (db.py evaluate_many).           *)
THEOREM OwnSuccessesAreKept == Spec => NoRerunOfOwnSuccess
<1>1. Init => QueuesUnmeasured
  BY DEF Init, QueuesUnmeasured
<1>2. IInv /\ QueuesUnmeasured /\ [Next]_vars => QueuesUnmeasured'
  BY QueuesUnmeasuredStep
<1> DEFINE Kept == \A a \in Arms : Len(whose') > Len(whose) /\ whose'[Len(whose')].arm = a =>
                     ~ \E i \in 1..Len(rows) : /\ rows[i].arm = a /\ rows[i].ans.ok
                                              /\ rows[i].key = whose'[Len(whose')].key
<1>3. IInv /\ QueuesUnmeasured /\ [Next]_vars => [Kept]_vars
  BY OwnedIsUnmeasured
<1> QED
  BY <1>1, <1>2, <1>3, Inductive, PTL DEF Spec, NoRerunOfOwnSuccess

-----------------------------------------------------------------------------
(* Without timeouts and kills every script and container is awaited by the  *)
(* thread that owns its run.                                                *)
NoStray == \A r \in Runs : proc[r] \in {"slot", "cont"} => Awaited(r)

(* A thread's step that is not about a running script.                      *)
LEMMA StillAwaited ==
  ASSUME NoStray, UNCHANGED <<whose, proc>>,
         \A a \in Arms, k \in Keys : task[a][k] = "run" =>
            task'[a][k] = "run" /\ joined'[a][k] = joined[a][k],
         \A r \in Runs : whose[r].arm \in Arms /\ whose[r].key \in Keys
  PROVE  NoStray'
BY DEF NoStray, Awaited, Runs

LEMMA NoStrayStep ==
  ASSUME MaxTimeouts = 0, MaxCrashes = 0, IInv, NoStray, [Next]_vars
  PROVE  NoStray'
<1> USE DEF vars, db, shared, procs, caller, pool, counted
<1>0. /\ \A r \in Runs : whose[r].arm \in Arms /\ whose[r].key \in Keys
      /\ Runs = 1..Len(proc) /\ proc \in Seq(ProcStates) /\ Len(whose) \in Nat
      /\ whose \in Seq(OwnerOf)
  <2>1. \A r \in Runs : whose[r] \in OwnerOf
    BY DEF Runs, IInv, TypeOK
  <2>2. \A r \in Runs : whose[r].arm \in Arms /\ whose[r].key \in Keys
    BY <2>1 DEF OwnerOf
  <2>3. TypeOK
    BY DEF IInv
  <2>4. whose \in Seq(OwnerOf) /\ proc \in Seq(ProcStates) /\ Len(proc) = Len(whose)
    BY <2>3 DEF TypeOK
  <2> QED
    BY <2>2, <2>4 DEF Runs
<1>1. ASSUME NEW a \in Arms, Call(a) \/ LookupHit(a) \/ LookupMiss(a) \/ CancelQueued(a)
                             \/ Insert(a) \/ Commit(a)
      PROVE  NoStray'
  <2>1. UNCHANGED <<task, joined, whose, proc>>
    BY <1>1 DEF Call, LookupHit, LookupMiss, CancelQueued, Insert, Commit
  <2> QED
    BY <1>0, <2>1, StillAwaited
<1>2. ASSUME NEW a \in Arms, Own(a) \/ Join(a) PROVE NoStray'
  <2> DEFINE k == Head(queue[a])
  <2>1. PICK s \in {"sem", "waiting"}, n \in Nat :
          /\ task' = [task EXCEPT ![a][k] = s] /\ joined' = [joined EXCEPT ![a][k] = n]
    <3>1. k \in Keys
      BY <1>2, SequenceTypes DEF Own, Join, ThreadFree, IInv
    <3>2. inflight[k] \in Nat /\ Len(whose) + 1 \in Nat
      BY <1>0, <3>1 DEF IInv, TypeOK
    <3> QED
      BY <1>2, <3>2 DEF Own, Join
  <2>2. k \in Keys /\ task[a][k] = "idle"
    <3>1. queue[a] \in Seq(Keys) /\ queue[a] # <<>>
      BY <1>2, SequenceTypes DEF Own, Join, ThreadFree, IInv
    <3>2. k = queue[a][1] /\ k \in Keys /\ 1 \in 1..Len(queue[a])
      BY <3>1
    <3> QED
      BY <3>2 DEF PoolOfCall, Pooled, IInv
  <2> HIDE DEF k
  <2>3. \A b \in Arms, j \in Keys : task[b][j] = "run" =>
          task'[b][j] = "run" /\ joined'[b][j] = joined[b][j]
    BY <2>1, <2>2 DEF IInv, TypeOK
  <2>4. CASE UNCHANGED <<whose, proc>>
    BY <1>0, <2>3, <2>4, StillAwaited
  <2>5. CASE Own(a)
    <3>1. PICK o : whose' = Append(whose, o) /\ proc' = Append(proc, "none")
      BY <2>5 DEF Own
    <3>2. /\ \A r \in Runs : whose'[r] = whose[r] /\ proc'[r] = proc[r]
          /\ proc'[Len(whose) + 1] = "none" /\ Runs' = Runs \cup {Len(whose) + 1}
      BY <1>0, <3>1 DEF Runs, ProcStates
    <3> QED
      BY <1>0, <2>3, <3>2, SMTT(30) DEF NoStray, Awaited
  <2> QED
    BY <1>2, <2>4, <2>5 DEF Join
<1>3. ASSUME NEW a \in Arms, Collect(a) \/ CallRaises(a) PROVE NoStray'
  <2>1. /\ \A j \in Keys : task[a][j] \in {"idle", "done"}
        /\ \A c \in Arms \ {a} : task'[c] = task[c] /\ joined'[c] = joined[c]
        /\ UNCHANGED <<whose, proc>>
    <3>1. Drained(a) /\ LeavePool(a) /\ UNCHANGED <<inflight, whose, fut, queue, proc>>
      BY <1>3 DEF Collect, CallRaises
    <3> QED
      BY <3>1, LeavingPool
  <2> QED
    BY <1>0, <2>1, StillAwaited
<1>4. ASSUME NEW a \in Arms, NEW k \in Keys, Launch(a, k) PROVE NoStray'
  <2>1. /\ task[a][k] = "sem" /\ task' = [task EXCEPT ![a][k] = "run"]
        /\ proc' = [proc EXCEPT ![joined[a][k]] = "slot"] /\ UNCHANGED <<whose, joined>>
    BY <1>4 DEF Launch
  <2>2. /\ joined[a][k] \in Runs
        /\ whose[joined[a][k]].arm = a /\ whose[joined[a][k]].key = k
    BY <2>1 DEF IInv, OneOwner, Owners, OwnerStates
  <2>3. /\ \A b \in Arms, j \in Keys : task'[b][j] = IF b = a /\ j = k THEN "run" ELSE task[b][j]
        /\ \A r \in Runs : proc'[r] = IF r = joined[a][k] THEN "slot" ELSE proc[r]
    BY <1>0, <2>1, <2>2, SMTT(30) DEF IInv, TypeOK
  <2> QED
    BY <1>0, <2>1, <2>2, <2>3 DEF NoStray, Awaited, Runs
<1>5. ASSUME NEW a \in Arms, NEW k \in Keys,
             LaunchFails(a, k) \/ ReadLog(a, k) \/ RunRaises(a, k) \/ Pop(a, k) \/ Wake(a, k)
      PROVE  NoStray'
  <2>1. PICK s \in {"read", "pop", "done"} : task' = [task EXCEPT ![a][k] = s]
    BY <1>5 DEF LaunchFails, ReadLog, RunRaises, Pop, Wake
  <2>2. UNCHANGED <<whose, proc, joined>> /\ task[a][k] # "run"
    BY <1>5 DEF LaunchFails, ReadLog, RunRaises, Pop, Wake
  <2>3. \A b \in Arms, j \in Keys : task'[b][j] = IF b = a /\ j = k THEN s ELSE task[b][j]
    BY <2>1 DEF IInv, TypeOK
  <2> QED
    BY <1>0, <2>2, <2>3, StillAwaited
<1>6. ASSUME NEW r \in Runs, StartContainer(r) PROVE NoStray'
  <2>1. proc[r] = "slot" /\ proc' = [proc EXCEPT ![r] = "cont"] /\ UNCHANGED <<whose, task, joined>>
    BY <1>6 DEF StartContainer
  <2>2. \A t \in Runs : proc'[t] = IF t = r THEN "cont" ELSE proc[t]
    BY <1>0, <2>1
  <2> QED
    BY <2>1, <2>2 DEF NoStray, Awaited, Runs
<1>7. ASSUME NEW r \in Runs, EndContainer(r) PROVE NoStray'
  <2> DEFINE a == whose[r].arm
             k == whose[r].key
  <2>1. /\ proc[r] = "cont" /\ proc' = [proc EXCEPT ![r] = "gone"] /\ UNCHANGED <<whose, joined>>
        /\ Awaited(r)
    BY <1>7 DEF EndContainer, NoStray
  <2>2. task' = [task EXCEPT ![a][k] = "read"] /\ joined[a][k] = r
    BY <1>7, <2>1 DEF EndContainer, Awaited
  <2>3. a \in Arms /\ k \in Keys
    BY <1>0
  <2>4. \A t \in Runs : proc'[t] = IF t = r THEN "gone" ELSE proc[t]
    BY <1>0, <2>1
  <2>5. \A t \in Runs : whose[t].arm = a /\ whose[t].key = k /\ Awaited(t) => t = r
    BY <2>2 DEF Awaited
  <2> HIDE DEF a, k
  <2>6. \A b \in Arms, j \in Keys : task'[b][j] = IF b = a /\ j = k THEN "read" ELSE task[b][j]
    BY <2>2, <2>3 DEF IInv, TypeOK
  <2> QED
    BY <1>0, <2>1, <2>4, <2>5, <2>6 DEF NoStray, Awaited, Runs
<1>8. ~Crash /\ \A a \in Arms, k \in Keys : ~Timeout(a, k)
  BY DEF Crash, Timeout, IInv, TypeOK
<1>9. CASE Finished \/ UNCHANGED vars
  BY <1>0, <1>9, StillAwaited DEF Finished
<1> QED
  BY <1>1, <1>2, <1>3, <1>4, <1>5, <1>6, <1>7, <1>8, <1>9 DEF Next, Caller, Thread, Process

LEMMA AwaitedIsAlone == ASSUME IInv, NoStray PROVE OneProcessPerKey
<1> SUFFICES ASSUME NEW k \in Keys PROVE Cardinality(Live(k)) <= 1
  BY DEF OneProcessPerKey
<1>1. ASSUME NEW r \in Live(k), NEW s \in Live(k) PROVE r = s
  <2>1. r \in Runs /\ s \in Runs /\ Awaited(r) /\ Awaited(s) /\ whose[r].key = k /\ whose[s].key = k
    BY DEF Live, NoStray
  <2>2. whose[r].arm \in Arms /\ whose[s].arm \in Arms
    <3>1. whose[r] \in OwnerOf /\ whose[s] \in OwnerOf
      BY <2>1 DEF Runs, IInv, TypeOK
    <3> QED
      BY <3>1 DEF OwnerOf
  <2>3. whose[r].arm \in Owners(k) /\ whose[s].arm \in Owners(k)
    BY <2>1, <2>2 DEF Awaited, Owners, OwnerStates
  <2>4. whose[r].arm = whose[s].arm
    BY <2>3 DEF IInv, OneOwner
  <2> QED
    BY <2>1, <2>4 DEF Awaited
<1>2. CASE Live(k) = {}
  BY <1>2, FS_EmptySet
<1>3. CASE Live(k) # {}
  <2>1. PICK r : Live(k) = {r}
    BY <1>1, <1>3
  <2>2. Cardinality({r}) = 1
    BY FS_Singleton
  <2> QED
    BY <2>1, <2>2
<1> QED
  BY <1>2, <1>3

(* As long as nothing times out and nobody kills the driver, two requests   *)
(* with one identity never have their scripts or containers at the same     *)
(* time (arm_eval.py:8).                                                    *)
THEOREM OneProcessUndisturbed ==
  ASSUME MaxTimeouts = 0, MaxCrashes = 0 PROVE Spec => []OneProcessPerKey
<1>1. Init => NoStray
  BY DEF Init, NoStray, Runs
<1>2. IInv /\ NoStray /\ [Next]_vars => NoStray'
  BY NoStrayStep
<1>3. IInv /\ NoStray => OneProcessPerKey
  BY AwaitedIsAlone
<1> QED
  BY <1>1, <1>2, <1>3, Inductive, PTL DEF Spec

=============================================================================
