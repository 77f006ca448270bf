----------------------------- MODULE NodeProofs ------------------------------
(* Theorems about Node: what a placement's files hold while evaluations work *)
(* on them, who works in which directory, what an affine dispatch keeps,     *)
(* whose answer a LibreLane evaluation returns, and what the options, the    *)
(* keys and the command line tell apart.                                     *)
EXTENDS Node, FiniteSetTheorems, WellFoundedInduction, TLAPS

-----------------------------------------------------------------------------
(* The inductive invariant of the dispatched DEF handoff, in named parts.    *)
CallsOK == [pc: {"idle", "placing", "running"}, reqs: Seq([id: Ids, stage: Stages]), ref: Seq(Tasks)]
Typed ==
  /\ HandoffTypeOK
  /\ kind \in Kinds /\ slot \in [Ids -> Disks \cup {None}] /\ held \in [Ids -> Disks \cup {None}]
  /\ kind # "split" => \A i \in Ids : slot[i] = None
  /\ call \in [Calls -> CallsOK]
  /\ up \subseteq Disks /\ calls \in 0..MaxCalls /\ losses \in 0..MaxLosses
  /\ mixed \in BOOLEAN /\ crossed \in BOOLEAN /\ screened \subseteq Ids

(* Where an evaluation runs, and what its step says of its stage.            *)
OnDisk ==
  \A t \in Tasks : task[t].pc # "free" =>
    /\ task[t].disk \in Disks /\ task[t].id \in Ids
    /\ kind \in {"local", "batch"} => task[t].disk = Home
    /\ kind = "split" /\ slot[task[t].id] # None => task[t].disk = slot[task[t].id]
InStep ==
  \A t \in Tasks :
    /\ task[t].pc = "repair" => flow = "rebuf" /\ task[t].round < Placements
    /\ task[t].pc = "handed" => kind = "split"
    /\ task[t].pc \in {"handed", "route", "make", "write"} => task[t].stage # "proxy"
    /\ task[t].pc = "write" => task[t].stage = "grt"
    /\ task[t].ans = "ok" => task[t].pc = "done"

(* One evaluation at a time in a dp directory: dp_result.json is whole only  *)
(* if what it describes is, and is not there while that is made.             *)
AloneInDir == ~crossed => ~Crossed(task)
DirSound(p) == p.cache = "full" => p.def = "full" /\ (flow = "rebuf" => p.odb)
CacheSound  == ~crossed => \A d \in Disks, i \in Ids : DirSound(place[d][i])

Repaired(t) == (task[t].pc = "gp" /\ task[t].round = Placements) \/ task[t].pc \in {"def", "save"}
Follows(t) ==
  /\ task[t].pc \in {"gp", "repair", "def"} => Here(t).cache = "none"
  /\ flow = "rebuf" /\ Repaired(t) => Here(t).odb
  /\ task[t].pc = "save" => Here(t).def = "full"
  /\ task[t].pc = "import" => Here(t).cache = "full"
  /\ task[t].pc \in {"handed", "route"} /\ Together(task[t].id) => Here(t).def = "full"
FilesFollow == ~crossed => \A t \in Tasks : Follows(t)

WholeYet(t) ==
  /\ task[t].pc \in {"queued", "look", "gp", "repair", "def", "save", "import", "handed"} => task[t].whole
  /\ task[t].pc # "free" /\ Together(task[t].id) =>
       /\ task[t].pc = "route" => task[t].whole
       /\ task[t].pc \in {"make", "write"} /\ task[t].from # "grt" => task[t].whole
       /\ task[t].ans = "ok" => task[t].whole
WholeSoFar == ~crossed => \A t \in Tasks : WholeYet(t)

(* Every evaluation is one request of one call.                              *)
Asked == \A c \in Calls :
  /\ c > calls => call[c] = NoCall
  /\ call[c].pc = "placing" => kind = "batch"
  /\ Len(call[c].ref) = Len(call[c].reqs)
  /\ \A k \in 1..Len(call[c].ref) :
       /\ task[call[c].ref[k]].pc # "free" /\ task[call[c].ref[k]].id = call[c].reqs[k].id
       /\ task[call[c].ref[k]].stage \in {"proxy", call[c].reqs[k].stage}
       /\ task[call[c].ref[k]].again => call[c].reqs[k].stage = "route"
RefsApart == \A c, e \in Calls : \A k \in 1..Len(call[c].ref), l \in 1..Len(call[e].ref) :
  call[c].ref[k] = call[e].ref[l] => c = e /\ k = l
Owned == losses = 0 => \A t \in Tasks :
  ~task[t].lost /\ (task[t].pc # "free" => \E c \in Calls : \E k \in 1..Len(call[c].ref) : call[c].ref[k] = t)
ReqsApart == ~mixed => \A c, e \in Calls : \A k \in 1..Len(call[c].ref), l \in 1..Len(call[e].ref) :
  call[c].reqs[k] = call[e].reqs[l] => c = e /\ k = l

(* What was screened is on the machine where its route will be sent.         *)
Keeper(i) == IF kind \in {"local", "batch"} THEN Home ELSE IF kind = "affinity" THEN held[i] ELSE slot[i]
GrtDone == losses = 0 /\ ~mixed => \A t \in Tasks :
  task[t].ans = "ok" /\ task[t].stage = "grt" => GrtOf(t) = "full"
ScreenedKept == losses = 0 /\ ~mixed => \A i \in screened :
  /\ \A c \in Calls : \A k \in 1..Len(call[c].ref) : ~(call[c].reqs[k].id = i /\ call[c].reqs[k].stage = "grt")
  /\ Kept(i) =>
       /\ Keeper(i) \in Disks /\ grt[Keeper(i)][i] = "full"
       /\ \A c \in Calls : \A k \in 1..Len(call[c].ref) :
            call[c].reqs[k].id = i /\ call[c].reqs[k].stage = "route" => task[call[c].ref[k]].disk = Keeper(i)
AgainScreened == \A t \in Tasks : task[t].again => task[t].id \in screened
NotFromBase == losses = 0 /\ ~mixed =>
  \A t \in Tasks : task[t].again /\ Kept(task[t].id) => task[t].from # "base"

IInv ==
  /\ Typed /\ OnDisk /\ InStep /\ AloneInDir /\ CacheSound /\ FilesFollow /\ WholeSoFar
  /\ Asked /\ RefsApart /\ Owned /\ ReqsApart
  /\ GrtDone /\ ScreenedKept /\ AgainScreened /\ NotFromBase

-----------------------------------------------------------------------------
(* A step of a worker changes its own record, the files of its own placement *)
(* on its own disk, and nothing of the dispatch.                             *)
Elsewhere(t, files) ==
  \A d \in Disks, i \in Ids : d # task[t].disk \/ i # task[t].id => files'[d][i] = files[d][i]
SameTask(t) ==
  /\ task'[t].disk = task[t].disk /\ task'[t].id = task[t].id /\ task'[t].stage = task[t].stage
  /\ task'[t].again = task[t].again /\ task'[t].lost = task[t].lost
  /\ task[t].pc \notin {"free", "queued", "handed", "done"} /\ task'[t].pc \notin {"free", "queued"}
  /\ \A u \in Tasks \ {t} : task'[u] = task[u]

(* Records of tasks and files stay what they are when a field is written.    *)
LEMMA NewRecords ==
  ASSUME NEW r \in TasksOK
  PROVE  /\ \A pc \in Steps : [r EXCEPT !.pc = pc] \in TasksOK
         /\ \A n \in 0..Rounds : [r EXCEPT !.round = n] \in TasksOK
         /\ \A w \in BOOLEAN : [r EXCEPT !.lost = w] \in TasksOK
         /\ \A w \in BOOLEAN : [r EXCEPT !.again = w] \in TasksOK
         /\ \A pc \in Steps, d \in Disks : [r EXCEPT !.pc = pc, !.disk = d] \in TasksOK
         /\ \A pc \in Steps, n \in 0..Rounds : [r EXCEPT !.pc = pc, !.round = n] \in TasksOK
         /\ \A pc \in Steps, a \in {None, "ok", "failed"} : [r EXCEPT !.pc = pc, !.ans = a] \in TasksOK
         /\ \A pc \in Steps, a \in {None, "ok", "failed"}, w \in BOOLEAN :
              [r EXCEPT !.pc = pc, !.ans = a, !.whole = w] \in TasksOK
         /\ \A pc \in Steps, f \in {"base", "grt"}, w \in BOOLEAN :
              [r EXCEPT !.pc = pc, !.from = f, !.whole = w] \in TasksOK
BY ZenonT(40) DEF TasksOK

LEMMA TaskFields ==
  ASSUME NEW r \in TasksOK
  PROVE  /\ r.pc \in Steps /\ r.stage \in Stages /\ r.round \in 0..Rounds /\ r.whole \in BOOLEAN
         /\ r.again \in BOOLEAN /\ r.lost \in BOOLEAN /\ r.ans \in {None, "ok", "failed"}
         /\ r.from \in {None, "base", "grt"} /\ r.disk \in Disks \cup {None} /\ r.id \in Ids \cup {None}
BY DEF TasksOK

LEMMA NewFiles ==
  ASSUME NEW p \in FilesOK, NEW x \in Files, NEW y \in Files, NEW b \in BOOLEAN, NEW t \in Tasks
  PROVE  /\ [p EXCEPT !.def = x] \in FilesOK /\ [p EXCEPT !.cache = x] \in FilesOK
         /\ [p EXCEPT !.def = x, !.cache = y] \in FilesOK
         /\ [p EXCEPT !.odb = b] \in FilesOK /\ [p EXCEPT !.orfs = t] \in FilesOK
         /\ p.def \in Files /\ p.cache \in Files /\ p.odb \in BOOLEAN
BY DEF FilesOK

LEMMA OneTask ==
  ASSUME task \in [Tasks -> TasksOK], NEW t \in Tasks, NEW r \in TasksOK,
         task' = [task EXCEPT ![t] = r]
  PROVE  task' \in [Tasks -> TasksOK] /\ task'[t] = r /\ \A u \in Tasks \ {t} : task'[u] = task[u]
OBVIOUS

LEMMA OnePlace ==
  ASSUME place \in [Disks -> [Ids -> FilesOK]], NEW d \in Disks, NEW i \in Ids, NEW p \in FilesOK,
         place' = [place EXCEPT ![d][i] = p]
  PROVE  /\ place' \in [Disks -> [Ids -> FilesOK]] /\ place'[d][i] = p
         /\ \A e \in Disks, j \in Ids : d # e \/ i # j => place'[e][j] = place[e][j]
OBVIOUS

LEMMA OneGrt ==
  ASSUME grt \in [Disks -> [Ids -> Files]], NEW d \in Disks, NEW i \in Ids, NEW p \in Files,
         grt' = [grt EXCEPT ![d][i] = p]
  PROVE  /\ grt' \in [Disks -> [Ids -> Files]] /\ grt'[d][i] = p
         /\ \A e \in Disks, j \in Ids : d # e \/ i # j => grt'[e][j] = grt[e][j]
OBVIOUS


(* Each way a worker writes its record.                                      *)
SameElse(t) ==
  /\ task'[t].disk = task[t].disk /\ task'[t].id = task[t].id /\ task'[t].stage = task[t].stage
  /\ task'[t].again = task[t].again /\ task'[t].lost = task[t].lost
  /\ \A u \in Tasks \ {t} : task'[u] = task[u]

LEMMA GotoWrites ==
  ASSUME task \in [Tasks -> TasksOK], NEW t \in Tasks, NEW pc \in Steps,
         Goto(t, pc)
  PROVE  /\ task' \in [Tasks -> TasksOK] /\ SameElse(t)
         /\ task'[t].pc = pc /\ task'[t].round = task[t].round /\ task'[t].whole = task[t].whole
         /\ task'[t].ans = task[t].ans /\ task'[t].from = task[t].from
<1> DEFINE r == [task[t] EXCEPT !.pc = pc]
<1>1. task' = [task EXCEPT ![t] = r]
  BY DEF Goto, Answer
<1>2. r \in TasksOK
  BY NewRecords
<1>3. /\ r.disk = task[t].disk /\ r.id = task[t].id /\ r.stage = task[t].stage
      /\ r.again = task[t].again /\ r.lost = task[t].lost
      /\ r.pc = pc /\ r.round = task[t].round /\ r.whole = task[t].whole
         /\ r.ans = task[t].ans /\ r.from = task[t].from
  BY DEF TasksOK
<1> HIDE DEF r
<1>4. task' \in [Tasks -> TasksOK] /\ task'[t] = r /\ \A u \in Tasks \ {t} : task'[u] = task[u]
  BY <1>1, <1>2
<1> QED
  BY <1>3, <1>4 DEF SameElse

LEMMA AnswerWrites ==
  ASSUME task \in [Tasks -> TasksOK], NEW t \in Tasks, NEW a \in {None, "ok", "failed"},
         Answer(t, a)
  PROVE  /\ task' \in [Tasks -> TasksOK] /\ SameElse(t)
         /\ task'[t].pc = "done" /\ task'[t].ans = a /\ task'[t].whole = task[t].whole /\ task'[t].from = task[t].from
<1> DEFINE r == [task[t] EXCEPT !.pc = "done", !.ans = a]
<1>1. task' = [task EXCEPT ![t] = r]
  BY DEF Goto, Answer
<1>2. r \in TasksOK
  BY NewRecords DEF Steps
<1>3. /\ r.disk = task[t].disk /\ r.id = task[t].id /\ r.stage = task[t].stage
      /\ r.again = task[t].again /\ r.lost = task[t].lost
      /\ r.pc = "done" /\ r.ans = a /\ r.whole = task[t].whole /\ r.from = task[t].from
  BY DEF TasksOK
<1> HIDE DEF r
<1>4. task' \in [Tasks -> TasksOK] /\ task'[t] = r /\ \A u \in Tasks \ {t} : task'[u] = task[u]
  BY <1>1, <1>2
<1> QED
  BY <1>3, <1>4 DEF SameElse

LEMMA RoundWrites ==
  ASSUME task \in [Tasks -> TasksOK], NEW t \in Tasks, NEW n \in 0..Rounds,
         task' = [task EXCEPT ![t].round = n]
  PROVE  /\ task' \in [Tasks -> TasksOK] /\ SameElse(t)
         /\ task'[t].round = n /\ task'[t].pc = task[t].pc /\ task'[t].whole = task[t].whole
         /\ task'[t].ans = task[t].ans /\ task'[t].from = task[t].from
<1> DEFINE r == [task[t] EXCEPT !.round = n]
<1>1. task' = [task EXCEPT ![t] = r]
  BY DEF Goto, Answer
<1>2. r \in TasksOK
  BY NewRecords
<1>3. /\ r.disk = task[t].disk /\ r.id = task[t].id /\ r.stage = task[t].stage
      /\ r.again = task[t].again /\ r.lost = task[t].lost
      /\ r.round = n /\ r.pc = task[t].pc /\ r.whole = task[t].whole
         /\ r.ans = task[t].ans /\ r.from = task[t].from
  BY DEF TasksOK
<1> HIDE DEF r
<1>4. task' \in [Tasks -> TasksOK] /\ task'[t] = r /\ \A u \in Tasks \ {t} : task'[u] = task[u]
  BY <1>1, <1>2
<1> QED
  BY <1>3, <1>4 DEF SameElse

LEMMA NextRoundWrites ==
  ASSUME task \in [Tasks -> TasksOK], NEW t \in Tasks, NEW pc \in Steps, NEW n \in 0..Rounds,
         task' = [task EXCEPT ![t] = [@ EXCEPT !.pc = pc, !.round = n]]
  PROVE  /\ task' \in [Tasks -> TasksOK] /\ SameElse(t)
         /\ task'[t].pc = pc /\ task'[t].round = n /\ task'[t].whole = task[t].whole
         /\ task'[t].ans = task[t].ans /\ task'[t].from = task[t].from
<1> DEFINE r == [task[t] EXCEPT !.pc = pc, !.round = n]
<1>1. task' = [task EXCEPT ![t] = r]
  BY DEF Goto, Answer
<1>2. r \in TasksOK
  BY NewRecords
<1>3. /\ r.disk = task[t].disk /\ r.id = task[t].id /\ r.stage = task[t].stage
      /\ r.again = task[t].again /\ r.lost = task[t].lost
      /\ r.pc = pc /\ r.round = n /\ r.whole = task[t].whole
         /\ r.ans = task[t].ans /\ r.from = task[t].from
  BY DEF TasksOK
<1> HIDE DEF r
<1>4. task' \in [Tasks -> TasksOK] /\ task'[t] = r /\ \A u \in Tasks \ {t} : task'[u] = task[u]
  BY <1>1, <1>2
<1> QED
  BY <1>3, <1>4 DEF SameElse

LEMMA RepairedWrites ==
  ASSUME task \in [Tasks -> TasksOK], NEW t \in Tasks, task[t].round + 1 \in 0..Rounds,
         task' = [task EXCEPT ![t] = [@ EXCEPT !.pc = "gp", !.round = task[t].round + 1]]
  PROVE  /\ task' \in [Tasks -> TasksOK] /\ SameElse(t)
         /\ task'[t].pc = "gp" /\ task'[t].round = task[t].round + 1 /\ task'[t].whole = task[t].whole
         /\ task'[t].ans = task[t].ans /\ task'[t].from = task[t].from
<1>1. PICK n \in 0..Rounds : n = task[t].round + 1
  OBVIOUS
<1>2. "gp" \in Steps
  BY DEF Steps
<1>3. task' = [task EXCEPT ![t] = [@ EXCEPT !.pc = "gp", !.round = n]]
  BY <1>1
<1>4. /\ task' \in [Tasks -> TasksOK] /\ SameElse(t)
      /\ task'[t].pc = "gp" /\ task'[t].round = n /\ task'[t].whole = task[t].whole
      /\ task'[t].ans = task[t].ans /\ task'[t].from = task[t].from
  BY <1>2, <1>3, NextRoundWrites
<1> QED
  BY <1>1, <1>4

LEMMA FirstRoundWrites ==
  ASSUME task \in [Tasks -> TasksOK], NEW t \in Tasks,
         task' = [task EXCEPT ![t] = [@ EXCEPT !.pc = "gp", !.round = 1]]
  PROVE  /\ task' \in [Tasks -> TasksOK] /\ SameElse(t)
         /\ task'[t].pc = "gp" /\ task'[t].round = 1 /\ task'[t].whole = task[t].whole
         /\ task'[t].ans = task[t].ans /\ task'[t].from = task[t].from
<1>1. PICK n \in 0..Rounds : n = 1
  BY HandoffAssumption
<1>2. "gp" \in Steps
  BY DEF Steps
<1>3. task' = [task EXCEPT ![t] = [@ EXCEPT !.pc = "gp", !.round = n]]
  BY <1>1
<1>4. /\ task' \in [Tasks -> TasksOK] /\ SameElse(t)
      /\ task'[t].pc = "gp" /\ task'[t].round = n /\ task'[t].whole = task[t].whole
      /\ task'[t].ans = task[t].ans /\ task'[t].from = task[t].from
  BY <1>2, <1>3, NextRoundWrites
<1> QED
  BY <1>1, <1>4

LEMMA CheckedWrites ==
  ASSUME task \in [Tasks -> TasksOK], NEW t \in Tasks, NEW pc \in Steps, NEW a \in {None, "ok", "failed"}, NEW w \in BOOLEAN,
         task' = [task EXCEPT ![t] = [@ EXCEPT !.pc = pc, !.ans = a, !.whole = w]]
  PROVE  /\ task' \in [Tasks -> TasksOK] /\ SameElse(t)
         /\ task'[t].pc = pc /\ task'[t].ans = a /\ task'[t].whole = w /\ task'[t].from = task[t].from
<1> DEFINE r == [task[t] EXCEPT !.pc = pc, !.ans = a, !.whole = w]
<1>1. task' = [task EXCEPT ![t] = r]
  BY DEF Goto, Answer
<1>2. r \in TasksOK
  BY NewRecords
<1>3. /\ r.disk = task[t].disk /\ r.id = task[t].id /\ r.stage = task[t].stage
      /\ r.again = task[t].again /\ r.lost = task[t].lost
      /\ r.pc = pc /\ r.ans = a /\ r.whole = w /\ r.from = task[t].from
  BY DEF TasksOK
<1> HIDE DEF r
<1>4. task' \in [Tasks -> TasksOK] /\ task'[t] = r /\ \A u \in Tasks \ {t} : task'[u] = task[u]
  BY <1>1, <1>2
<1> QED
  BY <1>3, <1>4 DEF SameElse

LEMMA StagedWrites ==
  ASSUME task \in [Tasks -> TasksOK], NEW t \in Tasks, NEW from \in {"base", "grt"}, NEW w \in BOOLEAN,
         task' = [task EXCEPT ![t] = [@ EXCEPT !.pc = "make", !.from = from, !.whole = w]]
  PROVE  /\ task' \in [Tasks -> TasksOK] /\ SameElse(t)
         /\ task'[t].pc = "make" /\ task'[t].from = from /\ task'[t].whole = w /\ task'[t].ans = task[t].ans
<1> DEFINE r == [task[t] EXCEPT !.pc = "make", !.from = from, !.whole = w]
<1>1. task' = [task EXCEPT ![t] = r]
  BY DEF Goto, Answer
<1>2. r \in TasksOK
  BY NewRecords DEF Steps
<1>3. /\ r.disk = task[t].disk /\ r.id = task[t].id /\ r.stage = task[t].stage
      /\ r.again = task[t].again /\ r.lost = task[t].lost
      /\ r.pc = "make" /\ r.from = from /\ r.whole = w /\ r.ans = task[t].ans
  BY DEF TasksOK
<1> HIDE DEF r
<1>4. task' \in [Tasks -> TasksOK] /\ task'[t] = r /\ \A u \in Tasks \ {t} : task'[u] = task[u]
  BY <1>1, <1>2
<1> QED
  BY <1>3, <1>4 DEF SameElse

LEMMA ChecksPlacement ==
  ASSUME task \in [Tasks -> TasksOK], NEW t \in Tasks, NEW next \in {"handed", "route"},
         CheckPlacement(t, next), ~Answer(t, "failed")
  PROVE  /\ task' \in [Tasks -> TasksOK] /\ SameElse(t) /\ task'[t].from = task[t].from
         /\ task'[t].pc = (IF task[t].stage = "proxy" THEN "done" ELSE next)
         /\ task'[t].ans = (IF task[t].stage = "proxy" THEN "ok" ELSE None)
         /\ task'[t].whole = (task[t].whole /\ Here(t).def = "full")
<1> DEFINE pc == IF task[t].stage = "proxy" THEN "done" ELSE next
           a  == IF task[t].stage = "proxy" THEN "ok" ELSE None
           w  == task[t].whole /\ Here(t).def = "full"
<1>1. pc \in Steps /\ a \in {None, "ok", "failed"} /\ w \in BOOLEAN
  BY TaskFields DEF Steps
<1>2. task' = [task EXCEPT ![t] = [@ EXCEPT !.pc = pc, !.ans = a, !.whole = w]]
  BY DEF CheckPlacement
<1>3. /\ task' \in [Tasks -> TasksOK] /\ SameElse(t)
      /\ task'[t].pc = pc /\ task'[t].ans = a /\ task'[t].whole = w /\ task'[t].from = task[t].from
  <2> HIDE DEF pc, a, w
  <2> QED BY <1>1, <1>2, CheckedWrites, ZenonT(40)
<1> QED
  BY <1>3, Zenon

(* What make will start from: the grt run's directory or the base.           *)
Reuse(t) == task[t].stage = "route" /\ GrtOf(t) # "none"
Reads(t) == IF Reuse(t) THEN GrtOf(t) ELSE Here(t).def

LEMMA StartsRun ==
  ASSUME task \in [Tasks -> TasksOK], NEW t \in Tasks, Stage(t), ~Answer(t, "failed")
  PROVE  /\ task' \in [Tasks -> TasksOK] /\ SameElse(t)
         /\ task'[t].pc = "make" /\ task'[t].ans = task[t].ans
         /\ task'[t].from = (IF Reuse(t) THEN "grt" ELSE "base")
         /\ task'[t].whole = (task[t].whole /\ Reads(t) = "full")
<1> DEFINE from == IF Reuse(t) THEN "grt" ELSE "base"
           w    == task[t].whole /\ Reads(t) = "full"
<1>1. from \in {"base", "grt"} /\ w \in BOOLEAN
  BY TaskFields
<1>2. task' = [task EXCEPT ![t] = [@ EXCEPT !.pc = "make", !.from = from, !.whole = w]]
  BY DEF Stage, Reuse, Reads
<1>3. /\ task' \in [Tasks -> TasksOK] /\ SameElse(t)
      /\ task'[t].pc = "make" /\ task'[t].from = from /\ task'[t].whole = w /\ task'[t].ans = task[t].ans
  <2> HIDE DEF from, w
  <2> QED BY <1>1, <1>2, StagedWrites
<1> QED
  BY <1>3, Zenon

LEMMA WorkerTasks ==
  ASSUME Typed, InStep, NEW t \in Tasks, NEW next \in {"handed", "route"}, Evaluate(t, next)
  PROVE  task' \in [Tasks -> TasksOK] /\ SameTask(t)
<1> DEFINE x == task[t]
<1>0. Rounds \in Nat /\ Rounds # 0 /\ x \in TasksOK /\ task \in [Tasks -> TasksOK]
  BY HandoffAssumption DEF Typed, HandoffTypeOK
<1>a. x.pc \in Steps /\ x.stage \in Stages /\ x.round \in 0..Rounds /\ x.whole \in BOOLEAN
  BY <1>0, TaskFields
<1>b. /\ {"import", "gp", "repair", "def", "save", "write", "done", "handed", "route"} \subseteq Steps
      /\ 1 \in 0..Rounds /\ (x.round < Placements => x.round + 1 \in 0..Rounds)
  BY <1>0, <1>a DEF Steps, Placements
<1> USE DEF SameTask, SameElse
<1>1. CASE Look(t)
  <2>1. CASE Answer(t, "failed")
    BY <1>0, <2>1, AnswerWrites, <1>1 DEF Look
  <2>2. CASE Goto(t, "import")
    BY <1>0, <1>b, <2>2, GotoWrites, <1>1 DEF Look
  <2>3. CASE task' = [task EXCEPT ![t] = [@ EXCEPT !.pc = "gp", !.round = 1]]
    BY <1>0, <2>3, FirstRoundWrites, <1>1 DEF Look
  <2> QED BY <2>1, <2>2, <2>3, <1>1 DEF Look
<1>2. CASE Reweight(t)
  <2>1. task' = [task EXCEPT ![t].round = x.round + 1]
    BY <1>2 DEF Reweight
  <2> QED BY <1>0, <1>b, <1>2, <2>1, RoundWrites DEF Reweight
<1>3. CASE StartRepair(t) \/ WriteDef(t) \/ OpenCache(t) \/ SaveCache(t) \/ WriteGrt(t)
  <2>1. \E pc \in {"repair", "def", "save", "import", "write"} : Goto(t, pc)
    BY <1>3 DEF StartRepair, WriteDef, OpenCache, SaveCache, WriteGrt
  <2>2. x.pc \notin {"free", "queued", "handed", "done"}
    BY <1>3 DEF StartRepair, WriteDef, OpenCache, SaveCache, WriteGrt
  <2> QED BY <1>0, <1>b, <2>1, <2>2, GotoWrites
<1>4. CASE EndRepair(t)
  <2>1. CASE Answer(t, "failed")
    BY <1>0, <2>1, AnswerWrites, <1>4 DEF EndRepair
  <2>2. CASE task' = [task EXCEPT ![t] = [@ EXCEPT !.pc = "gp", !.round = task[t].round + 1]]
    <3>1. x.round < Placements /\ x.pc = "repair"
      BY <1>4 DEF EndRepair, InStep
    <3>2. task[t].round + 1 \in 0..Rounds
      BY <1>b, <3>1
    <3> QED BY <1>0, <2>2, <3>1, <3>2, RepairedWrites
  <2> QED BY <2>1, <2>2, <1>4 DEF EndRepair
<1>5. CASE CheckPlacement(t, next)
  <2>1. CASE Answer(t, "failed")
    BY <1>0, <2>1, AnswerWrites, <1>5 DEF CheckPlacement
  <2>2. CASE ~Answer(t, "failed")
    BY <1>0, <1>5, <2>2, ChecksPlacement DEF CheckPlacement
  <2> QED BY <2>1, <2>2
<1>6. CASE Stage(t)
  <2>1. CASE Answer(t, "failed")
    BY <1>0, <2>1, AnswerWrites, <1>6 DEF Stage
  <2>2. CASE ~Answer(t, "failed")
    BY <1>0, <1>6, <2>2, StartsRun DEF Stage
  <2> QED BY <2>1, <2>2
<1>7. CASE Made(t) \/ Raise(t)
  <2>1. \E a \in {"ok", "failed"} : Answer(t, a)
    BY <1>7 DEF Made, Raise
  <2>2. x.pc \notin {"free", "queued", "handed", "done"}
    BY <1>7 DEF Made, Raise, Working
  <2> QED BY <1>0, <2>1, <2>2, AnswerWrites
<1> QED
  BY <1>1, <1>2, <1>3, <1>4, <1>5, <1>6, <1>7 DEF Evaluate

LEMMA PutTyped ==
  ASSUME Typed, NEW t \in Tasks, task[t].disk \in Disks, task[t].id \in Ids, NEW p \in FilesOK, Put(t, p)
  PROVE  /\ place' \in [Disks -> [Ids -> FilesOK]] /\ Elsewhere(t, place)
         /\ place'[task[t].disk][task[t].id] = p
<1>1. place \in [Disks -> [Ids -> FilesOK]]
  BY DEF Typed, HandoffTypeOK
<1>2. PICK d \in Disks : d = task[t].disk
  OBVIOUS
<1>3. PICK i \in Ids : i = task[t].id
  OBVIOUS
<1>4. place' = [place EXCEPT ![d][i] = p]
  BY <1>2, <1>3 DEF Put
<1> QED
  BY <1>1, <1>2, <1>3, <1>4, OnePlace DEF Elsewhere

LEMMA GrtTyped ==
  ASSUME Typed, NEW t \in Tasks, task[t].disk \in Disks, task[t].id \in Ids, NEW p \in Files,
         grt' = [grt EXCEPT ![task[t].disk][task[t].id] = p]
  PROVE  /\ grt' \in [Disks -> [Ids -> Files]] /\ Elsewhere(t, grt)
         /\ grt'[task[t].disk][task[t].id] = p
<1>1. grt \in [Disks -> [Ids -> Files]]
  BY DEF Typed, HandoffTypeOK
<1>2. PICK d \in Disks : d = task[t].disk
  OBVIOUS
<1>3. PICK i \in Ids : i = task[t].id
  OBVIOUS
<1>4. grt' = [grt EXCEPT ![d][i] = p]
  BY <1>2, <1>3
<1> QED
  BY <1>1, <1>2, <1>3, <1>4, OneGrt DEF Elsewhere

(* What a step of a worker leaves in the directory of its placement, and in  *)
(* that of its grt run.                                                      *)
LEMMA WorkerFiles ==
  ASSUME Typed, OnDisk, NEW t \in Tasks, NEW next \in {"handed", "route"}, Evaluate(t, next),
         task[t].pc # "free"
  PROVE  /\ place' \in [Disks -> [Ids -> FilesOK]] /\ Elsewhere(t, place)
         /\ grt' \in [Disks -> [Ids -> Files]] /\ Elsewhere(t, grt)
         /\ flow' = flow /\ nature' = nature
<1> DEFINE x == task[t]
<1>1. x.disk \in Disks /\ x.id \in Ids
  BY DEF OnDisk
<1>2. Here(t) \in FilesOK
  BY <1>1 DEF Here, Typed, HandoffTypeOK
<1>3. {"none", "part", "full"} = Files
  BY DEF Files
<1>4. flow' = flow /\ nature' = nature
  BY DEF Evaluate, Look, Reweight, StartRepair, EndRepair, WriteDef, OpenCache, SaveCache, CheckPlacement,
         Stage, WriteGrt, Made, Raise
<1>5. place' \in [Disks -> [Ids -> FilesOK]] /\ Elsewhere(t, place)
  <2>1. place' = place \/ \E p \in FilesOK : Put(t, p)
    <3>1. /\ \A a \in Files : [Here(t) EXCEPT !.def = a] \in FilesOK
          /\ \A a \in Files : [Here(t) EXCEPT !.cache = a] \in FilesOK
          /\ \A a \in Files, b \in Files : [Here(t) EXCEPT !.def = a, !.cache = b] \in FilesOK
          /\ [Here(t) EXCEPT !.orfs = t] \in FilesOK
          /\ \A o \in BOOLEAN : [Here(t) EXCEPT !.odb = @ \/ o] \in FilesOK
      BY <1>2 DEF FilesOK
    <3>2. CASE StartRepair(t)
      BY <3>1, <3>2 DEF StartRepair
    <3>3. CASE EndRepair(t)
      BY <3>1, <3>3 DEF EndRepair
    <3>4. CASE WriteDef(t) \/ OpenCache(t) \/ SaveCache(t)
      BY <3>1, <3>4, <1>3 DEF WriteDef, OpenCache, SaveCache
    <3>5. CASE ~(StartRepair(t) \/ EndRepair(t) \/ WriteDef(t) \/ OpenCache(t) \/ SaveCache(t))
      BY <3>5 DEF Evaluate, Look, Reweight, CheckPlacement, Stage, WriteGrt, Made, Raise
    <3> QED BY <3>2, <3>3, <3>4, <3>5
  <2>2. CASE place' = place
    BY <2>2 DEF Elsewhere, Typed, HandoffTypeOK
  <2>3. CASE \E p \in FilesOK : Put(t, p)
    BY <2>3, <1>1, PutTyped
  <2> QED BY <2>1, <2>2, <2>3
<1>6. grt' \in [Disks -> [Ids -> Files]] /\ Elsewhere(t, grt)
  <2>1. grt' = grt \/ \E p \in Files : grt' = [grt EXCEPT ![x.disk][x.id] = p]
    BY <1>3 DEF Evaluate, Look, Reweight, StartRepair, EndRepair, WriteDef, OpenCache, SaveCache,
         CheckPlacement, Stage, WriteGrt, Made, Raise
  <2>2. CASE grt' = grt
    BY <2>2 DEF Elsewhere, Typed, HandoffTypeOK
  <2>3. CASE \E p \in Files : grt' = [grt EXCEPT ![x.disk][x.id] = p]
    BY <2>3, <1>1, GrtTyped
  <2> QED BY <2>1, <2>2, <2>3
<1> QED
  BY <1>4, <1>5, <1>6

(* What holds of the evaluation that steps, and of its files, holds after it.*)
Same(t) == task'[t].whole = task[t].whole /\ task'[t].ans = task[t].ans /\ task'[t].from = task[t].from

LEMMA StepFollows ==
  ASSUME Typed, OnDisk, InStep, NEW t \in Tasks, task[t].pc # "free",
         NEW next \in {"handed", "route"}, Evaluate(t, next),
         slot' = slot, kind' = kind, DirSound(Here(t)), Follows(t), WholeYet(t)
  PROVE  DirSound(Here(t))' /\ Follows(t)' /\ WholeYet(t)'
<1> DEFINE x == task[t]
<1>0. /\ x.disk \in Disks /\ x.id \in Ids /\ x \in TasksOK /\ task \in [Tasks -> TasksOK]
      /\ Here(t) \in FilesOK /\ place \in [Disks -> [Ids -> FilesOK]] /\ Rounds \in Nat \ {0, 1}
  BY HandoffAssumption DEF Here, OnDisk, Typed, HandoffTypeOK
<1>1. SameTask(t) /\ flow' = flow /\ x.pc \notin {"free", "queued", "handed", "done"}
  BY WorkerTasks, WorkerFiles DEF SameTask
<1>2. Together(x.id)' <=> Together(x.id)
  BY <1>1 DEF Together, SameTask
<1>3. Here(t)' = place'[x.disk][x.id] /\ x.ans # "ok"
  BY <1>1 DEF Here, SameTask, InStep
<1>4. x.pc \in Steps /\ x.stage \in Stages /\ x.whole \in BOOLEAN /\ x.round \in 0..Rounds
  BY <1>0, TaskFields
<1>5. Here(t).def \in Files /\ Here(t).cache \in Files /\ Here(t).odb \in BOOLEAN
  BY <1>0 DEF FilesOK
<1>6. Placements \in Nat /\ (flow = "rebuf" => Placements # 1) /\ Placements' = Placements
  BY <1>0, <1>1 DEF Placements
<1>7. ASSUME task'[t].pc = "done", task'[t].ans = "failed", place' = place
      PROVE  DirSound(Here(t))' /\ Follows(t)' /\ WholeYet(t)'
  BY <1>0, <1>1, <1>3, <1>7 DEF DirSound, Follows, WholeYet, Repaired, Here
<1>8. ASSUME Answer(t, "failed"), place' = place
      PROVE  DirSound(Here(t))' /\ Follows(t)' /\ WholeYet(t)'
  BY <1>0, <1>7, <1>8, AnswerWrites
<1>9. CASE Look(t)
  <2>1. place' = place /\ x.pc = "look" /\ Here(t)' = Here(t)
    BY <1>3, <1>9 DEF Look, Here
  <2>2. CASE Goto(t, "import") /\ Usable(Here(t))
    <3>1. task'[t].pc = "import" /\ Same(t)
      BY <1>0, <2>2, GotoWrites DEF Same, Steps
    <3> QED BY <2>1, <2>2, <3>1, <1>1, <1>3 DEF DirSound, Follows, WholeYet, Repaired, Usable, Same
  <2>3. CASE /\ Here(t).cache # "part" /\ ~Usable(Here(t))
             /\ task' = [task EXCEPT ![t] = [@ EXCEPT !.pc = "gp", !.round = 1]]
    <3>1. task'[t].pc = "gp" /\ task'[t].round = 1 /\ Same(t)
      BY <1>0, <2>3, FirstRoundWrites DEF Same
    <3>2. Here(t).cache = "none"
      BY <2>3, <1>5, <1>1 DEF DirSound, Usable, Files
    <3> QED BY <2>1, <3>1, <3>2, <1>1, <1>3, <1>6 DEF DirSound, Follows, WholeYet, Repaired, Same
  <2> QED BY <2>1, <2>2, <2>3, <1>8, <1>9 DEF Look
<1>10. CASE Reweight(t)
  <2>1. /\ place' = place /\ x.pc = "gp" /\ flow # "rebuf" /\ Here(t)' = Here(t)
        /\ task' = [task EXCEPT ![t].round = x.round + 1] /\ x.round + 1 \in 0..Rounds
    BY <1>0, <1>3, <1>4, <1>10 DEF Reweight, Here, Placements
  <2>2. task'[t].pc = "gp" /\ Same(t)
    BY <1>0, <2>1, RoundWrites DEF Same
  <2> QED BY <2>1, <2>2, <1>1, <1>3 DEF DirSound, Follows, WholeYet, Repaired, Same
<1>11. CASE StartRepair(t)
  <2>1. x.pc = "gp" /\ task'[t].pc = "repair" /\ Same(t)
    BY <1>0, <1>11, GotoWrites DEF StartRepair, Same, Steps
  <2>2. Here(t)'.cache = Here(t).cache
    <3>1. Put(t, [Here(t) EXCEPT !.orfs = t])
      BY <1>11 DEF StartRepair
    <3>2. Here(t)' = [Here(t) EXCEPT !.orfs = t]
      BY <1>0, <1>3, <3>1 DEF Put
    <3> QED BY <1>0, <3>2 DEF FilesOK
  <2> QED BY <2>1, <2>2, <1>1, <1>3 DEF DirSound, Follows, WholeYet, Repaired, Same
<1>12. CASE EndRepair(t)
  <2>1. CASE Answer(t, "failed")
    <3>1. task'[t].pc = "done" /\ x.pc = "repair"
      BY <1>0, <1>12, <2>1, AnswerWrites DEF EndRepair
    <3>2. task' # [task EXCEPT ![t] = [@ EXCEPT !.pc = "gp", !.round = task[t].round + 1]]
      BY <3>1, <1>0 DEF TasksOK
    <3> QED BY <1>8, <1>12, <2>1, <3>2 DEF EndRepair
  <2>2. CASE task' = [task EXCEPT ![t] = [@ EXCEPT !.pc = "gp", !.round = task[t].round + 1]]
    <3>1. x.pc = "repair" /\ task'[t].pc = "gp" /\ task'[t].round = x.round + 1 /\ Same(t)
      <4>1. x.pc = "repair" /\ x.round < Placements
        BY <1>12 DEF EndRepair, InStep
      <4>2. x.round + 1 \in 0..Rounds /\ "gp" \in Steps
        BY <4>1, <1>0, <1>4 DEF Steps, Placements
      <4>3. task[t].round + 1 \in 0..Rounds
        BY <4>2
      <4>4. task'[t].pc = "gp" /\ task'[t].round = task[t].round + 1 /\ task'[t].whole = task[t].whole
            /\ task'[t].ans = task[t].ans /\ task'[t].from = task[t].from
        BY <1>0, <2>2, <4>3, RepairedWrites
      <4> QED BY <4>1, <4>4 DEF Same
    <3>2. Put(t, [Here(t) EXCEPT !.odb = @ \/ x.round + 1 = Placements])
      <4>1. ~Answer(t, "failed")
        BY <3>1, <1>0, AnswerWrites
      <4> QED BY <1>12, <4>1 DEF EndRepair
    <3>3. Here(t)' = [Here(t) EXCEPT !.odb = @ \/ x.round + 1 = Placements]
      BY <1>0, <1>3, <3>2 DEF Put
    <3>4. Here(t)'.cache = Here(t).cache /\ (x.round + 1 = Placements => Here(t)'.odb)
      BY <3>3, <1>0 DEF FilesOK
    <3> QED BY <3>1, <3>4, <1>1, <1>3, <1>6 DEF DirSound, Follows, WholeYet, Repaired, Same
  <2> QED BY <2>1, <2>2, <1>12 DEF EndRepair
<1>13. CASE WriteDef(t)
  <2>1. x.pc = "gp" /\ x.round = Placements /\ task'[t].pc = "def" /\ Same(t)
    BY <1>0, <1>13, GotoWrites DEF WriteDef, Same, Steps
  <2>2. Here(t)' = [Here(t) EXCEPT !.def = "part"]
    BY <1>0, <1>3, <1>13 DEF WriteDef, Put
  <2>3. Here(t)'.cache = Here(t).cache /\ Here(t)'.odb = Here(t).odb
    BY <1>0, <2>2 DEF FilesOK
  <2> QED BY <2>1, <2>3, <1>1, <1>3 DEF DirSound, Follows, WholeYet, Repaired, Same
<1>14. CASE OpenCache(t)
  <2>1. x.pc = "def" /\ task'[t].pc = "save" /\ Same(t)
    BY <1>0, <1>14, GotoWrites DEF OpenCache, Same, Steps
  <2>2. Here(t)' = [Here(t) EXCEPT !.def = "full", !.cache = "part"]
    BY <1>0, <1>3, <1>14 DEF OpenCache, Put
  <2>3. Here(t)'.cache = "part" /\ Here(t)'.def = "full" /\ Here(t)'.odb = Here(t).odb
    BY <1>0, <2>2 DEF FilesOK
  <2> QED BY <2>1, <2>3, <1>1, <1>3 DEF DirSound, Follows, WholeYet, Repaired, Same
<1>15. CASE SaveCache(t)
  <2>1. x.pc = "save" /\ task'[t].pc = "import" /\ Same(t)
    BY <1>0, <1>15, GotoWrites DEF SaveCache, Same, Steps
  <2>2. Here(t)' = [Here(t) EXCEPT !.cache = "full"]
    BY <1>0, <1>3, <1>15 DEF SaveCache, Put
  <2>3. Here(t)'.cache = "full" /\ Here(t)'.def = Here(t).def /\ Here(t)'.odb = Here(t).odb
    BY <1>0, <2>2 DEF FilesOK
  <2> QED BY <2>1, <2>3, <1>1, <1>3 DEF DirSound, Follows, WholeYet, Repaired, Same
<1>16. CASE CheckPlacement(t, next)
  <2>1. place' = place /\ x.pc = "import" /\ Here(t)' = Here(t)
    BY <1>3, <1>16 DEF CheckPlacement, Here
  <2>2. CASE ~Answer(t, "failed")
    <3>1. /\ task'[t].pc \in {"done", "handed", "route"}
          /\ task'[t].whole = (x.whole /\ Here(t).def = "full")
      BY <1>0, <1>16, <2>2, ChecksPlacement
    <3>2. Here(t).def = "full" /\ x.whole
      BY <2>1, <1>1 DEF DirSound, Follows, WholeYet
    <3> QED BY <2>1, <3>1, <3>2, <1>1, <1>3 DEF DirSound, Follows, WholeYet, Repaired
  <2> QED BY <2>1, <2>2, <1>8, <1>16 DEF CheckPlacement
<1>17. CASE Stage(t)
  <2>1. place' = place /\ x.pc = "route" /\ Here(t)' = Here(t)
    BY <1>3, <1>17 DEF Stage, Here
  <2>2. CASE ~Answer(t, "failed")
    <3>1. /\ task'[t].pc = "make" /\ task'[t].from = (IF Reuse(t) THEN "grt" ELSE "base")
          /\ task'[t].whole = (x.whole /\ Reads(t) = "full") /\ task'[t].ans = x.ans
      BY <1>0, <1>17, <2>2, StartsRun
    <3> QED BY <2>1, <3>1, <1>1, <1>2, <1>3 DEF DirSound, Follows, WholeYet, Repaired, SameTask, Reads
  <2> QED BY <2>1, <2>2, <1>8
<1>18. CASE WriteGrt(t)
  <2>1. /\ place' = place /\ x.pc = "make" /\ Here(t)' = Here(t)
        /\ task'[t].pc = "write" /\ Same(t)
    BY <1>0, <1>3, <1>18, GotoWrites DEF WriteGrt, Same, Here, Steps
  <2> QED BY <2>1, <1>1, <1>2, <1>3 DEF DirSound, Follows, WholeYet, Repaired, Same, SameTask
<1>19. CASE Made(t)
  <2>1. place' = place /\ x.pc \in {"make", "write"} /\ Here(t)' = Here(t)
    BY <1>3, <1>19 DEF Made, Here
  <2>2. /\ task'[t].pc = "done" /\ task'[t].whole = x.whole
        /\ task'[t].ans = "ok" => Passed(t)
    <3> DEFINE a == IF Passed(t) THEN "ok" ELSE "failed"
    <3>1. a \in {None, "ok", "failed"} /\ Answer(t, a)
      BY <1>19 DEF Made
    <3>2. task'[t].pc = "done" /\ task'[t].whole = x.whole /\ task'[t].ans = a
      <4> HIDE DEF a
      <4> QED BY <1>0, <3>1, AnswerWrites
    <3> QED BY <3>2
  <2> QED BY <2>1, <2>2, <1>1, <1>2, <1>3 DEF DirSound, Follows, WholeYet, Repaired, Passed, SameTask
<1>20. CASE Raise(t)
  BY <1>8, <1>20 DEF Raise
<1> QED
  BY <1>9, <1>10, <1>11, <1>12, <1>13, <1>14, <1>15, <1>16, <1>17, <1>18, <1>19, <1>20 DEF Evaluate

LEMMA StepInStep ==
  ASSUME Typed, InStep, NEW t \in Tasks, NEW next \in {"handed", "route"}, Evaluate(t, next),
         next = "handed" => kind = "split"
  PROVE  /\ task'[t].pc = "repair" => flow = "rebuf" /\ task'[t].round < Placements
         /\ task'[t].pc = "handed" => kind = "split"
         /\ task'[t].pc \in {"handed", "route", "make", "write"} => task'[t].stage # "proxy"
         /\ task'[t].pc = "write" => task'[t].stage = "grt"
         /\ task'[t].ans = "ok" => task'[t].pc = "done"
<1>0. task \in [Tasks -> TasksOK] /\ None # "ok" /\ next \in Steps
  BY HandoffAssumption DEF Typed, HandoffTypeOK, Steps
<1>a. task[t].pc \notin {"free", "queued", "handed", "done"} /\ task[t].ans # "ok" /\ SameTask(t)
  BY WorkerTasks DEF SameTask, InStep
<1> USE DEF SameTask
<1>1. CASE Answer(t, "failed")
  BY <1>0, <1>1, AnswerWrites
<1>2. CASE \E pc \in {"import", "def", "save"} : Goto(t, pc)
  BY <1>0, <1>a, <1>2, GotoWrites DEF Steps
<1>3. CASE Look(t)
  <2>1. CASE task' = [task EXCEPT ![t] = [@ EXCEPT !.pc = "gp", !.round = 1]]
    BY <1>0, <1>a, <2>1, FirstRoundWrites
  <2> QED BY <2>1, <1>1, <1>2, <1>3 DEF Look
<1>4. CASE Reweight(t)
  <2>1. task' = [task EXCEPT ![t].round = task[t].round + 1] /\ task[t].round + 1 \in 0..Rounds
    BY <1>0, <1>4, TaskFields, HandoffAssumption DEF Reweight, Placements
  <2> QED BY <1>0, <1>a, <1>4, <2>1, RoundWrites DEF Reweight
<1>5. CASE StartRepair(t)
  BY <1>0, <1>a, <1>5, GotoWrites DEF StartRepair, Steps
<1>6. CASE EndRepair(t)
  <2>1. CASE task' = [task EXCEPT ![t] = [@ EXCEPT !.pc = "gp", !.round = task[t].round + 1]]
    <3>1. task[t].round + 1 \in 0..Rounds /\ "gp" \in Steps
      <4>1. task[t].round < Placements
        BY <1>6 DEF EndRepair, InStep
      <4> QED BY <4>1, <1>0, TaskFields, HandoffAssumption DEF Placements, Steps
    <3> QED BY <1>0, <1>a, <2>1, <3>1, RepairedWrites
  <2> QED BY <1>1, <1>6, <2>1 DEF EndRepair
<1>7. CASE WriteDef(t) \/ OpenCache(t) \/ SaveCache(t)
  BY <1>2, <1>7 DEF WriteDef, OpenCache, SaveCache
<1>8. CASE CheckPlacement(t, next)
  BY <1>0, <1>1, <1>8, ChecksPlacement DEF SameElse
<1>9. CASE Stage(t)
  <2>1. task[t].pc = "route" /\ task[t].stage # "proxy"
    BY <1>9 DEF Stage, InStep
  <2> QED BY <1>0, <1>1, <1>a, <1>9, <2>1, StartsRun
<1>10. CASE WriteGrt(t)
  BY <1>0, <1>a, <1>10, GotoWrites DEF WriteGrt, Steps
<1>11. CASE Made(t) \/ Raise(t)
  <2>1. \E a \in {"ok", "failed"} : Answer(t, a)
    BY <1>11 DEF Made, Raise
  <2> QED BY <1>0, <2>1, AnswerWrites
<1> QED
  BY <1>3, <1>4, <1>5, <1>6, <1>7, <1>8, <1>9, <1>10, <1>11 DEF Evaluate

(* Only a grt run writes in the grt directory, which is whole if it succeeds;*)
(* and a run starts from the base only if it finds nothing to continue from. *)
LEMMA StepGrt ==
  ASSUME Typed, OnDisk, InStep, NEW t \in Tasks, task[t].pc # "free",
         NEW next \in {"handed", "route"}, Evaluate(t, next)
  PROVE  /\ task[t].stage # "grt" => grt' = grt
         /\ task[t].stage = "grt" /\ task'[t].ans = "ok" => grt'[task[t].disk][task[t].id] = "full"
         /\ task'[t].from = "base" =>
              \/ task[t].from = "base"
              \/ task[t].stage # "proxy" /\ ~(task[t].stage = "route" /\ GrtOf(t) # "none")
<1>0. /\ task[t] \in TasksOK /\ task \in [Tasks -> TasksOK] /\ grt \in [Disks -> [Ids -> Files]]
      /\ task[t].disk \in Disks /\ task[t].id \in Ids
  BY DEF Typed, HandoffTypeOK, OnDisk
<1>a. task[t].pc \notin {"free", "queued", "handed", "done"} /\ task[t].ans # "ok" /\ None # "ok"
  BY WorkerTasks, HandoffAssumption DEF SameTask, InStep
<1>1. CASE Answer(t, "failed") /\ grt' = grt
  BY <1>0, <1>1, AnswerWrites
<1>2. CASE \E pc \in {"import", "def", "save", "repair"} : Goto(t, pc) /\ grt' = grt
  BY <1>0, <1>a, <1>2, GotoWrites DEF Steps
<1>3. CASE Look(t) \/ StartRepair(t)
  <2>1. CASE grt' = grt /\ task' = [task EXCEPT ![t] = [@ EXCEPT !.pc = "gp", !.round = 1]]
    BY <1>0, <1>a, <2>1, FirstRoundWrites
  <2> QED BY <2>1, <1>1, <1>2, <1>3 DEF Look, StartRepair
<1>4. CASE Reweight(t)
  <2>1. /\ task' = [task EXCEPT ![t].round = task[t].round + 1] /\ task[t].round + 1 \in 0..Rounds
        /\ grt' = grt
    BY <1>0, <1>4, TaskFields, HandoffAssumption DEF Reweight, Placements
  <2> QED BY <1>0, <1>a, <2>1, RoundWrites
<1>6. CASE EndRepair(t)
  <2>1. CASE task' = [task EXCEPT ![t] = [@ EXCEPT !.pc = "gp", !.round = task[t].round + 1]]
    <3>1. task[t].round + 1 \in 0..Rounds /\ "gp" \in Steps /\ grt' = grt
      <4>1. task[t].round < Placements /\ grt' = grt
        BY <1>6 DEF EndRepair, InStep
      <4> QED BY <4>1, <1>0, TaskFields, HandoffAssumption DEF Placements, Steps
    <3> QED BY <1>0, <1>a, <2>1, <3>1, NextRoundWrites
  <2> QED BY <1>1, <1>6, <2>1 DEF EndRepair
<1>7. CASE WriteDef(t) \/ OpenCache(t) \/ SaveCache(t)
  BY <1>2, <1>7 DEF WriteDef, OpenCache, SaveCache
<1>8. CASE CheckPlacement(t, next)
  <2>1. grt' = grt
    BY <1>8 DEF CheckPlacement
  <2>2. CASE ~Answer(t, "failed")
    BY <1>0, <1>a, <1>8, <2>1, <2>2, ChecksPlacement
  <2> QED BY <1>1, <2>1, <2>2
<1>9. CASE Stage(t)
  <2>1. task[t].stage # "grt" => grt' = grt
    BY <1>9 DEF Stage
  <2>2. CASE Answer(t, "failed")
    BY <1>0, <2>1, <2>2, AnswerWrites
  <2>3. CASE ~Answer(t, "failed")
    <3>1. task[t].pc = "route" /\ task[t].stage # "proxy"
      BY <1>9 DEF Stage, InStep
    <3> QED BY <1>0, <1>a, <1>9, <2>1, <2>3, <3>1, StartsRun DEF Reuse
  <2> QED BY <2>2, <2>3
<1>10. CASE WriteGrt(t)
  <2>1. Goto(t, "write") /\ task[t].stage = "grt"
    BY <1>10 DEF WriteGrt
  <2> QED BY <1>0, <1>a, <2>1, GotoWrites DEF Steps
<1>11. CASE Made(t)
  <2>1. \E a \in {"ok", "failed"} : Answer(t, a)
    BY <1>11 DEF Made
  <2>2. task'[t].from = task[t].from
    BY <1>0, <2>1, AnswerWrites
  <2>3. CASE task[t].pc = "make" /\ task[t].stage # "grt" /\ UNCHANGED grt
    BY <2>2, <2>3
  <2>4. CASE grt' = [grt EXCEPT ![task[t].disk][task[t].id] = "full"] /\ task[t].pc = "write"
    BY <1>0, <2>2, <2>4 DEF InStep
  <2> QED BY <2>3, <2>4, <1>11 DEF Made
<1>12. CASE Raise(t)
  BY <1>1, <1>12 DEF Raise
<1> QED
  BY <1>3, <1>4, <1>6, <1>7, <1>8, <1>9, <1>10, <1>11, <1>12 DEF Evaluate

-----------------------------------------------------------------------------
(* What the host holds of the tasks it asked for.                            *)
LEMMA RefTask ==
  ASSUME Typed, NEW c \in Calls, NEW k \in 1..Len(call[c].ref)
  PROVE  call[c].ref[k] \in Tasks
BY DEF Typed, CallsOK

LEMMA AskedCall ==
  ASSUME Asked, NEW c \in Calls
  PROVE  /\ c > calls => call[c] = NoCall
         /\ call[c].pc = "placing" => kind = "batch"
         /\ Len(call[c].ref) = Len(call[c].reqs)
BY DEF Asked

LEMMA AskedRef ==
  ASSUME Asked, NEW c \in Calls, NEW k \in 1..Len(call[c].ref)
  PROVE  /\ task[call[c].ref[k]].pc # "free" /\ task[call[c].ref[k]].id = call[c].reqs[k].id
         /\ task[call[c].ref[k]].stage \in {"proxy", call[c].reqs[k].stage}
         /\ task[call[c].ref[k]].again => call[c].reqs[k].stage = "route"
BY DEF Asked

LEMMA AskedStays ==
  ASSUME Asked, call' = call, calls' = calls, kind' = kind,
         \A c \in Calls : \A k \in 1..Len(call[c].ref) :
           /\ task[call[c].ref[k]].pc # "free" => task'[call[c].ref[k]].pc # "free"
           /\ task'[call[c].ref[k]].id = task[call[c].ref[k]].id
           /\ task'[call[c].ref[k]].stage = task[call[c].ref[k]].stage
           /\ task'[call[c].ref[k]].again = task[call[c].ref[k]].again
  PROVE  Asked'
<1>1. ASSUME NEW c \in Calls, NEW k \in 1..Len(call[c].ref)
      PROVE  /\ task'[call[c].ref[k]].pc # "free" /\ task'[call[c].ref[k]].id = call[c].reqs[k].id
             /\ task'[call[c].ref[k]].stage \in {"proxy", call[c].reqs[k].stage}
             /\ task'[call[c].ref[k]].again => call[c].reqs[k].stage = "route"
  <2>1. /\ task[call[c].ref[k]].pc # "free" /\ task[call[c].ref[k]].id = call[c].reqs[k].id
        /\ task[call[c].ref[k]].stage \in {"proxy", call[c].reqs[k].stage}
        /\ task[call[c].ref[k]].again => call[c].reqs[k].stage = "route"
    BY AskedRef
  <2>2. /\ task[call[c].ref[k]].pc # "free" => task'[call[c].ref[k]].pc # "free"
        /\ task'[call[c].ref[k]].id = task[call[c].ref[k]].id
        /\ task'[call[c].ref[k]].stage = task[call[c].ref[k]].stage
        /\ task'[call[c].ref[k]].again = task[call[c].ref[k]].again
    OBVIOUS
  <2> QED BY <2>1, <2>2
<1>2. ASSUME NEW c \in Calls
      PROVE  /\ c > calls => call[c] = NoCall
             /\ call[c].pc = "placing" => kind = "batch"
             /\ Len(call[c].ref) = Len(call[c].reqs)
  BY AskedCall
<1>3. ASSUME NEW c \in Calls, NEW k \in 1..Len(call'[c].ref)
      PROVE  /\ task'[call'[c].ref[k]].pc # "free" /\ task'[call'[c].ref[k]].id = call'[c].reqs[k].id
             /\ task'[call'[c].ref[k]].stage \in {"proxy", call'[c].reqs[k].stage}
             /\ task'[call'[c].ref[k]].again => call'[c].reqs[k].stage = "route"
  BY <1>1
<1>4. ASSUME NEW c \in Calls
      PROVE  /\ c > calls' => call'[c] = NoCall
             /\ call'[c].pc = "placing" => kind' = "batch"
             /\ Len(call'[c].ref) = Len(call'[c].reqs)
  BY <1>2
<1> QED
  BY <1>3, <1>4, ZenonT(40) DEF Asked

-----------------------------------------------------------------------------
(* A step of a worker keeps the invariant.                                   *)
LEMMA WorkTyped ==
  ASSUME IInv, NEW t \in Tasks, Work(t), Observe
  PROVE  /\ Typed' /\ OnDisk' /\ InStep' /\ Asked' /\ RefsApart' /\ Owned' /\ ReqsApart' /\ AgainScreened'
         /\ SameTask(t) /\ Elsewhere(t, place) /\ Elsewhere(t, grt)
<1> DEFINE next == IF kind = "split" THEN "handed" ELSE "route"
<1>1. next \in {"handed", "route"} /\ Evaluate(t, next) /\ (next = "handed" => kind = "split")
  BY DEF Work
<1>2. UNCHANGED <<kind, slot, held, call, up, calls, losses, mixed, screened>>
  BY DEF Work
<1> HIDE DEF next
<1>3. task' \in [Tasks -> TasksOK] /\ SameTask(t)
  BY <1>1, WorkerTasks DEF IInv
<1>4. task[t].pc # "free"
  BY <1>3 DEF SameTask
<1>5. /\ place' \in [Disks -> [Ids -> FilesOK]] /\ Elsewhere(t, place)
      /\ grt' \in [Disks -> [Ids -> Files]] /\ Elsewhere(t, grt)
      /\ flow' = flow /\ nature' = nature
  BY <1>1, <1>4, WorkerFiles DEF IInv
<1>6. Typed'
  BY <1>2, <1>3, <1>5 DEF IInv, Typed, HandoffTypeOK, Observe, Crossed
<1>7. OnDisk'
  BY <1>2, <1>3 DEF IInv, OnDisk, SameTask
<1>8. InStep'
  <2>1. Placements' = Placements
    BY <1>5 DEF Placements
  <2> QED BY <1>1, <1>2, <1>3, <1>5, <2>1, StepInStep DEF IInv, InStep, SameTask
<1>9. Asked'
  <2>1. \A u \in Tasks : /\ task[u].pc # "free" => task'[u].pc # "free"
                         /\ task'[u].id = task[u].id /\ task'[u].stage = task[u].stage
                         /\ task'[u].again = task[u].again
    BY <1>3 DEF SameTask
  <2>2. \A c \in Calls : \A k \in 1..Len(call[c].ref) : call[c].ref[k] \in Tasks
    BY DEF IInv, Typed, CallsOK
  <2>3. call' = call /\ calls' = calls /\ kind' = kind
    BY <1>2
  <2> QED BY <2>1, <2>2, <2>3, AskedStays DEF IInv
<1>10. RefsApart' /\ ReqsApart'
  BY <1>2 DEF IInv, RefsApart, ReqsApart
<1>11. Owned'
  BY <1>2, <1>3 DEF IInv, Owned, SameTask
<1>12. AgainScreened'
  BY <1>2, <1>3 DEF IInv, AgainScreened, SameTask
<1> QED
  BY <1>3, <1>5, <1>6, <1>7, <1>8, <1>9, <1>10, <1>11, <1>12

LEMMA ObserveAlone ==
  ASSUME Observe, crossed \in BOOLEAN
  PROVE  AloneInDir' /\ (~crossed' => ~crossed)
<1>1. Crossed(task) \in BOOLEAN /\ Crossed(task)' \in BOOLEAN
  BY DEF Crossed
<1>2. crossed' = (crossed \/ Crossed(task)')
  BY DEF Observe, Crossed, Share
<1> QED
  BY <1>1, <1>2 DEF AloneInDir

LEMMA WorkFollows ==
  ASSUME IInv, NEW t \in Tasks, Work(t), Observe
  PROVE  AloneInDir' /\ CacheSound' /\ FilesFollow' /\ WholeSoFar'
<1>1. /\ Typed' /\ OnDisk' /\ SameTask(t) /\ Elsewhere(t, place) /\ task[t].pc # "free"
      /\ flow' = flow /\ slot' = slot /\ kind' = kind
  BY WorkTyped, WorkerFiles DEF Work, SameTask, IInv
<1>2. AloneInDir' /\ (~crossed' => ~crossed)
  BY ObserveAlone DEF IInv, Typed
<1>3. SUFFICES ASSUME ~crossed'
               PROVE  CacheSound' /\ FilesFollow' /\ WholeSoFar'
  BY <1>2 DEF CacheSound, FilesFollow, WholeSoFar
<1>4. /\ \A d \in Disks, i \in Ids : DirSound(place[d][i])
      /\ \A u \in Tasks : Follows(u) /\ WholeYet(u)
      /\ ~Crossed(task)
  BY <1>2, <1>3 DEF IInv, CacheSound, FilesFollow, WholeSoFar, AloneInDir
<1>5. task[t].disk \in Disks /\ task[t].id \in Ids
  BY <1>1 DEF IInv, OnDisk
<1>6. DirSound(Here(t))' /\ Follows(t)' /\ WholeYet(t)'
  BY <1>1, <1>4, <1>5, StepFollows DEF IInv, Work, Here
<1>7. CacheSound'
  <2>1. SUFFICES ASSUME NEW d \in Disks, NEW i \in Ids
                 PROVE  DirSound(place[d][i])'
    BY DEF CacheSound
  <2>2. CASE d = task[t].disk /\ i = task[t].id
    BY <2>2, <1>1, <1>6 DEF Here, SameTask
  <2>3. CASE d # task[t].disk \/ i # task[t].id
    BY <2>3, <1>1, <1>4 DEF Elsewhere, DirSound
  <2> QED BY <2>2, <2>3
<1>8. ASSUME NEW u \in Tasks \ {t}
      PROVE  Follows(u)' /\ WholeYet(u)'
  <2>1. task'[u] = task[u] /\ Placements' = Placements /\ (Together(task[u].id)' <=> Together(task[u].id))
    BY <1>1 DEF SameTask, Placements, Together
  <2>2. WholeYet(u)'
    BY <2>1, <1>4 DEF WholeYet, Together
  <2>3. CASE task[u].pc \in {"free", "queued", "done"}
    BY <2>1, <2>2, <2>3 DEF Follows, Repaired
  <2>4. CASE task[u].pc \notin {"free", "queued", "done"}
    <3>1. task[u].disk \in Disks /\ task[u].id \in Ids
      BY <2>4 DEF IInv, OnDisk
    <3>2. task[u].disk # task[t].disk \/ task[u].id # task[t].id
      BY <2>4, <1>1, <1>4 DEF Crossed, Share, SameTask
    <3>3. Here(u)' = Here(u)
      BY <2>1, <3>1, <3>2, <1>1 DEF Elsewhere, Here
    <3>4. Follows(u)
      BY <1>4
    <3>5. Follows(u)'
      BY <2>1, <3>3, <3>4, <1>1 DEF Follows, Repaired
    <3> QED BY <2>2, <3>5
  <2> QED BY <2>2, <2>3, <2>4
<1>9. FilesFollow' /\ WholeSoFar'
  BY <1>6, <1>8 DEF FilesFollow, WholeSoFar
<1> QED
  BY <1>2, <1>7, <1>9

LEMMA SeqMember ==
  ASSUME NEW S, NEW s \in Seq(S), NEW k \in 1..Len(s)
  PROVE  s[k] \in S
OBVIOUS

LEMMA LenNat ==
  ASSUME NEW S, NEW s \in Seq(S)
  PROVE  Len(s) \in Nat
OBVIOUS

(* Two evaluations of one stage of an identity are one request twice, but for*)
(* the placements of BatchEvaluator.                                         *)
LEMMA StageApart ==
  ASSUME Typed, Asked, Owned, RefsApart, ReqsApart, losses = 0, ~mixed,
         NEW t \in Tasks, NEW u \in Tasks, task[t].pc # "free", task[u].pc # "free",
         task[t].stage # "proxy", task[u].stage = task[t].stage, task[t].id = task[u].id
  PROVE  t = u
<1>1. PICK c \in Calls : \E k \in 1..Len(call[c].ref) : call[c].ref[k] = t
  BY DEF Owned
<1>2. PICK k \in 1..Len(call[c].ref) : call[c].ref[k] = t
  BY <1>1
<1>3. PICK e \in Calls : \E l \in 1..Len(call[e].ref) : call[e].ref[l] = u
  BY DEF Owned
<1>4. PICK l \in 1..Len(call[e].ref) : call[e].ref[l] = u
  BY <1>3
<1>5. call[c].reqs[k].id = call[e].reqs[l].id /\ call[c].reqs[k].stage = call[e].reqs[l].stage
  BY <1>2, <1>4 DEF Asked
<1>6. call[c].reqs[k] \in [id: Ids, stage: Stages] /\ call[e].reqs[l] \in [id: Ids, stage: Stages]
  <2>1. call[c] \in CallsOK /\ call[e] \in CallsOK
    BY DEF Typed
  <2>2. /\ call[c].reqs \in Seq([id: Ids, stage: Stages]) /\ Len(call[c].ref) = Len(call[c].reqs)
        /\ call[e].reqs \in Seq([id: Ids, stage: Stages]) /\ Len(call[e].ref) = Len(call[e].reqs)
    BY <2>1 DEF CallsOK, Asked
  <2>3. k \in 1..Len(call[c].reqs) /\ l \in 1..Len(call[e].reqs)
    BY <2>2
  <2> QED BY <2>2, <2>3, SeqMember
<1>7. call[c].reqs[k] = call[e].reqs[l]
  BY <1>5, <1>6
<1> QED
  BY <1>2, <1>4, <1>7 DEF ReqsApart

LEMMA WorkScreens ==
  ASSUME IInv, NEW t \in Tasks, Work(t), Observe
  PROVE  GrtDone' /\ ScreenedKept' /\ NotFromBase'
<1>1. /\ SameTask(t) /\ Elsewhere(t, grt) /\ task[t].pc # "free"
      /\ UNCHANGED <<kind, slot, held, call, up, calls, losses, mixed, screened>>
  BY WorkTyped DEF Work, SameTask
<1>2. /\ task[t].stage # "grt" => grt' = grt
      /\ task[t].stage = "grt" /\ task'[t].ans = "ok" => grt'[task[t].disk][task[t].id] = "full"
      /\ task'[t].from = "base" =>
           \/ task[t].from = "base"
           \/ task[t].stage # "proxy" /\ ~(task[t].stage = "route" /\ GrtOf(t) # "none")
  BY <1>1, StepGrt DEF IInv, Work
<1>3. SUFFICES ASSUME losses = 0, ~mixed
               PROVE  GrtDone' /\ ScreenedKept' /\ NotFromBase'
  BY <1>1 DEF GrtDone, ScreenedKept, NotFromBase
<1>4. task[t].disk \in Disks /\ task[t].id \in Ids
  BY <1>1 DEF IInv, OnDisk
<1>5. GrtDone'
  <2>1. SUFFICES ASSUME NEW u \in Tasks, task'[u].ans = "ok", task'[u].stage = "grt"
                 PROVE  grt'[task'[u].disk][task'[u].id] = "full"
    BY DEF GrtDone, GrtOf
  <2>2. CASE u = t
    BY <2>1, <2>2, <1>1, <1>2 DEF SameTask
  <2>3. CASE u # t
    <3>1. task'[u] = task[u] /\ task[u].pc = "done" /\ grt[task[u].disk][task[u].id] = "full"
      BY <2>1, <2>3, <1>1, <1>3 DEF SameTask, IInv, InStep, GrtDone, GrtOf
    <3>2. task[u].disk \in Disks /\ task[u].id \in Ids
      BY <3>1 DEF IInv, OnDisk
    <3>3. CASE task[t].stage = "grt"
      <4>1. task[t].id # task[u].id
        BY <1>1, <1>3, <2>1, <2>3, <3>1, <3>3, StageApart DEF IInv
      <4> QED BY <4>1, <3>1, <3>2, <1>1 DEF Elsewhere
    <3> QED BY <3>1, <3>3, <1>2
  <2> QED BY <2>2, <2>3
<1>6. ASSUME NEW c \in Calls, NEW k \in 1..Len(call[c].ref)
      PROVE  call[c].ref[k] \in Tasks /\ task'[call[c].ref[k]].disk = task[call[c].ref[k]].disk
  <2>1. call[c].ref[k] \in Tasks
    BY DEF IInv, Typed, CallsOK
  <2> QED BY <2>1, <1>1 DEF SameTask
<1>7. PICK c \in Calls : \E k \in 1..Len(call[c].ref) : call[c].ref[k] = t
  BY <1>1, <1>3 DEF IInv, Owned
<1>8. PICK k \in 1..Len(call[c].ref) : call[c].ref[k] = t
  BY <1>7
<1>9. /\ call[c].reqs[k].id = task[t].id
      /\ task[t].stage = "grt" => call[c].reqs[k].stage = "grt"
      /\ task[t].again => call[c].reqs[k].stage = "route" /\ task[t].stage \in {"proxy", "route"}
  BY <1>8 DEF IInv, Asked
<1>10. \A i \in Ids : Keeper(i)' = Keeper(i) /\ (Kept(i)' <=> Kept(i))
  BY <1>1 DEF Keeper, Kept
<1>11. ScreenedKept'
  <2>1. SUFFICES ASSUME NEW i \in screened
                 PROVE  /\ \A e \in Calls : \A l \in 1..Len(call[e].ref) :
                             ~(call[e].reqs[l].id = i /\ call[e].reqs[l].stage = "grt")
                        /\ Kept(i) =>
                             /\ Keeper(i) \in Disks /\ grt'[Keeper(i)][i] = "full"
                             /\ \A e \in Calls : \A l \in 1..Len(call[e].ref) :
                                  call[e].reqs[l].id = i /\ call[e].reqs[l].stage = "route"
                                    => task'[call[e].ref[l]].disk = Keeper(i)
    <3>1. screened \subseteq Ids
      BY DEF IInv, Typed
    <3> QED BY <3>1, <1>1, <1>10 DEF ScreenedKept
  <2>2. /\ \A e \in Calls : \A l \in 1..Len(call[e].ref) :
             ~(call[e].reqs[l].id = i /\ call[e].reqs[l].stage = "grt")
        /\ Kept(i) =>
             /\ Keeper(i) \in Disks /\ grt[Keeper(i)][i] = "full"
             /\ \A e \in Calls : \A l \in 1..Len(call[e].ref) :
                  call[e].reqs[l].id = i /\ call[e].reqs[l].stage = "route"
                    => task[call[e].ref[l]].disk = Keeper(i)
    BY <1>3 DEF IInv, ScreenedKept
  <2>3. task[t].stage = "grt" => task[t].id # i
    BY <2>2, <1>8, <1>9
  <2>4. Kept(i) => grt'[Keeper(i)][i] = "full"
    <3>1. i \in Ids
      BY DEF IInv, Typed
    <3> QED BY <2>2, <2>3, <3>1, <1>1, <1>2 DEF Elsewhere
  <2> QED BY <2>2, <2>4, <1>6
<1>12. NotFromBase'
  <2>1. SUFFICES ASSUME NEW u \in Tasks, task'[u].again, Kept(task[u].id)'
                 PROVE  task'[u].from # "base"
    BY DEF NotFromBase
  <2>2. CASE u # t
    <3>1. task'[u] = task[u] /\ Kept(task[u].id)
      BY <2>1, <2>2, <1>1 DEF SameTask, Kept
    <3> QED BY <3>1, <2>1, <1>3 DEF IInv, NotFromBase
  <2>3. CASE u = t
    <3>1. task[t].again /\ Kept(task[t].id)
      BY <2>1, <2>3, <1>1 DEF SameTask, Kept
    <3>2. task[t].from # "base" /\ task[t].id \in screened
      BY <3>1, <1>1, <1>3 DEF IInv, NotFromBase, AgainScreened
    <3>3. task[t].disk = Keeper(task[t].id) /\ grt[Keeper(task[t].id)][task[t].id] = "full"
      BY <3>1, <3>2, <1>3, <1>8, <1>9 DEF IInv, ScreenedKept
    <3>4. GrtOf(t) = "full"
      BY <3>3 DEF GrtOf
    <3> QED BY <3>1, <3>2, <3>4, <2>3, <1>2, <1>9
  <2> QED BY <2>2, <2>3
<1> QED
  BY <1>5, <1>11, <1>12
-----------------------------------------------------------------------------
(* The members of a finite set of numbers have an order, the free tasks have *)
(* an enumeration.                                                           *)
LEMMA LeastExists ==
  ASSUME NEW S \in SUBSET Nat, S # {}
  PROVE  \E x \in S : \A y \in S : x <= y
<1>1. \E x \in S : \A y \in S : ~ (<<y, x>> \in OpToRel(<, Nat))
  BY NatLessThanWellFounded, WFMin
<1>2. \E x \in S : \A y \in S : ~ (y < x)
  BY <1>1 DEF OpToRel
<1> QED
  BY <1>2

LEMMA GreatestExists ==
  ASSUME NEW n \in Nat, NEW S \in SUBSET (1..n), S # {}
  PROVE  \E x \in S : \A y \in S : y <= x
<1> DEFINE T == {n - x : x \in S}
<1>1. T \in SUBSET Nat /\ T # {}
  <2>1. \A x \in S : n - x \in Nat
    OBVIOUS
  <2> QED BY <2>1
<1>2. PICK m \in T : \A y \in T : m <= y
  <2> HIDE DEF T
  <2> QED BY <1>1, LeastExists
<1>3. PICK x \in S : m = n - x
  OBVIOUS
<1>4. \A y \in S : n - x <= n - y
  BY <1>2, <1>3
<1> QED
  BY <1>4

Increasing(f, k) == \A i, j \in 1..k : i < j => f[i] < f[j]

LEMMA AscendingExists ==
  ASSUME NEW n \in Nat, NEW S \in SUBSET (1..n)
  PROVE  \E f \in [1..Cardinality(S) -> S] : Increasing(f, Cardinality(S))
<1> DEFINE Good(T) == \E f \in [1..Cardinality(T) -> T] : Increasing(f, Cardinality(T))
           Bad == {k \in Nat : \E T \in SUBSET (1..n) : Cardinality(T) = k /\ ~Good(T)}
<1>0. \A T \in SUBSET (1..n) : IsFiniteSet(T) /\ Cardinality(T) \in Nat
  <2>1. IsFiniteSet(1..n)
    BY FS_Interval
  <2> QED BY <2>1, FS_Subset, FS_CardinalityType
<1>1. SUFFICES ASSUME Bad # {}
               PROVE  FALSE
  <2>1. Good(S)
    <3> HIDE DEF Good
    <3> QED BY <1>0, <1>1
  <2> QED BY <2>1
<1>2. PICK k \in Bad : \A l \in Bad : k <= l
  <2> HIDE DEF Bad
  <2>1. Bad \in SUBSET Nat
    BY DEF Bad
  <2> QED BY <1>1, <2>1, LeastExists
<1>3. PICK T \in SUBSET (1..n) : Cardinality(T) = k /\ ~Good(T)
  <2> HIDE DEF Good
  <2> QED OBVIOUS
<1>4. T # {}
  <2>1. SUFFICES ASSUME T = {}
                 PROVE  Good(T)
    BY <1>3
  <2>2. Cardinality(T) = 0
    BY <2>1, FS_EmptySet
  <2>3. [i \in 1..0 |-> i] \in [1..0 -> T] /\ Increasing([i \in 1..0 |-> i], 0)
    BY DEF Increasing
  <2> QED BY <2>2, <2>3
<1>5. PICK m \in T : \A y \in T : y <= m
  BY <1>4, GreatestExists
<1> DEFINE R == T \ {m}
<1>6. R \in SUBSET (1..n) /\ k \in Nat /\ k # 0 /\ Cardinality(R) = k - 1
  <2>1. k # 0 /\ k \in Nat
    BY <1>0, <1>3, <1>4, FS_EmptySet
  <2>2. Cardinality(R) = k - 1
    BY <1>0, <1>3, FS_RemoveElement
  <2> QED BY <2>1, <2>2
<1>7. Good(R)
  <2> HIDE DEF Good, R
  <2> QED BY <1>2, <1>6
<1>8. PICK f \in [1..k - 1 -> R] : Increasing(f, k - 1)
  BY <1>6, <1>7
<1> DEFINE g == [i \in 1..k |-> IF i = k THEN m ELSE f[i]]
<1>9. g \in [1..k -> T]
  BY <1>6, <1>8
<1>10. Increasing(g, k)
  <2>1. SUFFICES ASSUME NEW i \in 1..k, NEW j \in 1..k, i < j
                 PROVE  g[i] < g[j]
    BY DEF Increasing
  <2>2. i \in 1..k - 1 /\ g[i] = f[i] /\ f[i] \in R
    BY <2>1, <1>6, <1>8
  <2>3. CASE j = k
    <3>1. f[i] \in T /\ f[i] # m /\ m \in T /\ f[i] <= m
      BY <2>2, <1>5
    <3>2. f[i] \in Nat /\ m \in Nat
      <4> HIDE DEF R
      <4>1. \A y \in T : y \in Nat
        OBVIOUS
      <4> QED BY <3>1, <4>1
    <3>3. g[j] = m
      BY <2>3
    <3> QED BY <2>2, <3>1, <3>2, <3>3
  <2>4. CASE j # k
    BY <2>1, <2>2, <2>4, <1>6, <1>8 DEF Increasing
  <2> QED BY <2>3, <2>4
<1> QED
  <2> HIDE DEF g
  <2> QED BY <1>3, <1>9, <1>10

LEMMA AscendingOrders ==
  ASSUME NEW n \in Nat, NEW S \in SUBSET (1..n)
  PROVE  /\ Cardinality(S) \in Nat
         /\ Ascending(S) \in [1..Cardinality(S) -> S]
         /\ \A i, j \in 1..Cardinality(S) : Ascending(S)[i] = Ascending(S)[j] => i = j
<1>1. Cardinality(S) \in Nat
  <2>1. IsFiniteSet(1..n)
    BY FS_Interval
  <2> QED BY <2>1, FS_Subset, FS_CardinalityType
<1> DEFINE k == Cardinality(S)
           f == Ascending(S)
<1>2. f \in [1..k -> S] /\ \A i, j \in 1..k : i < j => f[i] < f[j]
  BY AscendingExists DEF Ascending, Increasing
<1> HIDE DEF f, k
<1>3. k \in Nat /\ \A i \in 1..k : f[i] \in Nat
  <2>1. S \subseteq Nat
    OBVIOUS
  <2> QED BY <1>1, <1>2, <2>1 DEF k
<1>4. \A i, j \in 1..k : f[i] = f[j] => i = j
  BY <1>2, <1>3
<1> QED
  BY <1>1, <1>2, <1>4 DEF k, f

(* Distinct sends requests of the batch, none of them twice.                 *)
LEMMA DistinctSends ==
  ASSUME NEW T, NEW b \in Seq(T)
  PROVE  /\ Distinct(b) \in Seq(T)
         /\ \A k \in 1..Len(Distinct(b)) : Distinct(b)[k] \in ToSet(b)
         /\ \A k, l \in 1..Len(Distinct(b)) : Distinct(b)[k] = Distinct(b)[l] => k = l
<1> DEFINE first == {k \in 1..Len(b) : \A j \in 1..k - 1 : b[j] # b[k]}
           n == Cardinality(first)
           order == Ascending(first)
<1>1. n \in Nat /\ order \in [1..n -> first] /\ \A i, j \in 1..n : order[i] = order[j] => i = j
  <2>1. Len(b) \in Nat /\ first \in SUBSET (1..Len(b))
    OBVIOUS
  <2> HIDE DEF first
  <2> QED BY <2>1, AscendingOrders
<1>2. Distinct(b) = [k \in 1..n |-> b[order[k]]]
  BY DEF Distinct
<1>3. \A i, j \in first : b[i] = b[j] => i = j
  <2>1. SUFFICES ASSUME NEW i \in first, NEW j \in first, i < j
                 PROVE  b[i] # b[j]
    OBVIOUS
  <2> QED BY <2>1
<1>4. \A i \in first : i \in 1..Len(b) /\ b[i] \in T /\ b[i] \in ToSet(b)
  BY DEF ToSet
<1> HIDE DEF first, n, order
<1>5. Distinct(b) \in Seq(T) /\ Len(Distinct(b)) = n
  BY <1>1, <1>2, <1>4
<1> QED
  BY <1>1, <1>2, <1>3, <1>4, <1>5

LEMMA FreeTasks ==
  ASSUME NEW S \in SUBSET Tasks
  PROVE  /\ SetToSeq(S) \in Seq(S)
         /\ \A k, l \in 1..Len(SetToSeq(S)) : SetToSeq(S)[k] = SetToSeq(S)[l] => k = l
<1>1. IsFiniteSet(S)
  BY DispatchAssumption, FS_Subset
<1>2. Cardinality(S) \in Nat /\ ExistsBijection(1..Cardinality(S), S)
  BY <1>1, FS_CardinalityType
<1>3. \E f \in [1..Cardinality(S) -> S] : IsInjective(f)
  BY <1>2 DEF ExistsBijection, Bijection, Injection, IsInjective
<1>4. SetToSeq(S) \in [1..Cardinality(S) -> S] /\ IsInjective(SetToSeq(S))
  BY <1>3 DEF SetToSeq
<1> QED
  BY <1>2, <1>4 DEF IsInjective

-----------------------------------------------------------------------------
(* The steps of the dispatch touch no file.                                  *)
LEMMA WorkKeeps ==
  ASSUME IInv, NEW t \in Tasks, Work(t), Observe
  PROVE  IInv'
BY WorkTyped, WorkFollows, WorkScreens DEF IInv

LEMMA FilesStay ==
  ASSUME IInv, Observe, flow' = flow, place' = place,
         \A u \in Tasks : Follows(u) /\ WholeYet(u) => Follows(u)' /\ WholeYet(u)'
  PROVE  AloneInDir' /\ CacheSound' /\ FilesFollow' /\ WholeSoFar'
<1>1. AloneInDir' /\ (~crossed' => ~crossed)
  BY ObserveAlone DEF IInv, Typed
<1> QED
  BY <1>1 DEF IInv, CacheSound, FilesFollow, WholeSoFar, DirSound

Unmoved(u) ==
  /\ task'[u].pc = task[u].pc /\ task'[u].disk = task[u].disk /\ task'[u].id = task[u].id
  /\ task'[u].stage = task[u].stage /\ task'[u].round = task[u].round /\ task'[u].from = task[u].from
  /\ task'[u].whole = task[u].whole /\ task'[u].ans = task[u].ans

LEMMA UnmovedFollows ==
  ASSUME flow' = flow, place' = place, kind' = kind, slot' = slot, NEW u \in Tasks, Unmoved(u),
         Follows(u), WholeYet(u)
  PROVE  Follows(u)' /\ WholeYet(u)'
<1>1. Placements' = Placements /\ (Together(task[u].id)' <=> Together(task[u].id)) /\ Here(u)' = Here(u)
  BY DEF Unmoved, Placements, Together, Here
<1>2. Follows(u)'
  BY <1>1 DEF Unmoved, Follows, Repaired
<1>3. WholeYet(u)'
  BY <1>1 DEF Unmoved, WholeYet
<1> QED
  BY <1>2, <1>3

LEMMA NoTaskTyped == NoTask \in TasksOK
BY HandoffAssumption DEF NoTask, TasksOK, Steps, Stages

(* As long as no call begins or ends, its requests are those of its tasks.   *)
LEMMA CallsStay ==
  ASSUME IInv, call' = call, calls' = calls, kind' = kind, mixed' = mixed, losses' = 0 => losses = 0,
         \A u \in Tasks :
           /\ task'[u].pc = "free" <=> task[u].pc = "free"
           /\ task'[u].id = task[u].id /\ task'[u].stage = task[u].stage /\ task'[u].again = task[u].again
           /\ losses' = 0 => task'[u].lost = task[u].lost
  PROVE  Asked' /\ RefsApart' /\ Owned' /\ ReqsApart'
<1>1. \A e \in Calls : \A l \in 1..Len(call[e].ref) : call[e].ref[l] \in Tasks
  BY RefTask DEF IInv
<1>2. Asked'
  BY <1>1, AskedStays DEF IInv
<1>3. RefsApart' /\ ReqsApart'
  BY DEF IInv, RefsApart, ReqsApart
<1>4. Owned'
  BY DEF IInv, Owned
<1> QED
  BY <1>2, <1>3, <1>4

(* Nor does what was screened move, or a run of it start over.               *)
LEMMA ScreensStay ==
  ASSUME IInv, call' = call, kind' = kind, slot' = slot, held' = held, grt' = grt, mixed' = mixed,
         losses' = 0 => losses = 0, screened' = screened,
         \A u \in Tasks :
           /\ task'[u].id = task[u].id /\ task'[u].stage = task[u].stage /\ task'[u].again = task[u].again
           /\ task'[u].from = task[u].from
           /\ losses' = 0 => task'[u].ans = task[u].ans
           /\ losses' = 0 /\ Kept(task[u].id) => task'[u].disk = task[u].disk
           /\ losses' = 0 /\ task[u].ans = "ok" => task'[u].disk = task[u].disk
  PROVE  GrtDone' /\ ScreenedKept' /\ AgainScreened' /\ NotFromBase'
<1>1. \A i \in Ids : Keeper(i)' = Keeper(i) /\ (Kept(i)' <=> Kept(i))
  BY DEF Keeper, Kept
<1>2. GrtDone'
  BY DEF IInv, GrtDone, GrtOf
<1>3. AgainScreened'
  BY DEF IInv, AgainScreened
<1>4. ScreenedKept'
  <2>1. \A i \in screened : i \in Ids
    BY DEF IInv, Typed
  <2>2. ASSUME losses = 0, losses' = 0, NEW i \in screened, Kept(i), NEW e \in Calls, NEW l \in 1..Len(call[e].ref),
               call[e].reqs[l].id = i
        PROVE  task'[call[e].ref[l]].disk = task[call[e].ref[l]].disk
    BY <2>2, RefTask DEF IInv, Asked
  <2> QED BY <1>1, <2>1, <2>2 DEF IInv, ScreenedKept
<1>5. NotFromBase'
  BY DEF IInv, NotFromBase, Kept
<1> QED
  BY <1>2, <1>3, <1>4, <1>5

LEMMA StartNextKeeps ==
  ASSUME IInv, NEW c \in Calls, StartNext(c), Observe
  PROVE  IInv'
<1>1. PICK k \in 2..Len(call[c].ref) :
        /\ kind \in {"local", "batch"} /\ task[call[c].ref[k]].pc = "queued" /\ Goto(call[c].ref[k], "look")
        /\ UNCHANGED <<flow, nature, place, grt, kind, slot, held, call, up, calls, losses, mixed, screened>>
  BY DEF StartNext
<1>2. PICK t \in Tasks : t = call[c].ref[k]
  <2>1. k \in 1..Len(call[c].ref)
    OBVIOUS
  <2> QED BY <2>1, RefTask DEF IInv
<1>3. /\ task' \in [Tasks -> TasksOK] /\ SameElse(t) /\ task[t].pc = "queued"
      /\ task'[t].pc = "look" /\ task'[t].round = task[t].round /\ task'[t].whole = task[t].whole
      /\ task'[t].ans = task[t].ans /\ task'[t].from = task[t].from
  <2>1. "look" \in Steps /\ task \in [Tasks -> TasksOK]
    BY DEF Steps, IInv, Typed, HandoffTypeOK
  <2> QED BY <1>1, <1>2, <2>1, GotoWrites
<1>5. \A u \in Tasks :
        /\ task'[u].disk = task[u].disk /\ task'[u].id = task[u].id /\ task'[u].stage = task[u].stage
        /\ task'[u].again = task[u].again /\ task'[u].lost = task[u].lost /\ task'[u].from = task[u].from
        /\ task'[u].ans = task[u].ans /\ (task'[u].pc = "free" <=> task[u].pc = "free")
  BY <1>3 DEF SameElse
<1>6. Typed'
  BY <1>1, <1>3 DEF IInv, Typed, HandoffTypeOK, Observe, Crossed
<1>11. OnDisk'
  BY <1>1, <1>5 DEF IInv, OnDisk
<1>7. InStep'
  <2>1. Placements' = Placements /\ flow' = flow /\ task[t].ans # "ok"
    BY <1>1, <1>3 DEF Placements, IInv, InStep
  <2> QED BY <1>1, <1>3, <2>1 DEF IInv, InStep, SameElse
<1>8. Asked' /\ RefsApart' /\ Owned' /\ ReqsApart'
  BY <1>1, <1>5, CallsStay
<1>9. AloneInDir' /\ CacheSound' /\ FilesFollow' /\ WholeSoFar'
  <2>1. ASSUME NEW u \in Tasks, Follows(u), WholeYet(u)
        PROVE  Follows(u)' /\ WholeYet(u)'
    <3>1. CASE u = t
      BY <1>3, <2>1, <3>1, HandoffAssumption DEF Follows, WholeYet, Repaired, IInv, InStep
    <3>2. CASE u # t
      <4>1. Unmoved(u)
        BY <1>3, <3>2 DEF SameElse, Unmoved
      <4> QED BY <1>1, <2>1, <4>1, UnmovedFollows
    <3> QED BY <3>1, <3>2
  <2> QED BY <1>1, <2>1, FilesStay
<1>10. GrtDone' /\ ScreenedKept' /\ AgainScreened' /\ NotFromBase'
  BY <1>1, <1>5, ScreensStay
<1> QED
  BY <1>6, <1>7, <1>8, <1>9, <1>10, <1>11 DEF IInv
(* It goes on from a placement, ...                                          *)
LEMMA RouteGoesOn ==
  ASSUME IInv, NEW t \in Tasks, NEW d \in Disks, RouteStarts(t, d), Observe,
         task[t].pc = "handed", task' = [task EXCEPT ![t] = [@ EXCEPT !.pc = "route", !.disk = d]]
  PROVE  IInv'
<1>1. UNCHANGED <<flow, nature, place, grt, kind, slot, held, call, up, calls, losses, mixed, screened>>
  BY DEF RouteStarts
<1> DEFINE r == [task[t] EXCEPT !.pc = "route", !.disk = d]
<1>2. task[t].pc = "handed" /\ kind = "split" /\ task' = [task EXCEPT ![t] = r]
  BY DEF RouteStarts, IInv, InStep
<1>3. task \in [Tasks -> TasksOK] /\ r \in TasksOK
  <2>1. task \in [Tasks -> TasksOK] /\ "route" \in Steps
    BY DEF IInv, Typed, HandoffTypeOK, Steps
  <2> QED BY <2>1, NewRecords
<1>4. /\ r.pc = "route" /\ r.disk = d /\ r.id = task[t].id /\ r.stage = task[t].stage /\ r.round = task[t].round
      /\ r.whole = task[t].whole /\ r.again = task[t].again /\ r.lost = task[t].lost /\ r.ans = task[t].ans
      /\ r.from = task[t].from
  BY <1>3 DEF TasksOK
<1>5. Together(task[t].id) => d = task[t].disk /\ task[t].id \in Ids
  BY <1>2 DEF RouteStarts, Where, Together, IInv, OnDisk
<1> HIDE DEF r
<1>6. task' \in [Tasks -> TasksOK] /\ task'[t] = r /\ \A u \in Tasks \ {t} : task'[u] = task[u]
  BY <1>2, <1>3, OneTask
<1>7. \A u \in Tasks :
        /\ task'[u].id = task[u].id /\ task'[u].stage = task[u].stage
        /\ task'[u].again = task[u].again /\ task'[u].lost = task[u].lost /\ task'[u].from = task[u].from
        /\ task'[u].ans = task[u].ans /\ (task'[u].pc = "free" <=> task[u].pc = "free")
  BY <1>2, <1>4, <1>6
<1>8. task[t].ans # "ok" /\ task[t].stage # "proxy"
  BY <1>2 DEF IInv, InStep
<1>9. Kept(task[t].id) => Together(task[t].id)
  BY <1>2 DEF Kept, Together
<1>10. Typed'
  BY <1>1, <1>6 DEF IInv, Typed, HandoffTypeOK, Observe, Crossed
<1>11. OnDisk'
  BY <1>1, <1>2, <1>4, <1>5, <1>6, <1>7 DEF IInv, OnDisk, Together
<1>12. InStep'
  <2>1. Placements' = Placements
    BY <1>1 DEF Placements
  <2> QED BY <1>1, <1>4, <1>6, <1>8, <2>1 DEF IInv, InStep
<1>13. Asked' /\ RefsApart' /\ Owned' /\ ReqsApart'
  BY <1>1, <1>7, CallsStay
<1>14. AloneInDir' /\ CacheSound' /\ FilesFollow' /\ WholeSoFar'
  <2>1. ASSUME NEW u \in Tasks, Follows(u), WholeYet(u)
        PROVE  Follows(u)' /\ WholeYet(u)'
    <3>1. CASE u = t
      <4>1. (Together(task[t].id)' <=> Together(task[t].id)) /\ (Together(task[t].id) => Here(t)' = Here(t))
        BY <1>1, <1>4, <1>5, <1>6, <1>7 DEF Together, Here
      <4>2. Follows(t)'
        BY <1>2, <1>4, <1>6, <2>1, <3>1, <4>1 DEF Follows, Repaired
      <4> QED BY <1>2, <1>4, <1>6, <1>8, <2>1, <3>1, <4>2 DEF WholeYet
    <3>2. CASE u # t
      <4>1. Unmoved(u)
        BY <1>6, <3>2 DEF Unmoved
      <4> QED BY <1>1, <2>1, <4>1, UnmovedFollows
    <3> QED BY <3>1, <3>2
  <2> QED BY <1>1, <2>1, FilesStay
<1>15. GrtDone' /\ ScreenedKept' /\ AgainScreened' /\ NotFromBase'
  <2>1. \A u \in Tasks : Kept(task[u].id) \/ task[u].ans = "ok" => task'[u].disk = task[u].disk
    BY <1>4, <1>5, <1>6, <1>8, <1>9
  <2> QED BY <1>1, <1>7, <2>1, ScreensStay
<1> QED
  BY <1>10, <1>11, <1>12, <1>13, <1>14, <1>15 DEF IInv

(* ... or only hands on what place_remote returned: nothing changes of what  *)
(* IInv speaks of.                                                           *)
LEMMA RouteStartsKeeps ==
  ASSUME IInv, NEW t \in Tasks, NEW d \in Disks, RouteStarts(t, d), Observe
  PROVE  IInv'
<1>1. UNCHANGED <<flow, nature, place, grt, kind, slot, held, call, up, calls, losses, mixed, screened>>
  BY DEF RouteStarts
<1>2. CASE task[t].pc = "handed" /\ task' = [task EXCEPT ![t] = [@ EXCEPT !.pc = "route", !.disk = d]]
  BY <1>2, RouteGoesOn
<1>3. CASE task' = task
  <2>1. \A u \in Tasks : Unmoved(u) /\ task'[u].again = task[u].again /\ task'[u].lost = task[u].lost
    BY <1>3 DEF Unmoved
  <2>2. Typed'
    BY <1>1, <1>3 DEF IInv, Typed, HandoffTypeOK, Observe, Crossed
  <2>3. OnDisk' /\ InStep'
    <3>1. Placements' = Placements
      BY <1>1 DEF Placements
    <3> QED BY <1>1, <2>1, <3>1 DEF IInv, OnDisk, InStep, Unmoved
  <2>4. Asked' /\ RefsApart' /\ Owned' /\ ReqsApart'
    BY <1>1, <2>1, CallsStay DEF Unmoved
  <2>5. AloneInDir' /\ CacheSound' /\ FilesFollow' /\ WholeSoFar'
    BY <1>1, <2>1, UnmovedFollows, FilesStay
  <2>6. GrtDone' /\ ScreenedKept' /\ AgainScreened' /\ NotFromBase'
    BY <1>1, <2>1, ScreensStay DEF Unmoved
  <2> QED BY <2>2, <2>3, <2>4, <2>5, <2>6 DEF IInv
<1> QED
  BY <1>2, <1>3 DEF RouteStarts

LEMMA LoseSightKeeps ==
  ASSUME IInv, NEW t \in Tasks, LoseSight(t), Observe
  PROVE  IInv'
<1> DEFINE r == [task[t] EXCEPT !.lost = TRUE]
<1>1. /\ UNCHANGED <<flow, nature, place, grt, kind, slot, held, call, up, calls, mixed, screened>>
      /\ task' = [task EXCEPT ![t] = r] /\ losses' = losses + 1 /\ losses < MaxLosses
  BY DEF LoseSight
<1>2. losses' \in 0..MaxLosses /\ losses' # 0
  BY <1>1, DispatchAssumption DEF IInv, Typed
<1>3. task \in [Tasks -> TasksOK] /\ r \in TasksOK
  BY NewRecords DEF IInv, Typed, HandoffTypeOK
<1>4. /\ r.pc = task[t].pc /\ r.disk = task[t].disk /\ r.id = task[t].id /\ r.stage = task[t].stage
      /\ r.round = task[t].round /\ r.whole = task[t].whole /\ r.again = task[t].again /\ r.ans = task[t].ans
      /\ r.from = task[t].from
  BY <1>3 DEF TasksOK
<1> HIDE DEF r
<1>5. task' \in [Tasks -> TasksOK] /\ task'[t] = r /\ \A u \in Tasks \ {t} : task'[u] = task[u]
  BY <1>1, <1>3, OneTask
<1>6. \A u \in Tasks : Unmoved(u) /\ task'[u].again = task[u].again
  BY <1>4, <1>5 DEF Unmoved
<1>7. Typed'
  BY <1>1, <1>2, <1>5 DEF IInv, Typed, HandoffTypeOK, Observe, Crossed
<1>8. OnDisk' /\ InStep'
  <2>1. Placements' = Placements
    BY <1>1 DEF Placements
  <2> QED BY <1>1, <1>6, <2>1 DEF IInv, OnDisk, InStep, Unmoved
<1>9. Asked' /\ RefsApart' /\ Owned' /\ ReqsApart'
  BY <1>1, <1>2, <1>6, CallsStay DEF Unmoved
<1>10. AloneInDir' /\ CacheSound' /\ FilesFollow' /\ WholeSoFar'
  BY <1>1, <1>6, UnmovedFollows, FilesStay
<1>11. GrtDone' /\ ScreenedKept' /\ AgainScreened' /\ NotFromBase'
  BY <1>1, <1>2, <1>6, ScreensStay DEF Unmoved
<1> QED
  BY <1>7, <1>8, <1>9, <1>10, <1>11 DEF IInv

LEMMA LoseMachineKeeps ==
  ASSUME IInv, NEW d \in Disks, LoseMachine(d), Observe
  PROVE  IInv'
<1>1. /\ UNCHANGED <<flow, nature, place, grt, kind, slot, held, call, calls, mixed, screened>>
      /\ up' \subseteq up /\ losses' = losses + 1 /\ losses < MaxLosses
  BY DEF LoseMachine
<1>2. losses' \in 0..MaxLosses /\ losses' # 0
  BY <1>1, DispatchAssumption DEF IInv, Typed
<1>3. task \in [Tasks -> TasksOK]
  BY DEF IInv, Typed, HandoffTypeOK
<1>4. ASSUME NEW u \in Tasks
      PROVE  /\ task'[u] \in TasksOK
             /\ task'[u].disk = task[u].disk /\ task'[u].id = task[u].id /\ task'[u].stage = task[u].stage
             /\ task'[u].again = task[u].again /\ task'[u].from = task[u].from
             /\ task[u].pc = "free" <=> task'[u].pc = "free"
             /\ task'[u] = task[u] \/ (task'[u].pc = "done" /\ task'[u].ans = "failed")
  <2> DEFINE r == [task[u] EXCEPT !.pc = "done", !.ans = "failed"]
  <2>1. r \in TasksOK
    <3>1. "done" \in Steps
      BY DEF Steps
    <3> QED BY <1>3, <3>1, NewRecords
  <2>2. /\ r.pc = "done" /\ r.ans = "failed" /\ r.disk = task[u].disk /\ r.id = task[u].id
        /\ r.stage = task[u].stage /\ r.again = task[u].again /\ r.from = task[u].from
    BY <1>3 DEF TasksOK
  <2>3. (task'[u] = r /\ task[u].pc # "free") \/ task'[u] = task[u]
    BY DEF LoseMachine, Working
  <2> HIDE DEF r
  <2>4. CASE task'[u] = r /\ task[u].pc # "free"
    BY <2>1, <2>2, <2>4
  <2>5. CASE task'[u] = task[u]
    BY <1>3, <2>5
  <2> QED BY <2>3, <2>4, <2>5
<1>5. task' \in [Tasks -> TasksOK]
  <2>1. task' = [u \in Tasks |-> task'[u]]
    BY DEF LoseMachine
  <2> QED BY <1>4, <2>1
<1>6. Typed'
  BY <1>1, <1>2, <1>5 DEF IInv, Typed, HandoffTypeOK, Observe, Crossed
<1>7. OnDisk'
  BY <1>1, <1>4 DEF IInv, OnDisk
<1>8. InStep'
  <2>1. Placements' = Placements
    BY <1>1 DEF Placements
  <2> QED BY <1>1, <1>4, <2>1 DEF IInv, InStep
<1>9. Asked' /\ RefsApart' /\ Owned' /\ ReqsApart'
  BY <1>1, <1>2, <1>4, CallsStay
<1>10. AloneInDir' /\ CacheSound' /\ FilesFollow' /\ WholeSoFar'
  <2>1. ASSUME NEW u \in Tasks, Follows(u), WholeYet(u)
        PROVE  Follows(u)' /\ WholeYet(u)'
    <3>1. CASE task'[u] = task[u]
      <4>1. Unmoved(u)
        BY <3>1 DEF Unmoved
      <4> QED BY <1>1, <2>1, <4>1, UnmovedFollows
    <3>2. CASE task'[u].pc = "done" /\ task'[u].ans = "failed"
      BY <3>2 DEF Follows, WholeYet, Repaired
    <3> QED BY <1>4, <3>1, <3>2
  <2> QED BY <1>1, <2>1, FilesStay
<1>11. GrtDone' /\ ScreenedKept' /\ AgainScreened' /\ NotFromBase'
  BY <1>1, <1>2, <1>4, ScreensStay
<1> QED
  BY <1>6, <1>7, <1>8, <1>9, <1>10, <1>11 DEF IInv

LEMMA ForgetKeeps ==
  ASSUME IInv, NEW t \in Tasks, Forget(t), Observe
  PROVE  IInv'
<1>1. /\ UNCHANGED <<flow, nature, place, grt, kind, slot, held, call, up, calls, losses, mixed, screened>>
      /\ task' = [task EXCEPT ![t] = NoTask] /\ losses # 0
      /\ \A c \in Calls : t \notin ToSet(call[c].ref)
  BY DEF Forget, IInv, Owned
<1>2. task' \in [Tasks -> TasksOK] /\ task'[t] = NoTask /\ \A u \in Tasks \ {t} : task'[u] = task[u]
  BY <1>1, NoTaskTyped, OneTask DEF IInv, Typed, HandoffTypeOK
<1>3. /\ NoTask.pc = "free" /\ NoTask.ans # "ok" /\ ~NoTask.again /\ NoTask.whole
  BY HandoffAssumption DEF NoTask
<1>4. ASSUME NEW c \in Calls, NEW k \in 1..Len(call[c].ref)
      PROVE  call[c].ref[k] \in Tasks \ {t} /\ task'[call[c].ref[k]] = task[call[c].ref[k]]
  <2>1. call[c].ref[k] \in ToSet(call[c].ref)
    BY DEF ToSet, IInv, Typed, CallsOK
  <2> QED BY <1>1, <1>2, <2>1, RefTask DEF IInv
<1>5. Typed'
  BY <1>1, <1>2 DEF IInv, Typed, HandoffTypeOK, Observe, Crossed
<1>6. OnDisk' /\ InStep' /\ AgainScreened'
  <2>1. Placements' = Placements
    BY <1>1 DEF Placements
  <2> QED BY <1>1, <1>2, <1>3, <2>1 DEF IInv, OnDisk, InStep, AgainScreened
<1>7. Asked'
  BY <1>1, <1>4, AskedStays DEF IInv
<1>8. RefsApart' /\ Owned' /\ ReqsApart' /\ GrtDone' /\ ScreenedKept' /\ NotFromBase'
  BY <1>1 DEF IInv, RefsApart, Owned, ReqsApart, GrtDone, ScreenedKept, NotFromBase
<1>9. AloneInDir' /\ CacheSound' /\ FilesFollow' /\ WholeSoFar'
  <2>1. ASSUME NEW u \in Tasks, Follows(u), WholeYet(u)
        PROVE  Follows(u)' /\ WholeYet(u)'
    <3>1. CASE u = t
      BY <1>2, <1>3, <3>1 DEF Follows, WholeYet, Repaired
    <3>2. CASE u # t
      <4>1. Unmoved(u)
        BY <1>2, <3>2 DEF Unmoved
      <4> QED BY <1>1, <2>1, <4>1, UnmovedFollows
    <3> QED BY <3>1, <3>2
  <2> QED BY <1>1, <2>1, FilesStay
<1> QED
  BY <1>5, <1>6, <1>7, <1>8, <1>9 DEF IInv

(* What was placed is evaluated again, by the same task, as the same request.*)
Looks(u) ==
  /\ task'[u] \in TasksOK /\ task'[u].pc = "look" /\ task'[u].disk = Home
  /\ task'[u].id = task[u].id /\ task'[u].again = task[u].again /\ task'[u].whole
  /\ task'[u].ans = None /\ task'[u].from = None /\ ~task'[u].lost
  /\ task[u].pc # "free"

LEMMA RoutePhaseTasks ==
  ASSUME IInv, NEW c \in Calls, RoutePhase(c), NEW u \in Tasks
  PROVE  \/ task'[u] = task[u]
         \/ Looks(u) /\ \E k \in 1..Len(call[c].ref) : call[c].ref[k] = u /\ task'[u].stage = call[c].reqs[k].stage
<1> DEFINE P(k) == call[c].ref[k] = u /\ task[u].ans = "ok" /\ call[c].reqs[k].stage # "proxy"
           k1 == CHOOSE j \in 1..Len(call[c].ref) : call[c].ref[j] = u
           r == [NoTask EXCEPT !.pc = "look", !.disk = Home, !.id = call[c].reqs[k1].id,
                               !.stage = call[c].reqs[k1].stage, !.again = task[u].again]
<1>1. task'[u] = IF \E k \in 1..Len(call[c].ref) : P(k) THEN r ELSE task[u]
  BY DEF RoutePhase
<1>2. SUFFICES ASSUME \E k \in 1..Len(call[c].ref) : P(k)
               PROVE  /\ Looks(u)
                      /\ \E k \in 1..Len(call[c].ref) : call[c].ref[k] = u /\ task'[u].stage = call[c].reqs[k].stage
  BY <1>1
<1>3. k1 \in 1..Len(call[c].ref) /\ call[c].ref[k1] = u
  BY <1>2
<1>4. task'[u] = r
  <2> HIDE DEF r, P
  <2> QED BY <1>1, <1>2
<1> HIDE DEF k1
<1>5. PICK q \in [id: Ids, stage: Stages] : q = call[c].reqs[k1]
  <2>1. call[c].reqs \in Seq([id: Ids, stage: Stages]) /\ k1 \in 1..Len(call[c].reqs)
    BY <1>3 DEF IInv, Typed, CallsOK, Asked
  <2> QED BY <2>1, SeqMember
<1>6. q.id \in Ids /\ q.stage \in Stages /\ Home \in Disks /\ task[u].again \in BOOLEAN
  BY <1>5, TaskFields, DispatchAssumption DEF IInv, Typed, HandoffTypeOK
<1>7. r = [NoTask EXCEPT !.pc = "look", !.disk = Home, !.id = q.id, !.stage = q.stage, !.again = task[u].again]
  BY <1>5
<1> HIDE DEF r
<1>8. r \in TasksOK
  BY <1>6, <1>7, NoTaskTyped DEF TasksOK, Steps
<1>9. /\ r.pc = "look" /\ r.disk = Home /\ r.id = q.id /\ r.stage = q.stage /\ r.again = task[u].again
      /\ r.whole /\ r.ans = None /\ r.from = None /\ ~r.lost
  BY <1>7 DEF NoTask
<1>10. task[u].pc # "free" /\ task[u].id = q.id
  BY <1>3, <1>5 DEF IInv, Asked
<1> QED
  BY <1>3, <1>4, <1>5, <1>8, <1>9, <1>10 DEF Looks

LEMMA RoutePhaseKeeps ==
  ASSUME IInv, NEW c \in Calls, RoutePhase(c), Observe
  PROVE  IInv'
<1>1. /\ UNCHANGED <<flow, nature, place, grt, kind, slot, held, up, calls, losses, mixed, screened>>
      /\ call' = [call EXCEPT ![c].pc = "running"] /\ call[c].pc = "placing"
      /\ task' = [u \in Tasks |-> task'[u]]
  BY DEF RoutePhase
<1>2. ASSUME NEW u \in Tasks
      PROVE  \/ task'[u] = task[u]
             \/ /\ Looks(u)
                /\ \E k \in 1..Len(call[c].ref) : call[c].ref[k] = u /\ task'[u].stage = call[c].reqs[k].stage
  BY RoutePhaseTasks
<1>3. kind = "batch" /\ Home \in Disks
  BY <1>1, DispatchAssumption DEF IInv, Asked
<1>4. call \in [Calls -> CallsOK] /\ task \in [Tasks -> TasksOK]
  BY DEF IInv, Typed, HandoffTypeOK
<1>5. /\ call' \in [Calls -> CallsOK]
      /\ \A e \in Calls : /\ call'[e].ref = call[e].ref /\ call'[e].reqs = call[e].reqs
                          /\ call'[e].pc # "placing" \/ call'[e].pc = call[e].pc
                          /\ call'[e] = call[e] \/ call[e].pc = "placing"
  <2> DEFINE r == [call[c] EXCEPT !.pc = "running"]
  <2>1. r \in CallsOK /\ r.pc = "running" /\ r.ref = call[c].ref /\ r.reqs = call[c].reqs
    BY <1>4 DEF CallsOK
  <2>2. call' = [call EXCEPT ![c] = r]
    BY <1>1
  <2> HIDE DEF r
  <2> QED BY <1>1, <1>4, <2>1, <2>2
<1>6. \A e \in Calls : \A l \in 1..Len(call[e].ref) : call[e].ref[l] \in Tasks
  BY RefTask DEF IInv
<1>7. task' \in [Tasks -> TasksOK]
  <2>1. \A u \in Tasks : task'[u] \in TasksOK
    BY <1>2, <1>4 DEF Looks
  <2> QED BY <1>1, <2>1
<1>8. Typed'
  BY <1>1, <1>5, <1>7 DEF IInv, Typed, HandoffTypeOK, Observe, Crossed
<1>9. OnDisk'
  BY <1>1, <1>2, <1>3 DEF IInv, OnDisk, Looks
<1>10. InStep'
  <2>1. Placements' = Placements /\ None # "ok"
    BY <1>1, HandoffAssumption DEF Placements
  <2> QED BY <1>1, <1>2, <2>1 DEF IInv, InStep, Looks
<1>11. Asked'
  <2>1. ASSUME NEW e \in Calls, NEW l \in 1..Len(call[e].ref)
        PROVE  /\ task'[call[e].ref[l]].pc # "free" /\ task'[call[e].ref[l]].id = call[e].reqs[l].id
               /\ task'[call[e].ref[l]].stage \in {"proxy", call[e].reqs[l].stage}
               /\ task'[call[e].ref[l]].again => call[e].reqs[l].stage = "route"
    <3>1. PICK u \in Tasks : u = call[e].ref[l]
      BY <1>6
    <3>2. /\ task[u].pc # "free" /\ task[u].id = call[e].reqs[l].id
          /\ task[u].stage \in {"proxy", call[e].reqs[l].stage}
          /\ task[u].again => call[e].reqs[l].stage = "route"
      BY <3>1, AskedRef DEF IInv
    <3>3. CASE Looks(u) /\ \E k \in 1..Len(call[c].ref) : /\ call[c].ref[k] = u
                                                          /\ task'[u].stage = call[c].reqs[k].stage
      <4>1. task'[u].stage = call[e].reqs[l].stage
        BY <3>1, <3>3 DEF IInv, RefsApart
      <4> QED BY <3>1, <3>2, <3>3, <4>1 DEF Looks
    <3> QED BY <1>2, <3>1, <3>2, <3>3
  <2>2. ASSUME NEW e \in Calls
        PROVE  /\ e > calls => call'[e] = NoCall
               /\ call'[e].pc = "placing" => kind = "batch"
               /\ Len(call'[e].ref) = Len(call'[e].reqs)
    <3>1. NoCall.pc # "placing"
      BY DEF NoCall
    <3> QED BY <1>3, <1>5, <3>1, AskedCall DEF IInv
  <2>3. ASSUME NEW e \in Calls, NEW l \in 1..Len(call'[e].ref)
        PROVE  /\ task'[call'[e].ref[l]].pc # "free" /\ task'[call'[e].ref[l]].id = call'[e].reqs[l].id
               /\ task'[call'[e].ref[l]].stage \in {"proxy", call'[e].reqs[l].stage}
               /\ task'[call'[e].ref[l]].again => call'[e].reqs[l].stage = "route"
    <3>1. call'[e].ref = call[e].ref /\ call'[e].reqs = call[e].reqs
      BY <1>5
    <3> QED BY <2>1, <3>1
  <2>4. calls' = calls /\ kind' = kind
    BY <1>1
  <2> QED BY <2>2, <2>3, <2>4 DEF Asked
<1>12. RefsApart' /\ ReqsApart'
  BY <1>1, <1>5 DEF IInv, RefsApart, ReqsApart
<1>13. Owned'
  <2>1. \A u \in Tasks : /\ task'[u].pc # "free" => task[u].pc # "free"
                         /\ task'[u].lost => task[u].lost
    BY <1>2 DEF Looks
  <2> QED BY <1>1, <1>5, <2>1 DEF IInv, Owned
<1>14. AloneInDir' /\ CacheSound' /\ FilesFollow' /\ WholeSoFar'
  <2>1. ASSUME NEW u \in Tasks, Follows(u), WholeYet(u)
        PROVE  Follows(u)' /\ WholeYet(u)'
    <3>1. CASE task'[u] = task[u]
      <4>1. Unmoved(u)
        BY <3>1 DEF Unmoved
      <4> QED BY <1>1, <2>1, <4>1, UnmovedFollows
    <3>2. CASE Looks(u)
      BY <3>2, HandoffAssumption DEF Looks, Follows, WholeYet, Repaired
    <3> QED BY <1>2, <3>1, <3>2
  <2> QED BY <1>1, <2>1, FilesStay
<1>15. GrtDone'
  BY <1>1, <1>2, HandoffAssumption DEF IInv, GrtDone, GrtOf, Looks
<1>16. ScreenedKept'
  <2>1. \A i \in Ids : Keeper(i)' = Keeper(i) /\ (Kept(i)' <=> Kept(i)) /\ Keeper(i) = Home
    BY <1>1, <1>3 DEF Keeper, Kept
  <2>2. \A i \in screened : i \in Ids
    BY DEF IInv, Typed
  <2>3. \A u \in Tasks : task'[u].disk \in {task[u].disk, Home}
    BY <1>2 DEF Looks
  <2> QED BY <1>1, <1>5, <1>6, <2>1, <2>2, <2>3 DEF IInv, ScreenedKept
<1>17. AgainScreened'
  BY <1>1, <1>2 DEF IInv, AgainScreened, Looks
<1>18. NotFromBase'
  BY <1>1, <1>2, HandoffAssumption DEF IInv, NotFromBase, Looks, Kept
<1> QED
  BY <1>8, <1>9, <1>10, <1>11, <1>12, <1>13, <1>14, <1>15, <1>16, <1>17, <1>18 DEF IInv

(* Where the successful grt and route runs of a call that returns ran.       *)
Good(c, stages) ==
  {k \in 1..Len(call[c].ref) : /\ task[call[c].ref[k]].ans = "ok" /\ ~task[call[c].ref[k]].lost
                               /\ task[call[c].ref[k]].stage \in stages}
Fresh(c) == {i \in Ids : /\ \E k \in Good(c, {"grt"}) : call[c].reqs[k].id = i
                         /\ \A e \in Calls : [id |-> i, stage |-> "route"] \notin Requests(e)}
LastGood(c, i) == CHOOSE k \in Good(c, {"grt", "route"}) :
  /\ call[c].reqs[k].id = i
  /\ \A j \in Good(c, {"grt", "route"}) : call[c].reqs[j].id = i => j <= k

LEMMA ReturnEffect ==
  ASSUME NEW c \in Calls, Return(c)
  PROVE  /\ UNCHANGED <<flow, nature, place, grt, kind, slot, up, calls, losses, mixed>>
         /\ call[c].pc = "running" /\ \A k \in 1..Len(call[c].ref) : Seen(call[c].ref[k])
         /\ held' = [i \in Ids |->
              IF kind \in Chia /\ \E k \in Good(c, {"grt", "route"}) : call[c].reqs[k].id = i
              THEN task[call[c].ref[LastGood(c, i)]].disk ELSE held[i]]
         /\ screened' = screened \cup Fresh(c)
         /\ task' = [t \in Tasks |-> IF t \in ToSet(call[c].ref) /\ task[t].pc = "done" THEN NoTask
                                     ELSE task[t]]
         /\ call' = [call EXCEPT ![c] = NoCall]
BY DEF Return, Good, Fresh, LastGood

LEMMA LastGoodIs ==
  ASSUME Typed, NEW c \in Calls, NEW i \in Ids,
         \E k \in Good(c, {"grt", "route"}) : call[c].reqs[k].id = i
  PROVE  LastGood(c, i) \in Good(c, {"grt", "route"}) /\ call[c].reqs[LastGood(c, i)].id = i
<1> DEFINE S == {k \in Good(c, {"grt", "route"}) : call[c].reqs[k].id = i}
<1>1. Len(call[c].ref) \in Nat
  BY DEF Typed, CallsOK
<1>2. S \in SUBSET (1..Len(call[c].ref)) /\ S # {}
  BY DEF Good
<1>3. \E k \in S : \A j \in S : j <= k
  <2> HIDE DEF S
  <2> QED BY <1>1, <1>2, GreatestExists
<1> QED
  BY <1>3 DEF LastGood

(* A good run is its request's, and of no other call.                        *)
LEMMA GoodRequest ==
  ASSUME IInv, NEW c \in Calls, NEW k \in Good(c, {"grt", "route"})
  PROVE  /\ k \in 1..Len(call[c].ref) /\ call[c].ref[k] \in Tasks
         /\ call[c].reqs[k] \in [id: Ids, stage: Stages]
         /\ call[c].reqs[k].stage = task[call[c].ref[k]].stage
         /\ call[c].reqs[k].id = task[call[c].ref[k]].id
         /\ call[c].reqs[k].stage \in {"grt", "route"}
         /\ task[call[c].ref[k]].disk \in Disks /\ task[call[c].ref[k]].ans = "ok"
<1>1. k \in 1..Len(call[c].ref) /\ call[c].ref[k] \in Tasks
  BY RefTask DEF Good, IInv
<1>2. task[call[c].ref[k]].stage \in {"grt", "route"} /\ task[call[c].ref[k]].ans = "ok"
  BY DEF Good
<1>3. call[c].reqs[k] \in [id: Ids, stage: Stages]
  <2>1. call[c].reqs \in Seq([id: Ids, stage: Stages]) /\ k \in 1..Len(call[c].reqs)
    BY <1>1 DEF IInv, Typed, CallsOK, Asked
  <2> QED BY <2>1, SeqMember
<1>4. /\ call[c].reqs[k].id = task[call[c].ref[k]].id /\ task[call[c].ref[k]].pc # "free"
      /\ call[c].reqs[k].stage = task[call[c].ref[k]].stage
  BY <1>1, <1>2 DEF IInv, Asked
<1>5. task[call[c].ref[k]].disk \in Disks
  BY <1>1, <1>4 DEF IInv, OnDisk
<1> QED
  BY <1>1, <1>2, <1>3, <1>4, <1>5

LEMMA InRequests ==
  ASSUME Typed, Asked, NEW e \in Calls, NEW l \in 1..Len(call[e].ref)
  PROVE  call[e].reqs[l] \in Requests(e) /\ call[e].reqs[l] \in [id: Ids, stage: Stages]
<1>1. call[e].reqs \in Seq([id: Ids, stage: Stages]) /\ l \in 1..Len(call[e].reqs)
  BY DEF Typed, CallsOK, Asked
<1>2. l \in DOMAIN call[e].reqs
  BY <1>1
<1> QED
  BY <1>1, <1>2, SeqMember DEF Requests, ToSet

LEMMA ReturnScreens ==
  ASSUME IInv, NEW c \in Calls, Return(c), losses = 0, ~mixed, NEW i \in screened'
  PROVE  /\ i \in Ids
         /\ \A e \in Calls \ {c} : \A l \in 1..Len(call[e].ref) :
              ~(call[e].reqs[l].id = i /\ call[e].reqs[l].stage = "grt")
         /\ Kept(i) =>
              /\ Keeper(i)' \in Disks /\ grt[Keeper(i)'][i] = "full"
              /\ \A e \in Calls \ {c} : \A l \in 1..Len(call[e].ref) :
                   call[e].reqs[l].id = i /\ call[e].reqs[l].stage = "route"
                     => task[call[e].ref[l]].disk = Keeper(i)'
<1>1. /\ kind' = kind /\ slot' = slot /\ screened' = screened \cup Fresh(c)
      /\ \A j \in Ids : held'[j] = IF kind \in Chia /\ \E k \in Good(c, {"grt", "route"}) : call[c].reqs[k].id = j
                                   THEN task[call[c].ref[LastGood(c, j)]].disk ELSE held[j]
  BY ReturnEffect
<1>2. i \in Ids
  BY <1>1 DEF Fresh, IInv, Typed
<1>3. Keeper(i)' = IF kind = "affinity" THEN held'[i] ELSE Keeper(i)
  BY <1>1 DEF Keeper, Kinds
<1>4. CASE i \in screened
  <2>1. /\ \A e \in Calls : \A l \in 1..Len(call[e].ref) :
             ~(call[e].reqs[l].id = i /\ call[e].reqs[l].stage = "grt")
        /\ Kept(i) =>
             /\ Keeper(i) \in Disks /\ grt[Keeper(i)][i] = "full"
             /\ \A e \in Calls : \A l \in 1..Len(call[e].ref) :
                  call[e].reqs[l].id = i /\ call[e].reqs[l].stage = "route"
                    => task[call[e].ref[l]].disk = Keeper(i)
    BY <1>4 DEF IInv, ScreenedKept
  <2>2. Kept(i) => Keeper(i)' = Keeper(i)
    <3>1. SUFFICES ASSUME Kept(i), kind = "affinity", \E k \in Good(c, {"grt", "route"}) : call[c].reqs[k].id = i
                   PROVE  task[call[c].ref[LastGood(c, i)]].disk = held[i]
      BY <1>1, <1>2, <1>3 DEF Keeper
    <3>2. PICK k \in Good(c, {"grt", "route"}) : k = LastGood(c, i) /\ call[c].reqs[k].id = i
      BY <3>1, <1>2, LastGoodIs DEF IInv
    <3>3. k \in 1..Len(call[c].ref) /\ call[c].reqs[k].stage \in {"grt", "route"}
      BY GoodRequest
    <3>4. call[c].reqs[k].stage = "route"
      BY <2>1, <3>2, <3>3
    <3>5. task[call[c].ref[k]].disk = Keeper(i)
      BY <2>1, <3>1, <3>2, <3>3, <3>4
    <3> QED BY <3>1, <3>2, <3>5 DEF Keeper
  <2> QED BY <1>2, <2>1, <2>2
<1>5. CASE i \notin screened
  <2>1. i \in Fresh(c)
    BY <1>1, <1>5
  <2>2. PICK k \in Good(c, {"grt"}) : call[c].reqs[k].id = i
    BY <2>1 DEF Fresh
  <2>3. \A e \in Calls : \A l \in 1..Len(call[e].ref) : ~(call[e].reqs[l].id = i /\ call[e].reqs[l].stage = "route")
    <3>1. SUFFICES ASSUME NEW e \in Calls, NEW l \in 1..Len(call[e].ref),
                          call[e].reqs[l].id = i, call[e].reqs[l].stage = "route"
                   PROVE  FALSE
      OBVIOUS
    <3>2. call[e].reqs[l] \in Requests(e) /\ call[e].reqs[l] \in [id: Ids, stage: Stages]
      BY InRequests DEF IInv
    <3>3. call[e].reqs[l] = [id |-> i, stage |-> "route"]
      BY <3>1, <3>2
    <3> QED BY <2>1, <3>2, <3>3 DEF Fresh
  <2>4. k \in Good(c, {"grt", "route"}) /\ task[call[c].ref[k]].stage = "grt"
    BY DEF Good
  <2>5. /\ k \in 1..Len(call[c].ref) /\ call[c].ref[k] \in Tasks /\ call[c].reqs[k] \in [id: Ids, stage: Stages]
        /\ call[c].reqs[k].stage = "grt" /\ task[call[c].ref[k]].id = i
        /\ task[call[c].ref[k]].disk \in Disks /\ task[call[c].ref[k]].ans = "ok"
    BY <2>2, <2>4, GoodRequest
  <2>6. ASSUME NEW e \in Calls, NEW l \in 1..Len(call[e].ref), call[e].reqs[l].id = i, call[e].reqs[l].stage = "grt"
        PROVE  e = c /\ l = k
    <3>1. call[e].reqs[l] \in [id: Ids, stage: Stages]
      BY InRequests DEF IInv
    <3>2. call[e].reqs[l] = call[c].reqs[k]
      BY <2>2, <2>5, <2>6, <3>1
    <3> QED BY <2>5, <3>2 DEF IInv, ReqsApart
  <2>7. grt[task[call[c].ref[k]].disk][i] = "full"
    BY <2>4, <2>5 DEF IInv, GrtDone, GrtOf
  <2>8. Kept(i) => Keeper(i)' = task[call[c].ref[k]].disk
    <3>1. CASE kind = "affinity"
      <4>1. held'[i] = task[call[c].ref[LastGood(c, i)]].disk
        BY <1>1, <1>2, <2>2, <2>4, <3>1 DEF Chia
      <4>2. PICK m \in Good(c, {"grt", "route"}) : m = LastGood(c, i) /\ call[c].reqs[m].id = i
        BY <1>2, <2>2, <2>4, LastGoodIs DEF IInv
      <4>3. m \in 1..Len(call[c].ref) /\ call[c].reqs[m].stage \in {"grt", "route"}
        BY GoodRequest
      <4>4. m = k
        BY <2>3, <2>6, <4>2, <4>3
      <4> QED BY <1>3, <3>1, <4>1, <4>2, <4>4
    <3>2. CASE kind # "affinity"
      <4>1. task[call[c].ref[k]].pc # "free"
        BY <2>5 DEF IInv, Asked
      <4> QED BY <1>2, <1>3, <2>5, <3>2, <4>1 DEF Kept, Keeper, IInv, OnDisk, Typed, Kinds
    <3> QED BY <3>1, <3>2
  <2> QED BY <1>2, <2>3, <2>5, <2>6, <2>7, <2>8
<1> QED
  BY <1>4, <1>5

LEMMA ReturnKeeps ==
  ASSUME IInv, NEW c \in Calls, Return(c), Observe
  PROVE  IInv'
<1>1. /\ UNCHANGED <<flow, nature, place, grt, kind, slot, up, calls, losses, mixed>>
      /\ \A k \in 1..Len(call[c].ref) : Seen(call[c].ref[k])
      /\ screened' = screened \cup Fresh(c)
      /\ task' = [t \in Tasks |-> IF t \in ToSet(call[c].ref) /\ task[t].pc = "done" THEN NoTask
                                  ELSE task[t]]
      /\ call' = [call EXCEPT ![c] = NoCall]
  BY ReturnEffect
<1>2. call \in [Calls -> CallsOK] /\ task \in [Tasks -> TasksOK]
  BY DEF IInv, Typed, HandoffTypeOK
<1>3. /\ NoTask.pc = "free" /\ NoTask.ans # "ok" /\ ~NoTask.again /\ NoTask.whole /\ ~NoTask.lost
      /\ NoTask \in TasksOK
  BY HandoffAssumption, NoTaskTyped DEF NoTask
<1>4. NoCall \in CallsOK /\ NoCall.ref = <<>> /\ NoCall.pc # "placing" /\ NoCall.reqs = <<>>
  BY DEF NoCall, CallsOK
<1>5. call' \in [Calls -> CallsOK] /\ call'[c] = NoCall /\ \A e \in Calls \ {c} : call'[e] = call[e]
  BY <1>1, <1>2, <1>4
<1>6. \A u \in Tasks : task'[u] = NoTask \/ task'[u] = task[u]
  BY <1>1
<1>7. task' \in [Tasks -> TasksOK]
  BY <1>1, <1>2, <1>3
<1>8. \A e \in Calls : \A l \in 1..Len(call'[e].ref) : e # c
  BY <1>4, <1>5
<1>9. ASSUME NEW e \in Calls \ {c}, NEW l \in 1..Len(call[e].ref)
      PROVE  call[e].ref[l] \in Tasks /\ task'[call[e].ref[l]] = task[call[e].ref[l]]
  <2>1. PICK u \in Tasks : u = call[e].ref[l]
    BY RefTask DEF IInv
  <2>2. u \notin ToSet(call[c].ref)
    <3>1. SUFFICES ASSUME NEW k \in DOMAIN call[c].ref, call[c].ref[k] = u
                   PROVE  FALSE
      BY DEF ToSet
    <3>2. k \in 1..Len(call[c].ref)
      BY <1>2, <3>1 DEF CallsOK
    <3> QED BY <2>1, <3>1, <3>2 DEF IInv, RefsApart
  <2> QED BY <1>1, <2>1, <2>2
<1>10. Typed'
  <2>1. screened' \subseteq Ids
    BY <1>1 DEF Fresh, IInv, Typed
  <2>2. held' \in [Ids -> Disks \cup {None}]
    <3>1. ASSUME NEW i \in Ids
          PROVE  held[i] \in Disks \cup {None}
      BY DEF IInv, Typed
    <3>2. ASSUME NEW i \in Ids, \E k \in Good(c, {"grt", "route"}) : call[c].reqs[k].id = i
          PROVE  task[call[c].ref[LastGood(c, i)]].disk \in Disks
      BY <3>2, LastGoodIs, GoodRequest DEF IInv
    <3> DEFINE h(i) == IF kind \in Chia /\ \E k \in Good(c, {"grt", "route"}) : call[c].reqs[k].id = i
                       THEN task[call[c].ref[LastGood(c, i)]].disk ELSE held[i]
    <3>3. \A i \in Ids : h(i) \in Disks \cup {None}
      BY <3>1, <3>2
    <3>4. held' = [i \in Ids |-> h(i)]
      BY ReturnEffect
    <3> HIDE DEF h
    <3> QED BY <3>3, <3>4
  <2> QED BY <1>1, <1>5, <1>7, <2>1, <2>2 DEF IInv, Typed, HandoffTypeOK, Observe, Crossed
<1>11. OnDisk'
  BY <1>1, <1>3, <1>6 DEF IInv, OnDisk
<1>12. InStep'
  <2>1. Placements' = Placements
    BY <1>1 DEF Placements
  <2> QED BY <1>1, <1>3, <1>6, <2>1 DEF IInv, InStep
<1>13. Asked'
  <2>1. ASSUME NEW e \in Calls
        PROVE  /\ e > calls => call'[e] = NoCall
               /\ call'[e].pc = "placing" => kind = "batch"
               /\ Len(call'[e].ref) = Len(call'[e].reqs)
    <3>1. CASE e = c
      BY <1>4, <1>5, <3>1
    <3>2. CASE e # c
      <4>1. call'[e] = call[e]
        BY <1>5, <3>2
      <4> QED BY <4>1, AskedCall DEF IInv
    <3> QED BY <3>1, <3>2
  <2>2. ASSUME NEW e \in Calls, NEW l \in 1..Len(call'[e].ref)
        PROVE  /\ task'[call'[e].ref[l]].pc # "free" /\ task'[call'[e].ref[l]].id = call'[e].reqs[l].id
               /\ task'[call'[e].ref[l]].stage \in {"proxy", call'[e].reqs[l].stage}
               /\ task'[call'[e].ref[l]].again => call'[e].reqs[l].stage = "route"
    <3>1. e \in Calls \ {c} /\ call'[e] = call[e] /\ l \in 1..Len(call[e].ref)
      BY <1>5, <1>8
    <3>2. task'[call[e].ref[l]] = task[call[e].ref[l]]
      BY <1>9, <3>1
    <3>3. /\ task[call[e].ref[l]].pc # "free" /\ task[call[e].ref[l]].id = call[e].reqs[l].id
          /\ task[call[e].ref[l]].stage \in {"proxy", call[e].reqs[l].stage}
          /\ task[call[e].ref[l]].again => call[e].reqs[l].stage = "route"
      BY <3>1, AskedRef DEF IInv
    <3> QED BY <3>1, <3>2, <3>3
  <2>3. calls' = calls /\ kind' = kind
    BY <1>1
  <2> QED BY <2>1, <2>2, <2>3 DEF Asked
<1>14. RefsApart' /\ ReqsApart'
  <2>1. ASSUME NEW e \in Calls, NEW f \in Calls, NEW k \in 1..Len(call'[e].ref), NEW l \in 1..Len(call'[f].ref)
        PROVE  /\ call'[e].ref[k] = call'[f].ref[l] => e = f /\ k = l
               /\ ~mixed /\ call'[e].reqs[k] = call'[f].reqs[l] => e = f /\ k = l
    <3>1. /\ call'[e] = call[e] /\ call'[f] = call[f]
          /\ k \in 1..Len(call[e].ref) /\ l \in 1..Len(call[f].ref)
      BY <1>5, <1>8
    <3> QED BY <3>1 DEF IInv, RefsApart, ReqsApart
  <2> QED BY <1>1, <2>1, SMTT(30) DEF RefsApart, ReqsApart
<1>15. Owned'
  <2>1. SUFFICES ASSUME losses = 0, NEW u \in Tasks, task'[u].pc # "free"
                 PROVE  \E e \in Calls : \E l \in 1..Len(call'[e].ref) : call'[e].ref[l] = u
    BY <1>1, <1>3, <1>6 DEF IInv, Owned
  <2>2. task'[u] = task[u]
    BY <1>3, <1>6, <2>1
  <2>3. PICK e \in Calls : \E l \in 1..Len(call[e].ref) : call[e].ref[l] = u
    BY <2>1, <2>2 DEF IInv, Owned
  <2>4. PICK l \in 1..Len(call[e].ref) : call[e].ref[l] = u
    BY <2>3
  <2>5. e # c
    <3>1. SUFFICES ASSUME e = c
                   PROVE  FALSE
      OBVIOUS
    <3>2. task[u].pc = "done"
      BY <1>1, <2>1, <2>4, <3>1 DEF Seen, Placed, IInv, Owned
    <3>3. l \in DOMAIN call[c].ref
      BY <1>2, <2>4, <3>1 DEF CallsOK
    <3>4. u \in ToSet(call[c].ref)
      BY <2>4, <3>1, <3>3 DEF ToSet
    <3> QED BY <1>1, <1>3, <2>1, <3>2, <3>4
  <2> QED BY <1>5, <2>4, <2>5
<1>16. AloneInDir' /\ CacheSound' /\ FilesFollow' /\ WholeSoFar'
  <2>1. ASSUME NEW u \in Tasks, Follows(u), WholeYet(u)
        PROVE  Follows(u)' /\ WholeYet(u)'
    <3>1. CASE task'[u] = task[u]
      <4>1. Unmoved(u)
        BY <3>1 DEF Unmoved
      <4> QED BY <1>1, <2>1, <4>1, UnmovedFollows
    <3>2. CASE task'[u] = NoTask
      BY <1>3, <3>2 DEF Follows, WholeYet, Repaired
    <3> QED BY <1>6, <3>1, <3>2
  <2> QED BY <1>1, <2>1, FilesStay
<1>17. GrtDone'
  BY <1>1, <1>3, <1>6 DEF IInv, GrtDone, GrtOf
<1>18. ScreenedKept'
  <2>1. SUFFICES ASSUME losses = 0, ~mixed
                 PROVE  ScreenedKept'
    BY <1>1 DEF ScreenedKept
  <2>2. ASSUME NEW i \in screened'
        PROVE  /\ \A e \in Calls : \A l \in 1..Len(call'[e].ref) :
                    ~(call'[e].reqs[l].id = i /\ call'[e].reqs[l].stage = "grt")
               /\ Kept(i) =>
                    /\ Keeper(i)' \in Disks /\ grt'[Keeper(i)'][i] = "full"
                    /\ \A e \in Calls : \A l \in 1..Len(call'[e].ref) :
                         call'[e].reqs[l].id = i /\ call'[e].reqs[l].stage = "route"
                           => task'[call'[e].ref[l]].disk = Keeper(i)'
    <3>1. /\ \A e \in Calls \ {c} : \A l \in 1..Len(call[e].ref) :
               ~(call[e].reqs[l].id = i /\ call[e].reqs[l].stage = "grt")
          /\ Kept(i) =>
               /\ Keeper(i)' \in Disks /\ grt[Keeper(i)'][i] = "full"
               /\ \A e \in Calls \ {c} : \A l \in 1..Len(call[e].ref) :
                    call[e].reqs[l].id = i /\ call[e].reqs[l].stage = "route"
                      => task[call[e].ref[l]].disk = Keeper(i)'
      BY <2>1, <2>2, ReturnScreens
    <3>2. ASSUME NEW e \in Calls, NEW l \in 1..Len(call'[e].ref)
          PROVE  /\ e \in Calls \ {c} /\ call'[e] = call[e] /\ l \in 1..Len(call[e].ref)
                 /\ task'[call[e].ref[l]] = task[call[e].ref[l]]
      <4>1. e \in Calls \ {c} /\ call'[e] = call[e]
        BY <1>5, <1>8
      <4> QED BY <1>9, <4>1
    <3>3. ASSUME NEW e \in Calls, NEW l \in 1..Len(call'[e].ref)
          PROVE  ~(call'[e].reqs[l].id = i /\ call'[e].reqs[l].stage = "grt")
      BY <3>1, <3>2
    <3>4. ASSUME Kept(i), NEW e \in Calls, NEW l \in 1..Len(call'[e].ref),
                 call'[e].reqs[l].id = i, call'[e].reqs[l].stage = "route"
          PROVE  task'[call'[e].ref[l]].disk = Keeper(i)'
      BY <3>1, <3>2, <3>4
    <3>5. grt' = grt
      BY <1>1
    <3> QED BY <3>1, <3>3, <3>4, <3>5
  <2>3. \A i : Kept(i)' <=> Kept(i)
    BY <1>1 DEF Kept
  <2> QED BY <2>2, <2>3 DEF ScreenedKept
<1>19. AgainScreened' /\ NotFromBase'
  BY <1>1, <1>3, <1>6 DEF IInv, AgainScreened, NotFromBase, Kept
<1> QED
  BY <1>10, <1>11, <1>12, <1>13, <1>14, <1>15, <1>16, <1>17, <1>18, <1>19 DEF IInv

(* What a call sends: requests of the batch, none twice unless the batch has *)
(* it twice and is given to BatchEvaluator.                                  *)
LEMMA OnceIfNew ==
  ASSUME NEW T, NEW b \in Seq(T), ~(Cardinality(ToSet(b)) < Len(b))
  PROVE  \A k, l \in 1..Len(b) : b[k] = b[l] => k = l
<1>1. b \in [1..Len(b) -> ToSet(b)] /\ Len(b) \in Nat /\ \A x \in ToSet(b) : \E k \in 1..Len(b) : b[k] = x
  BY DEF ToSet
<1>2. IsFiniteSet(1..Len(b)) /\ Cardinality(1..Len(b)) = Len(b)
  <2>1. IsFiniteSet(1..Len(b)) /\ Cardinality(1..Len(b)) = IF 1 > Len(b) THEN 0 ELSE Len(b) - 1 + 1
    <3>1. 1 \in Int /\ Len(b) \in Int
      BY <1>1
    <3> QED BY <3>1, FS_Interval
  <2> QED BY <1>1, <2>1
<1>3. b \in Surjection(1..Len(b), ToSet(b))
  BY <1>1 DEF Surjection
<1>4. /\ IsFiniteSet(ToSet(b)) /\ Cardinality(ToSet(b)) <= Len(b)
      /\ Cardinality(ToSet(b)) = Len(b) <=> b \in Injection(1..Len(b), ToSet(b))
  BY <1>2, <1>3, FS_Surjection
<1>5. Cardinality(ToSet(b)) \in Nat
  BY <1>4, FS_CardinalityType
<1>6. b \in Injection(1..Len(b), ToSet(b))
  BY <1>1, <1>4, <1>5
<1> QED
  BY <1>1, <1>6 DEF Injection, IsInjective

LEMMA SentRequests ==
  ASSUME NEW b \in Batches
  PROVE  /\ Sent(b) \in Seq([id: Ids, stage: Stages])
         /\ \A k \in 1..Len(Sent(b)) : Sent(b)[k] \in ToSet(b)
         /\ ~(kind = "batch" /\ Cardinality(ToSet(b)) < Len(b))
              => \A k, l \in 1..Len(Sent(b)) : Sent(b)[k] = Sent(b)[l] => k = l
<1>1. b \in Seq([id: Ids, stage: Stages])
  BY DispatchAssumption
<1>2. CASE kind = "batch"
  <2>1. Sent(b) = b
    BY <1>2 DEF Sent
  <2>2. \A k \in 1..Len(b) : b[k] \in ToSet(b)
    BY <1>1 DEF ToSet
  <2> QED BY <1>1, <1>2, <2>1, <2>2, OnceIfNew
<1>3. CASE kind # "batch"
  <2>1. Sent(b) = Distinct(b)
    BY <1>3 DEF Sent
  <2> QED BY <1>1, <2>1, DistinctSends
<1> QED
  BY <1>2, <1>3

LEMMA NewTaskIs ==
  ASSUME NEW k, NEW q \in [id: Ids, stage: Stages], NEW d \in Disks, NEW still
  PROVE  /\ NewTask(k, q, d, still) \in TasksOK
         /\ NewTask(k, q, d, still).pc \in {"look", "queued"} /\ NewTask(k, q, d, still).disk = d
         /\ NewTask(k, q, d, still).id = q.id /\ NewTask(k, q, d, still).stage \in {"proxy", q.stage}
         /\ NewTask(k, q, d, still).again <=> (q.stage = "route" /\ q.id \in still)
         /\ NewTask(k, q, d, still).from = None /\ NewTask(k, q, d, still).whole
         /\ ~NewTask(k, q, d, still).lost /\ NewTask(k, q, d, still).ans = None
<1> DEFINE pc == IF Begins(k, d) THEN "look" ELSE "queued"
           st == IF kind = "batch" THEN "proxy" ELSE q.stage
           ag == q.stage = "route" /\ q.id \in still
           r == [NoTask EXCEPT !.pc = pc, !.disk = d, !.id = q.id, !.stage = st, !.again = ag]
<1>1. pc \in {"look", "queued"} /\ st \in {"proxy", q.stage} /\ ag \in BOOLEAN /\ st \in Stages /\ q.id \in Ids
  BY DEF Stages
<1>2. NewTask(k, q, d, still) = r
  BY DEF NewTask
<1>3. ag <=> (q.stage = "route" /\ q.id \in still)
  OBVIOUS
<1> HIDE DEF pc, st, ag
<1>4. r \in TasksOK
  BY <1>1, NoTaskTyped DEF TasksOK, Steps
<1>5. /\ r.pc = pc /\ r.disk = d /\ r.id = q.id /\ r.stage = st /\ r.again = ag
      /\ r.from = None /\ r.whole /\ ~r.lost /\ r.ans = None
  BY DEF NoTask
<1> HIDE DEF r
<1> QED
  BY <1>1, <1>2, <1>3, <1>4, <1>5

(* The tasks after a call was sent: new ones for its requests, and the others*)
(* as they were, but for what a new grt run takes back.                      *)
IsNew(u, q, d, still) ==
  /\ task[u].pc = "free" /\ task'[u].pc \in {"look", "queued"} /\ task'[u].disk = d
  /\ task'[u].id = q.id /\ task'[u].stage \in {"proxy", q.stage}
  /\ task'[u].again <=> (q.stage = "route" /\ q.id \in still)
  /\ task'[u].from = None /\ task'[u].whole /\ ~task'[u].lost /\ task'[u].ans = None
IsOld(u, still) ==
  /\ Unmoved(u) /\ task'[u].lost = task[u].lost
  /\ task'[u].again <=> (task[u].again /\ task[u].id \in still)

LEMMA AskEffect ==
  ASSUME IInv, NEW b \in Batches, Ask(b)
  PROVE  \E q \in Seq([id: Ids, stage: Stages]), f \in Seq(Tasks), d \in [1..Len(Sent(b)) -> Disks] :
    LET still == screened \ {i \in Ids : [id |-> i, stage |-> "grt"] \in ToSet(b)} IN
    /\ q = Sent(b) /\ Len(f) = Len(q)
    /\ calls + 1 \in Calls /\ calls' = calls + 1 /\ screened' = still
    /\ \A k, l \in 1..Len(f) : f[k] = f[l] => k = l
    /\ \A k \in 1..Len(f) : d[k] \in Where(q[k]) /\ IsNew(f[k], q[k], d[k], still)
    /\ \A u \in Tasks : (\E k \in 1..Len(f) : f[k] = u) \/ IsOld(u, still)
    /\ task' \in [Tasks -> TasksOK]
    /\ call' = [call EXCEPT ![calls + 1] = [pc |-> IF kind = "batch" THEN "placing" ELSE "running",
                                            reqs |-> q, ref |-> f]]
    /\ ~mixed' => /\ ~mixed /\ \A e \in Calls \ {calls + 1} : Requests(e) \cap ToSet(b) = {}
                  /\ \A k, l \in 1..Len(q) : q[k] = q[l] => k = l
    /\ mixed' \in BOOLEAN
    /\ UNCHANGED <<flow, nature, place, grt, kind, slot, held, up, losses>>
<1> DEFINE todo == Sent(b)
           idle == {t \in Tasks : task[t].pc = "free"}
           free == SetToSeq(idle)
           still == screened \ {i \in Ids : [id |-> i, stage |-> "grt"] \in ToSet(b)}
           n == Len(todo)
           f == SubSeq(free, 1, n)
<1>1. PICK d \in [1..n -> Disks] :
        /\ \A k \in 1..n : d[k] \in Where(todo[k])
        /\ task' = [t \in Tasks |->
             IF \E k \in 1..n : free[k] = t
             THEN LET k == CHOOSE j \in 1..n : free[j] = t IN NewTask(k, todo[k], d[k], still)
             ELSE [task[t] EXCEPT !.again = @ /\ task[t].id \in still]]
  BY DEF Ask
<1>2. /\ calls + 1 \in Calls /\ calls' = calls + 1 /\ screened' = still /\ n <= Len(free)
      /\ call' = [call EXCEPT ![calls + 1] = [pc |-> IF kind = "batch" THEN "placing" ELSE "running",
                                              reqs |-> todo, ref |-> f]]
      /\ mixed' = (\/ mixed
                   \/ \E e \in Calls \ {calls + 1} : Requests(e) \cap ToSet(b) # {}
                   \/ kind = "batch" /\ Cardinality(ToSet(b)) < Len(b))
      /\ UNCHANGED <<flow, nature, place, grt, kind, slot, held, up, losses>>
  BY DEF Ask
<1>3. /\ todo \in Seq([id: Ids, stage: Stages])
      /\ ~(kind = "batch" /\ Cardinality(ToSet(b)) < Len(b))
           => \A k, l \in 1..n : todo[k] = todo[l] => k = l
  BY SentRequests
<1>4. free \in Seq(idle) /\ \A k, l \in 1..Len(free) : free[k] = free[l] => k = l
  BY FreeTasks
<1>5. task \in [Tasks -> TasksOK]
  BY DEF IInv, Typed, HandoffTypeOK
<1> HIDE DEF todo, free, still
<1>6. n \in Nat /\ \A k \in 1..n : todo[k] \in [id: Ids, stage: Stages]
  BY <1>3, SeqMember, LenNat
<1>7. \A k \in 1..n : k \in 1..Len(free) /\ free[k] \in idle /\ free[k] \in Tasks /\ task[free[k]].pc = "free"
  BY <1>2, <1>4, <1>6
<1>8. f \in Seq(Tasks) /\ Len(f) = n /\ \A k \in 1..n : f[k] = free[k]
  <2>1. free \in Seq(Tasks)
    BY <1>4
  <2> QED BY <1>2, <1>6, <2>1
<1> HIDE DEF idle, f, n
<1>9. ASSUME NEW k \in 1..n
      PROVE  task'[free[k]] = NewTask(k, todo[k], d[k], still)
  <2>1. (CHOOSE j \in 1..n : free[j] = free[k]) = k
    BY <1>4, <1>7
  <2> QED BY <1>1, <1>7, <2>1
<1>10. ASSUME NEW k \in 1..n
       PROVE  IsNew(f[k], todo[k], d[k], still) /\ task'[f[k]] \in TasksOK
  <2>1. d[k] \in Disks
    BY <1>1
  <2> QED BY <1>6, <1>7, <1>8, <1>9, <2>1, NewTaskIs DEF IsNew
<1>11. ASSUME NEW u \in Tasks, ~\E k \in 1..n : free[k] = u
       PROVE  IsOld(u, still) /\ task'[u] \in TasksOK
  <2> DEFINE w == task[u].again /\ task[u].id \in still
             r == [task[u] EXCEPT !.again = w]
  <2>1. task'[u] = r
    BY <1>1, <1>11
  <2>2. w \in BOOLEAN
    BY <1>5, TaskFields
  <2>3. w <=> (task[u].again /\ task[u].id \in still)
    OBVIOUS
  <2> HIDE DEF w
  <2>4. r \in TasksOK
    BY <1>5, <2>2, NewRecords
  <2>5. /\ r.pc = task[u].pc /\ r.disk = task[u].disk /\ r.id = task[u].id /\ r.stage = task[u].stage
        /\ r.round = task[u].round /\ r.from = task[u].from /\ r.whole = task[u].whole
        /\ r.ans = task[u].ans /\ r.lost = task[u].lost /\ r.again = w
    BY <1>5 DEF TasksOK
  <2> HIDE DEF r
  <2> QED BY <2>1, <2>3, <2>4, <2>5 DEF IsOld, Unmoved
<1>12. \A u \in Tasks : (\E k \in 1..n : f[k] = u) \/ IsOld(u, still)
  BY <1>8, <1>11
<1>13. task' \in [Tasks -> TasksOK]
  <2>1. \A u \in Tasks : task'[u] \in TasksOK
    BY <1>8, <1>10, <1>11
  <2>2. task' = [u \in Tasks |-> task'[u]]
    BY <1>1
  <2> QED BY <2>1, <2>2
<1>14. \A k, l \in 1..n : f[k] = f[l] => k = l
  BY <1>4, <1>7, <1>8
<1>15. mixed' \in BOOLEAN
  BY <1>2 DEF IInv, Typed
<1>16. ~mixed' => /\ ~mixed /\ \A e \in Calls \ {calls + 1} : Requests(e) \cap ToSet(b) = {}
                  /\ \A k, l \in 1..n : todo[k] = todo[l] => k = l
  BY <1>2, <1>3
<1>17. todo = Sent(b) /\ n = Len(todo) /\ n = Len(Sent(b))
       /\ still = screened \ {i \in Ids : [id |-> i, stage |-> "grt"] \in ToSet(b)}
  BY DEF todo, n, still
<1>18. d \in [1..Len(Sent(b)) -> Disks]
  BY <1>17
<1> QED
  <2> todo \in Seq([id: Ids, stage: Stages]) /\ f \in Seq(Tasks) /\ d \in [1..Len(Sent(b)) -> Disks]
    BY <1>3, <1>8, <1>18
  <2> WITNESS todo \in Seq([id: Ids, stage: Stages]), f \in Seq(Tasks), d \in [1..Len(Sent(b)) -> Disks]
  <2> QED BY <1>1, <1>2, <1>8, <1>10, <1>12, <1>13, <1>14, <1>15, <1>16, <1>17

LEMMA AskKeeps ==
  ASSUME IInv, NEW b \in Batches, Ask(b), Observe
  PROVE  IInv'
<1> DEFINE still == screened \ {i \in Ids : [id |-> i, stage |-> "grt"] \in ToSet(b)}
           c == calls + 1
<1>1. PICK q \in Seq([id: Ids, stage: Stages]), f \in Seq(Tasks), d \in [1..Len(Sent(b)) -> Disks] :
        /\ q = Sent(b) /\ Len(f) = Len(q)
        /\ c \in Calls /\ calls' = c /\ screened' = still
        /\ \A k, l \in 1..Len(f) : f[k] = f[l] => k = l
        /\ \A k \in 1..Len(f) : d[k] \in Where(q[k]) /\ IsNew(f[k], q[k], d[k], still)
        /\ \A u \in Tasks : (\E k \in 1..Len(f) : f[k] = u) \/ IsOld(u, still)
        /\ task' \in [Tasks -> TasksOK]
        /\ call' = [call EXCEPT ![c] = [pc |-> IF kind = "batch" THEN "placing" ELSE "running",
                                        reqs |-> q, ref |-> f]]
        /\ ~mixed' => /\ ~mixed /\ \A e \in Calls \ {c} : Requests(e) \cap ToSet(b) = {}
                      /\ \A k, l \in 1..Len(q) : q[k] = q[l] => k = l
        /\ mixed' \in BOOLEAN
        /\ UNCHANGED <<flow, nature, place, grt, kind, slot, held, up, losses>>
  BY AskEffect
<1>2. \A k \in 1..Len(q) : q[k] \in ToSet(b)
  BY <1>1, SentRequests
<1>3. still \subseteq screened /\ \A i \in still : [id |-> i, stage |-> "grt"] \notin ToSet(b)
  BY DEF IInv, Typed
<1> HIDE DEF still
<1>4. Len(f) \in Nat /\ Len(f) = Len(q) /\ \A k \in 1..Len(f) : /\ f[k] \in Tasks /\ d[k] \in Disks
                                                                /\ q[k] \in [id: Ids, stage: Stages]
  BY <1>1, SeqMember, LenNat
<1> DEFINE r == [pc |-> IF kind = "batch" THEN "placing" ELSE "running", reqs |-> q, ref |-> f]
<1>5. r \in CallsOK /\ r.reqs = q /\ r.ref = f /\ (r.pc = "placing" => kind = "batch")
  BY DEF CallsOK
<1>6. call' = [call EXCEPT ![c] = r] /\ c \in Calls
  BY <1>1
<1> HIDE DEF r
<1>7. call' \in [Calls -> CallsOK] /\ call'[c] = r /\ \A e \in Calls \ {c} : call'[e] = call[e]
  BY <1>5, <1>6 DEF IInv, Typed
<1>8. ASSUME NEW e \in Calls \ {c}, NEW l \in 1..Len(call[e].ref)
      PROVE  call[e].ref[l] \in Tasks /\ IsOld(call[e].ref[l], still) /\ \A k \in 1..Len(f) : f[k] # call[e].ref[l]
  <2>1. call[e].ref[l] \in Tasks /\ task[call[e].ref[l]].pc # "free"
    BY RefTask DEF IInv, Asked
  <2>2. \A k \in 1..Len(f) : task[f[k]].pc = "free"
    BY <1>1 DEF IsNew
  <2> QED BY <1>1, <2>1, <2>2
<1>9. c > calls /\ calls \in Nat /\ c \in 0..MaxCalls
  BY <1>1, DispatchAssumption DEF IInv, Typed, Calls
<1> HIDE DEF c
<1>22. /\ \A u \in Tasks : (\E k \in 1..Len(f) : f[k] = u) \/ IsOld(u, still)
       /\ kind' = kind /\ slot' = slot /\ flow' = flow /\ calls' = c /\ screened' = still
  BY <1>1
<1>10. Typed'
  <2>1. screened' \subseteq Ids
    BY <1>1, <1>3 DEF IInv, Typed
  <2> QED BY <1>1, <1>7, <1>9, <2>1 DEF IInv, Typed, HandoffTypeOK, Observe, Crossed
<1>11. OnDisk'
  <2>1. ASSUME NEW u \in Tasks, IsOld(u, still)
        PROVE  task'[u].pc # "free" =>
                 /\ task'[u].disk \in Disks /\ task'[u].id \in Ids
                 /\ kind \in {"local", "batch"} => task'[u].disk = Home
                 /\ kind = "split" /\ slot[task'[u].id] # None => task'[u].disk = slot[task'[u].id]
    BY <2>1 DEF IsOld, Unmoved, IInv, OnDisk
  <2>2. ASSUME NEW k \in 1..Len(f)
        PROVE  /\ task'[f[k]].disk \in Disks /\ task'[f[k]].id \in Ids
               /\ kind \in {"local", "batch"} => task'[f[k]].disk = Home
               /\ kind = "split" /\ slot[task'[f[k]].id] # None => task'[f[k]].disk = slot[task'[f[k]].id]
    BY <1>1, <1>4 DEF IsNew, Where
  <2> QED BY <1>22, <2>1, <2>2 DEF OnDisk
<1>12. InStep'
  <2>0. Placements' = Placements /\ None # "ok"
    BY <1>1, HandoffAssumption DEF Placements
  <2>1. ASSUME NEW u \in Tasks, IsOld(u, still)
        PROVE  /\ task'[u].pc = "repair" => flow = "rebuf" /\ task'[u].round < Placements
               /\ task'[u].pc = "handed" => kind = "split"
               /\ task'[u].pc \in {"handed", "route", "make", "write"} => task'[u].stage # "proxy"
               /\ task'[u].pc = "write" => task'[u].stage = "grt"
               /\ task'[u].ans = "ok" => task'[u].pc = "done"
    BY <2>1 DEF IsOld, Unmoved, IInv, InStep
  <2>2. ASSUME NEW k \in 1..Len(f)
        PROVE  task'[f[k]].pc \in {"look", "queued"} /\ task'[f[k]].ans # "ok"
    BY <1>1, <2>0 DEF IsNew
  <2> QED BY <1>22, <2>0, <2>1, <2>2 DEF InStep
<1>13. Asked'
  <2>1. ASSUME NEW e \in Calls \ {c}, NEW l \in 1..Len(call[e].ref)
        PROVE  /\ task'[call[e].ref[l]].pc # "free" /\ task'[call[e].ref[l]].id = call[e].reqs[l].id
               /\ task'[call[e].ref[l]].stage \in {"proxy", call[e].reqs[l].stage}
               /\ task'[call[e].ref[l]].again => call[e].reqs[l].stage = "route"
    <3>1. PICK u \in Tasks : u = call[e].ref[l] /\ IsOld(u, still)
      BY <1>8
    <3>2. /\ task[u].pc # "free" /\ task[u].id = call[e].reqs[l].id
          /\ task[u].stage \in {"proxy", call[e].reqs[l].stage}
          /\ task[u].again => call[e].reqs[l].stage = "route"
      BY <3>1 DEF IInv, Asked
    <3> QED BY <3>1, <3>2 DEF IsOld, Unmoved
  <2>2. ASSUME NEW k \in 1..Len(f)
        PROVE  /\ task'[f[k]].pc # "free" /\ task'[f[k]].id = q[k].id
               /\ task'[f[k]].stage \in {"proxy", q[k].stage}
               /\ task'[f[k]].again => q[k].stage = "route"
    BY <1>1 DEF IsNew
  <2>3. ASSUME NEW e \in Calls
        PROVE  /\ e > c => call'[e] = NoCall
               /\ call'[e].pc = "placing" => kind = "batch"
               /\ Len(call'[e].ref) = Len(call'[e].reqs)
               /\ \A l \in 1..Len(call'[e].ref) :
                    /\ task'[call'[e].ref[l]].pc # "free" /\ task'[call'[e].ref[l]].id = call'[e].reqs[l].id
                    /\ task'[call'[e].ref[l]].stage \in {"proxy", call'[e].reqs[l].stage}
                    /\ task'[call'[e].ref[l]].again => call'[e].reqs[l].stage = "route"
    <3>1. CASE e = c
      <4>1. ~(c > c)
        BY <1>9
      <4>2. call'[e].ref = f /\ call'[e].reqs = q /\ (call'[e].pc = "placing" => kind = "batch")
        BY <1>5, <1>7, <3>1
      <4> QED BY <1>4, <2>2, <3>1, <4>1, <4>2
    <3>2. CASE e # c
      <4>1. e > c => e > calls
        BY <1>9 DEF c, Calls
      <4>2. call'[e] = call[e] /\ e \in Calls \ {c}
        BY <1>7, <3>2
      <4>3. /\ e > calls => call[e] = NoCall
            /\ call[e].pc = "placing" => kind = "batch"
            /\ Len(call[e].ref) = Len(call[e].reqs)
        BY DEF IInv, Asked
      <4>4. \A l \in 1..Len(call[e].ref) :
              /\ task'[call[e].ref[l]].pc # "free" /\ task'[call[e].ref[l]].id = call[e].reqs[l].id
              /\ task'[call[e].ref[l]].stage \in {"proxy", call[e].reqs[l].stage}
              /\ task'[call[e].ref[l]].again => call[e].reqs[l].stage = "route"
        BY <2>1, <4>2
      <4>5. /\ e > c => call[e] = NoCall
            /\ call[e].pc = "placing" => kind = "batch"
            /\ Len(call[e].ref) = Len(call[e].reqs)
        BY <4>1, <4>3
      <4> QED BY <4>2, <4>4, <4>5
    <3> QED BY <3>1, <3>2
  <2> QED BY <1>1, <2>3 DEF Asked
<1>14. RefsApart'
  <2>1. ASSUME NEW e \in Calls, NEW g \in Calls, NEW k \in 1..Len(call'[e].ref), NEW l \in 1..Len(call'[g].ref),
               call'[e].ref[k] = call'[g].ref[l]
        PROVE  e = g /\ k = l
    <3>1. CASE e = c /\ g = c
      BY <1>1, <1>5, <1>7, <2>1, <3>1
    <3>2. CASE e = c /\ g # c
      BY <1>5, <1>7, <1>8, <2>1, <3>2
    <3>3. CASE e # c /\ g = c
      BY <1>5, <1>7, <1>8, <2>1, <3>3
    <3>4. CASE e # c /\ g # c
      BY <1>7, <2>1, <3>4 DEF IInv, RefsApart
    <3> QED BY <3>1, <3>2, <3>3, <3>4
  <2> QED BY <2>1 DEF RefsApart
<1>15. ReqsApart'
  <2>0. SUFFICES ASSUME ~mixed'
                 PROVE  ReqsApart'
    BY DEF ReqsApart
  <2>1. ASSUME NEW e \in Calls \ {c}, NEW l \in 1..Len(call[e].ref), NEW k \in 1..Len(f)
        PROVE  call[e].reqs[l] # q[k]
    <3>1. call[e].reqs[l] \in Requests(e)
      BY InRequests DEF IInv
    <3>2. Requests(e) \cap ToSet(b) = {}
      BY <1>1, <2>0
    <3>3. q[k] \in ToSet(b)
      BY <1>2, <1>4
    <3> QED BY <3>1, <3>2, <3>3
  <2>2. ASSUME NEW e \in Calls, NEW g \in Calls, NEW k \in 1..Len(call'[e].ref), NEW l \in 1..Len(call'[g].ref),
               call'[e].reqs[k] = call'[g].reqs[l]
        PROVE  e = g /\ k = l
    <3>1. CASE e = c /\ g = c
      BY <1>1, <1>4, <1>5, <1>7, <2>0, <2>2, <3>1
    <3>2. CASE e = c /\ g # c
      BY <1>5, <1>7, <2>1, <2>2, <3>2
    <3>3. CASE e # c /\ g = c
      BY <1>5, <1>7, <2>1, <2>2, <3>3
    <3>4. CASE e # c /\ g # c
      BY <1>1, <1>7, <2>0, <2>2, <3>4 DEF IInv, ReqsApart
    <3> QED BY <3>1, <3>2, <3>3, <3>4
  <2> QED BY <2>2 DEF ReqsApart
<1>16. Owned'
  <2>1. ASSUME losses = 0, NEW u \in Tasks
        PROVE  /\ ~task'[u].lost
               /\ task'[u].pc # "free" => \E e \in Calls : \E l \in 1..Len(call'[e].ref) : call'[e].ref[l] = u
    <3>1. CASE \E k \in 1..Len(f) : f[k] = u
      BY <1>1, <1>5, <1>7, <3>1 DEF IsNew
    <3>2. CASE IsOld(u, still) /\ task'[u].pc # "free"
      <4>1. PICK e \in Calls : \E l \in 1..Len(call[e].ref) : call[e].ref[l] = u
        BY <2>1, <3>2 DEF IsOld, Unmoved, IInv, Owned
      <4>2. e # c
        <5>1. call[c] = NoCall
          BY <1>1, <1>9 DEF IInv, Asked
        <5> QED BY <4>1, <5>1 DEF NoCall
      <4> QED BY <1>7, <2>1, <3>2, <4>1, <4>2 DEF IsOld, IInv, Owned
    <3>3. CASE IsOld(u, still) /\ task'[u].pc = "free"
      BY <2>1, <3>3 DEF IsOld, IInv, Owned
    <3> QED BY <1>1, <3>1, <3>2, <3>3
  <2> QED BY <1>1, <2>1 DEF Owned
<1>17. AloneInDir' /\ CacheSound' /\ FilesFollow' /\ WholeSoFar'
  <2>1. ASSUME NEW u \in Tasks, Follows(u), WholeYet(u)
        PROVE  Follows(u)' /\ WholeYet(u)'
    <3>1. CASE \E k \in 1..Len(f) : f[k] = u
      <4>1. task'[u].pc \in {"look", "queued"} /\ task'[u].whole /\ task'[u].ans # "ok"
        BY <1>1, <3>1, HandoffAssumption DEF IsNew
      <4> QED BY <4>1 DEF Follows, WholeYet, Repaired
    <3>2. CASE IsOld(u, still)
      BY <1>1, <2>1, <3>2, UnmovedFollows DEF IsOld
    <3> QED BY <1>1, <3>1, <3>2
  <2> QED BY <1>1, <2>1, FilesStay
<1>18. GrtDone'
  <2>1. \A u \in Tasks : task'[u].ans = "ok" => IsOld(u, still)
    BY <1>1, HandoffAssumption DEF IsNew
  <2> QED BY <1>1, <2>1 DEF IsOld, Unmoved, IInv, GrtDone, GrtOf
<1>19. ScreenedKept'
  <2>1. SUFFICES ASSUME losses = 0, ~mixed'
                 PROVE  ScreenedKept'
    BY <1>1 DEF ScreenedKept
  <2>2. ASSUME NEW i \in still
        PROVE  /\ \A e \in Calls : \A l \in 1..Len(call'[e].ref) :
                    ~(call'[e].reqs[l].id = i /\ call'[e].reqs[l].stage = "grt")
               /\ Kept(i) =>
                    /\ Keeper(i) \in Disks /\ grt[Keeper(i)][i] = "full"
                    /\ \A e \in Calls : \A l \in 1..Len(call'[e].ref) :
                         call'[e].reqs[l].id = i /\ call'[e].reqs[l].stage = "route"
                           => task'[call'[e].ref[l]].disk = Keeper(i)
    <3>1. /\ \A e \in Calls : \A l \in 1..Len(call[e].ref) :
               ~(call[e].reqs[l].id = i /\ call[e].reqs[l].stage = "grt")
          /\ Kept(i) =>
               /\ Keeper(i) \in Disks /\ grt[Keeper(i)][i] = "full"
               /\ \A e \in Calls : \A l \in 1..Len(call[e].ref) :
                    call[e].reqs[l].id = i /\ call[e].reqs[l].stage = "route"
                      => task[call[e].ref[l]].disk = Keeper(i)
      BY <1>1, <1>3, <2>1 DEF IInv, ScreenedKept
    <3>2. ASSUME NEW k \in 1..Len(f), q[k].id = i
          PROVE  q[k].stage # "grt"
      <4>1. q[k].stage = "grt" => q[k] = [id |-> i, stage |-> "grt"]
        BY <1>4, <3>2
      <4> QED BY <1>2, <1>3, <1>4, <4>1
    <3>3. ASSUME NEW k \in 1..Len(f), q[k].id = i, q[k].stage = "route", Kept(i)
          PROVE  task'[f[k]].disk = Keeper(i)
      <4>1. task'[f[k]].disk = d[k] /\ d[k] \in Where(q[k])
        BY <1>1 DEF IsNew
      <4>2. Keeper(i) # None
        BY <3>1, <3>3, HandoffAssumption
      <4> QED BY <1>3, <3>3, <4>1, <4>2 DEF Where, Keeper, Kept, IInv, Typed
    <3>4. ASSUME NEW e \in Calls \ {c}, NEW l \in 1..Len(call[e].ref)
          PROVE  task'[call[e].ref[l]].disk = task[call[e].ref[l]].disk
      BY <1>8 DEF IsOld, Unmoved
    <3>5. \A e \in Calls : \A l \in 1..Len(call'[e].ref) :
            ~(call'[e].reqs[l].id = i /\ call'[e].reqs[l].stage = "grt")
      BY <1>5, <1>7, <3>1, <3>2
    <3>6. ASSUME Kept(i), NEW e \in Calls, NEW l \in 1..Len(call'[e].ref),
                 call'[e].reqs[l].id = i, call'[e].reqs[l].stage = "route"
          PROVE  task'[call'[e].ref[l]].disk = Keeper(i)
      <4>1. CASE e = c
        BY <1>5, <1>7, <3>3, <3>6, <4>1
      <4>2. CASE e # c
        BY <1>7, <3>1, <3>4, <3>6, <4>2, SMTT(30)
      <4> QED BY <4>1, <4>2
    <3> QED BY <3>1, <3>5, <3>6
  <2>3. \A i \in Ids : Keeper(i)' = Keeper(i) /\ (Kept(i)' <=> Kept(i))
    BY <1>1 DEF Keeper, Kept
  <2>4. \A i \in still : i \in Ids
    BY <1>3 DEF IInv, Typed
  <2> QED BY <1>1, <2>2, <2>3, <2>4 DEF ScreenedKept
<1>20. AgainScreened'
  <2>1. ASSUME NEW k \in 1..Len(f), task'[f[k]].again
        PROVE  task'[f[k]].id \in still
    BY <1>1, <2>1 DEF IsNew
  <2>2. ASSUME NEW u \in Tasks, IsOld(u, still), task'[u].again
        PROVE  task'[u].id \in still
    BY <2>2 DEF IsOld, Unmoved
  <2> QED BY <1>22, <2>1, <2>2 DEF AgainScreened
<1>21. NotFromBase'
  <2>1. SUFFICES ASSUME losses = 0, ~mixed, NEW u \in Tasks, task'[u].again, Kept(task[u].id)'
                 PROVE  task'[u].from # "base"
    <3>1. ~mixed' => ~mixed
      BY <1>1
    <3>2. ASSUME losses = 0, ~mixed, NEW u \in Tasks, task'[u].again, Kept(task[u].id)'
          PROVE  task'[u].from # "base"
      BY <2>1, <3>2
    <3> QED BY <1>1, <3>1, <3>2 DEF NotFromBase
  <2>2. CASE \E k \in 1..Len(f) : f[k] = u
    BY <1>1, <2>2, HandoffAssumption DEF IsNew
  <2>3. CASE IsOld(u, still)
    <3>1. task[u].again /\ Kept(task[u].id) /\ task'[u].from = task[u].from
      BY <1>1, <2>1, <2>3 DEF IsOld, Unmoved, Kept
    <3> QED BY <2>1, <3>1 DEF IInv, NotFromBase
  <2> QED BY <1>1, <2>2, <2>3
<1> QED
  BY <1>10, <1>11, <1>12, <1>13, <1>14, <1>15, <1>16, <1>17, <1>18, <1>19, <1>20, <1>21 DEF IInv

-----------------------------------------------------------------------------
LEMMA InitIInv == NodeInit => IInv
<1> SUFFICES ASSUME NodeInit
             PROVE  IInv
  OBVIOUS
<1>1. /\ HandoffInit /\ kind \in Kinds /\ slot \in SplitSlots /\ (kind # "split" => slot = [i \in Ids |-> None])
      /\ held = [i \in Ids |-> None] /\ call = [c \in Calls |-> NoCall]
      /\ up = Disks /\ calls = 0 /\ losses = 0 /\ mixed = FALSE /\ crossed = FALSE /\ screened = {}
  BY DEF NodeInit, DispatchInit
<1>2. /\ flow \in Flows /\ nature \in [Ids -> Natures]
      /\ place = [d \in Disks |-> [i \in Ids |-> NoFiles]] /\ grt = [d \in Disks |-> [i \in Ids |-> "none"]]
      /\ task = [t \in Tasks |-> NoTask]
  <2>1. \A S \in {Natures, Natures \ {"diverges"}} : [Ids -> S] \subseteq [Ids -> Natures]
    OBVIOUS
  <2> QED BY <1>1, <2>1 DEF HandoffInit
<1>3. /\ NoTask.pc = "free" /\ NoTask.ans # "ok" /\ ~NoTask.again /\ NoTask.whole /\ ~NoTask.lost
      /\ NoTask \in TasksOK
  BY HandoffAssumption, NoTaskTyped DEF NoTask
<1>4. NoCall \in CallsOK /\ NoCall.ref = <<>> /\ NoCall.pc # "placing" /\ NoCall.reqs = <<>>
  BY DEF NoCall, CallsOK
<1>5. NoFiles \in FilesOK /\ NoFiles.cache # "full" /\ "none" \in Files
  BY DEF NoFiles, FilesOK, Files
<1>6. /\ \A t \in Tasks : task[t] = NoTask
      /\ \A c \in Calls : call[c] = NoCall /\ Len(call[c].ref) = 0 /\ Len(call[c].reqs) = 0
  BY <1>1, <1>2, <1>4
<1>7. Typed
  <2>1. HandoffTypeOK
    BY <1>2, <1>3, <1>5 DEF HandoffTypeOK
  <2>2. slot \in [Ids -> Disks \cup {None}] /\ (kind # "split" => \A i \in Ids : slot[i] = None)
    BY <1>1, DispatchAssumption DEF SplitSlots, PinnedSlots
  <2>3. held \in [Ids -> Disks \cup {None}] /\ call \in [Calls -> CallsOK]
    BY <1>1, <1>4
  <2>4. /\ up \subseteq Disks /\ calls \in 0..MaxCalls /\ losses \in 0..MaxLosses
        /\ mixed \in BOOLEAN /\ crossed \in BOOLEAN /\ screened \subseteq Ids
    <3>1. 0 \in 0..MaxCalls /\ 0 \in 0..MaxLosses
      BY DispatchAssumption
    <3> QED BY <1>1, <3>1
  <2> QED BY <1>1, <2>1, <2>2, <2>3, <2>4 DEF Typed
<1>8. OnDisk /\ InStep /\ GrtDone /\ AgainScreened /\ NotFromBase
  BY <1>3, <1>6 DEF OnDisk, InStep, GrtDone, AgainScreened, NotFromBase
<1>9. AloneInDir
  BY <1>3, <1>6 DEF AloneInDir, Crossed, Share
<1>10. CacheSound
  BY <1>2, <1>5 DEF CacheSound, DirSound
<1>11. FilesFollow /\ WholeSoFar
  BY <1>3, <1>6 DEF FilesFollow, WholeSoFar, Follows, WholeYet, Repaired
<1>12. Asked /\ RefsApart /\ ReqsApart
  BY <1>4, <1>6 DEF Asked, RefsApart, ReqsApart
<1>13. Owned /\ ScreenedKept
  BY <1>1, <1>3, <1>6 DEF Owned, ScreenedKept
<1> QED
  BY <1>7, <1>8, <1>9, <1>10, <1>11, <1>12, <1>13 DEF IInv

LEMMA StutterIInv ==
  ASSUME IInv, UNCHANGED nodeVars
  PROVE  IInv'
<1> USE DEF nodeVars, handoffVars, dispatchVars
<1>1. Typed'
  BY DEF IInv, Typed, HandoffTypeOK
<1>2. OnDisk' /\ InStep' /\ AloneInDir' /\ CacheSound'
  BY DEF IInv, OnDisk, InStep, AloneInDir, Crossed, Share, CacheSound, DirSound, Placements
<1>3. FilesFollow' /\ WholeSoFar'
  <2>1. ASSUME NEW u \in Tasks, Follows(u), WholeYet(u)
        PROVE  Follows(u)' /\ WholeYet(u)'
    <3>1. Unmoved(u)
      BY DEF Unmoved
    <3> QED BY <2>1, <3>1, UnmovedFollows
  <2> QED BY <2>1 DEF IInv, FilesFollow, WholeSoFar
<1>4. Asked' /\ RefsApart' /\ Owned' /\ ReqsApart'
  BY CallsStay
<1>5. GrtDone' /\ ScreenedKept' /\ AgainScreened' /\ NotFromBase'
  BY DEF IInv, GrtDone, GrtOf, ScreenedKept, Keeper, Kept, AgainScreened, NotFromBase
<1> QED
  BY <1>1, <1>2, <1>3, <1>4, <1>5 DEF IInv

LEMMA NextIInv == IInv /\ [NodeNext]_vars => IInv'
<1> SUFFICES ASSUME IInv, [NodeNext]_vars
             PROVE  IInv'
  OBVIOUS
<1>1. CASE UNCHANGED nodeVars
  BY <1>1, StutterIInv
<1>2. CASE DispatchStep /\ Observe
  <2>1. CASE \E b \in Batches : Ask(b)
    BY <1>2, <2>1, AskKeeps
  <2>2. CASE \E c \in Calls : StartNext(c) \/ RoutePhase(c) \/ Return(c)
    BY <1>2, <2>2, StartNextKeeps, RoutePhaseKeeps, ReturnKeeps
  <2>3. CASE \E t \in Tasks : Work(t) \/ Forget(t) \/ LoseSight(t) \/ \E d \in Disks : RouteStarts(t, d)
    BY <1>2, <2>3, WorkKeeps, ForgetKeeps, LoseSightKeeps, RouteStartsKeeps
  <2>4. CASE \E d \in Disks : LoseMachine(d)
    BY <1>2, <2>4, LoseMachineKeeps
  <2> QED BY <1>2, <2>1, <2>2, <2>3, <2>4 DEF DispatchStep
<1> QED
  BY <1>1, <1>2 DEF NodeNext, Raw, Libre, DispatchNext, vars, nodeVars

(* raw_handoff.py:636 and 936, node.py:193: whatever is killed on the way, a *)
(* result that is answered ok comes from whole files, as long as no two      *)
(* evaluations worked in one placement's directory at a time and a route half*)
(* ran where its place half had run.                                         *)
THEOREM WholeResultsAlways == NodeSpec => []WholeResults
<1>1. IInv => WholeResults
  BY DEF IInv, InStep, WholeSoFar, WholeYet, WholeResults
<1> QED
  BY <1>1, InitIInv, NextIInv, PTL DEF NodeSpec

(* node.py:246-248: while no request is asked for twice at a time and no     *)
(* worker is lost, no two evaluations work in one key-named directory.       *)
THEOREM OneRunPerDirectoryAlways == NodeSpec => []OneRunPerDirectory
<1>1. IInv => OneRunPerDirectory
  <2>1. SUFFICES ASSUME IInv, ~mixed, losses = 0, NEW t \in Tasks, NEW u \in Tasks,
                        Share(task, t, u), task[t].stage = task[u].stage, task[t].stage # "proxy"
                 PROVE  FALSE
    BY DEF OneRunPerDirectory
  <2>2. t # u /\ task[t].pc # "free" /\ task[u].pc # "free" /\ task[t].id = task[u].id
    BY <2>1 DEF Share
  <2> QED BY <2>1, <2>2, StageApart DEF IInv
<1> QED
  BY <1>1, InitIInv, NextIInv, PTL DEF NodeSpec

(* raw_handoff.py:926: while the same holds, the route run of an identity    *)
(* that was screened where it is kept does not start from the base again.    *)
THEOREM ScreenedNotRepeatedAlways == NodeSpec => []ScreenedNotRepeated
<1>1. IInv => ScreenedNotRepeated
  BY DEF IInv, NotFromBase, ScreenedNotRepeated
<1> QED
  BY <1>1, InitIInv, NextIInv, PTL DEF NodeSpec

-----------------------------------------------------------------------------
(* The inductive invariant of the LibreLane handshake: a container that has  *)
(* not been started is off, and while an evaluation that found none running  *)
(* goes on, its own is the only one that writes flow_done.json.              *)
FlowRec == [pc: {"off", "run", "ask", "wait", "import", "end", "ended", "died"}, pipe: Nat, ok: BOOLEAN]
LibreTyped ==
  /\ container \in [LL!Evals -> FlowRec] /\ evals \in Nat
  /\ host \in [pc: {"idle", "launch", "wait", "place", "write", "drain"}, alone: BOOLEAN]
NotBegun ==
  /\ \A n \in LL!Evals : n > evals \/ (host.pc = "launch" /\ n = evals) => container[n].pc = "off"
  /\ host.pc # "idle" => evals \in LL!Evals
OnlyOwn ==
  host.pc # "idle" /\ host.alone =>
    flow_done.by \in {None, evals} /\ \A n \in LL!Evals : LL!Running(n) => n = evals
Ours == LibreTyped /\ NotBegun /\ OnlyOwn /\ OwnAnswer

LEMMA InitOurs == NodeInit => Ours
<1> SUFFICES ASSUME NodeInit
             PROVE  Ours
  OBVIOUS
<1>1. /\ host = LL!NoHost /\ container = [n \in LL!Evals |-> LL!NoFlow] /\ evals = 0 /\ answer = None
  BY DEF NodeInit, LL!LibreLaneInit
<1> QED
  BY <1>1 DEF Ours, LibreTyped, NotBegun, OnlyOwn, OwnAnswer, LL!OwnAnswer, FlowRec, LL!NoHost, LL!NoFlow, LL!Evals

(* What a step of the host writes, and what one of a container does.         *)
LEMMA HostWrites ==
  ASSUME LibreTyped, NEW pc \in {"wait", "place", "write", "drain"}, LL!Host(pc)
  PROVE  /\ host' \in [pc: {"idle", "launch", "wait", "place", "write", "drain"}, alone: BOOLEAN]
         /\ host'.pc = pc /\ host'.alone = host.alone
BY DEF LibreTyped, LL!Host

LEMMA ContainerWrites ==
  ASSUME LibreTyped, NEW n \in LL!Evals, NEW r \in FlowRec, container' = [container EXCEPT ![n] = r]
  PROVE  container' \in [LL!Evals -> FlowRec] /\ container'[n] = r /\ \A m \in LL!Evals \ {n} : container'[m] = container[m]
BY DEF LibreTyped

LEMMA ContainerGoes ==
  ASSUME LibreTyped, NEW n \in LL!Evals,
         NEW pc \in {"off", "run", "ask", "wait", "import", "end", "ended", "died"}, LL!Flow(n, pc)
  PROVE  /\ container' \in [LL!Evals -> FlowRec] /\ container'[n].pc = pc
         /\ \A m \in LL!Evals \ {n} : container'[m] = container[m]
<1> DEFINE r == [container[n] EXCEPT !.pc = pc]
<1>1. r \in FlowRec /\ r.pc = pc
  BY DEF LibreTyped, FlowRec
<1>2. container' = [container EXCEPT ![n] = r]
  BY DEF LL!Flow
<1> HIDE DEF r
<1> QED
  BY <1>1, <1>2, ContainerWrites

LEMMA ContainerEnds ==
  ASSUME LibreTyped, NEW n \in LL!Evals, NEW ok \in BOOLEAN, LL!End(n, ok)
  PROVE  /\ container' \in [LL!Evals -> FlowRec] /\ container'[n].pc = "end" /\ flow_done'.by = n
         /\ \A m \in LL!Evals \ {n} : container'[m] = container[m]
<1> DEFINE r == [container[n] EXCEPT !.pc = "end", !.ok = ok]
<1>1. r \in FlowRec /\ r.pc = "end"
  BY DEF LibreTyped, FlowRec
<1>2. container' = [container EXCEPT ![n] = r] /\ flow_done'.by = n
  BY DEF LL!End
<1> HIDE DEF r
<1> QED
  BY <1>1, <1>2, ContainerWrites

LEMMA HostKeepsOurs ==
  ASSUME Ours, LL!Clear \/ LL!HostStep \/ LL!KillHost
  PROVE  Ours'
<1>0. LibreTyped /\ NotBegun /\ OnlyOwn /\ OwnAnswer /\ LL!Evals = 1..MaxEvals /\ MaxEvals \in Nat
  BY LibreLaneAssumption DEF Ours, LL!Evals
<1>1. ASSUME NEW ok, NEW by \in {None, flow_done.by}, LL!Return(ok, by), host.pc # "idle",
             UNCHANGED <<container, flow_done, evals>>
      PROVE  Ours'
  <2>1. host' = [pc |-> "idle", alone |-> FALSE] /\ answer' = [ok |-> ok, by |-> by, own |-> evals, alone |-> host.alone]
    BY <1>1 DEF LL!Return, LL!NoHost
  <2>2. LibreTyped' /\ NotBegun' /\ OnlyOwn'
    BY <1>0, <1>1, <2>1 DEF LibreTyped, NotBegun, OnlyOwn
  <2>3. OwnAnswer'
    BY <1>0, <1>1, <2>1 DEF OwnAnswer, LL!OwnAnswer, OnlyOwn
  <2> QED BY <2>2, <2>3 DEF Ours
<1>2. ASSUME NEW pc \in {"place", "write", "drain"}, LL!Host(pc), host.pc \notin {"idle", "launch"},
             UNCHANGED <<container, flow_done, evals, answer>>
      PROVE  Ours'
  <2>1. /\ host' \in [pc: {"idle", "launch", "wait", "place", "write", "drain"}, alone: BOOLEAN]
        /\ host'.pc = pc /\ host'.alone = host.alone
    BY <1>0, <1>2, HostWrites
  <2> QED BY <1>0, <1>2, <2>1 DEF Ours, LibreTyped, NotBegun, OnlyOwn, OwnAnswer, LL!OwnAnswer, LL!Running
<1>3. CASE LL!Clear
  <2>1. /\ host.pc = "idle" /\ evals < MaxEvals /\ evals' = evals + 1 /\ flow_done'.by = None
        /\ container' = container /\ answer' = answer
        /\ host' = [pc |-> "launch", alone |-> \A n \in LL!Evals : ~LL!Running(n)]
    BY <1>3 DEF LL!Clear, LL!NoFile
  <2>2. host'.pc = "launch" /\ host'.alone \in BOOLEAN /\ (host'.alone => \A n \in LL!Evals : ~LL!Running(n))
    BY <2>1
  <2>3. host' \in [pc: {"idle", "launch", "wait", "place", "write", "drain"}, alone: BOOLEAN]
    BY <2>1
  <2>4. LibreTyped'
    BY <1>0, <2>1, <2>3 DEF LibreTyped
  <2>5. NotBegun'
    BY <1>0, <2>1, <2>2 DEF NotBegun, LibreTyped
  <2>6. OnlyOwn' /\ OwnAnswer'
    BY <1>0, <2>1, <2>2 DEF OnlyOwn, OwnAnswer, LL!OwnAnswer, LL!Running
  <2> QED BY <2>4, <2>5, <2>6 DEF Ours
<1>4. CASE LL!Launch
  <2>1. host.pc = "launch" /\ LL!Host("wait") /\ LL!Flow(evals, "run") /\ UNCHANGED <<flow_done, evals, answer>>
    BY <1>4 DEF LL!Launch, LL!files
  <2>2. evals \in LL!Evals
    BY <1>0, <2>1 DEF NotBegun
  <2>3. /\ container' \in [LL!Evals -> FlowRec]
        /\ \A m \in LL!Evals \ {evals} : container'[m] = container[m]
    BY <1>0, <2>1, <2>2, ContainerGoes
  <2>4. /\ host' \in [pc: {"idle", "launch", "wait", "place", "write", "drain"}, alone: BOOLEAN]
        /\ host'.pc = "wait" /\ host'.alone = host.alone
    BY <1>0, <2>1, HostWrites
  <2>5. LibreTyped' /\ NotBegun'
    BY <1>0, <2>1, <2>2, <2>3, <2>4 DEF LibreTyped, NotBegun
  <2>6. OnlyOwn' /\ OwnAnswer'
    BY <1>0, <2>1, <2>3, <2>4 DEF OnlyOwn, OwnAnswer, LL!OwnAnswer, LL!Running
  <2> QED BY <2>5, <2>6 DEF Ours
<1>5. CASE LL!Poll
  BY <1>1, <1>2, <1>5 DEF LL!Poll, LL!files
<1>6. CASE LL!Decide
  BY <1>1, <1>2, <1>6 DEF LL!Decide
<1>7. CASE LL!Decided
  BY <1>2, <1>7 DEF LL!Decided
<1>8. CASE LL!Conclude
  BY <1>1, <1>8 DEF LL!Conclude, LL!files
<1>9. CASE LL!KillHost
  <2>1. host' = [pc |-> "idle", alone |-> FALSE] /\ UNCHANGED <<container, flow_done, evals, answer>>
    BY <1>9 DEF LL!KillHost, LL!NoHost, LL!files
  <2> QED BY <1>0, <2>1 DEF Ours, LibreTyped, NotBegun, OnlyOwn, OwnAnswer, LL!OwnAnswer
<1> QED
  BY <1>3, <1>4, <1>5, <1>6, <1>7, <1>8, <1>9 DEF LL!HostStep

(* A container that runs was begun, and is the evaluation's own if it found  *)
(* none running.                                                             *)
LEMMA FlowKeepsOurs ==
  ASSUME Ours, NEW n \in LL!Evals, LL!FlowStep(n) \/ LL!Log(n) \/ LL!KillFlow(n)
  PROVE  Ours'
<1>0. LibreTyped /\ NotBegun /\ OnlyOwn /\ OwnAnswer
  BY DEF Ours
<1>1. UNCHANGED <<host, evals, answer>> /\ LL!Running(n)
  BY DEF LL!FlowStep, LL!WriteRequest, LL!ReadDone, LL!FlowEnds, LL!FlowWrites, LL!Log, LL!KillFlow, LL!files,
         LL!Running
<1>2. /\ container' \in [LL!Evals -> FlowRec] /\ \A m \in LL!Evals \ {n} : container'[m] = container[m]
      /\ flow_done' = flow_done \/ flow_done'.by = n
  <2>1. CASE \E pc \in {"ask", "wait", "import", "ended", "died"} : LL!Flow(n, pc)
    <3>1. flow_done' = flow_done \/ flow_done'.by = n
      <4>1. CASE LL!WriteRequest(n) \/ LL!Log(n) \/ LL!KillFlow(n)
        BY <4>1 DEF LL!WriteRequest, LL!Log, LL!KillFlow, LL!files
      <4>2. CASE LL!ReadDone(n) \/ LL!FlowEnds(n)
        <5>1. flow_done' = flow_done \/ \E ok \in BOOLEAN : LL!End(n, ok)
          BY <4>2 DEF LL!ReadDone, LL!FlowEnds
        <5>2. ASSUME NEW ok \in BOOLEAN, LL!End(n, ok)
              PROVE  flow_done'.by = n
          BY <5>2 DEF LL!End
        <5> QED BY <5>1, <5>2
      <4>3. CASE LL!FlowWrites(n)
        BY <4>3 DEF LL!FlowWrites
      <4> QED BY <4>1, <4>2, <4>3 DEF LL!FlowStep
    <3> QED BY <1>0, <2>1, <3>1, ContainerGoes
  <2>2. CASE \E ok \in BOOLEAN : LL!End(n, ok)
    BY <1>0, <2>2, ContainerEnds
  <2>3. CASE LL!Log(n)
    <3> DEFINE r == [container[n] EXCEPT !.pipe = @ + 1]
    <3>1. r \in FlowRec
      BY <1>0 DEF LibreTyped, FlowRec
    <3>2. container' = [container EXCEPT ![n] = r] /\ flow_done' = flow_done
      BY <2>3 DEF LL!Log, LL!files
    <3> HIDE DEF r
    <3> QED BY <1>0, <3>1, <3>2, ContainerWrites
  <2> QED BY <2>1, <2>2, <2>3 DEF LL!FlowStep, LL!WriteRequest, LL!ReadDone, LL!FlowEnds, LL!FlowWrites, LL!KillFlow
<1>3. LibreTyped'
  BY <1>0, <1>1, <1>2 DEF LibreTyped
<1>4. NotBegun'
  <2>1. ~(n > evals \/ (host.pc = "launch" /\ n = evals))
    BY <1>0, <1>1 DEF NotBegun, LL!Running
  <2> QED BY <1>0, <1>1, <1>2, <2>1 DEF NotBegun
<1>5. OnlyOwn'
  <2>1. host.pc # "idle" /\ host.alone => n = evals
    BY <1>0, <1>1 DEF OnlyOwn
  <2> QED BY <1>0, <1>1, <1>2, <2>1 DEF OnlyOwn, LL!Running
<1>6. OwnAnswer'
  BY <1>0, <1>1 DEF OwnAnswer, LL!OwnAnswer
<1> QED
  BY <1>3, <1>4, <1>5, <1>6 DEF Ours

(* librelane_handoff.py:104-106: an evaluation that found no container of an *)
(* earlier one running is answered by its own container or by nobody.        *)
THEOREM OwnAnswerAlways == NodeSpec => []OwnAnswer
<1>1. Ours /\ [NodeNext]_vars => Ours'
  <2>1. SUFFICES ASSUME Ours, [NodeNext]_vars
                 PROVE  Ours'
    OBVIOUS
  <2>2. CASE UNCHANGED libreVars
    BY <2>1, <2>2 DEF libreVars, Ours, LibreTyped, NotBegun, OnlyOwn, OwnAnswer, LL!OwnAnswer, LL!Running
  <2>3. CASE LL!LibreLaneNext
    BY <2>1, <2>3, HostKeepsOurs, FlowKeepsOurs DEF LL!LibreLaneNext
  <2> QED BY <2>1, <2>2, <2>3 DEF NodeNext, Raw, Libre, vars
<1>2. Ours => OwnAnswer
  BY DEF Ours
<1> QED
  BY <1>1, <1>2, InitOurs, PTL DEF NodeSpec

-----------------------------------------------------------------------------
(* The parts of a procedure, and what is off that an option excludes.       *)
LEMMA ProcedureHas ==
  ASSUME NEW o
  PROVE  /\ Procedure(o).branch = Branch(o) /\ Procedure(o).weights = Weights(o)
         /\ Procedure(o).repairs = IF Branch(o) = "rebuf" THEN <<o.stops, o.rebuf_full, o.rebuf_presplit>> ELSE <<>>
         /\ Procedure(o).finish = IF Branch(o) = "finish" THEN <<o.rp_args>> ELSE <<>>
         /\ Procedure(o).timer = (Branch(o) = "plain" /\ o.timing_driven)
         /\ Procedure(o).routability = o.dp_routability
PROOF
  BY DEF Procedure

LEMMA BranchIs ==
  ASSUME NEW o \in Options
  PROVE  /\ (Branch(o) = "rebuf") = o.rebuffer
         /\ Accepts(o) => /\ (Branch(o) = "finish") = (o.rp_finish # "none")
                          /\ o.timing_driven => Branch(o) = "plain"
                          /\ (Branch(o) = "netwt") = (o.net_weight # "none" /\ ~o.rebuffer)
PROOF
  <1>1. o.rebuffer \in BOOLEAN /\ o.timing_driven \in BOOLEAN
    BY DEF Options
  <1>2. Accepts(o) => /\ o.rebuffer => ~o.timing_driven /\ o.rp_finish = "none"
                      /\ o.rp_finish # "none" => o.net_weight = "none" /\ ~o.timing_driven
                      /\ o.net_weight # "none" => ~o.timing_driven
    BY <1>1 DEF Accepts
  <1> HIDE DEF Options
  <1> QED
    BY <1>1, <1>2 DEF Branch

LEMMA WeightsAre ==
  ASSUME NEW o \in Options, Accepts(o)
  PROVE  Weights(o) = IF o.net_weight = "none" THEN <<"none">>
                      ELSE IF ~o.rebuffer THEN <<"rounds", GpRounds(o), o.netwt_repair, GpRounds(o) > 1 /\ o.netwt_compound>>
                      ELSE IF o.netwt_scheme = "gpl" THEN <<"gpl">> ELSE <<"static", o.netwt_repair>>
PROOF
  <1>1. /\ o.rebuffer => o.net_weight \in {"none", "static"}
        /\ o.netwt_scheme = "gpl" => o.rebuffer /\ o.net_weight = "static"
    BY DEF Accepts, Options
  <1>2. (Branch(o) = "rebuf") = o.rebuffer /\ (Branch(o) = "netwt") = (o.net_weight # "none" /\ ~o.rebuffer)
          /\ o.rebuffer \in BOOLEAN
    BY BranchIs DEF Options
  <1>3. Branch(o) = "rebuf" => Branch(o) # "netwt"
    OBVIOUS
  <1> HIDE DEF Options
  <1>4. CASE o.net_weight = "none"
    BY <1>1, <1>2, <1>4 DEF Weights
  <1>5. CASE o.net_weight # "none" /\ ~o.rebuffer
    <2>1. Branch(o) = "netwt"
      BY <1>2, <1>5
    <2> QED
      BY <1>5, <2>1 DEF Weights
  <1>6. CASE o.net_weight # "none" /\ o.rebuffer
    <2>1. Branch(o) = "rebuf" /\ o.net_weight = "static"
      BY <1>1, <1>2, <1>6
    <2>2. CASE o.netwt_scheme = "gpl"
      BY <1>6, <2>1, <2>2 DEF Weights
    <2>3. CASE o.netwt_scheme # "gpl"
      BY <1>6, <2>1, <2>3 DEF Weights
    <2> QED
      BY <2>2, <2>3
  <1> QED
    BY <1>4, <1>5, <1>6

(* No mode of an accepted combination can be taken away unnoticed.          *)
LEMMA Honoured == OptionsHonoured
PROOF
  <1> SUFFICES ASSUME NEW o \in Accepted, NEW q \in Without(o) \ {o} PROVE Procedure(q) # Procedure(o)
    BY DEF OptionsHonoured
  <1>0. o \in Options /\ Accepts(o)
    BY DEF Accepted
  <1>b. /\ (Branch(o) = "rebuf") = o.rebuffer
        /\ (Branch(o) = "finish") = (o.rp_finish # "none")
        /\ o.timing_driven => Branch(o) = "plain"
    BY <1>0, BranchIs
  <1>1. CASE q = [o EXCEPT !.rebuf_full = FALSE] \/ q = [o EXCEPT !.rebuf_presplit = FALSE]
    <2>1. q \in Options /\ q.rebuffer = o.rebuffer
      BY <1>0, <1>1 DEF Options
    <2>2. (o.rebuf_full /\ ~q.rebuf_full) \/ (o.rebuf_presplit /\ ~q.rebuf_presplit)
      <3>1. CASE q = [o EXCEPT !.rebuf_full = FALSE]
        BY <1>0, <3>1 DEF Options
      <3>2. CASE q = [o EXCEPT !.rebuf_presplit = FALSE]
        BY <1>0, <3>2 DEF Options
      <3> QED
        BY <1>1, <3>1, <3>2
    <2>3. o.rebuffer
      BY <1>0, <2>2 DEF Accepts
    <2>4. Branch(o) = "rebuf" /\ Branch(q) = "rebuf"
      BY <1>0, <2>1, <2>3, BranchIs
    <2>5. /\ Procedure(o).repairs = <<o.stops, o.rebuf_full, o.rebuf_presplit>>
          /\ Procedure(q).repairs = <<q.stops, q.rebuf_full, q.rebuf_presplit>>
      BY <2>4, ProcedureHas
    <2>6. <<o.stops, o.rebuf_full, o.rebuf_presplit>> # <<q.stops, q.rebuf_full, q.rebuf_presplit>>
      BY <2>2
    <2> QED
      BY <2>5, <2>6
  <1>2. CASE q = [o EXCEPT !.timing_driven = FALSE]
    <2>1. o.timing_driven /\ ~q.timing_driven
      BY <1>0, <1>2 DEF Options
    <2>2. Procedure(o).timer /\ ~Procedure(q).timer
      BY <1>b, <2>1, ProcedureHas
    <2> QED
      BY <2>2
  <1>3. CASE q = [o EXCEPT !.dp_routability = FALSE]
    <2>1. q.dp_routability # o.dp_routability
      BY <1>0, <1>3 DEF Options
    <2> QED
      BY <2>1, ProcedureHas
  <1>4. CASE q = [o EXCEPT !.net_weight = "none", !.netwt_scheme = "lilith"]
    <2>1. q \in Options /\ q.rebuffer = o.rebuffer /\ q.net_weight = "none" /\ q.netwt_scheme = "lilith"
            /\ q.rp_finish = o.rp_finish /\ q.timing_driven = o.timing_driven
            /\ q.rebuf_full = o.rebuf_full /\ q.rebuf_presplit = o.rebuf_presplit /\ q.rp_args = o.rp_args
      BY <1>0, <1>4 DEF Options
    <2>2. Accepts(q)
      BY <1>0, <2>1 DEF Accepts
    <2>3. o.net_weight # "none"
      BY <1>0, <1>4 DEF Accepts, Options
    <2>4. Weights(q) = <<"none">>
      BY <2>1, <2>2, WeightsAre
    <2>5. Weights(o) # <<"none">>
      BY <1>0, <2>3, WeightsAre
    <2> QED
      BY <2>4, <2>5, ProcedureHas
  <1>5. CASE q = [o EXCEPT !.netwt_scheme = "lilith"]
    <2>1. q \in Options /\ q.rebuffer = o.rebuffer /\ q.net_weight = o.net_weight /\ q.netwt_scheme = "lilith"
            /\ q.rp_finish = o.rp_finish /\ q.timing_driven = o.timing_driven /\ q.netwt_rounds = o.netwt_rounds
            /\ q.rebuf_full = o.rebuf_full /\ q.rebuf_presplit = o.rebuf_presplit /\ q.rp_args = o.rp_args
      BY <1>0, <1>5 DEF Options
    <2>2. Accepts(q)
      BY <1>0, <2>1 DEF Accepts
    <2>3. o.netwt_scheme = "gpl" /\ o.rebuffer /\ o.net_weight = "static"
      BY <1>0, <1>5 DEF Accepts, Options
    <2>4. Weights(q) = <<"static", q.netwt_repair>>
      BY <2>1, <2>2, <2>3, WeightsAre
    <2>5. Weights(o) = <<"gpl">>
      BY <1>0, <2>3, WeightsAre
    <2>6. Weights(q) # Weights(o)
      BY <2>4, <2>5
    <2> QED
      BY <2>6, ProcedureHas
  <1>6. CASE q = [o EXCEPT !.rp_finish = "none", !.rp_args = FALSE]
    <2>1. o.rp_finish # "none" /\ q.rp_finish = "none"
      BY <1>0, <1>6 DEF Accepts, Options
    <2>2. Branch(o) = "finish" /\ Branch(q) # "finish"
      BY <1>b, <2>1 DEF Branch
    <2> QED
      BY <2>2, ProcedureHas
  <1>7. CASE q = [o EXCEPT !.rp_args = FALSE]
    <2>1. o.rp_args /\ ~q.rp_args /\ q.rp_finish = o.rp_finish /\ q.rebuffer = o.rebuffer
      BY <1>0, <1>7 DEF Options
    <2>2. o.rp_finish # "none" /\ ~o.rebuffer
      BY <1>0, <2>1 DEF Accepts
    <2>3. Branch(o) = "finish" /\ Branch(q) = "finish"
      BY <2>1, <2>2 DEF Branch
    <2>4. Procedure(o).finish = <<o.rp_args>> /\ Procedure(q).finish = <<q.rp_args>>
      BY <2>3, ProcedureHas
    <2>5. <<o.rp_args>> # <<q.rp_args>>
      BY <2>1
    <2> QED
      BY <2>4, <2>5
  <1> QED
    BY <1>1, <1>2, <1>3, <1>4, <1>5, <1>6, <1>7 DEF Without

(* Options that share a fingerprint share what is done.                     *)
LEMMA FingerprintTells ==
  ASSUME NEW o \in Accepted, NEW q \in Accepted, Fingerprint(o) = Fingerprint(q)
  PROVE  Procedure(o) = Procedure(q)
PROOF
  <1>1. o \in Options /\ Accepts(o) /\ q \in Options /\ Accepts(q)
    BY DEF Accepted
  <1>2. /\ o.timing_driven = q.timing_driven /\ o.dp_depth = q.dp_depth /\ o.dp_routability = q.dp_routability
        /\ RebufferPart(o) = RebufferPart(q) /\ NetWeightPart(o) = NetWeightPart(q)
        /\ (o.rp_finish # "none") = (q.rp_finish # "none")
        /\ o.rp_finish # "none" => o.rp_args = q.rp_args
    BY <1>1 DEF Fingerprint, Options
  <1>3. o.rebuffer = q.rebuffer /\ (o.rebuffer => o.stops = q.stops /\ o.rebuf_full = q.rebuf_full /\ o.rebuf_presplit = q.rebuf_presplit)
    BY <1>1, <1>2 DEF RebufferPart, Options
  <1>4. /\ o.net_weight = q.net_weight
        /\ o.net_weight # "none" => /\ o.netwt_scheme = q.netwt_scheme
                                    /\ o.netwt_scheme = "lilith" => /\ GpRounds(o) = GpRounds(q)
                                                                    /\ o.netwt_repair = q.netwt_repair
                                                                    /\ o.netwt_compound = q.netwt_compound
    BY <1>1, <1>2 DEF NetWeightPart, Options
  <1>5. Branch(o) = Branch(q)
    BY <1>2, <1>3, <1>4 DEF Branch
  <1>6. Weights(o) = Weights(q)
    <2>1. (o.netwt_scheme # "gpl" => o.netwt_scheme = "lilith") /\ (o.netwt_scheme = "gpl" => o.rebuffer)
      BY <1>1 DEF Options, Accepts
    <2> QED
      BY <1>1, <1>3, <1>4, <2>1, WeightsAre
  <1>7. (Branch(o) = "rebuf") = o.rebuffer /\ (Branch(o) = "finish") = (o.rp_finish # "none")
    BY <1>1, BranchIs
  <1> QED
    BY <1>2, <1>3, <1>5, <1>6, <1>7 DEF Procedure

(* There are finitely many options: their fields fit into a product.        *)
LEMMA FewFields ==
  /\ IsFiniteSet(BOOLEAN) /\ IsFiniteSet({"none", "one", "two"}) /\ IsFiniteSet({"none", "static", "iterative"})
  /\ IsFiniteSet(1..3) /\ IsFiniteSet({"lilith", "gpl"}) /\ IsFiniteSet({"none", "early"})
  /\ IsFiniteSet({"global", "legal"})
PROOF
  <1>1. \A x, y : IsFiniteSet({x, y})
    <2>1. ASSUME NEW x, NEW y PROVE IsFiniteSet({x, y})
      <3>1. IsFiniteSet({x}) /\ {x, y} = {x} \cup {y}
        BY FS_Singleton
      <3> QED
        BY <3>1, FS_AddElement
    <2> QED
      BY <2>1
  <1>2. \A x, y, z : IsFiniteSet({x, y, z})
    <2>1. ASSUME NEW x, NEW y, NEW z PROVE IsFiniteSet({x, y, z})
      <3>1. IsFiniteSet({x, y}) /\ {x, y, z} = {x, y} \cup {z}
        BY <1>1
      <3> QED
        BY <3>1, FS_AddElement
    <2> QED
      BY <2>1
  <1>3. BOOLEAN = {TRUE, FALSE}
    OBVIOUS
  <1>4. IsFiniteSet(1..3)
    <2>1. 1 \in Int /\ 3 \in Int
      OBVIOUS
    <2> QED
      BY <2>1, FS_Interval
  <1> QED
    BY <1>1, <1>2, <1>3, <1>4

LEMMA OptionsFinite == IsFiniteSet(Accepted)
PROOF
  <1> DEFINE Two == BOOLEAN \X BOOLEAN
             Flags == (Two \X Two) \X (Two \X Two)
             stops == {"none", "one", "two"}
             weightings == {"none", "static", "iterative"}
             rounds == 1..3
             schemes == {"lilith", "gpl"}
             Words == (stops \X weightings) \X (rounds \X schemes)
             Ends == {"none", "early"} \X {"global", "legal"}
             All == Flags \X (Words \X Ends)
             flags(o) == <<<<<<o.rebuffer, o.rebuf_full>>, <<o.rebuf_presplit, o.timing_driven>>>>,
                           <<<<o.netwt_repair, o.netwt_compound>>, <<o.rp_args, o.dp_routability>>>>>>
             words(o) == <<<<o.stops, o.net_weight>>, <<o.netwt_rounds, o.netwt_scheme>>>>
             last(o) == <<o.rp_finish, o.dp_depth>>
             f == [o \in Options |-> <<flags(o), <<words(o), last(o)>>>>]
  <1>1. IsFiniteSet(All)
    <2>1. IsFiniteSet(Two)
      BY FewFields, FS_Product
    <2>2. IsFiniteSet(Two \X Two)
      BY <2>1, FS_Product
    <2>3. IsFiniteSet(Flags)
      BY <2>2, FS_Product
    <2>4. IsFiniteSet(stops \X weightings) /\ IsFiniteSet(rounds \X schemes)
      <3>1. IsFiniteSet(stops) /\ IsFiniteSet(weightings) /\ IsFiniteSet(rounds) /\ IsFiniteSet(schemes)
        BY FewFields
      <3> HIDE DEF stops, weightings, rounds, schemes
      <3> QED
        BY <3>1, FS_Product
    <2>5. IsFiniteSet(Words) /\ IsFiniteSet(Ends)
      BY <2>4, FewFields, FS_Product
    <2> QED
      BY <2>3, <2>5, FS_Product
  <1>2. ASSUME NEW o \in Options
        PROVE  flags(o) \in Flags /\ words(o) \in Words /\ last(o) \in Ends
    <2>1. flags(o) \in Flags
      <3>1. /\ o.rebuffer \in BOOLEAN /\ o.rebuf_full \in BOOLEAN /\ o.rebuf_presplit \in BOOLEAN
            /\ o.timing_driven \in BOOLEAN /\ o.netwt_repair \in BOOLEAN /\ o.netwt_compound \in BOOLEAN
            /\ o.rp_args \in BOOLEAN /\ o.dp_routability \in BOOLEAN
        BY <1>2 DEF Options
      <3>2. \A a \in BOOLEAN, b \in BOOLEAN : <<a, b>> \in Two
        OBVIOUS
      <3> HIDE DEF Two
      <3>3. \A a \in Two, b \in Two, c \in Two, d \in Two : <<<<a, b>>, <<c, d>>>> \in Flags
        OBVIOUS
      <3> HIDE DEF Flags
      <3>4. /\ <<o.rebuffer, o.rebuf_full>> \in Two /\ <<o.rebuf_presplit, o.timing_driven>> \in Two
            /\ <<o.netwt_repair, o.netwt_compound>> \in Two /\ <<o.rp_args, o.dp_routability>> \in Two
        BY <3>1, <3>2
      <3> QED
        BY <3>3, <3>4
    <2>2. words(o) \in Words
      BY <1>2 DEF Options
    <2>3. last(o) \in Ends
      BY <1>2 DEF Options
    <2> QED
      BY <2>1, <2>2, <2>3
  <1>3. ASSUME NEW o \in Options, NEW q \in Options, flags(o) = flags(q), words(o) = words(q), last(o) = last(q)
        PROVE  o = q
    <2>1. /\ o.rebuffer = q.rebuffer /\ o.rebuf_full = q.rebuf_full /\ o.rebuf_presplit = q.rebuf_presplit
          /\ o.timing_driven = q.timing_driven /\ o.netwt_repair = q.netwt_repair
          /\ o.netwt_compound = q.netwt_compound /\ o.rp_args = q.rp_args /\ o.dp_routability = q.dp_routability
      BY <1>3
    <2>2. /\ o.stops = q.stops /\ o.net_weight = q.net_weight /\ o.netwt_rounds = q.netwt_rounds
          /\ o.netwt_scheme = q.netwt_scheme /\ o.rp_finish = q.rp_finish /\ o.dp_depth = q.dp_depth
      BY <1>3
    <2> HIDE DEF flags, words, last
    <2> QED
      BY <2>1, <2>2 DEF Options
  <1> HIDE DEF Flags, Words, Ends, flags, words, last
  <1>4. f \in [Options -> All]
    BY <1>2
  <1>5. ASSUME NEW o \in Options, NEW q \in Options, f[o] = f[q]
        PROVE  o = q
    BY <1>3, <1>5
  <1> HIDE DEF f, All
  <1>6. f \in Injection(Options, All)
    BY <1>4, <1>5 DEF Injection, IsInjective
  <1>7. IsFiniteSet(Options)
    BY <1>1, <1>6, FS_Injection
  <1> QED
    BY <1>7, FS_Subset DEF Accepted

LEMMA Separates == FingerprintSeparates
PROOF
  <1> DEFINE S == {Fingerprint(o) : o \in Accepted}
             T == {<<Fingerprint(o), Procedure(o)>> : o \in Accepted}
             g == [t \in T |-> t[1]]
             h == [o \in Accepted |-> <<Fingerprint(o), Procedure(o)>>]
  <1>1. IsFiniteSet(T)
    <2>1. h \in [Accepted -> T] /\ \A t \in T : \E o \in Accepted : h[o] = t
      OBVIOUS
    <2>2. h \in Surjection(Accepted, T)
      <3> HIDE DEF h, T
      <3> QED
        BY <2>1 DEF Surjection
    <2> HIDE DEF h, T
    <2> QED
      BY <2>2, OptionsFinite, FS_Surjection
  <1>2. g \in [T -> S]
    OBVIOUS
  <1>3. ASSUME NEW s \in S PROVE \E t \in T : g[t] = s
    <2>1. PICK o \in Accepted : s = Fingerprint(o)
      OBVIOUS
    <2>2. <<s, Procedure(o)>> \in T /\ g[<<s, Procedure(o)>>] = s
      BY <2>1
    <2> QED
      BY <2>2
  <1>4. ASSUME NEW t \in T, NEW u \in T, g[t] = g[u] PROVE t = u
    <2>1. PICK o \in Accepted : t = <<Fingerprint(o), Procedure(o)>>
      OBVIOUS
    <2>2. PICK q \in Accepted : u = <<Fingerprint(q), Procedure(q)>>
      OBVIOUS
    <2>3. Fingerprint(o) = Fingerprint(q)
      BY <1>4, <2>1, <2>2
    <2> QED
      BY <2>1, <2>2, <2>3, FingerprintTells
  <1>5. Cardinality(S) = Cardinality(T)
    <2> HIDE DEF S, T, g
    <2>1. g \in Bijection(T, S)
      BY <1>2, <1>3, <1>4 DEF Bijection, Injection, Surjection, IsInjective
    <2>2. ExistsBijection(T, S)
      BY <2>1 DEF ExistsBijection
    <2> QED
      BY <1>1, <2>2, FS_Bijection
  <1> QED
    BY <1>5 DEF FingerprintSeparates

(* A value of the knob becomes a choice, and a choice keeps its value.      *)
LEMMA ChoicesAre == DOMAIN RebufStops = 1..6 /\ \A c \in Range(RebufStops) : c \in Seq(Nat) /\ c # <<>>
PROOF
  <1>1. DOMAIN RebufStops = 1..6
    BY DEF RebufStops
  <1>2. ASSUME NEW c \in Range(RebufStops)
        PROVE  c \in {<<6, 2>>, <<6, 4, 2>>, <<7, 3>>, <<5, 2>>, <<6>>, <<4>>}
    <2>1. PICK i \in 1..6 : c = RebufStops[i]
      BY <1>1 DEF Range
    <2> QED
      BY <2>1 DEF RebufStops
  <1>3. /\ <<6, 2>> \in Seq(Nat) /\ <<6, 4, 2>> \in Seq(Nat) /\ <<7, 3>> \in Seq(Nat)
        /\ <<5, 2>> \in Seq(Nat) /\ <<6>> \in Seq(Nat) /\ <<4>> \in Seq(Nat)
    OBVIOUS
  <1>4. ASSUME NEW c \in Range(RebufStops)
        PROVE  c \in Seq(Nat)
    BY <1>2, <1>3, Zenon
  <1>5. <<>> \notin {<<6, 2>>, <<6, 4, 2>>, <<7, 3>>, <<5, 2>>, <<6>>, <<4>>}
    OBVIOUS
  <1> QED
    BY <1>1, <1>2, <1>4, <1>5

LEMMA Measured ==
  ASSUME NEW i \in 1..6, NEW v \in Seq(Nat)
  PROVE  Length(RebufStops[i], v) \in Nat /\ FarIn(RebufStops[i], v) \in Nat
PROOF
  <1>1. RebufStops[i] \in Seq(Nat)
    BY ChoicesAre DEF Range
  <1>2. \A x, y \in Nat : Apart(x, y) \in Nat
    BY DEF Apart
  <1>3. \A k \in DOMAIN v : v[k] \in Nat
    OBVIOUS
  <1>4. \A k \in DOMAIN RebufStops[i] : RebufStops[i][k] \in Nat
    BY <1>1
  <1>5. \A k : Gap(RebufStops[i], v, k) \in Nat
    BY <1>2, <1>3, <1>4 DEF Gap
  <1>6. Length(RebufStops[i], v) \in Nat
    <2>1. Len(RebufStops[i]) \in Nat /\ Len(v) \in Nat
      BY <1>1
    <2> QED
      BY <1>2, <2>1 DEF Length
  <1> QED
    BY <1>5, <1>6 DEF FarIn

LEMMA NearestExists ==
  ASSUME NEW v \in Seq(Nat)
  PROVE  \E i \in 1..6 : \A j \in 1..6 : Before(i, j, v)
PROOF
  <1>1. \A i \in 1..6 : Length(RebufStops[i], v) \in Nat /\ FarIn(RebufStops[i], v) \in Nat
    BY Measured
  <1> DEFINE L(i) == Length(RebufStops[i], v)
             F(i) == FarIn(RebufStops[i], v)
  <1>b. \A i, j \in 1..6 : Before(i, j, v) <=> \/ L(i) < L(j)
                                              \/ (L(i) = L(j) /\ F(i) < F(j))
                                              \/ (L(i) = L(j) /\ F(i) = F(j) /\ i <= j)
    BY Zenon DEF Before, L, F
  <1>t. \A i \in 1..6 : L(i) \in Nat /\ F(i) \in Nat
    BY <1>1
  <1> HIDE DEF L, F
  <1>2. ASSUME NEW i \in 1..6, NEW j \in 1..6 PROVE Before(i, j, v) \/ Before(j, i, v)
    <2>1. L(i) \in Nat /\ L(j) \in Nat /\ F(i) \in Nat /\ F(j) \in Nat
      BY <1>t
    <2>2. L(i) < L(j) \/ L(j) < L(i) \/ L(i) = L(j)
      BY <2>1
    <2>3. F(i) < F(j) \/ F(j) < F(i) \/ F(i) = F(j)
      BY <2>1
    <2>4. i <= j \/ j <= i
      OBVIOUS
    <2> QED
      BY <1>b, <2>2, <2>3, <2>4
  <1>3. ASSUME NEW i \in 1..6, NEW j \in 1..6, NEW k \in 1..6, Before(i, j, v), Before(j, k, v)
        PROVE  Before(i, k, v)
    <2>1. /\ L(i) \in Nat /\ L(j) \in Nat /\ L(k) \in Nat
          /\ F(i) \in Nat /\ F(j) \in Nat /\ F(k) \in Nat
      BY <1>t
    <2>2. L(i) < L(j) \/ (L(i) = L(j) /\ F(i) < F(j)) \/ (L(i) = L(j) /\ F(i) = F(j) /\ i <= j)
      BY <1>3, <1>b
    <2>3. L(j) < L(k) \/ (L(j) = L(k) /\ F(j) < F(k)) \/ (L(j) = L(k) /\ F(j) = F(k) /\ j <= k)
      BY <1>3, <1>b
    <2>4. L(i) < L(k) \/ (L(i) = L(k) /\ F(i) < F(k)) \/ (L(i) = L(k) /\ F(i) = F(k) /\ i <= k)
      BY <2>1, <2>2, <2>3
    <2> QED
      BY <1>b, <2>4
  <1> DEFINE First(i, n) == \A j \in 1..n : Before(i, j, v)
  <1>4. ASSUME NEW n \in 1..5, NEW i \in 1..n, First(i, n)
        PROVE  \E k \in 1..(n + 1) : First(k, n + 1)
    <2>0. i \in 1..6 /\ n + 1 \in 1..6 /\ 1..(n + 1) = 1..n \cup {n + 1} /\ \A j \in 1..n : j \in 1..6
      OBVIOUS
    <2>1. CASE Before(i, n + 1, v)
      <3>1. First(i, n + 1)
        BY <1>4, <2>0, <2>1
      <3> QED
        BY <2>0, <3>1
    <2>2. CASE ~Before(i, n + 1, v)
      <3>1. Before(n + 1, i, v) /\ Before(n + 1, n + 1, v)
        BY <1>2, <2>0, <2>2
      <3>2. First(n + 1, n + 1)
        BY <1>3, <1>4, <2>0, <3>1
      <3> QED
        BY <2>0, <3>2
    <2> QED
      BY <2>1, <2>2
  <1>5. First(1, 1)
    BY <1>2
  <1> HIDE DEF First
  <1>6. \A n \in 1..5 : (\E i \in 1..n : First(i, n)) => \E k \in 1..(n + 1) : First(k, n + 1)
    BY <1>4
  <1>7. \E k \in 1..6 : First(k, 6)
    <2>1. \E k \in 1..2 : First(k, 2)
      BY <1>5, <1>6
    <2>2. \E k \in 1..3 : First(k, 3)
      BY <1>6, <2>1
    <2>3. \E k \in 1..4 : First(k, 4)
      BY <1>6, <2>2
    <2>4. \E k \in 1..5 : First(k, 5)
      BY <1>6, <2>3
    <2> QED
      BY <1>6, <2>4
  <1> QED
    BY <1>7 DEF First

LEMMA Snaps == ASSUME NEW v \in Seq(Nat) PROVE Snap(v) \in Range(RebufStops) /\ Snap(Snap(v)) = Snap(v)
PROOF
  <1>1. \A i \in 1..6 : RebufStops[i] \in Range(RebufStops)
    BY ChoicesAre DEF Range
  <1>2. Snap(v) \in Range(RebufStops)
    <2>1. CASE v \in Range(RebufStops)
      BY <2>1 DEF Snap
    <2>2. CASE v \notin Range(RebufStops) /\ v = <<>>
      <3>1. Snap(v) = RebufStops[1]
        BY <2>2 DEF Snap, DefaultStop
      <3> QED
        BY <1>1, <3>1
    <2>3. CASE v \notin Range(RebufStops) /\ v # <<>>
      <3> DEFINE i == CHOOSE i \in 1..6 : \A j \in 1..6 : Before(i, j, v)
      <3>1. i \in 1..6
        BY NearestExists
      <3>2. Snap(v) = RebufStops[i]
        BY <2>3, ChoicesAre DEF Snap
      <3> HIDE DEF i
      <3> QED
        BY <1>1, <3>1, <3>2
    <2> QED
      BY <2>1, <2>2, <2>3
  <1>3. \A c \in Range(RebufStops) : Snap(c) = c
    BY DEF Snap
  <1> QED
    BY <1>2, <1>3

(* The knobs have one default in both ranges, and a flow's range is within  *)
(* a placer's: what is clamped stays as it is.                              *)
LEMMA KnobsAre ==
  /\ Names = {"density_weight", "gamma", "learning_rate"}
  /\ \A n \in Names : /\ {KNOBS[n].lo, KNOBS[n].hi, KNOBS[n].default} \subseteq Nat
                      /\ {FLOW_KNOBS[n].lo, FLOW_KNOBS[n].hi, FLOW_KNOBS[n].default} \subseteq Nat
                      /\ KNOBS[n].lo <= FLOW_KNOBS[n].lo /\ FLOW_KNOBS[n].lo <= FLOW_KNOBS[n].default
                      /\ FLOW_KNOBS[n].default <= FLOW_KNOBS[n].hi /\ FLOW_KNOBS[n].hi <= KNOBS[n].hi
                      /\ KNOBS[n].default = FLOW_KNOBS[n].default
PROOF
  <1>1. Names = {"density_weight", "gamma", "learning_rate"}
    BY DEF Names, KNOBS
  <1>2. KNOBS["density_weight"] = Knob(10, 1000, 80) /\ FLOW_KNOBS["density_weight"] = Knob(20, 400, 80)
    BY DEF KNOBS, FLOW_KNOBS
  <1>3. KNOBS["gamma"] = Knob(2, 12, 4) /\ FLOW_KNOBS["gamma"] = Knob(2, 8, 4)
    BY DEF KNOBS, FLOW_KNOBS
  <1>4. KNOBS["learning_rate"] = Knob(4, 25, 10) /\ FLOW_KNOBS["learning_rate"] = Knob(4, 25, 10)
    BY DEF KNOBS, FLOW_KNOBS
  <1> QED
    BY <1>1, <1>2, <1>3, <1>4 DEF Knob

LEMMA ClampsAre ==
  ASSUME NEW p \in [Names -> Nat]
  PROVE  LET c == clamp_config(p, KNOBS)
             d == clamp_config(p, FLOW_KNOBS)
         IN  /\ c \in [Names -> Nat] /\ d \in [Names -> Nat]
             /\ clamp_config(c, KNOBS) = c /\ clamp_config(d, FLOW_KNOBS) = d /\ clamp_config(d, KNOBS) = d
PROOF
  <1> DEFINE c == clamp_config(p, KNOBS)
             d == clamp_config(p, FLOW_KNOBS)
  <1>1. ASSUME NEW n \in Names
        PROVE  /\ c[n] \in Nat /\ Clamp(c[n], KNOBS[n]) = c[n]
               /\ d[n] \in Nat /\ Clamp(d[n], FLOW_KNOBS[n]) = d[n] /\ Clamp(d[n], KNOBS[n]) = d[n]
    <2>1. c[n] = Clamp(p[n], KNOBS[n]) /\ d[n] = Clamp(p[n], FLOW_KNOBS[n]) /\ p[n] \in Nat
      BY DEF clamp_config
    <2> QED
      BY <2>1, KnobsAre DEF Clamp
  <1>2. c = [n \in Names |-> c[n]] /\ d = [n \in Names |-> d[n]]
    BY DEF clamp_config
  <1> HIDE DEF c, d
  <1>3. clamp_config(c, KNOBS) = c
    BY <1>1, <1>2 DEF clamp_config
  <1>4. clamp_config(d, FLOW_KNOBS) = d
    BY <1>1, <1>2 DEF clamp_config
  <1>5. clamp_config(d, KNOBS) = d
    BY <1>1, <1>2 DEF clamp_config
  <1>6. c \in [Names -> Nat] /\ d \in [Names -> Nat]
    BY <1>1, <1>2
  <1> QED
    BY <1>3, <1>4, <1>5, <1>6 DEF c, d

LEMMA DefaultsAre ==
  /\ default_config(KNOBS) \in [Names -> Nat] /\ default_config(FLOW_KNOBS) = default_config(KNOBS)
  /\ clamp_config(default_config(KNOBS), KNOBS) = default_config(KNOBS)
  /\ clamp_config(default_config(KNOBS), FLOW_KNOBS) = default_config(KNOBS)
PROOF
  <1> DEFINE d == default_config(KNOBS)
  <1>1. \A n \in Names : d[n] = KNOBS[n].default
    BY DEF default_config
  <1>2. d = [n \in Names |-> d[n]]
    BY DEF default_config
  <1>3. \A n \in Names : d[n] \in Nat /\ Clamp(d[n], KNOBS[n]) = d[n] /\ Clamp(d[n], FLOW_KNOBS[n]) = d[n]
    BY <1>1, KnobsAre DEF Clamp
  <1>4. default_config(FLOW_KNOBS) = d
    BY KnobsAre DEF default_config
  <1> HIDE DEF d
  <1>5. clamp_config(d, KNOBS) = d
    BY <1>2, <1>3 DEF clamp_config
  <1>6. clamp_config(d, FLOW_KNOBS) = d
    BY <1>2, <1>3 DEF clamp_config
  <1>7. d \in [Names -> Nat]
    BY <1>2, <1>3
  <1> QED
    BY <1>4, <1>5, <1>6, <1>7 DEF d

(* What clamping a flow leaves: its choice and its knobs stay as they are.  *)
SteadyFlow(g) ==
  /\ g = [stops |-> g.stops, dp |-> g.dp] /\ g # NoFlow
  /\ Snap(g.stops) = g.stops /\ clamp_config(g.dp, FLOW_KNOBS) = g.dp /\ clamp_config(g.dp, KNOBS) = g.dp
CallersFlows == {NoFlow} \cup [stops: Seq(Nat), dp: [Names -> Nat]]

LEMMA FlowClamped ==
  ASSUME NEW p \in [Names -> Nat], NEW f \in CallersFlows
  PROVE  /\ Request(p, f).placer = clamp_config(p, KNOBS)
         /\ f = NoFlow => Request(p, f).flow = NoFlow
         /\ f # NoFlow => SteadyFlow(Request(p, f).flow)
PROOF
  <1>1. CASE f = NoFlow
    BY <1>1 DEF Request
  <1>2. CASE f # NoFlow
    <2> DEFINE s == Snap(f.stops)
               d == clamp_config(f.dp, FLOW_KNOBS)
               g == [stops |-> s, dp |-> d]
    <2>1. f.stops \in Seq(Nat) /\ f.dp \in [Names -> Nat]
      BY <1>2 DEF CallersFlows
    <2>2. s \in Range(RebufStops) /\ Snap(s) = s
      BY <2>1, Snaps
    <2>3. s # <<>>
      BY <2>2, ChoicesAre
    <2>4. clamp_config(d, FLOW_KNOBS) = d /\ clamp_config(d, KNOBS) = d
      BY <2>1, ClampsAre
    <2>5. Request(p, f) = [placer |-> clamp_config(p, KNOBS), flow |-> g]
      BY <1>2 DEF Request
    <2> HIDE DEF s, d
    <2>6. g.stops = s /\ g.dp = d /\ NoFlow.stops = <<>>
      BY DEF NoFlow
    <2>7. SteadyFlow(g)
      <3> HIDE DEF g
      <3>1. g # NoFlow
        BY <2>3, <2>6
      <3>2. g = [stops |-> g.stops, dp |-> g.dp]
        BY <2>6 DEF g
      <3> QED
        BY <2>2, <2>4, <2>6, <3>1, <3>2 DEF SteadyFlow
    <2> HIDE DEF g
    <2> QED
      BY <1>2, <2>5, <2>7
  <1> QED
    BY <1>1, <1>2

(* A steady flow comes through every clamping and every evaluator unchanged. *)
LEMMA SteadyKept ==
  ASSUME NEW p, NEW g, SteadyFlow(g)
  PROVE  /\ Request(p, g) = [placer |-> clamp_config(p, KNOBS), flow |-> g]
         /\ Evaluator(g) = [flow |-> g, tool |-> g.stops]
PROOF
  <1>1. \A q : Request(q, g) = [placer |-> clamp_config(q, KNOBS), flow |-> g]
    BY DEF Request, SteadyFlow
  <1> QED
    BY <1>1 DEF Evaluator

LEMMA DefaultSteady == SteadyFlow(DefaultFlow)
PROOF
  <1>1. 1 \in DOMAIN RebufStops /\ DefaultStop \in Range(RebufStops)
    BY ChoicesAre DEF DefaultStop, Range
  <1>2. DefaultStop # <<>> /\ Snap(DefaultStop) = DefaultStop
    BY <1>1, ChoicesAre DEF Snap
  <1>3. DefaultFlow.stops = DefaultStop /\ DefaultFlow.dp = default_config(KNOBS) /\ NoFlow.stops = <<>>
    BY DefaultsAre DEF DefaultFlow, NoFlow
  <1>4. DefaultFlow = [stops |-> DefaultFlow.stops, dp |-> DefaultFlow.dp]
    BY DEF DefaultFlow
  <1> QED
    BY <1>2, <1>3, <1>4, DefaultsAre DEF SteadyFlow

(* The requests of the callers: a flow with the default placer config, or a *)
(* placer config alone.                                                     *)
CallersRequests ==
  {Request(default_config(KNOBS), f) : f \in CallersFlows} \cup {Request(v, NoFlow) : v \in [Names -> Nat]}

LEMMA CallersAre ==
  ASSUME NEW r \in CallersRequests
  PROVE  /\ r = [placer |-> r.placer, flow |-> r.flow] /\ clamp_config(r.placer, KNOBS) = r.placer
         /\ r.flow # NoFlow => SteadyFlow(r.flow) /\ r.placer = default_config(KNOBS)
PROOF
  <1>1. \A p, f : Request(p, f) = [placer |-> Request(p, f).placer, flow |-> Request(p, f).flow]
    BY DEF Request
  <1>2. CASE \E f \in CallersFlows : r = Request(default_config(KNOBS), f)
    BY <1>1, <1>2, FlowClamped, DefaultsAre
  <1>3. CASE \E v \in [Names -> Nat] : r = Request(v, NoFlow)
    <2>1. PICK v \in [Names -> Nat] : r = Request(v, NoFlow)
      BY <1>3
    <2>2. r.placer = clamp_config(v, KNOBS) /\ r.flow = NoFlow
      BY <2>1 DEF Request
    <2> QED
      BY <1>1, <2>1, <2>2, ClampsAre
  <1> QED
    BY <1>2, <1>3 DEF CallersRequests

(* What a request of a caller is placed with.                               *)
LEMMA PlacedWith ==
  ASSUME NEW r \in CallersRequests
  PROVE  apply_flow(r).placer = IF r.flow = NoFlow THEN r.placer ELSE r.flow.dp
PROOF
  <1>1. CASE r.flow = NoFlow
    BY <1>1 DEF apply_flow
  <1>2. CASE r.flow # NoFlow
    <2>1. apply_flow(r) = Request(r.flow.dp, r.flow) /\ SteadyFlow(r.flow)
      BY <1>2, CallersAre DEF apply_flow
    <2>2. Request(r.flow.dp, r.flow).placer = clamp_config(r.flow.dp, KNOBS)
      BY <2>1, SteadyKept
    <2> QED
      BY <1>2, <2>1, <2>2 DEF SteadyFlow
  <1> QED
    BY <1>1, <1>2

(* Requests with one key get one placement of any evaluator, whatever the   *)
(* flows of the callers say.                                                *)
LEMMA KeysTell ==
  ASSUME NEW r \in CallersRequests, NEW q \in CallersRequests, NEW e, Key(r) = Key(q)
  PROVE  Placement(e, r) = Placement(e, q)
PROOF
  <1>1. DefaultFlow.dp = default_config(KNOBS)
    BY DefaultsAre DEF DefaultFlow
  <1>2. r.placer = q.placer
    BY DEF Key
  <1>3. \/ r.flow \in {NoFlow, DefaultFlow} /\ q.flow \in {NoFlow, DefaultFlow}
        \/ r.flow = q.flow
    BY DEF Key
  <1>4. ASSUME NEW x \in CallersRequests, x.flow \in {NoFlow, DefaultFlow}
        PROVE  apply_flow(x).placer = x.placer
    BY <1>1, <1>4, PlacedWith, CallersAre
  <1>5. apply_flow(r).placer = apply_flow(q).placer
    BY <1>2, <1>3, <1>4, PlacedWith
  <1> QED
    BY <1>5 DEF Placement

(* What the container makes of the command line of a caller's request: the  *)
(* evaluator of its flow, and the request that apply_flow gives.            *)
LEMMA RunIs ==
  ASSUME NEW r \in CallersRequests
  PROVE  LET x == from_args(command(r)) IN
         /\ ~Clash(command(r)) /\ x.ev = Evaluator(r.flow)
         /\ r.flow = NoFlow => x.req = r
         /\ r.flow # NoFlow => x.req = [placer |-> r.flow.dp, flow |-> r.flow]
PROOF
  <1>1. command(r).flow_cfg = r.flow /\ command(r).cfg = r.placer
    BY DEF command
  <1>2. ~Clash(command(r))
    BY <1>1, CallersAre DEF Clash
  <1>3. /\ from_args(command(r)).ev = Evaluator(r.flow)
        /\ from_args(command(r)).req = apply_flow(Request(r.placer, r.flow))
    BY <1>1 DEF from_args
  <1>4. CASE r.flow = NoFlow
    <2>1. Request(r.placer, r.flow) = [placer |-> clamp_config(r.placer, KNOBS), flow |-> r.flow]
      BY <1>4 DEF Request
    <2>2. Request(r.placer, r.flow) = r
      BY <2>1, CallersAre
    <2>3. apply_flow(r) = r
      BY <1>4 DEF apply_flow
    <2> QED
      BY <1>2, <1>3, <1>4, <2>2, <2>3
  <1>5. CASE r.flow # NoFlow
    <2>1. SteadyFlow(r.flow)
      BY <1>5, CallersAre
    <2>2. Request(r.placer, r.flow) = [placer |-> clamp_config(r.placer, KNOBS), flow |-> r.flow]
      BY <2>1, SteadyKept
    <2>3. apply_flow(Request(r.placer, r.flow)) = Request(r.flow.dp, r.flow)
      BY <1>5, <2>2 DEF apply_flow
    <2>4. Request(r.flow.dp, r.flow) = [placer |-> clamp_config(r.flow.dp, KNOBS), flow |-> r.flow]
      BY <2>1, SteadyKept
    <2>5. clamp_config(r.flow.dp, KNOBS) = r.flow.dp
      BY <2>1 DEF SteadyFlow
    <2> QED
      BY <1>2, <1>3, <1>5, <2>3, <2>4, <2>5
  <1> QED
    BY <1>4, <1>5

LEMMA CommandTold ==
  ASSUME NEW r \in CallersRequests
  PROVE  LET x == from_args(command(r)) IN
         /\ ~Clash(command(r)) /\ Admits(x.ev, x.req)
         /\ Placement(x.ev, x.req) = Placement(Evaluator(r.flow), r)
PROOF
  <1> DEFINE x == from_args(command(r))
  <1>1. /\ ~Clash(command(r)) /\ x.ev = Evaluator(r.flow)
        /\ r.flow = NoFlow => x.req = r
        /\ r.flow # NoFlow => x.req = [placer |-> r.flow.dp, flow |-> r.flow]
    BY RunIs
  <1> HIDE DEF x
  <1>2. CASE r.flow = NoFlow
    BY <1>1, <1>2 DEF Admits, x
  <1>3. CASE r.flow # NoFlow
    <2>1. SteadyFlow(r.flow) /\ x.req = [placer |-> r.flow.dp, flow |-> r.flow]
      BY <1>1, <1>3, CallersAre
    <2>2. x.ev.flow = r.flow /\ x.req.flow = r.flow
      BY <1>1, <2>1, SteadyKept
    <2>3. apply_flow(x.req) = Request(r.flow.dp, r.flow)
      BY <1>3, <2>2 DEF apply_flow
    <2>4. apply_flow(x.req).placer = r.flow.dp
      BY <2>1, <2>3, SteadyKept DEF SteadyFlow
    <2>5. apply_flow(r).placer = r.flow.dp
      BY <1>3, PlacedWith
    <2>6. Placement(x.ev, x.req) = Placement(Evaluator(r.flow), r)
      BY <1>1, <2>4, <2>5 DEF Placement
    <2> QED
      BY <1>1, <2>2, <2>6 DEF Admits, x
  <1> QED
    BY <1>2, <1>3

LEMMA DirsAreKeys ==
  ASSUME NEW r \in CallersRequests, NEW q \in CallersRequests, (r.flow = NoFlow) = (q.flow = NoFlow)
  PROVE  (RunDir(from_args(command(r))) = RunDir(from_args(command(q)))) <=> (Key(r) = Key(q))
PROOF
  <1> DEFINE Dir(x) == RunDir(from_args(command(x)))
  <1>1. CASE r.flow = NoFlow /\ q.flow = NoFlow
    <2>1. \A x \in {r, q} : Dir(x) = <<Evaluator(NoFlow).tool, Key(x)>>
      BY <1>1, RunIs DEF RunDir
    <2> QED
      BY <2>1
  <1>2. CASE r.flow # NoFlow /\ q.flow # NoFlow
    <2>1. \A x \in {r, q} : /\ SteadyFlow(x.flow) /\ x.placer = default_config(KNOBS)
                            /\ from_args(command(x)).ev = Evaluator(x.flow)
                            /\ from_args(command(x)).req = [placer |-> x.flow.dp, flow |-> x.flow]
      BY <1>2, RunIs, CallersAre
    <2>2. ASSUME NEW x \in {r, q}
          PROVE  Dir(x) = <<x.flow.stops, <<x.flow.dp, IF x.flow = DefaultFlow THEN NoFlow ELSE x.flow>>>>
      <3>1. Evaluator(x.flow).tool = x.flow.stops
        BY <2>1, SteadyKept
      <3>2. x.flow # NoFlow
        BY <2>1 DEF SteadyFlow
      <3>3. Key([placer |-> x.flow.dp, flow |-> x.flow]) = <<x.flow.dp, IF x.flow = DefaultFlow THEN NoFlow ELSE x.flow>>
        BY <3>2 DEF Key
      <3> QED
        BY <2>1, <3>1, <3>3 DEF RunDir
    <2>3. ASSUME NEW x \in {r, q}
          PROVE  Key(x) = <<default_config(KNOBS), IF x.flow = DefaultFlow THEN NoFlow ELSE x.flow>>
      <3>1. x.flow # NoFlow
        BY <2>1 DEF SteadyFlow
      <3> QED
        BY <2>1, <3>1 DEF Key
    <2> HIDE DEF Dir
    <2>4. ASSUME Key(r) = Key(q) PROVE r.flow = q.flow
      BY <1>2, <2>3, <2>4
    <2>5. ASSUME Dir(r) = Dir(q) PROVE r.flow = q.flow
      <3>1. r.flow.stops = q.flow.stops /\ r.flow.dp = q.flow.dp
        BY <2>2, <2>5
      <3> QED
        BY <2>1, <3>1 DEF SteadyFlow
    <2>6. r.flow = q.flow => Dir(r) = Dir(q) /\ Key(r) = Key(q)
      BY <2>2, <2>3
    <2> QED
      BY <2>4, <2>5, <2>6 DEF Dir
  <1> QED
    BY <1>1, <1>2

(* contract.py:187 and 213, arm_eval.py:89: for any flow and placer config a *)
(* caller may ask for, whatever its numbers, one key means one placement,   *)
(* the driver's command line is not refused and places what was asked for,  *)
(* and two requests with a flow share a run directory exactly if they share *)
(* their key.                                                               *)
THEOREM AnyRequestIsKept ==
  /\ \A r, q \in CallersRequests : Key(r) = Key(q) => \A e : Placement(e, r) = Placement(e, q)
  /\ \A r \in CallersRequests :
       LET x == from_args(command(r)) IN
       /\ ~Clash(command(r)) /\ Admits(x.ev, x.req)
       /\ Placement(x.ev, x.req) = Placement(Evaluator(r.flow), r)
  /\ \A r, q \in CallersRequests : (r.flow = NoFlow) = (q.flow = NoFlow) =>
       (RunDir(from_args(command(r))) = RunDir(from_args(command(q))) <=> Key(r) = Key(q))
PROOF
  BY KeysTell, CommandTold, DirsAreKeys

(* The flows and configs that TLC looks at are among them.                  *)
LEMMA SomeAreCallers ==
  /\ SomeFlows \subseteq CallersFlows /\ Values \subseteq [Names -> Nat]
PROOF
  <1>1. Values \subseteq [Names -> Nat]
    <2>1. ASSUME NEW v \in Values PROVE v \in [Names -> Nat]
      <3>1. v = [density_weight |-> v.density_weight, gamma |-> v.gamma, learning_rate |-> v.learning_rate]
        BY DEF Values
      <3>2. v.density_weight \in Nat /\ v.gamma \in Nat /\ v.learning_rate \in Nat
        BY DEF Values
      <3> QED
        BY <3>1, <3>2, KnobsAre
    <2> QED
      BY <2>1
  <1>2. SomeStops \subseteq Seq(Nat)
    <2>1. /\ <<>> \in Seq(Nat) /\ <<6, 2>> \in Seq(Nat) /\ <<6, 3>> \in Seq(Nat)
          /\ <<5>> \in Seq(Nat) /\ <<9, 9, 9, 9>> \in Seq(Nat)
      OBVIOUS
    <2> QED
      BY <2>1, Zenon DEF SomeStops
  <1>3. SomeFlows \subseteq {NoFlow} \cup [stops: SomeStops, dp: Values]
    BY DEF SomeFlows
  <1> HIDE DEF Values, SomeStops
  <1>4. [stops: SomeStops, dp: Values] \subseteq [stops: Seq(Nat), dp: [Names -> Nat]]
    BY <1>1, <1>2
  <1> QED
    BY <1>1, <1>3, <1>4 DEF CallersFlows

LEMMA Separated == KeysSeparate /\ CommandKept
PROOF
  <1>1. Flowing \subseteq CallersRequests /\ {Request(v, NoFlow) : v \in Values} \subseteq CallersRequests
    BY SomeAreCallers DEF Flowing, CallersRequests
  <1>2. ASSUME NEW r \in Flowing, r.flow # NoFlow PROVE apply_flow(r).placer = r.flow.dp
    BY <1>1, <1>2, PlacedWith
  <1>3. KeysSeparate
    BY <1>1, <1>2, AnyRequestIsKept DEF KeysSeparate
  <1>4. CommandKept
    BY <1>1, AnyRequestIsKept DEF CommandKept
  <1> QED
    BY <1>3, <1>4

(* raw_handoff.py:273-319: a mode that the constructor accepts is carried   *)
(* out, for every combination of options.                                   *)
THEOREM ModesAreHonoured == NodeSpec => []ModesHonoured
PROOF
  <1>1. ModesHonoured
    BY Honoured DEF ModesHonoured
  <1> QED
    BY <1>1, PTL

(* raw_handoff.py:350-411, contract.py:187 and 213, arm_eval.py:89: options *)
(* with one fingerprint do one thing, requests with one key get one         *)
(* placement, and the container does what the driver asked for.             *)
THEOREM IdentitiesAreSeparate == NodeSpec => []IdentitiesSeparate
PROOF
  <1>1. IdentitiesSeparate
    BY Separates, Separated DEF IdentitiesSeparate
  <1> QED
    BY <1>1, PTL
=============================================================================
