------------------------------ MODULE Handoff ------------------------------
(* One evaluation of the DEF handoff (pnr_node/raw_handoff.py) as steps on   *)
(* the files it shares: the dp-<hash> directory of a placement, which every  *)
(* stage of one identity uses, and the key-named directory of its grt run,   *)
(* from which its route run continues.  The base run is there already: how   *)
(* it comes to be there is BasePrepare's subject.                            *)
EXTENDS Naturals

CONSTANTS Disks,   \* machines, each with a work root of its own
          Ids,     \* placement identities: design, knobs, seed and toolchain
          Tasks,   \* evaluations that can run at a time
          Rounds,  \* bound: global placements of a flow that places several times
          None

ASSUME HandoffAssumption ==
  /\ Rounds \in Nat \ {0, 1}
  /\ None \notin Disks /\ None \notin Ids /\ None \notin Tasks
  /\ None \notin {"ok", "failed", "base", "grt"}

VARIABLES flow,    \* the branch of _place that the evaluator's options select
          nature,  \* what becomes of an identity: runs are deterministic
          place,   \* place[d][i]: the files in the dp-<hash> directory
          grt,     \* grt[d][i]: 5_1_grt.odb in the grt run's directory
          task     \* the evaluations

Flows   == {"plain", "netwt", "rebuf", "finish"}
Natures == {"fine", "unfit", "diverges"}
Stages  == {"proxy", "cts", "grt", "route"}
Steps   == {"free", "queued", "look", "gp", "repair", "def", "save", "import", "handed",
            "route", "make", "write", "done"}
Files   == {"none", "part", "full"}

NoFiles == [def |-> "none", cache |-> "none", odb |-> FALSE, orfs |-> None]
NoTask  == [pc |-> "free", disk |-> None, id |-> None, stage |-> "proxy", round |-> 0,
            from |-> None, whole |-> TRUE, again |-> FALSE, lost |-> FALSE, ans |-> None]

(* The global placements of one _place: netwt_rounds, or the repairs and one. *)
Placements == IF flow \in {"netwt", "rebuf"} THEN Rounds ELSE 1

Here(t) == place[task[t].disk][task[t].id]
GrtOf(t) == grt[task[t].disk][task[t].id]
Working(t) == task[t].pc \in Steps \ {"free", "queued", "handed", "done"}

Goto(t, pc)   == task' = [task EXCEPT ![t].pc = pc]
Answer(t, a)  == task' = [task EXCEPT ![t] = [@ EXCEPT !.pc = "done", !.ans = a]]
Put(t, files) == place' = [place EXCEPT ![task[t].disk][task[t].id] = files]

(* A cached placement is used if its DEF is there and, when buffers were     *)
(* inserted on the way, the session that the import resumes.                 *)
Usable(p) == p.cache = "full" /\ p.def # "none" /\ (flow = "rebuf" => p.odb)

-----------------------------------------------------------------------------
(* _place: the cached result or, when there is none that can be used, the    *)
(* placement again.  A torn dp_result.json does not parse: the evaluation    *)
(* fails.                                                                    *)
Look(t) ==
  /\ task[t].pc = "look"
  /\ \/ Here(t).cache = "part" /\ Answer(t, "failed")
     \/ Usable(Here(t)) /\ Goto(t, "import")
     \/ /\ Here(t).cache # "part" /\ ~Usable(Here(t))
        /\ task' = [task EXCEPT ![t] = [@ EXCEPT !.pc = "gp", !.round = 1]]
  /\ UNCHANGED <<flow, nature, place, grt>>

(* A global placement that is not the last: its output is a file of the      *)
(* round, then the netlist is timed again, or repaired in <dp>/rebuf/orfs,   *)
(* which is first removed, whoever works in it.                              *)
Reweight(t) ==
  /\ task[t].pc = "gp" /\ task[t].round < Placements /\ flow = "netwt"
  /\ task' = [task EXCEPT ![t].round = @ + 1]
  /\ UNCHANGED <<flow, nature, place, grt>>

StartRepair(t) ==
  /\ task[t].pc = "gp" /\ task[t].round < Placements /\ flow = "rebuf"
  /\ Put(t, [Here(t) EXCEPT !.orfs = t])
  /\ Goto(t, "repair")
  /\ UNCHANGED <<flow, nature, grt>>

(* The repair's outputs are moved from the directory if they are in it.      *)
EndRepair(t) ==
  /\ task[t].pc = "repair"
  /\ IF Here(t).orfs = t
     THEN /\ Put(t, [Here(t) EXCEPT !.odb = @ \/ task[t].round + 1 = Placements])
          /\ task' = [task EXCEPT ![t] = [@ EXCEPT !.pc = "gp", !.round = task[t].round + 1]]
     ELSE Answer(t, "failed") /\ UNCHANGED place
  /\ UNCHANGED <<flow, nature, grt>>

(* Mutant: dp_result.json is written before the DEF.                         *)
WriteDefLate(t) ==
  /\ task[t].pc = "gp" /\ task[t].round = Placements
  /\ Put(t, [Here(t) EXCEPT !.def = "part", !.cache = "full"])
  /\ Goto(t, "def")
  /\ UNCHANGED <<flow, nature, grt>>

(* The last one writes its DEF over the one that is there.                   *)
WriteDef(t) ==
  /\ task[t].pc = "gp" /\ task[t].round = Placements
  /\ Put(t, [Here(t) EXCEPT !.def = "part"])
  /\ Goto(t, "def")
  /\ UNCHANGED <<flow, nature, grt>>

(* The DEF is written, and dp_result.json is opened for writing in place.    *)
OpenCache(t) ==
  /\ task[t].pc = "def"
  /\ Put(t, [Here(t) EXCEPT !.def = "full", !.cache = "part"])
  /\ Goto(t, "save")
  /\ UNCHANGED <<flow, nature, grt>>

SaveCache(t) ==
  /\ task[t].pc = "save"
  /\ Put(t, [Here(t) EXCEPT !.cache = "full"])
  /\ Goto(t, "import")
  /\ UNCHANGED <<flow, nature, grt>>

-----------------------------------------------------------------------------
(* check_placement and the end of the proxy stage.  A DEF that is cut off    *)
(* may pass: the components that are there are counted.                      *)
CheckPlacement(t, next) ==
  /\ task[t].pc = "import"
  /\ \/ /\ \/ Here(t).def # "full"
           \/ nature[task[t].id] = "unfit"
        /\ Answer(t, "failed")
     \/ /\ Here(t).def # "none"
        /\ Here(t).def = "full" => nature[task[t].id] # "unfit"
        /\ task' = [task EXCEPT ![t] =
             [@ EXCEPT !.pc = IF task[t].stage = "proxy" THEN "done" ELSE next,
                       !.ans = IF task[t].stage = "proxy" THEN "ok" ELSE None,
                       !.whole = task[t].whole /\ Here(t).def = "full"]]
  /\ UNCHANGED <<flow, nature, place, grt>>

(* route_from_def until make: the run's own directory is removed; a route    *)
(* run continues from the grt run's directory if 5_1_grt.odb is there, and   *)
(* every other run imports the DEF into a copy of the base.                  *)
Stage(t) ==
  LET reuse == task[t].stage = "route" /\ GrtOf(t) # "none"
      read  == IF reuse THEN GrtOf(t) ELSE Here(t).def
  IN  /\ task[t].pc = "route"
      /\ IF read = "none" THEN Answer(t, "failed")
         ELSE task' = [task EXCEPT ![t] =
                [@ EXCEPT !.pc = "make", !.from = IF reuse THEN "grt" ELSE "base",
                          !.whole = task[t].whole /\ read = "full"]]
      /\ grt' = IF task[t].stage = "grt" THEN [grt EXCEPT ![task[t].disk][task[t].id] = "none"]
                ELSE grt
      /\ UNCHANGED <<flow, nature, place>>

(* make writes the database that a later route run looks for.                *)
WriteGrt(t) ==
  /\ task[t].pc = "make" /\ task[t].stage = "grt"
  /\ grt' = [grt EXCEPT ![task[t].disk][task[t].id] = "part"]
  /\ Goto(t, "write")
  /\ UNCHANGED <<flow, nature, place>>

(* make is done: the checks of an import (RePlAce ran, the saved session was *)
(* met again) are only made by a run that did not continue from another, and *)
(* a database that was copied half does not load.                            *)
Passed(t) ==
  IF task[t].from = "grt" THEN task[t].whole
  ELSE flow \in {"rebuf", "finish"} => nature[task[t].id] # "diverges"

Made(t) ==
  /\ \/ task[t].pc = "make" /\ task[t].stage # "grt" /\ UNCHANGED grt
     \/ /\ task[t].pc = "write"
        /\ grt' = [grt EXCEPT ![task[t].disk][task[t].id] = "full"]
  /\ Answer(t, IF Passed(t) THEN "ok" ELSE "failed")
  /\ UNCHANGED <<flow, nature, place>>

(* A tool fails, runs out of its time or leaves no report, or the process is *)
(* killed: the result is a failed one, and the files stay as they are.       *)
Raise(t) ==
  /\ Working(t)
  /\ Answer(t, "failed")
  /\ UNCHANGED <<flow, nature, place, grt>>

HandoffInit ==
  /\ flow \in Flows
  /\ nature \in [Ids -> IF flow \in {"rebuf", "finish"} THEN Natures ELSE Natures \ {"diverges"}]
  /\ place = [d \in Disks |-> [i \in Ids |-> NoFiles]]
  /\ grt = [d \in Disks |-> [i \in Ids |-> "none"]]
  /\ task = [t \in Tasks |-> NoTask]

(* evaluate: "next" is where it goes when the placement has been checked.    *)
Evaluate(t, next) ==
  \/ Look(t) \/ Reweight(t) \/ StartRepair(t) \/ EndRepair(t)
  \/ WriteDef(t) \/ OpenCache(t) \/ SaveCache(t)
  \/ CheckPlacement(t, next) \/ Stage(t) \/ WriteGrt(t) \/ Made(t) \/ Raise(t)

FilesOK == [def: Files, cache: Files, odb: BOOLEAN, orfs: Tasks \cup {None}]
TasksOK == [pc: Steps, disk: Disks \cup {None}, id: Ids \cup {None}, stage: Stages,
            round: 0..Rounds, from: {None, "base", "grt"}, whole: BOOLEAN,
            again: BOOLEAN, lost: BOOLEAN, ans: {None, "ok", "failed"}]
HandoffTypeOK ==
  /\ flow \in Flows /\ nature \in [Ids -> Natures]
  /\ place \in [Disks -> [Ids -> FilesOK]]
  /\ grt \in [Disks -> [Ids -> Files]]
  /\ task \in [Tasks -> TasksOK]
=============================================================================
