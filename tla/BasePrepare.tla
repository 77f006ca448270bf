---------------------------- MODULE BasePrepare ----------------------------
(***************************************************************************)
(* The base run of one design that all evaluations share: processes, each  *)
(* a container of its own on one disk, call RawHandoffEvaluator.prepare    *)
(* (raw_handoff.py), then place from the dumped pre_gp.def and copy the    *)
(* base's directory.  prepare looks for the two files that make the base   *)
(* ready, first without the lock, then with it, and otherwise builds: make *)
(* writes the 3_2 odb, a second make dumps pre_gp.def and goes on to write *)
(* 3_3 outputs, which are removed again so that every copy re-runs 3_3.    *)
(*                                                                         *)
(* A process may be killed and a make may fail anywhere, and what is on    *)
(* the disk stays.  The lock is an flock: it goes with its process.        *)
(***************************************************************************)
EXTENDS Naturals

CONSTANTS Procs,   \* the evaluation processes
          Nobody   \* holder of a free lock

ASSUME NobodyAssumption == Nobody \notin Procs

VARIABLES odb,      \* 3_2_place_iop.odb
          marker,   \* dp/pre_gp.def
          late,     \* there are outputs of 3_3 and later
          lock,     \* who holds .prepare.lock
          pc,       \* where each process is
          how,      \* how its prepare returned
          fine,     \* all it has read of the base was finished
          hurt      \* a builder has been killed or has failed while it wrote

files == <<odb, marker, late>>
reader == <<how, fine>>
vars  == <<files, lock, pc, reader, hurt>>

-----------------------------------------------------------------------------
Writing  == {"odb", "dumping", "stage", "clean"}
Building == Writing \cup {"build", "dump"}
Inside   == Building \cup {"relook"}
Reading  == {"place", "copy", "done"}

Goto(p, l) == pc' = [pc EXCEPT ![p] = l]

Ready    == marker # "none" /\ odb # "none"
Finished == marker = "whole" /\ odb = "whole" /\ ~late

(* A new work root, or one whose results were pruned.                       *)
Init ==
  /\ odb = "none" /\ marker \in {"none", "whole"} /\ late = FALSE
  /\ lock = Nobody /\ pc = [p \in Procs |-> "idle"]
  /\ how = [p \in Procs |-> "none"] /\ fine = [p \in Procs |-> TRUE]
  /\ hurt = FALSE

-----------------------------------------------------------------------------
Evaluate(p) ==
  /\ pc[p] \in {"idle", "done"} /\ Goto(p, "look")
  /\ how' = [how EXCEPT ![p] = "none"] /\ fine' = [fine EXCEPT ![p] = TRUE]
  /\ UNCHANGED <<files, lock, hurt>>

Look(p) ==
  /\ pc[p] = "look"
  /\ IF Ready THEN Goto(p, "place") /\ how' = [how EXCEPT ![p] = "direct"]
              ELSE Goto(p, "wait") /\ UNCHANGED how
  /\ UNCHANGED <<files, lock, fine, hurt>>

TakeLock(p) ==
  /\ pc[p] = "wait" /\ lock = Nobody /\ lock' = p /\ Goto(p, "relook")
  /\ UNCHANGED <<files, reader, hurt>>

Return(p) ==
  /\ Goto(p, "place") /\ lock' = Nobody
  /\ how' = [how EXCEPT ![p] = "locked"]

(* Another process may have finished while this one waited.                 *)
RelookBuilds(p) ==
  /\ pc[p] = "relook" /\ Goto(p, "build")
  /\ UNCHANGED <<files, lock, reader, hurt>>
Relook(p) ==
  /\ pc[p] = "relook"
  /\ IF Ready THEN Return(p) ELSE Goto(p, "build") /\ UNCHANGED <<lock, how>>
  /\ UNCHANGED <<files, fine, hurt>>

(* make 3_2_place_iop.odb, which does nothing when there is such a file.    *)
MakeOdb(p) ==
  /\ pc[p] = "build"
  /\ IF odb = "none" THEN odb' = "torn" /\ Goto(p, "odb")
                     ELSE Goto(p, "dump") /\ UNCHANGED odb
  /\ UNCHANGED <<marker, late, lock, reader, hurt>>

OdbWritten(p) ==
  /\ pc[p] = "odb" /\ odb' = "whole" /\ Goto(p, "dump")
  /\ UNCHANGED <<marker, late, lock, reader, hurt>>

(* make 3_3_place_gp.odb in dump mode: write_def, then the stage's outputs. *)
Dump(p) ==
  /\ pc[p] = "dump" /\ marker' = "torn" /\ Goto(p, "dumping")
  /\ UNCHANGED <<odb, late, lock, reader, hurt>>

Dumped(p) ==
  /\ pc[p] = "dumping" /\ marker' = "whole" /\ Goto(p, "stage")
  /\ UNCHANGED <<odb, late, lock, reader, hurt>>

StageWritten(p) ==
  /\ pc[p] = "stage" /\ late' = TRUE /\ Goto(p, "clean")
  /\ UNCHANGED <<odb, marker, lock, reader, hurt>>

(* The 3_3 outputs go, prepare returns and the lock is given back.          *)
CleanLeavesStage(p) ==
  /\ pc[p] = "clean" /\ Return(p)
  /\ UNCHANGED <<files, fine, hurt>>
Clean(p) ==
  /\ pc[p] = "clean" /\ late' = FALSE /\ Return(p)
  /\ UNCHANGED <<odb, marker, fine, hurt>>

(* A make that fails raises: evaluate answers with the error.               *)
MakeFails(p) ==
  /\ pc[p] \in Building \ {"clean"} /\ lock' = Nobody /\ Goto(p, "idle")
  /\ hurt' = (hurt \/ pc[p] \in Writing)
  /\ UNCHANGED <<files, reader>>

(* DREAMPlace reads pre_gp.def, route_from_def copies the base.             *)
Place(p) ==
  /\ pc[p] = "place" /\ Goto(p, "copy")
  /\ fine' = [fine EXCEPT ![p] = (marker = "whole")]
  /\ UNCHANGED <<files, lock, how, hurt>>

Copy(p) ==
  /\ pc[p] = "copy" /\ Goto(p, "done")
  /\ fine' = [fine EXCEPT ![p] = @ /\ odb = "whole" /\ ~late]
  /\ UNCHANGED <<files, lock, how, hurt>>

KillKeepsLock(p) ==
  /\ pc[p] \notin {"idle", "done"} /\ Goto(p, "idle")
  /\ hurt' = (hurt \/ pc[p] \in Writing)
  /\ UNCHANGED <<files, lock, reader>>
Kill(p) ==
  /\ pc[p] \notin {"idle", "done"} /\ Goto(p, "idle")
  /\ lock' = IF lock = p THEN Nobody ELSE lock
  /\ hurt' = (hurt \/ pc[p] \in Writing)
  /\ UNCHANGED <<files, reader>>

Build(p) ==
  \/ MakeOdb(p) \/ OdbWritten(p) \/ Dump(p) \/ Dumped(p) \/ StageWritten(p) \/ Clean(p)
Step(p) == Look(p) \/ Relook(p) \/ Build(p) \/ Place(p) \/ Copy(p)

Next == \E p \in Procs : Evaluate(p) \/ TakeLock(p) \/ Step(p) \/ MakeFails(p) \/ Kill(p)

Spec == Init /\ [][Next]_vars

(* Processes are scheduled, makes end, and flock serves its waiters in turn.*)
FairSpec == Spec /\ \A p \in Procs : WF_vars(Step(p)) /\ SF_vars(TakeLock(p))
-----------------------------------------------------------------------------
TypeOK ==
  /\ odb \in {"none", "torn", "whole"} /\ marker \in {"none", "torn", "whole"}
  /\ late \in BOOLEAN /\ lock \in Procs \cup {Nobody} /\ hurt \in BOOLEAN
  /\ pc \in [Procs -> Inside \cup Reading \cup {"idle", "look", "wait"}]
  /\ how \in [Procs -> {"none", "direct", "locked"}] /\ fine \in [Procs -> BOOLEAN]

(* The builder has the lock, and nobody else is past it.                    *)
OneBuilder == \A p \in Procs : pc[p] \in Inside <=> lock = p

(* What is on the disk while nobody has been interrupted: the files belong  *)
(* to the step the builder is at, and without one a ready base is finished. *)
DiskFollows ==
  ~hurt =>
    /\ \A p \in Procs :
         /\ pc[p] = "build" => ~Ready /\ odb # "torn" /\ marker # "torn" /\ ~late
         /\ pc[p] = "odb" => ~late /\ marker # "torn"
         /\ pc[p] = "dump" => odb = "whole" /\ marker # "torn" /\ ~late
         /\ pc[p] = "dumping" => odb = "whole" /\ ~late
         /\ pc[p] = "stage" => Finished
         /\ pc[p] = "clean" => odb = "whole" /\ marker = "whole"
    /\ (\A p \in Procs : pc[p] \notin Building) =>
         (Ready => Finished) /\ odb # "torn" /\ marker # "torn" /\ ~late

(* Who got the base through the lock has a finished one, and nobody builds  *)
(* it again.                                                                *)
Settled(p) == pc[p] \in Reading /\ how[p] = "locked"
SettledStays ==
  ~hurt => \A p \in Procs : Settled(p) => Finished /\ \A q \in Procs : pc[q] \notin Building

(* An evaluation has read nothing before its prepare returns.               *)
NothingRead == \A p \in Procs : pc[p] \in Inside \cup {"look", "wait", "place"} => fine[p]

(* raw_handoff.py:541-543, no builder interrupted: all that an evaluation   *)
(* reads of the base after it returned from the locked part is finished,    *)
(* however late it reads and whoever calls prepare meanwhile.               *)
LockedReadsFinished ==
  ~hurt => \A p \in Procs : Settled(p) => fine[p]

IInv == TypeOK /\ OneBuilder /\ DiskFollows /\ SettledStays /\ NothingRead

(* Every call of prepare comes back: with the base, or with an error.       *)
PrepareReturns == \A p \in Procs : pc[p] \in Inside \cup {"look", "wait"} ~> pc[p] \in Reading \cup {"idle"}

(* raw_handoff.py:531: "Cached per design; safe under concurrency".  An     *)
(* evaluation that finds the files without the lock may read an unfinished  *)
(* base, also when no builder is ever interrupted.                          *)
PreparedIsFinished == ~hurt => \A p \in Procs : pc[p] \in Reading => fine[p]
=============================================================================
