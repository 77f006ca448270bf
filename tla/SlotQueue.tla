----------------------------- MODULE SlotQueue -----------------------------
(***************************************************************************)
(* The machine-wide run slots of scripts/gap/slot.sh, which run_arm.sh and *)
(* run_stock.sh source before they start their container.  A script drops  *)
(* a ticket named after the time and its pid, and polls: it lists the      *)
(* tickets, removes those of dead scripts from the front, and when the     *)
(* first live one is its own and the disk has room it tries the slots'     *)
(* locks in turn.  The lock is an flock on fd 9, which the docker client   *)
(* inherits: it is held until the script and its child are both gone.      *)
(*                                                                         *)
(* A script is a process, and a killed one leaves its ticket and its child *)
(* behind.  The pid of a dead script may be given to another process,      *)
(* which kill -0 then takes for a live waiter.                             *)
(***************************************************************************)
EXTENDS Naturals, FiniteSets

CONSTANTS Scripts,    \* the processes that source slot.sh
          Slots,      \* GAP_SLOTS
          MaxKills,   \* bound: scripts killed
          MaxReuses   \* bound: pids of dead scripts given to other processes

ASSUME ScriptsAssumption == IsFiniteSet(Scripts)
ASSUME SlotsAssumption   == Slots \in Nat \ {0} /\ MaxKills \in Nat /\ MaxReuses \in Nat

VARIABLES step, stamp,    \* where each script is; its ticket's time
          tickets,        \* the scripts whose ticket is in the slot directory
          seen,           \* what is left of each script's listing
          slot, child,    \* the slot it tries or holds; its docker client
          clock, reused,  \* the time; dead scripts whose pid is in use again
          before,         \* the tickets there were when a script took its time
          kills, reuses   \* what the bounds count

script == <<step, stamp, seen, slot>>
bounds == <<kills, reuses>>
vars   == <<script, tickets, child, clock, reused, before, bounds>>

-----------------------------------------------------------------------------
Waiting == {"list", "scan", "disk", "try", "sleep"}
Ended   == {"new", "done", "dead"}

(* kill -0.                                                                 *)
AnswersAlways(p) == p \in Scripts
Answers(p) == step[p] \notin Ended \/ p \in reused

HoldingScriptOnly(p) == step[p] \in {"drop", "run", "wait"}
Holding(p) == step[p] \in {"drop", "run", "wait"} \/ child[p] = "running"
SlotFree(i) == \A p \in Scripts : Holding(p) => slot[p] # i

Oldest(S) == CHOOSE p \in S : \A q \in S : stamp[p] <= stamp[q]

Init ==
  /\ step = [p \in Scripts |-> "new"] /\ stamp = [p \in Scripts |-> 0]
  /\ tickets = {} /\ seen = [p \in Scripts |-> {}]
  /\ slot = [p \in Scripts |-> 0] /\ child = [p \in Scripts |-> "none"]
  /\ clock = 0 /\ reused = {} /\ before = [p \in Scripts |-> {}]
  /\ kills = 0 /\ reuses = 0

-----------------------------------------------------------------------------
Goto(p, l) == step' = [step EXCEPT ![p] = l]

(* The ticket's name is made first, its file second.                        *)
Arrive(p) ==
  /\ step[p] = "new" /\ Goto(p, "stamped")
  /\ clock' = clock + 1 /\ stamp' = [stamp EXCEPT ![p] = clock + 1]
  /\ before' = [before EXCEPT ![p] = tickets]
  /\ UNCHANGED <<tickets, seen, slot, child, reused, bounds>>

DropTicket(p) ==
  /\ step[p] = "stamped" /\ Goto(p, "list")
  /\ tickets' = tickets \cup {p}
  /\ UNCHANGED <<stamp, seen, slot, child, clock, reused, before, bounds>>

List(p) ==
  /\ step[p] = "list" /\ Goto(p, "scan")
  /\ seen' = [seen EXCEPT ![p] = tickets]
  /\ UNCHANGED <<stamp, tickets, slot, child, clock, reused, before, bounds>>

(* The listing is walked from the oldest ticket to the first live one.      *)
RemoveDead(p) ==
  /\ step[p] = "scan" /\ seen[p] # {} /\ ~Answers(Oldest(seen[p]))
  /\ tickets' = tickets \ {Oldest(seen[p])}
  /\ seen' = [seen EXCEPT ![p] = @ \ {Oldest(seen[p])}]
  /\ UNCHANGED <<step, stamp, slot, child, clock, reused, before, bounds>>

FoundFirst(p) ==
  /\ step[p] = "scan" /\ (seen[p] # {} => Answers(Oldest(seen[p])))
  /\ Goto(p, IF seen[p] # {} /\ Oldest(seen[p]) = p THEN "disk" ELSE "sleep")
  /\ seen' = [seen EXCEPT ![p] = {}]
  /\ UNCHANGED <<stamp, tickets, slot, child, clock, reused, before, bounds>>

(* Its own ticket is first and there is room on the disk; or it sleeps.     *)
DiskOkForAll(p) ==
  /\ step[p] \in {"disk", "sleep"} /\ Goto(p, "try")
  /\ slot' = [slot EXCEPT ![p] = 1]
  /\ UNCHANGED <<stamp, tickets, seen, child, clock, reused, before, bounds>>
DiskOk(p) ==
  /\ step[p] = "disk" /\ Goto(p, "try")
  /\ slot' = [slot EXCEPT ![p] = 1]
  /\ UNCHANGED <<stamp, tickets, seen, child, clock, reused, before, bounds>>

Sleep(p) ==
  /\ step[p] \in {"disk", "sleep"} /\ Goto(p, "list")
  /\ UNCHANGED <<stamp, tickets, seen, slot, child, clock, reused, before, bounds>>

(* flock -n on the slots in turn.                                           *)
TakeSlot(p) ==
  /\ step[p] = "try" /\ SlotFree(slot[p]) /\ Goto(p, "drop")
  /\ UNCHANGED <<stamp, tickets, seen, slot, child, clock, reused, before, bounds>>

NextSlot(p) ==
  /\ step[p] = "try" /\ ~SlotFree(slot[p])
  /\ IF slot[p] < Slots
     THEN slot' = [slot EXCEPT ![p] = @ + 1] /\ UNCHANGED step
     ELSE Goto(p, "list") /\ slot' = [slot EXCEPT ![p] = 0]
  /\ UNCHANGED <<stamp, tickets, seen, child, clock, reused, before, bounds>>

RemoveTicket(p) ==
  /\ step[p] = "drop" /\ Goto(p, "run")
  /\ tickets' = tickets \ {p}
  /\ UNCHANGED <<stamp, seen, slot, child, clock, reused, before, bounds>>

(* run_arm.sh, run_stock.sh: the docker client, and then the script, end.   *)
StartChild(p) ==
  /\ step[p] = "run" /\ Goto(p, "wait")
  /\ child' = [child EXCEPT ![p] = "running"]
  /\ UNCHANGED <<stamp, tickets, seen, slot, clock, reused, before, bounds>>

ChildEnds(p) ==
  /\ child[p] = "running"
  /\ child' = [child EXCEPT ![p] = "gone"]
  /\ UNCHANGED <<script, tickets, clock, reused, before, bounds>>

Exit(p) ==
  /\ step[p] = "wait" /\ child[p] = "gone" /\ Goto(p, "done")
  /\ UNCHANGED <<stamp, tickets, seen, slot, child, clock, reused, before, bounds>>

-----------------------------------------------------------------------------
(* subprocess.run's timeout, or anyone, kills a script, not its child.      *)
Kill(p) ==
  /\ step[p] \notin Ended /\ kills < MaxKills /\ Goto(p, "dead")
  /\ kills' = kills + 1
  /\ UNCHANGED <<stamp, tickets, seen, slot, child, clock, reused, before, reuses>>

ReusePid(p) ==
  /\ step[p] \in {"done", "dead"} /\ p \notin reused /\ reuses < MaxReuses
  /\ reused' = reused \cup {p} /\ reuses' = reuses + 1
  /\ UNCHANGED <<script, tickets, child, clock, before, kills>>

FreePid(p) ==
  /\ p \in reused
  /\ reused' = reused \ {p}
  /\ UNCHANGED <<script, tickets, child, clock, before, bounds>>

Over == /\ \A p \in Scripts : step[p] \in {"done", "dead"} /\ child[p] # "running"
        /\ UNCHANGED vars

Script(p) ==
  \/ DropTicket(p) \/ List(p) \/ RemoveDead(p) \/ FoundFirst(p) \/ DiskOk(p) \/ Sleep(p)
  \/ TakeSlot(p) \/ NextSlot(p) \/ RemoveTicket(p) \/ StartChild(p) \/ Exit(p)

Next ==
  \/ \E p \in Scripts : \/ Arrive(p) \/ Script(p) \/ ChildEnds(p) \/ Kill(p)
                        \/ ReusePid(p) \/ FreePid(p)
  \/ Over

Spec == Init /\ [][Next]_vars

(* Scripts are scheduled, the first one finds room on the disk again and    *)
(* again, containers end, and so does a process that took a dead one's pid. *)
FairSpec ==
  /\ Spec
  /\ \A p \in Scripts : WF_vars(Script(p)) /\ SF_vars(DiskOk(p))
  /\ \A p \in Scripts : WF_vars(ChildEnds(p)) /\ WF_vars(FreePid(p))
-----------------------------------------------------------------------------
TypeOK ==
  /\ step \in [Scripts -> Waiting \cup Ended \cup {"stamped", "drop", "run", "wait"}]
  /\ stamp \in [Scripts -> Nat] /\ clock \in Nat
  /\ tickets \in SUBSET Scripts /\ seen \in [Scripts -> SUBSET Scripts]
  /\ slot \in [Scripts -> 0..Slots]
  /\ child \in [Scripts -> {"none", "running", "gone"}]
  /\ reused \in SUBSET Scripts /\ before \in [Scripts -> SUBSET Scripts]
  /\ kills \in Nat /\ reuses \in Nat

(* A slot has one holder, a script or the child it left behind.             *)
SlotsApart ==
  /\ \A p \in Scripts : step[p] = "try" \/ Holding(p) => slot[p] \in 1..Slots
  /\ \A p, q \in Scripts : Holding(p) /\ Holding(q) /\ slot[p] = slot[q] => p = q
  /\ \A p \in Scripts : child[p] = "running" => step[p] \in {"wait", "dead"}
  /\ \A p \in Scripts : child[p] # "none" => step[p] \notin Waiting \cup {"new", "stamped", "drop", "run"}

(* No scan removes the ticket of a live script; times are handed out once;  *)
(* a script that may try the slots is the oldest of those it came after.    *)
TicketsKept ==
  /\ \A p \in Scripts : step[p] \in Waiting \cup {"drop"} => p \in tickets
  /\ \A p \in Scripts : stamp[p] <= clock
  /\ \A p, q \in Scripts : q \in before[p] => stamp[q] < stamp[p] /\ step[q] \notin {"new", "stamped"}
  /\ \A p \in tickets : step[p] \notin {"new", "stamped"}
  /\ \A p, q \in Scripts : q \in before[p] /\ step[q] \in Waiting =>
       /\ step[p] = "scan" => q \in seen[p]
       /\ step[p] \notin {"disk", "try"}

IInv == TypeOK /\ SlotsApart /\ TicketsKept

(* slot.sh:1: no more containers of the scripts run than there are slots,   *)
(* those that a killed script left behind included.                         *)
CapKept == Cardinality({p \in Scripts : child[p] = "running"}) <= Slots

(* slot.sh:3-4: a script whose ticket was there when another one came is    *)
(* not overtaken by it.                                                     *)
FirstComeFirstServed ==
  [][\A p \in Scripts : step[p] = "try" /\ step'[p] = "drop" =>
       \A q \in before[p] : step[q] \notin Waiting]_vars

(* slot.sh:4: a run cannot starve: who waits gets a slot, or is killed.     *)
Served == \A p \in Scripts : step[p] \in Waiting ~> step[p] \notin Waiting
=============================================================================
