----------------------------- MODULE LibreLane ------------------------------
(* The handshake of LibreLaneEvaluator.evaluate (librelane_handoff.py), on   *)
(* the host, with the flow in its container (ll_placer_flow.py): three files *)
(* in a key-named run directory that are polled for, written in place and    *)
(* never locked, and a pipe that the host reads last.  The evaluations are   *)
(* of one request; a container outlives a host process that is killed.       *)
EXTENDS Naturals

CONSTANTS MaxEvals,  \* bound: evaluations, each with a container of its own
          PipeSize,  \* what the pipe of a container's output holds, in messages
          MaxFaults, \* bound: kills of the host process and of containers
          None

VARIABLES host,    \* the evaluate that runs, if any
          flow,    \* the containers, by evaluation
          req,     \* dp_req.json
          done,    \* dp_done.json
          fin,     \* flow_done.json
          evals,   \* evaluations begun
          faults,  \* kills
          answer   \* what evaluate returned last

llVars == <<host, flow, req, done, fin, evals, faults, answer>>
files  == <<req, done, fin>>

Evals   == 1..MaxEvals
NoFile  == [st |-> "none", by |-> None, ok |-> FALSE]
NoHost  == [pc |-> "idle", alone |-> FALSE]
NoFlow  == [pc |-> "off", pipe |-> 0, ok |-> FALSE]

Running(n)  == flow[n].pc \in {"run", "ask", "wait", "import", "end"}
Over(n)     == flow[n].pc \in {"ended", "died"}
Host(pc)    == host' = [host EXCEPT !.pc = pc]
Flow(n, pc) == flow' = [flow EXCEPT ![n].pc = pc]
Return(ok, by) ==
  /\ host' = NoHost
  /\ answer' = [ok |-> ok, by |-> by, own |-> evals, alone |-> host.alone]

-----------------------------------------------------------------------------
(* Mutant: flow_done.json of an earlier run is left where it is.             *)
ClearSome ==
  /\ host.pc = "idle" /\ evals < MaxEvals
  /\ host' = [pc |-> "launch", alone |-> \A n \in Evals : ~Running(n)]
  /\ req' = NoFile /\ done' = NoFile
  /\ evals' = evals + 1
  /\ UNCHANGED <<flow, fin, faults, answer>>

(* evaluate removes the files of an earlier run, then starts the container.  *)
Clear ==
  /\ host.pc = "idle" /\ evals < MaxEvals
  /\ host' = [pc |-> "launch", alone |-> \A n \in Evals : ~Running(n)]
  /\ req' = NoFile /\ done' = NoFile /\ fin' = NoFile
  /\ evals' = evals + 1
  /\ UNCHANGED <<flow, faults, answer>>

Launch ==
  /\ host.pc = "launch"
  /\ Host("wait") /\ Flow(evals, "run")
  /\ UNCHANGED <<files, evals, faults, answer>>

(* It polls for the request and for the end of the process; a request that   *)
(* is not written to its end does not parse, and the exception ends evaluate *)
(* with the container still there.                                           *)
Poll ==
  /\ host.pc = "wait"
  /\ \/ req.st = "full" /\ Host("place") /\ UNCHANGED answer
     \/ req.st = "part" /\ Return(FALSE, None)
     \/ req.st = "none" /\ Over(evals) /\ Host("drain") /\ UNCHANGED answer
  /\ UNCHANGED <<flow, files, evals, faults>>

(* DREAMPlace and check_placement decide, or raise.                          *)
Decide ==
  /\ host.pc = "place"
  /\ \/ \E ok \in BOOLEAN : done' = [st |-> "part", by |-> evals, ok |-> ok]
        /\ Host("write") /\ UNCHANGED answer
     \/ Return(FALSE, None) /\ UNCHANGED done
  /\ UNCHANGED <<flow, req, fin, evals, faults>>

Decided ==
  /\ host.pc = "write"
  /\ done' = [done EXCEPT !.st = "full"] /\ Host("drain")
  /\ UNCHANGED <<flow, req, fin, evals, faults, answer>>

(* Mutant: the host waits for flow_done.json instead of the container's end. *)
ConcludeOnFile ==
  /\ host.pc = "drain" /\ fin.st = "full"
  /\ Return(fin.ok, fin.by)
  /\ UNCHANGED <<flow, files, evals, faults>>

(* communicate() returns when the container has ended; then the answer is    *)
(* what flow_done.json says, failed without one or with a torn one.          *)
Conclude ==
  /\ host.pc = "drain" /\ Over(evals)
  /\ Return(fin.st = "full" /\ fin.ok, fin.by)
  /\ UNCHANGED <<flow, files, evals, faults>>

-----------------------------------------------------------------------------
(* Until the host drains it, the output of its container goes into the pipe, *)
(* and a full pipe stops the flow.                                           *)
Stopped(n) == n = evals /\ host.pc \in {"wait", "place", "write"} /\ flow[n].pipe = PipeSize

Log(n) ==
  /\ flow[n].pc = "run" /\ flow[n].pipe < PipeSize
  /\ flow' = [flow EXCEPT ![n].pipe = @ + 1]
  /\ UNCHANGED <<host, files, evals, faults, answer>>

WriteRequest(n) ==
  /\ ~Stopped(n)
  /\ \/ flow[n].pc = "run" /\ Flow(n, "ask") /\ req' = [st |-> "part", by |-> n, ok |-> TRUE]
     \/ flow[n].pc = "ask" /\ Flow(n, "wait") /\ req' = [st |-> "full", by |-> n, ok |-> TRUE]
  /\ UNCHANGED <<host, done, fin, evals, faults, answer>>

(* The outcome is written in every case: the script catches what it raises.  *)
End(n, ok) ==
  /\ flow' = [flow EXCEPT ![n] = [@ EXCEPT !.pc = "end", !.ok = ok]]
  /\ fin' = [st |-> "part", by |-> n, ok |-> ok]

ReadDone(n) ==
  /\ flow[n].pc = "wait" /\ done.st # "none"
  /\ \/ done.st = "full" /\ done.ok /\ Flow(n, "import") /\ UNCHANGED fin
     \/ ~(done.st = "full" /\ done.ok) /\ End(n, FALSE)
  /\ UNCHANGED <<host, req, done, evals, faults, answer>>

(* The rest of the flow succeeds, or a step of it fails.                     *)
FlowEnds(n) ==
  /\ ~Stopped(n)
  /\ \/ flow[n].pc = "import" /\ \E ok \in BOOLEAN : End(n, ok)
     \/ flow[n].pc = "run" /\ End(n, FALSE)
  /\ UNCHANGED <<host, req, done, evals, faults, answer>>

(* Of two containers that write at a time the later text may be cut by the   *)
(* earlier one's.                                                            *)
FlowWrites(n) ==
  /\ flow[n].pc = "end"
  /\ \E st \in {"part", "full"} :
       /\ fin.by = n => st = "full"
       /\ fin' = [st |-> st, by |-> n, ok |-> flow[n].ok]
  /\ Flow(n, "ended")
  /\ UNCHANGED <<host, req, done, evals, faults, answer>>

-----------------------------------------------------------------------------
KillHost ==
  /\ host.pc # "idle" /\ faults < MaxFaults
  /\ host' = NoHost /\ faults' = faults + 1
  /\ UNCHANGED <<flow, files, evals, answer>>

KillFlow(n) ==
  /\ Running(n) /\ faults < MaxFaults
  /\ Flow(n, "died") /\ faults' = faults + 1
  /\ UNCHANGED <<host, files, evals, answer>>

LibreLaneInit ==
  /\ host = NoHost /\ flow = [n \in Evals |-> NoFlow]
  /\ req = NoFile /\ done = NoFile /\ fin = NoFile
  /\ evals = 0 /\ faults = 0 /\ answer = None

HostStep    == Launch \/ Poll \/ Decide \/ Decided \/ Conclude
FlowStep(n) == WriteRequest(n) \/ ReadDone(n) \/ FlowEnds(n) \/ FlowWrites(n)
LibreLaneNext ==
  \/ Clear \/ HostStep \/ KillHost
  \/ \E n \in Evals : FlowStep(n) \/ Log(n) \/ KillFlow(n)

(* The host polls every second and a flow that is not stopped goes on.       *)
LibreLaneProgress == HostStep \/ \E n \in Evals : FlowStep(n)

-----------------------------------------------------------------------------
(* librelane_handoff.py:104-106 removes the files so that an evaluation is   *)
(* answered by its own container, and it is, unless an earlier one was left  *)
(* behind by a host that was killed or raised.                               *)
OwnAnswer == answer # None /\ answer.alone => answer.by \in {None, answer.own}

(* Each side waits for the other without a limit, and evaluate returns, but  *)
(* for a container whose output filled the pipe before it wrote its request: *)
(* when neither side can go on, no host waits.                               *)
Jammed == host.pc = "wait" /\ Stopped(evals)
HostReturns == ~ENABLED LibreLaneProgress => host.pc = "idle" \/ Jammed

LibreLaneTypeOK ==
  /\ host.pc \in {"idle", "launch", "wait", "place", "write", "drain"}
  /\ flow \in [Evals -> [pc: {"off", "run", "ask", "wait", "import", "end", "ended", "died"},
                         pipe: 0..PipeSize, ok: BOOLEAN]]
  /\ \A f \in {req, done, fin} : f \in [st: {"none", "part", "full"}, by: Evals \cup {None}, ok: BOOLEAN]
  /\ evals \in 0..MaxEvals /\ faults \in 0..MaxFaults
=============================================================================
