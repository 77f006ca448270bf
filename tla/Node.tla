-------------------------------- MODULE Node --------------------------------
(* The evaluator that a caller of pnr_node/node.py gets: cfg["backend"]      *)
(* selects the DEF handoff, dispatched as Dispatch says and under options    *)
(* that FlowOptions accepts, or the LibreLane handshake.                     *)
EXTENDS Dispatch, FlowOptions

CONSTANTS MaxEvals, PipeSize, MaxFaults  \* bounds of LibreLane

ASSUME LibreLaneAssumption == MaxEvals \in Nat /\ PipeSize \in Nat /\ MaxFaults \in Nat

VARIABLES backend, host, container, dp_req, dp_done, flow_done, evals, faults, answer

LL == INSTANCE LibreLane WITH flow <- container, req <- dp_req, done <- dp_done, fin <- flow_done

libreVars == <<host, container, dp_req, dp_done, flow_done, evals, faults, answer>>
vars == <<backend, nodeVars, libreVars>>

(* What _evaluator passes to RawHandoffEvaluator; the options of a local     *)
(* evaluator that is handed to BatchEvaluator are its caller's.              *)
NodeOptions == {o \in Accepted : o = [Plain EXCEPT !.timing_driven = o.timing_driven, !.dp_depth = o.dp_depth]}

NodeInit ==
  /\ backend \in {"raw", "librelane"}
  /\ DispatchInit /\ LL!LibreLaneInit
  /\ flow \in {Branch(o) : o \in IF kind = "batch" THEN Accepted ELSE NodeOptions}
  /\ (backend = "librelane" => kind = "local" /\ \A i \in Ids : nature[i] = "fine")

Raw(A)   == backend = "raw" /\ A /\ UNCHANGED <<backend, libreVars>>
Libre(A) == backend = "librelane" /\ A /\ UNCHANGED <<backend, nodeVars>>

NodeNext == Raw(DispatchNext) \/ Libre(LL!LibreLaneNext)

NodeSpec == NodeInit /\ [][NodeNext]_vars

-----------------------------------------------------------------------------
(* What FlowOptions states depends on no step: it is looked at once, in the  *)
(* state in which a LibreLane evaluator has been made.                       *)
Once == backend = "librelane" /\ evals = 0
IdentitiesSeparate == Once => FingerprintSeparates /\ KeysSeparate /\ CommandKept
ModesHonoured      == Once => OptionsHonoured

OwnAnswer   == LL!OwnAnswer
HostReturns == LL!HostReturns
NodeTypeOK  == DispatchTypeOK /\ LL!LibreLaneTypeOK
=============================================================================
