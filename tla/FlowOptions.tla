---------------------------- MODULE FlowOptions -----------------------------
(* The options of RawHandoffEvaluator and what identifies a result: which    *)
(* combinations __init__ accepts, what _place and route_from_def then do,    *)
(* the part of it that the toolchain fingerprint holds, and the key of a     *)
(* request that carries a flow config of its own (contract.py).              *)
EXTENDS Naturals, FiniteSets, Sequences, Functions

Options == [rebuffer: BOOLEAN, rebuf_full: BOOLEAN, rebuf_presplit: BOOLEAN,
            stops: {"none", "one", "two"},                \* rebuf_overflow
            timing_driven: BOOLEAN, net_weight: {"none", "static", "iterative"},
            netwt_rounds: 1..3, netwt_scheme: {"lilith", "gpl"},
            netwt_repair: BOOLEAN, netwt_compound: BOOLEAN,
            rp_finish: {"none", "early"}, rp_args: BOOLEAN,
            dp_routability: BOOLEAN, dp_depth: {"global", "legal"}]

Plain == [rebuffer |-> FALSE, rebuf_full |-> FALSE, rebuf_presplit |-> FALSE, stops |-> "none",
          timing_driven |-> FALSE, net_weight |-> "none", netwt_rounds |-> 3,
          netwt_scheme |-> "lilith", netwt_repair |-> TRUE, netwt_compound |-> TRUE,
          rp_finish |-> "none", rp_args |-> FALSE, dp_routability |-> FALSE, dp_depth |-> "global"]

(* Mutant: RePlAce may finish a placement that has net weights.              *)
AcceptsMore(o) ==
  /\ o.rebuffer => ~o.timing_driven /\ o.net_weight # "iterative"
  /\ o.rebuf_full \/ o.rebuf_presplit => o.rebuffer
  /\ o.rp_finish # "none" => ~o.rebuffer /\ ~o.timing_driven
  /\ o.rp_args => o.rp_finish # "none"
  /\ o.net_weight # "none" => ~o.timing_driven
  /\ o.net_weight = "iterative" => o.netwt_rounds >= 2
  /\ o.netwt_scheme = "gpl" => o.rebuffer /\ o.net_weight = "static"

(* What __init__ raises on.                                                  *)
Accepts(o) ==
  /\ o.rebuffer => ~o.timing_driven /\ o.net_weight # "iterative"
  /\ o.rebuf_full \/ o.rebuf_presplit => o.rebuffer
  /\ o.rp_finish # "none" => ~o.rebuffer /\ o.net_weight = "none" /\ ~o.timing_driven
  /\ o.rp_args => o.rp_finish # "none"
  /\ o.net_weight # "none" => ~o.timing_driven
  /\ o.net_weight = "iterative" => o.netwt_rounds >= 2
  /\ o.netwt_scheme = "gpl" => o.rebuffer /\ o.net_weight = "static"

Accepted == {o \in Options : Accepts(o)}

(* The branch of _place, and all that the branch and the import depend on.   *)
Branch(o) ==
  IF o.rebuffer THEN "rebuf"
  ELSE IF o.rp_finish # "none" THEN "finish"
  ELSE IF o.net_weight # "none" THEN "netwt" ELSE "plain"

GpRounds(o) == IF o.net_weight = "static" THEN 1 ELSE o.netwt_rounds

Weights(o) ==
  CASE Branch(o) = "rebuf" /\ o.netwt_scheme = "gpl" -> <<"gpl">>
    [] Branch(o) = "rebuf" /\ o.netwt_scheme # "gpl" /\ o.net_weight = "static" -> <<"static", o.netwt_repair>>
    [] Branch(o) = "netwt" -> <<"rounds", GpRounds(o), o.netwt_repair, GpRounds(o) > 1 /\ o.netwt_compound>>
    [] OTHER -> <<"none">>

Procedure(o) ==
  [branch  |-> Branch(o),
   weights |-> Weights(o),
   repairs |-> IF Branch(o) = "rebuf" THEN <<o.stops, o.rebuf_full, o.rebuf_presplit>> ELSE <<>>,
   finish  |-> IF Branch(o) = "finish" THEN <<o.rp_args>> ELSE <<>>,
   timer   |-> Branch(o) = "plain" /\ o.timing_driven,
   depth   |-> o.dp_depth, routability |-> o.dp_routability]

(* The toolchain dictionary, without what does not depend on the options.    *)
NetWeightPart(o) ==
  IF o.net_weight = "none" THEN <<>>
  ELSE IF o.netwt_scheme = "gpl" THEN <<o.net_weight, "gpl-opensta-v1">>
  ELSE <<o.net_weight, GpRounds(o), o.netwt_repair, o.netwt_compound>>

(* Mutant: rebuf_full is left out of the fingerprint.                        *)
RebufferPartShort(o) == IF o.rebuffer THEN <<o.stops, o.rebuf_presplit>> ELSE <<>>

RebufferPart(o) ==
  IF o.rebuffer THEN <<o.stops, IF o.rebuf_full THEN "odb-v1-full" ELSE "odb-v1", o.rebuf_presplit>> ELSE <<>>

Fingerprint(o) ==
  <<o.timing_driven, o.dp_depth, RebufferPart(o), o.dp_routability,
    IF o.rp_finish # "none" THEN <<o.rp_finish, o.rp_args>> ELSE <<>>, NetWeightPart(o)>>

-----------------------------------------------------------------------------
(* The DREAMPlace knobs that a flow config may set, with the range and the   *)
(* default they have in a placer config and in a flow config: the density    *)
(* weight in millionths, the learning rate in thousandths.                   *)
Knob(lo, hi, default) == [lo |-> lo, hi |-> hi, default |-> default]
KNOBS == [density_weight |-> Knob(10, 1000, 80), gamma |-> Knob(2, 12, 4),
          learning_rate |-> Knob(4, 25, 10)]
FLOW_KNOBS == [density_weight |-> Knob(20, 400, 80), gamma |-> Knob(2, 8, 4),
               learning_rate |-> Knob(4, 25, 10)]
Names == DOMAIN KNOBS

Clamp(v, k) == IF v < k.lo THEN k.lo ELSE IF v > k.hi THEN k.hi ELSE v
clamp_config(c, knobs) == [n \in Names |-> Clamp(c[n], knobs[n])]
default_config(knobs)  == [n \in Names |-> knobs[n].default]

(* A categorical knob: the overflows, in tenths, at which placing stops for *)
(* a repair.  A choice keeps its value, other numbers become the choice that *)
(* is nearest in how many they are and then in their sum of differences (no *)
(* choice has more than three), the first of equals; <<>> stands for what   *)
(* cannot be read as numbers.                                               *)
RebufStops  == <<<<6, 2>>, <<6, 4, 2>>, <<7, 3>>, <<5, 2>>, <<6>>, <<4>>>>
DefaultStop == RebufStops[1]
Apart(x, y) == IF x < y THEN y - x ELSE x - y
Gap(c, v, i) == IF i \in DOMAIN c \cap DOMAIN v THEN Apart(c[i], v[i]) ELSE 0
FarIn(c, v)  == Gap(c, v, 1) + Gap(c, v, 2) + Gap(c, v, 3)
Length(c, v) == Apart(Len(c), Len(v))
Before(i, j, v) ==
  LET c == RebufStops[i]
      d == RebufStops[j]
  IN  \/ Length(c, v) < Length(d, v)
      \/ Length(c, v) = Length(d, v) /\ FarIn(c, v) < FarIn(d, v)
      \/ Length(c, v) = Length(d, v) /\ FarIn(c, v) = FarIn(d, v) /\ i <= j
Snap(v) ==
  IF v \in Range(RebufStops) THEN v
  ELSE IF v = <<>> THEN DefaultStop
  ELSE RebufStops[CHOOSE i \in DOMAIN RebufStops : \A j \in DOMAIN RebufStops : Before(i, j, v)]

(* A flow config is a dict of the DREAMPlace knobs and of one that selects   *)
(* options of the evaluator; NoFlow is the empty one.                        *)
NoFlow      == [stops |-> <<>>, dp |-> [n \in Names |-> 0]]
DefaultFlow == [stops |-> DefaultStop, dp |-> default_config(FLOW_KNOBS)]

Request(placer, flow) ==
  [placer |-> clamp_config(placer, KNOBS),
   flow |-> IF flow = NoFlow THEN NoFlow
            ELSE [stops |-> Snap(flow.stops), dp |-> clamp_config(flow.dp, FLOW_KNOBS)]]

(* The flow is no part of the key when it is empty or all default.           *)
Key(r) == <<r.placer, IF r.flow \in {NoFlow, DefaultFlow} THEN NoFlow ELSE r.flow>>

apply_flow(r) == IF r.flow = NoFlow THEN r ELSE Request(r.flow.dp, r.flow)

(* evaluate rejects the request of another flow than its evaluator's, if     *)
(* both have one; for_flow gives an evaluator the flow it was made for.      *)
Evaluator(flow) == LET clamped == Request(default_config(KNOBS), flow).flow
                   IN  [flow |-> clamped, tool |-> clamped.stops]
Admits(e, r)    == r.flow = NoFlow \/ e.flow = NoFlow \/ r.flow = e.flow
Placement(e, r) == <<e.tool, apply_flow(r).placer>>

(* What the driver's evaluator writes on a script's command line; the empty  *)
(* flow and the default placer config are left out.  The program in the      *)
(* container refuses --flow-cfg together with --cfg, a flag of _FLOW_FLAGS,  *)
(* builds the evaluator and request from them, and writes its result in the  *)
(* directory of the key it finds.                                            *)
command(r) == [flow_cfg |-> r.flow, cfg |-> r.placer]
Clash(c)   == c.flow_cfg # NoFlow /\ c.cfg # default_config(KNOBS)
from_args(c) == [ev |-> Evaluator(c.flow_cfg), req |-> apply_flow(Request(c.cfg, c.flow_cfg))]
RunDir(x)  == <<x.ev.tool, Key(x.req)>>

-----------------------------------------------------------------------------
(* raw_handoff.py:350-411: options under which _place or the import does     *)
(* something else never share a fingerprint, and so a key or a dp directory. *)
FingerprintSeparates ==
  Cardinality({Fingerprint(o) : o \in Accepted})
    = Cardinality({<<Fingerprint(o), Procedure(o)>> : o \in Accepted})

(* raw_handoff.py:273-319: a mode that __init__ accepts is carried out: no   *)
(* accepted combination runs as if one of its modes had not been asked for.  *)
Without(o) ==
  {[o EXCEPT !.rebuf_full = FALSE], [o EXCEPT !.rebuf_presplit = FALSE],
   [o EXCEPT !.timing_driven = FALSE], [o EXCEPT !.net_weight = "none", !.netwt_scheme = "lilith"],
   [o EXCEPT !.netwt_scheme = "lilith"], [o EXCEPT !.rp_finish = "none", !.rp_args = FALSE],
   [o EXCEPT !.rp_args = FALSE], [o EXCEPT !.dp_routability = FALSE]}
OptionsHonoured == \A o \in Accepted : \A p \in Without(o) \ {o} : Procedure(p) # Procedure(o)

(* contract.py:187 and 213: requests with one key that an evaluator admits   *)
(* get one placement, as long as the placer config of a request with a flow  *)
(* is the default one, as in every caller; and the request's own ranges      *)
(* leave a flow's knobs as they are.                                         *)
Values == [density_weight: {0, 20, 80, 400, 2000}, gamma: {0, 2, 4, 8, 16}, learning_rate: {0, 4, 10, 25, 99}]
SomeStops == {<<>>, <<6, 2>>, <<6, 3>>, <<5>>, <<9, 9, 9, 9>>}
SomeFlows == {NoFlow} \cup [stops: SomeStops, dp: {v \in Values : Cardinality({n \in Names : v[n] # KNOBS[n].default}) <= 1}]
Flowing == {Request(default_config(KNOBS), f) : f \in SomeFlows}
KeysSeparate ==
  /\ \A e \in {Evaluator(r.flow) : r \in Flowing} : \A r, q \in Flowing :
       Key(r) = Key(q) /\ Admits(e, r) /\ Admits(e, q) => Placement(e, r) = Placement(e, q)
  /\ \A r \in Flowing : r.flow # NoFlow => apply_flow(r).placer = r.flow.dp

(* arm_eval.py:89 and raw_handoff.py:1147: what the driver asks for is what  *)
(* the container does: no request of a caller (a flow with the default       *)
(* placer config, or none) is refused, the container finds the same flow in  *)
(* its own clamping, and two requests with a flow write into one run         *)
(* directory exactly if they have one key.                                   *)
CommandKept ==
  LET asked == Flowing \cup {Request(v, NoFlow) : v \in Values}
      Run(r) == from_args(command(r))
  IN  /\ \A r \in asked : /\ ~Clash(command(r)) /\ Admits(Run(r).ev, Run(r).req)
                           /\ Placement(Run(r).ev, Run(r).req) = Placement(Evaluator(r.flow), r)
      /\ \A r, q \in asked : (r.flow = NoFlow) = (q.flow = NoFlow) =>
                              (RunDir(Run(r)) = RunDir(Run(q))) = (Key(r) = Key(q))
=============================================================================
