---------------------------- MODULE SingleFlight ----------------------------
(***************************************************************************)
(* What the evaluators promise for one identity, whatever the threads, the *)
(* processes and the database do: a flight per key at a time, callers      *)
(* attach only to a flight that is in the air, its verdict is given once,  *)
(* while it is in the air, it lands with a verdict, and a caller leaves    *)
(* only when every flight it attached to has one.  A restart of the driver *)
(* forgets the flights in the air and the callers, never a verdict.        *)
(***************************************************************************)
EXTENDS Naturals, Sequences

CONSTANTS Callers, Keys, Verdicts, Undecided

VARIABLES flight,    \* key -> the number of its flight in the air, 0 when none
          verdict,   \* what each flight found, in order of take-off
          asked      \* caller, key -> the flight it attached to, 0 when none

vars == <<flight, verdict, asked>>

Init == /\ flight = [k \in Keys |-> 0]
        /\ verdict = <<>>
        /\ asked = [c \in Callers |-> [k \in Keys |-> 0]]

TakeOff(c, k) ==
  /\ flight[k] = 0
  /\ flight' = [flight EXCEPT ![k] = Len(verdict) + 1]
  /\ verdict' = Append(verdict, Undecided)
  /\ asked' = [asked EXCEPT ![c][k] = Len(verdict) + 1]

Attach(c, k) ==
  /\ flight[k] # 0
  /\ asked' = [asked EXCEPT ![c][k] = flight[k]]
  /\ UNCHANGED <<flight, verdict>>

Decide(k) ==
  /\ flight[k] # 0 /\ verdict[flight[k]] = Undecided
  /\ DOMAIN verdict' = DOMAIN verdict
  /\ \A f \in DOMAIN verdict : IF f = flight[k] THEN verdict'[f] \in Verdicts \ {Undecided}
                                ELSE verdict'[f] = verdict[f]
  /\ UNCHANGED <<flight, asked>>

Land(k) ==
  /\ flight[k] # 0 /\ verdict[flight[k]] # Undecided
  /\ flight' = [flight EXCEPT ![k] = 0]
  /\ UNCHANGED <<verdict, asked>>

Leave(c) ==
  /\ \A k \in Keys : asked[c][k] # 0 => verdict[asked[c][k]] # Undecided
  /\ asked' = [asked EXCEPT ![c] = [k \in Keys |-> 0]]
  /\ UNCHANGED <<flight, verdict>>

Restart ==
  /\ flight' = [k \in Keys |-> 0]
  /\ asked' = [c \in Callers |-> [k \in Keys |-> 0]]
  /\ UNCHANGED verdict

Next ==
  \/ \E c \in Callers, k \in Keys : TakeOff(c, k) \/ Attach(c, k)
  \/ \E k \in Keys : Decide(k) \/ Land(k)
  \/ \E c \in Callers : Leave(c)
  \/ Restart

Spec == Init /\ [][Next]_vars
=============================================================================
