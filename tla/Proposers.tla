----------------------------- MODULE Proposers ------------------------------
(***************************************************************************)
(* The proposers behind SearchV2's Proposals: what each of them may answer *)
(* when it is asked for n configs, and what run_search_v2 makes of it.     *)
(* The history is the prior and the arm-run's own configs.                 *)
(*                                                                         *)
(* Random draws are any config: all samplers of search.py have the whole   *)
(* space as support (the Parzen mixture has a uniform component).          *)
(***************************************************************************)
EXTENDS SearchV2

CONSTANTS Unusable,     \* an item of a model's answer that is no config
          MaxItems,     \* bound: items of an answer
          MaxAsked      \* bound: configs asked for, at least Batch

ASSUME AnswersAssumption == Unusable \notin Configs /\ MaxItems \in Nat /\ MaxAsked \in Nat

(* The elements of s at the indices in I, in their order; the first n of s. *)
At(s, I) == [k \in 1..Cardinality(I) |-> s[CHOOSE i \in I : Cardinality({j \in I : j < i}) = k - 1]]
First(n, s) == SubSeq(s, 1, Least(n, Len(s)))

(* RandomProposer, and TPE: random at first and while nothing has succeeded, *)
(* then the best of a few samples near the good configs; neither looks at   *)
(* whether a config has been measured, or proposed in this batch.           *)
Random(n) == [1..n -> Configs]
TPE(n)    == [1..n -> Configs]

(* A model's answer: items in any order, repeated, known or unusable; one   *)
(* that is no JSON at all has no items.                                     *)
ModelAnswers == UNION {[1..k -> Configs \cup {Unusable}] : k \in 0..MaxItems}
parse(answer) == At(answer, {i \in 1..Len(answer) : answer[i] # Unusable})
Parsed == {parse(a) : a \in ModelAnswers}

(* LLMProposer takes the first n as they are and fills up at random.        *)
LLM(n) ==
  UNION {{taken \o fill : fill \in Random(n - Len(taken))} : taken \in {First(n, items) : items \in Parsed}}

(* DiagProposer takes the first n that are new, and fills up with draws that *)
(* are new; its last two of 50 * n tries are taken whatever they are, so the *)
(* answer may have known ones at its end, and be short.                     *)
Chosen(seen, items, n) ==
  First(n, At(items, {i \in 1..Len(items) : items[i] \notin seen
                        /\ \A j \in 1..(i - 1) : items[j] # items[i]}))
NewAfter(known, s) == IsInjective(s) /\ Elements(s) \cap known = {}
Filled(seen, taken, n) ==
  UNION {LET fresh == {s \in Random(k) : NewAfter(seen \cup Elements(taken), s)}
             missing == n - Len(taken) - k
         IN  {taken \o s \o last : s \in fresh, last \in Random(Least(2, missing))}
           : k \in 0..(n - Len(taken))}
Diag(seen, n) == UNION {Filled(seen, taken, n) : taken \in {Chosen(seen, items, n) : items \in Parsed}}

(* An LLMError: the proposer's fallback, or a new generator, is asked.      *)
Fallback(n) == Random(n)

-----------------------------------------------------------------------------
(* The loop draws again for a config until it is new, one after the other.  *)
(* Mutant: what the batch itself has is not added to the seen ones.         *)
DeduplicatedOnSeen(seen, cs) ==
  {ds \in [1..Len(cs) -> Configs \ seen] : \A i \in 1..Len(cs) : cs[i] \notin seen => ds[i] = cs[i]}
Deduplicated(seen, cs) ==
  {ds \in [1..Len(cs) -> Configs \ seen] :
     \A i \in 1..Len(cs) :
       LET before == {ds[j] : j \in 1..(i - 1)}
       IN  ds[i] \in IF cs[i] \notin seen \cup before THEN {cs[i]} ELSE Configs \ before}

(* search.py:588-596: whichever proposer is asked and whatever a model       *)
(* answers (too few, too many, repeated, known or no configs), the loop      *)
(* evaluates between one config and as many as it asked for, and they are    *)
(* some that Proposals allows: all different, none in the history.           *)
Asked(seen, n) == Random(n) \cup TPE(n) \cup LLM(n) \cup Diag(seen, n) \cup Fallback(n)
ProposersConform ==
  pc = "top" /\ used < Budget =>
    LET seen == Prior \cup Measured
    IN  \A n \in 1..MaxAsked :
          LET allowed == [k \in 1..n |-> Proposals(k)]
          IN  \A cs \in Asked(seen, n) :
                Len(cs) \in 1..n /\ Deduplicated(seen, cs) \subseteq allowed[Len(cs)]
=============================================================================
