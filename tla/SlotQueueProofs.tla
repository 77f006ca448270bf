-------------------------- MODULE SlotQueueProofs --------------------------
(***************************************************************************)
(* Proofs about SlotQueue.  A slot has one holder because the lock is      *)
(* tried and taken in one step; a script is not overtaken because the      *)
(* older ticket stays in the directory, in every listing and in front.     *)
(***************************************************************************)
EXTENDS SlotQueue, FiniteSetTheorems, WellFoundedInduction, TLAPS

(* A non-empty set of scripts has an oldest ticket.                         *)
LEMMA OldestExists ==
  ASSUME TypeOK, NEW S \in SUBSET Scripts, S # {}
  PROVE  Oldest(S) \in S /\ \A q \in S : stamp[Oldest(S)] <= stamp[q]
PROOF
  <1> DEFINE T == {stamp[q] : q \in S}
  <1>1. T \subseteq Nat /\ T # {}
    BY DEF TypeOK
  <1>2. \E x \in T : \A y \in T : ~ (y < x)
    <2> HIDE DEF T
    <2>1. \E x \in T : \A y \in T : ~ (<<y, x>> \in OpToRel(<, Nat))
      BY <1>1, NatLessThanWellFounded, WFMin
    <2> QED
      BY <1>1, <2>1 DEF OpToRel
  <1>3. \E x \in T : \A y \in T : x <= y
    <2> HIDE DEF T
    <2> QED  BY <1>1, <1>2
  <1>4. \E p \in S : \A q \in S : stamp[p] <= stamp[q]
    BY <1>3, <1>1
  <1> QED
    BY <1>4 DEF Oldest

(* The initial state satisfies the invariant.                               *)
LEMMA InitInvariant == Init => IInv
PROOF
  BY SlotsAssumption DEF Init, IInv, TypeOK, SlotsApart, TicketsKept, Holding, Waiting, Ended

(* Every step keeps the types.                                              *)
LEMMA TypeStep == TypeOK /\ SlotsApart /\ [Next]_vars => TypeOK'
PROOF
  <1> SUFFICES ASSUME TypeOK, SlotsApart, [Next]_vars PROVE TypeOK'
    OBVIOUS
  <1> USE DEF TypeOK, Goto, Waiting, Ended, script, bounds
  <1>1. ASSUME NEW p \in Scripts, Arrive(p) PROVE TypeOK'
    BY <1>1 DEF Arrive
  <1>2. ASSUME NEW p \in Scripts, DropTicket(p) PROVE TypeOK'
    BY <1>2 DEF DropTicket
  <1>3. ASSUME NEW p \in Scripts, List(p) PROVE TypeOK'
    BY <1>3 DEF List
  <1>4. ASSUME NEW p \in Scripts, RemoveDead(p) PROVE TypeOK'
    BY <1>4 DEF RemoveDead
  <1>5. ASSUME NEW p \in Scripts, FoundFirst(p) PROVE TypeOK'
    BY <1>5 DEF FoundFirst
  <1>6. ASSUME NEW p \in Scripts, DiskOk(p) PROVE TypeOK'
    BY <1>6, SlotsAssumption DEF DiskOk
  <1>7. ASSUME NEW p \in Scripts, Sleep(p) PROVE TypeOK'
    BY <1>7 DEF Sleep
  <1>8. ASSUME NEW p \in Scripts, TakeSlot(p) PROVE TypeOK'
    BY <1>8 DEF TakeSlot
  <1>9. ASSUME NEW p \in Scripts, NextSlot(p) PROVE TypeOK'
    BY <1>9, SlotsAssumption DEF NextSlot
  <1>10. ASSUME NEW p \in Scripts, RemoveTicket(p) PROVE TypeOK'
    BY <1>10 DEF RemoveTicket
  <1>11. ASSUME NEW p \in Scripts, StartChild(p) PROVE TypeOK'
    BY <1>11 DEF StartChild
  <1>12. ASSUME NEW p \in Scripts, ChildEnds(p) PROVE TypeOK'
    BY <1>12 DEF ChildEnds
  <1>13. ASSUME NEW p \in Scripts, Exit(p) PROVE TypeOK'
    BY <1>13 DEF Exit
  <1>14. ASSUME NEW p \in Scripts, Kill(p) PROVE TypeOK'
    BY <1>14 DEF Kill
  <1>15. ASSUME NEW p \in Scripts, ReusePid(p) PROVE TypeOK'
    BY <1>15 DEF ReusePid
  <1>16. ASSUME NEW p \in Scripts, FreePid(p) PROVE TypeOK'
    BY <1>16 DEF FreePid
  <1>17. CASE UNCHANGED vars
    BY <1>17 DEF vars, script, bounds
  <1>18. Over => UNCHANGED vars
    BY DEF Over
  <1> QED
    BY <1>1, <1>2, <1>3, <1>4, <1>5, <1>6, <1>7, <1>8, <1>9, <1>10, <1>11, <1>12, <1>13, <1>14, <1>15, <1>16, <1>17, <1>18 DEF Next, Script

(* Every step keeps the slots apart.                                        *)
LEMMA SlotsStep == TypeOK /\ SlotsApart /\ [Next]_vars => SlotsApart'
PROOF
  <1> SUFFICES ASSUME TypeOK, SlotsApart, [Next]_vars PROVE SlotsApart'
    OBVIOUS
  <1> USE DEF TypeOK, SlotsApart, Holding, Goto, Waiting, Ended, script, bounds
  <1>1. ASSUME NEW p \in Scripts, Arrive(p) PROVE SlotsApart'
    BY <1>1 DEF Arrive
  <1>2. ASSUME NEW p \in Scripts, DropTicket(p) PROVE SlotsApart'
    BY <1>2 DEF DropTicket
  <1>3. ASSUME NEW p \in Scripts, List(p) PROVE SlotsApart'
    BY <1>3 DEF List
  <1>4. ASSUME NEW p \in Scripts, RemoveDead(p) PROVE SlotsApart'
    BY <1>4 DEF RemoveDead
  <1>5. ASSUME NEW p \in Scripts, FoundFirst(p) PROVE SlotsApart'
    BY <1>5 DEF FoundFirst
  <1>6. ASSUME NEW p \in Scripts, DiskOk(p) PROVE SlotsApart'
    BY <1>6, SlotsAssumption DEF DiskOk
  <1>7. ASSUME NEW p \in Scripts, Sleep(p) PROVE SlotsApart'
    BY <1>7 DEF Sleep
  <1>8. ASSUME NEW p \in Scripts, TakeSlot(p) PROVE SlotsApart'
    BY <1>8 DEF TakeSlot, SlotFree
  <1>9. ASSUME NEW p \in Scripts, NextSlot(p) PROVE SlotsApart'
    BY <1>9, SlotsAssumption DEF NextSlot, SlotFree
  <1>10. ASSUME NEW p \in Scripts, RemoveTicket(p) PROVE SlotsApart'
    BY <1>10 DEF RemoveTicket
  <1>11. ASSUME NEW p \in Scripts, StartChild(p) PROVE SlotsApart'
    BY <1>11 DEF StartChild
  <1>12. ASSUME NEW p \in Scripts, ChildEnds(p) PROVE SlotsApart'
    BY <1>12 DEF ChildEnds
  <1>13. ASSUME NEW p \in Scripts, Exit(p) PROVE SlotsApart'
    BY <1>13 DEF Exit
  <1>14. ASSUME NEW p \in Scripts, Kill(p) PROVE SlotsApart'
    BY <1>14 DEF Kill
  <1>15. ASSUME NEW p \in Scripts, ReusePid(p) PROVE SlotsApart'
    BY <1>15 DEF ReusePid
  <1>16. ASSUME NEW p \in Scripts, FreePid(p) PROVE SlotsApart'
    BY <1>16 DEF FreePid
  <1>17. CASE UNCHANGED vars
    BY <1>17 DEF vars, script, bounds
  <1>18. Over => UNCHANGED vars
    BY DEF Over
  <1> QED
    BY <1>1, <1>2, <1>3, <1>4, <1>5, <1>6, <1>7, <1>8, <1>9, <1>10, <1>11, <1>12, <1>13, <1>14, <1>15, <1>16, <1>17, <1>18 DEF Next, Script

(* Every step keeps the tickets and their order.                            *)
LEMMA TicketsStep == TypeOK /\ SlotsApart /\ TicketsKept /\ [Next]_vars => TicketsKept'
PROOF
  <1> SUFFICES ASSUME TypeOK, SlotsApart, TicketsKept, [Next]_vars PROVE TicketsKept'
    OBVIOUS
  <1> USE DEF TypeOK, TicketsKept, Goto, Waiting, Ended, script, bounds
  <1>1. ASSUME NEW p \in Scripts, Arrive(p) PROVE TicketsKept'
    BY <1>1 DEF Arrive
  <1>2. ASSUME NEW p \in Scripts, DropTicket(p) PROVE TicketsKept'
    BY <1>2 DEF DropTicket
  <1>3. ASSUME NEW p \in Scripts, List(p) PROVE TicketsKept'
    BY <1>3 DEF List
  <1>4. ASSUME NEW p \in Scripts, RemoveDead(p) PROVE TicketsKept'
    BY <1>4 DEF RemoveDead, Answers
  <1>5. ASSUME NEW p \in Scripts, FoundFirst(p) PROVE TicketsKept'
    BY <1>5, OldestExists DEF FoundFirst
  <1>6. ASSUME NEW p \in Scripts, DiskOk(p) PROVE TicketsKept'
    BY <1>6 DEF DiskOk
  <1>7. ASSUME NEW p \in Scripts, Sleep(p) PROVE TicketsKept'
    BY <1>7 DEF Sleep
  <1>8. ASSUME NEW p \in Scripts, TakeSlot(p) PROVE TicketsKept'
    BY <1>8 DEF TakeSlot
  <1>9. ASSUME NEW p \in Scripts, NextSlot(p) PROVE TicketsKept'
    BY <1>9 DEF NextSlot
  <1>10. ASSUME NEW p \in Scripts, RemoveTicket(p) PROVE TicketsKept'
    BY <1>10 DEF RemoveTicket
  <1>11. ASSUME NEW p \in Scripts, StartChild(p) PROVE TicketsKept'
    BY <1>11 DEF StartChild
  <1>12. ASSUME NEW p \in Scripts, ChildEnds(p) PROVE TicketsKept'
    BY <1>12 DEF ChildEnds
  <1>13. ASSUME NEW p \in Scripts, Exit(p) PROVE TicketsKept'
    BY <1>13 DEF Exit
  <1>14. ASSUME NEW p \in Scripts, Kill(p) PROVE TicketsKept'
    BY <1>14 DEF Kill
  <1>15. ASSUME NEW p \in Scripts, ReusePid(p) PROVE TicketsKept'
    BY <1>15 DEF ReusePid
  <1>16. ASSUME NEW p \in Scripts, FreePid(p) PROVE TicketsKept'
    BY <1>16 DEF FreePid
  <1>17. CASE UNCHANGED vars
    BY <1>17 DEF vars, script, bounds
  <1>18. Over => UNCHANGED vars
    BY DEF Over
  <1> QED
    BY <1>1, <1>2, <1>3, <1>4, <1>5, <1>6, <1>7, <1>8, <1>9, <1>10, <1>11, <1>12, <1>13, <1>14, <1>15, <1>16, <1>17, <1>18 DEF Next, Script

(* IInv holds in every reachable state, for any scripts, slots, kills and   *)
(* reuses of pids (slot.sh).                                                *)
THEOREM Inductive == Spec => []IInv
PROOF
  <1>1. IInv /\ [Next]_vars => IInv'
    BY TypeStep, SlotsStep, TicketsStep DEF IInv
  <1> QED
    BY InitInvariant, <1>1, PTL DEF Spec

(* Containers of different scripts run in different slots, so that they     *)
(* are never more than the slots.                                           *)
LEMMA CapFollows == TypeOK /\ SlotsApart => CapKept
PROOF
  <1> SUFFICES ASSUME TypeOK, SlotsApart PROVE CapKept
    OBVIOUS
  <1> DEFINE C == {p \in Scripts : child[p] = "running"}
             f == [p \in C |-> slot[p]]
  <1>1. f \in Injection(C, 1..Slots)
    <2>1. f \in [C -> 1..Slots]
      BY DEF SlotsApart, Holding
    <2>2. \A p, q \in C : f[p] = f[q] => p = q
      BY DEF SlotsApart, Holding
    <2> QED
      BY <2>1, <2>2 DEF Injection, IsInjective
  <1>2. IsFiniteSet(1..Slots) /\ Cardinality(1..Slots) = Slots
    BY SlotsAssumption, FS_Interval
  <1>3. Cardinality(C) <= Slots
    <2> HIDE DEF C, f
    <2> QED  BY <1>1, <1>2, FS_Injection
  <1> QED
    BY <1>3 DEF CapKept

(* slot.sh:1: the containers running are never more than the slots, those   *)
(* that killed scripts left behind included.                                *)
THEOREM CapIsKept == Spec => []CapKept
PROOF
  BY Inductive, CapFollows, PTL DEF IInv

(* slot.sh:3-4: nobody takes a slot ahead of a script whose ticket was in   *)
(* the directory when it came.                                              *)
THEOREM NobodyIsOvertaken == Spec => FirstComeFirstServed
PROOF
  <1> DEFINE NoOvertaking == \A p \in Scripts : step[p] = "try" /\ step'[p] = "drop" =>
                               \A q \in before[p] : step[q] \notin Waiting
  <1>1. IInv /\ [Next]_vars => [NoOvertaking]_vars
    BY DEF IInv, TypeOK, TicketsKept
  <1> QED
    BY Inductive, <1>1, PTL DEF Spec, FirstComeFirstServed
=============================================================================
