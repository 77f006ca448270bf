------------------------- MODULE BasePrepareProofs -------------------------
(***************************************************************************)
(* Proofs about BasePrepare.  As long as no builder is interrupted, what   *)
(* is on the disk is known from the step the one builder is at; a base     *)
(* that was got through the lock is finished, and the second look keeps    *)
(* everybody from building it again.                                       *)
(***************************************************************************)
EXTENDS BasePrepare, TLAPS

(* The initial state satisfies the invariant.                               *)
LEMMA InitInvariant == Init => IInv /\ LockedReadsFinished
PROOF
  BY NobodyAssumption DEF Init, IInv, TypeOK, OneBuilder, DiskFollows, SettledStays, Settled, NothingRead,
     LockedReadsFinished, Inside, Building, Writing, Reading, Ready, Finished

(* Every step keeps the types.                                              *)
LEMMA TypeStep == TypeOK /\ [Next]_vars => TypeOK'
PROOF
  <1> SUFFICES ASSUME TypeOK, [Next]_vars PROVE TypeOK'
    OBVIOUS
  <1> USE NobodyAssumption DEF TypeOK, Goto, Return, files, reader, Writing, Building, Inside, Reading
  <1>1. ASSUME NEW p \in Procs, Evaluate(p) PROVE TypeOK'
    BY <1>1 DEF Evaluate
  <1>2. ASSUME NEW p \in Procs, Look(p) PROVE TypeOK'
    BY <1>2 DEF Look
  <1>3. ASSUME NEW p \in Procs, TakeLock(p) PROVE TypeOK'
    BY <1>3 DEF TakeLock
  <1>4. ASSUME NEW p \in Procs, Relook(p) PROVE TypeOK'
    BY <1>4 DEF Relook
  <1>5. ASSUME NEW p \in Procs, MakeOdb(p) PROVE TypeOK'
    BY <1>5 DEF MakeOdb
  <1>6. ASSUME NEW p \in Procs, OdbWritten(p) PROVE TypeOK'
    BY <1>6 DEF OdbWritten
  <1>7. ASSUME NEW p \in Procs, Dump(p) PROVE TypeOK'
    BY <1>7 DEF Dump
  <1>8. ASSUME NEW p \in Procs, Dumped(p) PROVE TypeOK'
    BY <1>8 DEF Dumped
  <1>9. ASSUME NEW p \in Procs, StageWritten(p) PROVE TypeOK'
    BY <1>9 DEF StageWritten
  <1>10. ASSUME NEW p \in Procs, Clean(p) PROVE TypeOK'
    BY <1>10 DEF Clean
  <1>11. ASSUME NEW p \in Procs, MakeFails(p) PROVE TypeOK'
    BY <1>11 DEF MakeFails
  <1>12. ASSUME NEW p \in Procs, Kill(p) PROVE TypeOK'
    BY <1>12 DEF Kill
  <1>13. ASSUME NEW p \in Procs, Place(p) PROVE TypeOK'
    BY <1>13 DEF Place
  <1>14. ASSUME NEW p \in Procs, Copy(p) PROVE TypeOK'
    BY <1>14 DEF Copy
  <1>15. CASE UNCHANGED vars
    BY <1>15 DEF vars, files, reader
  <1> QED
    BY <1>1, <1>2, <1>3, <1>4, <1>5, <1>6, <1>7, <1>8, <1>9, <1>10, <1>11, <1>12, <1>13, <1>14, <1>15 DEF Next, Step, Build

(* The lock belongs to the one process that is past it.                     *)
LEMMA LockStep == TypeOK /\ OneBuilder /\ [Next]_vars => OneBuilder'
PROOF
  <1> SUFFICES ASSUME TypeOK, OneBuilder, [Next]_vars PROVE OneBuilder'
    OBVIOUS
  <1> USE NobodyAssumption DEF TypeOK, OneBuilder, Goto, Return, files, reader, Writing, Building, Inside, Reading
  <1>1. ASSUME NEW p \in Procs, Evaluate(p) PROVE OneBuilder'
    BY <1>1 DEF Evaluate
  <1>2. ASSUME NEW p \in Procs, Look(p) PROVE OneBuilder'
    BY <1>2 DEF Look
  <1>3. ASSUME NEW p \in Procs, TakeLock(p) PROVE OneBuilder'
    BY <1>3 DEF TakeLock
  <1>4. ASSUME NEW p \in Procs, Relook(p) PROVE OneBuilder'
    BY <1>4 DEF Relook
  <1>5. ASSUME NEW p \in Procs, MakeOdb(p) PROVE OneBuilder'
    BY <1>5 DEF MakeOdb
  <1>6. ASSUME NEW p \in Procs, OdbWritten(p) PROVE OneBuilder'
    BY <1>6 DEF OdbWritten
  <1>7. ASSUME NEW p \in Procs, Dump(p) PROVE OneBuilder'
    BY <1>7 DEF Dump
  <1>8. ASSUME NEW p \in Procs, Dumped(p) PROVE OneBuilder'
    BY <1>8 DEF Dumped
  <1>9. ASSUME NEW p \in Procs, StageWritten(p) PROVE OneBuilder'
    BY <1>9 DEF StageWritten
  <1>10. ASSUME NEW p \in Procs, Clean(p) PROVE OneBuilder'
    BY <1>10 DEF Clean
  <1>11. ASSUME NEW p \in Procs, MakeFails(p) PROVE OneBuilder'
    BY <1>11 DEF MakeFails
  <1>12. ASSUME NEW p \in Procs, Kill(p) PROVE OneBuilder'
    BY <1>12 DEF Kill
  <1>13. ASSUME NEW p \in Procs, Place(p) PROVE OneBuilder'
    BY <1>13 DEF Place
  <1>14. ASSUME NEW p \in Procs, Copy(p) PROVE OneBuilder'
    BY <1>14 DEF Copy
  <1>15. CASE UNCHANGED vars
    BY <1>15 DEF vars, files, reader
  <1> QED
    BY <1>1, <1>2, <1>3, <1>4, <1>5, <1>6, <1>7, <1>8, <1>9, <1>10, <1>11, <1>12, <1>13, <1>14, <1>15 DEF Next, Step, Build

(* What is on the disk follows the builder.                                 *)
LEMMA DiskStep == TypeOK /\ OneBuilder /\ DiskFollows /\ [Next]_vars => DiskFollows'
PROOF
  <1> SUFFICES ASSUME TypeOK, OneBuilder, DiskFollows, [Next]_vars PROVE DiskFollows'
    OBVIOUS
  <1> USE NobodyAssumption DEF TypeOK, OneBuilder, DiskFollows, Ready, Finished, Goto, Return, files, reader, Writing, Building, Inside, Reading
  <1>1. ASSUME NEW p \in Procs, Evaluate(p) PROVE DiskFollows'
    BY <1>1 DEF Evaluate
  <1>2. ASSUME NEW p \in Procs, Look(p) PROVE DiskFollows'
    BY <1>2 DEF Look
  <1>3. ASSUME NEW p \in Procs, TakeLock(p) PROVE DiskFollows'
    BY <1>3 DEF TakeLock
  <1>4. ASSUME NEW p \in Procs, Relook(p) PROVE DiskFollows'
    BY <1>4 DEF Relook
  <1>5. ASSUME NEW p \in Procs, MakeOdb(p) PROVE DiskFollows'
    BY <1>5 DEF MakeOdb
  <1>6. ASSUME NEW p \in Procs, OdbWritten(p) PROVE DiskFollows'
    BY <1>6 DEF OdbWritten
  <1>7. ASSUME NEW p \in Procs, Dump(p) PROVE DiskFollows'
    BY <1>7 DEF Dump
  <1>8. ASSUME NEW p \in Procs, Dumped(p) PROVE DiskFollows'
    BY <1>8 DEF Dumped
  <1>9. ASSUME NEW p \in Procs, StageWritten(p) PROVE DiskFollows'
    BY <1>9 DEF StageWritten
  <1>10. ASSUME NEW p \in Procs, Clean(p) PROVE DiskFollows'
    BY <1>10 DEF Clean
  <1>11. ASSUME NEW p \in Procs, MakeFails(p) PROVE DiskFollows'
    BY <1>11 DEF MakeFails
  <1>12. ASSUME NEW p \in Procs, Kill(p) PROVE DiskFollows'
    BY <1>12 DEF Kill
  <1>13. ASSUME NEW p \in Procs, Place(p) PROVE DiskFollows'
    BY <1>13 DEF Place
  <1>14. ASSUME NEW p \in Procs, Copy(p) PROVE DiskFollows'
    BY <1>14 DEF Copy
  <1>15. CASE UNCHANGED vars
    BY <1>15 DEF vars, files, reader
  <1> QED
    BY <1>1, <1>2, <1>3, <1>4, <1>5, <1>6, <1>7, <1>8, <1>9, <1>10, <1>11, <1>12, <1>13, <1>14, <1>15 DEF Next, Step, Build

(* A base that was got through the lock stays as it is.                     *)
LEMMA SettledStep == TypeOK /\ OneBuilder /\ DiskFollows /\ SettledStays /\ [Next]_vars => SettledStays'
PROOF
  <1> SUFFICES ASSUME TypeOK, OneBuilder, DiskFollows, SettledStays, [Next]_vars PROVE SettledStays'
    OBVIOUS
  <1> USE NobodyAssumption DEF TypeOK, OneBuilder, DiskFollows, SettledStays, Settled, Ready, Finished, Goto, Return, files, reader, Writing, Building, Inside, Reading
  <1>1. ASSUME NEW p \in Procs, Evaluate(p) PROVE SettledStays'
    BY <1>1 DEF Evaluate
  <1>2. ASSUME NEW p \in Procs, Look(p) PROVE SettledStays'
    BY <1>2 DEF Look
  <1>3. ASSUME NEW p \in Procs, TakeLock(p) PROVE SettledStays'
    BY <1>3 DEF TakeLock
  <1>4. ASSUME NEW p \in Procs, Relook(p) PROVE SettledStays'
    BY <1>4 DEF Relook
  <1>5. ASSUME NEW p \in Procs, MakeOdb(p) PROVE SettledStays'
    BY <1>5 DEF MakeOdb
  <1>6. ASSUME NEW p \in Procs, OdbWritten(p) PROVE SettledStays'
    BY <1>6 DEF OdbWritten
  <1>7. ASSUME NEW p \in Procs, Dump(p) PROVE SettledStays'
    BY <1>7 DEF Dump
  <1>8. ASSUME NEW p \in Procs, Dumped(p) PROVE SettledStays'
    BY <1>8 DEF Dumped
  <1>9. ASSUME NEW p \in Procs, StageWritten(p) PROVE SettledStays'
    BY <1>9 DEF StageWritten
  <1>10. ASSUME NEW p \in Procs, Clean(p) PROVE SettledStays'
    BY <1>10 DEF Clean
  <1>11. ASSUME NEW p \in Procs, MakeFails(p) PROVE SettledStays'
    BY <1>11 DEF MakeFails
  <1>12. ASSUME NEW p \in Procs, Kill(p) PROVE SettledStays'
    BY <1>12 DEF Kill
  <1>13. ASSUME NEW p \in Procs, Place(p) PROVE SettledStays'
    BY <1>13 DEF Place
  <1>14. ASSUME NEW p \in Procs, Copy(p) PROVE SettledStays'
    BY <1>14 DEF Copy
  <1>15. CASE UNCHANGED vars
    BY <1>15 DEF vars, files, reader
  <1> QED
    BY <1>1, <1>2, <1>3, <1>4, <1>5, <1>6, <1>7, <1>8, <1>9, <1>10, <1>11, <1>12, <1>13, <1>14, <1>15 DEF Next, Step, Build

(* An evaluation has read nothing before prepare returns.                   *)
LEMMA NothingReadStep == TypeOK /\ NothingRead /\ [Next]_vars => NothingRead'
PROOF
  <1> SUFFICES ASSUME TypeOK, NothingRead, [Next]_vars PROVE NothingRead'
    OBVIOUS
  <1> USE NobodyAssumption DEF TypeOK, NothingRead, Goto, Return, files, reader, Writing, Building, Inside, Reading
  <1>1. ASSUME NEW p \in Procs, Evaluate(p) PROVE NothingRead'
    BY <1>1 DEF Evaluate
  <1>2. ASSUME NEW p \in Procs, Look(p) PROVE NothingRead'
    BY <1>2 DEF Look
  <1>3. ASSUME NEW p \in Procs, TakeLock(p) PROVE NothingRead'
    BY <1>3 DEF TakeLock
  <1>4. ASSUME NEW p \in Procs, Relook(p) PROVE NothingRead'
    BY <1>4 DEF Relook
  <1>5. ASSUME NEW p \in Procs, MakeOdb(p) PROVE NothingRead'
    BY <1>5 DEF MakeOdb
  <1>6. ASSUME NEW p \in Procs, OdbWritten(p) PROVE NothingRead'
    BY <1>6 DEF OdbWritten
  <1>7. ASSUME NEW p \in Procs, Dump(p) PROVE NothingRead'
    BY <1>7 DEF Dump
  <1>8. ASSUME NEW p \in Procs, Dumped(p) PROVE NothingRead'
    BY <1>8 DEF Dumped
  <1>9. ASSUME NEW p \in Procs, StageWritten(p) PROVE NothingRead'
    BY <1>9 DEF StageWritten
  <1>10. ASSUME NEW p \in Procs, Clean(p) PROVE NothingRead'
    BY <1>10 DEF Clean
  <1>11. ASSUME NEW p \in Procs, MakeFails(p) PROVE NothingRead'
    BY <1>11 DEF MakeFails
  <1>12. ASSUME NEW p \in Procs, Kill(p) PROVE NothingRead'
    BY <1>12 DEF Kill
  <1>13. ASSUME NEW p \in Procs, Place(p) PROVE NothingRead'
    BY <1>13 DEF Place
  <1>14. ASSUME NEW p \in Procs, Copy(p) PROVE NothingRead'
    BY <1>14 DEF Copy
  <1>15. CASE UNCHANGED vars
    BY <1>15 DEF vars, files, reader
  <1> QED
    BY <1>1, <1>2, <1>3, <1>4, <1>5, <1>6, <1>7, <1>8, <1>9, <1>10, <1>11, <1>12, <1>13, <1>14, <1>15 DEF Next, Step, Build

(* IInv holds in every reachable state, for any number of processes, kills  *)
(* and failing makes (raw_handoff.py prepare).                              *)
THEOREM Inductive == Spec => []IInv
PROOF
  <1>1. IInv /\ [Next]_vars => IInv'
    BY TypeStep, LockStep, DiskStep, SettledStep, NothingReadStep DEF IInv
  <1> QED
    BY InitInvariant, <1>1, PTL DEF Spec

(* Who reads a base that it got through the lock reads it finished.         *)
LEMMA ReadsStep == IInv /\ LockedReadsFinished /\ [Next]_vars => LockedReadsFinished'
PROOF
  <1> SUFFICES ASSUME IInv, LockedReadsFinished, [Next]_vars PROVE LockedReadsFinished'
    OBVIOUS
  <1> USE NobodyAssumption DEF IInv, TypeOK, OneBuilder, SettledStays, NothingRead, LockedReadsFinished, Settled, Finished, Goto, Return, files, reader, Writing, Building, Inside, Reading
  <1>1. ASSUME NEW p \in Procs, Evaluate(p) PROVE LockedReadsFinished'
    BY <1>1 DEF Evaluate
  <1>2. ASSUME NEW p \in Procs, Look(p) PROVE LockedReadsFinished'
    BY <1>2 DEF Look
  <1>3. ASSUME NEW p \in Procs, TakeLock(p) PROVE LockedReadsFinished'
    BY <1>3 DEF TakeLock
  <1>4. ASSUME NEW p \in Procs, Relook(p) PROVE LockedReadsFinished'
    BY <1>4 DEF Relook
  <1>5. ASSUME NEW p \in Procs, MakeOdb(p) PROVE LockedReadsFinished'
    BY <1>5 DEF MakeOdb
  <1>6. ASSUME NEW p \in Procs, OdbWritten(p) PROVE LockedReadsFinished'
    BY <1>6 DEF OdbWritten
  <1>7. ASSUME NEW p \in Procs, Dump(p) PROVE LockedReadsFinished'
    BY <1>7 DEF Dump
  <1>8. ASSUME NEW p \in Procs, Dumped(p) PROVE LockedReadsFinished'
    BY <1>8 DEF Dumped
  <1>9. ASSUME NEW p \in Procs, StageWritten(p) PROVE LockedReadsFinished'
    BY <1>9 DEF StageWritten
  <1>10. ASSUME NEW p \in Procs, Clean(p) PROVE LockedReadsFinished'
    BY <1>10 DEF Clean
  <1>11. ASSUME NEW p \in Procs, MakeFails(p) PROVE LockedReadsFinished'
    BY <1>11 DEF MakeFails
  <1>12. ASSUME NEW p \in Procs, Kill(p) PROVE LockedReadsFinished'
    BY <1>12 DEF Kill
  <1>13. ASSUME NEW p \in Procs, Place(p) PROVE LockedReadsFinished'
    BY <1>13 DEF Place
  <1>14. ASSUME NEW p \in Procs, Copy(p) PROVE LockedReadsFinished'
    BY <1>14 DEF Copy
  <1>15. CASE UNCHANGED vars
    BY <1>15 DEF vars, files, reader
  <1> QED
    BY <1>1, <1>2, <1>3, <1>4, <1>5, <1>6, <1>7, <1>8, <1>9, <1>10, <1>11, <1>12, <1>13, <1>14, <1>15 DEF Next, Step, Build

(* raw_handoff.py:541-543: evaluations that got the base through the lock   *)
(* read nothing unfinished while no builder is interrupted.                 *)
THEOREM LockedIsSafe == Spec => []LockedReadsFinished
PROOF
  BY InitInvariant, Inductive, ReadsStep, PTL DEF Spec
=============================================================================
