------------------------- MODULE UpdateIfCopy_proofs -------------------------
(***************************************************************************)
(* Proofs about UpdateIfCopy, for any arrays, copies and values: the type  *)
(* invariant, that a copy is written back at most once and never after an  *)
(* error, and that no lock is forgotten.                                   *)
(***************************************************************************)
EXTENDS UpdateIfCopy, TLAPS

\* What the state of a copy says about its flag, its base and its history: only
\* one that still has both flag and base will be written back, and it was not
\* before.
CopyInv ==
  \A c \in Copy :
    /\ wrote[c] <= 1
    /\ cflag[c] /\ cbase[c] # NoArray => wrote[c] = 0
    /\ failed[c] => ~cflag[c] /\ wrote[c] = 0
    /\ cstate[c] = "unused" => cbase[c] = NoArray /\ ~cflag[c] /\ wrote[c] = 0 /\ ~failed[c]
    /\ cstate[c] = "unlocked" => cflag[c] /\ cbase[c] # NoArray

\* The copy an operation works on is its own, and its base is the output array.
OpInv ==
  /\ op.step \in {"check", "run"} => op.out \in Array /\ op.kind \in Kinds
  /\ op.step = "run" =>
       /\ op.copy \in Copy /\ cstate[op.copy] = "native"
       /\ cflag[op.copy] /\ cbase[op.copy] = op.out

IInv == TypeOK /\ CopyInv /\ OpInv /\ LockHasHolder

-----------------------------------------------------------------------------
(* Every step keeps the invariant.                                         *)

\* The contents of a fresh block are some value.
LEMMA AnyValueType == AnyValue \in Value
  BY UICAssumption DEF AnyValue

\* Types.
LEMMA TypeStep == IInv /\ [Next]_vars => TypeOK'
  <1>. SUFFICES ASSUME IInv, [Next]_vars  PROVE TypeOK'
    OBVIOUS
  <1>. TypeOK /\ CopyInv /\ OpInv /\ LockHasHolder
    BY DEF IInv
  <1>1. CASE UNCHANGED vars
    BY <1>1 DEF vars, arrVars, copyVars, TypeOK
  <1>2. ASSUME NEW a \in Array, NEW v \in Value, Write(a, v)  PROVE TypeOK'
    BY <1>2, UICAssumption DEF Write, arrVars, copyVars, TypeOK
  <1>3. ASSUME NEW a \in Array, NEW b \in BOOLEAN, SetWriteable(a, b)  PROVE TypeOK'
    BY <1>3, UICAssumption DEF SetWriteable, arrVars, copyVars, TypeOK
  <1>4. ASSUME NEW a \in Array, NEW c \in Copy, FlatView(a, c)  PROVE TypeOK'
    BY <1>4, UICAssumption DEF FlatView, MakeCopy, arrVars, copyVars, TypeOK
  <1>5. ASSUME NEW k \in Kinds, NEW a \in Array, NEW r \in Value, InPlace(k, a, r)  PROVE TypeOK'
    BY <1>5, UICAssumption DEF InPlace, arrVars, copyVars, TypeOK
  <1>5a. ASSUME NEW a \in Array, NEW v \in Value, InPlaceFails(a, v)  PROVE TypeOK'
    BY <1>5a, UICAssumption DEF InPlaceFails, arrVars, copyVars, TypeOK
  <1>6. ASSUME NEW k \in Kinds, NEW a \in Array, NEW r \in Value, Check(k, a, r)  PROVE TypeOK'
    BY <1>6, UICAssumption DEF Check, arrVars, copyVars, TypeOK
  <1>7. ASSUME NEW c \in Copy, NEW v \in Value, WriteCopy(c, v)  PROVE TypeOK'
    BY <1>7, UICAssumption DEF WriteCopy, arrVars, copyVars, TypeOK
  <1>8. ASSUME NEW c \in Copy, DropCopy(c)  PROVE TypeOK'
    BY <1>8, UICAssumption DEF DropCopy, arrVars, copyVars, TypeOK
  <1>9. ASSUME NEW c \in Copy, ClearUpdateIfCopy(c)  PROVE TypeOK'
    BY <1>9, UICAssumption DEF ClearUpdateIfCopy, arrVars, copyVars, TypeOK
  <1>10. ASSUME NEW c \in Copy, FinalizeUnlock(c)  PROVE TypeOK'
    BY <1>10, UICAssumption DEF FinalizeUnlock, arrVars, copyVars, TypeOK
  <1>11. ASSUME NEW c \in Copy, FinalizeCopy(c)  PROVE TypeOK'
    BY <1>11, UICAssumption DEF FinalizeCopy, arrVars, copyVars, TypeOK
  <1>12. ASSUME NEW c \in Copy, FinalizeFree(c)  PROVE TypeOK'
    BY <1>12, AnyValueType, UICAssumption DEF FinalizeFree, Free, arrVars, copyVars, TypeOK
  <1>13. ASSUME NEW c \in Copy, Lock(c)  PROVE TypeOK'
    BY <1>13, UICAssumption DEF Lock, MakeCopy, arrVars, copyVars, OpInv, TypeOK
  <1>14. CASE FinishForced
    BY <1>14, UICAssumption DEF FinishForced, arrVars, copyVars, OpInv, TypeOK
  <1>15. CASE FinishTake
    BY <1>15, UICAssumption DEF FinishTake, arrVars, copyVars, TypeOK
  <1>16. CASE PutMaskNothing
    BY <1>16, UICAssumption DEF PutMaskNothing, Idle, arrVars, copyVars, OpInv, TypeOK
  <1>17. ASSUME NEW v \in Value, Fail(v)  PROVE TypeOK'
    BY <1>17, UICAssumption DEF Fail, Idle, arrVars, copyVars, TypeOK
  <1>18. CASE Return
    BY <1>18, UICAssumption DEF Return, Idle, arrVars, copyVars, TypeOK
  <1>19. QED
    BY <1>1, <1>2, <1>3, <1>4, <1>5, <1>5a, <1>6, <1>7, <1>8, <1>9, <1>10, <1>11, <1>12, <1>13, <1>14, <1>15, <1>16, <1>17, <1>18 DEF Next, OpStep, Finalizer

\* Write-backs detach the copy, and errors clear its flag.
LEMMA CopyStep == IInv /\ [Next]_vars => CopyInv'
  <1>. SUFFICES ASSUME IInv, [Next]_vars  PROVE CopyInv'
    OBVIOUS
  <1>. TypeOK /\ CopyInv /\ OpInv /\ LockHasHolder
    BY DEF IInv
  <1>1. CASE UNCHANGED vars
    BY <1>1 DEF vars, arrVars, copyVars, CopyInv, OpInv, TypeOK
  <1>2. ASSUME NEW a \in Array, NEW v \in Value, Write(a, v)  PROVE CopyInv'
    BY <1>2, UICAssumption DEF Write, arrVars, copyVars, CopyInv, OpInv, TypeOK
  <1>3. ASSUME NEW a \in Array, NEW b \in BOOLEAN, SetWriteable(a, b)  PROVE CopyInv'
    BY <1>3, UICAssumption DEF SetWriteable, arrVars, copyVars, CopyInv, OpInv, TypeOK
  <1>4. ASSUME NEW a \in Array, NEW c \in Copy, FlatView(a, c)  PROVE CopyInv'
    BY <1>4, UICAssumption DEF FlatView, MakeCopy, arrVars, copyVars, CopyInv, OpInv, TypeOK
  <1>5. ASSUME NEW k \in Kinds, NEW a \in Array, NEW r \in Value, InPlace(k, a, r)  PROVE CopyInv'
    BY <1>5, UICAssumption DEF InPlace, arrVars, copyVars, CopyInv, OpInv, TypeOK
  <1>5a. ASSUME NEW a \in Array, NEW v \in Value, InPlaceFails(a, v)  PROVE CopyInv'
    BY <1>5a, UICAssumption DEF InPlaceFails, arrVars, copyVars, CopyInv, OpInv, TypeOK
  <1>6. ASSUME NEW k \in Kinds, NEW a \in Array, NEW r \in Value, Check(k, a, r)  PROVE CopyInv'
    BY <1>6, UICAssumption DEF Check, arrVars, copyVars, CopyInv, OpInv, TypeOK
  <1>7. ASSUME NEW c \in Copy, NEW v \in Value, WriteCopy(c, v)  PROVE CopyInv'
    BY <1>7, UICAssumption DEF WriteCopy, arrVars, copyVars, CopyInv, OpInv, TypeOK
  <1>8. ASSUME NEW c \in Copy, DropCopy(c)  PROVE CopyInv'
    BY <1>8, UICAssumption DEF DropCopy, arrVars, copyVars, CopyInv, OpInv, TypeOK
  <1>9. ASSUME NEW c \in Copy, ClearUpdateIfCopy(c)  PROVE CopyInv'
    BY <1>9, UICAssumption DEF ClearUpdateIfCopy, arrVars, copyVars, CopyInv, OpInv, TypeOK
  <1>10. ASSUME NEW c \in Copy, FinalizeUnlock(c)  PROVE CopyInv'
    BY <1>10, UICAssumption DEF FinalizeUnlock, arrVars, copyVars, CopyInv, OpInv, TypeOK
  <1>11. ASSUME NEW c \in Copy, FinalizeCopy(c)  PROVE CopyInv'
    BY <1>11, UICAssumption DEF FinalizeCopy, arrVars, copyVars, CopyInv, OpInv, TypeOK
  <1>12. ASSUME NEW c \in Copy, FinalizeFree(c)  PROVE CopyInv'
    BY <1>12, UICAssumption DEF FinalizeFree, Free, arrVars, copyVars, CopyInv, OpInv, TypeOK
  <1>13. ASSUME NEW c \in Copy, Lock(c)  PROVE CopyInv'
    BY <1>13, UICAssumption DEF Lock, MakeCopy, arrVars, copyVars, CopyInv, OpInv, TypeOK
  <1>14. CASE FinishForced
    BY <1>14, UICAssumption DEF FinishForced, arrVars, copyVars, CopyInv, OpInv, TypeOK
  <1>15. CASE FinishTake
    BY <1>15, UICAssumption DEF FinishTake, arrVars, copyVars, CopyInv, OpInv, TypeOK
  <1>16. CASE PutMaskNothing
    BY <1>16, UICAssumption DEF PutMaskNothing, Idle, arrVars, copyVars, CopyInv, OpInv, TypeOK
  <1>17. ASSUME NEW v \in Value, Fail(v)  PROVE CopyInv'
    BY <1>17, UICAssumption DEF Fail, Idle, arrVars, copyVars, CopyInv, OpInv, TypeOK
  <1>18. CASE Return
    BY <1>18, UICAssumption DEF Return, Idle, arrVars, copyVars, CopyInv, OpInv, TypeOK
  <1>19. QED
    BY <1>1, <1>2, <1>3, <1>4, <1>5, <1>5a, <1>6, <1>7, <1>8, <1>9, <1>10, <1>11, <1>12, <1>13, <1>14, <1>15, <1>16, <1>17, <1>18 DEF Next, OpStep, Finalizer

\* Nobody else touches the copy of the operation in progress.
LEMMA OpStepInv == IInv /\ [Next]_vars => OpInv'
  <1>. SUFFICES ASSUME IInv, [Next]_vars  PROVE OpInv'
    OBVIOUS
  <1>. TypeOK /\ CopyInv /\ OpInv /\ LockHasHolder
    BY DEF IInv
  <1>1. CASE UNCHANGED vars
    BY <1>1 DEF vars, arrVars, copyVars, OpInv, CopyInv, TypeOK
  <1>2. ASSUME NEW a \in Array, NEW v \in Value, Write(a, v)  PROVE OpInv'
    BY <1>2, UICAssumption DEF Write, arrVars, copyVars, OpInv, CopyInv, TypeOK
  <1>3. ASSUME NEW a \in Array, NEW b \in BOOLEAN, SetWriteable(a, b)  PROVE OpInv'
    BY <1>3, UICAssumption DEF SetWriteable, arrVars, copyVars, OpInv, CopyInv, TypeOK
  <1>4. ASSUME NEW a \in Array, NEW c \in Copy, FlatView(a, c)  PROVE OpInv'
    BY <1>4, UICAssumption DEF FlatView, MakeCopy, arrVars, copyVars, OpInv, CopyInv, TypeOK
  <1>5. ASSUME NEW k \in Kinds, NEW a \in Array, NEW r \in Value, InPlace(k, a, r)  PROVE OpInv'
    BY <1>5, UICAssumption DEF InPlace, arrVars, copyVars, OpInv, CopyInv, TypeOK
  <1>5a. ASSUME NEW a \in Array, NEW v \in Value, InPlaceFails(a, v)  PROVE OpInv'
    BY <1>5a, UICAssumption DEF InPlaceFails, arrVars, copyVars, OpInv, CopyInv, TypeOK
  <1>6. ASSUME NEW k \in Kinds, NEW a \in Array, NEW r \in Value, Check(k, a, r)  PROVE OpInv'
    BY <1>6, UICAssumption DEF Check, arrVars, copyVars, OpInv, CopyInv, TypeOK
  <1>7. ASSUME NEW c \in Copy, NEW v \in Value, WriteCopy(c, v)  PROVE OpInv'
    BY <1>7, UICAssumption DEF WriteCopy, arrVars, copyVars, OpInv, CopyInv, TypeOK
  <1>8. ASSUME NEW c \in Copy, DropCopy(c)  PROVE OpInv'
    BY <1>8, UICAssumption DEF DropCopy, arrVars, copyVars, OpInv, CopyInv, TypeOK
  <1>9. ASSUME NEW c \in Copy, ClearUpdateIfCopy(c)  PROVE OpInv'
    BY <1>9, UICAssumption DEF ClearUpdateIfCopy, arrVars, copyVars, OpInv, CopyInv, TypeOK
  <1>10. ASSUME NEW c \in Copy, FinalizeUnlock(c)  PROVE OpInv'
    BY <1>10, UICAssumption DEF FinalizeUnlock, arrVars, copyVars, OpInv, CopyInv, TypeOK
  <1>11. ASSUME NEW c \in Copy, FinalizeCopy(c)  PROVE OpInv'
    BY <1>11, UICAssumption DEF FinalizeCopy, arrVars, copyVars, OpInv, CopyInv, TypeOK
  <1>12. ASSUME NEW c \in Copy, FinalizeFree(c)  PROVE OpInv'
    BY <1>12, UICAssumption DEF FinalizeFree, Free, arrVars, copyVars, OpInv, CopyInv, TypeOK
  <1>13. ASSUME NEW c \in Copy, Lock(c)  PROVE OpInv'
    BY <1>13, UICAssumption DEF Lock, MakeCopy, arrVars, copyVars, OpInv, CopyInv, TypeOK
  <1>14. CASE FinishForced
    BY <1>14, UICAssumption DEF FinishForced, arrVars, copyVars, OpInv, CopyInv, TypeOK
  <1>15. CASE FinishTake
    BY <1>15, UICAssumption DEF FinishTake, arrVars, copyVars, OpInv, CopyInv, TypeOK
  <1>16. CASE PutMaskNothing
    BY <1>16, UICAssumption DEF PutMaskNothing, Idle, arrVars, copyVars, OpInv, CopyInv, TypeOK
  <1>17. ASSUME NEW v \in Value, Fail(v)  PROVE OpInv'
    BY <1>17, UICAssumption DEF Fail, Idle, arrVars, copyVars, OpInv, CopyInv, TypeOK
  <1>18. CASE Return
    BY <1>18, UICAssumption DEF Return, Idle, arrVars, copyVars, OpInv, CopyInv, TypeOK
  <1>19. QED
    BY <1>1, <1>2, <1>3, <1>4, <1>5, <1>5a, <1>6, <1>7, <1>8, <1>9, <1>10, <1>11, <1>12, <1>13, <1>14, <1>15, <1>16, <1>17, <1>18 DEF Next, OpStep, Finalizer

\* Who stops holding the lock of an array unlocks or abandons it.
LEMMA HolderStep == IInv /\ [Next]_vars => LockHasHolder'
  <1>. SUFFICES ASSUME IInv, [Next]_vars  PROVE LockHasHolder'
    OBVIOUS
  <1>. TypeOK /\ CopyInv /\ OpInv /\ LockHasHolder
    BY DEF IInv
  <1>1. CASE UNCHANGED vars
    BY <1>1 DEF vars, arrVars, copyVars, LockHasHolder, OpInv, CopyInv, TypeOK
  <1>2. ASSUME NEW a \in Array, NEW v \in Value, Write(a, v)  PROVE LockHasHolder'
    BY <1>2, UICAssumption DEF Write, arrVars, copyVars, LockHasHolder, OpInv, CopyInv, TypeOK
  <1>3. ASSUME NEW a \in Array, NEW b \in BOOLEAN, SetWriteable(a, b)  PROVE LockHasHolder'
    BY <1>3, UICAssumption DEF SetWriteable, arrVars, copyVars, LockHasHolder, OpInv, CopyInv, TypeOK
  <1>4. ASSUME NEW a \in Array, NEW c \in Copy, FlatView(a, c)  PROVE LockHasHolder'
    BY <1>4, UICAssumption DEF FlatView, MakeCopy, arrVars, copyVars, LockHasHolder, OpInv, CopyInv, TypeOK
  <1>5. ASSUME NEW k \in Kinds, NEW a \in Array, NEW r \in Value, InPlace(k, a, r)  PROVE LockHasHolder'
    BY <1>5, UICAssumption DEF InPlace, arrVars, copyVars, LockHasHolder, OpInv, CopyInv, TypeOK
  <1>5a. ASSUME NEW a \in Array, NEW v \in Value, InPlaceFails(a, v)  PROVE LockHasHolder'
    BY <1>5a, UICAssumption DEF InPlaceFails, arrVars, copyVars, LockHasHolder, OpInv, CopyInv, TypeOK
  <1>6. ASSUME NEW k \in Kinds, NEW a \in Array, NEW r \in Value, Check(k, a, r)  PROVE LockHasHolder'
    BY <1>6, UICAssumption DEF Check, arrVars, copyVars, LockHasHolder, OpInv, CopyInv, TypeOK
  <1>7. ASSUME NEW c \in Copy, NEW v \in Value, WriteCopy(c, v)  PROVE LockHasHolder'
    BY <1>7, UICAssumption DEF WriteCopy, arrVars, copyVars, LockHasHolder, OpInv, CopyInv, TypeOK
  <1>8. ASSUME NEW c \in Copy, DropCopy(c)  PROVE LockHasHolder'
    BY <1>8, UICAssumption DEF DropCopy, arrVars, copyVars, LockHasHolder, OpInv, CopyInv, TypeOK
  <1>9. ASSUME NEW c \in Copy, ClearUpdateIfCopy(c)  PROVE LockHasHolder'
    BY <1>9, UICAssumption DEF ClearUpdateIfCopy, arrVars, copyVars, LockHasHolder, OpInv, CopyInv, TypeOK
  <1>10. ASSUME NEW c \in Copy, FinalizeUnlock(c)  PROVE LockHasHolder'
    BY <1>10, UICAssumption DEF FinalizeUnlock, arrVars, copyVars, LockHasHolder, OpInv, CopyInv, TypeOK
  <1>11. ASSUME NEW c \in Copy, FinalizeCopy(c)  PROVE LockHasHolder'
    BY <1>11, UICAssumption DEF FinalizeCopy, arrVars, copyVars, LockHasHolder, OpInv, CopyInv, TypeOK
  <1>12. ASSUME NEW c \in Copy, FinalizeFree(c)  PROVE LockHasHolder'
    BY <1>12, UICAssumption DEF FinalizeFree, Free, arrVars, copyVars, LockHasHolder, OpInv, CopyInv, TypeOK
  <1>13. ASSUME NEW c \in Copy, Lock(c)  PROVE LockHasHolder'
    BY <1>13, UICAssumption DEF Lock, MakeCopy, arrVars, copyVars, LockHasHolder, OpInv, CopyInv, TypeOK
  <1>14. CASE FinishForced
    BY <1>14, UICAssumption DEF FinishForced, arrVars, copyVars, LockHasHolder, OpInv, CopyInv, TypeOK
  <1>15. CASE FinishTake
    BY <1>15, UICAssumption DEF FinishTake, arrVars, copyVars, LockHasHolder, OpInv, CopyInv, TypeOK
  <1>16. CASE PutMaskNothing
    BY <1>16, UICAssumption DEF PutMaskNothing, Idle, arrVars, copyVars, LockHasHolder, OpInv, CopyInv, TypeOK
  <1>17. ASSUME NEW v \in Value, Fail(v)  PROVE LockHasHolder'
    BY <1>17, UICAssumption DEF Fail, Idle, arrVars, copyVars, LockHasHolder, OpInv, CopyInv, TypeOK
  <1>18. CASE Return
    BY <1>18, UICAssumption DEF Return, Idle, arrVars, copyVars, LockHasHolder, OpInv, CopyInv, TypeOK
  <1>19. QED
    BY <1>1, <1>2, <1>3, <1>4, <1>5, <1>5a, <1>6, <1>7, <1>8, <1>9, <1>10, <1>11, <1>12, <1>13, <1>14, <1>15, <1>16, <1>17, <1>18 DEF Next, OpStep, Finalizer

-----------------------------------------------------------------------------
(* The theorems.                                                           *)

\* The invariant holds at first.
LEMMA InitIInv == Init => IInv
  BY UICAssumption, AnyValueType DEF Init, IInv, TypeOK, CopyInv, OpInv, LockHasHolder, Idle

\* The invariant is inductive.
LEMMA StepIInv == IInv /\ [Next]_vars => IInv'
  BY TypeStep, CopyStep, OpStepInv, HolderStep DEF IInv

\* The strengthening holds throughout.
THEOREM Invariance == Spec => []IInv
  BY InitIInv, StepIInv, PTL DEF Spec

\* Types.
THEOREM TypeCorrect == Spec => []TypeOK
  <1>1. IInv => TypeOK
    BY DEF IInv
  <1>2. QED
    BY <1>1, Invariance, PTL

\* NpyArray_ForceUpdate, NpyArray_XDECREF_ERR and NpyArray_dealloc between them
\* write a copy back at most once, and not at all after an error.
THEOREM WrittenOnce == Spec => []WriteBackOnce
  <1>1. IInv => WriteBackOnce
    BY DEF IInv, TypeOK, CopyInv, WriteBackOnce
  <1>2. QED
    BY <1>1, Invariance, PTL

\* Apart from the two places that abandon it, every lock on an output array has
\* a copy that will release it.
THEOREM LocksHeld == Spec => []LockHasHolder
  <1>1. IInv => LockHasHolder
    BY DEF IInv
  <1>2. QED
    BY <1>1, Invariance, PTL

=============================================================================
