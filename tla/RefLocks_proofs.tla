--------------------------- MODULE RefLocks_proofs ---------------------------
(***************************************************************************)
(* Proofs about RefLocks, for any threads, arrays and handles: the type    *)
(* invariant, the properties of the two locks and the counts, and that     *)
(* RefLocks implements RefHandle.                                          *)
(***************************************************************************)
EXTENDS RefLocks, FiniteSetTheorems, TLAPS

-----------------------------------------------------------------------------
(* The inductive invariant.                                                *)

\* Inside Npy_RefCntLock.
Critical == {"iload", "icount", "isync", "iswitch",
             "dload", "dcount", "dsync", "dswitch", "leave"}

\* Inside interfaceSyncRoot, in a callback or in IterNewWrapper, which calls
\* INCREF (to return to "wread") and DECREF (to return to "wstore").
Switching(t) == pc[t] \in {"iswitch", "dswitch"}
Wrapping(t) ==
  \/ pc[t] \in {"wcheck", "wread", "wstore", "wleave"}
  \/ pc[t] \in Critical \cup {"inc", "dec"} /\ ret[t] # "idle"

LockInv ==
  /\ \A t \in Thread : refLock = t <=> pc[t] \in Critical
  /\ \A t \in Thread : syncLock = t <=> Wrapping(t) \/ Switching(t)
  /\ syncLock = NoThread => syncDepth = 0
  /\ \A t \in Thread : syncLock = t =>
       syncDepth = (IF Wrapping(t) THEN 1 ELSE 0) + (IF Switching(t) THEN 1 ELSE 0)

\* What a thread inside Npy_RefCntLock knows about the count.
LoadInv ==
  \A t \in Thread :
    /\ pc[t] \in {"icount", "dcount"} => loaded[t] = refcnt[arg[t]]
    /\ pc[t] \in {"isync", "iswitch"} => refcnt[arg[t]] = 1
    /\ pc[t] \in {"dsync", "dswitch"} => refcnt[arg[t]] = 0

\* IterNewWrapper has taken its reference to the array and not dropped it.
Borrowing(t) ==
  \/ pc[t] \in {"isync", "iswitch", "leave"} /\ ret[t] = "wread"
  \/ pc[t] = "wread"
  \/ pc[t] \in {"dec", "dload", "dcount"} /\ ret[t] = "wstore"

\* The references a thread owns, by where it stands.
OwnInv ==
  \A t \in Thread :
    /\ \A x \in Arr : owned[t][x] <= MaxOwned + (IF Borrowing(t) /\ x = Iterated THEN 1 ELSE 0)
    /\ pc[t] \in {"inc", "iload", "icount"} /\ ret[t] = "idle" => owned[t][arg[t]] < MaxOwned
    /\ pc[t] \in {"inc", "iload", "icount", "isync", "iswitch"} => ret[t] # "wstore"
    /\ pc[t] \in {"dec", "dload", "dcount", "dsync", "dswitch"} => ret[t] # "wread"
    /\ pc[t] \in Critical \cup {"inc", "dec"} /\ ret[t] # "idle" => arg[t] = Iterated
    /\ pc[t] = "wread" => arg[t] = Iterated
    /\ pc[t] \in {"isync", "iswitch", "dec", "dload", "dcount"} => owned[t][arg[t]] > 0
    /\ Borrowing(t) => owned[t][Iterated] > 0

\* The count that the handle of x agrees with, while a callback is under way.
Settled(x) == IF Pending({"isync", "iswitch"}, x) THEN 0
              ELSE IF Pending({"dsync", "dswitch"}, x) THEN 1
              ELSE refcnt[x]

HandleInv ==
  /\ \A x, y \in Arr : iface[x] = iface[y] => x = y
  /\ \A x \in Arr : hkind[iface[x]] = (IF Settled(x) > 0 THEN "strong" ELSE "weak")
  /\ \A x \in Arr : iface[x] # iterIface
  /\ iterIface # NoHandle => hkind[iterIface] = "strong"

\* Only the thread inside IterNewWrapper's critical section makes a wrapper.
WrapInv ==
  /\ flatiters = IF iterIface = NoHandle THEN 0 ELSE 1
  /\ \A t \in Thread :
       Wrapping(t) /\ pc[t] \notin {"wcheck", "wleave"} => iterIface = NoHandle

IInv == TypeOK /\ LockInv /\ LoadInv /\ OwnInv /\ NoLostCount /\ HandleInv /\ WrapInv

-----------------------------------------------------------------------------
(* Counting the references that threads own.                               *)

\* Two elements make two.
LEMMA TwoElements ==
  ASSUME NEW S, IsFiniteSet(S), NEW a \in S, NEW b \in S, a # b
  PROVE  Cardinality(S) >= 2
  <1>. DEFINE R == S \ {a}
  <1>1. IsFiniteSet(R) /\ Cardinality(R) = Cardinality(S) - 1
    BY FS_RemoveElement
  <1>2. Cardinality(R) # 0
    BY <1>1, FS_EmptySet
  <1>3. Cardinality(R) \in Nat /\ Cardinality(S) \in Nat
    BY <1>1, FS_CardinalityType
  <1>4. QED
    BY <1>1, <1>2, <1>3

\* The set that NoLostCount counts is finite, and a count of none means that
\* nobody owns one.
LEMMA OwnedFinite ==
  ASSUME TypeOK, NEW x \in Arr
  PROVE  /\ IsFiniteSet(Owned(x))
         /\ Cardinality(Owned(x)) \in Nat
  <1>1. IsFiniteSet(1..(MaxOwned + 1))
    BY FS_Interval, RefLocksAssumption
  <1>2. IsFiniteSet(Thread \X (1..(MaxOwned + 1)))
    BY <1>1, FS_Product, RefLocksAssumption
  <1>3. Owned(x) \subseteq Thread \X (1..(MaxOwned + 1))
    BY DEF Owned
  <1>4. QED
    BY <1>2, <1>3, FS_Subset, FS_CardinalityType

\* One more reference is one more element.
LEMMA OwnedGrows ==
  ASSUME TypeOK, NEW x \in Arr, NEW t \in Thread, owned[t][x] <= MaxOwned,
         owned' = [owned EXCEPT ![t][x] = @ + 1]
  PROVE  Cardinality(Owned(x)') = Cardinality(Owned(x)) + 1
  <1>. DEFINE n == owned[t][x] + 1
  <1>1. n \in 1..(MaxOwned + 1) /\ owned[t][x] \in Nat
    BY RefLocksAssumption DEF TypeOK
  <1>2. \A u \in Thread : owned[u][x] \in Nat /\ owned'[u][x] = (IF u = t THEN n ELSE owned[u][x])
    BY DEF TypeOK
  <1>3. <<t, n>> \notin Owned(x)
    BY <1>1 DEF Owned
  <1>4. Owned(x)' = Owned(x) \cup {<<t, n>>}
    <2>1. ASSUME NEW p \in Owned(x)'  PROVE p \in Owned(x) \cup {<<t, n>>}
      BY <1>1, <1>2, RefLocksAssumption DEF Owned
    <2>2. ASSUME NEW p \in Owned(x) \cup {<<t, n>>}  PROVE p \in Owned(x)'
      BY <1>1, <1>2, RefLocksAssumption DEF Owned
    <2>3. QED
      BY <2>1, <2>2
  <1>5. QED
    BY <1>3, <1>4, OwnedFinite, FS_AddElement

\* One reference less is one element less.
LEMMA OwnedShrinks ==
  ASSUME TypeOK, NEW x \in Arr, NEW t \in Thread, owned[t][x] > 0,
         owned' = [owned EXCEPT ![t][x] = @ - 1]
  PROVE  Cardinality(Owned(x)') = Cardinality(Owned(x)) - 1
  <1>. DEFINE n == owned[t][x]
  <1>1. n \in 1..(MaxOwned + 1)
    BY RefLocksAssumption DEF TypeOK
  <1>2. \A u \in Thread : owned[u][x] \in Nat /\ owned'[u][x] = (IF u = t THEN n - 1 ELSE owned[u][x])
    BY DEF TypeOK
  <1>3. <<t, n>> \in Owned(x)
    BY <1>1 DEF Owned
  <1>4. Owned(x)' = Owned(x) \ {<<t, n>>}
    <2>1. ASSUME NEW p \in Owned(x)'  PROVE p \in Owned(x) \ {<<t, n>>}
      BY <1>1, <1>2, RefLocksAssumption DEF Owned
    <2>2. ASSUME NEW p \in Owned(x) \ {<<t, n>>}  PROVE p \in Owned(x)'
      BY <1>1, <1>2, RefLocksAssumption DEF Owned
    <2>3. QED
      BY <2>1, <2>2
  <1>5. IsFiniteSet(Owned(x))
    BY OwnedFinite
  <1>6. Cardinality(Owned(x) \ {<<t, n>>}) = Cardinality(Owned(x)) - 1
    BY <1>3, <1>5, FS_RemoveElement
  <1>7. QED
    BY <1>4, <1>6

\* The references to the other arrays do not change.
LEMMA OwnedElsewhere ==
  ASSUME TypeOK, NEW x \in Arr, NEW y \in Arr, NEW t \in Thread, NEW v, y # x,
         owned' = [owned EXCEPT ![t][x] = v]
  PROVE  Owned(y)' = Owned(y)
  <1>1. \A u \in Thread : owned'[u][y] = owned[u][y]
    BY DEF TypeOK
  <1>2. QED
    BY <1>1 DEF Owned

\* Who owns a reference is counted; two owners are counted twice.
LEMMA OwnersCount ==
  ASSUME TypeOK, NEW x \in Arr, NEW t \in Thread, owned[t][x] > 0
  PROVE  /\ Cardinality(Owned(x)) >= 1
         /\ \A u \in Thread : u # t /\ owned[u][x] > 0 => Cardinality(Owned(x)) >= 2
  <1>1. 1 \in 1..(MaxOwned + 1) /\ \A u \in Thread : owned[u][x] \in Nat
    BY RefLocksAssumption DEF TypeOK
  <1>2. \A u \in Thread : owned[u][x] > 0 => <<u, 1>> \in Owned(x)
    BY <1>1 DEF Owned
  <1>3. Cardinality({<<t, 1>>}) = 1
    BY FS_Singleton
  <1>4. Cardinality(Owned(x)) >= 1
    BY <1>2, <1>3, OwnedFinite, FS_Subset
  <1>5. ASSUME NEW u \in Thread, u # t, owned[u][x] > 0
        PROVE  Cardinality(Owned(x)) >= 2
    <2>1. <<t, 1>> # <<u, 1>>
      BY <1>5
    <2>2. QED
      BY <1>2, <1>5, <2>1, OwnedFinite, TwoElements
  <1>6. QED
    BY <1>4, <1>5

-----------------------------------------------------------------------------
(* Every step keeps the invariant.                                         *)

\* Who owns a reference knows that the count is positive, and two owners that it
\* is more than one.
LEMMA OwnerCount ==
  ASSUME TypeOK, NoLostCount, NEW t \in Thread, NEW x \in Arr, owned[t][x] > 0
  PROVE  /\ refcnt[x] >= 1
         /\ \A u \in Thread : u # t /\ owned[u][x] > 0 => refcnt[x] >= 2
  <1>1. refcnt[x] >= Cardinality(Owned(x)) /\ Cardinality(Owned(x)) \in Nat
    BY OwnedFinite DEF NoLostCount
  <1>2. refcnt[x] \in Nat
    BY DEF TypeOK
  <1>3. QED
    BY <1>1, <1>2, OwnersCount

\* A count that is about to go up has room, one about to go down is positive.
LEMMA LoadedCount ==
  ASSUME IInv, NEW t \in Thread
  PROVE  /\ pc[t] = "icount" => owned[t][arg[t]] <= MaxOwned
         /\ pc[t] = "dcount" => loaded[t] >= 1 /\ loaded[t] = refcnt[arg[t]]
  <1>1. pc[t] = "icount" => owned[t][arg[t]] <= MaxOwned
    BY RefLocksAssumption, SMTT(20) DEF IInv, TypeOK, OwnInv, Borrowing, Critical
  <1>2. ASSUME pc[t] = "dcount"
        PROVE  loaded[t] >= 1 /\ loaded[t] = refcnt[arg[t]]
    <2>1. owned[t][arg[t]] > 0 /\ arg[t] \in Arr
      BY <1>2 DEF IInv, TypeOK, OwnInv
    <2>2. refcnt[arg[t]] >= 1
      BY <2>1, OwnerCount DEF IInv
    <2>3. QED
      BY <1>2, <2>2 DEF IInv, LoadInv
  <1>3. QED
    BY <1>1, <1>2

\* The callback moves the handle of the array to a free slot.
LEMMA SwitchedHandle ==
  ASSUME TypeOK, NEW t \in Thread, CallbackSwitch(t)
  PROVE  /\ pc[t] \in {"iswitch", "dswitch"}
         /\ \E h \in Handle :
              /\ hkind[h] = "free"
              /\ hkind' = [hkind EXCEPT ![h] = IF pc[t] = "iswitch" THEN "strong" ELSE "weak",
                                      ![iface[arg[t]]] = "free"]
              /\ iface' = [iface EXCEPT ![arg[t]] = h]
  BY DEF CallbackSwitch, Goto, SwitchHandle

\* The monitor and the critical section exclude, and the monitor's depth is known.
LEMMA LockStep == IInv /\ [Next]_vars => LockInv'
  <1>. SUFFICES ASSUME IInv, [Next]_vars  PROVE LockInv'
    OBVIOUS
  <1>. USE RefLocksAssumption DEF IInv, TypeOK
  <1>1. CASE UNCHANGED vars
    BY <1>1 DEF vars, dataVars, syncVars, LockInv, Critical, Switching, Wrapping, PCs
  <1>2. ASSUME NEW t \in Thread, NEW x \in Arr, CallIncref(t, x)  PROVE LockInv'
    BY <1>2 DEF CallIncref, Goto, dataVars, syncVars, LockInv, Critical, Switching, Wrapping, PCs
  <1>3. ASSUME NEW t \in Thread, NEW x \in Arr, CallDecref(t, x)  PROVE LockInv'
    BY <1>3 DEF CallDecref, Goto, dataVars, syncVars, LockInv, Critical, Switching, Wrapping, PCs
  <1>4. ASSUME NEW t \in Thread, EnterRef(t)  PROVE LockInv'
    BY <1>4 DEF EnterRef, Goto, dataVars, syncVars, LockInv, Critical, Switching, Wrapping, PCs
  <1>5. ASSUME NEW t \in Thread, LoadCount(t)  PROVE LockInv'
    BY <1>5 DEF LoadCount, Goto, dataVars, syncVars, LockInv, Critical, Switching, Wrapping, PCs
  <1>6. ASSUME NEW t \in Thread, CountIncref(t)  PROVE LockInv'
    BY <1>6 DEF CountIncref, Goto, dataVars, syncVars, LockInv, Critical, Switching, Wrapping, PCs
  <1>7. ASSUME NEW t \in Thread, CountDecref(t)  PROVE LockInv'
    BY <1>7 DEF CountDecref, Goto, dataVars, syncVars, LockInv, Critical, Switching, Wrapping, PCs
  <1>8. ASSUME NEW t \in Thread, CallbackEnter(t)  PROVE LockInv'
    BY <1>8 DEF CallbackEnter, Goto, EnterSync, SyncFree, dataVars, syncVars, LockInv, Critical, Switching, Wrapping, PCs
  <1>9. ASSUME NEW t \in Thread, CallbackSwitch(t)  PROVE LockInv'
    BY <1>9 DEF CallbackSwitch, Goto, SwitchHandle, LeaveSync, dataVars, syncVars, LockInv, Critical, Switching, Wrapping, PCs
  <1>10. ASSUME NEW t \in Thread, LeaveRef(t)  PROVE LockInv'
    BY <1>10 DEF LeaveRef, Goto, dataVars, syncVars, LockInv, Critical, Switching, Wrapping, PCs
  <1>11. ASSUME NEW t \in Thread, CallIterWrapper(t)  PROVE LockInv'
    BY <1>11 DEF CallIterWrapper, Goto, dataVars, syncVars, LockInv, Critical, Switching, Wrapping, PCs
  <1>12. ASSUME NEW t \in Thread, WrapperEnter(t)  PROVE LockInv'
    BY <1>12 DEF WrapperEnter, Goto, EnterSync, SyncFree, dataVars, syncVars, LockInv, Critical, Switching, Wrapping, PCs
  <1>13. ASSUME NEW t \in Thread, WrapperCheck(t)  PROVE LockInv'
    BY <1>13 DEF WrapperCheck, Goto, dataVars, syncVars, LockInv, Critical, Switching, Wrapping, PCs
  <1>14. ASSUME NEW t \in Thread, WrapperRead(t)  PROVE LockInv'
    BY <1>14 DEF WrapperRead, Goto, dataVars, syncVars, LockInv, Critical, Switching, Wrapping, PCs
  <1>15. ASSUME NEW t \in Thread, WrapperStore(t)  PROVE LockInv'
    BY <1>15 DEF WrapperStore, Goto, dataVars, syncVars, LockInv, Critical, Switching, Wrapping, PCs
  <1>16. ASSUME NEW t \in Thread, WrapperLeave(t)  PROVE LockInv'
    BY <1>16 DEF WrapperLeave, Goto, LeaveSync, dataVars, syncVars, LockInv, Critical, Switching, Wrapping, PCs
  <1>17. QED
    BY <1>1, <1>2, <1>3, <1>4, <1>5, <1>6, <1>7, <1>8, <1>9, <1>10, <1>11, <1>12, <1>13, <1>14, <1>15, <1>16 DEF Next

\* Types.
LEMMA TypeStep == IInv /\ [Next]_vars => TypeOK'
  <1>. SUFFICES ASSUME IInv, [Next]_vars  PROVE TypeOK'
    OBVIOUS
  <1>. USE RefLocksAssumption DEF IInv
  <1>1. CASE UNCHANGED vars
    BY <1>1 DEF vars, dataVars, syncVars, TypeOK, PCs
  <1>2. ASSUME NEW t \in Thread, NEW x \in Arr, CallIncref(t, x)  PROVE TypeOK'
    BY <1>2 DEF CallIncref, Goto, dataVars, syncVars, TypeOK, PCs
  <1>3. ASSUME NEW t \in Thread, NEW x \in Arr, CallDecref(t, x)  PROVE TypeOK'
    BY <1>3 DEF CallDecref, Goto, dataVars, syncVars, TypeOK, PCs
  <1>4. ASSUME NEW t \in Thread, EnterRef(t)  PROVE TypeOK'
    BY <1>4 DEF EnterRef, Goto, dataVars, syncVars, TypeOK, PCs
  <1>5. ASSUME NEW t \in Thread, LoadCount(t)  PROVE TypeOK'
    BY <1>5 DEF LoadCount, Goto, dataVars, syncVars, TypeOK, PCs
  <1>6. ASSUME NEW t \in Thread, CountIncref(t)  PROVE TypeOK'
    BY <1>6, LoadedCount DEF CountIncref, Goto, TypeOK, PCs, dataVars, syncVars, OwnInv
  <1>7. ASSUME NEW t \in Thread, CountDecref(t)  PROVE TypeOK'
    BY <1>7, LoadedCount DEF CountDecref, Goto, TypeOK, PCs, dataVars, syncVars, OwnInv
  <1>8. ASSUME NEW t \in Thread, CallbackEnter(t)  PROVE TypeOK'
    BY <1>8, SMTT(20) DEF CallbackEnter, Goto, EnterSync, SyncFree, LockInv, Switching, Wrapping, Critical, dataVars, syncVars, TypeOK, PCs
  <1>9. ASSUME NEW t \in Thread, CallbackSwitch(t)  PROVE TypeOK'
    <2>1. syncDepth - 1 \in 0..2
      BY <1>9 DEF CallbackSwitch, Goto, TypeOK, LockInv, Switching, Wrapping, Critical
    <2>2. syncLock' \in Thread \cup {NoThread} /\ syncDepth' \in 0..2
      BY <1>9, <2>1 DEF CallbackSwitch, LeaveSync
    <2>3. PICK h \in Handle :
            /\ hkind' = [hkind EXCEPT ![h] = IF pc[t] = "iswitch" THEN "strong" ELSE "weak",
                                    ![iface[arg[t]]] = "free"]
            /\ iface' = [iface EXCEPT ![arg[t]] = h]
      BY <1>9, SwitchedHandle
    <2>4. hkind' \in [Handle -> {"free", "strong", "weak"}]
      BY <2>3 DEF TypeOK
    <2>5. iface' \in [Arr -> Handle]
      BY <2>3 DEF TypeOK
    <2>6. QED
      BY <1>9, <2>2, <2>4, <2>5 DEF CallbackSwitch, Goto, dataVars, syncVars, TypeOK, PCs
  <1>10. ASSUME NEW t \in Thread, LeaveRef(t)  PROVE TypeOK'
    BY <1>10 DEF LeaveRef, Goto, dataVars, syncVars, TypeOK, PCs
  <1>11. ASSUME NEW t \in Thread, CallIterWrapper(t)  PROVE TypeOK'
    BY <1>11 DEF CallIterWrapper, Goto, dataVars, syncVars, TypeOK, PCs
  <1>12. ASSUME NEW t \in Thread, WrapperEnter(t)  PROVE TypeOK'
    BY <1>12 DEF WrapperEnter, Goto, EnterSync, SyncFree, LockInv, Switching, Wrapping, Critical, dataVars, syncVars, TypeOK, PCs
  <1>13. ASSUME NEW t \in Thread, WrapperCheck(t)  PROVE TypeOK'
    BY <1>13 DEF WrapperCheck, Goto, dataVars, syncVars, TypeOK, PCs
  <1>14. ASSUME NEW t \in Thread, WrapperRead(t)  PROVE TypeOK'
    BY <1>14 DEF WrapperRead, Goto, dataVars, syncVars, TypeOK, PCs
  <1>15. ASSUME NEW t \in Thread, WrapperStore(t)  PROVE TypeOK'
    BY <1>15 DEF WrapperStore, Goto, dataVars, syncVars, TypeOK, PCs
  <1>16. ASSUME NEW t \in Thread, WrapperLeave(t)  PROVE TypeOK'
    BY <1>16 DEF WrapperLeave, Goto, LeaveSync, LockInv, Switching, Wrapping, Critical, dataVars, syncVars, TypeOK, PCs
  <1>17. QED
    BY <1>1, <1>2, <1>3, <1>4, <1>5, <1>6, <1>7, <1>8, <1>9, <1>10, <1>11, <1>12, <1>13, <1>14, <1>15, <1>16 DEF Next

\* Nobody else touches the count between the load and the switch of the handle.
LEMMA LoadStep == IInv /\ [Next]_vars => LoadInv'
  <1>. SUFFICES ASSUME IInv, [Next]_vars  PROVE LoadInv'
    OBVIOUS
  <1>. USE RefLocksAssumption DEF IInv, TypeOK
  <1>1. CASE UNCHANGED vars
    BY <1>1 DEF vars, dataVars, syncVars, LoadInv, LockInv, Critical
  <1>2. ASSUME NEW t \in Thread, NEW x \in Arr, CallIncref(t, x)  PROVE LoadInv'
    BY <1>2 DEF CallIncref, Goto, dataVars, syncVars, LoadInv, LockInv, Critical
  <1>3. ASSUME NEW t \in Thread, NEW x \in Arr, CallDecref(t, x)  PROVE LoadInv'
    BY <1>3 DEF CallDecref, Goto, dataVars, syncVars, LoadInv, LockInv, Critical
  <1>4. ASSUME NEW t \in Thread, EnterRef(t)  PROVE LoadInv'
    BY <1>4 DEF EnterRef, Goto, dataVars, syncVars, LoadInv, LockInv, Critical
  <1>5. ASSUME NEW t \in Thread, LoadCount(t)  PROVE LoadInv'
    BY <1>5 DEF LoadCount, Goto, dataVars, syncVars, LoadInv, LockInv, Critical
  <1>6. ASSUME NEW t \in Thread, CountIncref(t)  PROVE LoadInv'
    BY <1>6 DEF CountIncref, Goto, dataVars, syncVars, LoadInv, LockInv, Critical
  <1>7. ASSUME NEW t \in Thread, CountDecref(t)  PROVE LoadInv'
    BY <1>7 DEF CountDecref, Goto, dataVars, syncVars, LoadInv, LockInv, Critical
  <1>8. ASSUME NEW t \in Thread, CallbackEnter(t)  PROVE LoadInv'
    BY <1>8 DEF CallbackEnter, Goto, EnterSync, SyncFree, dataVars, syncVars, LoadInv, LockInv, Critical
  <1>9. ASSUME NEW t \in Thread, CallbackSwitch(t)  PROVE LoadInv'
    BY <1>9 DEF CallbackSwitch, Goto, SwitchHandle, LeaveSync, dataVars, syncVars, LoadInv, LockInv, Critical
  <1>10. ASSUME NEW t \in Thread, LeaveRef(t)  PROVE LoadInv'
    BY <1>10 DEF LeaveRef, Goto, dataVars, syncVars, LoadInv, LockInv, Critical
  <1>11. ASSUME NEW t \in Thread, CallIterWrapper(t)  PROVE LoadInv'
    BY <1>11 DEF CallIterWrapper, Goto, dataVars, syncVars, LoadInv, LockInv, Critical
  <1>12. ASSUME NEW t \in Thread, WrapperEnter(t)  PROVE LoadInv'
    BY <1>12 DEF WrapperEnter, Goto, EnterSync, SyncFree, dataVars, syncVars, LoadInv, LockInv, Critical
  <1>13. ASSUME NEW t \in Thread, WrapperCheck(t)  PROVE LoadInv'
    BY <1>13 DEF WrapperCheck, Goto, dataVars, syncVars, LoadInv, LockInv, Critical
  <1>14. ASSUME NEW t \in Thread, WrapperRead(t)  PROVE LoadInv'
    BY <1>14 DEF WrapperRead, Goto, dataVars, syncVars, LoadInv, LockInv, Critical
  <1>15. ASSUME NEW t \in Thread, WrapperStore(t)  PROVE LoadInv'
    BY <1>15 DEF WrapperStore, Goto, dataVars, syncVars, LoadInv, LockInv, Critical
  <1>16. ASSUME NEW t \in Thread, WrapperLeave(t)  PROVE LoadInv'
    BY <1>16 DEF WrapperLeave, Goto, LeaveSync, dataVars, syncVars, LoadInv, LockInv, Critical
  <1>17. QED
    BY <1>1, <1>2, <1>3, <1>4, <1>5, <1>6, <1>7, <1>8, <1>9, <1>10, <1>11, <1>12, <1>13, <1>14, <1>15, <1>16 DEF Next

\* Ownership follows the control of a thread.
LEMMA OwnStep == IInv /\ [Next]_vars => OwnInv'
  <1>. SUFFICES ASSUME IInv, [Next]_vars  PROVE OwnInv'
    OBVIOUS
  <1>. USE RefLocksAssumption DEF IInv, TypeOK
  <1>1. CASE UNCHANGED vars
    BY <1>1 DEF vars, dataVars, syncVars, OwnInv, Borrowing, Critical, PCs
  <1>2. ASSUME NEW t \in Thread, NEW x \in Arr, CallIncref(t, x)  PROVE OwnInv'
    BY <1>2 DEF CallIncref, Goto, dataVars, syncVars, OwnInv, Borrowing, Critical, PCs
  <1>3. ASSUME NEW t \in Thread, NEW x \in Arr, CallDecref(t, x)  PROVE OwnInv'
    BY <1>3 DEF CallDecref, Goto, dataVars, syncVars, OwnInv, Borrowing, Critical, PCs
  <1>4. ASSUME NEW t \in Thread, EnterRef(t)  PROVE OwnInv'
    BY <1>4 DEF EnterRef, Goto, dataVars, syncVars, OwnInv, Borrowing, Critical, PCs
  <1>5. ASSUME NEW t \in Thread, LoadCount(t)  PROVE OwnInv'
    BY <1>5 DEF LoadCount, Goto, dataVars, syncVars, OwnInv, Borrowing, Critical, PCs
  <1>6. ASSUME NEW t \in Thread, CountIncref(t)  PROVE OwnInv'
    BY <1>6 DEF CountIncref, Goto, dataVars, syncVars, OwnInv, Borrowing, Critical, PCs
  <1>7. ASSUME NEW t \in Thread, CountDecref(t)  PROVE OwnInv'
    BY <1>7 DEF CountDecref, Goto, dataVars, syncVars, OwnInv, Borrowing, Critical, PCs
  <1>8. ASSUME NEW t \in Thread, CallbackEnter(t)  PROVE OwnInv'
    BY <1>8 DEF CallbackEnter, Goto, EnterSync, SyncFree, dataVars, syncVars, OwnInv, Borrowing, Critical, PCs
  <1>9. ASSUME NEW t \in Thread, CallbackSwitch(t)  PROVE OwnInv'
    BY <1>9 DEF CallbackSwitch, Goto, SwitchHandle, LeaveSync, dataVars, syncVars, OwnInv, Borrowing, Critical, PCs
  <1>10. ASSUME NEW t \in Thread, LeaveRef(t)  PROVE OwnInv'
    BY <1>10 DEF LeaveRef, Goto, dataVars, syncVars, OwnInv, Borrowing, Critical, PCs
  <1>11. ASSUME NEW t \in Thread, CallIterWrapper(t)  PROVE OwnInv'
    BY <1>11 DEF CallIterWrapper, Goto, dataVars, syncVars, OwnInv, Borrowing, Critical, PCs
  <1>12. ASSUME NEW t \in Thread, WrapperEnter(t)  PROVE OwnInv'
    BY <1>12 DEF WrapperEnter, Goto, EnterSync, SyncFree, dataVars, syncVars, OwnInv, Borrowing, Critical, PCs
  <1>13. ASSUME NEW t \in Thread, WrapperCheck(t)  PROVE OwnInv'
    BY <1>13 DEF WrapperCheck, Goto, dataVars, syncVars, OwnInv, Borrowing, Critical, PCs
  <1>14. ASSUME NEW t \in Thread, WrapperRead(t)  PROVE OwnInv'
    BY <1>14 DEF WrapperRead, Goto, dataVars, syncVars, OwnInv, Borrowing, Critical, PCs
  <1>15. ASSUME NEW t \in Thread, WrapperStore(t)  PROVE OwnInv'
    BY <1>15 DEF WrapperStore, Goto, dataVars, syncVars, OwnInv, Borrowing, Critical, PCs
  <1>16. ASSUME NEW t \in Thread, WrapperLeave(t)  PROVE OwnInv'
    BY <1>16 DEF WrapperLeave, Goto, LeaveSync, dataVars, syncVars, OwnInv, Borrowing, Critical, PCs
  <1>17. QED
    BY <1>1, <1>2, <1>3, <1>4, <1>5, <1>6, <1>7, <1>8, <1>9, <1>10, <1>11, <1>12, <1>13, <1>14, <1>15, <1>16 DEF Next

\* Where no reference changes hands no count changes.
LEMMA CountSame ==
  ASSUME NoLostCount, UNCHANGED <<refcnt, owned>>
  PROVE  NoLostCount'
  <1>1. \A x \in Arr : Owned(x)' = Owned(x)
    BY DEF Owned
  <1>2. QED
    BY <1>1 DEF NoLostCount

\* No count is lost.
LEMMA CountStep == IInv /\ [Next]_vars => NoLostCount'
  <1>. SUFFICES ASSUME IInv, [Next]_vars  PROVE NoLostCount'
    OBVIOUS
  <1>. USE RefLocksAssumption DEF IInv
  <1>1. CASE UNCHANGED vars
    BY <1>1, CountSame DEF vars
  <1>2. ASSUME NEW t \in Thread, NEW x \in Arr, CallIncref(t, x)  PROVE NoLostCount'
    BY <1>2, CountSame DEF CallIncref, dataVars
  <1>3. ASSUME NEW t \in Thread, NEW x \in Arr, CallDecref(t, x)  PROVE NoLostCount'
    BY <1>3, CountSame DEF CallDecref, dataVars
  <1>4. ASSUME NEW t \in Thread, EnterRef(t)  PROVE NoLostCount'
    BY <1>4, CountSame DEF EnterRef, dataVars
  <1>5. ASSUME NEW t \in Thread, LoadCount(t)  PROVE NoLostCount'
    BY <1>5, CountSame DEF LoadCount, dataVars
  <1>6. ASSUME NEW t \in Thread, CountIncref(t)  PROVE NoLostCount'
    <2>1. PICK x \in Arr : x = arg[t]
      BY DEF TypeOK
    <2>2. owned[t][x] <= MaxOwned
      BY <1>6, <2>1, LoadedCount DEF CountIncref, Goto, OwnInv
    <2>3. owned' = [owned EXCEPT ![t][x] = @ + 1]
      BY <1>6, <2>1 DEF CountIncref
    <2>4. Cardinality(Owned(x)') = Cardinality(Owned(x)) + 1
      BY <2>2, <2>3, OwnedGrows
    <2>5. \A y \in Arr : y # x => Owned(y)' = Owned(y)
      BY <2>3, OwnedElsewhere
    <2>6. refcnt' = [refcnt EXCEPT ![x] = @ + 1]
      BY <1>6, <2>1 DEF CountIncref, Goto, LoadInv
    <2>7. \A y \in Arr : Cardinality(Owned(y)) \in Nat
      BY OwnedFinite
    <2>8. ASSUME NEW y \in Arr
          PROVE  refcnt'[y] = Cardinality(Owned(y)') + (IF y = Iterated THEN 1 ELSE 0)
      <3>1. refcnt[y] = Cardinality(Owned(y)) + (IF y = Iterated THEN 1 ELSE 0)
        BY DEF NoLostCount
      <3>2. CASE y = x
        BY <2>4, <2>6, <2>7, <3>1, <3>2 DEF TypeOK
      <3>3. CASE y # x
        BY <2>5, <2>6, <3>1, <3>3 DEF TypeOK
      <3>4. QED
        BY <3>2, <3>3
    <2>9. QED
      BY <2>8 DEF NoLostCount
  <1>7. ASSUME NEW t \in Thread, CountDecref(t)  PROVE NoLostCount'
    <2>1. PICK x \in Arr : x = arg[t]
      BY DEF TypeOK
    <2>2. owned[t][x] > 0
      BY <1>7, <2>1 DEF CountDecref, Goto, OwnInv
    <2>3. owned' = [owned EXCEPT ![t][x] = @ - 1]
      BY <1>7, <2>1 DEF CountDecref
    <2>4. Cardinality(Owned(x)') = Cardinality(Owned(x)) - 1
      BY <2>2, <2>3, OwnedShrinks
    <2>5. \A y \in Arr : y # x => Owned(y)' = Owned(y)
      BY <2>3, OwnedElsewhere
    <2>6. refcnt' = [refcnt EXCEPT ![x] = @ - 1]
      BY <1>7, <2>1 DEF CountDecref, Goto, LoadInv
    <2>7. \A y \in Arr : Cardinality(Owned(y)) \in Nat
      BY OwnedFinite
    <2>8. ASSUME NEW y \in Arr
          PROVE  refcnt'[y] = Cardinality(Owned(y)') + (IF y = Iterated THEN 1 ELSE 0)
      <3>1. refcnt[y] = Cardinality(Owned(y)) + (IF y = Iterated THEN 1 ELSE 0)
        BY DEF NoLostCount
      <3>2. CASE y = x
        BY <2>4, <2>6, <2>7, <3>1, <3>2 DEF TypeOK
      <3>3. CASE y # x
        BY <2>5, <2>6, <3>1, <3>3 DEF TypeOK
      <3>4. QED
        BY <3>2, <3>3
    <2>9. QED
      BY <2>8 DEF NoLostCount
  <1>8. ASSUME NEW t \in Thread, CallbackEnter(t)  PROVE NoLostCount'
    BY <1>8, CountSame DEF CallbackEnter, dataVars
  <1>9. ASSUME NEW t \in Thread, CallbackSwitch(t)  PROVE NoLostCount'
    BY <1>9, CountSame DEF CallbackSwitch, dataVars
  <1>10. ASSUME NEW t \in Thread, LeaveRef(t)  PROVE NoLostCount'
    BY <1>10, CountSame DEF LeaveRef, dataVars
  <1>11. ASSUME NEW t \in Thread, CallIterWrapper(t)  PROVE NoLostCount'
    BY <1>11, CountSame DEF CallIterWrapper, dataVars
  <1>12. ASSUME NEW t \in Thread, WrapperEnter(t)  PROVE NoLostCount'
    BY <1>12, CountSame DEF WrapperEnter, dataVars
  <1>13. ASSUME NEW t \in Thread, WrapperCheck(t)  PROVE NoLostCount'
    BY <1>13, CountSame DEF WrapperCheck, dataVars
  <1>14. ASSUME NEW t \in Thread, WrapperRead(t)  PROVE NoLostCount'
    BY <1>14, CountSame DEF WrapperRead, dataVars
  <1>15. ASSUME NEW t \in Thread, WrapperStore(t)  PROVE NoLostCount'
    BY <1>15, CountSame DEF WrapperStore, dataVars
  <1>16. ASSUME NEW t \in Thread, WrapperLeave(t)  PROVE NoLostCount'
    BY <1>16, CountSame DEF WrapperLeave, dataVars
  <1>17. QED
    BY <1>1, <1>2, <1>3, <1>4, <1>5, <1>6, <1>7, <1>8, <1>9, <1>10, <1>11, <1>12, <1>13, <1>14, <1>15, <1>16 DEF Next

\* At most one callback is under way: that of the owner of Npy_RefCntLock.
LEMMA OneHolder ==
  ASSUME NEW l, NEW p, NEW a, NEW S \in SUBSET Critical, NEW x,
         \A t \in Thread : l = t <=> p[t] \in Critical
  PROVE  (\E t \in Thread : p[t] \in S /\ a[t] = x) <=> l \in Thread /\ p[l] \in S /\ a[l] = x
  OBVIOUS

Holding(S, x) == refLock \in Thread /\ pc[refLock] \in S /\ arg[refLock] = x

HolderSettled(x) == IF Holding({"isync", "iswitch"}, x) THEN 0
                    ELSE IF Holding({"dsync", "dswitch"}, x) THEN 1
                    ELSE refcnt[x]

\* Settled, without its quantifier over the threads.
LEMMA SettledByHolder ==
  ASSUME IInv, [Next]_vars, NEW x \in Arr
  PROVE  Settled(x) = HolderSettled(x) /\ Settled(x)' = HolderSettled(x)'
  <1>. DEFINE I == {"isync", "iswitch"}
              D == {"dsync", "dswitch"}
  <1>1. I \in SUBSET Critical /\ D \in SUBSET Critical
    BY DEF Critical
  <1>2. Pending(I, x) = Holding(I, x) /\ Pending(D, x) = Holding(D, x)
    BY <1>1, OneHolder DEF IInv, LockInv, Pending, Holding
  <1>3. Pending(I, x)' = Holding(I, x)' /\ Pending(D, x)' = Holding(D, x)'
    BY <1>1, OneHolder, LockStep DEF LockInv, Pending, Holding
  <1>4. QED
    BY <1>2, <1>3 DEF Settled, HolderSettled

-----------------------------------------------------------------------------
(* What a step does to the settled counts and the handles.                 *)

OthersSettled(x) == \A y \in Arr : y # x => Settled(y)' = Settled(y)

Quiet == /\ \A y \in Arr : Settled(y)' = Settled(y)
         /\ UNCHANGED <<iface, hkind, iterIface>>

Moves(x) == /\ \/ Settled(x) > 0 /\ Settled(x)' = Settled(x) + 1
               \/ Settled(x) > 1 /\ Settled(x)' = Settled(x) - 1
            /\ OthersSettled(x)
            /\ UNCHANGED <<iface, hkind, iterIface>>

Switches(x, h) ==
  /\ hkind[h] = "free"
  /\ \/ /\ Settled(x) = 0 /\ Settled(x)' = 1
        /\ hkind' = [hkind EXCEPT ![h] = "strong", ![iface[x]] = "free"]
     \/ /\ Settled(x) = 1 /\ Settled(x)' = 0
        /\ hkind' = [hkind EXCEPT ![h] = "weak", ![iface[x]] = "free"]
  /\ iface' = [iface EXCEPT ![x] = h]
  /\ OthersSettled(x)
  /\ UNCHANGED iterIface

Stores(h) ==
  /\ hkind[h] = "free"
  /\ hkind' = [hkind EXCEPT ![h] = "strong"]
  /\ iterIface = NoHandle /\ iterIface' = h
  /\ \A y \in Arr : Settled(y)' = Settled(y)
  /\ UNCHANGED iface

StepKind ==
  \/ Quiet
  \/ \E x \in Arr : Moves(x)
  \/ \E x \in Arr, h \in Handle : Switches(x, h)
  \/ \E h \in Handle : Stores(h)

\* A step moves no settled count, or one and not its handle, or one and its
\* handle, or makes the wrapper of the iterator.
LEMMA StepCases == IInv /\ [Next]_vars => StepKind
  <1>. SUFFICES ASSUME IInv, [Next]_vars  PROVE StepKind
    OBVIOUS
  <1>. TypeOK /\ LockInv /\ LoadInv /\ OwnInv /\ WrapInv
    BY DEF IInv
  <1>1. \A x \in Arr : Settled(x) = HolderSettled(x) /\ Settled(x)' = HolderSettled(x)'
    BY SettledByHolder
  <1>2. CASE UNCHANGED vars
    <2>1. \A y \in Arr : HolderSettled(y)' = HolderSettled(y)
      BY <1>2 DEF vars, HolderSettled, Holding
    <2>2. QED
      BY <1>1, <1>2, <2>1 DEF vars, Quiet, StepKind
  <1>3. ASSUME NEW t \in Thread, NEW x \in Arr, CallIncref(t, x)  PROVE StepKind
    <2>1. \A y \in Arr : HolderSettled(y)' = HolderSettled(y)
      BY <1>3 DEF CallIncref, Goto, HolderSettled, Holding, LockInv, Critical, dataVars, syncVars, TypeOK
    <2>2. UNCHANGED <<iface, hkind, iterIface>>
      BY <1>3 DEF CallIncref, dataVars
    <2>3. QED
      BY <1>1, <2>1, <2>2 DEF Quiet, StepKind
  <1>4. ASSUME NEW t \in Thread, NEW x \in Arr, CallDecref(t, x)  PROVE StepKind
    <2>1. \A y \in Arr : HolderSettled(y)' = HolderSettled(y)
      BY <1>4 DEF CallDecref, Goto, HolderSettled, Holding, LockInv, Critical, dataVars, syncVars, TypeOK
    <2>2. UNCHANGED <<iface, hkind, iterIface>>
      BY <1>4 DEF CallDecref, dataVars
    <2>3. QED
      BY <1>1, <2>1, <2>2 DEF Quiet, StepKind
  <1>5. ASSUME NEW t \in Thread, EnterRef(t)  PROVE StepKind
    <2>1. \A y \in Arr : HolderSettled(y)' = HolderSettled(y)
      BY <1>5, RefLocksAssumption DEF EnterRef, Goto, HolderSettled, Holding, LockInv, Critical, dataVars, syncVars, TypeOK
    <2>2. UNCHANGED <<iface, hkind, iterIface>>
      BY <1>5 DEF EnterRef, dataVars
    <2>3. QED
      BY <1>1, <2>1, <2>2 DEF Quiet, StepKind
  <1>6. ASSUME NEW t \in Thread, LoadCount(t)  PROVE StepKind
    <2>1. \A y \in Arr : HolderSettled(y)' = HolderSettled(y)
      BY <1>6 DEF LoadCount, Goto, HolderSettled, Holding, LockInv, Critical, dataVars, syncVars, TypeOK
    <2>2. UNCHANGED <<iface, hkind, iterIface>>
      BY <1>6 DEF LoadCount, dataVars
    <2>3. QED
      BY <1>1, <2>1, <2>2 DEF Quiet, StepKind
  <1>7. ASSUME NEW t \in Thread, CountIncref(t)  PROVE StepKind
    <2>1. PICK x \in Arr : x = arg[t]
      BY DEF TypeOK
    <2>2. refLock = t /\ pc[t] = "icount" /\ loaded[t] = refcnt[x] /\ refcnt \in [Arr -> Nat]
      BY <1>7, <2>1 DEF CountIncref, Goto, LockInv, LoadInv, Critical, TypeOK
    <2>3. \A y \in Arr : HolderSettled(y) = refcnt[y]
      BY <2>2 DEF HolderSettled, Holding
    <2>4. /\ refLock' = t /\ arg' = arg
          /\ pc'[t] = (IF loaded[t] = 0 THEN "isync" ELSE "leave")
          /\ refcnt' = [refcnt EXCEPT ![x] = loaded[t] + 1]
      BY <1>7, <2>1, <2>2 DEF CountIncref, Goto, TypeOK, syncVars
    <2>5. UNCHANGED <<iface, hkind, iterIface>>
      BY <1>7 DEF CountIncref
    <2>6. \A y \in Arr : y # x => HolderSettled(y)' = HolderSettled(y)
      BY <2>1, <2>3, <2>4 DEF HolderSettled, Holding
    <2>7. CASE loaded[t] = 0
      <3>1. HolderSettled(x)' = HolderSettled(x)
        BY <2>1, <2>2, <2>3, <2>4, <2>7 DEF HolderSettled, Holding
      <3>2. Quiet
        BY <1>1, <2>5, <2>6, <3>1 DEF Quiet
      <3>3. QED
        BY <3>2 DEF StepKind
    <2>8. CASE loaded[t] # 0
      <3>1. HolderSettled(x)' = loaded[t] + 1 /\ HolderSettled(x) = loaded[t]
        BY <2>1, <2>2, <2>3, <2>4, <2>8 DEF HolderSettled, Holding
      <3>2. Moves(x)
        BY <1>1, <2>2, <2>5, <2>6, <2>8, <3>1 DEF Moves, OthersSettled
      <3>3. QED
        BY <3>2 DEF StepKind
    <2>9. QED
      BY <2>7, <2>8
  <1>8. ASSUME NEW t \in Thread, CountDecref(t)  PROVE StepKind
    <2>1. PICK x \in Arr : x = arg[t]
      BY DEF TypeOK
    <2>2. refLock = t /\ pc[t] = "dcount" /\ loaded[t] = refcnt[x] /\ refcnt \in [Arr -> Nat] /\ loaded[t] >= 1
      BY <1>8, <2>1, LoadedCount DEF CountDecref, Goto, LockInv, LoadInv, Critical, TypeOK
    <2>3. \A y \in Arr : HolderSettled(y) = refcnt[y]
      BY <2>2 DEF HolderSettled, Holding
    <2>4. /\ refLock' = t /\ arg' = arg
          /\ pc'[t] = (IF loaded[t] = 1 THEN "dsync" ELSE "leave")
          /\ refcnt' = [refcnt EXCEPT ![x] = loaded[t] - 1]
      BY <1>8, <2>1, <2>2 DEF CountDecref, Goto, TypeOK, syncVars
    <2>5. UNCHANGED <<iface, hkind, iterIface>>
      BY <1>8 DEF CountDecref
    <2>6. \A y \in Arr : y # x => HolderSettled(y)' = HolderSettled(y)
      BY <2>1, <2>3, <2>4 DEF HolderSettled, Holding
    <2>7. CASE loaded[t] = 1
      <3>1. HolderSettled(x)' = HolderSettled(x)
        BY <2>1, <2>2, <2>3, <2>4, <2>7 DEF HolderSettled, Holding
      <3>2. Quiet
        BY <1>1, <2>5, <2>6, <3>1 DEF Quiet
      <3>3. QED
        BY <3>2 DEF StepKind
    <2>8. CASE loaded[t] # 1
      <3>1. HolderSettled(x)' = loaded[t] - 1 /\ HolderSettled(x) = loaded[t]
        BY <2>1, <2>2, <2>3, <2>4, <2>8 DEF HolderSettled, Holding
      <3>2. Moves(x)
        BY <1>1, <2>2, <2>5, <2>6, <2>8, <3>1 DEF Moves, OthersSettled
      <3>3. QED
        BY <3>2 DEF StepKind
    <2>9. QED
      BY <2>7, <2>8
  <1>9. ASSUME NEW t \in Thread, CallbackEnter(t)  PROVE StepKind
    <2>1. \A y \in Arr : HolderSettled(y)' = HolderSettled(y)
      BY <1>9 DEF CallbackEnter, Goto, EnterSync, SyncFree, HolderSettled, Holding, LockInv, Critical, dataVars, syncVars, TypeOK
    <2>2. UNCHANGED <<iface, hkind, iterIface>>
      BY <1>9 DEF CallbackEnter, dataVars
    <2>3. QED
      BY <1>1, <2>1, <2>2 DEF Quiet, StepKind
  <1>10. ASSUME NEW t \in Thread, CallbackSwitch(t)  PROVE StepKind
    <2>1. PICK x \in Arr : x = arg[t]
      BY DEF TypeOK
    <2>2. refLock = t /\ pc[t] \in {"iswitch", "dswitch"}
      BY <1>10, SwitchedHandle DEF LockInv, Critical, TypeOK
    <2>3. refLock' = t /\ arg' = arg /\ refcnt' = refcnt /\ iterIface' = iterIface /\ pc'[t] = "leave"
      BY <1>10, <2>2 DEF CallbackSwitch, Goto, TypeOK
    <2>4. refcnt[x] = IF pc[t] = "iswitch" THEN 1 ELSE 0
      BY <2>1, <2>2 DEF LoadInv
    <2>5. \A y \in Arr : HolderSettled(y)' = refcnt[y]
      BY <2>2, <2>3 DEF HolderSettled, Holding
    <2>6. \A y \in Arr : y # x => HolderSettled(y) = refcnt[y]
      BY <2>1, <2>2 DEF HolderSettled, Holding
    <2>7. HolderSettled(x) = IF pc[t] = "iswitch" THEN 0 ELSE 1
      BY <2>1, <2>2 DEF HolderSettled, Holding
    <2>8. PICK h \in Handle :
            /\ hkind[h] = "free"
            /\ hkind' = [hkind EXCEPT ![h] = IF pc[t] = "iswitch" THEN "strong" ELSE "weak",
                                    ![iface[arg[t]]] = "free"]
            /\ iface' = [iface EXCEPT ![arg[t]] = h]
      BY <1>10, SwitchedHandle
    <2>9. Switches(x, h)
      BY <1>1, <2>1, <2>2, <2>3, <2>4, <2>5, <2>6, <2>7, <2>8 DEF Switches, OthersSettled
    <2>10. QED
      BY <2>9 DEF StepKind
  <1>11. ASSUME NEW t \in Thread, LeaveRef(t)  PROVE StepKind
    <2>1. \A y \in Arr : HolderSettled(y)' = HolderSettled(y)
      BY <1>11 DEF LeaveRef, Goto, HolderSettled, Holding, LockInv, Critical, dataVars, syncVars, TypeOK
    <2>2. UNCHANGED <<iface, hkind, iterIface>>
      BY <1>11 DEF LeaveRef, dataVars
    <2>3. QED
      BY <1>1, <2>1, <2>2 DEF Quiet, StepKind
  <1>12. ASSUME NEW t \in Thread, CallIterWrapper(t)  PROVE StepKind
    <2>1. \A y \in Arr : HolderSettled(y)' = HolderSettled(y)
      BY <1>12 DEF CallIterWrapper, Goto, HolderSettled, Holding, LockInv, Critical, dataVars, syncVars, TypeOK
    <2>2. UNCHANGED <<iface, hkind, iterIface>>
      BY <1>12 DEF CallIterWrapper, dataVars
    <2>3. QED
      BY <1>1, <2>1, <2>2 DEF Quiet, StepKind
  <1>13. ASSUME NEW t \in Thread, WrapperEnter(t)  PROVE StepKind
    <2>1. \A y \in Arr : HolderSettled(y)' = HolderSettled(y)
      BY <1>13 DEF WrapperEnter, Goto, EnterSync, SyncFree, HolderSettled, Holding, LockInv, Critical, dataVars, syncVars, TypeOK
    <2>2. UNCHANGED <<iface, hkind, iterIface>>
      BY <1>13 DEF WrapperEnter, dataVars
    <2>3. QED
      BY <1>1, <2>1, <2>2 DEF Quiet, StepKind
  <1>14. ASSUME NEW t \in Thread, WrapperCheck(t)  PROVE StepKind
    <2>1. \A y \in Arr : HolderSettled(y)' = HolderSettled(y)
      BY <1>14 DEF WrapperCheck, Goto, HolderSettled, Holding, LockInv, Critical, dataVars, syncVars, TypeOK
    <2>2. UNCHANGED <<iface, hkind, iterIface>>
      BY <1>14 DEF WrapperCheck, dataVars
    <2>3. QED
      BY <1>1, <2>1, <2>2 DEF Quiet, StepKind
  <1>15. ASSUME NEW t \in Thread, WrapperRead(t)  PROVE StepKind
    <2>1. \A y \in Arr : HolderSettled(y)' = HolderSettled(y)
      BY <1>15 DEF WrapperRead, Goto, HolderSettled, Holding, LockInv, Critical, dataVars, syncVars, TypeOK
    <2>2. UNCHANGED <<iface, hkind, iterIface>>
      BY <1>15 DEF WrapperRead, dataVars
    <2>3. QED
      BY <1>1, <2>1, <2>2 DEF Quiet, StepKind
  <1>16. ASSUME NEW t \in Thread, WrapperStore(t)  PROVE StepKind
    <2>1. \A y \in Arr : HolderSettled(y)' = HolderSettled(y)
      BY <1>16 DEF WrapperStore, Goto, HolderSettled, Holding, LockInv, Critical, syncVars
    <2>2. PICK h \in Handle : /\ hkind[h] = "free"
                              /\ hkind' = [hkind EXCEPT ![h] = "strong"]
                              /\ iterIface' = h
      BY <1>16 DEF WrapperStore
    <2>3. iterIface = NoHandle
      BY <1>16 DEF WrapperStore, Goto, WrapInv, Wrapping
    <2>4. Stores(h)
      BY <1>1, <1>16, <2>1, <2>2, <2>3 DEF Stores, WrapperStore
    <2>5. QED
      BY <2>4 DEF StepKind
  <1>17. ASSUME NEW t \in Thread, WrapperLeave(t)  PROVE StepKind
    <2>1. \A y \in Arr : HolderSettled(y)' = HolderSettled(y)
      BY <1>17 DEF WrapperLeave, Goto, LeaveSync, HolderSettled, Holding, LockInv, Critical, dataVars, syncVars, TypeOK
    <2>2. UNCHANGED <<iface, hkind, iterIface>>
      BY <1>17 DEF WrapperLeave, dataVars
    <2>3. QED
      BY <1>1, <2>1, <2>2 DEF Quiet, StepKind
  <1>18. QED
    BY <1>2, <1>3, <1>4, <1>5, <1>6, <1>7, <1>8, <1>9, <1>10, <1>11, <1>12, <1>13, <1>14, <1>15, <1>16, <1>17 DEF Next

\* The handle of an array is its own, and agrees with its settled count.
LEMMA HandleStep == IInv /\ [Next]_vars => HandleInv'
  <1>. SUFFICES ASSUME IInv, [Next]_vars  PROVE HandleInv'
    OBVIOUS
  <1>. TypeOK /\ HandleInv
    BY DEF IInv
  <1>1. CASE Quiet
    BY <1>1 DEF Quiet, HandleInv
  <1>2. ASSUME NEW x \in Arr, Moves(x)  PROVE HandleInv'
    <2>1. Settled(x) \in Nat
      BY DEF Settled, TypeOK
    <2>2. \A y \in Arr : (Settled(y)' > 0) <=> (Settled(y) > 0)
      BY <1>2, <2>1 DEF Moves, OthersSettled
    <2>3. QED
      BY <1>2, <2>2 DEF Moves, HandleInv
  <1>3. ASSUME NEW x \in Arr, NEW h \in Handle, Switches(x, h)  PROVE HandleInv'
    <2>1. \A y \in Arr : iface[y] \in Handle /\ iface[y] # h
      BY <1>3 DEF Switches, HandleInv, TypeOK
    <2>2. ASSUME NEW y \in Arr, y # x
          PROVE  hkind'[iface'[y]] = (IF Settled(y)' > 0 THEN "strong" ELSE "weak")
      BY <1>3, <2>1, <2>2 DEF Switches, OthersSettled, HandleInv, TypeOK
    <2>3. hkind'[iface'[x]] = (IF Settled(x)' > 0 THEN "strong" ELSE "weak")
      BY <1>3, <2>1 DEF Switches, HandleInv, TypeOK
    <2>4. iterIface # NoHandle =>
            iterIface \in Handle /\ iterIface # h /\ iterIface # iface[x]
      BY <1>3 DEF Switches, HandleInv, TypeOK
    <2>5. /\ \A y, z \in Arr : iface'[y] = iface'[z] => y = z
          /\ \A y \in Arr : iface'[y] # iterIface'
      BY <1>3, <2>1, <2>4, RefLocksAssumption DEF Switches, HandleInv, TypeOK
    <2>6. iterIface' # NoHandle => hkind'[iterIface'] = "strong"
      BY <1>3, <2>4 DEF Switches, HandleInv, TypeOK
    <2>7. QED
      BY <2>2, <2>3, <2>5, <2>6 DEF HandleInv
  <1>4. ASSUME NEW h \in Handle, Stores(h)  PROVE HandleInv'
    <2>1. \A y \in Arr : iface[y] \in Handle /\ iface[y] # h
      BY <1>4 DEF Stores, HandleInv, TypeOK
    <2>2. QED
      BY <1>4, <2>1 DEF Stores, HandleInv, TypeOK
  <1>5. QED
    BY <1>1, <1>2, <1>3, <1>4, StepCases DEF StepKind

\* One wrapper.
LEMMA WrapStep == IInv /\ [Next]_vars => WrapInv'
  <1>. SUFFICES ASSUME IInv, [Next]_vars  PROVE WrapInv'
    OBVIOUS
  <1>. USE RefLocksAssumption DEF IInv, TypeOK
  <1>1. CASE UNCHANGED vars
    BY <1>1 DEF vars, dataVars, syncVars, WrapInv, Wrapping, Critical, LockInv
  <1>2. ASSUME NEW t \in Thread, NEW x \in Arr, CallIncref(t, x)  PROVE WrapInv'
    BY <1>2 DEF CallIncref, Goto, dataVars, syncVars, WrapInv, Wrapping, Critical, LockInv
  <1>3. ASSUME NEW t \in Thread, NEW x \in Arr, CallDecref(t, x)  PROVE WrapInv'
    BY <1>3 DEF CallDecref, Goto, dataVars, syncVars, WrapInv, Wrapping, Critical, LockInv
  <1>4. ASSUME NEW t \in Thread, EnterRef(t)  PROVE WrapInv'
    BY <1>4 DEF EnterRef, Goto, dataVars, syncVars, WrapInv, Wrapping, Critical, LockInv
  <1>5. ASSUME NEW t \in Thread, LoadCount(t)  PROVE WrapInv'
    BY <1>5 DEF LoadCount, Goto, dataVars, syncVars, WrapInv, Wrapping, Critical, LockInv
  <1>6. ASSUME NEW t \in Thread, CountIncref(t)  PROVE WrapInv'
    BY <1>6 DEF CountIncref, Goto, dataVars, syncVars, WrapInv, Wrapping, Critical, LockInv
  <1>7. ASSUME NEW t \in Thread, CountDecref(t)  PROVE WrapInv'
    BY <1>7 DEF CountDecref, Goto, dataVars, syncVars, WrapInv, Wrapping, Critical, LockInv
  <1>8. ASSUME NEW t \in Thread, CallbackEnter(t)  PROVE WrapInv'
    BY <1>8 DEF CallbackEnter, Goto, EnterSync, SyncFree, dataVars, syncVars, WrapInv, Wrapping, Critical, LockInv
  <1>9. ASSUME NEW t \in Thread, CallbackSwitch(t)  PROVE WrapInv'
    BY <1>9 DEF CallbackSwitch, Goto, SwitchHandle, LeaveSync, dataVars, syncVars, WrapInv, Wrapping, Critical, LockInv
  <1>10. ASSUME NEW t \in Thread, LeaveRef(t)  PROVE WrapInv'
    BY <1>10 DEF LeaveRef, Goto, dataVars, syncVars, WrapInv, Wrapping, Critical, LockInv
  <1>11. ASSUME NEW t \in Thread, CallIterWrapper(t)  PROVE WrapInv'
    BY <1>11 DEF CallIterWrapper, Goto, dataVars, syncVars, WrapInv, Wrapping, Critical, LockInv
  <1>12. ASSUME NEW t \in Thread, WrapperEnter(t)  PROVE WrapInv'
    BY <1>12 DEF WrapperEnter, Goto, EnterSync, SyncFree, dataVars, syncVars, WrapInv, Wrapping, Critical, LockInv
  <1>13. ASSUME NEW t \in Thread, WrapperCheck(t)  PROVE WrapInv'
    BY <1>13 DEF WrapperCheck, Goto, dataVars, syncVars, WrapInv, Wrapping, Critical, LockInv
  <1>14. ASSUME NEW t \in Thread, WrapperRead(t)  PROVE WrapInv'
    BY <1>14 DEF WrapperRead, Goto, dataVars, syncVars, WrapInv, Wrapping, Critical, LockInv
  <1>15. ASSUME NEW t \in Thread, WrapperStore(t)  PROVE WrapInv'
    BY <1>15 DEF WrapperStore, Goto, dataVars, syncVars, WrapInv, Wrapping, Critical, LockInv
  <1>16. ASSUME NEW t \in Thread, WrapperLeave(t)  PROVE WrapInv'
    BY <1>16 DEF WrapperLeave, Goto, LeaveSync, dataVars, syncVars, WrapInv, Wrapping, Critical, LockInv
  <1>17. QED
    BY <1>1, <1>2, <1>3, <1>4, <1>5, <1>6, <1>7, <1>8, <1>9, <1>10, <1>11, <1>12, <1>13, <1>14, <1>15, <1>16 DEF Next

-----------------------------------------------------------------------------
(* The theorems.                                                           *)

\* The invariant holds at first.
LEMMA InitIInv == Init => IInv
  <1>. SUFFICES ASSUME Init  PROVE IInv
    OBVIOUS
  <1>. USE RefLocksAssumption
  <1>1. TypeOK
    BY DEF Init, TypeOK, PCs
  <1>2. LockInv
    BY DEF Init, LockInv, Critical, Switching, Wrapping
  <1>3. LoadInv
    BY DEF Init, LoadInv
  <1>4. OwnInv
    BY DEF Init, OwnInv, Borrowing, Critical
  <1>5. NoLostCount
    <2>1. \A x \in Arr : Owned(x) = {}
      BY DEF Init, Owned
    <2>2. Cardinality({}) = 0
      BY FS_EmptySet
    <2>3. \A x \in Arr : Cardinality(Owned(x)) = 0
      BY <2>1, <2>2
    <2>4. \A x \in Arr : refcnt[x] = 0 + (IF x = Iterated THEN 1 ELSE 0)
      BY DEF Init
    <2>5. QED
      BY <2>3, <2>4 DEF NoLostCount
  <1>6. HandleInv
    <2>1. \A x \in Arr : Settled(x) = IF x = Iterated THEN 1 ELSE 0
      BY DEF Init, Settled, Pending
    <2>2. \A x \in Arr : hkind[iface[x]] = IF x = Iterated THEN "strong" ELSE "weak"
      BY DEF Init
    <2>3. QED
      BY <2>1, <2>2 DEF Init, HandleInv
  <1>7. WrapInv
    BY DEF Init, WrapInv, Wrapping, Critical
  <1>8. QED
    BY <1>1, <1>2, <1>3, <1>4, <1>5, <1>6, <1>7 DEF IInv

\* The invariant is inductive.
LEMMA StepIInv == IInv /\ [Next]_vars => IInv'
  BY TypeStep, LockStep, LoadStep, OwnStep, CountStep, HandleStep, WrapStep DEF IInv

\* The strengthening holds throughout.
THEOREM Invariance == Spec => []IInv
  BY InitIInv, StepIInv, PTL DEF Spec

\* Types: in particular neither a count nor the monitor's depth goes negative.
THEOREM TypeCorrect == Spec => []TypeOK
  <1>1. IInv => TypeOK
    BY DEF IInv
  <1>2. QED
    BY <1>1, Invariance, PTL

\* No interleaving of INCREFs, DECREFs and IterNewWrapper loses a count
\* (Npy_RefCntLock, npy_object.h:54-82).
THEOREM CountsExact == Spec => []NoLostCount
  <1>1. IInv => NoLostCount
    BY DEF IInv
  <1>2. QED
    BY <1>1, Invariance, PTL

\* One wrapper per iterator (interfaceSyncRoot and the second test of
\* interfaceRet in IterNewWrapper).
THEOREM OneWrapper == Spec => []OneIteratorWrapper
  <1>1. IInv => OneIteratorWrapper
    BY DEF IInv, WrapInv, OneIteratorWrapper
  <1>2. QED
    BY <1>1, Invariance, PTL

\* ToInterface needs no lock: whoever owns a reference and is not itself in the
\* callback of its own INCREF finds a strong handle.  The count tells: a thread
\* about to make the handle strong is the only owner, and one about to make it
\* weak has left no owner.
THEOREM OwnersSeeStrong == Spec => []OwnerSeesStrongHandle
  <1>1. IInv => OwnerSeesStrongHandle
    <2>. SUFFICES ASSUME IInv, NEW t \in Thread, NEW x \in Arr, owned[t][x] > 0,
                         ~(arg[t] = x /\ pc[t] \in {"isync", "iswitch"})
                  PROVE  hkind[iface[x]] = "strong"
      BY DEF OwnerSeesStrongHandle
    <2>1. refcnt[x] >= 1 /\ \A u \in Thread : u # t /\ owned[u][x] > 0 => refcnt[x] >= 2
      BY OwnerCount DEF IInv
    <2>2. ~ Pending({"dsync", "dswitch"}, x)
      BY <2>1 DEF Pending, IInv, LoadInv
    <2>3. ~ Pending({"isync", "iswitch"}, x)
      <3>. SUFFICES ASSUME NEW u \in Thread, pc[u] \in {"isync", "iswitch"}, arg[u] = x
                    PROVE  FALSE
        BY DEF Pending
      <3>1. u # t /\ owned[u][x] > 0 /\ refcnt[x] = 1
        BY DEF IInv, OwnInv, LoadInv
      <3>2. QED
        BY <2>1, <3>1
    <2>4. Settled(x) > 0
      BY <2>1, <2>2, <2>3 DEF Settled, IInv, TypeOK
    <2>5. QED
      BY <2>4 DEF IInv, HandleInv
  <1>2. QED
    BY <1>1, Invariance, PTL

-----------------------------------------------------------------------------
(* RefLocks implements RefHandle.                                          *)

countBar == [x \in Arr |-> Settled(x)]
kindBar  == [h \in Handle |-> IF h = iterIface THEN "free" ELSE hkind[h]]

\* Initial states are initial states of RefHandle.
LEMMA BarInit == Init => Atomic!Init
  <1>. SUFFICES ASSUME Init  PROVE Atomic!Init
    OBVIOUS
  <1>1. \A x \in Arr : Settled(x) = IF x = Iterated THEN 1 ELSE 0
    BY DEF Init, Settled, Pending
  <1>2. countBar \in [Arr -> Nat] /\ \A x \in Arr : countBar[x] > 0 <=> x = Iterated
    BY <1>1 DEF countBar
  <1>3. kindBar = hkind
    BY RefLocksAssumption DEF Init, kindBar
  <1>4. hkind = [h \in Handle |->
                   IF \E x \in Arr : iface[x] = h /\ countBar[x] > 0 THEN "strong"
                   ELSE IF \E x \in Arr : iface[x] = h THEN "weak" ELSE "free"]
    BY <1>2, RefLocksAssumption DEF Init
  <1>5. QED
    BY <1>2, <1>3, <1>4 DEF Init, Atomic!Init, countBar, kindBar, Settled

\* The settled count of one array moves.
LEMMA BarMoves ==
  ASSUME NEW x \in Arr, OthersSettled(x)
  PROVE  countBar' = [countBar EXCEPT ![x] = Settled(x)']
  <1>1. \A y \in Arr : Settled(y)' = IF y = x THEN Settled(x)' ELSE Settled(y)
    BY DEF OthersSettled
  <1>2. countBar' = [y \in Arr |-> Settled(y)']
    BY DEF countBar
  <1>3. [y \in Arr |-> Settled(y)'] = [y \in Arr |-> IF y = x THEN Settled(x)' ELSE Settled(y)]
    BY <1>1
  <1>4. QED
    BY <1>2, <1>3 DEF countBar

\* Every step is a step of RefHandle or changes nothing it sees.
LEMMA BarStep == IInv /\ [Next]_vars => [Atomic!Next]_Atomic!vars
  <1>. SUFFICES ASSUME IInv, [Next]_vars  PROVE [Atomic!Next]_Atomic!vars
    OBVIOUS
  <1>. TypeOK /\ HandleInv
    BY DEF IInv
  <1>0. /\ Atomic!vars = <<countBar, iface, kindBar>>
        /\ Atomic!vars' = <<countBar', iface', kindBar'>>
        /\ \A x \in Arr : countBar[x] = Settled(x) /\ countBar'[x] = Settled(x)'
        /\ DOMAIN countBar = Arr /\ DOMAIN countBar' = Arr
    BY DEF Atomic!vars, countBar, kindBar, Settled
  <1>1. CASE Quiet
    <2>1. countBar' = countBar /\ kindBar' = kindBar /\ iface' = iface
      BY <1>1 DEF Quiet, countBar, kindBar
    <2>2. QED
      BY <1>0, <2>1
  <1>2. ASSUME NEW x \in Arr, Moves(x)  PROVE Atomic!Next
    <2>1. iface' = iface /\ kindBar' = kindBar
      BY <1>2 DEF Moves, kindBar
    <2>2. CASE Settled(x) > 0 /\ Settled(x)' = Settled(x) + 1
      <3>1. countBar' = [countBar EXCEPT ![x] = @ + 1] /\ countBar[x] # 0
        BY <1>0, <1>2, <2>2, BarMoves DEF Moves
      <3>2. Atomic!Incref(x)
        BY <1>0, <2>1, <3>1 DEF Atomic!Incref, countBar, kindBar, Settled
      <3>3. QED
        BY <3>2 DEF Atomic!Next
    <2>3. CASE Settled(x) > 1 /\ Settled(x)' = Settled(x) - 1
      <3>0. countBar[x] \in Nat /\ countBar[x] > 1
        BY <1>0, <2>3 DEF Settled, TypeOK
      <3>1. countBar' = [countBar EXCEPT ![x] = countBar[x] - 1]
        BY <1>0, <1>2, <2>3, BarMoves DEF Moves
      <3>2. Atomic!Decref(x)
        BY <1>0, <2>1, <3>0, <3>1 DEF Atomic!Decref, countBar, kindBar, Settled
      <3>3. QED
        BY <3>2 DEF Atomic!Next
    <2>4. QED
      BY <1>2, <2>2, <2>3 DEF Moves
  <1>3. ASSUME NEW x \in Arr, NEW h \in Handle, Switches(x, h)  PROVE Atomic!Next
    <2>1. kindBar[h] = "free" /\ iface' = [iface EXCEPT ![x] = h]
      BY <1>3 DEF Switches, kindBar
    <2>2. iterIface # h /\ iterIface # iface[x] /\ iface[x] \in Handle /\ iterIface' = iterIface
      BY <1>3, RefLocksAssumption DEF Switches, HandleInv, TypeOK
    <2>3. CASE Settled(x) = 0 /\ Settled(x)' = 1
                 /\ hkind' = [hkind EXCEPT ![h] = "strong", ![iface[x]] = "free"]
      <3>1. countBar' = [countBar EXCEPT ![x] = @ + 1] /\ countBar[x] = 0
        BY <1>0, <1>3, <2>3, BarMoves DEF Switches
      <3>2. kindBar' = [kindBar EXCEPT ![h] = "strong", ![iface[x]] = "free"]
        BY <2>2, <2>3 DEF kindBar, TypeOK
      <3>3. Atomic!Incref(x)
        BY <2>1, <3>1, <3>2 DEF Atomic!Incref, Atomic!Switch, countBar, kindBar, Settled
      <3>4. QED
        BY <3>3 DEF Atomic!Next
    <2>4. CASE Settled(x) = 1 /\ Settled(x)' = 0
                 /\ hkind' = [hkind EXCEPT ![h] = "weak", ![iface[x]] = "free"]
      <3>1. countBar' = [countBar EXCEPT ![x] = @ - 1] /\ countBar[x] = 1 /\ countBar[x] > 0
        BY <1>0, <1>3, <2>4, BarMoves DEF Switches
      <3>2. kindBar' = [kindBar EXCEPT ![h] = "weak", ![iface[x]] = "free"]
        BY <2>2, <2>4 DEF kindBar, TypeOK
      <3>3. Atomic!Decref(x)
        BY <2>1, <3>1, <3>2 DEF Atomic!Decref, Atomic!Switch, countBar, kindBar, Settled
      <3>4. QED
        BY <3>3 DEF Atomic!Next
    <2>5. QED
      BY <1>3, <2>3, <2>4 DEF Switches
  <1>4. ASSUME NEW h \in Handle, Stores(h)  PROVE UNCHANGED Atomic!vars
    <2>1. iface' = iface /\ countBar' = countBar
      BY <1>4 DEF Stores, countBar
    <2>2. kindBar' = kindBar
      BY <1>4, RefLocksAssumption DEF Stores, kindBar, TypeOK
    <2>3. QED
      BY <1>0, <2>1, <2>2
  <1>5. QED
    BY <1>1, <1>2, <1>3, <1>4, StepCases DEF StepKind

\* INCREF and DECREF behind their two locks, with the callback between them, are
\* the single steps that module ObjectLife takes them to be.
THEOREM Refinement == Spec => AtomicRefcount
  <1>1. Spec => []IInv
    BY Invariance
  <1>2. QED
    BY <1>1, BarInit, BarStep, PTL DEF Spec, AtomicRefcount, Atomic!Spec

=============================================================================
