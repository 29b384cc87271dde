------------------------------ MODULE RefLocks ------------------------------
(***************************************************************************)
(* Npy_INCREF, Npy_DECREF and the deferred creation of an iterator's       *)
(* wrapper, at the grain of their two locks: Npy_RefCntLock, a native      *)
(* critical section, and interfaceSyncRoot, a managed (reentrant) monitor. *)
(*                                                                         *)
(* The count changes under the first lock; if it moves to or from zero the *)
(* callback takes the second lock inside the first and switches the handle.*)
(* IterNewWrapper takes the second lock and, inside it, the first.         *)
(* The wrappers of the arrays are reachable throughout.                    *)
(***************************************************************************)
EXTENDS Naturals, FiniteSets

CONSTANTS
  Thread,
  Arr,        \* core arrays, each with a wrapper
  Iterated,   \* the array under the one core iterator, which owns a reference
  Handle,     \* slots of the GCHandle table
  NoThread,   \* the owner of a free lock
  NoHandle,   \* a NULL nob_interface
  MaxOwned    \* bound: references a thread owns at a time

ASSUME RefLocksAssumption ==
  /\ Iterated \in Arr
  /\ NoThread \notin Thread
  /\ NoHandle \notin Handle
  /\ MaxOwned \in Nat
  /\ IsFiniteSet(Thread)

VARIABLES
  refcnt,     \* nob_refcnt of each array
  iface,      \* nob_interface of each array
  hkind,      \* the handle table
  iterIface,  \* nob_interface of the iterator
  flatiters,  \* how many flatiter wrappers were stored for the iterator
  refLock,    \* owner of Npy_RefCntLock
  syncLock,   \* owner of interfaceSyncRoot...
  syncDepth,  \*   and how many times it entered
  pc,         \* where each thread stands
  arg,        \* the array its INCREF or DECREF is about
  ret,        \* where that call returns to
  loaded,     \* the count it read and is about to write back, changed by one
  owned       \* references to each array a thread owns

vars == <<refcnt, iface, hkind, iterIface, flatiters, refLock, syncLock,
          syncDepth, pc, arg, ret, loaded, owned>>
dataVars == <<refcnt, iface, hkind, iterIface, flatiters, owned>>
syncVars == <<syncLock, syncDepth>>

PCs == {"idle", "inc", "iload", "icount", "isync", "iswitch",
        "dec", "dload", "dcount", "dsync", "dswitch", "leave",
        "wsync", "wcheck", "wread", "wstore", "wleave"}

TypeOK ==
  /\ refcnt \in [Arr -> Nat]
  /\ iface \in [Arr -> Handle]
  /\ hkind \in [Handle -> {"free", "strong", "weak"}]
  /\ iterIface \in Handle \cup {NoHandle}
  /\ flatiters \in Nat
  /\ refLock \in Thread \cup {NoThread}
  /\ syncLock \in Thread \cup {NoThread}
  /\ syncDepth \in 0..2
  /\ pc \in [Thread -> PCs]
  /\ arg \in [Thread -> Arr]
  /\ ret \in [Thread -> {"idle", "wread", "wstore"}]
  /\ loaded \in [Thread -> Nat]
  /\ owned \in [Thread -> [Arr -> 0..(MaxOwned + 1)]]

Init ==
  /\ refcnt = [x \in Arr |-> IF x = Iterated THEN 1 ELSE 0]
  /\ iface \in [Arr -> Handle]
  /\ \A x, y \in Arr : iface[x] = iface[y] => x = y
  /\ hkind = [h \in Handle |-> IF iface[Iterated] = h THEN "strong"
                               ELSE IF \E x \in Arr : iface[x] = h THEN "weak" ELSE "free"]
  /\ iterIface = NoHandle
  /\ flatiters = 0
  /\ refLock = NoThread
  /\ syncLock = NoThread
  /\ syncDepth = 0
  /\ pc = [t \in Thread |-> "idle"]
  /\ arg = [t \in Thread |-> Iterated]
  /\ ret = [t \in Thread |-> "idle"]
  /\ loaded = [t \in Thread |-> 0]
  /\ owned = [t \in Thread |-> [x \in Arr |-> 0]]

-----------------------------------------------------------------------------
Goto(t, from, to) == pc[t] = from /\ pc' = [pc EXCEPT ![t] = to]

SyncFree(t) == syncLock \in {NoThread, t}

EnterSync(t) ==
  /\ SyncFree(t)
  /\ syncLock' = t
  /\ syncDepth' = syncDepth + 1

\* Mutant: leaving the monitor forgets to count down.
LeaveSyncUncounted(t) ==
  /\ syncDepth' = syncDepth
  /\ syncLock' = IF syncDepth = 1 THEN NoThread ELSE t

LeaveSync(t) ==
  /\ syncDepth' = syncDepth - 1
  /\ syncLock' = IF syncDepth = 1 THEN NoThread ELSE t

\* Mutant: the old handle is never freed.
SwitchHandleLeaky(x, kind) ==
  \E h \in Handle :
    /\ hkind[h] = "free"
    /\ hkind' = [hkind EXCEPT ![h] = kind]
    /\ iface' = [iface EXCEPT ![x] = h]

\* AllocGCHandle, WriteIntPtr, FreeGCHandle under interfaceSyncRoot.
SwitchHandle(x, kind) ==
  \E h \in Handle :
    /\ hkind[h] = "free"
    /\ hkind' = [hkind EXCEPT ![h] = kind, ![iface[x]] = "free"]
    /\ iface' = [iface EXCEPT ![x] = h]

-----------------------------------------------------------------------------
(* Npy_INCREF and Npy_DECREF.                                               *)

\* A caller starts one of its own: NpyArrayAccess_Incref, NpyArrayAccess_Decref.
CallIncref(t, x) ==
  /\ owned[t][x] < MaxOwned
  /\ Goto(t, "idle", "inc")
  /\ arg' = [arg EXCEPT ![t] = x]
  /\ ret' = [ret EXCEPT ![t] = "idle"]
  /\ UNCHANGED <<dataVars, refLock, syncVars, loaded>>

CallDecref(t, x) ==
  /\ owned[t][x] > 0
  /\ Goto(t, "idle", "dec")
  /\ arg' = [arg EXCEPT ![t] = x]
  /\ ret' = [ret EXCEPT ![t] = "idle"]
  /\ UNCHANGED <<dataVars, refLock, syncVars, loaded>>

\* Mutant: no critical section (the macros for other platforms have none).
EnterRefUnlocked(t) ==
  /\ refLock' = t
  /\ \/ Goto(t, "inc", "iload")
     \/ Goto(t, "dec", "dload")
  /\ UNCHANGED <<dataVars, syncVars, arg, ret, loaded>>

\* EnterCriticalSection(&Npy_RefCntLock)
EnterRef(t) ==
  /\ refLock = NoThread
  /\ refLock' = t
  /\ \/ Goto(t, "inc", "iload")
     \/ Goto(t, "dec", "dload")
  /\ UNCHANGED <<dataVars, syncVars, arg, ret, loaded>>

\* ++nob_refcnt, --nob_refcnt: load the count...
LoadCount(t) ==
  /\ \/ Goto(t, "iload", "icount")
     \/ Goto(t, "dload", "dcount")
  /\ loaded' = [loaded EXCEPT ![t] = refcnt[arg[t]]]
  /\ UNCHANGED <<dataVars, refLock, syncVars, arg, ret>>

\* ... and store it: if (1 == ++(a)->nob_refcnt && ...) _NpyInterface_Incref
CountIncref(t) ==
  /\ Goto(t, "icount", IF loaded[t] = 0 THEN "isync" ELSE "leave")
  /\ refcnt' = [refcnt EXCEPT ![arg[t]] = loaded[t] + 1]
  /\ owned' = [owned EXCEPT ![t][arg[t]] = @ + 1]
  /\ loaded' = [loaded EXCEPT ![t] = 0]
  /\ UNCHANGED <<iface, hkind, iterIface, flatiters, refLock, syncVars, arg, ret>>

\* if (0 == --(a)->nob_refcnt) _NpyInterface_Decref
CountDecref(t) ==
  /\ Goto(t, "dcount", IF loaded[t] = 1 THEN "dsync" ELSE "leave")
  /\ refcnt' = [refcnt EXCEPT ![arg[t]] = loaded[t] - 1]
  /\ owned' = [owned EXCEPT ![t][arg[t]] = @ - 1]
  /\ loaded' = [loaded EXCEPT ![t] = 0]
  /\ UNCHANGED <<iface, hkind, iterIface, flatiters, refLock, syncVars, arg, ret>>

\* IncrefCallback, DecrefCallback: lock (interfaceSyncRoot)...
CallbackEnter(t) ==
  /\ \/ Goto(t, "isync", "iswitch")
     \/ Goto(t, "dsync", "dswitch")
  /\ EnterSync(t)
  /\ UNCHANGED <<dataVars, refLock, arg, ret, loaded>>

\* ... switch the handle and leave the monitor.
CallbackSwitch(t) ==
  /\ \/ Goto(t, "iswitch", "leave") /\ SwitchHandle(arg[t], "strong")
     \/ Goto(t, "dswitch", "leave") /\ SwitchHandle(arg[t], "weak")
  /\ LeaveSync(t)
  /\ UNCHANGED <<refcnt, iterIface, flatiters, refLock, arg, ret, loaded, owned>>

\* LeaveCriticalSection(&Npy_RefCntLock)
LeaveRef(t) ==
  /\ Goto(t, "leave", ret[t])
  /\ refLock' = NoThread
  /\ UNCHANGED <<dataVars, syncVars, arg, ret, loaded>>

-----------------------------------------------------------------------------
(* ToInterface of the iterator, and IterNewWrapper.                         *)

\* ToInterface reads nob_interface without a lock and finds it NULL.
CallIterWrapper(t) ==
  /\ iterIface = NoHandle
  /\ Goto(t, "idle", "wsync")
  /\ UNCHANGED <<dataVars, refLock, syncVars, arg, ret, loaded>>

\* lock (interfaceSyncRoot)
WrapperEnter(t) ==
  /\ Goto(t, "wsync", "wcheck")
  /\ EnterSync(t)
  /\ UNCHANGED <<dataVars, refLock, arg, ret, loaded>>

\* Mutant: interfaceRet is not checked again inside the lock.
WrapperCheckOnce(t) ==
  /\ Goto(t, "wcheck", "inc")
  /\ arg' = [arg EXCEPT ![t] = Iterated]
  /\ ret' = [ret EXCEPT ![t] = "wread"]
  /\ UNCHANGED <<dataVars, refLock, syncVars, loaded>>

\* if (interfaceRet == IntPtr.Zero) new flatiter(coreIter), whose constructor
\* calls IterArray: Npy_INCREF(it->ao).
WrapperCheck(t) ==
  /\ Goto(t, "wcheck", IF iterIface = NoHandle THEN "inc" ELSE "wleave")
  /\ arg' = [arg EXCEPT ![t] = Iterated]
  /\ ret' = [ret EXCEPT ![t] = "wread"]
  /\ UNCHANGED <<dataVars, refLock, syncVars, loaded>>

\* ToInterface<ndarray>, then Decref, of the array.
WrapperRead(t) ==
  /\ Goto(t, "wread", "dec")
  /\ ret' = [ret EXCEPT ![t] = "wstore"]
  /\ UNCHANGED <<dataVars, refLock, syncVars, arg, loaded>>

\* interfaceRet = AllocGCHandle(wrapIter)
WrapperStore(t) ==
  /\ Goto(t, "wstore", "wleave")
  /\ \E h \in Handle :
       /\ hkind[h] = "free"
       /\ hkind' = [hkind EXCEPT ![h] = "strong"]
       /\ iterIface' = h
  /\ flatiters' = flatiters + 1
  /\ UNCHANGED <<refcnt, iface, refLock, syncVars, arg, ret, loaded, owned>>

WrapperLeave(t) ==
  /\ Goto(t, "wleave", "idle")
  /\ LeaveSync(t)
  /\ UNCHANGED <<dataVars, refLock, arg, ret, loaded>>

-----------------------------------------------------------------------------
Next ==
  \E t \in Thread :
    \/ \E x \in Arr : CallIncref(t, x) \/ CallDecref(t, x)
    \/ EnterRef(t) \/ LoadCount(t) \/ CountIncref(t) \/ CountDecref(t)
    \/ CallbackEnter(t) \/ CallbackSwitch(t) \/ LeaveRef(t)
    \/ CallIterWrapper(t) \/ WrapperEnter(t) \/ WrapperCheck(t)
    \/ WrapperRead(t) \/ WrapperStore(t) \/ WrapperLeave(t)

Spec == Init /\ [][Next]_vars

-----------------------------------------------------------------------------
(* Properties.                                                             *)

\* A thread that owns a reference and stands outside the callbacks finds a
\* strong handle in nob_interface, although it reads it without any lock
\* (NpyCoreApi.cs:1290-1305): no thread can be half way through a switch.
OwnerSeesStrongHandle ==
  \A t \in Thread, x \in Arr :
    owned[t][x] > 0 /\ ~(arg[t] = x /\ pc[t] \in {"isync", "iswitch"})
      => hkind[iface[x]] = "strong"

\* Two threads that find the iterator without a wrapper at the same time store
\* one wrapper, not two (NpyCoreApi.cs:1413-1416).
OneIteratorWrapper == flatiters <= 1

\* The count is the references owned by threads and by the core iterator
\* ("thread-safe atomic increment/decrement behavior", npy_object.h:54-56).
Owned(x) == {p \in Thread \X (1..(MaxOwned + 1)) : p[2] <= owned[p[1]][x]}
NoLostCount ==
  \A x \in Arr : refcnt[x] = Cardinality(Owned(x)) + (IF x = Iterated THEN 1 ELSE 0)

\* Npy_INCREF and Npy_DECREF take effect in one step, when the handle switches
\* or, if it need not, when the count changes.
Pending(pcs, x) == \E t \in Thread : pc[t] \in pcs /\ arg[t] = x
Atomic == INSTANCE RefHandle WITH
  count <- [x \in Arr |-> IF Pending({"isync", "iswitch"}, x) THEN 0
                          ELSE IF Pending({"dsync", "dswitch"}, x) THEN 1
                          ELSE refcnt[x]],
  iface <- iface,
  kind  <- [h \in Handle |-> IF h = iterIface THEN "free" ELSE hkind[h]]
AtomicRefcount == Atomic!Spec

\* No thread waits for interfaceSyncRoot inside Npy_RefCntLock while the owner
\* of interfaceSyncRoot waits for Npy_RefCntLock.
NoLockCycle ==
  ~ \E t, u \in Thread :
      /\ refLock = t /\ pc[t] \in {"isync", "dsync"}
      /\ syncLock = u /\ u # t /\ pc[u] \in {"inc", "dec"}

=============================================================================
