----------------------------- MODULE ObjectLife -----------------------------
(***************************************************************************)
(* The lifetime protocol between a core object of libndarray (an array or  *)
(* an iterator, with its reference count and its nob_interface pointer)    *)
(* and its managed wrapper in NumpyDotNet.                                 *)
(*                                                                         *)
(* nob_interface holds a GCHandle to the wrapper: a strong one while the   *)
(* core object is referenced from native code, which pins the wrapper, and *)
(* a weak one while only managed code keeps the object alive.  The garbage *)
(* collector then decides when the wrapper dies, and its finalizer         *)
(* deallocates the core object.                                            *)
(*                                                                         *)
(* Npy_INCREF and Npy_DECREF are single steps here; module RefLocks shows  *)
(* the two locks below them.  A thread's managed operations are sequences  *)
(* of such steps, interleaved with those of other threads, the collector   *)
(* and the finalizer thread.  The wrapper of core object o is named by o.  *)
(***************************************************************************)
EXTENDS Naturals, FiniteSets

CONSTANTS
  Obj,        \* addresses of core objects; never reused
  Thread,     \* managed threads
  Handle,     \* slots of the GCHandle table; a freed slot is allocated again.  Each
              \* object keeps one and a switch takes another: |Obj| + 1 never run out
  NoObj,      \* a NULL core pointer, or the null target of a handle
  NoHandle    \* a NULL nob_interface or interfaceData

ASSUME SentinelAssumption == NoObj \notin Obj /\ NoHandle \notin Handle
ASSUME FinitenessAssumption == IsFiniteSet(Obj) /\ IsFiniteSet(Thread)

VARIABLES
  status,     \* nob_magic_number: live, or deallocated
  type,       \* nob_type: an array, or an iterator (whose wrapper is deferred)
  refcnt,     \* nob_refcnt
  iface,      \* nob_interface
  base,       \* base_arr of an array, ao of an iterator
  hkind,      \* the GCHandle table: what each slot is
  htarget,    \*   and the wrapper it refers to
  wrapper,    \* the managed wrapper: reachable or not, queued for finalization...
  arr,        \* flatiter.arr, the wrapper's own reference to an array wrapper
  held,       \* wrappers a thread's variables refer to
  pc,         \* where a thread stands in a managed operation
  obj,        \* the core object the operation returns (one reference owned)
  src,        \* its argument, a wrapper kept alive by the caller's frame
  data,       \* a handle read from nob_interface and not yet dereferenced
  use,        \* what the operation does with obj
  fault       \* deallocated objects whose memory a finalizer has read

objVars    == <<status, type, refcnt, base>>
handleVars == <<iface, hkind, htarget>>
callVars   == <<pc, obj, src, data, use>>
vars == <<objVars, handleVars, wrapper, arr, held, callVars, fault>>

Uses == {"return", "temp", "attach", "native"}

PCs == {"idle", "wrap", "base", "read", "deref", "decref", "attach",
        "dispose", "iincref", "iread", "ideref", "idecref", "ialloc",
        "bderef"}

TypeOK ==
  /\ status  \in [Obj -> {"unborn", "live", "dead"}]
  /\ type    \in [Obj -> {"array", "iter"}]
  /\ refcnt  \in [Obj -> Nat]
  /\ iface   \in [Obj -> Handle \cup {NoHandle}]
  /\ base    \in [Obj -> Obj \cup {NoObj}]
  /\ hkind   \in [Handle -> {"free", "strong", "weak"}]
  /\ htarget \in [Handle -> Obj \cup {NoObj}]
  /\ wrapper \in [Obj -> {"none", "live", "queued", "done"}]
  /\ arr     \in [Obj -> Obj \cup {NoObj}]
  /\ held    \in [Thread -> SUBSET Obj]
  /\ pc      \in [Thread -> PCs]
  /\ obj     \in [Thread -> Obj \cup {NoObj}]
  /\ src     \in [Thread -> Obj \cup {NoObj}]
  /\ data    \in [Thread -> Handle \cup {NoHandle}]
  /\ use     \in [Thread -> Uses]
  /\ fault   \in SUBSET Obj

Init ==
  /\ status  = [o \in Obj |-> "unborn"]
  /\ type    = [o \in Obj |-> "array"]
  /\ refcnt  = [o \in Obj |-> 0]
  /\ iface   = [o \in Obj |-> NoHandle]
  /\ base    = [o \in Obj |-> NoObj]
  /\ hkind   = [h \in Handle |-> "free"]
  /\ htarget = [h \in Handle |-> NoObj]
  /\ wrapper = [o \in Obj |-> "none"]
  /\ arr     = [o \in Obj |-> NoObj]
  /\ held    = [t \in Thread |-> {}]
  /\ pc      = [t \in Thread |-> "idle"]
  /\ obj     = [t \in Thread |-> NoObj]
  /\ src     = [t \in Thread |-> NoObj]
  /\ data    = [t \in Thread |-> NoHandle]
  /\ use     = [t \in Thread |-> "return"]
  /\ fault   = {}

-----------------------------------------------------------------------------
(* The core's reference counting and the two callbacks behind it.          *)

\* Mutant: the callback forgets FreeGCHandle of the old handle.
SwitchHandleLeaky(o, kind) ==
  \E h \in Handle :
    /\ hkind[h] = "free"
    /\ hkind'   = [hkind EXCEPT ![h] = kind]
    /\ htarget' = [htarget EXCEPT ![h] = htarget[iface[o]]]
    /\ iface'   = [iface EXCEPT ![o] = h]

\* IncrefCallback and DecrefCallback with nobInterfacePtr # 0: allocate a
\* handle of the other kind on the old handle's target, store it in
\* nob_interface, free the old one.
SwitchHandle(o, kind) ==
  \E h \in Handle :
    /\ hkind[h] = "free"
    /\ hkind'   = [hkind EXCEPT ![h] = kind, ![iface[o]] = "free"]
    /\ htarget' = [htarget EXCEPT ![h] = htarget[iface[o]], ![iface[o]] = NoObj]
    /\ iface'   = [iface EXCEPT ![o] = h]

\* Mutant: the count leaves zero and the handle stays weak.
IncrefWeak(o, rc) ==
  /\ refcnt' = [rc EXCEPT ![o] = @ + 1]
  /\ UNCHANGED handleVars

\* Npy_INCREF(o), in a step that has already made the counts rc.
Incref(o, rc) ==
  /\ refcnt' = [rc EXCEPT ![o] = @ + 1]
  /\ IF rc[o] = 0 /\ iface[o] # NoHandle
       THEN SwitchHandle(o, "strong")
       ELSE UNCHANGED handleVars

\* Mutant: the count falls to zero and the handle stays strong.
DecrefWrappedPinned(o, rc) ==
  /\ rc[o] > 0
  /\ refcnt' = [rc EXCEPT ![o] = @ - 1]
  /\ UNCHANGED handleVars

\* Npy_DECREF(o) of an object with a wrapper, in a step that has already made
\* the counts rc.
DecrefWrapped(o, rc) ==
  /\ rc[o] > 0
  /\ refcnt' = [rc EXCEPT ![o] = @ - 1]
  /\ IF rc[o] = 1 THEN SwitchHandle(o, "weak") ELSE UNCHANGED handleVars

\* ntp_dealloc: NpyArray_dealloc, arrayiter_dealloc.  Drops the reference to
\* the base array (which has a wrapper) and frees o; the handle of o, if it has
\* one, stays allocated.
Dealloc(o) ==
  /\ status' = [status EXCEPT ![o] = "dead"]
  /\ base'   = [base EXCEPT ![o] = NoObj]
  /\ IF base[o] = NoObj
       THEN /\ refcnt' = [refcnt EXCEPT ![o] = 0]
            /\ UNCHANGED handleVars
       ELSE DecrefWrapped(base[o], [refcnt EXCEPT ![o] = 0])
  /\ UNCHANGED type

\* Npy_DECREF(o): the last reference to an object without a wrapper frees it.
Decref(o) ==
  IF refcnt[o] = 1 /\ iface[o] = NoHandle
    THEN Dealloc(o)
    ELSE DecrefWrapped(o, refcnt) /\ UNCHANGED <<status, type, base>>

\* GCHandle.Alloc(wrapper of o), stored in nob_interface.
AllocHandle(o) ==
  \E h \in Handle :
    /\ hkind[h] = "free"
    /\ hkind'   = [hkind EXCEPT ![h] = "strong"]
    /\ htarget' = [htarget EXCEPT ![h] = o]
    /\ iface'   = [iface EXCEPT ![o] = h]

-----------------------------------------------------------------------------
(* Control of a thread's operation.                                        *)

Goto(t, from, to) == pc[t] = from /\ pc' = [pc EXCEPT ![t] = to]

Begin(t, to, o, s, d, u) ==
  /\ Goto(t, "idle", to)
  /\ obj'  = [obj EXCEPT ![t] = o]
  /\ src'  = [src EXCEPT ![t] = s]
  /\ data' = [data EXCEPT ![t] = d]
  /\ use'  = [use EXCEPT ![t] = u]

\* The operation returns: its frame is gone.
End(t, from) ==
  /\ Goto(t, from, "idle")
  /\ obj'  = [obj EXCEPT ![t] = NoObj]
  /\ src'  = [src EXCEPT ![t] = NoObj]
  /\ data' = [data EXCEPT ![t] = NoHandle]
  /\ use'  = [use EXCEPT ![t] = "return"]

\* Addresses are names: the objects have them in the order of their births.
Born(o, ty, b) ==
  /\ status[o] = "unborn"
  /\ o = (CHOOSE x \in Obj : status[x] = "unborn")
  /\ status' = [status EXCEPT ![o] = "live"]
  /\ type'   = [type EXCEPT ![o] = ty]
  /\ base'   = [base EXCEPT ![o] = b]

-----------------------------------------------------------------------------
(* Arrays: NewFromDescr, NewView, and the return of the wrapper.           *)

\* NpyArray_NewFromDescr up to the call of NpyInterface_ArrayNewWrapper.  With
\* s a wrapper: GetItem on a void array, which makes s the base afterwards.
AllocArray(t, o, s) ==
  /\ s = NoObj \/ (s \in held[t] /\ type[s] = "array")
  /\ Begin(t, "wrap", o, s, NoHandle, IF s = NoObj THEN "return" ELSE "attach")
  /\ Born(o, "array", NoObj)
  /\ refcnt' = [refcnt EXCEPT ![o] = 1]
  /\ UNCHANGED <<handleVars, wrapper, arr, held, fault>>

\* NpyArray_NewView(b): reads Npy_INTERFACE(b) as the new array's
\* interfaceData before it takes a reference to b.
NewView(t, o, b, u) ==
  /\ b \in held[t] /\ type[b] = "array"
  /\ u \in {"return", "temp", "native"}
  /\ Begin(t, "wrap", o, b, iface[b], u)
  /\ Born(o, "array", NoObj)
  /\ refcnt' = [refcnt EXCEPT ![o] = 1]
  /\ UNCHANGED <<handleVars, wrapper, arr, held, fault>>

\* ArrayNewWrapper: dereferences interfaceData, constructs the ndarray and
\* stores a strong handle to it in nob_interface.
ArrayNewWrapper(t) ==
  /\ Goto(t, "wrap", IF src[t] = NoObj \/ use[t] = "attach" THEN "read" ELSE "base")
  /\ data[t] # NoHandle => hkind[data[t]] # "free"
  /\ AllocHandle(obj[t])
  /\ wrapper' = [wrapper EXCEPT ![obj[t]] = "live"]
  /\ data' = [data EXCEPT ![t] = NoHandle]
  /\ UNCHANGED <<objVars, arr, held, obj, src, use, fault>>

\* ArrayNewWrapper throws, and NpyArray_NewFromDescr frees the new array:
\* interfaceData was freed by another thread, before any wrapper exists, or
\* the subtype's __array_finalize__ raises, after its wrapper was constructed.
ArrayNewWrapperFails(t) ==
  /\ End(t, "wrap")
  /\ \/ /\ data[t] # NoHandle /\ hkind[data[t]] = "free"
        /\ UNCHANGED wrapper
     \/ /\ data[t] # NoHandle => hkind[data[t]] # "free"
        /\ wrapper' = [wrapper EXCEPT ![obj[t]] = "live"]
  /\ Dealloc(obj[t])
  /\ UNCHANGED <<arr, held, fault>>

\* Mutant: the view borrows its base instead of owning a reference.
SetBaseBorrowed(t) ==
  /\ Goto(t, "base", "read")
  /\ base' = [base EXCEPT ![obj[t]] = src[t]]
  /\ UNCHANGED <<status, type, refcnt, handleVars, wrapper, arr, held, obj, src,
                 data, use, fault>>

\* The end of NpyArray_NewView: base_arr = array; Npy_INCREF(array).
SetBase(t) ==
  /\ Goto(t, "base", "read")
  /\ base' = [base EXCEPT ![obj[t]] = src[t]]
  /\ Incref(src[t], refcnt)
  /\ UNCHANGED <<status, type, wrapper, arr, held, obj, src, data, use, fault>>

\* Native code drops a temporary it never returned to managed code.
NativeDrop(t) ==
  /\ use[t] = "native"
  /\ End(t, "read")
  /\ Decref(obj[t])
  /\ UNCHANGED <<wrapper, arr, held, fault>>

\* DecrefToInterface, first half: ToInterface reads nob_interface...
ReadInterface(t) ==
  /\ use[t] # "native"
  /\ Goto(t, "read", "deref")
  /\ data' = [data EXCEPT ![t] = iface[obj[t]]]
  /\ UNCHANGED <<objVars, handleVars, wrapper, arr, held, obj, src, use, fault>>

\* ... and dereferences the handle.
DerefInterface(t) ==
  /\ Goto(t, "deref", "decref")
  /\ held' = [held EXCEPT ![t] = @ \cup {htarget[data[t]]}]
  /\ data' = [data EXCEPT ![t] = NoHandle]
  /\ UNCHANGED <<objVars, handleVars, wrapper, arr, obj, src, use, fault>>

\* DecrefToInterface, second half: Decref(ptr), and back to the caller.
ReturnInterface(t) ==
  /\ \/ use[t] = "return" /\ End(t, "decref")
     \/ /\ use[t] # "return"
        /\ Goto(t, "decref", IF use[t] = "temp" THEN "dispose" ELSE "attach")
        /\ UNCHANGED <<obj, src, data, use>>
  /\ Decref(obj[t])
  /\ UNCHANGED <<wrapper, arr, held, fault>>

\* getitemVOID: aresult.BaseArray = arr, on an array that has no base yet.
AttachBase(t) ==
  /\ End(t, "attach")
  /\ base' = [base EXCEPT ![obj[t]] = src[t]]
  /\ Incref(src[t], refcnt)
  /\ UNCHANGED <<status, type, wrapper, arr, held, fault>>

-----------------------------------------------------------------------------
\* Explicit disposal of a private view (ndarray.this[...] = value): deallocates
\* the core object and suppresses the finalizer, unless the core object is in
\* use, when the call is ignored.
Dispose(t) ==
  /\ End(t, "dispose")
  /\ held' = [held EXCEPT ![t] = @ \ {obj[t]}]
  /\ IF refcnt[obj[t]] = 0
       THEN Dealloc(obj[t]) /\ wrapper' = [wrapper EXCEPT ![obj[t]] = "done"]
       ELSE UNCHANGED <<objVars, handleVars, wrapper>>
  /\ UNCHANGED <<arr, fault>>

-----------------------------------------------------------------------------
(* Iterators, whose wrapper is created when Npy_INTERFACE first needs it.   *)

\* NpyArray_IterNew(a); with u = "native" the iterator stays in native code.
IterNew(t, o, a, u) ==
  /\ a \in held[t] /\ type[a] = "array"
  /\ u \in {"return", "native"}
  /\ Begin(t, IF u = "native" THEN "read" ELSE "iincref", o, a, NoHandle, u)
  /\ Born(o, "iter", a)
  /\ Incref(a, [refcnt EXCEPT ![o] = 1])
  /\ UNCHANGED <<wrapper, arr, held, fault>>

\* ToInterface finds nob_interface NULL: IterNewWrapper constructs a flatiter,
\* whose constructor calls DecrefToInterface(IterArray(core)): take a
\* reference to the array...
IterArrayIncref(t) ==
  /\ Goto(t, "iincref", "iread")
  /\ Incref(base[obj[t]], refcnt)
  /\ UNCHANGED <<status, type, base, wrapper, arr, held, obj, src, data, use, fault>>

\* ... read its nob_interface...
IterArrayRead(t) ==
  /\ Goto(t, "iread", "ideref")
  /\ data' = [data EXCEPT ![t] = iface[base[obj[t]]]]
  /\ UNCHANGED <<objVars, handleVars, wrapper, arr, held, obj, src, use, fault>>

\* ... dereference the handle: flatiter.arr = the array's wrapper...
IterArrayDeref(t) ==
  /\ Goto(t, "ideref", "idecref")
  /\ arr' = [arr EXCEPT ![obj[t]] = htarget[data[t]]]
  /\ data' = [data EXCEPT ![t] = NoHandle]
  /\ UNCHANGED <<objVars, handleVars, wrapper, held, obj, src, use, fault>>

\* ... and drop the reference.
IterArrayDecref(t) ==
  /\ Goto(t, "idecref", "ialloc")
  /\ Decref(base[obj[t]])
  /\ UNCHANGED <<wrapper, arr, held, obj, src, data, use, fault>>

\* interfaceRet = a strong handle to the new flatiter.
IterNewWrapper(t) ==
  /\ Goto(t, "ialloc", "read")
  /\ AllocHandle(obj[t])
  /\ wrapper' = [wrapper EXCEPT ![obj[t]] = "live"]
  /\ UNCHANGED <<objVars, arr, held, obj, src, data, use, fault>>

-----------------------------------------------------------------------------
\* The getter of ndarray.BaseArray: reads the base's nob_interface without
\* taking a reference to the base...
GetBase(t, v) ==
  /\ v \in held[t] /\ type[v] = "array" /\ base[v] # NoObj
  /\ Begin(t, "bderef", NoObj, v, iface[base[v]], "return")
  /\ UNCHANGED <<objVars, handleVars, wrapper, arr, held, fault>>

\* ... and dereferences it.
GetBaseDeref(t) ==
  /\ End(t, "bderef")
  /\ held' = [held EXCEPT ![t] = @ \cup {htarget[data[t]]}]
  /\ UNCHANGED <<objVars, handleVars, wrapper, arr, fault>>

\* Managed variables: a wrapper becomes visible to another thread, or is
\* dropped, between two operations.
Share(t, t2, o) ==
  /\ pc[t] = "idle" /\ pc[t2] = "idle"
  /\ o \in held[t] \ held[t2]
  /\ held' = [held EXCEPT ![t2] = @ \cup {o}]
  /\ UNCHANGED <<objVars, handleVars, wrapper, arr, callVars, fault>>

Drop(t, o) ==
  /\ pc[t] = "idle"
  /\ o \in held[t]
  /\ held' = [held EXCEPT ![t] = @ \ {o}]
  /\ UNCHANGED <<objVars, handleVars, wrapper, arr, callVars, fault>>

-----------------------------------------------------------------------------
(* The garbage collector and the finalizer thread.                         *)

\* The wrapper of o can be reached: from a variable or a frame, through a
\* strong handle, or from a flatiter that is not yet finalized or that a
\* thread is constructing.
Rooted(o) ==
  \/ \E t \in Thread : o \in held[t] \/ o = src[t]
  \/ \E h \in Handle : hkind[h] = "strong" /\ htarget[h] = o
  \/ \E i \in Obj : arr[i] = o /\ wrapper[i] \in {"live", "queued"}
  \/ \E t \in Thread : obj[t] # NoObj /\ arr[obj[t]] = o

\* The collector finds the wrapper of o unreachable: weak handles to it are
\* cleared and its finalizer is queued.
Collect(o) ==
  /\ wrapper[o] = "live"
  /\ ~ Rooted(o)
  /\ wrapper' = [wrapper EXCEPT ![o] = "queued"]
  /\ htarget' = [h \in Handle |-> IF htarget[h] = o THEN NoObj ELSE htarget[h]]
  /\ UNCHANGED <<objVars, iface, hkind, arr, held, callVars, fault>>

\* ~Wrapper: Dispose(false).  It reads the reference count of whatever core
\* points to; a core object still referenced is left alone, for ever.
Finalize(o) ==
  /\ wrapper[o] = "queued"
  /\ wrapper' = [wrapper EXCEPT ![o] = "done"]
  /\ IF status[o] = "live" /\ refcnt[o] = 0
       THEN Dealloc(o)
       ELSE UNCHANGED <<objVars, handleVars>>
  /\ fault' = IF status[o] = "dead" THEN fault \cup {o} ELSE fault
  /\ UNCHANGED <<arr, held, callVars>>

-----------------------------------------------------------------------------
ThreadStep(t) ==
  \/ ArrayNewWrapper(t) \/ ArrayNewWrapperFails(t) \/ SetBase(t) \/ NativeDrop(t)
  \/ ReadInterface(t) \/ DerefInterface(t) \/ ReturnInterface(t) \/ AttachBase(t)
  \/ Dispose(t)
  \/ IterArrayIncref(t) \/ IterArrayRead(t) \/ IterArrayDeref(t)
  \/ IterArrayDecref(t) \/ IterNewWrapper(t)
  \/ GetBaseDeref(t)

Next ==
  \/ \E t \in Thread, o \in Obj :
       \/ \E s \in Obj \cup {NoObj} : AllocArray(t, o, s)
       \/ \E b \in Obj, u \in Uses : NewView(t, o, b, u)
       \/ \E a \in Obj, u \in Uses : IterNew(t, o, a, u)
       \/ GetBase(t, o)
       \/ Drop(t, o)
       \/ \E t2 \in Thread : Share(t, t2, o)
  \/ \E t \in Thread : ThreadStep(t)
  \/ \E o \in Obj : Collect(o) \/ Finalize(o)

Spec == Init /\ [][Next]_vars

\* An operation that began runs to its end, the collector finds garbage as long
\* as there is some, and the finalizer thread works as long as its queue is not
\* empty.
Fairness ==
  /\ \A t \in Thread : WF_vars(ThreadStep(t))
  /\ WF_vars(\E o \in Obj : Collect(o))
  /\ WF_vars(\E o \in Obj : Finalize(o))

FairSpec == Spec /\ Fairness

-----------------------------------------------------------------------------
(* Properties.                                                             *)

\* The parties that own a reference to core object o: live arrays and iterators
\* whose base it is, threads whose operation is about to return it, and threads
\* inside flatiter's constructor.
BaseOwners(o) == {x \in Obj : status[x] = "live" /\ base[x] = o}
CallOwners(o) == {t \in Thread : obj[t] = o /\ pc[t] \notin {"attach", "dispose"}}
IterOwners(o) == {t \in Thread : pc[t] \in {"iread", "ideref", "idecref"} /\ base[obj[t]] = o}

\* nob_refcnt (npy_object.h:25-33) counts the owners exactly: whatever the
\* interleaving, no step forgets a DECREF and none drops a reference it does
\* not own.
OwnersCounted ==
  \A o \in Obj : status[o] = "live" =>
    refcnt[o] = Cardinality(BaseOwners(o)) + Cardinality(CallOwners(o))
                  + Cardinality(IterOwners(o))

\* The nob_interface of a live object is a strong handle to its own wrapper
\* exactly while the core references it, and a weak one when only managed code
\* keeps it alive (npy_api.h:379-389, IncrefCallback, DecrefCallback).  The
\* weak handle's target is gone only when the wrapper waits for its finalizer.
HandleTracksRefcnt ==
  \A o \in Obj :
    status[o] = "live" /\ iface[o] # NoHandle =>
      /\ hkind[iface[o]] = (IF refcnt[o] > 0 THEN "strong" ELSE "weak")
      /\ htarget[iface[o]] = (IF wrapper[o] = "live" THEN o ELSE NoObj)

\* No strong handle is left behind when nob_interface is switched or its
\* object freed: a strong handle would pin its wrapper for ever.
StrongHandleHasOwner ==
  \A h \in Handle : hkind[h] = "strong" =>
    \E o \in Obj : status[o] = "live" /\ iface[o] = h /\ refcnt[o] > 0

\* Handle, count and wrapper agree: nob_interface is the right kind of handle to
\* the right wrapper, and no other strong handle is left over.
HandlesExact == HandleTracksRefcnt /\ StrongHandleHasOwner

\* A wrapper that managed code can name, or that the core returns to, is never
\* one whose core object was deallocated under it.
HeldIsLive ==
  \A t \in Thread :
    /\ \A o \in held[t] : o \in Obj /\ status[o] = "live" /\ wrapper[o] = "live"
    /\ obj[t] # NoObj => status[obj[t]] = "live"

\* The data of a view and the array under an iterator outlive it.
BaseIsLive ==
  \A o \in Obj : status[o] = "live" /\ base[o] # NoObj => status[base[o]] = "live"

\* Nothing that is held or referred to is deallocated: what managed code can name,
\* what the core is about to return, what a view or an iterator stands on.
NothingDangles == HeldIsLive /\ BaseIsLive

\* The count is exact as long as there are owners, and there are none of an
\* object that was deallocated.
RefcntExact == OwnersCounted /\ NothingDangles

\* Between reading nob_interface and dereferencing the handle no other thread
\* frees it or switches it away: DecrefToInterface reads under its own
\* reference, the BaseArray getter under the view's.
DerefIsCurrent ==
  \A t \in Thread :
    LET Current(o) == data[t] = iface[o] /\ hkind[data[t]] = "strong" /\ htarget[data[t]] = o
    IN  /\ pc[t] = "deref"  => Current(obj[t])
        /\ pc[t] = "ideref" => Current(base[obj[t]])
        /\ pc[t] = "bderef" => Current(base[src[t]])

\* The interfaceData handle that ArrayNewWrapper dereferences for a view is
\* still allocated (the registry behind GCHandleFromIntPtr throws "accessing
\* already freed GCHandle" otherwise, NpyCoreApi.cs:2055-2058).
InterfaceDataLive ==
  \A t \in Thread : pc[t] = "wrap" /\ data[t] # NoHandle => hkind[data[t]] # "free"

\* The finalizer only ever looks at core objects that are still allocated
\* (assert(NPY_VALID_MAGIC == obj->nob_magic_number), Npy_Array_Access.cpp:239).
FinalizerSeesLiveCore == fault = {}

\* Every operation that began returns, and once managed code has let go of
\* everything, every core object is freed: views and iterators first, then what
\* they were based on.
Quiet == \A t \in Thread : pc[t] = "idle" /\ held[t] = {}
EventuallyFreed ==
  /\ \A t \in Thread : []<>(pc[t] = "idle")
  /\ <>[]Quiet => <>[](\A o \in Obj : status[o] # "live")

=============================================================================
