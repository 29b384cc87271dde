------------------------- MODULE ObjectLife_proofs -------------------------
(***************************************************************************)
(* Proofs about ObjectLife, for any objects, threads and handles: counts   *)
(* equal owners, handles follow counts, nothing that is held or referred   *)
(* to is freed, and a handle that was read is current when it is used.     *)
(***************************************************************************)
EXTENDS ObjectLife, FiniteSetTheorems, TLAPS

-----------------------------------------------------------------------------
(* The inductive invariant.                                                *)

\* Handles of the objects that are live by st: right kind, right target, one
\* for each object, and no other strong one.
Handles(st, rc, wr, ifc, hk, ht) ==
  /\ \A o \in Obj : st[o] = "live" /\ ifc[o] # NoHandle =>
       /\ hk[ifc[o]] = (IF rc[o] > 0 THEN "strong" ELSE "weak")
       /\ ht[ifc[o]] = (IF wr[o] = "live" THEN o ELSE NoObj)
  /\ \A o, x \in Obj : st[o] = "live" /\ st[x] = "live" /\ ifc[o] # NoHandle /\ ifc[o] = ifc[x] => o = x
  /\ \A h \in Handle : hk[h] = "strong" => \E o \in Obj : st[o] = "live" /\ ifc[o] = h /\ rc[o] > 0

HandleInv == Handles(status, refcnt, wrapper, iface, hkind, htarget)

\* What the status of an object says about its other fields.
ObjInv ==
  \A o \in Obj :
    /\ status[o] = "unborn" => refcnt[o] = 0 /\ iface[o] = NoHandle /\ wrapper[o] = "none"
    /\ status[o] # "live" => base[o] = NoObj
    /\ status[o] = "live" =>
         /\ wrapper[o] = "none" <=> iface[o] = NoHandle
         /\ wrapper[o] = "queued" => refcnt[o] = 0
         /\ wrapper[o] # "done"
         /\ base[o] # NoObj => status[base[o]] = "live" /\ iface[base[o]] # NoHandle

\* Wrappers in variables are alive, with their objects; those in frames are
\* in a variable of the caller.
HeldInv ==
  \A t \in Thread :
    /\ \A o \in held[t] : status[o] = "live" /\ wrapper[o] = "live"
    /\ src[t] # NoObj => src[t] \in held[t]

\* The object that an operation is about to return is known to its thread only.
PrivateInv ==
  \A t \in Thread : obj[t] # NoObj =>
    /\ status[obj[t]] = "live"
    /\ \A x \in Obj : base[x] # obj[t]
    /\ \A u \in Thread : /\ src[u] # obj[t]
                         /\ u # t => obj[u] # obj[t] /\ obj[t] \notin held[u]

\* Where an operation stands, and what it has done to its object by then.
CallInv ==
  \A t \in Thread :
    /\ pc[t] \in {"idle", "bderef"} <=> obj[t] = NoObj
    /\ pc[t] \in {"wrap", "iincref", "iread", "ideref", "idecref", "ialloc"} => wrapper[obj[t]] = "none"
    /\ pc[t] \in {"base", "deref", "decref", "attach", "dispose"} => wrapper[obj[t]] = "live"
    /\ pc[t] = "read" => wrapper[obj[t]] = "live" \/ (wrapper[obj[t]] = "none" /\ use[t] = "native")
    /\ pc[t] \in {"decref", "attach", "dispose"} <=> (obj[t] # NoObj /\ obj[t] \in held[t])
    /\ pc[t] \in {"iincref", "iread", "ideref", "idecref", "ialloc"} => base[obj[t]] = src[t] /\ src[t] # NoObj
    /\ pc[t] \in {"wrap", "base", "attach"} \/ (pc[t] # "idle" /\ obj[t] # NoObj /\ use[t] = "attach") => base[obj[t]] = NoObj
    /\ pc[t] \in {"base", "attach", "bderef"} \/ (pc[t] # "idle" /\ use[t] = "attach") => src[t] # NoObj
    /\ pc[t] \in {"deref", "decref"} => use[t] # "native"
    /\ pc[t] = "base" => use[t] # "attach"
    /\ pc[t] = "dispose" => use[t] = "temp"
    /\ pc[t] = "idle" => src[t] = NoObj
    /\ pc[t] = "bderef" => base[src[t]] # NoObj

IInv == TypeOK /\ HandleInv /\ ObjInv /\ HeldInv /\ PrivateInv /\ CallInv /\ DerefIsCurrent /\ OwnersCounted

-----------------------------------------------------------------------------
(* What Npy_INCREF, Npy_DECREF and the deallocation do to the handles.      *)

HandleTypes ==
  /\ iface   \in [Obj -> Handle \cup {NoHandle}]
  /\ hkind   \in [Handle -> {"free", "strong", "weak"}]
  /\ htarget \in [Handle -> Obj \cup {NoObj}]

\* An object keeps its handle as long as its count, before rc, stays positive.
Keeps(st, rc) ==
  \A x \in Obj :
    /\ iface'[x] = NoHandle <=> iface[x] = NoHandle
    /\ st[x] = "live" /\ rc[x] > 0 /\ refcnt'[x] > 0 /\ iface[x] # NoHandle =>
         /\ iface'[x] = iface[x]
         /\ hkind'[iface[x]] = hkind[iface[x]]
         /\ htarget'[iface[x]] = htarget[iface[x]]

\* The callbacks: the handle of o becomes one of the other kind.
LEMMA SwitchHandles ==
  ASSUME NEW st, NEW wr, NEW rc \in [Obj -> Nat], NEW rd \in [Obj -> Nat], NEW o \in Obj, NEW kind,
         HandleTypes, Handles(st, rc, wr, iface, hkind, htarget), st[o] = "live", iface[o] # NoHandle,
         \A x \in Obj \ {o} : rd[x] = rc[x],
         kind = (IF rd[o] > 0 THEN "strong" ELSE "weak"), rd[o] > 0 <=> rc[o] = 0,
         refcnt' = rd, SwitchHandle(o, kind)
  PROVE  HandleTypes' /\ Handles(st, rd, wr, iface', hkind', htarget') /\ Keeps(st, rc)
  <1>1. PICK h \in Handle :
          /\ hkind[h] = "free"
          /\ hkind'   = [hkind EXCEPT ![h] = kind, ![iface[o]] = "free"]
          /\ htarget' = [htarget EXCEPT ![h] = htarget[iface[o]], ![iface[o]] = NoObj]
          /\ iface'   = [iface EXCEPT ![o] = h]
    BY DEF SwitchHandle
  <1>2. iface[o] \in Handle /\ iface[o] # h /\ h # NoHandle
    BY <1>1, SentinelAssumption DEF HandleTypes, Handles
  <1>3. \A x \in Obj : st[x] = "live" /\ iface[x] # NoHandle => iface[x] \in Handle /\ iface[x] # h /\ (x # o => iface[x] # iface[o])
    BY <1>1, SentinelAssumption DEF HandleTypes, Handles
  <1>4. HandleTypes'
    BY <1>1, <1>2 DEF HandleTypes
  <1>5. /\ hkind'[h] = kind /\ hkind'[iface[o]] = "free"
        /\ htarget'[h] = htarget[iface[o]]
        /\ \A g \in Handle : g # h /\ g # iface[o] => hkind'[g] = hkind[g] /\ htarget'[g] = htarget[g]
        /\ iface'[o] = h /\ \A x \in Obj : x # o => iface'[x] = iface[x]
    BY <1>1, <1>2 DEF HandleTypes
  <1>6. Handles(st, rd, wr, iface', hkind', htarget')
    <2>1. \A x \in Obj : st[x] = "live" /\ iface'[x] # NoHandle =>
            /\ hkind'[iface'[x]] = (IF rd[x] > 0 THEN "strong" ELSE "weak")
            /\ htarget'[iface'[x]] = (IF wr[x] = "live" THEN x ELSE NoObj)
      BY <1>3, <1>5 DEF Handles
    <2>2. \A x, y \in Obj : st[x] = "live" /\ st[y] = "live" /\ iface'[x] # NoHandle /\ iface'[x] = iface'[y] => x = y
      BY <1>3, <1>5 DEF Handles
    <2>3. ASSUME NEW g \in Handle, hkind'[g] = "strong"
          PROVE  \E x \in Obj : st[x] = "live" /\ iface'[x] = g /\ rd[x] > 0
      <3>1. CASE g = h
        BY <3>1, <1>5, <2>3
      <3>2. CASE g # h
        <4>1. g # iface[o] /\ hkind[g] = "strong"
          BY <3>2, <2>3, <1>5
        <4>2. PICK x \in Obj : st[x] = "live" /\ iface[x] = g /\ rc[x] > 0
          BY <4>1 DEF Handles
        <4>. QED
          BY <4>1, <4>2, <1>5
      <3>. QED
        BY <3>1, <3>2
    <2>. QED
      BY <2>1, <2>2, <2>3 DEF Handles
  <1>7. Keeps(st, rc)
    BY <1>2, <1>3, <1>5 DEF Keeps
  <1>. QED
    BY <1>4, <1>6, <1>7

LEMMA IncrefHandles ==
  ASSUME NEW st, NEW wr, NEW rc \in [Obj -> Nat], NEW o \in Obj,
         HandleTypes, Handles(st, rc, wr, iface, hkind, htarget), st[o] = "live", iface[o] # NoHandle,
         Incref(o, rc)
  PROVE  /\ refcnt' = [rc EXCEPT ![o] = rc[o] + 1]
         /\ HandleTypes' /\ Handles(st, refcnt', wr, iface', hkind', htarget') /\ Keeps(st, rc)
  <1>1. refcnt' = [rc EXCEPT ![o] = rc[o] + 1] /\ refcnt' \in [Obj -> Nat]
    BY DEF Incref
  <1>2. CASE rc[o] = 0
    <2>1. SwitchHandle(o, "strong")
      BY <1>2 DEF Incref
    <2>2. /\ \A x \in Obj \ {o} : refcnt'[x] = rc[x]
          /\ "strong" = (IF refcnt'[o] > 0 THEN "strong" ELSE "weak") /\ (refcnt'[o] > 0 <=> rc[o] = 0)
      BY <1>1, <1>2
    <2>3. HandleTypes' /\ Handles(st, refcnt', wr, iface', hkind', htarget') /\ Keeps(st, rc)
      BY <1>1, <2>1, <2>2, SwitchHandles
    <2>. QED
      BY <1>1, <2>3
  <1>3. CASE rc[o] # 0
    <2>1. UNCHANGED handleVars
      BY <1>3 DEF Incref
    <2>. QED
      BY <1>1, <1>3, <2>1 DEF Handles, HandleTypes, Keeps, handleVars
  <1>. QED
    BY <1>1, <1>2, <1>3

LEMMA DecrefHandles ==
  ASSUME NEW st, NEW wr, NEW rc \in [Obj -> Nat], NEW o \in Obj,
         HandleTypes, Handles(st, rc, wr, iface, hkind, htarget), st[o] = "live", iface[o] # NoHandle,
         DecrefWrapped(o, rc)
  PROVE  /\ rc[o] > 0 /\ refcnt' = [rc EXCEPT ![o] = rc[o] - 1] /\ refcnt' \in [Obj -> Nat]
         /\ HandleTypes' /\ Handles(st, refcnt', wr, iface', hkind', htarget') /\ Keeps(st, rc)
  <1>1. rc[o] > 0 /\ refcnt' = [rc EXCEPT ![o] = rc[o] - 1] /\ refcnt' \in [Obj -> Nat]
    BY DEF DecrefWrapped
  <1>2. CASE rc[o] = 1
    <2>1. SwitchHandle(o, "weak")
      BY <1>2 DEF DecrefWrapped
    <2>2. /\ \A x \in Obj \ {o} : refcnt'[x] = rc[x]
          /\ "weak" = (IF refcnt'[o] > 0 THEN "strong" ELSE "weak") /\ (refcnt'[o] > 0 <=> rc[o] = 0)
      BY <1>1, <1>2
    <2>3. HandleTypes' /\ Handles(st, refcnt', wr, iface', hkind', htarget') /\ Keeps(st, rc)
      BY <1>1, <2>1, <2>2, SwitchHandles
    <2>. QED
      BY <1>1, <2>3
  <1>3. CASE rc[o] # 1
    <2>1. UNCHANGED handleVars
      BY <1>3 DEF DecrefWrapped
    <2>. QED
      BY <1>1, <1>3, <2>1 DEF Handles, HandleTypes, Keeps, handleVars
  <1>. QED
    BY <1>1, <1>2, <1>3

\* The deallocation of an object that native code does not own, or that has no
\* wrapper yet.
LEMMA DeallocHandles ==
  ASSUME IInv, NEW o \in Obj, Dealloc(o), status[o] = "live",
         refcnt[o] = 0 \/ iface[o] = NoHandle, base[o] # o
  PROVE  /\ status' = [status EXCEPT ![o] = "dead"] /\ base' = [base EXCEPT ![o] = NoObj] /\ UNCHANGED type
         /\ base[o] # NoObj => refcnt[base[o]] > 0
         /\ refcnt' = [x \in Obj |-> IF x = o THEN 0 ELSE IF x = base[o] THEN refcnt[x] - 1 ELSE refcnt[x]]
         /\ refcnt' \in [Obj -> Nat]
         /\ HandleTypes' /\ Handles(status', refcnt', wrapper, iface', hkind', htarget') /\ Keeps(status', refcnt)
  <1>. DEFINE rc == [refcnt EXCEPT ![o] = 0]
  <1>1. status' = [status EXCEPT ![o] = "dead"] /\ base' = [base EXCEPT ![o] = NoObj] /\ UNCHANGED type
    BY DEF Dealloc
  <1>2. /\ rc \in [Obj -> Nat] /\ HandleTypes
        /\ status \in [Obj -> {"unborn", "live", "dead"}] /\ refcnt \in [Obj -> Nat]
    BY DEF IInv, TypeOK, HandleTypes
  <1>3. Handles(status', rc, wrapper, iface, hkind, htarget)
    <2>1. \A x \in Obj : /\ status'[x] = "live" <=> x # o /\ status[x] = "live"
                         /\ x # o => rc[x] = refcnt[x]
      BY <1>1, <1>2
    <2>2. Handles(status, refcnt, wrapper, iface, hkind, htarget)
      BY DEF IInv, HandleInv
    <2>3. iface[o] \in Handle => refcnt[o] = 0
      BY SentinelAssumption
    <2>4. ASSUME NEW h \in Handle, hkind[h] = "strong"
          PROVE  \E x \in Obj : status'[x] = "live" /\ iface[x] = h /\ rc[x] > 0
      <3>1. PICK x \in Obj : status[x] = "live" /\ iface[x] = h /\ refcnt[x] > 0
        BY <2>2, <2>4 DEF Handles
      <3>. QED
        BY <1>2, <2>1, <2>3, <3>1
    <2>5. \A x \in Obj : status'[x] = "live" /\ iface[x] # NoHandle =>
            /\ hkind[iface[x]] = (IF rc[x] > 0 THEN "strong" ELSE "weak")
            /\ htarget[iface[x]] = (IF wrapper[x] = "live" THEN x ELSE NoObj)
      BY <2>1, <2>2 DEF Handles
    <2>6. \A x, y \in Obj : status'[x] = "live" /\ status'[y] = "live" /\ iface[x] # NoHandle /\ iface[x] = iface[y] => x = y
      BY <2>1, <2>2 DEF Handles
    <2>. HIDE DEF rc
    <2>. QED
      BY <2>4, <2>5, <2>6 DEF Handles
  <1>4. CASE base[o] = NoObj
    <2>1. refcnt' = rc /\ UNCHANGED handleVars
      BY <1>4 DEF Dealloc
    <2>2. Keeps(status', refcnt)
      BY <2>1 DEF Keeps, handleVars
    <2>3. HandleTypes' /\ Handles(status', refcnt', wrapper, iface', hkind', htarget')
      BY <1>2, <1>3, <2>1 DEF HandleTypes, Handles, handleVars
    <2>4. refcnt' = [x \in Obj |-> IF x = o THEN 0 ELSE IF x = base[o] THEN refcnt[x] - 1 ELSE refcnt[x]]
      BY <1>4, <2>1, SentinelAssumption DEF IInv, TypeOK
    <2>. QED
      BY <1>1, <1>2, <1>4, <2>1, <2>2, <2>3, <2>4
  <1>5. CASE base[o] # NoObj
    <2>1. DecrefWrapped(base[o], rc) /\ base[o] \in Obj /\ status'[base[o]] = "live" /\ iface[base[o]] # NoHandle
      BY <1>1, <1>5 DEF Dealloc, IInv, TypeOK, ObjInv
    <2>. HIDE DEF rc
    <2>2. /\ rc[base[o]] > 0 /\ refcnt' = [rc EXCEPT ![base[o]] = rc[base[o]] - 1] /\ refcnt' \in [Obj -> Nat]
          /\ HandleTypes' /\ Handles(status', refcnt', wrapper, iface', hkind', htarget') /\ Keeps(status', rc)
      BY <1>2, <1>3, <2>1, DecrefHandles
    <2>. USE DEF rc
    <2>3. Keeps(status', refcnt)
      BY <1>1, <2>2 DEF Keeps, IInv, TypeOK
    <2>4. refcnt' = [x \in Obj |-> IF x = o THEN 0 ELSE IF x = base[o] THEN refcnt[x] - 1 ELSE refcnt[x]]
      BY <1>5, <2>2 DEF IInv, TypeOK
    <2>5. refcnt[base[o]] > 0
      BY <2>1, <2>2 DEF IInv, TypeOK
    <2>. QED
      BY <1>1, <2>2, <2>3, <2>4, <2>5
  <1>. QED
    BY <1>4, <1>5

-----------------------------------------------------------------------------
(* Counting owners.                                                        *)

LEMMA OwnersFinite ==
  ASSUME NEW o
  PROVE  /\ IsFiniteSet(BaseOwners(o)) /\ IsFiniteSet(CallOwners(o)) /\ IsFiniteSet(IterOwners(o))
         /\ Cardinality(BaseOwners(o)) \in Nat /\ Cardinality(CallOwners(o)) \in Nat /\ Cardinality(IterOwners(o)) \in Nat
  <1>1. BaseOwners(o) \in SUBSET Obj /\ CallOwners(o) \in SUBSET Thread /\ IterOwners(o) \in SUBSET Thread
    BY DEF BaseOwners, CallOwners, IterOwners
  <1>2. IsFiniteSet(BaseOwners(o)) /\ IsFiniteSet(CallOwners(o)) /\ IsFiniteSet(IterOwners(o))
    BY <1>1, FS_Subset, FinitenessAssumption
  <1>. QED
    BY <1>2, FS_CardinalityType

LEMMA OneMore ==
  ASSUME NEW S, NEW T, NEW x, IsFiniteSet(S), x \notin S, T = S \cup {x}
  PROVE  Cardinality(T) = Cardinality(S) + 1
  BY FS_AddElement

LEMMA OneLess ==
  ASSUME NEW S, NEW T, NEW x, IsFiniteSet(S), x \in S, T = S \ {x}
  PROVE  Cardinality(T) = Cardinality(S) - 1
  BY FS_RemoveElement

\* An object with an owner has a positive count, before and after a step.
LEMMA OwnedIsCounted ==
  \A o \in Obj :
    TypeOK /\ OwnersCounted /\ status[o] = "live" /\ (BaseOwners(o) # {} \/ CallOwners(o) # {} \/ IterOwners(o) # {})
      => refcnt[o] > 0
  <1>. SUFFICES ASSUME NEW o \in Obj, OwnersCounted, status[o] = "live",
                       BaseOwners(o) # {} \/ CallOwners(o) # {} \/ IterOwners(o) # {}
                PROVE  refcnt[o] > 0
    OBVIOUS
  <1>1. refcnt[o] = Cardinality(BaseOwners(o)) + Cardinality(CallOwners(o)) + Cardinality(IterOwners(o))
    BY DEF OwnersCounted
  <1>2. \/ Cardinality(BaseOwners(o)) # 0 \/ Cardinality(CallOwners(o)) # 0 \/ Cardinality(IterOwners(o)) # 0
    BY OwnersFinite, FS_EmptySet
  <1>. QED
    BY <1>1, <1>2, OwnersFinite

LEMMA OwnedIsCountedNext ==
  \A o \in Obj :
    TypeOK' /\ OwnersCounted' /\ status'[o] = "live" /\ (BaseOwners(o)' # {} \/ CallOwners(o)' # {} \/ IterOwners(o)' # {})
      => refcnt'[o] > 0
  <1>1. (\A o \in Obj :
          TypeOK /\ OwnersCounted /\ status[o] = "live" /\ (BaseOwners(o) # {} \/ CallOwners(o) # {} \/ IterOwners(o) # {})
            => refcnt[o] > 0)'
    BY OwnedIsCounted, PTL
  <1>. QED
    BY <1>1

\* The handle that a thread has read is still that of an object it keeps alive.
LEMMA DerefKept ==
  ASSUME IInv, TypeOK', ObjInv', HeldInv', PrivateInv', CallInv', OwnersCounted',
         \A x \in Obj : status[x] = "live" /\ refcnt[x] > 0 /\ refcnt'[x] > 0 /\ iface[x] # NoHandle =>
           /\ iface'[x] = iface[x]
           /\ hkind'[iface[x]] = hkind[iface[x]]
           /\ htarget'[iface[x]] = htarget[iface[x]],
         \A t \in Thread : pc'[t] \in {"deref", "ideref", "bderef"} =>
           /\ pc'[t] = pc[t] /\ data'[t] = data[t] /\ obj'[t] = obj[t] /\ src'[t] = src[t]
           /\ pc[t] = "ideref" => base'[obj[t]] = base[obj[t]]
           /\ pc[t] = "bderef" => base'[src[t]] = base[src[t]]
  PROVE  DerefIsCurrent'
  <1>. DEFINE Kept(x) == iface'[x] = iface[x] /\ hkind'[iface[x]] = hkind[iface[x]] /\ htarget'[iface[x]] = htarget[iface[x]]
  <1>0. ASSUME NEW x \in Obj, status[x] = "live", wrapper[x] = "live", status'[x] = "live",
               BaseOwners(x) # {} \/ CallOwners(x) # {} \/ IterOwners(x) # {},
               BaseOwners(x)' # {} \/ CallOwners(x)' # {} \/ IterOwners(x)' # {}
        PROVE  Kept(x)
    <2>1. refcnt[x] > 0 /\ refcnt'[x] > 0
      BY <1>0, OwnedIsCounted, OwnedIsCountedNext DEF IInv
    <2>2. iface[x] # NoHandle
      BY <1>0 DEF IInv, ObjInv
    <2>. QED
      BY <1>0, <2>1, <2>2
  <1>. HIDE DEF Kept
  <1>1. ASSUME NEW t \in Thread, pc'[t] = "deref"
        PROVE  Kept(obj[t]) /\ obj'[t] = obj[t] /\ data'[t] = data[t] /\ pc[t] = "deref"
    <2>1. pc[t] = "deref" /\ obj'[t] = obj[t] /\ data'[t] = data[t] /\ obj[t] \in Obj
      BY <1>1, SMTT(20) DEF IInv, TypeOK, CallInv
    <2>2. status[obj[t]] = "live" /\ wrapper[obj[t]] = "live" /\ status'[obj[t]] = "live"
      BY <1>1, <2>1, SentinelAssumption DEF IInv, CallInv, PrivateInv
    <2>3. t \in CallOwners(obj[t]) /\ t \in CallOwners(obj[t])'
      BY <1>1, <2>1 DEF CallOwners
    <2>. QED
      BY <1>0, <2>1, <2>2, <2>3
  <1>2. ASSUME NEW t \in Thread, pc'[t] = "ideref"
        PROVE  Kept(base[obj[t]]) /\ obj'[t] = obj[t] /\ base'[obj[t]] = base[obj[t]] /\ data'[t] = data[t] /\ pc[t] = "ideref"
    <2>1. pc[t] = "ideref" /\ obj'[t] = obj[t] /\ data'[t] = data[t] /\ src'[t] = src[t] /\ base'[obj[t]] = base[obj[t]]
      BY <1>2
    <2>2. base[obj[t]] = src[t] /\ src[t] \in held[t] /\ src'[t] \in held'[t] /\ src[t] \in Obj
      BY <1>2, <2>1 DEF IInv, CallInv, HeldInv, TypeOK
    <2>3. status[src[t]] = "live" /\ wrapper[src[t]] = "live" /\ status'[src[t]] = "live"
      BY <2>1, <2>2 DEF IInv, HeldInv
    <2>4. t \in IterOwners(src[t]) /\ t \in IterOwners(src[t])'
      BY <1>2, <2>1, <2>2 DEF IterOwners
    <2>. QED
      BY <1>0, <2>1, <2>2, <2>3, <2>4
  <1>3. ASSUME NEW t \in Thread, pc'[t] = "bderef"
        PROVE  Kept(base[src[t]]) /\ src'[t] = src[t] /\ base'[src[t]] = base[src[t]] /\ data'[t] = data[t] /\ pc[t] = "bderef"
    <2>1. pc[t] = "bderef" /\ data'[t] = data[t] /\ src'[t] = src[t] /\ base'[src[t]] = base[src[t]]
      BY <1>3
    <2>2. src[t] \in Obj /\ status[src[t]] = "live" /\ status'[src[t]] = "live" /\ base[src[t]] \in Obj
      BY <2>1 DEF IInv, CallInv, HeldInv, TypeOK
    <2>3. src[t] \in BaseOwners(base[src[t]]) /\ src[t] \in BaseOwners(base[src[t]])'
      BY <2>1, <2>2 DEF BaseOwners
    <2>4. /\ status[base[src[t]]] = "live" /\ iface[base[src[t]]] # NoHandle
          /\ status'[base[src[t]]] = "live"
      BY <2>1, <2>2, SentinelAssumption DEF IInv, ObjInv
    <2>5. refcnt[base[src[t]]] > 0
      BY <2>2, <2>3, <2>4, OwnedIsCounted DEF IInv
    <2>6. wrapper[base[src[t]]] = "live"
      BY <2>2, <2>4, <2>5 DEF IInv, ObjInv, TypeOK
    <2>. QED
      BY <1>0, <2>1, <2>2, <2>3, <2>4, <2>6
  <1>. QED
    BY <1>1, <1>2, <1>3 DEF IInv, DerefIsCurrent, Kept

\* The operations of other threads, and steps that neither take nor drop a
\* reference.
LEMMA SameOwners ==
  ASSUME OwnersCounted, UNCHANGED <<status, refcnt, base>>,
         \A t \in Thread : (obj'[t] # NoObj \/ obj[t] # NoObj) =>
           /\ obj'[t] = obj[t]
           /\ pc'[t] \in {"attach", "dispose"} <=> pc[t] \in {"attach", "dispose"},
         \A t \in Thread :
           /\ pc'[t] \in {"iread", "ideref", "idecref"} <=> pc[t] \in {"iread", "ideref", "idecref"}
           /\ pc[t] \in {"iread", "ideref", "idecref"} => obj[t] # NoObj
  PROVE  OwnersCounted'
  <1>1. ASSUME NEW o \in Obj
        PROVE  BaseOwners(o)' = BaseOwners(o) /\ CallOwners(o)' = CallOwners(o) /\ IterOwners(o)' = IterOwners(o)
    <2>1. o # NoObj
      BY SentinelAssumption
    <2>2. BaseOwners(o)' = BaseOwners(o)
      BY DEF BaseOwners
    <2>3. CallOwners(o)' = CallOwners(o)
      BY <2>1 DEF CallOwners
    <2>4. IterOwners(o)' = IterOwners(o)
      BY DEF IterOwners
    <2>. QED
      BY <2>2, <2>3, <2>4
  <1>. QED
    BY <1>1 DEF OwnersCounted

-----------------------------------------------------------------------------
(* Steps that leave objects and handles alone.                             *)

LEMMA StutterKeeps == ASSUME IInv, UNCHANGED vars  PROVE IInv'
  BY DEF IInv, vars, objVars, handleVars, callVars, TypeOK, HandleInv, ObjInv, HeldInv, PrivateInv, CallInv,
         DerefIsCurrent, OwnersCounted, BaseOwners, CallOwners, IterOwners

LEMMA DropKeeps == ASSUME IInv, NEW t \in Thread, NEW o \in Obj, Drop(t, o)  PROVE IInv'
  <1>. USE DEF Drop, objVars, handleVars, callVars
  <1>1. TypeOK'
    BY DEF IInv, TypeOK
  <1>2. HandleInv' /\ ObjInv'
    BY DEF IInv, HandleInv, ObjInv
  <1>3. HeldInv'
    BY DEF IInv, HeldInv, TypeOK, CallInv
  <1>4. PrivateInv'
    BY DEF IInv, PrivateInv, TypeOK
  <1>5. CallInv'
    BY DEF IInv, CallInv, TypeOK
  <1>6. DerefIsCurrent'
    BY DEF IInv, DerefIsCurrent
  <1>7. OwnersCounted'
    BY DEF IInv, OwnersCounted, BaseOwners, CallOwners, IterOwners
  <1>. QED
    BY <1>1, <1>2, <1>3, <1>4, <1>5, <1>6, <1>7 DEF IInv

LEMMA ShareKeeps ==
  ASSUME IInv, NEW t \in Thread, NEW u \in Thread, NEW o \in Obj, Share(t, u, o)
  PROVE  IInv'
  <1>. USE DEF Share, objVars, handleVars, callVars
  <1>1. TypeOK'
    BY DEF IInv, TypeOK
  <1>2. HandleInv' /\ ObjInv'
    BY DEF IInv, HandleInv, ObjInv
  <1>3. HeldInv'
    BY DEF IInv, HeldInv, TypeOK
  <1>4. PrivateInv'
    BY DEF IInv, PrivateInv, TypeOK, CallInv
  <1>5. CallInv'
    BY DEF IInv, CallInv, TypeOK
  <1>6. DerefIsCurrent'
    BY DEF IInv, DerefIsCurrent
  <1>7. OwnersCounted'
    BY DEF IInv, OwnersCounted, BaseOwners, CallOwners, IterOwners
  <1>. QED
    BY <1>1, <1>2, <1>3, <1>4, <1>5, <1>6, <1>7 DEF IInv

LEMMA ReadInterfaceKeeps == ASSUME IInv, NEW t \in Thread, ReadInterface(t)  PROVE IInv'
  <1>. USE DEF ReadInterface, Goto, objVars, handleVars
  <1>1. TypeOK'
    BY DEF IInv, TypeOK, PCs, CallInv
  <1>2. HandleInv' /\ ObjInv'
    BY DEF IInv, HandleInv, ObjInv
  <1>3. HeldInv'
    BY DEF IInv, HeldInv
  <1>4. PrivateInv'
    BY DEF IInv, PrivateInv
  <1>5. CallInv'
    BY DEF IInv, CallInv, TypeOK
  <1>6. DerefIsCurrent'
    <2>1. obj[t] \in Obj /\ status[obj[t]] = "live" /\ wrapper[obj[t]] = "live" /\ t \in CallOwners(obj[t])
      BY DEF IInv, CallInv, PrivateInv, TypeOK, CallOwners
    <2>2. refcnt[obj[t]] > 0
      BY <2>1, OwnedIsCounted DEF IInv
    <2>3. iface[obj[t]] # NoHandle
      BY <2>1 DEF IInv, ObjInv
    <2>4. hkind[iface[obj[t]]] = "strong" /\ htarget[iface[obj[t]]] = obj[t]
      BY <2>1, <2>2, <2>3 DEF IInv, HandleInv, Handles
    <2>. QED
      BY <2>4 DEF IInv, DerefIsCurrent, TypeOK
  <1>7. OwnersCounted'
    BY SameOwners DEF IInv, TypeOK, CallInv
  <1>. QED
    BY <1>1, <1>2, <1>3, <1>4, <1>5, <1>6, <1>7 DEF IInv

LEMMA DerefInterfaceKeeps == ASSUME IInv, NEW t \in Thread, DerefInterface(t)  PROVE IInv'
  <1>. USE DEF DerefInterface, Goto, objVars, handleVars
  <1>0. obj[t] \in Obj /\ htarget[data[t]] = obj[t] /\ status[obj[t]] = "live" /\ wrapper[obj[t]] = "live"
    BY DEF IInv, DerefIsCurrent, CallInv, PrivateInv, TypeOK
  <1>1. TypeOK'
    BY <1>0 DEF IInv, TypeOK, PCs
  <1>2. HandleInv' /\ ObjInv'
    BY DEF IInv, HandleInv, ObjInv
  <1>3. HeldInv'
    BY <1>0 DEF IInv, HeldInv, TypeOK
  <1>4. PrivateInv'
    BY <1>0 DEF IInv, PrivateInv, TypeOK
  <1>5. CallInv'
    BY <1>0 DEF IInv, CallInv, TypeOK
  <1>6. DerefIsCurrent'
    BY DEF IInv, DerefIsCurrent, TypeOK
  <1>7. OwnersCounted'
    BY SameOwners DEF IInv, TypeOK, CallInv
  <1>. QED
    BY <1>1, <1>2, <1>3, <1>4, <1>5, <1>6, <1>7 DEF IInv

LEMMA IterArrayReadKeeps == ASSUME IInv, NEW t \in Thread, IterArrayRead(t)  PROVE IInv'
  <1>. USE DEF IterArrayRead, Goto, objVars, handleVars
  <1>1. TypeOK'
    BY DEF IInv, TypeOK, PCs, CallInv
  <1>2. HandleInv' /\ ObjInv'
    BY DEF IInv, HandleInv, ObjInv
  <1>3. HeldInv'
    BY DEF IInv, HeldInv
  <1>4. PrivateInv'
    BY DEF IInv, PrivateInv
  <1>5. CallInv'
    BY DEF IInv, CallInv, TypeOK
  <1>6. DerefIsCurrent'
    <2>. DEFINE b == base[obj[t]]
    <2>1. b \in Obj /\ status[b] = "live" /\ wrapper[b] = "live" /\ t \in IterOwners(b)
      BY DEF IInv, CallInv, HeldInv, TypeOK, IterOwners
    <2>2. refcnt[b] > 0
      BY <2>1, OwnedIsCounted DEF IInv
    <2>3. iface[b] # NoHandle
      BY <2>1 DEF IInv, ObjInv
    <2>4. hkind[iface[b]] = "strong" /\ htarget[iface[b]] = b
      BY <2>1, <2>2, <2>3 DEF IInv, HandleInv, Handles
    <2>. QED
      BY <2>4 DEF IInv, DerefIsCurrent, TypeOK
  <1>7. OwnersCounted'
    BY SameOwners DEF IInv, TypeOK, CallInv
  <1>. QED
    BY <1>1, <1>2, <1>3, <1>4, <1>5, <1>6, <1>7 DEF IInv

LEMMA IterArrayDerefKeeps == ASSUME IInv, NEW t \in Thread, IterArrayDeref(t)  PROVE IInv'
  <1>. USE DEF IterArrayDeref, Goto, objVars, handleVars
  <1>1. TypeOK'
    <2>1. htarget[data[t]] = base[obj[t]] /\ base[obj[t]] \in Obj
      BY DEF IInv, DerefIsCurrent, CallInv, TypeOK
    <2>. QED
      BY <2>1 DEF IInv, TypeOK, PCs
  <1>2. HandleInv' /\ ObjInv'
    BY DEF IInv, HandleInv, ObjInv
  <1>3. HeldInv'
    BY DEF IInv, HeldInv
  <1>4. PrivateInv'
    BY DEF IInv, PrivateInv
  <1>5. CallInv'
    BY DEF IInv, CallInv, TypeOK
  <1>6. DerefIsCurrent'
    BY DEF IInv, DerefIsCurrent, TypeOK
  <1>7. OwnersCounted'
    BY SameOwners DEF IInv, TypeOK, CallInv
  <1>. QED
    BY <1>1, <1>2, <1>3, <1>4, <1>5, <1>6, <1>7 DEF IInv

LEMMA GetBaseKeeps == ASSUME IInv, NEW t \in Thread, NEW v \in Obj, GetBase(t, v)  PROVE IInv'
  <1>. USE DEF GetBase, Begin, Goto, objVars, handleVars
  <1>0. v \in held[t] /\ status[v] = "live" /\ base[v] \in Obj /\ status[base[v]] = "live" /\ iface[base[v]] # NoHandle
    BY DEF IInv, HeldInv, ObjInv, TypeOK
  <1>1. TypeOK'
    BY <1>0 DEF IInv, TypeOK, PCs, Uses
  <1>2. HandleInv' /\ ObjInv'
    BY DEF IInv, HandleInv, ObjInv
  <1>3. HeldInv'
    BY DEF IInv, HeldInv, TypeOK
  <1>4. PrivateInv'
    BY DEF IInv, PrivateInv, TypeOK
  <1>5. CallInv'
    BY <1>0, SentinelAssumption DEF IInv, CallInv, TypeOK
  <1>6. DerefIsCurrent'
    <2>1. v \in BaseOwners(base[v])
      BY <1>0 DEF BaseOwners
    <2>2. refcnt[base[v]] > 0
      BY <1>0, <2>1, OwnedIsCounted DEF IInv
    <2>3. wrapper[base[v]] = "live"
      BY <1>0, <2>2 DEF IInv, ObjInv, TypeOK
    <2>4. hkind[iface[base[v]]] = "strong" /\ htarget[iface[base[v]]] = base[v]
      BY <1>0, <2>2, <2>3 DEF IInv, HandleInv, Handles
    <2>. QED
      BY <2>4 DEF IInv, DerefIsCurrent, TypeOK
  <1>7. OwnersCounted'
    BY SameOwners DEF IInv, TypeOK, CallInv
  <1>. QED
    BY <1>1, <1>2, <1>3, <1>4, <1>5, <1>6, <1>7 DEF IInv

LEMMA GetBaseDerefKeeps == ASSUME IInv, NEW t \in Thread, GetBaseDeref(t)  PROVE IInv'
  <1>. USE DEF GetBaseDeref, End, Goto, objVars, handleVars
  <1>0. src[t] \in Obj /\ obj[t] = NoObj /\ status[src[t]] = "live" /\ base[src[t]] \in Obj /\ htarget[data[t]] = base[src[t]]
    BY DEF IInv, HeldInv, CallInv, DerefIsCurrent, TypeOK
  <1>a. status[base[src[t]]] = "live" /\ wrapper[base[src[t]]] = "live"
    <2>1. status[base[src[t]]] = "live" /\ iface[base[src[t]]] # NoHandle
      BY <1>0, SentinelAssumption DEF IInv, ObjInv
    <2>2. data[t] = iface[base[src[t]]]
      BY DEF IInv, DerefIsCurrent
    <2>. QED
      BY <1>0, <2>1, <2>2, SentinelAssumption DEF IInv, HandleInv, Handles
  <1>1. TypeOK'
    BY <1>0 DEF IInv, TypeOK, PCs, Uses
  <1>2. HandleInv' /\ ObjInv'
    BY DEF IInv, HandleInv, ObjInv
  <1>3. HeldInv'
    BY <1>0, <1>a DEF IInv, HeldInv, TypeOK
  <1>4. PrivateInv'
    BY <1>0 DEF IInv, PrivateInv, TypeOK
  <1>5. CallInv'
    BY <1>0 DEF IInv, CallInv, TypeOK
  <1>6. DerefIsCurrent'
    BY DEF IInv, DerefIsCurrent, TypeOK
  <1>7. OwnersCounted'
    BY <1>0, SameOwners DEF IInv, TypeOK, CallInv
  <1>. QED
    BY <1>1, <1>2, <1>3, <1>4, <1>5, <1>6, <1>7 DEF IInv

-----------------------------------------------------------------------------
(* Wrappers and objects that come into being.                              *)

\* A new wrapper gets a strong handle of its own.
LEMMA AllocHandles ==
  ASSUME IInv, NEW o \in Obj, AllocHandle(o), status[o] = "live", wrapper[o] = "none", refcnt[o] > 0,
         wrapper' = [wrapper EXCEPT ![o] = "live"]
  PROVE  /\ HandleTypes' /\ Handles(status, refcnt, wrapper', iface', hkind', htarget')
         /\ iface'[o] # NoHandle
         /\ \A x \in Obj : x # o => iface'[x] = iface[x]
         /\ \A x \in Obj : status[x] = "live" /\ iface[x] # NoHandle =>
              /\ iface'[x] = iface[x]
              /\ hkind'[iface[x]] = hkind[iface[x]]
              /\ htarget'[iface[x]] = htarget[iface[x]]
  <1>1. PICK h \in Handle :
          /\ hkind[h] = "free"
          /\ hkind'   = [hkind EXCEPT ![h] = "strong"]
          /\ htarget' = [htarget EXCEPT ![h] = o]
          /\ iface'   = [iface EXCEPT ![o] = h]
    BY DEF AllocHandle
  <1>2. HandleTypes /\ Handles(status, refcnt, wrapper, iface, hkind, htarget) /\ iface[o] = NoHandle
    BY DEF IInv, TypeOK, HandleTypes, HandleInv, ObjInv
  <1>3. \A x \in Obj : status[x] = "live" /\ iface[x] # NoHandle => iface[x] \in Handle /\ iface[x] # h /\ x # o
    BY <1>1, <1>2 DEF HandleTypes, Handles
  <1>4. /\ hkind'[h] = "strong" /\ htarget'[h] = o /\ iface'[o] = h /\ h # NoHandle
        /\ \A g \in Handle : g # h => hkind'[g] = hkind[g] /\ htarget'[g] = htarget[g]
        /\ \A x \in Obj : x # o => iface'[x] = iface[x]
        /\ wrapper'[o] = "live" /\ \A x \in Obj : x # o => wrapper'[x] = wrapper[x]
    BY <1>1, <1>2, SentinelAssumption DEF HandleTypes, IInv, TypeOK
  <1>5. HandleTypes'
    BY <1>1, <1>2 DEF HandleTypes
  <1>6. Handles(status, refcnt, wrapper', iface', hkind', htarget')
    <2>1. \A x \in Obj : status[x] = "live" /\ iface'[x] # NoHandle =>
            /\ hkind'[iface'[x]] = (IF refcnt[x] > 0 THEN "strong" ELSE "weak")
            /\ htarget'[iface'[x]] = (IF wrapper'[x] = "live" THEN x ELSE NoObj)
      BY <1>2, <1>3, <1>4 DEF Handles
    <2>2. \A x, y \in Obj : status[x] = "live" /\ status[y] = "live" /\ iface'[x] # NoHandle /\ iface'[x] = iface'[y] => x = y
      BY <1>2, <1>3, <1>4 DEF Handles
    <2>3. ASSUME NEW g \in Handle, hkind'[g] = "strong"
          PROVE  \E x \in Obj : status[x] = "live" /\ iface'[x] = g /\ refcnt[x] > 0
      <3>1. CASE g = h
        BY <3>1, <1>4
      <3>2. CASE g # h
        <4>1. PICK x \in Obj : status[x] = "live" /\ iface[x] = g /\ refcnt[x] > 0
          BY <1>2, <1>4, <2>3, <3>2 DEF Handles
        <4>. QED
          BY <1>2, <1>4, <4>1, SentinelAssumption
      <3>. QED
        BY <3>1, <3>2
    <2>. QED
      BY <2>1, <2>2, <2>3 DEF Handles
  <1>. QED
    BY <1>3, <1>4, <1>5, <1>6

\* The wrapper of the object that an operation is about to return.
LEMMA NewWrapperKeeps ==
  ASSUME IInv, NEW t \in Thread, pc[t] \in {"wrap", "ialloc"},
         AllocHandle(obj[t]), wrapper' = [wrapper EXCEPT ![obj[t]] = "live"],
         NEW to \in {"read", "base"}, Goto(t, pc[t], to), to = "base" => pc[t] = "wrap" /\ src[t] # NoObj /\ use[t] # "attach",
         data' = [data EXCEPT ![t] = NoHandle] \/ UNCHANGED data,
         UNCHANGED <<objVars, arr, held, obj, src, use, fault>>
  PROVE  IInv'
  <1>. USE DEF Goto, objVars
  <1>. DEFINE o == obj[t]
  <1>0. o \in Obj /\ status[o] = "live" /\ wrapper[o] = "none" /\ o # NoObj /\ refcnt[o] > 0 /\ o \notin held[t]
    <2>1. o \in Obj /\ status[o] = "live" /\ wrapper[o] = "none" /\ t \in CallOwners(o) /\ o \notin held[t]
      BY DEF IInv, CallInv, PrivateInv, TypeOK, CallOwners
    <2>2. refcnt[o] > 0
      BY <2>1, OwnedIsCounted DEF IInv
    <2>. QED
      BY <2>1, <2>2, SentinelAssumption
  <1>a. /\ HandleTypes' /\ Handles(status, refcnt, wrapper', iface', hkind', htarget')
        /\ iface'[o] # NoHandle
        /\ \A x \in Obj : x # o => iface'[x] = iface[x]
        /\ \A x \in Obj : status[x] = "live" /\ iface[x] # NoHandle =>
             /\ iface'[x] = iface[x]
             /\ hkind'[iface[x]] = hkind[iface[x]]
             /\ htarget'[iface[x]] = htarget[iface[x]]
    BY <1>0, AllocHandles
  <1>b. wrapper'[o] = "live" /\ \A x \in Obj : x # o => wrapper'[x] = wrapper[x]
    BY <1>0 DEF IInv, TypeOK
  <1>c. \A u \in Thread : u # t => obj[u] # o /\ pc'[u] = pc[u] /\ data'[u] = data[u]
    BY <1>0 DEF IInv, PrivateInv, TypeOK
  <1>. HIDE DEF o
  <1>1. TypeOK'
    BY <1>a, ZenonT(20) DEF IInv, TypeOK, HandleTypes, PCs, o
  <1>2. HandleInv' /\ ObjInv'
    <2>1. HandleInv'
      BY <1>a DEF HandleInv
    <2>2. ObjInv'
      BY <1>0, <1>a, <1>b DEF IInv, ObjInv, TypeOK
    <2>. QED
      BY <2>1, <2>2
  <1>3. HeldInv'
    BY <1>0, <1>b DEF IInv, HeldInv, TypeOK
  <1>4. PrivateInv'
    BY DEF IInv, PrivateInv
  <1>5. CallInv'
    <2>1. pc'[t] = to /\ obj[t] = o /\ UNCHANGED <<obj, src, use, held, base>>
      BY DEF IInv, TypeOK, o
    <2>2. ASSUME NEW u \in Thread, u # t, obj[u] # NoObj
          PROVE  wrapper'[obj[u]] = wrapper[obj[u]]
      BY <1>b, <1>c, <2>2 DEF IInv, TypeOK
    <2>. QED
      BY <1>0, <1>b, <1>c, <2>1, <2>2 DEF IInv, CallInv
  <1>6. DerefIsCurrent'
    <2>1. \A u \in Thread : pc'[u] \in {"deref", "ideref", "bderef"} => u # t
      BY DEF IInv, TypeOK
    <2>2. \A u \in Thread : pc[u] = "deref" => iface[obj[u]] # NoHandle /\ obj[u] \in Obj /\ status[obj[u]] = "live"
      BY DEF IInv, CallInv, PrivateInv, ObjInv, TypeOK
    <2>3. \A u \in Thread : pc[u] = "ideref" => base[obj[u]] \in Obj /\ iface[base[obj[u]]] # NoHandle /\ status[base[obj[u]]] = "live"
      BY DEF IInv, CallInv, HeldInv, PrivateInv, ObjInv, TypeOK
    <2>4. \A u \in Thread : pc[u] = "bderef" => base[src[u]] \in Obj /\ iface[base[src[u]]] # NoHandle /\ status[base[src[u]]] = "live"
      BY DEF IInv, CallInv, HeldInv, ObjInv, TypeOK
    <2>. QED
      BY <1>a, <1>c, <2>1, <2>2, <2>3, <2>4 DEF IInv, DerefIsCurrent
  <1>7. OwnersCounted'
    BY <1>c, SameOwners DEF IInv, TypeOK, CallInv
  <1>. QED
    BY <1>1, <1>2, <1>3, <1>4, <1>5, <1>6, <1>7 DEF IInv

LEMMA ArrayNewWrapperKeeps == ASSUME IInv, NEW t \in Thread, ArrayNewWrapper(t)  PROVE IInv'
  <1>. DEFINE to == IF src[t] = NoObj \/ use[t] = "attach" THEN "read" ELSE "base"
  <1>1. pc[t] = "wrap" /\ to \in {"read", "base"} /\ Goto(t, pc[t], to) /\ (to = "base" => src[t] # NoObj /\ use[t] # "attach")
    BY DEF ArrayNewWrapper, Goto
  <1>. HIDE DEF to
  <1>. QED
    BY <1>1, NewWrapperKeeps DEF ArrayNewWrapper

LEMMA IterNewWrapperKeeps == ASSUME IInv, NEW t \in Thread, IterNewWrapper(t)  PROVE IInv'
  <1>1. pc[t] = "ialloc" /\ "read" \in {"read", "base"} /\ Goto(t, pc[t], "read")
    BY DEF IterNewWrapper, Goto
  <1>. QED
    BY <1>1, NewWrapperKeeps DEF IterNewWrapper

\* The count and the handles after the birth of o with base b.
LEMMA BirthHandles ==
  ASSUME IInv, NEW o \in Obj, NEW b \in Obj \cup {NoObj}, NEW ty \in {"array", "iter"}, Born(o, ty, b),
         b # NoObj => status[b] = "live" /\ wrapper[b] = "live" /\ Incref(b, [refcnt EXCEPT ![o] = 1]),
         b = NoObj => refcnt' = [refcnt EXCEPT ![o] = 1] /\ UNCHANGED handleVars
  PROVE  /\ b # o /\ refcnt' = [x \in Obj |-> IF x = o THEN 1 ELSE IF x = b THEN refcnt[x] + 1 ELSE refcnt[x]]
         /\ refcnt' \in [Obj -> Nat]
         /\ HandleTypes' /\ Handles(status', refcnt', wrapper, iface', hkind', htarget')
         /\ \A x \in Obj : iface'[x] = NoHandle <=> iface[x] = NoHandle
         /\ \A x \in Obj : status[x] = "live" /\ refcnt[x] > 0 /\ iface[x] # NoHandle =>
              /\ iface'[x] = iface[x]
              /\ hkind'[iface[x]] = hkind[iface[x]]
              /\ htarget'[iface[x]] = htarget[iface[x]]
  <1>. DEFINE rc == [refcnt EXCEPT ![o] = 1]
  <1>1. /\ rc \in [Obj -> Nat] /\ HandleTypes /\ refcnt \in [Obj -> Nat]
        /\ status' = [status EXCEPT ![o] = "live"] /\ status[o] = "unborn" /\ iface[o] = NoHandle /\ b # o
        /\ status \in [Obj -> {"unborn", "live", "dead"}]
    BY SentinelAssumption DEF IInv, TypeOK, HandleTypes, ObjInv, Born
  <1>2. \A x \in Obj : /\ status'[x] = "live" <=> x = o \/ status[x] = "live"
                       /\ x # o => rc[x] = refcnt[x]
    BY <1>1
  <1>3. Handles(status', rc, wrapper, iface, hkind, htarget)
    <2>2. Handles(status, refcnt, wrapper, iface, hkind, htarget)
      BY DEF IInv, HandleInv
    <2>. HIDE DEF rc
    <2>3. \A x \in Obj : status'[x] = "live" /\ iface[x] # NoHandle =>
            /\ hkind[iface[x]] = (IF rc[x] > 0 THEN "strong" ELSE "weak")
            /\ htarget[iface[x]] = (IF wrapper[x] = "live" THEN x ELSE NoObj)
      BY <1>1, <1>2, <2>2 DEF Handles
    <2>4. \A x, y \in Obj : status'[x] = "live" /\ status'[y] = "live" /\ iface[x] # NoHandle /\ iface[x] = iface[y] => x = y
      BY <1>1, <1>2, <2>2 DEF Handles
    <2>5. ASSUME NEW h \in Handle, hkind[h] = "strong"
          PROVE  \E x \in Obj : status'[x] = "live" /\ iface[x] = h /\ rc[x] > 0
      <3>1. PICK x \in Obj : status[x] = "live" /\ iface[x] = h /\ refcnt[x] > 0
        BY <2>2, <2>5 DEF Handles
      <3>. QED
        BY <1>1, <1>2, <3>1
    <2>. QED
      BY <2>3, <2>4, <2>5 DEF Handles
  <1>4. CASE b = NoObj
    <2>1. refcnt' = rc /\ UNCHANGED handleVars
      BY <1>4
    <2>2. HandleTypes' /\ Handles(status', refcnt', wrapper, iface', hkind', htarget')
      BY <1>1, <1>3, <2>1 DEF HandleTypes, Handles, handleVars
    <2>3. refcnt' = [x \in Obj |-> IF x = o THEN 1 ELSE IF x = b THEN refcnt[x] + 1 ELSE refcnt[x]]
      BY <1>1, <1>4, <2>1, SentinelAssumption
    <2>. QED
      BY <1>1, <2>1, <2>2, <2>3 DEF handleVars
  <1>5. CASE b # NoObj
    <2>1. b \in Obj /\ status'[b] = "live" /\ iface[b] # NoHandle /\ Incref(b, rc)
      BY <1>1, <1>5 DEF IInv, ObjInv
    <2>. HIDE DEF rc
    <2>2. /\ refcnt' = [rc EXCEPT ![b] = rc[b] + 1]
          /\ HandleTypes' /\ Handles(status', refcnt', wrapper, iface', hkind', htarget') /\ Keeps(status', rc)
      <3>1. rc \in [Obj -> Nat] /\ HandleTypes /\ b \in Obj /\ status'[b] = "live" /\ iface[b] # NoHandle
        BY <1>1, <2>1
      <3>. QED
        BY <1>3, <2>1, <3>1, IncrefHandles
    <2>3. refcnt' \in [Obj -> Nat]
      BY <1>1, <2>1, <2>2
    <2>4. \A x \in Obj : status[x] = "live" /\ refcnt[x] > 0 /\ iface[x] # NoHandle =>
            status'[x] = "live" /\ rc[x] > 0 /\ refcnt'[x] > 0
      BY <1>1, <1>2, <2>1, <2>2
    <2>. USE DEF rc
    <2>5. refcnt' = [x \in Obj |-> IF x = o THEN 1 ELSE IF x = b THEN refcnt[x] + 1 ELSE refcnt[x]]
      BY <1>1, <1>5, <2>2
    <2>. HIDE DEF rc
    <2>. QED
      BY <1>1, <2>2, <2>3, <2>4, <2>5 DEF Keeps
  <1>. QED
    BY <1>4, <1>5

\* A new object is counted once, for the operation that returns it, and its base
\* once more.
LEMMA BirthKeeps ==
  ASSUME IInv, NEW t \in Thread, NEW o \in Obj, NEW s \in Obj \cup {NoObj}, NEW b \in {s, NoObj}, NEW u \in Uses,
         NEW d \in Handle \cup {NoHandle}, NEW ty \in {"array", "iter"}, NEW to \in {"wrap", "read", "iincref"},
         Begin(t, to, o, s, d, u), Born(o, ty, b), s # NoObj => s \in held[t],
         b = NoObj => refcnt' = [refcnt EXCEPT ![o] = 1] /\ UNCHANGED handleVars,
         b # NoObj => Incref(b, [refcnt EXCEPT ![o] = 1]),
         to = "wrap" => b = NoObj, to = "read" => u = "native", to = "iincref" => b # NoObj,
         u = "attach" => s # NoObj /\ to = "wrap",
         UNCHANGED <<wrapper, arr, held, fault>>
  PROVE  IInv'
  <1>0. /\ pc[t] = "idle" /\ obj[t] = NoObj /\ status[o] = "unborn" /\ iface[o] = NoHandle /\ wrapper[o] = "none"
        /\ s # NoObj => s \in Obj /\ status[s] = "live" /\ wrapper[s] = "live" /\ s # o
        /\ o # NoObj
    BY SentinelAssumption DEF IInv, CallInv, ObjInv, HeldInv, Begin, Goto, Born
  <1>a. /\ b # o /\ refcnt' = [x \in Obj |-> IF x = o THEN 1 ELSE IF x = b THEN refcnt[x] + 1 ELSE refcnt[x]]
        /\ refcnt' \in [Obj -> Nat]
        /\ HandleTypes' /\ Handles(status', refcnt', wrapper, iface', hkind', htarget')
        /\ \A x \in Obj : iface'[x] = NoHandle <=> iface[x] = NoHandle
        /\ \A x \in Obj : status[x] = "live" /\ refcnt[x] > 0 /\ iface[x] # NoHandle =>
             /\ iface'[x] = iface[x]
             /\ hkind'[iface[x]] = hkind[iface[x]]
             /\ htarget'[iface[x]] = htarget[iface[x]]
    <2>1. /\ b \in Obj \cup {NoObj}
          /\ b # NoObj => status[b] = "live" /\ wrapper[b] = "live" /\ Incref(b, [refcnt EXCEPT ![o] = 1])
      BY <1>0
    <2>. QED
      BY <2>1, BirthHandles
  <1>b. /\ status'[o] = "live" /\ base'[o] = b
        /\ \A x \in Obj : x # o => status'[x] = status[x] /\ base'[x] = base[x]
    BY DEF Born, IInv, TypeOK
  <1>c. /\ pc'[t] = to /\ obj'[t] = o /\ src'[t] = s /\ data'[t] = d /\ use'[t] = u
        /\ \A v \in Thread : v # t => /\ pc'[v] = pc[v] /\ obj'[v] = obj[v] /\ src'[v] = src[v]
                                      /\ data'[v] = data[v] /\ use'[v] = use[v]
    BY DEF Begin, Goto, IInv, TypeOK
  <1>d. /\ \A x \in Obj : base[x] # o
        /\ \A v \in Thread : obj[v] # o /\ src[v] # o /\ o \notin held[v]
    <2>1. \A x \in Obj : base[x] # o
      BY <1>0 DEF IInv, ObjInv
    <2>2. \A v \in Thread : obj[v] # o
      BY <1>0 DEF IInv, PrivateInv
    <2>3. \A v \in Thread : src[v] # o /\ o \notin held[v]
      BY <1>0 DEF IInv, HeldInv
    <2>. QED
      BY <2>1, <2>2, <2>3
  <1>1. TypeOK'
    <2>1. /\ status' \in [Obj -> {"unborn", "live", "dead"}] /\ type' \in [Obj -> {"array", "iter"}]
          /\ base' \in [Obj -> Obj \cup {NoObj}]
      BY DEF IInv, TypeOK, Born
    <2>2. /\ pc' \in [Thread -> PCs] /\ obj' \in [Thread -> Obj \cup {NoObj}] /\ src' \in [Thread -> Obj \cup {NoObj}]
          /\ data' \in [Thread -> Handle \cup {NoHandle}] /\ use' \in [Thread -> Uses]
      BY DEF IInv, TypeOK, Begin, Goto, PCs
    <2>. QED
      BY <1>a, <2>1, <2>2 DEF IInv, TypeOK, HandleTypes
  <1>2. HandleInv' /\ ObjInv'
    <2>1. HandleInv'
      BY <1>a DEF HandleInv
    <2>2. ASSUME NEW x \in Obj
          PROVE  /\ status'[x] = "unborn" => refcnt'[x] = 0 /\ iface'[x] = NoHandle /\ wrapper'[x] = "none"
                 /\ status'[x] # "live" => base'[x] = NoObj
                 /\ status'[x] = "live" =>
                      /\ wrapper'[x] = "none" <=> iface'[x] = NoHandle
                      /\ wrapper'[x] = "queued" => refcnt'[x] = 0
                      /\ wrapper'[x] # "done"
                      /\ base'[x] # NoObj => status'[base'[x]] = "live" /\ iface'[base'[x]] # NoHandle
      <3>1. CASE x = o
        <4>1. b # NoObj => status'[b] = "live" /\ iface'[b] # NoHandle
          BY <1>0, <1>a, <1>b DEF IInv, ObjInv
        <4>. QED
          BY <1>0, <1>a, <1>b, <3>1, <4>1
      <3>2. CASE x # o
        <4>1. status'[x] = status[x] /\ base'[x] = base[x] /\ wrapper'[x] = wrapper[x] /\ (iface'[x] = NoHandle <=> iface[x] = NoHandle)
          BY <1>a, <1>b, <3>2
        <4>2. refcnt'[x] = refcnt[x] \/ (x = b /\ wrapper[x] = "live")
          BY <1>0, <1>a, <3>2, SentinelAssumption
        <4>3. base[x] \in Obj => /\ status'[base[x]] = status[base[x]]
                                 /\ iface'[base[x]] = NoHandle <=> iface[base[x]] = NoHandle
          BY <1>a, <1>b, <1>d
        <4>4. base[x] \in Obj \cup {NoObj}
          BY DEF IInv, TypeOK
        <4>5. /\ status[x] = "unborn" => refcnt[x] = 0 /\ iface[x] = NoHandle /\ wrapper[x] = "none"
              /\ status[x] # "live" => base[x] = NoObj
              /\ status[x] = "live" =>
                   /\ wrapper[x] = "none" <=> iface[x] = NoHandle
                   /\ wrapper[x] = "queued" => refcnt[x] = 0
                   /\ wrapper[x] # "done"
                   /\ base[x] # NoObj => status[base[x]] = "live" /\ iface[base[x]] # NoHandle
          BY DEF IInv, ObjInv
        <4>. QED
          BY <1>0, <4>1, <4>2, <4>3, <4>4, <4>5
      <3>. QED
        BY <3>1, <3>2
    <2>. QED
      BY <2>1, <2>2 DEF ObjInv
  <1>3. HeldInv'
    BY <1>b, <1>c, <1>d DEF IInv, HeldInv, TypeOK
  <1>4. PrivateInv'
    <2>1. \A x \in Obj, v \in Thread : obj'[v] # NoObj => base'[x] # obj'[v]
      BY <1>0, <1>b, <1>c, <1>d, SentinelAssumption DEF IInv, PrivateInv
    <2>2. \A v \in Thread : obj'[v] # NoObj => status'[obj'[v]] = "live"
      BY <1>b, <1>c DEF IInv, PrivateInv, TypeOK
    <2>3. \A v, w \in Thread : obj'[v] # NoObj => src'[w] # obj'[v]
      BY <1>0, <1>c, <1>d DEF IInv, PrivateInv
    <2>4. \A v, w \in Thread : obj'[v] # NoObj /\ v # w => obj'[w] # obj'[v] /\ obj'[v] \notin held'[w]
      BY <1>0, <1>c, <1>d DEF IInv, PrivateInv
    <2>. QED
      BY <2>1, <2>2, <2>3, <2>4 DEF PrivateInv
  <1>5. CallInv'
    <2>1. \A v \in Thread : v # t /\ obj[v] # NoObj => base'[obj[v]] = base[obj[v]]
      BY <1>b, <1>d DEF IInv, TypeOK
    <2>2. \A v \in Thread : v # t /\ src[v] # NoObj => base'[src[v]] = base[src[v]]
      BY <1>b, <1>d DEF IInv, TypeOK
    <2>. QED
      BY <1>0, <1>b, <1>c, <1>d, <2>1, <2>2 DEF IInv, CallInv
  <1>7. OwnersCounted'
    <2>1. ASSUME NEW x \in Obj, status'[x] = "live"
          PROVE  refcnt'[x] = Cardinality(BaseOwners(x)') + Cardinality(CallOwners(x)') + Cardinality(IterOwners(x)')
      <3>1. CASE x = o
        <4>1. BaseOwners(x)' = {}
          BY <1>a, <1>b, <1>d, <3>1 DEF BaseOwners
        <4>2. CallOwners(x)' = {t}
          BY <1>c, <1>d, <3>1 DEF CallOwners
        <4>3. IterOwners(x)' = {}
          <5>1. ASSUME NEW v \in Thread, pc'[v] \in {"iread", "ideref", "idecref"}
                PROVE  base'[obj'[v]] # o
            BY <1>0, <1>b, <1>c, <1>d, <5>1 DEF IInv, TypeOK, CallInv
          <5>. QED
            BY <5>1, <3>1 DEF IterOwners
        <4>. QED
          <5>1. Cardinality({}) = 0 /\ Cardinality({t}) = 1 /\ refcnt'[o] = 1
            BY <1>a, FS_EmptySet, FS_Singleton
          <5>. QED
            BY <3>1, <4>1, <4>2, <4>3, <5>1
      <3>2. CASE x # o
        <4>1. CallOwners(x)' = CallOwners(x)
          BY <1>0, <1>c, <3>2, SentinelAssumption DEF CallOwners
        <4>2. IterOwners(x)' = IterOwners(x)
          <5>1. ASSUME NEW v \in Thread
                PROVE  pc'[v] \in {"iread", "ideref", "idecref"} <=> pc[v] \in {"iread", "ideref", "idecref"}
            BY <1>0, <1>c
          <5>2. ASSUME NEW v \in Thread, pc[v] \in {"iread", "ideref", "idecref"}
                PROVE  base'[obj'[v]] = base[obj[v]]
            BY <1>0, <1>b, <1>c, <1>d, <5>2 DEF IInv, TypeOK, CallInv
          <5>. QED
            BY <5>1, <5>2 DEF IterOwners
        <4>3. refcnt[x] = Cardinality(BaseOwners(x)) + Cardinality(CallOwners(x)) + Cardinality(IterOwners(x))
          BY <1>b, <2>1, <3>2 DEF IInv, OwnersCounted
        <4>4. CASE x = b
          <5>1. BaseOwners(x)' = BaseOwners(x) \cup {o} /\ o \notin BaseOwners(x)
            BY <1>0, <1>b, <3>2, <4>4 DEF BaseOwners
          <5>2. Cardinality(BaseOwners(x)') = Cardinality(BaseOwners(x)) + 1
            BY <5>1, OneMore, OwnersFinite
          <5>. QED
            BY <1>a, <3>2, <4>1, <4>2, <4>3, <4>4, <5>2, OwnersFinite
        <4>5. CASE x # b
          <5>1. BaseOwners(x)' = BaseOwners(x)
            BY <1>0, <1>b, <3>2, <4>5 DEF BaseOwners
          <5>. QED
            BY <1>a, <3>2, <4>1, <4>2, <4>3, <4>5, <5>1
        <4>. QED
          BY <4>4, <4>5
      <3>. QED
        BY <3>1, <3>2
    <2>. QED
      BY <2>1 DEF OwnersCounted
  <1>6. DerefIsCurrent'
    <2>1. \A v \in Thread : pc'[v] \in {"deref", "ideref", "bderef"} =>
           /\ pc'[v] = pc[v] /\ data'[v] = data[v] /\ obj'[v] = obj[v] /\ src'[v] = src[v]
           /\ pc[v] = "ideref" => base'[obj[v]] = base[obj[v]]
           /\ pc[v] = "bderef" => base'[src[v]] = base[src[v]]
      BY <1>b, <1>c, <1>d DEF IInv, TypeOK, CallInv
    <2>. QED
      BY <1>1, <1>2, <1>3, <1>4, <1>5, <1>7, <1>a, <2>1, DerefKept
  <1>. QED
    BY <1>1, <1>2, <1>3, <1>4, <1>5, <1>6, <1>7 DEF IInv

LEMMA AllocArrayKeeps ==
  ASSUME IInv, NEW t \in Thread, NEW o \in Obj, NEW s \in Obj \cup {NoObj}, AllocArray(t, o, s)
  PROVE  IInv'
  <1>. DEFINE u == IF s = NoObj THEN "return" ELSE "attach"
  <1>1. u \in Uses /\ NoObj \in {s, NoObj} /\ (u = "attach" => s # NoObj) /\ Begin(t, "wrap", o, s, NoHandle, u)
    BY DEF AllocArray, Uses
  <1>. HIDE DEF u
  <1>. QED
    BY <1>1, BirthKeeps DEF AllocArray

LEMMA NewViewKeeps ==
  ASSUME IInv, NEW t \in Thread, NEW o \in Obj, NEW b \in Obj, NEW u \in Uses, NewView(t, o, b, u)
  PROVE  IInv'
  <1>1. iface[b] \in Handle \cup {NoHandle} /\ NoObj \in {b, NoObj} /\ b \in Obj \cup {NoObj} /\ u # "attach"
    BY DEF IInv, TypeOK, NewView
  <1>. QED
    BY <1>1, BirthKeeps DEF NewView

LEMMA IterNewKeeps ==
  ASSUME IInv, NEW t \in Thread, NEW o \in Obj, NEW a \in Obj, NEW u \in Uses, IterNew(t, o, a, u)
  PROVE  IInv'
  <1>. DEFINE to == IF u = "native" THEN "read" ELSE "iincref"
  <1>1. /\ to \in {"read", "iincref"} /\ (to = "read" => u = "native") /\ a \in {a, NoObj} /\ a \in Obj \cup {NoObj}
        /\ a # NoObj /\ u # "attach" /\ Begin(t, to, o, a, NoHandle, u)
    BY SentinelAssumption DEF IterNew
  <1>. HIDE DEF to
  <1>. QED
    BY <1>1, BirthKeeps DEF IterNew

-----------------------------------------------------------------------------
(* Steps that take or drop one reference.                                  *)

\* What such a step does to an object with a wrapper, and to the others.
LEMMA CountStep ==
  ASSUME IInv, NEW a \in Obj, status[a] = "live", wrapper[a] = "live",
         Incref(a, refcnt) \/ DecrefWrapped(a, refcnt), UNCHANGED <<status, wrapper>>,
         \A x \in Obj : base'[x] = base[x] \/ (status[x] = "live" /\ base'[x] \in Obj /\ status[base'[x]] = "live" /\ iface[base'[x]] # NoHandle)
  PROVE  /\ HandleTypes' /\ refcnt' \in [Obj -> Nat] /\ HandleInv' /\ ObjInv'
         /\ \A x \in Obj : x # a => refcnt'[x] = refcnt[x]
         /\ Incref(a, refcnt) => refcnt'[a] = refcnt[a] + 1
         /\ DecrefWrapped(a, refcnt) => refcnt[a] > 0 /\ refcnt'[a] = refcnt[a] - 1
         /\ \A x \in Obj : status[x] = "live" /\ refcnt[x] > 0 /\ refcnt'[x] > 0 /\ iface[x] # NoHandle =>
              /\ iface'[x] = iface[x]
              /\ hkind'[iface[x]] = hkind[iface[x]]
              /\ htarget'[iface[x]] = htarget[iface[x]]
  <1>1. /\ refcnt \in [Obj -> Nat] /\ HandleTypes /\ iface[a] # NoHandle
        /\ Handles(status, refcnt, wrapper, iface, hkind, htarget)
    BY DEF IInv, TypeOK, HandleTypes, ObjInv, HandleInv
  <1>2. /\ HandleTypes' /\ refcnt' \in [Obj -> Nat] /\ Handles(status, refcnt', wrapper, iface', hkind', htarget')
        /\ Keeps(status, refcnt)
        /\ Incref(a, refcnt) => refcnt' = [refcnt EXCEPT ![a] = refcnt[a] + 1]
        /\ DecrefWrapped(a, refcnt) => refcnt[a] > 0 /\ refcnt' = [refcnt EXCEPT ![a] = refcnt[a] - 1]
    <2>1. CASE Incref(a, refcnt)
      <3>1. /\ refcnt' = [refcnt EXCEPT ![a] = refcnt[a] + 1]
            /\ HandleTypes' /\ Handles(status, refcnt', wrapper, iface', hkind', htarget') /\ Keeps(status, refcnt)
        BY <1>1, <2>1, IncrefHandles
      <3>2. refcnt' \in [Obj -> Nat] /\ ~ DecrefWrapped(a, refcnt)
        BY <1>1, <3>1 DEF DecrefWrapped
      <3>. QED
        BY <3>1, <3>2
    <2>2. CASE DecrefWrapped(a, refcnt)
      <3>1. /\ refcnt[a] > 0 /\ refcnt' = [refcnt EXCEPT ![a] = refcnt[a] - 1] /\ refcnt' \in [Obj -> Nat]
            /\ HandleTypes' /\ Handles(status, refcnt', wrapper, iface', hkind', htarget') /\ Keeps(status, refcnt)
        BY <1>1, <2>2, DecrefHandles
      <3>2. ~ Incref(a, refcnt)
        BY <1>1, <3>1 DEF Incref
      <3>. QED
        BY <3>1, <3>2
    <2>. QED
      BY <2>1, <2>2
  <1>3. \A x \in Obj : x # a => refcnt'[x] = refcnt[x]
    BY <1>1, <1>2
  <1>4. /\ Incref(a, refcnt) => refcnt'[a] = refcnt[a] + 1
        /\ DecrefWrapped(a, refcnt) => refcnt[a] > 0 /\ refcnt'[a] = refcnt[a] - 1
    BY <1>1, <1>2
  <1>5. \A x \in Obj : iface'[x] = NoHandle <=> iface[x] = NoHandle
    BY <1>2 DEF Keeps
  <1>6. ObjInv'
    BY <1>3, <1>5 DEF IInv, ObjInv, TypeOK
  <1>. QED
    BY <1>2, <1>3, <1>4, <1>6 DEF HandleInv, Keeps

\* A thread owns its object once until it is returned, and nobody else does.
LEMMA PrivateCount ==
  ASSUME IInv, NEW t \in Thread, obj[t] # NoObj
  PROVE  refcnt[obj[t]] = (IF pc[t] \in {"attach", "dispose"} THEN 0 ELSE 1)
  <1>1. obj[t] \in Obj /\ status[obj[t]] = "live"
    BY DEF IInv, TypeOK, PrivateInv
  <1>2. BaseOwners(obj[t]) = {}
    BY DEF IInv, PrivateInv, BaseOwners
  <1>3. CallOwners(obj[t]) = IF pc[t] \in {"attach", "dispose"} THEN {} ELSE {t}
    BY DEF IInv, PrivateInv, CallOwners
  <1>4. IterOwners(obj[t]) = {}
    <2>1. ASSUME NEW u \in Thread, pc[u] \in {"iread", "ideref", "idecref"}
          PROVE  base[obj[u]] # obj[t]
      BY <2>1 DEF IInv, CallInv, PrivateInv
    <2>. QED
      BY <2>1 DEF IterOwners
  <1>5. Cardinality({}) = 0 /\ Cardinality({t}) = 1
    BY FS_EmptySet, FS_Singleton
  <1>6. refcnt[obj[t]] = Cardinality(BaseOwners(obj[t])) + Cardinality(CallOwners(obj[t])) + Cardinality(IterOwners(obj[t]))
    BY <1>1 DEF IInv, OwnersCounted
  <1>. QED
    BY <1>2, <1>3, <1>4, <1>5, <1>6

\* An object gets the base that its caller holds.
LEMMA BasedKeeps ==
  ASSUME IInv, NEW t \in Thread,
         base' = [base EXCEPT ![obj[t]] = src[t]], Incref(src[t], refcnt),
         \/ Goto(t, "base", "read") /\ UNCHANGED <<obj, src, data, use>>
         \/ End(t, "attach"),
         UNCHANGED <<status, type, wrapper, arr, held, fault>>
  PROVE  IInv'
  <1>. DEFINE o == obj[t]
              a == src[t]
  <1>0. /\ pc[t] \in {"base", "attach"} /\ o \in Obj /\ a \in Obj /\ a # o /\ o # NoObj /\ a # NoObj
        /\ status[o] = "live" /\ wrapper[o] = "live" /\ base[o] = NoObj
        /\ status[a] = "live" /\ wrapper[a] = "live" /\ iface[a] # NoHandle /\ a \in held[t]
    <2>1. pc[t] \in {"base", "attach"}
      BY DEF Goto, End
    <2>2. o \in Obj /\ a \in Obj /\ o # NoObj /\ a # NoObj /\ wrapper[o] = "live" /\ base[o] = NoObj
      BY <2>1 DEF IInv, TypeOK, CallInv
    <2>3. status[o] = "live" /\ a # o /\ status[a] = "live" /\ wrapper[a] = "live" /\ a \in held[t]
      BY <2>2 DEF IInv, PrivateInv, HeldInv
    <2>. QED
      BY <2>1, <2>2, <2>3 DEF IInv, ObjInv
  <1>a. /\ pc'[t] = (IF pc[t] = "base" THEN "read" ELSE "idle") /\ (pc[t] = "base" => obj'[t] = o /\ src'[t] = a /\ use'[t] = use[t])
        /\ pc[t] = "attach" => obj'[t] = NoObj /\ src'[t] = NoObj
        /\ \A v \in Thread : v # t => /\ pc'[v] = pc[v] /\ obj'[v] = obj[v] /\ src'[v] = src[v]
                                      /\ data'[v] = data[v] /\ use'[v] = use[v]
    BY DEF Goto, End, IInv, TypeOK
  <1>b. base'[o] = a /\ \A x \in Obj : x # o => base'[x] = base[x]
    BY <1>0 DEF IInv, TypeOK
  <1>c. /\ HandleTypes' /\ refcnt' \in [Obj -> Nat] /\ HandleInv' /\ ObjInv'
        /\ \A x \in Obj : x # a => refcnt'[x] = refcnt[x]
        /\ refcnt'[a] = refcnt[a] + 1
        /\ \A x \in Obj : status[x] = "live" /\ refcnt[x] > 0 /\ refcnt'[x] > 0 /\ iface[x] # NoHandle =>
             /\ iface'[x] = iface[x]
             /\ hkind'[iface[x]] = hkind[iface[x]]
             /\ htarget'[iface[x]] = htarget[iface[x]]
    <2>1. \A x \in Obj : base'[x] = base[x] \/ (status[x] = "live" /\ base'[x] \in Obj /\ status[base'[x]] = "live" /\ iface[base'[x]] # NoHandle)
      BY <1>0, <1>b
    <2>. QED
      BY <1>0, <2>1, CountStep
  <1>d. \A u \in Thread : u # t /\ obj[u] # NoObj => obj[u] # o /\ obj[u] # a /\ base'[obj[u]] = base[obj[u]]
    BY <1>0, <1>b DEF IInv, PrivateInv, TypeOK
  <1>1. TypeOK'
    <2>1. /\ pc' \in [Thread -> PCs] /\ obj' \in [Thread -> Obj \cup {NoObj}] /\ src' \in [Thread -> Obj \cup {NoObj}]
          /\ data' \in [Thread -> Handle \cup {NoHandle}] /\ use' \in [Thread -> Uses]
      BY SMTT(20) DEF IInv, TypeOK, Goto, End, PCs, Uses
    <2>2. base' \in [Obj -> Obj \cup {NoObj}]
      BY <1>0 DEF IInv, TypeOK
    <2>. QED
      BY <1>c, <2>1, <2>2 DEF IInv, TypeOK, HandleTypes
  <1>2. HandleInv' /\ ObjInv'
    BY <1>c
  <1>3. HeldInv'
    BY <1>0, <1>a DEF IInv, HeldInv
  <1>4. PrivateInv'
    <2>1. \A x \in Obj, v \in Thread : obj'[v] # NoObj => base'[x] # obj'[v]
      BY <1>0, <1>a, <1>b DEF IInv, PrivateInv
    <2>. QED
      BY <1>0, <1>a, <2>1 DEF IInv, PrivateInv
  <1>5. CallInv'
    <2>1. \A v \in Thread : v # t /\ pc[v] = "bderef" => base'[src[v]] # NoObj
      BY <1>0, <1>b DEF IInv, TypeOK, CallInv
    <2>. QED
      BY <1>0, <1>a, <1>b, <1>d, <2>1 DEF IInv, CallInv
  <1>7. OwnersCounted'
    <2>1. ASSUME NEW x \in Obj, status'[x] = "live"
          PROVE  refcnt'[x] = Cardinality(BaseOwners(x)') + Cardinality(CallOwners(x)') + Cardinality(IterOwners(x)')
      <3>1. CallOwners(x)' = CallOwners(x)
        BY <1>0, <1>a, SentinelAssumption DEF CallOwners
      <3>2. IterOwners(x)' = IterOwners(x)
        <4>1. ASSUME NEW v \in Thread
              PROVE  pc'[v] \in {"iread", "ideref", "idecref"} <=> pc[v] \in {"iread", "ideref", "idecref"}
          BY <1>0, <1>a
        <4>2. ASSUME NEW v \in Thread, pc[v] \in {"iread", "ideref", "idecref"}
              PROVE  base'[obj'[v]] = base[obj[v]]
          BY <1>0, <1>a, <1>d, <4>2 DEF IInv, CallInv
        <4>. QED
          BY <4>1, <4>2 DEF IterOwners
      <3>3. refcnt[x] = Cardinality(BaseOwners(x)) + Cardinality(CallOwners(x)) + Cardinality(IterOwners(x))
        BY <2>1 DEF IInv, OwnersCounted
      <3>4. CASE x = a
        <4>1. BaseOwners(x)' = BaseOwners(x) \cup {o} /\ o \notin BaseOwners(x)
          BY <1>0, <1>b, <3>4 DEF BaseOwners
        <4>2. Cardinality(BaseOwners(x)') = Cardinality(BaseOwners(x)) + 1
          BY <4>1, OneMore, OwnersFinite
        <4>. QED
          BY <1>c, <3>1, <3>2, <3>3, <3>4, <4>2, OwnersFinite
      <3>5. CASE x # a
        <4>1. BaseOwners(x)' = BaseOwners(x)
          BY <1>0, <1>b, <3>5, SentinelAssumption DEF BaseOwners
        <4>. QED
          BY <1>c, <3>1, <3>2, <3>3, <3>5, <4>1
      <3>. QED
        BY <3>4, <3>5
    <2>. QED
      BY <2>1 DEF OwnersCounted
  <1>6. DerefIsCurrent'
    <2>1. \A v \in Thread : pc'[v] \in {"deref", "ideref", "bderef"} =>
           /\ pc'[v] = pc[v] /\ data'[v] = data[v] /\ obj'[v] = obj[v] /\ src'[v] = src[v]
           /\ pc[v] = "ideref" => base'[obj[v]] = base[obj[v]]
           /\ pc[v] = "bderef" => base'[src[v]] = base[src[v]]
      BY <1>0, <1>a, <1>b, <1>d DEF IInv, TypeOK, CallInv
    <2>. QED
      BY <1>1, <1>2, <1>3, <1>4, <1>5, <1>7, <1>c, <2>1, DerefKept
  <1>. QED
    BY <1>1, <1>2, <1>3, <1>4, <1>5, <1>6, <1>7 DEF IInv

LEMMA SetBaseKeeps == ASSUME IInv, NEW t \in Thread, SetBase(t)  PROVE IInv'
  BY BasedKeeps DEF SetBase

LEMMA AttachBaseKeeps == ASSUME IInv, NEW t \in Thread, AttachBase(t)  PROVE IInv'
  BY BasedKeeps DEF AttachBase

\* flatiter's constructor takes and drops a reference to the iterator's array.
LEMMA IterCountKeeps ==
  ASSUME IInv, NEW t \in Thread,
         \/ Goto(t, "iincref", "iread") /\ Incref(base[obj[t]], refcnt)
         \/ Goto(t, "idecref", "ialloc") /\ DecrefWrapped(base[obj[t]], refcnt),
         UNCHANGED <<status, type, base, wrapper, arr, held, obj, src, data, use, fault>>
  PROVE  IInv'
  <1>. DEFINE o == obj[t]
              a == base[o]
  <1>0. /\ pc[t] \in {"iincref", "idecref"} /\ o \in Obj /\ o # NoObj /\ a = src[t] /\ a \in Obj
        /\ status[a] = "live" /\ wrapper[a] = "live"
    BY DEF Goto, IInv, TypeOK, CallInv, HeldInv
  <1>a. /\ pc'[t] = (IF pc[t] = "iincref" THEN "iread" ELSE "ialloc")
        /\ \A v \in Thread : v # t => pc'[v] = pc[v]
        /\ pc' \in [Thread -> PCs]
    BY DEF Goto, IInv, TypeOK, PCs
  <1>c. /\ HandleTypes' /\ refcnt' \in [Obj -> Nat] /\ HandleInv' /\ ObjInv'
        /\ \A x \in Obj : x # a => refcnt'[x] = refcnt[x]
        /\ Incref(a, refcnt) => refcnt'[a] = refcnt[a] + 1
        /\ DecrefWrapped(a, refcnt) => refcnt[a] > 0 /\ refcnt'[a] = refcnt[a] - 1
        /\ \A x \in Obj : status[x] = "live" /\ refcnt[x] > 0 /\ refcnt'[x] > 0 /\ iface[x] # NoHandle =>
             /\ iface'[x] = iface[x]
             /\ hkind'[iface[x]] = hkind[iface[x]]
             /\ htarget'[iface[x]] = htarget[iface[x]]
    <2>1. /\ Incref(a, refcnt) \/ DecrefWrapped(a, refcnt)
          /\ \A x \in Obj : base'[x] = base[x]
      OBVIOUS
    <2>. HIDE DEF a
    <2>. QED
      BY <1>0, <2>1, CountStep
  <1>1. TypeOK'
    BY <1>a, <1>c DEF IInv, TypeOK, HandleTypes
  <1>2. HandleInv' /\ ObjInv'
    BY <1>c
  <1>3. HeldInv'
    BY DEF IInv, HeldInv
  <1>4. PrivateInv'
    BY DEF IInv, PrivateInv
  <1>5. CallInv'
    BY <1>0, <1>a DEF IInv, CallInv
  <1>7. OwnersCounted'
    <2>1. ASSUME NEW x \in Obj, status'[x] = "live"
          PROVE  refcnt'[x] = Cardinality(BaseOwners(x)') + Cardinality(CallOwners(x)') + Cardinality(IterOwners(x)')
      <3>1. BaseOwners(x)' = BaseOwners(x)
        BY DEF BaseOwners
      <3>2. CallOwners(x)' = CallOwners(x)
        BY <1>0, <1>a DEF CallOwners
      <3>3. refcnt[x] = Cardinality(BaseOwners(x)) + Cardinality(CallOwners(x)) + Cardinality(IterOwners(x))
        BY <2>1 DEF IInv, OwnersCounted
      <3>4. CASE x # a
        <4>1. IterOwners(x)' = IterOwners(x)
          BY <1>0, <1>a, <3>4 DEF IterOwners
        <4>. QED
          BY <1>c, <3>1, <3>2, <3>3, <3>4, <4>1
      <3>5. CASE x = a /\ pc[t] = "iincref"
        <4>1. IterOwners(x)' = IterOwners(x) \cup {t} /\ t \notin IterOwners(x)
          BY <1>a, <3>5 DEF IterOwners
        <4>2. Cardinality(IterOwners(x)') = Cardinality(IterOwners(x)) + 1
          BY <4>1, OneMore, OwnersFinite
        <4>3. refcnt'[x] = refcnt[x] + 1
          BY <1>c, <3>5 DEF Goto
        <4>. QED
          BY <3>1, <3>2, <3>3, <4>2, <4>3, OwnersFinite
      <3>6. CASE x = a /\ pc[t] = "idecref"
        <4>1. IterOwners(x)' = IterOwners(x) \ {t} /\ t \in IterOwners(x)
          BY <1>a, <3>6 DEF IterOwners
        <4>2. Cardinality(IterOwners(x)') = Cardinality(IterOwners(x)) - 1
          BY <4>1, OneLess, OwnersFinite
        <4>3. refcnt'[x] = refcnt[x] - 1
          BY <1>c, <3>6 DEF Goto
        <4>. QED
          BY <3>1, <3>2, <3>3, <4>2, <4>3, OwnersFinite
      <3>. QED
        BY <1>0, <3>4, <3>5, <3>6
    <2>. QED
      BY <2>1 DEF OwnersCounted
  <1>6. DerefIsCurrent'
    <2>1. \A v \in Thread : pc'[v] \in {"deref", "ideref", "bderef"} =>
           /\ pc'[v] = pc[v] /\ data'[v] = data[v] /\ obj'[v] = obj[v] /\ src'[v] = src[v]
           /\ pc[v] = "ideref" => base'[obj[v]] = base[obj[v]]
           /\ pc[v] = "bderef" => base'[src[v]] = base[src[v]]
      BY <1>0, <1>a
    <2>. QED
      BY <1>1, <1>2, <1>3, <1>4, <1>5, <1>7, <1>c, <2>1, DerefKept
  <1>. QED
    BY <1>1, <1>2, <1>3, <1>4, <1>5, <1>6, <1>7 DEF IInv

LEMMA IterArrayIncrefKeeps == ASSUME IInv, NEW t \in Thread, IterArrayIncref(t)  PROVE IInv'
  BY IterCountKeeps DEF IterArrayIncref

LEMMA IterArrayDecrefKeeps == ASSUME IInv, NEW t \in Thread, IterArrayDecref(t)  PROVE IInv'
  <1>1. iface[base[obj[t]]] # NoHandle
    BY DEF IterArrayDecref, Goto, IInv, TypeOK, CallInv, HeldInv, ObjInv
  <1>. QED
    BY <1>1, IterCountKeeps DEF IterArrayDecref, Decref

\* The operation gives up its own reference to the object it returns.
LEMMA ReleaseKeeps ==
  ASSUME IInv, NEW t \in Thread, pc[t] \in {"read", "decref"}, wrapper[obj[t]] = "live", DecrefWrapped(obj[t], refcnt),
         \/ End(t, pc[t])
         \/ /\ pc[t] = "decref" /\ use[t] # "return"
            /\ Goto(t, "decref", IF use[t] = "temp" THEN "dispose" ELSE "attach") /\ UNCHANGED <<obj, src, data, use>>,
         UNCHANGED <<status, type, base, wrapper, arr, held, fault>>
  PROVE  IInv'
  <1>. DEFINE o == obj[t]
  <1>0. o \in Obj /\ o # NoObj /\ status[o] = "live"
    BY DEF IInv, TypeOK, CallInv, PrivateInv
  <1>a. /\ pc'[t] \in {"idle", "dispose", "attach"}
        /\ pc'[t] = "idle" => obj'[t] = NoObj /\ src'[t] = NoObj
        /\ pc'[t] # "idle" => /\ obj'[t] = o /\ src'[t] = src[t] /\ use'[t] = use[t] /\ pc[t] = "decref"
                              /\ pc'[t] = (IF use[t] = "temp" THEN "dispose" ELSE "attach") /\ use[t] \in {"temp", "attach"}
        /\ \A v \in Thread : v # t => /\ pc'[v] = pc[v] /\ obj'[v] = obj[v] /\ src'[v] = src[v]
                                      /\ data'[v] = data[v] /\ use'[v] = use[v]
    <2>1. pc[t] = "decref" => use[t] # "native" /\ use[t] \in {"return", "temp", "attach", "native"}
      BY DEF IInv, TypeOK, CallInv, Uses
    <2>. QED
      BY <2>1 DEF Goto, End, IInv, TypeOK
  <1>c. /\ HandleTypes' /\ refcnt' \in [Obj -> Nat] /\ HandleInv' /\ ObjInv'
        /\ \A x \in Obj : x # o => refcnt'[x] = refcnt[x]
        /\ refcnt'[o] = refcnt[o] - 1
        /\ \A x \in Obj : status[x] = "live" /\ refcnt[x] > 0 /\ refcnt'[x] > 0 /\ iface[x] # NoHandle =>
             /\ iface'[x] = iface[x]
             /\ hkind'[iface[x]] = hkind[iface[x]]
             /\ htarget'[iface[x]] = htarget[iface[x]]
    <2>1. \A x \in Obj : base'[x] = base[x]
      OBVIOUS
    <2>. QED
      BY <1>0, <2>1, CountStep
  <1>1. TypeOK'
    <2>1. /\ pc' \in [Thread -> PCs] /\ obj' \in [Thread -> Obj \cup {NoObj}] /\ src' \in [Thread -> Obj \cup {NoObj}]
          /\ data' \in [Thread -> Handle \cup {NoHandle}] /\ use' \in [Thread -> Uses]
      BY SMTT(20) DEF IInv, TypeOK, Goto, End, PCs, Uses
    <2>. QED
      BY <1>c, <2>1 DEF IInv, TypeOK, HandleTypes
  <1>2. HandleInv' /\ ObjInv'
    BY <1>c
  <1>3. HeldInv'
    BY <1>a DEF IInv, HeldInv
  <1>4. PrivateInv'
    BY <1>0, <1>a DEF IInv, PrivateInv
  <1>5. CallInv'
    BY <1>0, <1>a DEF IInv, CallInv
  <1>7. OwnersCounted'
    <2>1. ASSUME NEW x \in Obj, status'[x] = "live"
          PROVE  refcnt'[x] = Cardinality(BaseOwners(x)') + Cardinality(CallOwners(x)') + Cardinality(IterOwners(x)')
      <3>1. BaseOwners(x)' = BaseOwners(x)
        BY DEF BaseOwners
      <3>2. IterOwners(x)' = IterOwners(x)
        BY <1>0, <1>a DEF IterOwners
      <3>3. refcnt[x] = Cardinality(BaseOwners(x)) + Cardinality(CallOwners(x)) + Cardinality(IterOwners(x))
        BY <2>1 DEF IInv, OwnersCounted
      <3>4. CASE x # o
        <4>1. CallOwners(x)' = CallOwners(x)
          BY <1>0, <1>a, <3>4, SentinelAssumption DEF CallOwners
        <4>. QED
          BY <1>c, <3>1, <3>2, <3>3, <3>4, <4>1
      <3>5. CASE x = o
        <4>1. CallOwners(x)' = CallOwners(x) \ {t} /\ t \in CallOwners(x)
          BY <1>0, <1>a, <3>5 DEF CallOwners
        <4>2. Cardinality(CallOwners(x)') = Cardinality(CallOwners(x)) - 1
          BY <4>1, OneLess, OwnersFinite
        <4>. QED
          BY <1>c, <3>1, <3>2, <3>3, <3>5, <4>2, OwnersFinite
      <3>. QED
        BY <3>4, <3>5
    <2>. QED
      BY <2>1 DEF OwnersCounted
  <1>6. DerefIsCurrent'
    <2>1. \A v \in Thread : pc'[v] \in {"deref", "ideref", "bderef"} =>
           /\ pc'[v] = pc[v] /\ data'[v] = data[v] /\ obj'[v] = obj[v] /\ src'[v] = src[v]
           /\ pc[v] = "ideref" => base'[obj[v]] = base[obj[v]]
           /\ pc[v] = "bderef" => base'[src[v]] = base[src[v]]
      BY <1>0, <1>a
    <2>. QED
      BY <1>1, <1>2, <1>3, <1>4, <1>5, <1>7, <1>c, <2>1, DerefKept
  <1>. QED
    BY <1>1, <1>2, <1>3, <1>4, <1>5, <1>6, <1>7 DEF IInv

LEMMA ReturnInterfaceKeeps == ASSUME IInv, NEW t \in Thread, ReturnInterface(t)  PROVE IInv'
  <1>1. pc[t] = "decref"
    BY DEF ReturnInterface, End, Goto
  <1>2. obj[t] \in Obj /\ wrapper[obj[t]] = "live" /\ iface[obj[t]] # NoHandle
    BY <1>1 DEF IInv, TypeOK, CallInv, PrivateInv, ObjInv
  <1>3. DecrefWrapped(obj[t], refcnt) /\ UNCHANGED <<status, type, base>>
    BY <1>2 DEF ReturnInterface, Decref
  <1>. QED
    BY <1>1, <1>2, <1>3, ReleaseKeeps DEF ReturnInterface

-----------------------------------------------------------------------------
(* Objects that are freed, and the collector.                              *)

\* An object that nothing refers to is freed, by its only operation or by the
\* finalizer.
LEMMA DeadKeeps ==
  ASSUME IInv, NEW o \in Obj, Dealloc(o), status[o] = "live", refcnt[o] = 0 \/ iface[o] = NoHandle,
         \A x \in Obj : base[x] # o,
         \A v \in Thread : /\ src[v] # o
                           /\ held'[v] = held[v] \ {o}
                           /\ obj[v] # o => /\ pc'[v] = pc[v] /\ obj'[v] = obj[v] /\ src'[v] = src[v]
                                            /\ data'[v] = data[v] /\ use'[v] = use[v]
                           /\ obj[v] = o => /\ pc[v] \in {"wrap", "read", "dispose"} /\ pc'[v] = "idle"
                                            /\ obj'[v] = NoObj /\ src'[v] = NoObj,
         \A x \in Obj : x # o => wrapper'[x] = wrapper[x],
         wrapper' \in [Obj -> {"none", "live", "queued", "done"}], held' \in [Thread -> SUBSET Obj],
         pc' \in [Thread -> PCs], obj' \in [Thread -> Obj \cup {NoObj}], src' \in [Thread -> Obj \cup {NoObj}],
         data' \in [Thread -> Handle \cup {NoHandle}], use' \in [Thread -> Uses],
         UNCHANGED <<arr, fault>>
  PROVE  IInv'
  <1>0. o # NoObj /\ base[o] # o /\ base[o] \in Obj \cup {NoObj}
    BY SentinelAssumption DEF IInv, TypeOK
  <1>a. /\ status' = [status EXCEPT ![o] = "dead"] /\ base' = [base EXCEPT ![o] = NoObj] /\ UNCHANGED type
        /\ base[o] # NoObj => refcnt[base[o]] > 0
        /\ refcnt' = [x \in Obj |-> IF x = o THEN 0 ELSE IF x = base[o] THEN refcnt[x] - 1 ELSE refcnt[x]]
        /\ refcnt' \in [Obj -> Nat]
        /\ HandleTypes' /\ Handles(status', refcnt', wrapper, iface', hkind', htarget') /\ Keeps(status', refcnt)
    BY <1>0, DeallocHandles
  <1>b. /\ status'[o] = "dead" /\ base'[o] = NoObj
        /\ \A x \in Obj : x # o => status'[x] = status[x] /\ base'[x] = base[x]
    BY <1>a DEF IInv, TypeOK
  <1>c. \A v \in Thread : obj'[v] # NoObj => obj[v] # o /\ obj'[v] \in Obj /\ obj'[v] # o
    BY <1>0
  <1>1. TypeOK'
    <2>1. status' \in [Obj -> {"unborn", "live", "dead"}] /\ base' \in [Obj -> Obj \cup {NoObj}]
      BY <1>a DEF IInv, TypeOK
    <2>. QED
      BY <1>a, <2>1 DEF IInv, TypeOK, HandleTypes
  <1>2. HandleInv' /\ ObjInv'
    <2>1. HandleInv'
      <3>1. \A x \in Obj : status'[x] = "live" => wrapper'[x] = wrapper[x]
        BY <1>b
      <3>. QED
        BY <1>a, <3>1 DEF HandleInv, Handles
    <2>2. ASSUME NEW x \in Obj
          PROVE  /\ status'[x] = "unborn" => refcnt'[x] = 0 /\ iface'[x] = NoHandle /\ wrapper'[x] = "none"
                 /\ status'[x] # "live" => base'[x] = NoObj
                 /\ status'[x] = "live" =>
                      /\ wrapper'[x] = "none" <=> iface'[x] = NoHandle
                      /\ wrapper'[x] = "queued" => refcnt'[x] = 0
                      /\ wrapper'[x] # "done"
                      /\ base'[x] # NoObj => status'[base'[x]] = "live" /\ iface'[base'[x]] # NoHandle
      <3>1. CASE x = o
        BY <1>b, <3>1
      <3>2. CASE x # o
        <4>1. /\ status'[x] = status[x] /\ base'[x] = base[x] /\ wrapper'[x] = wrapper[x]
              /\ iface'[x] = NoHandle <=> iface[x] = NoHandle
          BY <1>a, <1>b, <3>2 DEF Keeps
        <4>2. /\ refcnt[x] = 0 => refcnt'[x] = 0
          BY <1>a, <3>2
        <4>3. base[x] \in Obj => /\ status'[base[x]] = status[base[x]]
                                 /\ iface'[base[x]] = NoHandle <=> iface[base[x]] = NoHandle
          BY <1>a, <1>b DEF Keeps
        <4>4. base[x] \in Obj \cup {NoObj}
          BY DEF IInv, TypeOK
        <4>5. /\ status[x] = "unborn" => refcnt[x] = 0 /\ iface[x] = NoHandle /\ wrapper[x] = "none"
              /\ status[x] # "live" => base[x] = NoObj
              /\ status[x] = "live" =>
                   /\ wrapper[x] = "none" <=> iface[x] = NoHandle
                   /\ wrapper[x] = "queued" => refcnt[x] = 0
                   /\ wrapper[x] # "done"
                   /\ base[x] # NoObj => status[base[x]] = "live" /\ iface[base[x]] # NoHandle
          BY DEF IInv, ObjInv
        <4>. QED
          BY <4>1, <4>2, <4>3, <4>4, <4>5
      <3>. QED
        BY <3>1, <3>2
    <2>. QED
      BY <2>1, <2>2 DEF ObjInv
  <1>3. HeldInv'
    <2>1. \A v \in Thread : \A x \in held'[v] : status'[x] = "live" /\ wrapper'[x] = "live"
      BY <1>b DEF IInv, HeldInv, TypeOK
    <2>2. \A v \in Thread : src'[v] # NoObj => src'[v] \in held'[v]
      BY DEF IInv, HeldInv
    <2>. QED
      BY <2>1, <2>2 DEF HeldInv
  <1>4. PrivateInv'
    <2>1. \A v \in Thread : obj'[v] # NoObj => status'[obj'[v]] = "live" /\ \A x \in Obj : base'[x] # obj'[v]
      BY <1>b, <1>c DEF IInv, PrivateInv
    <2>2. \A v, w \in Thread : obj'[v] # NoObj => src'[w] # obj'[v]
      BY <1>c DEF IInv, PrivateInv
    <2>3. \A v, w \in Thread : obj'[v] # NoObj /\ v # w => obj'[w] # obj'[v] /\ obj'[v] \notin held'[w]
      BY <1>c DEF IInv, PrivateInv
    <2>. QED
      BY <2>1, <2>2, <2>3 DEF PrivateInv
  <1>5. CallInv'
    <2>1. ASSUME NEW v \in Thread, obj[v] # o  PROVE  CallInv!(v)'
      <3>1. /\ pc'[v] = pc[v] /\ obj'[v] = obj[v] /\ src'[v] = src[v] /\ data'[v] = data[v] /\ use'[v] = use[v]
            /\ obj[v] # NoObj => /\ wrapper'[obj[v]] = wrapper[obj[v]] /\ base'[obj[v]] = base[obj[v]]
                                 /\ obj[v] \in held'[v] <=> obj[v] \in held[v]
            /\ src[v] # NoObj => base'[src[v]] = base[src[v]]
        BY <1>b, <2>1 DEF IInv, TypeOK
      <3>. QED
        BY <3>1 DEF IInv, CallInv
    <2>2. ASSUME NEW v \in Thread, obj[v] = o  PROVE  CallInv!(v)'
      BY <2>2 DEF CallInv
    <2>. QED
      BY <2>1, <2>2 DEF CallInv
  <1>7. OwnersCounted'
    <2>1. ASSUME NEW x \in Obj, status'[x] = "live"
          PROVE  refcnt'[x] = Cardinality(BaseOwners(x)') + Cardinality(CallOwners(x)') + Cardinality(IterOwners(x)')
      <3>1. CallOwners(x)' = CallOwners(x)
        BY <1>b, <2>1, SentinelAssumption DEF CallOwners
      <3>2. IterOwners(x)' = IterOwners(x)
        <4>1. ASSUME NEW v \in Thread, pc[v] \in {"iread", "ideref", "idecref"}
              PROVE  pc'[v] = pc[v] /\ base'[obj'[v]] = base[obj[v]]
          BY <1>b, <4>1 DEF IInv, TypeOK, CallInv
        <4>2. ASSUME NEW v \in Thread, pc'[v] \in {"iread", "ideref", "idecref"}
              PROVE  pc'[v] = pc[v]
          BY <4>2
        <4>. QED
          BY <4>1, <4>2 DEF IterOwners
      <3>3. refcnt[x] = Cardinality(BaseOwners(x)) + Cardinality(CallOwners(x)) + Cardinality(IterOwners(x)) /\ x # o
        BY <1>b, <2>1 DEF IInv, OwnersCounted
      <3>4. CASE x = base[o]
        <4>1. BaseOwners(x)' = BaseOwners(x) \ {o} /\ o \in BaseOwners(x)
          BY <1>b, <3>4, SentinelAssumption DEF BaseOwners
        <4>2. Cardinality(BaseOwners(x)') = Cardinality(BaseOwners(x)) - 1
          BY <4>1, OneLess, OwnersFinite
        <4>. QED
          BY <1>a, <3>1, <3>2, <3>3, <3>4, <4>2, OwnersFinite
      <3>5. CASE x # base[o]
        <4>1. BaseOwners(x)' = BaseOwners(x)
          BY <1>b, <3>5 DEF BaseOwners
        <4>. QED
          BY <1>a, <3>1, <3>2, <3>3, <3>5, <4>1
      <3>. QED
        BY <3>4, <3>5
    <2>. QED
      BY <2>1 DEF OwnersCounted
  <1>6. DerefIsCurrent'
    <2>1. \A v \in Thread : pc'[v] \in {"deref", "ideref", "bderef"} =>
           /\ pc'[v] = pc[v] /\ data'[v] = data[v] /\ obj'[v] = obj[v] /\ src'[v] = src[v]
           /\ pc[v] = "ideref" => base'[obj[v]] = base[obj[v]]
           /\ pc[v] = "bderef" => base'[src[v]] = base[src[v]]
      BY <1>b DEF IInv, TypeOK, CallInv
    <2>2. \A x \in Obj : status[x] = "live" /\ refcnt[x] > 0 /\ refcnt'[x] > 0 /\ iface[x] # NoHandle =>
           /\ iface'[x] = iface[x]
           /\ hkind'[iface[x]] = hkind[iface[x]]
           /\ htarget'[iface[x]] = htarget[iface[x]]
      BY <1>a, <1>b DEF Keeps
    <2>. QED
      BY <1>1, <1>2, <1>3, <1>4, <1>5, <1>7, <2>1, <2>2, DerefKept
  <1>. QED
    BY <1>1, <1>2, <1>3, <1>4, <1>5, <1>6, <1>7 DEF IInv

\* An operation frees its own object and ends.
LEMMA EndDeadKeeps ==
  ASSUME IInv, NEW t \in Thread, pc[t] \in {"wrap", "read", "dispose"}, End(t, pc[t]), Dealloc(obj[t]),
         refcnt[obj[t]] = 0 \/ iface[obj[t]] = NoHandle,
         held' = [held EXCEPT ![t] = @ \ {obj[t]}] \/ (UNCHANGED held /\ pc[t] # "dispose"),
         UNCHANGED wrapper \/ \E w \in {"live", "done"} : wrapper' = [wrapper EXCEPT ![obj[t]] = w],
         UNCHANGED <<arr, fault>>
  PROVE  IInv'
  <1>. DEFINE o == obj[t]
  <1>1. o \in Obj /\ o # NoObj /\ status[o] = "live"
    BY DEF IInv, TypeOK, CallInv, PrivateInv
  <1>2. \A x \in Obj : base[x] # o
    BY <1>1 DEF IInv, PrivateInv
  <1>3. \A v \in Thread : src[v] # o /\ (v # t => obj[v] # o /\ o \notin held[v])
    BY <1>1 DEF IInv, PrivateInv
  <1>4. \A v \in Thread : held'[v] = held[v] \ {o}
    BY <1>1, <1>3 DEF IInv, CallInv, TypeOK
  <1>5. \A v \in Thread :
          /\ obj[v] # o => /\ pc'[v] = pc[v] /\ obj'[v] = obj[v] /\ src'[v] = src[v]
                           /\ data'[v] = data[v] /\ use'[v] = use[v]
          /\ obj[v] = o => /\ pc[v] \in {"wrap", "read", "dispose"} /\ pc'[v] = "idle"
                           /\ obj'[v] = NoObj /\ src'[v] = NoObj
    BY <1>3 DEF End, Goto, IInv, TypeOK
  <1>6. /\ pc' \in [Thread -> PCs] /\ obj' \in [Thread -> Obj \cup {NoObj}] /\ src' \in [Thread -> Obj \cup {NoObj}]
        /\ data' \in [Thread -> Handle \cup {NoHandle}] /\ use' \in [Thread -> Uses]
    BY DEF End, Goto, IInv, TypeOK, PCs, Uses
  <1>7. /\ \A x \in Obj : x # o => wrapper'[x] = wrapper[x]
        /\ wrapper' \in [Obj -> {"none", "live", "queued", "done"}] /\ held' \in [Thread -> SUBSET Obj]
    BY <1>1 DEF IInv, TypeOK
  <1>. QED
    BY <1>1, <1>2, <1>3, <1>4, <1>5, <1>6, <1>7, DeadKeeps

LEMMA ArrayNewWrapperFailsKeeps == ASSUME IInv, NEW t \in Thread, ArrayNewWrapperFails(t)  PROVE IInv'
  <1>1. pc[t] = "wrap" /\ End(t, pc[t])
    BY DEF ArrayNewWrapperFails, End, Goto
  <1>2. iface[obj[t]] = NoHandle
    BY <1>1 DEF IInv, TypeOK, CallInv, PrivateInv, ObjInv
  <1>. QED
    BY <1>1, <1>2, EndDeadKeeps DEF ArrayNewWrapperFails

\* The temporary's only reference is the operation's own.
LEMMA NativeDropKeeps == ASSUME IInv, NEW t \in Thread, NativeDrop(t)  PROVE IInv'
  <1>1. pc[t] = "read" /\ End(t, pc[t]) /\ obj[t] # NoObj
    BY DEF NativeDrop, End, Goto, IInv, CallInv
  <1>2. refcnt[obj[t]] = 1
    BY <1>1, PrivateCount
  <1>3. CASE iface[obj[t]] = NoHandle
    <2>1. Dealloc(obj[t])
      BY <1>2, <1>3 DEF NativeDrop, Decref
    <2>. QED
      BY <1>1, <1>3, <2>1, EndDeadKeeps DEF NativeDrop
  <1>4. CASE iface[obj[t]] # NoHandle
    <2>1. DecrefWrapped(obj[t], refcnt) /\ UNCHANGED <<status, type, base>>
      BY <1>4 DEF NativeDrop, Decref
    <2>2. wrapper[obj[t]] = "live"
      BY <1>1, <1>4 DEF IInv, TypeOK, CallInv, PrivateInv, ObjInv
    <2>. QED
      BY <1>1, <2>1, <2>2, ReleaseKeeps DEF NativeDrop
  <1>. QED
    BY <1>3, <1>4

LEMMA DisposeKeeps == ASSUME IInv, NEW t \in Thread, Dispose(t)  PROVE IInv'
  <1>1. pc[t] = "dispose" /\ End(t, pc[t]) /\ obj[t] # NoObj
    BY DEF Dispose, End, Goto, IInv, CallInv
  <1>2. refcnt[obj[t]] = 0
    BY <1>1, PrivateCount
  <1>. QED
    BY <1>1, <1>2, EndDeadKeeps DEF Dispose

\* The finalizer comes after every owner is gone.
LEMMA FinalizeKeeps == ASSUME IInv, NEW o \in Obj, Finalize(o)  PROVE IInv'
  <1>1. /\ wrapper[o] = "queued" /\ wrapper' = [wrapper EXCEPT ![o] = "done"]
        /\ UNCHANGED <<arr, held, pc, obj, src, data, use>>
    BY DEF Finalize, callVars
  <1>2. \A v \in Thread : obj[v] # o /\ src[v] # o /\ o \notin held[v]
    <2>1. \A v \in Thread : obj[v] # o
      BY <1>1, SentinelAssumption DEF IInv, TypeOK, PCs, CallInv
    <2>2. \A v \in Thread : src[v] # o /\ o \notin held[v]
      BY <1>1, SentinelAssumption DEF IInv, HeldInv
    <2>. QED
      BY <2>1, <2>2
  <1>3. /\ \A x \in Obj : x # o => wrapper'[x] = wrapper[x]
        /\ wrapper' \in [Obj -> {"none", "live", "queued", "done"}]
    BY <1>1 DEF IInv, TypeOK
  <1>4. CASE status[o] = "live"
    <2>1. refcnt[o] = 0
      BY <1>1, <1>4 DEF IInv, ObjInv
    <2>2. Dealloc(o) /\ UNCHANGED fault
      BY <1>4, <2>1 DEF Finalize
    <2>3. \A x \in Obj : base[x] # o
      <3>1. BaseOwners(o) = {}
        BY <1>4, <2>1, OwnedIsCounted DEF IInv
      <3>. QED
        BY <3>1, SentinelAssumption DEF BaseOwners, IInv, ObjInv
    <2>4. \A v \in Thread : held'[v] = held[v] \ {o}
      BY <1>1, <1>2
    <2>5. /\ held' \in [Thread -> SUBSET Obj] /\ pc' \in [Thread -> PCs] /\ obj' \in [Thread -> Obj \cup {NoObj}]
          /\ src' \in [Thread -> Obj \cup {NoObj}] /\ data' \in [Thread -> Handle \cup {NoHandle}] /\ use' \in [Thread -> Uses]
      BY <1>1 DEF IInv, TypeOK
    <2>6. \A v \in Thread : /\ pc'[v] = pc[v] /\ obj'[v] = obj[v] /\ src'[v] = src[v]
                            /\ data'[v] = data[v] /\ use'[v] = use[v]
      BY <1>1
    <2>. QED
      BY <1>1, <1>2, <1>3, <1>4, <2>1, <2>2, <2>3, <2>4, <2>5, <2>6, DeadKeeps
  <1>5. CASE status[o] # "live"
    <2>1. UNCHANGED <<status, type, refcnt, base, iface, hkind, htarget>> /\ fault' \in SUBSET Obj
      BY <1>5 DEF Finalize, objVars, handleVars, IInv, TypeOK
    <2>2. TypeOK'
      BY <1>1, <1>3, <2>1 DEF IInv, TypeOK
    <2>3. HandleInv' /\ ObjInv'
      BY <1>1, <1>3, <1>5, <2>1 DEF IInv, HandleInv, Handles, ObjInv
    <2>4. HeldInv' /\ PrivateInv'
      BY <1>1, <1>2, <1>3, <2>1 DEF IInv, HeldInv, PrivateInv, TypeOK
    <2>5. CallInv'
      BY <1>1, <1>2, <1>3, <2>1 DEF IInv, CallInv, TypeOK
    <2>6. DerefIsCurrent'
      BY <1>1, <2>1 DEF IInv, DerefIsCurrent
    <2>7. OwnersCounted'
      BY <1>1, <2>1 DEF IInv, OwnersCounted, BaseOwners, CallOwners, IterOwners
    <2>. QED
      BY <2>2, <2>3, <2>4, <2>5, <2>6, <2>7 DEF IInv
  <1>. QED
    BY <1>4, <1>5

\* A wrapper that is not rooted has no strong handle, so no owner is left.
LEMMA CollectKeeps == ASSUME IInv, NEW o \in Obj, Collect(o)  PROVE IInv'
  <1>1. /\ wrapper[o] = "live" /\ wrapper' = [wrapper EXCEPT ![o] = "queued"]
        /\ htarget' = [h \in Handle |-> IF htarget[h] = o THEN NoObj ELSE htarget[h]]
        /\ UNCHANGED <<status, type, refcnt, base, iface, hkind, arr, held, pc, obj, src, data, use, fault>>
    BY DEF Collect, objVars, callVars
  <1>2. /\ \A v \in Thread : o \notin held[v] /\ o # src[v]
        /\ \A h \in Handle : ~ (hkind[h] = "strong" /\ htarget[h] = o)
    BY DEF Collect, Rooted
  <1>3. status[o] = "live" => refcnt[o] = 0
    <2>1. status[o] = "live" => iface[o] \in Handle /\ htarget[iface[o]] = o /\ (refcnt[o] > 0 => hkind[iface[o]] = "strong")
      BY <1>1 DEF IInv, TypeOK, ObjInv, HandleInv, Handles
    <2>2. refcnt[o] \in Nat
      BY DEF IInv, TypeOK
    <2>. QED
      BY <1>2, <2>1, <2>2
  <1>4. \A v \in Thread : obj[v] # o
    <2>1. SUFFICES ASSUME NEW v \in Thread, obj[v] = o  PROVE FALSE
      OBVIOUS
    <2>2. o # NoObj /\ status[o] = "live"
      BY <2>1, SentinelAssumption DEF IInv, PrivateInv
    <2>3. refcnt[o] = (IF pc[v] \in {"attach", "dispose"} THEN 0 ELSE 1)
      BY <2>1, <2>2, PrivateCount
    <2>4. pc[v] \in {"attach", "dispose"} => o \in held[v]
      BY <2>1 DEF IInv, CallInv
    <2>. QED
      BY <1>2, <1>3, <2>2, <2>3, <2>4
  <1>5. /\ \A x \in Obj : x # o => wrapper'[x] = wrapper[x]
        /\ wrapper'[o] = "queued"
        /\ \A h \in Handle : htarget'[h] = (IF htarget[h] = o THEN NoObj ELSE htarget[h])
        /\ \A h \in Handle : hkind[h] = "strong" => htarget'[h] = htarget[h]
    BY <1>1, <1>2 DEF IInv, TypeOK
  <1>6. TypeOK'
    BY <1>1 DEF IInv, TypeOK
  <1>7. HandleInv'
    <2>1. Handles(status, refcnt, wrapper, iface, hkind, htarget) /\ iface \in [Obj -> Handle \cup {NoHandle}]
      BY DEF IInv, HandleInv, TypeOK
    <2>2. ASSUME NEW x \in Obj, status[x] = "live", iface[x] # NoHandle
          PROVE  /\ hkind[iface[x]] = (IF refcnt[x] > 0 THEN "strong" ELSE "weak")
                 /\ htarget'[iface[x]] = (IF wrapper'[x] = "live" THEN x ELSE NoObj)
      <3>1. /\ iface[x] \in Handle
            /\ hkind[iface[x]] = (IF refcnt[x] > 0 THEN "strong" ELSE "weak")
            /\ htarget[iface[x]] = (IF wrapper[x] = "live" THEN x ELSE NoObj)
        BY <2>1, <2>2 DEF Handles
      <3>. QED
        BY <1>1, <1>5, <3>1, SentinelAssumption
    <2>. QED
      BY <1>1, <2>1, <2>2 DEF HandleInv, Handles
  <1>8. ObjInv'
    BY <1>1, <1>3, <1>5 DEF IInv, ObjInv
  <1>9. HeldInv' /\ PrivateInv'
    BY <1>1, <1>2, <1>5 DEF IInv, HeldInv, PrivateInv, TypeOK
  <1>10. CallInv'
    BY <1>1, <1>4, <1>5 DEF IInv, CallInv, TypeOK
  <1>11. DerefIsCurrent'
    <2>1. \A v \in Thread : hkind[data[v]] = "strong" /\ data[v] \in Handle => htarget'[data[v]] = htarget[data[v]]
      BY <1>5
    <2>2. \A v \in Thread : pc[v] = "deref" => iface[obj[v]] \in Handle
      BY DEF IInv, CallInv, PrivateInv, ObjInv, TypeOK
    <2>3. \A v \in Thread : pc[v] = "ideref" => iface[base[obj[v]]] \in Handle
      BY DEF IInv, CallInv, HeldInv, ObjInv, TypeOK
    <2>4. \A v \in Thread : pc[v] = "bderef" => iface[base[src[v]]] \in Handle
      BY DEF IInv, CallInv, HeldInv, ObjInv, TypeOK
    <2>. QED
      BY <1>1, <2>1, <2>2, <2>3, <2>4 DEF IInv, DerefIsCurrent
  <1>12. OwnersCounted'
    BY <1>1 DEF IInv, OwnersCounted, BaseOwners, CallOwners, IterOwners
  <1>. QED
    BY <1>6, <1>7, <1>8, <1>9, <1>10, <1>11, <1>12 DEF IInv

-----------------------------------------------------------------------------
(* The invariant, and what it says.                                        *)

LEMMA InitIInv == ASSUME Init  PROVE IInv
  <1>. USE DEF Init
  <1>1. TypeOK
    BY DEF TypeOK, PCs, Uses
  <1>2. HandleInv /\ ObjInv
    BY DEF HandleInv, Handles, ObjInv
  <1>3. HeldInv /\ PrivateInv /\ DerefIsCurrent /\ OwnersCounted
    BY DEF HeldInv, PrivateInv, DerefIsCurrent, OwnersCounted
  <1>4. CallInv
    BY DEF CallInv
  <1>. QED
    BY <1>1, <1>2, <1>3, <1>4 DEF IInv

LEMMA NextKeeps == ASSUME IInv, [Next]_vars  PROVE IInv'
  <1>1. CASE UNCHANGED vars
    BY <1>1, StutterKeeps
  <1>2. ASSUME NEW t \in Thread, NEW o \in Obj,
               \/ \E s \in Obj \cup {NoObj} : AllocArray(t, o, s)
               \/ \E b \in Obj, u \in Uses : NewView(t, o, b, u)
               \/ \E a \in Obj, u \in Uses : IterNew(t, o, a, u)
        PROVE  IInv'
    BY <1>2, AllocArrayKeeps, NewViewKeeps, IterNewKeeps
  <1>3. ASSUME NEW t \in Thread, NEW o \in Obj,
               GetBase(t, o) \/ Drop(t, o) \/ \E t2 \in Thread : Share(t, t2, o)
        PROVE  IInv'
    BY <1>3, GetBaseKeeps, DropKeeps, ShareKeeps
  <1>4. ASSUME NEW t \in Thread, ThreadStep(t)
        PROVE  IInv'
    <2>1. CASE ArrayNewWrapper(t) \/ ArrayNewWrapperFails(t) \/ SetBase(t) \/ NativeDrop(t)
      BY <2>1, ArrayNewWrapperKeeps, ArrayNewWrapperFailsKeeps, SetBaseKeeps, NativeDropKeeps
    <2>2. CASE ReadInterface(t) \/ DerefInterface(t) \/ ReturnInterface(t) \/ AttachBase(t) \/ Dispose(t)
      BY <2>2, ReadInterfaceKeeps, DerefInterfaceKeeps, ReturnInterfaceKeeps, AttachBaseKeeps, DisposeKeeps
    <2>3. CASE \/ IterArrayIncref(t) \/ IterArrayRead(t) \/ IterArrayDeref(t)
               \/ IterArrayDecref(t) \/ IterNewWrapper(t) \/ GetBaseDeref(t)
      BY <2>3, IterArrayIncrefKeeps, IterArrayReadKeeps, IterArrayDerefKeeps, IterArrayDecrefKeeps,
         IterNewWrapperKeeps, GetBaseDerefKeeps
    <2>. QED
      BY <1>4, <2>1, <2>2, <2>3 DEF ThreadStep
  <1>5. ASSUME NEW o \in Obj, Collect(o) \/ Finalize(o)
        PROVE  IInv'
    BY <1>5, CollectKeeps, FinalizeKeeps
  <1>6. CASE Next
    BY <1>2, <1>3, <1>4, <1>5, <1>6 DEF Next
  <1>. QED
    BY <1>1, <1>6

LEMMA Invariant == Spec => []IInv
  <1>1. Init => IInv
    BY InitIInv
  <1>2. IInv /\ [Next]_vars => IInv'
    BY NextKeeps
  <1>. QED
    BY <1>1, <1>2, PTL DEF Spec

\* Every variable keeps its type: no count goes below zero, and no handle is
\* dereferenced to a target that was cleared.
THEOREM TypeCorrect == Spec => []TypeOK
  <1>1. IInv => TypeOK
    BY DEF IInv
  <1>. QED
    BY <1>1, Invariant, PTL

\* nob_refcnt counts the owners of every live object, for any number of threads
\* and objects and whatever the interleaving with collector and finalizer; and
\* nothing that is held, about to be returned, or a base, was freed.
THEOREM ReferencesExact == Spec => []RefcntExact
  <1>1. IInv => RefcntExact
    BY DEF IInv, TypeOK, HeldInv, PrivateInv, ObjInv, RefcntExact, NothingDangles, HeldIsLive, BaseIsLive
  <1>. QED
    BY <1>1, Invariant, PTL

\* The two callbacks keep nob_interface right: a strong handle to the wrapper
\* exactly while native code owns a reference, and no strong handle leaks.
THEOREM HandlesFollowCounts == Spec => []HandlesExact
  <1>1. IInv => HandlesExact
    BY DEF IInv, HandleInv, Handles, HandlesExact, HandleTracksRefcnt, StrongHandleHasOwner
  <1>. QED
    BY <1>1, Invariant, PTL

\* ToInterface reads nob_interface and dereferences it in two steps, and in
\* between nobody frees or switches the handle that was read.
THEOREM HandleReadIsCurrent == Spec => []DerefIsCurrent
  <1>1. IInv => DerefIsCurrent
    BY DEF IInv
  <1>. QED
    BY <1>1, Invariant, PTL
=============================================================================
