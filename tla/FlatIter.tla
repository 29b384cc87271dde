------------------------------ MODULE FlatIter ------------------------------
(***************************************************************************)
(* The iterator objects a Python program holds: x.flat (flatiter.cs) and   *)
(* broadcast(x, y) (broadcast.cs) with the flat iterators of its "iters".  *)
(* A session has one iterator, the flat one, or one for each array of the  *)
(* broadcast.  The arrays share one memory; between two steps the program  *)
(* may also copy one array into another.                                   *)
(***************************************************************************)
EXTENDS Selections

CONSTANTS MemSize,      \* addresses are 0..MemSize - 1
          FlatArrays,   \* the arrays whose flat iterator is opened
          Pairs,        \* the pairs of arrays that are broadcast
          Copies,       \* <<dest, src>> that are copied
          Indexes,      \* the indexes of a flat iterator
          Positions,    \* the positions of a single assignment
          Values,       \* the sequences of values assigned
          MaxWrites,    \* bound: operations that write to memory
          MaxParted     \* bound: uses of a broadcast's iterator by itself

\* A broadcast object is only made of arrays that can be broadcast.
ASSUME ArraysAssumption ==
  /\ \A a \in FlatArrays : IsArray(a)
  /\ \A p \in Pairs : /\ p = <<p[1], p[2]>> /\ IsArray(p[1]) /\ IsArray(p[2])
                      /\ Broadcastable(ToSet(p))

\* A slice with step 0 is nobody's index: NpyArray_SliceSteps divides by it.
IsIndex(ix) ==
  \/ ix.kind = "all"
  \/ ix.kind = "intp" /\ ix.at \in Int
  \/ ix.kind = "slice" /\ {ix.slice.start, ix.slice.stop, ix.slice.step} \subseteq Int \cup {None}
                        /\ ix.slice.step # 0
  \/ ix.kind = "mask" /\ ix.mask \in Seq(BOOLEAN)
  \/ ix.kind = "list" /\ ix.list \in Seq(Int)

ASSUME IndexesAssumption == \A ix \in Indexes : IsIndex(ix)

VARIABLES mem,      \* address -> value
          iters,    \* the iterators of the session
          current,  \* what flatiter.current holds: an address, or None
          index,    \* the index of the broadcast object
          \* history, read by no action except for the bound
          jumped,   \* the iterators assigned through since their last reset
          parted,   \* uses of one iterator of the broadcast, since its last reset
          since,    \* the index the broadcast object started from
          writes    \* operations that wrote to memory so far

vars == <<mem, iters, current, index, jumped, parted, since, writes>>

Sessions == DOMAIN iters
Broadcast == Len(iters) > 1

Init ==
  /\ mem = [x \in 0..(MemSize - 1) |-> x]
  /\ iters \in {<<IterNew(a)>> : a \in FlatArrays} \cup {MultiIterFromArrays(p) : p \in Pairs}
  /\ current = [k \in DOMAIN iters |-> None]
  /\ index = 0 /\ since = 0
  /\ jumped = {} /\ parted = 0 /\ writes = 0

-----------------------------------------------------------------------------
(* One flat iterator.                                                      *)

Unfinished(it) == it.index < it.size

\* Some iterator of broadcast.iters is used by itself.
Part == IF Broadcast THEN parted < MaxParted /\ parted' = parted + 1 ELSE UNCHANGED parted

\* Mutant: the iterator moves on past its last element.
IterNextPast(it) == ITER_NEXT(it)

\* NpyArrayAccess_IterNext, which returns NULL when there is no element left.
IterNext(it) == IF Unfinished(it) THEN ITER_NEXT(it) ELSE it
Fetched(it)  == IF Unfinished(it) THEN it.dataptr ELSE None

MoveNext(k) ==
  /\ iters' = [iters EXCEPT ![k] = IterNext(@)]
  /\ current' = [current EXCEPT ![k] = Fetched(iters[k])]
  /\ Part
  /\ UNCHANGED <<mem, index, jumped, since, writes>>

Reset(k) ==
  /\ iters' = [iters EXCEPT ![k] = ITER_RESET(@)]
  /\ current' = [current EXCEPT ![k] = None]
  /\ jumped' = jumped \ {k}
  /\ Part
  /\ UNCHANGED <<mem, index, since, writes>>

\* flatiter.coords.
Coords(k) ==
  /\ iters' = [iters EXCEPT ![k] = IterCoords(@)]
  /\ UNCHANGED <<mem, current, index, jumped, parted, since, writes>>

\* flatiter.SingleAssign through IterGoto1D, which leaves the iterator there.
SingleAssign(k, i, v) ==
  LET it == ITER_GOTO1D(ITER_RESET(iters[k]), Wrapped(iters[k], i))
  IN  /\ InBounds(iters[k], i)
      /\ writes < MaxWrites
      /\ iters' = [iters EXCEPT ![k] = it]
      /\ mem' = [mem EXCEPT ![it.dataptr] = v]
      /\ jumped' = jumped \cup {k}
      /\ Part
      /\ writes' = writes + 1
      /\ UNCHANGED <<current, index, since>>

\* The flatiter[...] getter.  It resets the iterator, unless the index is
\* refused before the loop.
Subscript(k, ix) ==
  /\ ~Refused(iters[k], ix)
  /\ ix.kind = "intp" => InBounds(iters[k], ix.at)
  /\ ix.kind # "all"
  /\ iters' = [iters EXCEPT ![k] = ITER_RESET(@)]
  /\ jumped' = jumped \ {k}
  /\ Part
  /\ UNCHANGED <<mem, current, index, since, writes>>

\* The flatiter[...] setter, for all indexes but a single one.
SubscriptAssign(k, ix, value) ==
  /\ ix.kind # "intp" /\ ~Refused(iters[k], ix) /\ value # <<>>
  /\ writes < MaxWrites
  /\ mem' = IterSubscriptAssign(mem, iters[k], ix, value)
  /\ iters' = [iters EXCEPT ![k] = ITER_RESET(@)]
  /\ jumped' = jumped \ {k}
  /\ Part
  /\ writes' = writes + 1
  /\ UNCHANGED <<current, index, since>>

-----------------------------------------------------------------------------
(* The broadcast object, and copies.                                       *)

\* The index goes on past the end; the bound stops it one step after it.
BroadcastMoveNext ==
  /\ Broadcast
  /\ index - since <= iters[1].size
  /\ index' = index + 1
  /\ iters' = [k \in DOMAIN iters |-> IterNext(iters[k])]
  /\ current' = [k \in DOMAIN iters |-> Fetched(iters[k])]
  /\ UNCHANGED <<mem, jumped, parted, since, writes>>

BroadcastReset ==
  /\ Broadcast
  /\ index' = -1 /\ since' = -1
  /\ iters' = [k \in DOMAIN iters |-> ITER_RESET(iters[k])]
  /\ current' = [k \in DOMAIN iters |-> None]
  /\ jumped' = {} /\ parted' = 0
  /\ UNCHANGED <<mem, writes>>

MoveInto(dest, src) ==
  /\ writes < MaxWrites
  /\ mem' = CopyInto(mem, dest, src)
  /\ writes' = writes + 1
  /\ UNCHANGED <<iters, current, index, jumped, parted, since>>

Next ==
  \/ \E k \in Sessions : MoveNext(k) \/ Reset(k) \/ Coords(k)
  \/ \E k \in Sessions, i \in Positions, v \in {100} : SingleAssign(k, i, v)
  \/ \E k \in Sessions, ix \in Indexes : Subscript(k, ix)
  \/ \E k \in Sessions, ix \in Indexes, value \in Values : SubscriptAssign(k, ix, value)
  \/ BroadcastMoveNext \/ BroadcastReset
  \/ \E p \in Copies : MoveInto(p[1], p[2])

Spec == Init /\ [][Next]_vars

-----------------------------------------------------------------------------
(* What is promised: elements are numbered in C order of their             *)
(* coordinates.  None of this is how the code finds them.                  *)

Shape(it) == [i \in DOMAIN it.dims_m1 |-> it.dims_m1[i] + 1]

AllCoords(dims) ==
  {c \in [DOMAIN dims -> 0..Max(ToSet(dims) \cup {0})] : \A i \in DOMAIN dims : c[i] < dims[i]}

\* Lexicographic order: the last index varies the fastest.
Before(c, d) == \E i \in DOMAIN c : c[i] < d[i] /\ \A j \in 1..(i - 1) : c[j] = d[j]

CoordsAt(dims, n) ==
  CHOOSE c \in AllCoords(dims) : Cardinality({d \in AllCoords(dims) : Before(d, c)}) = n

\* The element of array a at coordinates c of a shape a is broadcast to.
AddressOf(a, c) ==
  LET own(i) == i + Len(c) - Len(a.dims)
  IN  a.data + Dot([i \in DOMAIN a.dims |-> IF a.dims[i] = 1 THEN 0 ELSE c[own(i)]], a.strides)

AddressAt(it, n) == AddressOf(it.ao, CoordsAt(Shape(it), n))

\* Where the elements of an array are.
Footprint(a) == {AddressOf(a, c) : c \in AllCoords(a.dims)}

\* Every element of dest has an address of its own, and none of src has it too.
Apart(dest, src) ==
  /\ \A c, d \in AllCoords(dest.dims) : AddressOf(dest, c) = AddressOf(dest, d) => c = d
  /\ Footprint(dest) \cap Footprint(src) = {}

ASSUME CopiesAssumption ==
  \A p \in Copies : IsArray(p[1]) /\ IsArray(p[2]) /\ Apart(p[1], p[2])

\* The arrays are in the memory.
ASSUME MemoryAssumption ==
  /\ \A a \in FlatArrays : Footprint(a) \subseteq 0..(MemSize - 1)
  /\ \A p \in Pairs \cup Copies : Footprint(p[1]) \cup Footprint(p[2]) \subseteq 0..(MemSize - 1)

ASSUME BoundsAssumption == MemSize \in Nat /\ MaxWrites \in Nat /\ MaxParted \in Nat

\* The positions an index of a flat iterator selects among n elements.
Selected(ix, n) ==
  CASE ix.kind = "all"   -> [j \in 1..n |-> j - 1]
    [] ix.kind = "intp"  -> <<IF ix.at < 0 THEN ix.at + n ELSE ix.at>>
    [] ix.kind = "slice" -> SlicePositions(ix.slice, n)
    [] ix.kind = "mask"  -> Ascending({p \in 0..(n - 1) : p < Len(ix.mask) /\ ix.mask[p + 1]})
    [] ix.kind = "list"  -> [j \in DOMAIN ix.list |->
                               IF ix.list[j] < 0 THEN ix.list[j] + n ELSE ix.list[j]]

\* m with the values given to the selected elements, the last one winning
\* where an element is selected, or an address reached, more than once.
Assigned(m, it, ix, value) ==
  LET chosen == Selected(ix, it.size)
      at == [j \in DOMAIN chosen |-> AddressAt(it, chosen[j])]
      last(x) == Max({j \in DOMAIN at : at[j] = x})
  IN  [x \in DOMAIN m |->
         IF x \in ToSet(at) THEN value[((last(x) - 1) % Len(value)) + 1] ELSE m[x]]

Fits(dest, src) ==
  LET nd == Max({Len(dest.dims), Len(src.dims)})
  IN  \A i \in 1..nd : Stretched(src, nd, i) \in {1, Stretched(dest, nd, i)}

\* m with every element of dest given the element of src it is broadcast to.
Copied(m, dest, src) ==
  IF ~Fits(dest, src) THEN m
  ELSE [x \in DOMAIN m |->
          LET here == {c \in AllCoords(dest.dims) : AddressOf(dest, c) = x}
          IN  IF here = {} THEN m[x] ELSE m[AddressOf(src, CHOOSE c \in here : TRUE)]]

-----------------------------------------------------------------------------
(* Properties.                                                             *)

\* Every variable keeps its kind, and no index passes its iterator's size.  What
\* "current" holds need not be in the memory: a misplaced iterator can leave its
\* array, and an index of it later resets the iterator but not "current".
TypeOK ==
  /\ DOMAIN mem = 0..(MemSize - 1)
  /\ \A k \in Sessions : /\ iters[k].index \in 0..iters[k].size
                         /\ current[k] \in Int \cup {None}
  /\ index \in -1..(iters[1].size + 1)
  /\ jumped \subseteq Sessions
  /\ writes \in 0..MaxWrites /\ parted \in 0..MaxParted

\* A single assignment moved the iterator and left its coordinates behind.
Misplaced(k) == k \in jumped /\ ~iters[k].contiguous

\* The pointer of an iterator that is not done is the address of the element
\* with its index, however it got there (by next(), by an index, a reset, or a
\* single assignment), for contiguous, transposed, reversed, 0-d, empty and
\* broadcast arrays: the incremental pointer of NpyArray_ITER_NEXT and the
\* computed one of NpyArray_ITER_GOTO1D agree.  Excepted is an iterator over
\* two axes or more that a single assignment moved (see PointerNeverLost).
PointerAtIndex ==
  \A k \in Sessions :
    Unfinished(iters[k]) /\ ~(Misplaced(k) /\ Len(iters[k].dims_m1) > 1)
      => iters[k].dataptr = AddressAt(iters[k], iters[k].index)

\* flatiter.coords are the coordinates of the element with the iterator's
\* index, whether the iterator keeps them (NpyArray_ITER_NEXT) or computes
\* them when asked (NpyArrayAccess_IterCoords).
CoordsAtIndex ==
  \A k \in Sessions :
    Unfinished(iters[k]) /\ ~Misplaced(k)
      => IterCoords(iters[k]).coordinates = CoordsAt(Shape(iters[k]), iters[k].index)

\* Index, pointer and coordinates of an iterator agree after every move.
WalkAsPromised == PointerAtIndex /\ CoordsAtIndex

\* What follows is asked of the memory as it was at the start, whose values tell
\* every address from every other; the iterators may stand anywhere.
Untouched == writes = 0

\* Reading fl[index] returns the elements that the index selects, in its
\* order, wherever the iterator stood when it was asked: slices with negative,
\* missing and out of range parts, masks, lists and single positions.
SubscriptAsPromised ==
  Untouched => \A k \in Sessions, ix \in Indexes :
    ~IndexFails(iters[k], ix) =>
      LET chosen == Selected(ix, iters[k].size)
      IN  IterSubscript(mem, iters[k], ix) =
            [j \in DOMAIN chosen |-> mem[AddressAt(iters[k], chosen[j])]]

\* Assigning to fl[index] gives the selected elements the values, again from
\* the first when there are too few, and changes nothing else in memory.
AssignAsPromised ==
  Untouched => \A k \in Sessions, ix \in Indexes, value \in Values :
    ~IndexFails(iters[k], ix) /\ value # <<>> =>
      IterSubscriptAssign(mem, iters[k], ix, value) = Assigned(mem, iters[k], ix, value)

\* Reading and assigning through an index select the same elements.
IndexAsPromised == SubscriptAsPromised /\ AssignAsPromised

\* Copying src into dest, which share no element, gives every element of dest
\* the element of src that broadcasting puts against it and changes nothing
\* else; shapes that do not fit leave the memory alone.  The block copy, the
\* 0-d, the same-shape and the broadcast loops of npy_ctors.c agree on this.
CopyAsPromised ==
  Untouched => \A p \in Copies : CopyInto(mem, p[1], p[2]) = Copied(mem, p[1], p[2])

\* Advancing the broadcast object n times leaves all its iterators at element
\* n - 1 of the broadcast shape, all of them finished together after the last,
\* as long as none was moved by itself through broadcast.iters.
BroadcastInStep ==
  Broadcast /\ parted = 0 =>
    LET n == index - since
    IN  \A k \in Sessions :
          /\ iters[k].index = Min({n, iters[k].size})
          /\ current[k] = IF n \in 1..iters[k].size THEN AddressAt(iters[k], n - 1) ELSE None

\* Broadcasting, in the loop of a copy and in a broadcast object, puts every
\* element of one array against the element of the other that the rules give.
BroadcastAsPromised == CopyAsPromised /\ BroadcastInStep

\* add_newdocs.py:27-28 says that iteration "is done in C-contiguous style,
\* with the last index varying the fastest".  A single assignment breaks it:
\* flatiter.SingleAssign leaves the iterator with an index and a pointer whose
\* coordinates are still 0, and ITER_NEXT wraps around at the wrong element.
PointerNeverLost ==
  \A k \in Sessions :
    Unfinished(iters[k]) => iters[k].dataptr = AddressAt(iters[k], iters[k].index)
=============================================================================
