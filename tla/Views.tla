------------------------------- MODULE Views -------------------------------
(***************************************************************************)
(* The shape, strides and flags of arrays (npy_shape.c, npy_getset.c,      *)
(* npy_flagsobject.c): every operation that gives an array another shape,  *)
(* by a view of the same memory where strides for it exist, by a copy      *)
(* where they do not, or in place; and indexing (npy_mapping.c), which     *)
(* makes views or copies of some of the elements and assigns to them.      *)
(*                                                                         *)
(* An array is [dims, strides, data, block, base, owns, C, F]: the element *)
(* at which its data starts in a block of memory, the number of its base   *)
(* array (0 for none), OWNDATA, and the flags CONTIGUOUS and FORTRAN.      *)
(* Every item has size 1.                                                  *)
(***************************************************************************)
EXTENDS Indexing, Selections

CONSTANTS Starts,        \* the memory and the first view of it: [size, view]
          Shapes,        \* the shapes asked for; -1 is a length to be found
          StridesTried,  \* the strides that are set
          Indexes,       \* the indexes an array with n axes is read with, by n
          AssignIndexes, \* the indexes it is assigned through, by n
          Values,        \* what is assigned to them: [dims, items]
          Garbage,       \* what the strides may hold that nobody wrote
          MaxSteps       \* bound on the operations in a run

ASSUME SizesAssumption   == MaxSteps \in Nat /\ Garbage \subseteq Int
ASSUME StartsAssumption  == \A s \in Starts : s.size \in Nat /\ IsArray(s.view)
ASSUME ShapesAssumption  == Shapes \subseteq Seq(Int)
ASSUME StridesAssumption == StridesTried \subseteq Seq(Int)

\* The parts an index has (module Selections).  A mask without axes is a Boolean.
IsPart(p) ==
  \/ p.kind \in {"ellipsis", "newaxis"}
  \/ p.kind \in {"intp", "bool"} /\ p.at \in Int
  \/ p.kind = "slice" /\ {p.slice.start, p.slice.stop, p.slice.step} \subseteq Int \cup {None} /\ p.slice.step # 0
  \/ p.kind = "list" /\ p.dims \in Seq(Nat) /\ p.items \in Seq(Int)
  \/ p.kind = "mask" /\ p.dims \in Seq(Nat) \ {<<>>} /\ p.items \in Seq(BOOLEAN)

\* Integers among lists stand only where every axis has a part of its own: the
\* code reads axes that nobody wrote for the others (Indexing, WithAxes).
IsIndex(ix, n) ==
  /\ Len(ix) \in Nat /\ ix = [k \in 1..Len(ix) |-> ix[k]] /\ \A k \in 1..Len(ix) : IsPart(ix[k])
  /\ Fancy(ix) /\ (\E k \in DOMAIN ix : ix[k].kind \in {"intp", "bool"}) =>
       Len(ix) = n /\ \A k \in DOMAIN ix : ix[k].kind \in {"intp", "bool", "list"}

ASSUME IndexesAssumption == \A n \in DOMAIN Indexes : \A ix \in Indexes[n] : IsIndex(ix, n)

VARIABLES arrays, memory,
          shown,   \* what each array promises to show: [dims, items], in C order
          steps

vars == <<arrays, memory, shown, steps>>

Size(a) == Product(a.dims)
Nd(a)   == Len(a.dims)
Prefix(dims, k) == Product(SubSeq(dims, 1, k))

\* The coordinates of element n, from 0, in the order o of an array that has
\* elements; and the number of the element at some coordinates.
Weight(dims, o, i) == IF o = "F" THEN Prefix(dims, i - 1) ELSE Below(dims, i)
Weights(dims, o)   == [i \in DOMAIN dims |-> Weight(dims, o, i)]
Coords(dims, o, n) == [i \in DOMAIN dims |-> (n \div Weight(dims, o, i)) % dims[i]]
Number(dims, o, c) == Dot(c, Weights(dims, o))

Address(a, o, n) == a.data + Dot(Coords(a.dims, o, n), a.strides)
Inside(a, at)    == at + 1 \in DOMAIN memory[a.block]
ItemIn(block, at) == IF at + 1 \in DOMAIN block THEN block[at + 1] ELSE None
ListingIn(block, a, o) == [n \in 1..Size(a) |-> ItemIn(block, Address(a, o, n - 1))]
Listing(a, o) == ListingIn(memory[a.block], a, o)

-----------------------------------------------------------------------------
(* Flags and strides.                                                      *)

\* Mutant: an array in both orders keeps both flags.
UpdateFlagsBoth(a) == [a EXCEPT !.C = IsContiguous(a), !.F = IsFortranContiguous(a)]

\* NpyArray_UpdateFlags: of both orders, more than one axis counts as C.
UpdateFlags(a) ==
  [a EXCEPT !.C = IsContiguous(a),
            !.F = IsFortranContiguous(a) /\ ~(IsContiguous(a) /\ Nd(a) > 1)]

OneSegment(a) == Nd(a) = 0 \/ a.C \/ a.F
ISFORTRAN(a)  == a.F /\ Nd(a) > 1

\* NPY_ANYORDER is the order of the array.
Order(a, o) == IF o = "A" THEN IF ISFORTRAN(a) THEN "F" ELSE "C" ELSE o

\* npy_array_fill_strides: an axis of length 0 counts as one of length 1.
Filled(dims, o) == Weights([i \in DOMAIN dims |-> Max({dims[i], 1})], o)

\* A new array of some elements, which is all of the block it is put in.
Allocated(dims, o, block) ==
  [dims |-> dims, strides |-> Filled(dims, o), data |-> 0, block |-> block, base |-> 0,
   owns |-> TRUE, C |-> o = "C" \/ Len(dims) = 1, F |-> o = "F" \/ Len(dims) = 1]

\* A view of array i.
ViewOf(i, dims, strides) ==
  UpdateFlags([arrays[i] EXCEPT !.dims = dims, !.strides = strides, !.base = i, !.owns = FALSE])

-----------------------------------------------------------------------------
(* NpyArray_Newshape.                                                      *)

\* _fix_unknown_dimension.
Known(dims)   == Product(Picked(dims, {i \in DOMAIN dims : dims[i] >= 0}))
Unknown(dims) == {i \in DOMAIN dims : dims[i] < 0}
Fits(dims, size) ==
  \/ Unknown(dims) = {} /\ Known(dims) = size
  \/ Cardinality(Unknown(dims)) = 1 /\ Known(dims) # 0 /\ size % Known(dims) = 0

\* Mutant: the unknown length is left as it was asked for.
FixedNot(dims, size) == dims

Fixed(dims, size) == [i \in DOMAIN dims |-> IF dims[i] < 0 THEN size \div Known(dims) ELSE dims[i]]

LongAxes(dims) == {i \in DOMAIN dims : dims[i] # 1}

\* _check_ones: the shapes differ in axes of length 1 only.  An axis keeps its
\* stride, one of length 1 if there is another at its place; it gets 0 if not.
Others(dims)   == Picked(dims, LongAxes(dims))
Longs(dims, k) == Cardinality({i \in 1..(k - 1) : dims[i] # 1})
PlaceOf(dims, k) ==
  <<dims[k] = 1, Longs(dims, k),
    IF dims[k] = 1 THEN Cardinality({i \in 1..(k - 1) : Longs(dims, i) = Longs(dims, k) /\ dims[i] = 1}) ELSE 0>>
OnesOnly(a, dims) == Others(a.dims) = Others(dims)
OnesStrides(a, dims) ==
  [k \in DOMAIN dims |->
     LET same == {j \in DOMAIN a.dims : PlaceOf(a.dims, j) = PlaceOf(dims, k)}
     IN  IF same = {} THEN 0 ELSE a.strides[CHOOSE j \in same : TRUE]]

\* The strides that are 0 become those of an array without gaps.
Unzeroed(dims, s, o) ==
  LET n == Len(dims)
      up[i \in 1..n]   == IF s[i] # 0 THEN s[i] ELSE IF i = 1 THEN 1 ELSE up[i - 1] * dims[i - 1]
      down[i \in 1..n] == IF s[i] # 0 THEN s[i] ELSE IF i = n THEN 1 ELSE down[i + 1] * dims[i + 1]
  IN  IF o = "F" THEN up ELSE down

\* The old axes without those of length 1, as dims and strides.
Core(a) == [dims |-> Others(a.dims), strides |-> Picked(a.strides, LongAxes(a.dims))]

\* Mutant: all the old axes are in one group.
OldEndsOne(core, dims) == {Len(core.dims)}

\* The groups of old and of new axes with the same elements end where their
\* leading axes have as many elements.
OldEnds(core, dims) ==
  {k \in DOMAIN core.dims : \E j \in DOMAIN dims : Prefix(dims, j) = Prefix(core.dims, k)}
NewEnds(core, dims) ==
  {j \in DOMAIN dims : dims[j] # 1 /\ \E k \in DOMAIN core.dims : Prefix(dims, j) = Prefix(core.dims, k)}

\* The old axes of a group are without gaps between them.
WithoutGaps(core, dims, o) ==
  \A k \in 1..(Len(core.dims) - 1) \ OldEnds(core, dims) :
    IF o = "F" THEN core.strides[k + 1] = core.dims[k] * core.strides[k]
               ELSE core.strides[k] = core.dims[k + 1] * core.strides[k + 1]

\* _attempt_nocopy_reshape: whether it succeeds, and its strides.  Nothing is
\* written for axes of length 1 after the last group.
NoCopy(a, dims, o) == Product(dims) # 0 /\ WithoutGaps(Core(a), dims, o)
NoCopyStrides(a, dims, o, garbage) ==
  LET core == Core(a)
      ends == NewEnds(core, dims)
      old(j) == CHOOSE k \in 0..Len(core.dims) : Prefix(core.dims, k) = Prefix(dims, j)
  IN  [i \in DOMAIN dims |->
         IF \A e \in ends : e < i THEN garbage
         ELSE LET end   == Min({e \in ends : i <= e})
                  start == Max({e \in ends : e < i} \cup {0})
              IN  IF o = "F" THEN core.strides[old(start) + 1] * Product(SubSeq(dims, start + 1, i - 1))
                             ELSE core.strides[old(end)] * Product(SubSeq(dims, i + 1, end))]

\* The elements are not one after the other, or they are in the other order.
MustAttempt(a, o) ==
  \/ ~OneSegment(a)
  \/ Nd(a) > 1 /\ ((a.C /\ o = "F") \/ (a.F /\ o = "C"))

Copies(a, dims, o) ==
  a.dims # dims /\ ~OnesOnly(a, dims) /\ MustAttempt(a, o) /\ ~NoCopy(a, dims, o)

\* The strides of the view when nothing is copied.
ViewStrides(a, dims, o, garbage) ==
  CASE a.dims = dims -> a.strides
    [] a.dims # dims /\ OnesOnly(a, dims) -> Unzeroed(dims, OnesStrides(a, dims), o)
    [] a.dims # dims /\ ~OnesOnly(a, dims) /\ MustAttempt(a, o) -> NoCopyStrides(a, dims, o, garbage)
    [] OTHER -> Filled(dims, o)

\* What an array shows when it is read in the order o, and what one of
\* another shape does that has these items in the order o.
InOrder(s, o) == [n \in DOMAIN s.items |-> s.items[Number(s.dims, "C", Coords(s.dims, o, n - 1)) + 1]]
Laid(dims, items, o) ==
  [dims |-> dims,
   items |-> [n \in 1..Product(dims) |-> items[Number(dims, o, Coords(dims, "C", n - 1)) + 1]]]

Step ==
  /\ steps < MaxSteps
  /\ steps' = steps + 1

\* One new array, that shows s, after those there are.
Add(a, s) == arrays' = Append(arrays, a) /\ shown' = Append(shown, s)

\* A copy of array i in the order o is made, and a view of that one.
Newshape(i, asked, o) ==
  LET a     == arrays[i]
      order == Order(a, o)
      dims  == Fixed(asked, Size(a))
      s     == Laid(dims, InOrder(shown[i], order), order)
  IN  /\ Step
      /\ a.dims = asked \/ OnesOnly(a, asked) \/ Fits(asked, Size(a))
      /\ IF Copies(a, dims, order)
           THEN LET copy == Allocated(a.dims, order, Len(memory) + 1)
                    view == UpdateFlags([copy EXCEPT !.dims = dims, !.strides = Filled(dims, order),
                                           !.base = Len(arrays) + 1, !.owns = FALSE])
                IN  /\ memory' = Append(memory, Listing(a, order))
                    /\ arrays' = arrays \o <<copy, view>>
                    /\ shown' = shown \o <<shown[i], s>>
           ELSE /\ \E g \in Garbage : Add(ViewOf(i, dims, ViewStrides(a, dims, order, g)), s)
                /\ UNCHANGED memory

-----------------------------------------------------------------------------
(* The other operations.                                                   *)

Squeeze(i) ==
  LET core == Core(arrays[i])
  IN  /\ Step
      /\ Nd(arrays[i]) > 0
      /\ Add(ViewOf(i, core.dims, core.strides), [shown[i] EXCEPT !.dims = Others(@)])
      /\ UNCHANGED memory

\* Axis k of the view is axis axes[k] of the array.
Transpose(i, axes) ==
  LET a == arrays[i]
      s == shown[i]
      dims == [k \in DOMAIN axes |-> s.dims[axes[k]]]
      from(c) == [j \in DOMAIN axes |-> c[CHOOSE k \in DOMAIN axes : axes[k] = j]]
  IN  /\ Step
      /\ Add(ViewOf(i, [k \in DOMAIN axes |-> a.dims[axes[k]]], [k \in DOMAIN axes |-> a.strides[axes[k]]]),
             [dims |-> dims,
              items |-> [n \in DOMAIN s.items |->
                           s.items[Number(s.dims, "C", from(Coords(dims, "C", n - 1))) + 1]]])
      /\ UNCHANGED memory

\* One axis or none is the array itself, with no new view.
SwapAxes(i, a1, a2) ==
  /\ a1 # a2
  /\ {a1, a2} \subseteq 1..Nd(arrays[i])
  /\ Transpose(i, [k \in 1..Nd(arrays[i]) |-> CASE k = a1 -> a2 [] k = a2 -> a1 [] OTHER -> k])

Flatten(i, o) ==
  LET order == Order(arrays[i], o)
  IN  /\ Step
      /\ memory' = Append(memory, Listing(arrays[i], order))
      /\ Add(Allocated(<<Size(arrays[i])>>, "C", Len(memory) + 1),
             [dims |-> <<Size(arrays[i])>>, items |-> InOrder(shown[i], order)])

\* A view if the elements are one after the other in that order.
Ravel(i, o) ==
  LET a == arrays[i]
      order == Order(a, o)
  IN  IF (order = "C" /\ a.C) \/ (order = "F" /\ ISFORTRAN(a))
        THEN Newshape(i, <<-1>>, order) ELSE Flatten(i, order)

\* The array gets the shape and the strides of the view that Newshape makes;
\* a copy is refused.
SetShape(i, asked) ==
  LET a    == arrays[i]
      dims == Fixed(asked, Size(a))
  IN  /\ Step
      /\ a.dims = asked \/ OnesOnly(a, asked) \/ Fits(asked, Size(a))
      /\ ~Copies(a, dims, "C")
      /\ \E g \in Garbage :
           arrays' = [arrays EXCEPT ![i] =
                        UpdateFlags([@ EXCEPT !.dims = dims, !.strides = ViewStrides(a, dims, "C", g)])]
      /\ shown' = [shown EXCEPT ![i].dims = dims]
      /\ UNCHANGED memory

\* The array at the end of the bases of array i.
Root(i) ==
  LET root[j \in DOMAIN arrays] == IF arrays[j].base = 0 THEN j ELSE root[arrays[j].base] IN root[i]

\* NpyArray_CheckStrides: no axis leads out of the memory of the root.
CheckStrides(a, root, strides) ==
  LET numbytes == IF Size(root) = 0 THEN Size(a) ELSE Size(root)
      offset   == a.data - root.data
  IN  \A k \in DOMAIN strides :
        strides[k] * (a.dims[k] - 1) \in (0 - offset)..(numbytes - offset - 1)

\* Only for an array that has a base: that of another one is NULL, and is
\* dereferenced.
SetStrides(i, strides) ==
  LET a == arrays[i]
      b == UpdateFlags([a EXCEPT !.strides = strides])
  IN  /\ Step
      /\ Len(strides) = Nd(a) /\ a.base # 0
      /\ CheckStrides(a, arrays[Root(i)], strides)
      /\ arrays' = [arrays EXCEPT ![i] = b]
      /\ shown' = [shown EXCEPT ![i].items = Listing(b, "C")]
      /\ UNCHANGED memory

\* How many elements Resize makes room for: the axes before one of length 0.
NewSize(dims) ==
  Prefix(dims, Min({i - 1 : i \in {k \in DOMAIN dims : dims[k] = 0}} \cup {Len(dims)}))

\* NpyArray_Resize with refcheck 0, of an array without a base of which the
\* caller knows that nothing else uses its memory.  The elements stay in
\* their order in memory; there are zeros after them.
Resize(i, dims) ==
  LET a     == arrays[i]
      order == IF a.F /\ ~a.C THEN "F" ELSE "C"
      old   == InOrder(shown[i], order)
      put(s, n) == [k \in 1..n |-> IF k \in DOMAIN s /\ k <= Size(a) THEN s[k] ELSE 0]
  IN  /\ Step
      /\ OneSegment(a) /\ Len(dims) > 0 /\ Unknown(dims) = {}
      /\ IF Size(a) = NewSize(dims) THEN UNCHANGED memory
         ELSE /\ a.owns /\ a.base = 0
              /\ \A j \in DOMAIN arrays \ {i} : arrays[j].block # a.block
              /\ memory' = [memory EXCEPT ![a.block] = put(@, NewSize(dims))]
      /\ arrays' = [arrays EXCEPT ![i] =
                      [@ EXCEPT !.dims = dims, !.strides = Filled(dims, order),
                                !.C = order = "C" \/ Len(dims) = 1,
                                !.F = order = "F" \/ Len(dims) = 1]]
      /\ shown' = [shown EXCEPT ![i] = Laid(dims, put(old, Product(dims)), order)]

-----------------------------------------------------------------------------
(* Indexing.  NpyArray_Subscript returns the array itself for an index     *)
(* without parts and for a single ellipsis.                                *)

NotItself(ix) == ix \notin {<<>>, <<Ellipsis>>}
IsItem(ix)    == Len(ix) = 1 /\ ix[1].kind = "intp"
IsFlat(a, ix) == Nd(a) = 1 /\ Len(ix) = 1

ShownAt(s, c) ==
  [dims |-> c.dims, items |-> [n \in DOMAIN c.at |-> s.items[Number(s.dims, "C", c.at[n]) + 1]]]

\* What is read through an index; there is no such array for an illegal one.
Promised(s, ix) ==
  IF ~Legal(ix, s.dims) THEN [dims |-> None, items |-> <<>>]
  ELSE ShownAt(s, Chosen(ix, s.dims))

ArrayItem(a, ix) ==
  LET at == AtAxis(ix[1], a.dims[1])
  IN  IF Nd(a) = 0 \/ at \notin 0..(a.dims[1] - 1) THEN None
      ELSE [dims |-> Tail(a.dims), strides |-> Tail(a.strides), data |-> a.data + at * a.strides[1]]

Subscript0d(a, ix) ==
  LET new == [k \in 1..NewAxes(ix, Len(ix)) |-> 1]
  IN  IF \/ \E k \in DOMAIN ix : ix[k].kind \notin {"newaxis", "ellipsis"}
         \/ Cardinality({k \in DOMAIN ix : ix[k].kind = "ellipsis"}) > 1 THEN None
      ELSE [dims |-> new, strides |-> new, data |-> a.data]

IndexSimple(a, ix) ==
  LET bound == IndexBind(ix, a.dims)
  IN  IF bound.ok THEN IndexToDimsEtc(a, bound.parts) ELSE None

\* An index without arrays makes a view.
SubscriptSimple(i, ix) ==
  LET a    == arrays[i]
      view == CASE IsItem(ix) -> ArrayItem(a, ix)
                [] ~IsItem(ix) /\ Nd(a) = 0 -> Subscript0d(a, ix)
                [] OTHER -> IndexSimple(a, ix)
  IN  /\ Step
      /\ NotItself(ix) /\ ~Fancy(ix) /\ view # None
      /\ Add([ViewOf(i, view.dims, view.strides) EXCEPT !.data = view.data], Promised(shown[i], ix))
      /\ UNCHANGED memory

\* The index of a flat iterator that a list or a mask is.
FlatIndex(p) == IF p.kind = "list" THEN [kind |-> "list", list |-> p.items]
                                   ELSE [kind |-> "mask", mask |-> p.items]

\* One list or mask of an array with one axis is an index of its flat iterator.
SubscriptFlat(i, ix) ==
  LET a  == arrays[i]
      it == IterNew(a)
      at == Pointers(it, FlatIndex(ix[1]))
      dims == IF ix[1].kind = "list" THEN ix[1].dims ELSE <<Len(at)>>
  IN  /\ Step
      /\ Fancy(ix) /\ IsFlat(a, ix)
      /\ ix[1].kind = "mask" => Len(ix[1].dims) = 1
      /\ ~IndexFails(it, FlatIndex(ix[1]))
      /\ memory' = Append(memory, [n \in DOMAIN at |-> ItemIn(memory[a.block], at[n])])
      /\ Add(Allocated(dims, "C", Len(memory) + 1), Promised(shown[i], ix))

\* The map iterators for an index that are bound, by what was in them before.
BoundMapIters(a, mit) == IF mit = None THEN {} ELSE {MapIterBind(mit, a, g) : g \in Garbage} \ {None}
MapIters(a, ix) == BoundMapIters(a, MapIterNew(ix))

\* The other indexes with a list or a mask: NpyArray_GetMap makes a copy, and
\* a view of it with the axes where they belong.
SubscriptMap(i, ix) ==
  LET a == arrays[i]
      order == IF ISFORTRAN(a) THEN "F" ELSE "C"
  IN  /\ Step
      /\ Fancy(ix) /\ ~IsFlat(a, ix)
      /\ \E mit \in MapIters(a, ix) :
           LET at   == MapPointers(mit, a)
               walk == [dims |-> mit.dims, items |-> [n \in DOMAIN at |-> ItemIn(memory[a.block], at[n])]]
               copy == Allocated(mit.dims, order, Len(memory) + 1)
               view == UpdateFlags([Permuted(copy, SwapAxesPermutation(mit, TRUE)) EXCEPT
                                      !.base = Len(arrays) + 1, !.owns = FALSE])
           IN  /\ memory' = Append(memory, InOrder(walk, order))
               /\ IF MustSwap(mit) THEN /\ arrays' = arrays \o <<copy, view>>
                                        /\ shown' = shown \o <<walk, Promised(shown[i], ix)>>
                                   ELSE Add(copy, Promised(shown[i], ix))

\* The block of array i with a value after it, addresses from 0.
Addressed(i, value) ==
  LET all == memory[arrays[i].block] \o value.items IN [x \in 0..(Len(all) - 1) |-> all[x + 1]]

\* No element of the array is in the place of another.
Apart(a) == \A n, k \in 0..(Size(a) - 1) : n # k => Address(a, "C", n) # Address(a, "C", k)

\* Where an element of a result takes its item from: the value repeated along
\* axes of length 1 and in front of its own, or from its start again when it
\* is assigned through a flat iterator.
ItemFor(value, dims, flat, n) ==
  IF flat THEN ((n - 1) % Len(value.items)) + 1
  ELSE LET c == CoordsOf(dims, n - 1)
           own == [k \in DOMAIN value.dims |->
                     IF value.dims[k] = 1 THEN 0 ELSE c[k + Len(dims) - Len(value.dims)]]
       IN  Number(value.dims, "C", own) + 1

BlockWith(block, value, at, dims, flat) ==
  LET last(x) == Max({n \in DOMAIN at : at[n] = x})
  IN  IF ~flat /\ ~BroadcastsTo(value, dims) THEN block
      ELSE [x \in DOMAIN block |->
              IF x \in ToSet(at) THEN value.items[ItemFor(value, dims, flat, last(x))] ELSE block[x]]
BlockAt(a, value, c, flat) ==
  BlockWith(memory[a.block], value, [n \in DOMAIN c.at |-> a.data + Dot(c.at[n], a.strides) + 1], c.dims, flat)

\* What is promised of the block of an array: the elements that are selected
\* have got the items, the last one where one is selected twice.
AssignedBlock(a, ix, value) == BlockAt(a, value, Chosen(ix, a.dims), Fancy(ix) /\ IsFlat(a, ix))

\* NpyArray_SubscriptAssign, which moves the value into the array or the view
\* of a simple index and otherwise assigns through a flat or a map iterator.
SubscriptAssign(i, ix, value) ==
  LET a    == arrays[i]
      m    == Addressed(i, value)
      rest == [InOneBlock(value.dims) EXCEPT !.data = Len(memory[a.block])]
      view == CASE ~NotItself(ix) -> a
                [] IsItem(ix)     -> ArrayItem(a, ix)
                [] OTHER          -> IndexSimple(a, ix)
      put(block) == memory' = [memory EXCEPT ![a.block] = [x \in DOMAIN @ |-> block[x - 1]]]
  IN  /\ Step
      /\ Legal(ix, a.dims) /\ Apart(a)
      /\ \/ /\ ~Fancy(ix) /\ view # None
            /\ put(CopyInto(m, view, rest))
         \/ /\ Fancy(ix) /\ IsFlat(a, ix)
            /\ put(IterSubscriptAssign(m, IterNew(a), FlatIndex(ix[1]), value.items))
         \/ /\ Fancy(ix) /\ ~IsFlat(a, ix)
            /\ \E mit \in MapIters(a, ix) : put(SetMap(m, mit, a, value))
      /\ shown' = [k \in DOMAIN arrays |->
                     IF arrays[k].block # a.block THEN shown[k]
                     ELSE [shown[k] EXCEPT !.items = ListingIn(AssignedBlock(a, ix, value), arrays[k], "C")]]
      /\ UNCHANGED arrays

Init ==
  /\ \E s \in Starts :
       LET first == Allocated(<<s.size>>, "C", 1)
       IN  /\ memory = <<[k \in 1..s.size |-> k]>>
           /\ arrays = <<first, UpdateFlags([first EXCEPT !.dims = s.view.dims, !.strides = s.view.strides,
                                               !.data = s.view.data, !.base = 1, !.owns = FALSE])>>
           /\ shown = <<[dims |-> <<s.size>>, items |-> [k \in 1..s.size |-> k]],
                        [dims |-> s.view.dims, items |-> Listing(arrays[2], "C")]>>
  /\ steps = 0

Orders == {"C", "F", "A"}
At(indexes, i) == IF Nd(arrays[i]) \in DOMAIN indexes THEN indexes[Nd(arrays[i])] ELSE {}

Next ==
  \E i \in DOMAIN arrays :
    \/ \E dims \in Shapes, o \in Orders : Newshape(i, dims, o)
    \/ Squeeze(i)
    \/ \E axes \in [1..Nd(arrays[i]) -> 1..Nd(arrays[i])] : IsInjective(axes) /\ Transpose(i, axes)
    \/ \E a1, a2 \in 1..3 : SwapAxes(i, a1, a2)
    \/ \E o \in Orders : Flatten(i, o) \/ Ravel(i, o)
    \/ \E dims \in Shapes : SetShape(i, dims) \/ Resize(i, dims)
    \/ \E strides \in StridesTried : SetStrides(i, strides)
    \/ \E ix \in At(Indexes, i) : SubscriptSimple(i, ix) \/ SubscriptFlat(i, ix) \/ SubscriptMap(i, ix)
    \/ \E ix \in At(AssignIndexes, i), value \in Values : SubscriptAssign(i, ix, value)

Spec == Init /\ [][Next]_vars

-----------------------------------------------------------------------------
(* What arrays promise.                                                    *)

TypeOK ==
  /\ steps \in 0..MaxSteps
  /\ \A i \in DOMAIN arrays :
       /\ arrays[i].base < i
       /\ arrays[i].block \in DOMAIN memory
       /\ Len(arrays[i].strides) = Nd(arrays[i])
       /\ \A k \in 1..Nd(arrays[i]) : arrays[i].dims[k] >= 0

\* No array leads out of its memory.
StaysInside ==
  \A i \in DOMAIN arrays : \A n \in 0..(Size(arrays[i]) - 1) :
    Inside(arrays[i], Address(arrays[i], "C", n))

\* Whatever was done to it and to the arrays whose memory it shares, an array
\* shows the items it promised, in its shape, and leads nowhere else.
ShowsAsPromised ==
  /\ StaysInside
  /\ \A i \in DOMAIN arrays :
       arrays[i].dims = shown[i].dims /\ Listing(arrays[i], "C") = shown[i].items

\* The flags that were stored tell how the elements lie: every loop that
\* takes an array for one segment relies on them.
FlagsTrue ==
  \A i \in DOMAIN arrays :
    LET a == arrays[i]
    IN  /\ a.C => \A n \in 0..(Size(a) - 1) : Address(a, "C", n) = a.data + n
        /\ a.F => \A n \in 0..(Size(a) - 1) : Address(a, "F", n) = a.data + n
        /\ OneSegment(a) <=> OneSegment(UpdateFlags(a))
        /\ Nd(a) > 1 => ~(a.C /\ a.F)
        /\ Nd(a) = 1 => (a.C <=> a.F)

\* There are strides that show a's elements, read in the order o, in the
\* shape dims: one step along an axis always goes equally far.
Viewable(a, dims, o) ==
  LET at == [n \in 0..(Size(a) - 1) |-> Address(a, o, n)]
      stride == [k \in DOMAIN dims |-> IF dims[k] = 1 THEN 0 ELSE at[Weight(dims, o, k)] - at[0]]
  IN  \A n \in DOMAIN at : at[n] = at[0] + Dot(Coords(dims, o, n), stride)

\* A new shape costs a copy only when there is no view of that shape.
CopiesOnlyIfNeeded ==
  \A i \in DOMAIN arrays : \A dims \in Shapes, o \in {"C", "F"} :
    LET a == arrays[i]
    IN  Size(a) # 0 /\ Unknown(dims) = {} /\ Product(dims) = Size(a) /\ Copies(a, dims, o)
          => ~Viewable(a, dims, o)
=============================================================================
