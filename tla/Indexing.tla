------------------------------ MODULE Indexing ------------------------------
(***************************************************************************)
(* Indexing an array with more than one axis: binding an index to a shape  *)
(* (npy_index.c), views of simple indexes and the map iterator of the      *)
(* others (npy_mapping.c).  Operators only; module Views has the actions.  *)
(* An index is a sequence of parts, as in module Selections.               *)
(*                                                                         *)
(* Axes and parts are numbered from 1.  An argument g stands for what the  *)
(* fields of a map iterator hold that nobody wrote.                        *)
(***************************************************************************)
EXTENDS Strided

\* A new array in C order, and the iterator over it.
InOneBlock(dims) ==
  [dims |-> dims, strides |-> [i \in DOMAIN dims |-> Below(dims, i)], data |-> 0]

\* NpyArray_NonZero: the coordinates of the TRUE items of a mask, by its
\* iterator, which is made to keep them.
WalkedTo(it, ns) ==
  [j \in DOMAIN it.dims_m1 |->
     [kind |-> "list", dims |-> <<Len(ns)>>, items |-> [h \in DOMAIN ns |-> Advanced(it, ns[h]).coordinates[j]]]]
NonZero(p) ==
  WalkedTo([IterNew(InOneBlock(p.dims)) EXCEPT !.contiguous = FALSE],
           Ascending({n \in 0..(Len(p.items) - 1) : p.items[n + 1]}))

\* The number of axes the parts after i are for; an ellipsis counts as one.
CountNonNew(ix, i) ==
  SumFunction([k \in (i + 1)..Len(ix) |->
    CASE ix[k].kind = "newaxis" -> 0
      [] ix[k].kind = "mask"    -> Len(ix[k].dims)
      [] OTHER                  -> 1])

\* A Boolean is put in twice, as an integer and as it was: a case of the
\* switch falls through to the next one.
IndexExpandBool(ix) ==
  FlattenSeq([i \in DOMAIN ix |->
    CASE ix[i].kind = "mask" -> NonZero(ix[i])
      [] ix[i].kind = "bool" -> <<[kind |-> "intp", at |-> ix[i].at], ix[i]>>
      [] OTHER               -> <<ix[i]>>])

-----------------------------------------------------------------------------
(* Binding.  Masks are expanded before an index is bound.                  *)

NewAxes(ix, i) == Cardinality({k \in 1..i : ix[k].kind = "newaxis"})

\* The axis that part i of ix is for when there are already some bound parts.
NextFree(ix, i, bound) == Len(bound) - NewAxes(ix, i - 1) + 1

FullSlices(ix, i, bound, nd) == nd + NewAxes(ix, i - 1) - CountNonNew(ix, i) - Len(bound)
AtAxis(p, dim) == IF p.at < 0 THEN p.at + dim ELSE p.at

Binds(ix, i, bound, dims) ==
  LET axis == NextFree(ix, i, bound)
  IN  CASE ix[i].kind = "ellipsis"          -> FullSlices(ix, i, bound, Len(dims)) >= 0
        [] ix[i].kind = "newaxis"           -> TRUE
        [] ix[i].kind \in {"slice", "list"} -> axis <= Len(dims)
        [] ix[i].kind \in {"intp", "bool"}  ->
             axis <= Len(dims) /\ AtAxis(ix[i], dims[axis]) \in 0..(dims[axis] - 1)

BoundParts(ix, i, bound, dims) ==
  LET axis == NextFree(ix, i, bound)
      slice(b) == [kind |-> "slice", slice |-> b]
  IN  CASE ix[i].kind = "ellipsis" ->
             [k \in 1..FullSlices(ix, i, bound, Len(dims)) |->
                slice([start |-> 0, stop |-> dims[axis + k - 1], step |-> 1])]
        [] ix[i].kind \in {"newaxis", "list"} -> <<ix[i]>>
        [] ix[i].kind = "slice" -> <<slice(BindSlice(AddIndex(ix[i].slice), dims[axis]))>>
        [] ix[i].kind \in {"intp", "bool"} -> <<[kind |-> "intp", at |-> AtAxis(ix[i], dims[axis])]>>

\* NpyArray_IndexBind: whether it succeeds, and the parts.
IndexBind(ix, dims) ==
  FoldLeftDomain(LAMBDA b, i :
      IF b.ok /\ Binds(ix, i, b.parts, dims)
        THEN [b EXCEPT !.parts = @ \o BoundParts(ix, i, b.parts, dims)]
        ELSE [b EXCEPT !.ok = FALSE],
    [ok |-> TRUE, parts |-> <<>>], ix)

\* NpyArray_IndexToDimsEtc of bound parts: an integer or a list takes an axis
\* away, a slice keeps it, and the axes after the last part are kept.
IndexToDimsEtc(a, parts) ==
  LET axis(k) == k - NewAxes(parts, k)
      kept == Ascending({k \in DOMAIN parts : parts[k].kind \in {"slice", "newaxis"}})
      rest == axis(Len(parts)) + 1
      new(k) == parts[k].kind = "newaxis"
  IN  [dims    |-> [j \in DOMAIN kept |-> IF new(kept[j]) THEN 1 ELSE SliceSteps(parts[kept[j]].slice)]
                     \o SubSeq(a.dims, rest, Len(a.dims)),
       strides |-> [j \in DOMAIN kept |-> IF new(kept[j]) THEN 0
                                          ELSE parts[kept[j]].slice.step * a.strides[axis(kept[j])]]
                     \o SubSeq(a.strides, rest, Len(a.dims)),
       data    |-> a.data + SumFunction([k \in DOMAIN parts |->
                     CASE parts[k].kind = "intp"  -> parts[k].at * a.strides[axis(k)]
                       [] parts[k].kind = "slice" -> parts[k].slice.start * a.strides[axis(k)]
                       [] OTHER -> 0])]

-----------------------------------------------------------------------------
(* NpyArrayMapIterObject: an iterator over each list, broadcast together,  *)
(* and one over the subspace that the other parts select.  coordinates of  *)
(* an element are those of the lists' current items and, on the other axes,*)
(* those in bscoord.                                                       *)

\* An integer is an array without axes.
ListsIn(parts) ==
  LET lists == Picked(parts, {k \in DOMAIN parts : parts[k].kind \in {"list", "intp"}})
  IN  [j \in DOMAIN lists |->
         IF lists[j].kind = "list" THEN [dims |-> lists[j].dims, items |-> lists[j].items]
                                   ELSE [dims |-> <<>>, items |-> <<lists[j].at>>]]

\* NpyArray_MapIterNew, which fails unless the lists can be broadcast: None.
MapIterOf(parts, lists, own) ==
  IF ~Broadcastable(ToSet(own)) THEN None
  ELSE [parts |-> parts, items |-> [j \in DOMAIN lists |-> lists[j].items],
        iters |-> MultiIterFromArrays(own), dims |-> BroadcastDims(ToSet(own)),
        iteraxes |-> <<>>, bscoord |-> <<>>, consec |-> TRUE,
        subspace |-> None, index |-> 0, dataptr |-> 0]
MapIterOver(parts, lists) == MapIterOf(parts, lists, [j \in DOMAIN lists |-> InOneBlock(lists[j].dims)])
MapIterFrom(parts)        == MapIterOver(parts, ListsIn(parts))
MapIterNew(ix)            == MapIterFrom(IndexExpandBool(ix))

\* The item of list j that its iterator points at; an empty list has none.
ItemAt(mit, j) ==
  LET at == mit.iters[j].dataptr + 1
  IN  IF at \in DOMAIN mit.items[j] THEN mit.items[j][at] ELSE 0

DimAt(a, axis, g) == IF axis \in DOMAIN a.dims THEN a.dims[axis] ELSE g

\* Every item of the lists is inside of the axis of its list.
ItemsInside(mit, a, g) ==
  \A j \in DOMAIN mit.iters : \A n \in 0..(mit.iters[j].size - 1) :
    LET at  == Advanced(mit.iters[j], n).dataptr + 1
        dim == DimAt(a, mit.iteraxes[j], g)
    IN  mit.items[j][at] \in (0 - dim)..(dim - 1)

\* Where the coordinates start along the axis of a bound part.
StartOf(p) == CASE p.kind = "slice" -> p.slice.start
                [] p.kind = "intp"  -> p.at
                [] OTHER            -> 0

\* mit->consec.
Follow(axes) == \A j \in DOMAIN axes : axes[j] = axes[1] + j - 1

\* The map iterator with the subspace of the bound parts.  Only lists get an
\* axis, although there is an iterator for every integer as well; an axis is
\* the number of the part, new axes included.  The starts of the slices are
\* written first, and then zeros for the axes of the subspace, counted from
\* the number of axes the lists have.
WithAxes(mit, a, parts, view, axes, g) ==
  LET cleared == (Len(mit.dims) + 1)..(Len(mit.dims) + Len(view.dims))
  IN  [mit EXCEPT
        !.iteraxes = axes, !.consec = Follow(axes), !.subspace = IterNew(view),
        !.bscoord = [i \in DOMAIN a.dims |->
                       CASE i \in cleared -> 0
                         [] i \notin cleared /\ i \in DOMAIN parts -> StartOf(parts[i])
                         [] OTHER -> g],
        !.dims = @ \o view.dims]
WithSubspace(mit, a, parts, g) ==
  LET lists == Ascending({k \in DOMAIN parts : parts[k].kind = "list"})
  IN  WithAxes(mit, a, parts, IndexToDimsEtc(a, parts),
               [j \in DOMAIN mit.iters |-> IF j \in DOMAIN lists THEN lists[j] ELSE g], g)

\* The end of NpyArray_MapIterBind: None if an item is outside of its axis.
Checked(mit, a, g) ==
  IF (Product(a.dims) = 0 /\ Product(mit.dims) # 0) \/ ~ItemsInside(mit, a, g) THEN None ELSE mit

BindSubspace(mit, a, bound, g) ==
  IF bound.ok THEN Checked(WithSubspace(mit, a, bound.parts, g), a, g) ELSE None

\* NpyArray_MapIterBind: the bound map iterator, None if it fails.  With as
\* many lists as axes the other parts of the index are not looked at.
MapIterBind(mit, a, g) ==
  CASE Len(a.dims) < Len(mit.iters) -> None
    [] Len(a.dims) = Len(mit.iters) -> Checked([mit EXCEPT !.iteraxes = [j \in DOMAIN mit.iters |-> j]], a, g)
    [] OTHER -> BindSubspace(mit, a, IndexBind(mit.parts, a.dims), g)

\* NpyArray_ITER_GOTO of the array's iterator to the current coordinates.
Goto(mit, a) ==
  LET coord(i) == IF i \in ToSet(mit.iteraxes)
                    THEN ItemAt(mit, Max({j \in DOMAIN mit.iteraxes : mit.iteraxes[j] = i}))
                    ELSE mit.bscoord[i]
      inside(i) == IF coord(i) < 0 THEN coord(i) + a.dims[i] ELSE coord(i)
  IN  a.data + Dot([i \in DOMAIN a.dims |-> inside(i)], a.strides)

\* The data pointer, and the subspace's walk from there.
StartSubspace(mit, a) ==
  LET at == Goto(mit, a)
  IN  [mit EXCEPT !.dataptr = at,
                  !.subspace = IF @ = None THEN None ELSE [ITER_RESET(@) EXCEPT !.dataptr = at]]

MapIterReset(mit, a) ==
  StartSubspace([mit EXCEPT !.index = 0, !.iters = [j \in DOMAIN @ |-> ITER_RESET(@[j])]], a)

\* The lists go on when the subspace, if there is one, was walked.
NextItems(mit, a, inner) ==
  IF mit.subspace # None /\ inner.index < inner.size
    THEN [mit EXCEPT !.subspace = inner, !.dataptr = inner.dataptr]
    ELSE StartSubspace([mit EXCEPT !.iters = [j \in DOMAIN @ |-> ITER_NEXT(@[j])]], a)
MapIterNext(mit, a) ==
  LET next == [mit EXCEPT !.index = @ + 1]
  IN  IF next.index >= Product(mit.dims) THEN next
      ELSE NextItems(next, a, IF mit.subspace = None THEN None ELSE ITER_NEXT(mit.subspace))

\* The addresses a bound map iterator visits.
MapPointers(mit, a) ==
  LET n == Product(mit.dims)
      walk[k \in 1..n] == IF k = 1 THEN MapIterReset(mit, a) ELSE MapIterNext(walk[k - 1], a)
  IN  [k \in 1..n |-> walk[k].dataptr]

-----------------------------------------------------------------------------
(* The axes of the result: those of the lists come first in the walk, and  *)
(* are put in the place of the lists if these follow each other.           *)

MustSwap(mit) == mit.subspace # None /\ mit.consec /\ mit.iteraxes[1] > 1

\* Mutant: the permutation of a get is used for a set as well.
SwapAxesPermutationGet(mit, getmap) ==
  LET n1 == Len(mit.iters[1].dims_m1)
      n2 == mit.iteraxes[1] - 1
  IN  [i \in DOMAIN mit.dims |-> IF i <= n2 THEN n1 + i ELSE IF i <= n1 + n2 THEN i - n2 ELSE i]

\* The permutation of _swap_axes; that of a set is the inverse of that of a get.
SwapAxesPermutation(mit, getmap) ==
  LET n1  == Len(mit.iters[1].dims_m1)
      n2  == mit.iteraxes[1] - 1
      bnd == IF getmap THEN n1 ELSE n2
  IN  [i \in DOMAIN mit.dims |->
         CASE i \in 1..(n1 + n2 - bnd) -> bnd + i
           [] i \in (n1 + n2 - bnd + 1)..(n1 + n2) -> i - (n1 + n2 - bnd)
           [] OTHER -> i]

Permuted(a, axes) ==
  [a EXCEPT !.dims = [k \in DOMAIN axes |-> a.dims[axes[k]]],
            !.strides = [k \in DOMAIN axes |-> a.strides[axes[k]]]]

\* A value, which has no more axes than the result, with as many.  (For one with
\* more, _swap_axes stores in front of its list of lengths.)
AllAxes(value, nd) ==
  LET ones == [k \in 1..(nd - Len(value.dims)) |-> 1] IN InOneBlock(ones \o value.dims)

\* What NpyArray_SetMap broadcasts to the dims of the map iterator.
SetMapSource(mit, value) ==
  IF MustSwap(mit) THEN Permuted(AllAxes(value, Len(mit.dims)), SwapAxesPermutation(mit, FALSE))
                   ELSE InOneBlock(value.dims)

\* NpyArray_BroadcastToShape accepts it.
BroadcastsTo(src, dims) ==
  /\ Len(src.dims) <= Len(dims)
  /\ \A i \in DOMAIN src.dims : src.dims[i] \in {1, dims[i + Len(dims) - Len(src.dims)]}

\* NpyArray_SetMap in the memory m, which is as it was if the value is refused.
MoveItems(m, at, it, value) == Write(m, at, [k \in DOMAIN at |-> value.items[Advanced(it, k - 1).dataptr + 1]])
SetMapFrom(m, mit, a, value, src) ==
  IF BroadcastsTo(src, mit.dims) THEN MoveItems(m, MapPointers(mit, a), BroadcastIter(src, mit.dims), value) ELSE m
SetMap(m, mit, a, value) == SetMapFrom(m, mit, a, value, SetMapSource(mit, value))
=============================================================================
