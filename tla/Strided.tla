------------------------------ MODULE Strided -------------------------------
(***************************************************************************)
(* Strided arrays and the iterators that walk them (npy_iterators.h/.c),   *)
(* the copy loops built on those (npy_ctors.c), and the binding of slices  *)
(* (npy_index.c).  Operators only; module FlatIter has the state.          *)
(*                                                                         *)
(* An array is [dims, strides, data].  Addresses and strides count         *)
(* elements, so that elsize is 1.  Axes are numbered from 1.               *)
(***************************************************************************)
EXTENDS Integers, Sequences, FiniteSets, SequencesExt

CONSTANT None    \* a part of a Python slice that is left out

ASSUME NoneAssumption == None \notin Int

\* An array as the iterators see it: lengths, strides and the address of its first element.
IsArray(a) ==
  /\ a.dims \in Seq(Nat) /\ a.strides \in Seq(Int) /\ Len(a.dims) = Len(a.strides)
  /\ a.data \in Int

\* The numbers of a set in their order, and the items of a sequence at them.
Ascending(S) ==
  [j \in 1..Cardinality(S) |-> CHOOSE p \in S : Cardinality({q \in S : q < p}) = j - 1]
Picked(s, S) == [j \in 1..Cardinality(S) |-> s[Ascending(S)[j]]]

Product(s) == FoldLeft(LAMBDA x, y : x * y, 1, s)
Dot(c, s)  == SumFunction([i \in DOMAIN c |-> c[i] * s[i]])

\* How many elements one step along axis i skips in C order.
Below(dims, i) == Product(SubSeq(dims, i + 1, Len(dims)))

Zeros(dims) == [i \in DOMAIN dims |-> 0]

\* The strides agree with C order from the last axis up to the last axis of
\* length 0, if there is one.
IsContiguous(a) ==
  LET empty == {i \in DOMAIN a.dims : a.dims[i] = 0}
  IN  IF Len(a.dims) = 1
        THEN a.dims[1] = 1 \/ a.strides[1] = 1
        ELSE \A i \in DOMAIN a.dims :
               i > Max(empty \cup {0}) => a.strides[i] = Below(a.dims, i)

-----------------------------------------------------------------------------
(* NpyArrayIterObject.                                                     *)

\* The fields that follow from a shape and the strides used to walk it.
Walk(a, dims, strides, contiguous) ==
  [ao |-> a, index |-> 0, size |-> Product(dims), coordinates |-> Zeros(dims),
   dims_m1 |-> [i \in DOMAIN dims |-> dims[i] - 1],
   strides |-> strides,
   backstrides |-> [i \in DOMAIN dims |-> strides[i] * (dims[i] - 1)],
   factors |-> [i \in DOMAIN dims |-> Below(dims, i)],
   dataptr |-> a.data, contiguous |-> contiguous]

IterNew(a) == Walk(a, a.dims, a.strides, IsContiguous(a))

ITER_RESET(it) ==
  [it EXCEPT !.index = 0, !.dataptr = it.ao.data, !.coordinates = Zeros(it.dims_m1)]

\* The axis that ITER_NEXT steps along, 0 for none; the axes after it go back
\* to 0.  With two axes the first one is not compared with its length.
NextAxis(it) ==
  LET inside == {i \in DOMAIN it.dims_m1 : it.coordinates[i] < it.dims_m1[i]}
      first  == IF Len(it.dims_m1) = 2 THEN 1 ELSE 0
  IN  Max(inside \cup {first})

\* Mutant: the axes that wrap around do not take their way back.
OdometerForward(it) ==
  LET k == NextAxis(it)
  IN  [it EXCEPT
        !.coordinates = [i \in DOMAIN @ |-> CASE i < k -> @[i]
                                              [] i = k -> @[i] + 1
                                              [] i > k -> 0],
        !.dataptr = @ + (IF k = 0 THEN 0 ELSE it.strides[k])]

Odometer(it) ==
  LET k == NextAxis(it)
      back == SumFunction([i \in (k + 1)..Len(it.dims_m1) |-> it.backstrides[i]])
  IN  [it EXCEPT
        !.coordinates = [i \in DOMAIN @ |-> CASE i < k -> @[i]
                                              [] i = k -> @[i] + 1
                                              [] i > k -> 0],
        !.dataptr = @ - back + (IF k = 0 THEN 0 ELSE it.strides[k])]

\* Only an iterator with one axis, or not contiguous, keeps its coordinates.
ITER_NEXT(it) ==
  LET next == [it EXCEPT !.index = @ + 1]
  IN  IF Len(it.dims_m1) = 1
        THEN [next EXCEPT !.dataptr = @ + it.strides[1], !.coordinates[1] = @ + 1]
        ELSE IF it.contiguous THEN [next EXCEPT !.dataptr = @ + 1]
                              ELSE Odometer(next)

\* The coordinates that the factors give to the n-th element.
Digits(factors, n) ==
  [i \in DOMAIN factors |->
     IF n = 0 THEN 0 ELSE (IF i = 1 THEN n ELSE n % factors[i - 1]) \div factors[i]]

\* The coordinates stay as they are.
ITER_GOTO1D(it, ind) ==
  LET n == IF ind < 0 THEN ind + it.size ELSE ind
      offset == IF Len(it.dims_m1) = 1 THEN n * it.strides[1]
                ELSE IF it.contiguous THEN n ELSE Dot(Digits(it.factors, n), it.strides)
  IN  [it EXCEPT !.index = n, !.dataptr = it.ao.data + offset]

\* A contiguous iterator gets its coordinates from the index when asked.
IterCoords(it) ==
  IF it.contiguous THEN [it EXCEPT !.coordinates = Digits(it.factors, it.index)]
                   ELSE it

\* The iterator after n steps from its start.
Advanced(it, n) ==
  LET step[k \in 0..n] == IF k = 0 THEN ITER_RESET(it) ELSE ITER_NEXT(step[k - 1])
  IN  step[n]

\* Mutant: the way back of the removed axis is kept.
WithoutAxisBack(it, k) ==
  [it EXCEPT !.contiguous = FALSE,
             !.size = IF @ = 0 THEN 0 ELSE @ \div (it.dims_m1[k] + 1),
             !.dims_m1[k] = 0]

\* Axis k is taken out of the walk.
WithoutAxis(it, k) ==
  [it EXCEPT !.contiguous = FALSE,
             !.size = IF @ = 0 THEN 0 ELSE @ \div (it.dims_m1[k] + 1),
             !.dims_m1[k] = 0, !.backstrides[k] = 0]

-----------------------------------------------------------------------------
(* Broadcasting.                                                           *)

\* The length of axis i of an array seen with nd axes: 1 for an axis that is
\* put in front of its own.
Stretched(a, nd, i) ==
  LET k == i + Len(a.dims) - nd IN IF k > 0 THEN a.dims[k] ELSE 1

MostAxes(arrays) == Max({Len(a.dims) : a \in arrays})

\* The lengths other than 1 along axis i.
Lengths(arrays, i) == {Stretched(a, MostAxes(arrays), i) : a \in arrays} \ {1}

Broadcastable(arrays) ==
  \A i \in 1..MostAxes(arrays) : Cardinality(Lengths(arrays, i)) <= 1

BroadcastDims(arrays) ==
  [i \in 1..MostAxes(arrays) |->
     IF Lengths(arrays, i) = {} THEN 1 ELSE Max(Lengths(arrays, i))]

\* An axis that repeats the array's elements has stride 0.
BroadcastIter(a, dims) ==
  LET own(i)  == i + Len(a.dims) - Len(dims)
      kept(i) == own(i) > 0 /\ Stretched(a, Len(dims), i) = dims[i]
  IN  Walk(a, dims, [i \in DOMAIN dims |-> IF kept(i) THEN a.strides[own(i)] ELSE 0],
           IsContiguous(a) /\ \A i \in DOMAIN dims : kept(i))

MultiIterFromArrays(arrays) ==
  [i \in DOMAIN arrays |-> BroadcastIter(arrays[i], BroadcastDims(ToSet(arrays)))]

-----------------------------------------------------------------------------
(* Slices.  A Python slice is [start, stop, step] with None for a part     *)
(* left out; a bound one has numbers only.                                 *)

\* NpyIndexes.AddIndex: a slice without a stop keeps its None.
AddIndex(s) ==
  LET step == IF s.step = None THEN 1 ELSE s.step
      first == IF step < 0 THEN -1 ELSE 0
  IN  [start |-> IF s.start = None THEN first ELSE s.start, stop |-> s.stop, step |-> step]

\* Mutant: a start beyond either end is not moved back for a negative step.
BindSliceForward(s, dim) ==
  LET wrap(i) == IF i < 0 THEN i + dim ELSE i
      start == CASE wrap(s.start) < 0 -> 0
                 [] wrap(s.start) >= dim -> dim
                 [] OTHER -> wrap(s.start)
      stop  == CASE s.stop = None -> IF s.step > 0 THEN dim ELSE -1
                 [] s.stop # None /\ wrap(s.stop) < 0 -> -1
                 [] OTHER -> Min({wrap(s.stop), dim})
  IN  [start |-> start, stop |-> stop, step |-> s.step]

BindSlice(s, dim) ==
  LET wrap(i) == IF i < 0 THEN i + dim ELSE i
      back  == IF s.step < 0 THEN 1 ELSE 0
      start == CASE wrap(s.start) < 0 -> 0 - back
                 [] wrap(s.start) >= dim -> dim - back
                 [] OTHER -> wrap(s.start)
      stop  == CASE s.stop = None -> IF s.step > 0 THEN dim ELSE -1
                 [] s.stop # None /\ wrap(s.stop) < 0 -> -1
                 [] OTHER -> Min({wrap(s.stop), dim})
  IN  [start |-> start, stop |-> stop, step |-> s.step]

\* How many positions a bound slice selects.
SliceSteps(b) ==
  CASE b.step < 0 /\ b.stop < b.start -> (b.start - b.stop - 1) \div (0 - b.step) + 1
    [] b.step > 0 /\ b.start < b.stop -> (b.stop - b.start - 1) \div b.step + 1
    [] OTHER -> 0

-----------------------------------------------------------------------------
(* Indexing a flat iterator.  An index is one of                           *)
(*   [kind |-> "all"], [kind |-> "intp", at], [kind |-> "slice", slice],   *)
(*   [kind |-> "mask", mask] and [kind |-> "list", list],                  *)
(* its arrays flattened to sequences.                                      *)

Wrapped(it, i) == IF i < 0 THEN i + it.size ELSE i
InBounds(it, i) == Wrapped(it, i) \in 0..(it.size - 1)

\* A mask longer than the walk is refused before anything is done.
Refused(it, ix) == ix.kind = "mask" /\ Len(ix.mask) > it.size

\* A list is refused at its first bad index, with the ones before it done.
Good(it, ix) ==
  IF ix.kind # "list" THEN 0
  ELSE LET bad == {j \in DOMAIN ix.list : ~InBounds(it, ix.list[j])}
       IN  Min(bad \cup {Len(ix.list) + 1}) - 1

IndexFails(it, ix) ==
  \/ Refused(it, ix)
  \/ ix.kind = "intp" /\ ~InBounds(it, ix.at)
  \/ ix.kind = "list" /\ Good(it, ix) < Len(ix.list)

\* The addresses that the loop of an index visits, in its order.
SlicePointers(it, b) ==
  [k \in 1..SliceSteps(b) |-> ITER_GOTO1D(it, b.start + (k - 1) * b.step).dataptr]

MaskPointers(it, mask) ==
  FoldLeftDomain(LAMBDA at, k : IF mask[k] THEN Append(at, Advanced(it, k - 1).dataptr) ELSE at,
                 <<>>, mask)

Pointers(it, ix) ==
  CASE ix.kind = "all"   -> SlicePointers(it, [start |-> 0, stop |-> it.size, step |-> 1])
    [] ix.kind = "intp"  -> <<ITER_GOTO1D(it, Wrapped(it, ix.at)).dataptr>>
    [] ix.kind = "slice" -> SlicePointers(it, BindSlice(AddIndex(ix.slice), it.size))
    [] ix.kind = "mask"  -> MaskPointers(it, ix.mask)
    [] ix.kind = "list"  -> [j \in 1..Good(it, ix) |->
                               ITER_GOTO1D(it, Wrapped(it, ix.list[j])).dataptr]

\* NpyArray_IterSubscript, which returns the elements read.
IterSubscript(m, it, ix) ==
  LET at == Pointers(it, ix) IN [k \in DOMAIN at |-> m[at[k]]]

\* m with the values written one after the other at the given addresses.
Write(m, at, values) ==
  FoldLeftDomain(LAMBDA w, k : [w EXCEPT ![at[k]] = values[k]], m, at)

\* The first n values of the converted value, whose iterator starts again
\* when it is done.
Cycled(value, n) == [k \in 1..n |-> value[((k - 1) % Len(value)) + 1]]

\* NpyArray_IterSubscriptAssign.  A value without elements writes nothing.
IterSubscriptAssign(m, it, ix, value) ==
  IF value = <<>> \/ Refused(it, ix) THEN m
  ELSE LET at == Pointers(it, ix) IN Write(m, at, Cycled(value, Len(at)))

-----------------------------------------------------------------------------
(* Copying one array into another of the same type.                        *)

\* The loop of _strided_byte_copy, from the first element to the last.
StridedCopy(m, dst, outstrides, src, instrides, n) ==
  LET copied[k \in 0..n] ==
        IF k = 0 THEN m
        ELSE [copied[k - 1] EXCEPT ![dst + (k - 1) * outstrides] =
                copied[k - 1][src + (k - 1) * instrides]]
  IN  copied[n]

IsFortranContiguous(a) ==
  LET empty == {i \in DOMAIN a.dims : a.dims[i] = 0}
  IN  IF Len(a.dims) = 1
        THEN a.dims[1] = 1 \/ a.strides[1] = 1
        ELSE \A i \in DOMAIN a.dims :
               (\A j \in empty : i < j) => a.strides[i] = Product(SubSeq(a.dims, 1, i - 1))

\* The axis NpyArray_IterAllButAxis chooses: the smallest positive stride,
\* or the first axis.
SmallestAxis(a) ==
  LET moving == {i \in DOMAIN a.strides : a.strides[i] # 0}
      first  == IF moving = {} THEN 0 ELSE a.strides[Min(moving)]
      lower  == {i \in DOMAIN a.strides \ {1} : 0 < a.strides[i] /\ a.strides[i] < first}
  IN  IF lower = {} THEN 1
      ELSE Min({i \in lower : \A j \in lower : a.strides[i] <= a.strides[j]})

\* For every position of the outer iterators, one strided copy along an axis.
CopyAlong(m, dit, outstrides, sit, instrides, n) ==
  FoldLeft(LAMBDA w, k : StridedCopy(w, Advanced(dit, k - 1).dataptr, outstrides,
                                        Advanced(sit, k - 1).dataptr, instrides, n),
           m, [k \in 1..dit.size |-> k])

\* One element, which every step of the other iterator finds again.
Still(a, size) == BroadcastIter(a, <<size>>)

CopyFrom0d(m, dest, src) ==
  IF Len(dest.dims) < 2 \/ IsContiguous(dest) \/ IsFortranContiguous(dest)
    THEN StridedCopy(m, dest.data, IF Len(dest.dims) = 1 THEN dest.strides[1] ELSE 1,
                     src.data, 0, Product(dest.dims))
    ELSE LET axis == SmallestAxis(dest)
             dit  == WithoutAxis(IterNew(dest), axis)
         IN  CopyAlong(m, dit, dest.strides[axis], Still(src, dit.size), 0, dest.dims[axis])

CopySameShape(m, dest, src) ==
  LET axis == SmallestAxis(dest)
  IN  CopyAlong(m, WithoutAxis(IterNew(dest), axis), dest.strides[axis],
                   WithoutAxis(IterNew(src), axis), src.strides[axis], dest.dims[axis])

\* The axis with the smallest sum of strides, the first of them.
RemoveSmallest(dit, sit) ==
  LET total(i) == dit.strides[i] + sit.strides[i]
  IN  Min({i \in DOMAIN dit.strides : \A j \in DOMAIN dit.strides : total(i) <= total(j)})

\* Fails, with nothing written, unless the broadcast has dest's size.
BroadcastCopy(m, dest, src) ==
  IF ~Broadcastable({dest, src})
     \/ Product(BroadcastDims({dest, src})) # Product(dest.dims) THEN m
  ELSE LET multi == MultiIterFromArrays(<<dest, src>>)
           axis  == RemoveSmallest(multi[1], multi[2])
       IN  CopyAlong(m, WithoutAxis(multi[1], axis), multi[1].strides[axis],
                        WithoutAxis(multi[2], axis), multi[2].strides[axis],
                        multi[1].dims_m1[axis] + 1)

\* _array_copy_into of two aligned, writeable arrays of one type.
CopyInto(m, dest, src) ==
  LET same   == dest.dims = src.dims
      simple == same /\ \/ IsContiguous(src) /\ IsContiguous(dest)
                        \/ IsFortranContiguous(src) /\ IsFortranContiguous(dest)
      n == Product(dest.dims)
  IN  CASE simple -> Write(m, [k \in 1..n |-> dest.data + k - 1],
                              [k \in 1..n |-> m[src.data + k - 1]])
        [] ~simple /\ src.dims = <<>> -> CopyFrom0d(m, dest, src)
        [] ~simple /\ src.dims # <<>> /\ same -> CopySameShape(m, dest, src)
        [] OTHER -> BroadcastCopy(m, dest, src)
=============================================================================
