--------------------------- MODULE ItemSelection ----------------------------
(***************************************************************************)
(* npy_item_selection.c: selecting, replacing and sorting the items of     *)
(* arrays that are views of one memory, and the paths on which an output   *)
(* array is used in place, copied, written back or given up.  The lock of  *)
(* an output array and the threads are in UpdateIfCopy.                    *)
(*                                                                         *)
(* A request is [op, on, out, axis, mode, list, values, generic]: the      *)
(* arrays it is about, the output array or None, the axis as Python counts *)
(* or None, an array of indices, mask or counts [dims, items, safe] (safe  *)
(* if its type, or for putmask that of the values, can be cast safely),    *)
(* the values, and whether the type has no sort function of its own.       *)
(***************************************************************************)
EXTENDS Indexing, ItemRules

CONSTANTS Arrays,     \* name -> array, all in one memory
          Start,      \* the memory at the start
          Requests,   \* what the program asks for
          MaxSteps    \* bound on the requests in a run

VARIABLES memory,     \* address -> value
          writeable,  \* NPY_WRITEABLE of each array
          refs,       \* the references to each array
          late,       \* copies that wait to be written back: [base, items]
          leaked,     \* arrays whose copy nobody will write back
          answer,     \* how the last request ended
          steps,
          \* history
          asked,      \* the last request
          promised,   \* the memory as the requests promise it
          expected    \* how the last request should have ended

vars == <<memory, writeable, refs, late, leaked, answer, steps, asked, promised, expected>>

Returned(x) == [ends |-> "returns", dims |-> x.dims, items |-> x.items]
Done    == [ends |-> "returns", dims |-> <<>>, items |-> <<>>]
Raised  == [ends |-> "raises", dims |-> <<>>, items |-> <<>>]
Crashed == [ends |-> "crashes", dims |-> <<>>, items |-> <<>>]

\* How a request ends: its answer, the memory, the arrays that are left locked
\* with a copy to be written back or with none, and those that lose a
\* reference the function does not own.
Ends(how, m)     == [answer |-> how, memory |-> m, late |-> {}, leaked |-> {}, dropped |-> {}]
Fails(m)         == Ends(Raised, m)
Drops(m, out)    == [Fails(m) EXCEPT !.dropped = {out} \ {None}]

-----------------------------------------------------------------------------
(* Copies.                                                                 *)

\* The addresses of the elements of a, as an iterator visits them.
Visited(a) == [k \in 1..Product(a.dims) |-> Advanced(IterNew(a), k - 1).dataptr]

\* A copy in C order, and the copy put back.
Flat(m, a)           == [dims |-> a.dims, items |-> [k \in DOMAIN Visited(a) |-> m[Visited(a)[k]]]]
CopyBack(m, a, items) == Write(m, Visited(a), items)

\* NpyArray_FromArray(..., NPY_CARRAY | NPY_UPDATEIFCOPY) with an array of the
\* same type: whether it makes a copy, and whether it refuses to.
NeedsCopy(a, can, ensure) == ensure \/ ~IsContiguous(a) \/ ~can
Refuses(a, can, ensure)   == NeedsCopy(a, can, ensure) /\ ~can

\* NpyArray_ContiguousFromArray(list, NPY_INTP): an array without axes is cast
\* whatever its type.
CanCast(list) == list.safe \/ list.dims = <<>>

\* NpyArray_CheckAxis of the copy x.
CheckedAxis(x, axis) ==
  LET y == IF (axis = None \/ x.dims = <<>>) /\ Len(x.dims) # 1
             THEN [x EXCEPT !.dims = <<Len(x.items)>>] ELSE x
      k == IF axis = None THEN Len(y.dims) - 1 ELSE IF axis < 0 THEN axis + Len(y.dims) ELSE axis
  IN  [ok |-> k \in 0..(Len(y.dims) - 1), dims |-> y.dims, items |-> y.items, axis |-> k + 1]

\* How many items there are in front of and behind an axis.
Outer(x) == Product(SubSeq(x.dims, 1, x.axis - 1))
Chunk(x) == Below(x.dims, x.axis)

\* The index i of n items.
OutOfRange(i, n) == i + (IF i < 0 THEN n ELSE 0) \notin 0..(n - 1)
Clipped(i, n, mode) ==
  CASE mode = "raise" -> IF i < 0 THEN i + n ELSE i
    [] mode = "wrap"  -> i % n
    [] mode = "clip"  -> IF i < 0 THEN 0 ELSE IF i >= n THEN n - 1 ELSE i
ClippedAll(s, n, mode) == [k \in DOMAIN s |-> Clipped(s[k], n, mode)]

-----------------------------------------------------------------------------
(* take.                                                                   *)

TakeShape(x, list) == SubSeq(x.dims, 1, x.axis - 1) \o list.dims \o SubSeq(x.dims, x.axis + 1, Len(x.dims))

\* Chunk by chunk, for the outer axes and then the indices.
TakeChunks(x, at) ==
  [k \in 1..(Outer(x) * Len(at) * Chunk(x)) |->
     LET t == (k - 1) % Chunk(x)
         j == ((k - 1) \div Chunk(x)) % Len(at)
         i == (k - 1) \div (Chunk(x) * Len(at))
     IN  x.items[(i * x.dims[x.axis] + at[j + 1]) * Chunk(x) + t + 1]]

\* Without anything in front of the axis no index is looked at.
TakeRaises(x, r) ==
  r.mode = "raise" /\ Outer(x) > 0 /\ \E i \in ToSet(r.list.items) : OutOfRange(i, x.dims[x.axis])

\* A copy of the output array is only dropped: its deallocation writes it back.
TakeInto(m, r, a, can, items) ==
  IF NeedsCopy(a, can, r.mode = "raise")
    THEN [Ends(Done, m) EXCEPT !.late = {[base |-> r.out, items |-> items]}]
    ELSE Ends(Done, CopyBack(m, a, items))

\* Mutant: ret still is the caller's array where the function gives up.
TakeOutputKept(m, r, x, a, can) ==
  IF a.dims # TakeShape(x, r.list) THEN Drops(m, r.out)
  ELSE IF Refuses(a, can, r.mode = "raise") \/ TakeRaises(x, r) THEN Fails(m)
  ELSE TakeInto(m, r, a, can, TakeChunks(x, ClippedAll(r.list.items, x.dims[x.axis], r.mode)))

TakeOutput(m, r, x, a, can) ==
  IF a.dims # TakeShape(x, r.list) \/ Refuses(a, can, r.mode = "raise") \/ TakeRaises(x, r) THEN Fails(m)
  ELSE TakeInto(m, r, a, can, TakeChunks(x, ClippedAll(r.list.items, x.dims[x.axis], r.mode)))

TakeNew(m, r, x) ==
  IF TakeRaises(x, r) THEN Fails(m)
  ELSE Ends(Returned([dims |-> TakeShape(x, r.list),
                      items |-> TakeChunks(x, ClippedAll(r.list.items, x.dims[x.axis], r.mode))]), m)

\* NpyArray_TakeFrom.  Indices that cannot be cast end it while ret still is
\* the caller's array.
TakeFrom(m, can, r, x) ==
  IF ~x.ok                 THEN Fails(m)
  ELSE IF ~CanCast(r.list) THEN Drops(m, r.out)
  ELSE IF r.out = None     THEN TakeNew(m, r, x)
  ELSE TakeOutput(m, r, x, Arrays[r.out], can[r.out])

-----------------------------------------------------------------------------
(* put and putmask.  A contiguous array is used in place, whatever its     *)
(* flags; of another one a copy is written back by NpyArray_ForceUpdate.   *)
(* The copy is not looked at: it is NULL if the array may not be written.  *)

\* The indices that are dealt with before one that is out of range.
GoodIndices(r, n) ==
  LET bad == {j \in DOMAIN r.list.items : r.mode = "raise" /\ OutOfRange(r.list.items[j], n)}
  IN  SubSeq(r.list.items, 1, Min(bad \cup {Len(r.list.items) + 1}) - 1)

PutItems(items, r, good) ==
  Write(items, [k \in DOMAIN good |-> Clipped(good[k], Len(items), r.mode) + 1], Cycled(r.values, Len(good)))

\* Mutant: a copy is written back after an error as well.
PutAnyway(m, r, a, items, good) ==
  [Ends(IF Len(good) = Len(r.list.items) THEN Done ELSE Raised, m) EXCEPT
     !.memory = IF r.values = <<>> THEN m ELSE CopyBack(m, a, PutItems(items, r, good))]

\* An error leaves what was stored before it, but not in a copy.
PutChecked(m, r, a, items, good) ==
  IF r.values = <<>> THEN Ends(Done, m)
  ELSE IF Len(good) = Len(r.list.items) THEN Ends(Done, CopyBack(m, a, PutItems(items, r, good)))
  ELSE Fails(IF IsContiguous(a) THEN CopyBack(m, a, PutItems(items, r, good)) ELSE m)

PutTo(m, can, r, a, items) ==
  IF ~IsContiguous(a) /\ ~can[r.on[1]] THEN Ends(Crashed, m)
  ELSE IF ~CanCast(r.list) THEN Fails(m)
  ELSE PutChecked(m, r, a, items, GoodIndices(r, Len(items)))

\* The values go along with the items, TRUE or not.
PutMasked(items, r) ==
  [k \in DOMAIN items |-> IF r.list.items[k] # 0 THEN Cycled(r.values, k)[k] ELSE items[k]]

\* Without values a copy is neither written back nor released.
PutMask(m, can, r, a, items) ==
  IF ~IsContiguous(a) /\ ~can[r.on[1]] THEN Ends(Crashed, m)
  ELSE IF Len(r.list.items) # Len(items) \/ ~r.list.safe THEN Fails(m)
  ELSE IF r.values = <<>> THEN [Ends(Done, m) EXCEPT !.leaked = IF IsContiguous(a) THEN {} ELSE {r.on[1]}]
  ELSE Ends(Done, CopyBack(m, a, PutMasked(items, r)))

-----------------------------------------------------------------------------
(* repeat and choose.                                                      *)

\* The length of counts with two or more axes is not looked at.
RepeatRefused(x, list) ==
  IF list.dims = <<>> THEN list.items[1] * x.dims[x.axis] < 0
  ELSE \/ Len(list.dims) = 1 /\ list.dims[1] # x.dims[x.axis]
       \/ \E j \in 1..x.dims[x.axis] : list.items[j] < 0

RepeatCounts(x, list) ==
  [j \in 1..x.dims[x.axis] |-> IF list.dims = <<>> THEN list.items[1] ELSE list.items[j]]

\* The chunk at each place of the axis as often as it is counted, for all the
\* outer axes.
RepeatChunks(x, counts) ==
  FlattenSeq([i \in 1..(Outer(x) * Len(counts)) |->
    FlattenSeq([k \in 1..counts[((i - 1) % Len(counts)) + 1] |->
      SubSeq(x.items, (i - 1) * Chunk(x) + 1, i * Chunk(x))])])

RepeatNew(x, counts) ==
  Returned([dims |-> [x.dims EXCEPT ![x.axis] = SumFunction(counts)], items |-> RepeatChunks(x, counts)])

\* NpyArray_Repeat.
Repeat(m, r, x) ==
  IF ~CanCast(r.list) \/ ~x.ok THEN Fails(m)
  ELSE IF RepeatRefused(x, r.list) THEN Fails(m)
  ELSE Ends(RepeatNew(x, RepeatCounts(x, r.list)), m)

\* The choices and the indices, one for each step of the multi-iterator.
PickedItems(its, r) ==
  [k \in 1..its[1].size |-> r.list.items[Advanced(its[Len(its)], k - 1).dataptr + 1]]
ChooseRaises(picked, r) ==
  r.mode = "raise" /\ \E i \in ToSet(picked) : i \notin 0..(Len(r.on) - 1)
ChooseItems(m, its, picked, r) ==
  [k \in DOMAIN picked |-> m[Advanced(its[Clipped(picked[k], Len(r.on), r.mode) + 1], k - 1).dataptr]]

\* An output array is put in the place of ret before anything else can fail;
\* its copy is written back.
ChooseOutput(m, its, picked, r, a, can) ==
  IF Refuses(a, can, r.mode = "raise") \/ ChooseRaises(picked, r) THEN Fails(m)
  ELSE Ends(Done, CopyBack(m, a, ChooseItems(m, its, picked, r)))

ChooseFrom(m, can, r, dims, its, picked) ==
  IF r.out = None
    THEN IF ChooseRaises(picked, r) THEN Fails(m)
         ELSE Ends(Returned([dims |-> dims, items |-> ChooseItems(m, its, picked, r)]), m)
    ELSE IF Arrays[r.out].dims # dims THEN Fails(m)
         ELSE ChooseOutput(m, its, picked, r, Arrays[r.out], can[r.out])
ChooseWith(m, can, r, dims, its) == ChooseFrom(m, can, r, dims, its, PickedItems(its, r))

\* NpyArray_Choose.  Indices that cannot be cast, and arrays that cannot be
\* broadcast, end it while ret still is the caller's array.
Choose(m, can, r, arrays) ==
  IF ~CanCast(r.list) \/ ~Broadcastable(ToSet(arrays)) THEN Drops(m, r.out)
  ELSE ChooseWith(m, can, r, BroadcastDims(ToSet(arrays)), MultiIterFromArrays(arrays))

-----------------------------------------------------------------------------
(* Sorting.  The sort functions of a type take a line in one piece: other  *)
(* lines are copied to a buffer and back.                                  *)

LineAt(at, stride, n) == [k \in 1..n |-> at + (k - 1) * stride]
ReadLine(m, at)       == [k \in DOMAIN at |-> m[at[k]]]
Ascend(s)             == SortSeq(s, LAMBDA v, w : v < w)

\* _new_sort: the lines along an axis, which an iterator without it visits.
SortLine(m, at) == Write(m, at, Ascend(ReadLine(m, at)))
SortLines(m, a, it, axis) ==
  FoldLeft(LAMBDA w, k : SortLine(w, LineAt(Advanced(it, k - 1).dataptr, a.strides[axis], a.dims[axis])),
           m, [k \in 1..it.size |-> k])

\* The axis changes places with the last one.
Swapped(a, axis) ==
  LET to == [i \in DOMAIN a.dims |-> CASE i = axis -> Len(a.dims) [] i = Len(a.dims) -> axis [] OTHER -> i]
  IN  Permuted(a, to)

\* The rows of n items, each of which qsort sorts for a type without a sort
\* function.
Rows(items, n) ==
  [k \in 1..(IF n = 0 THEN 0 ELSE Len(items) \div n) |-> SubSeq(items, (k - 1) * n + 1, k * n)]
SortRows(m, a) ==
  LET rows == Rows(Flat(m, a).items, Last(a.dims))
  IN  CopyBack(m, a, FlattenSeq([k \in DOMAIN rows |-> Ascend(rows[k])]))

\* Mutant: the writeable flag is not looked at.
SortAnyway(m, can, r, a, axis) ==
  IF a.dims = <<>> \/ Product(a.dims) = 1 THEN Ends(Done, m)
  ELSE IF axis \notin DOMAIN a.dims THEN Fails(m)
  ELSE IF r.generic THEN Ends(Done, SortRows(m, Swapped(a, axis)))
  ELSE Ends(Done, SortLines(m, a, WithoutAxis(IterNew(a), axis), axis))

\* NpyArray_Sort along an axis, numbered from 1.
SortAlong(m, can, r, a, axis) ==
  IF a.dims = <<>> \/ Product(a.dims) = 1 THEN Ends(Done, m)
  ELSE IF axis \notin DOMAIN a.dims \/ ~can[r.on[1]] THEN Fails(m)
  ELSE IF r.generic THEN Ends(Done, SortRows(m, Swapped(a, axis)))
  ELSE Ends(Done, SortLines(m, a, WithoutAxis(IterNew(a), axis), axis))

\* A merge sort of the indices ind by the values at them; equal ones stay in
\* their order.
Merged(values, ind) ==
  LET to == SortSeq([k \in DOMAIN ind |-> k],
                    LAMBDA j, k : \/ values[ind[j] + 1] < values[ind[k] + 1]
                                  \/ values[ind[j] + 1] = values[ind[k] + 1] /\ j < k)
  IN  [k \in DOMAIN ind |-> ind[to[k]]]

\* Mutant: each key is sorted from the indices as they were at first.
IndicesOfLast(m, keys, its, axis, n, k) ==
  Merged(ReadLine(m, LineAt(Advanced(its[Len(keys)], k - 1).dataptr, keys[Len(keys)].strides[axis], n)),
         [j \in 1..n |-> j - 1])

\* The indices of the k-th line, sorted by one key after the other.
IndicesOf(m, keys, its, axis, n, k) ==
  FoldLeftDomain(LAMBDA ind, j :
      Merged(ReadLine(m, LineAt(Advanced(its[j], k - 1).dataptr, keys[j].strides[axis], n)), ind),
    [j \in 1..n |-> j - 1], keys)

\* The loop of _new_argsort and NpyArray_LexSort, into a new array.
OrderLines(m, keys, its, ret, rit, axis) ==
  FoldLeft(LAMBDA w, k : Write(w, LineAt(Advanced(rit, k - 1).dataptr + 1, ret.strides[axis], ret.dims[axis]),
                               IndicesOf(m, keys, its, axis, ret.dims[axis], k)),
           [n \in 1..Product(ret.dims) |-> 0], [k \in 1..rit.size |-> k])
OrderInto(m, keys, ret, axis) ==
  [dims |-> ret.dims,
   items |-> OrderLines(m, keys, [j \in DOMAIN keys |-> WithoutAxis(IterNew(keys[j]), axis)],
                        ret, WithoutAxis(IterNew(ret), axis), axis)]

\* For a type without a sort function: of a copy with the axes swapped, whose
\* result is swapped back.
IndicesOfRow(row) == Merged(row, [k \in DOMAIN row |-> k - 1])
OrderRows(x, n) ==
  LET rows == Rows(x.items, n) IN FlattenSeq([k \in DOMAIN rows |-> IndicesOfRow(rows[k])])
SwappedBack(x, axis) == Flat([n \in 0..(Len(x.items) - 1) |-> x.items[n + 1]], Swapped(InOneBlock(x.dims), axis))
OrderGeneric(x, axis) ==
  SwappedBack([dims |-> x.dims, items |-> OrderRows(x, Last(x.dims))], axis)

\* An argsort of a ravelled array reads a view or a copy of it.
AsBlock(x) == InOneBlock(x.dims)
Contents(x) == [n \in 0..(Len(x.items) - 1) |-> x.items[n + 1]]

\* NpyArray_ArgSort, by merges: nothing is looked at for a single element.
ArgSort(m, r, a, x) ==
  IF a.dims = <<>> \/ Product(a.dims) = 1
    THEN Ends(Returned([dims |-> a.dims, items |-> <<0>>]), m)
  ELSE IF ~x.ok THEN Fails(m)
  ELSE IF r.generic
    THEN Ends(Returned(OrderGeneric(Flat(Contents(x), Swapped(AsBlock(x), x.axis)), x.axis)), m)
  ELSE IF Len(x.dims) # Len(a.dims)
    THEN Ends(Returned(OrderInto(Contents(x), <<AsBlock(x)>>, AsBlock(x), x.axis)), m)
  ELSE Ends(Returned(OrderInto(m, <<a>>, AsBlock(x), x.axis)), m)

\* The axis that NpyArray_IterAllButAxis takes and gives back.
LexAxis(a, axis) == IF axis < 0 THEN SmallestAxis(a) ELSE axis + 1

\* NpyArray_LexSort, which makes the iterators before it looks at the axis.
LexSortOf(m, keys, axis) ==
  IF keys[1].dims = <<>> \/ Product(keys[1].dims) = 1
    THEN Ends(Returned([dims |-> keys[1].dims, items |-> <<0>>]), m)
  ELSE IF axis \notin DOMAIN keys[1].dims THEN Fails(m)
  ELSE Ends(Returned(OrderInto(m, keys, InOneBlock(keys[1].dims), axis)), m)
LexSort(m, r, keys) ==
  IF \E j \in DOMAIN keys : keys[j].dims # keys[1].dims THEN Fails(m)
  ELSE LexSortOf(m, keys, LexAxis(keys[1], r.axis))

-----------------------------------------------------------------------------
(* searchsorted and nonzero.                                               *)

\* Mutant: the upper half starts with its middle.
BisectStuck(s, key, side) ==
  LET n == Len(s)
      find[lo \in 0..n, hi \in 0..n] ==
        IF lo + 1 >= hi THEN lo
        ELSE LET mid == lo + (hi - lo) \div 2
             IN  IF s[mid + 1] < key \/ (side = "right" /\ s[mid + 1] = key) THEN find[mid, hi] ELSE find[lo, mid]
  IN  find[0, n]

\* local_search_left and local_search_right.
Bisect(s, key, side) ==
  LET n == Len(s)
      find[lo \in 0..n, hi \in 0..n] ==
        IF lo >= hi THEN lo
        ELSE LET mid == lo + (hi - lo) \div 2
             IN  IF s[mid + 1] < key \/ (side = "right" /\ s[mid + 1] = key) THEN find[mid + 1, hi] ELSE find[lo, mid]
  IN  find[0, n]

\* NpyArray_SearchSorted in copies of both arrays, for as many items as the
\* last axis has.
SearchSorted(m, r, x, keys) ==
  LET row == SubSeq(x.items, 1, Last(x.dims))
  IN  Ends(Returned([dims |-> keys.dims, items |-> [k \in DOMAIN keys.items |-> Bisect(row, keys.items[k], r.mode)]]), m)

\* NpyArray_NonZero of an array with axes, by an iterator that is made to keep
\* its coordinates: an array for each of the axes.
NonZeros(m, it) ==
  WalkedTo([it EXCEPT !.contiguous = FALSE],
           SelectSeq([k \in 1..it.size |-> k - 1], LAMBDA n : m[Advanced(it, n).dataptr] # 0))
NonZeroOf(m, a) ==
  Ends(Returned([dims |-> <<Len(a.dims)>>, items |-> [j \in DOMAIN a.dims |-> NonZeros(m, IterNew(a))[j].items]]), m)

-----------------------------------------------------------------------------
(* What the requests promise.  An array is [dims, items] here.             *)

Promised(how, m) == [answer |-> how, memory |-> m]
Refusal          == Promised(Raised, promised)

\* The result, in the output array if there is one.
GivesTo(m, x, out) ==
  IF out = None THEN Promised(Returned(x), m)
  ELSE IF x.dims # Arrays[out].dims \/ ~writeable[out] THEN Refusal
  ELSE Promised(Done, GivenTo(m, Arrays[out], [k \in DOMAIN x.items |-> k - 1], x.items))

TakePromise(r, x) ==
  IF CanCast(r.list) /\ HasAxis(x.dims, r.axis)
     /\ \A i \in ToSet(r.list.items) : Accepted(i, x.dims[Axis(x.dims, r.axis)], r.mode)
    THEN GivesTo(promised,
                 Taken(x, Axis(x.dims, r.axis),
                       [r.list EXCEPT !.items = [k \in DOMAIN @ |-> Position(@[k], x.dims[Axis(x.dims, r.axis)], r.mode)]]),
                 r.out)
    ELSE Refusal

\* a.flat[i] = v for each index and value, which stops at an index out of
\* range; what it stored until then is lost if the array is not contiguous.
PutUpTo(r, a, n) ==
  LET size == Product(a.dims)
  IN  GivenTo(promised, a, [k \in 1..n |-> Position(r.list.items[k], size, r.mode)], r.values)
Acceptable(r, a) ==
  LET bad == {k \in DOMAIN r.list.items : ~Accepted(r.list.items[k], Product(a.dims), r.mode)}
  IN  Min(bad \cup {Len(r.list.items) + 1}) - 1
PutPromise(r, a) ==
  IF ~CanCast(r.list) \/ ~writeable[r.on[1]] THEN Refusal
  ELSE IF r.values = <<>> THEN Promised(Done, promised)
  ELSE IF Acceptable(r, a) = Len(r.list.items) THEN Promised(Done, PutUpTo(r, a, Len(r.list.items)))
  ELSE IF IsContiguous(a) THEN Promised(Raised, PutUpTo(r, a, Acceptable(r, a)))
  ELSE Refusal

\* A value for every item of the array, given to those the mask selects.
MaskPromise(r, a) ==
  LET true == SelectSeq([k \in DOMAIN r.list.items |-> k - 1], LAMBDA n : r.list.items[n + 1] # 0)
  IN  IF Len(r.list.items) # Product(a.dims) \/ ~r.list.safe \/ ~writeable[r.on[1]] THEN Refusal
      ELSE IF r.values = <<>> THEN Promised(Done, promised)
      ELSE Promised(Done, GivenTo(promised, a, true, [k \in DOMAIN true |-> r.values[(true[k] % Len(r.values)) + 1]]))

RepeatPromise(r, x, axis) ==
  LET n == x.dims[axis]
      counts == [j \in 1..n |-> IF r.list.dims = <<>> THEN r.list.items[1] ELSE r.list.items[j]]
  IN  IF r.list.dims # <<>> /\ r.list.dims # <<n>> THEN Refusal
      ELSE IF \E j \in 1..n : counts[j] < 0 THEN Refusal
      ELSE Promised(Returned(Taken(x, axis, Times(counts))), promised)

ChoosePromise(r, choices) ==
  IF CanCast(r.list) /\ Broadcastable(ToSet(choices) \cup {r.list})
     /\ (r.mode = "raise" => \A i \in ToSet(r.list.items) : i \in 0..(Len(choices) - 1))
    THEN GivesTo(promised, ChosenFrom(choices, r.list, r.mode), r.out)
    ELSE Refusal

SortPromise(r, x, a) ==
  IF Len(x.items) = 1 THEN Promised(Done, promised)
  ELSE IF ~HasAxis(x.dims, r.axis) \/ ~writeable[r.on[1]] THEN Refusal
  ELSE Promised(Done, GivenTo(promised, a, [k \in DOMAIN x.items |-> k - 1],
                              SortedAlong(x, Axis(x.dims, r.axis)).items))

OrderPromise(r, keys) ==
  IF Len(keys[1].items) = 1 THEN Promised(Returned([keys[1] EXCEPT !.items = <<0>>]), promised)
  ELSE IF HasAxis(keys[1].dims, r.axis) /\ \A j \in DOMAIN keys : keys[j].dims = keys[1].dims
    THEN Promised(Returned(OrderAlong(keys, Axis(keys[1].dims, r.axis))), promised)
    ELSE Refusal

SearchPromise(r, x, keys) ==
  Promised(Returned([dims |-> keys.dims,
                     items |-> [k \in DOMAIN keys.items |-> InFrontOf(x.items, keys.items[k], r.mode)]]), promised)

NonZeroPromise(x) ==
  Promised(Returned([dims |-> <<Len(x.dims)>>,
                     items |-> [j \in DOMAIN x.dims |->
                       TrueItems([x EXCEPT !.items = [k \in DOMAIN @ |-> @[k] # 0]])[j].items]]), promised)

-----------------------------------------------------------------------------
(* The program.                                                            *)

Addresses(a) == ToSet(Visited(a))
Names(r) == ToSet(r.on) \cup ({r.out} \ {None})

\* The program does not touch the memory of an array that is to be written
\* back; UpdateIfCopy has what happens if it does.
Quiet(r) == \A c \in late, a \in Names(r) : Addresses(Arrays[c.base]) \cap Addresses(Arrays[a]) = {}

\* A request ends as o says, and should have as p says.
Ending(r, o, p) ==
  /\ memory' = o.memory /\ answer' = o.answer
  /\ late' = late \cup o.late /\ leaked' = leaked \cup o.leaked
  /\ writeable' = [a \in DOMAIN Arrays |->
                     writeable[a] /\ a \notin o.leaked /\ \A c \in o.late : c.base # a]
  /\ refs' = [a \in DOMAIN Arrays |->
                refs[a] + (IF a \in o.leaked \/ \E c \in o.late : c.base = a THEN 1 ELSE 0)
                        - (IF a \in o.dropped THEN 1 ELSE 0)]
  /\ promised' = p.memory /\ expected' = p.answer
  /\ asked' = r /\ steps' = steps + 1

Asks(op, r) ==
  /\ r.op = op /\ Quiet(r)
  /\ steps < MaxSteps /\ answer.ends # "crashes"

First(r)  == Arrays[r.on[1]]
FirstIs(r) == Shown(promised, First(r))
AllAre(r) == [j \in DOMAIN r.on |-> Shown(promised, Arrays[r.on[j]])]
Own(r)    == [j \in DOMAIN r.on |-> Arrays[r.on[j]]]

\* An axis without items wraps or clips no index.
DoTake(r) ==
  /\ Asks("take", r)
  /\ Ending(r, TakeFrom(memory, writeable, r, CheckedAxis(Flat(memory, First(r)), r.axis)),
               TakePromise(r, Ravelled(FirstIs(r), r.axis)))
DoPut(r) ==
  /\ Asks("put", r)
  /\ Ending(r, PutTo(memory, writeable, r, First(r), Flat(memory, First(r)).items), PutPromise(r, First(r)))
DoPutMask(r) ==
  /\ Asks("putmask", r)
  /\ Ending(r, PutMask(memory, writeable, r, First(r), Flat(memory, First(r)).items), MaskPromise(r, First(r)))
RepeatPromised(r, x) ==
  IF HasAxis(x.dims, r.axis) /\ CanCast(r.list) THEN RepeatPromise(r, x, Axis(x.dims, r.axis)) ELSE Refusal
DoRepeat(r) ==
  /\ Asks("repeat", r)
  /\ Ending(r, Repeat(memory, r, CheckedAxis(Flat(memory, First(r)), r.axis)),
               RepeatPromised(r, Ravelled(FirstIs(r), r.axis)))
DoChoose(r) ==
  /\ Asks("choose", r)
  /\ Ending(r, Choose(memory, writeable, r, Append(Own(r), InOneBlock(r.list.dims))), ChoosePromise(r, AllAre(r)))
DoSort(r) ==
  /\ Asks("sort", r)
  /\ Ending(r, SortAlong(memory, writeable, r, First(r), r.axis + 1 + (IF r.axis < 0 THEN Len(First(r).dims) ELSE 0)),
               SortPromise(r, FirstIs(r), First(r)))
\* The order in which qsort leaves equal items is not defined.
DoArgSort(r) ==
  /\ Asks("argsort", r)
  /\ r.generic => IsInjective(Flat(memory, First(r)).items)
  /\ Ending(r, ArgSort(memory, r, First(r), CheckedAxis(Flat(memory, First(r)), r.axis)),
               OrderPromise(r, <<IF r.axis = None THEN Ravelled(FirstIs(r), None) ELSE FirstIs(r)>>))
DoLexSort(r) ==
  /\ Asks("lexsort", r)
  /\ Ending(r, LexSort(memory, r, Own(r)), OrderPromise(r, AllAre(r)))
\* A search is promised in sorted lists only.
DoSearch(r) ==
  /\ Asks("searchsorted", r)
  /\ Sorted(Flat(memory, First(r)).items)
  /\ Ending(r, SearchSorted(memory, r, Flat(memory, First(r)), Flat(memory, Own(r)[2])),
               SearchPromise(r, FirstIs(r), AllAre(r)[2]))
DoNonZero(r) ==
  /\ Asks("nonzero", r)
  /\ Ending(r, NonZeroOf(memory, First(r)), NonZeroPromise(FirstIs(r)))

\* setflags(write = FALSE or TRUE); an array with a copy is not touched.
SetWriteable(r) ==
  /\ Asks("setflags", r)
  /\ writeable' = [writeable EXCEPT ![r.on[1]] = r.mode = "write"]
  /\ answer' = Done /\ expected' = Done
  /\ asked' = r /\ steps' = steps + 1
  /\ UNCHANGED <<memory, refs, late, leaked, promised>>

\* NpyArray_dealloc of the copy that take left, on the finalizer thread.
WriteBack(c) ==
  /\ late' = late \ {c}
  /\ memory' = CopyBack(memory, Arrays[c.base], c.items)
  /\ writeable' = [writeable EXCEPT ![c.base] = TRUE]
  /\ refs' = [refs EXCEPT ![c.base] = @ - 1]
  /\ asked' = [asked EXCEPT !.op = "none"]
  /\ UNCHANGED <<leaked, answer, steps, promised, expected>>

Nothing == [op |-> "none", on |-> <<>>, out |-> None]

Init ==
  /\ memory = Start /\ promised = Start
  /\ writeable = [a \in DOMAIN Arrays |-> TRUE]
  /\ refs = [a \in DOMAIN Arrays |-> 1]
  /\ late = {} /\ leaked = {} /\ steps = 0
  /\ answer = Done /\ expected = Done /\ asked = Nothing

Next ==
  \/ \E r \in Requests :
       \/ DoTake(r) \/ DoPut(r) \/ DoPutMask(r) \/ DoRepeat(r) \/ DoChoose(r)
       \/ DoSort(r) \/ DoArgSort(r) \/ DoLexSort(r) \/ DoSearch(r) \/ DoNonZero(r)
       \/ SetWriteable(r)
  \/ \E c \in late : WriteBack(c)

Spec == Init /\ [][Next]_vars

-----------------------------------------------------------------------------
(* Properties.                                                             *)

TypeOK ==
  /\ DOMAIN memory = DOMAIN Start /\ DOMAIN promised = DOMAIN Start
  /\ writeable \in [DOMAIN Arrays -> BOOLEAN]
  /\ refs \in [DOMAIN Arrays -> Nat]
  /\ \A c \in late : c.base \in DOMAIN Arrays /\ ~writeable[c.base]
  /\ leaked \subseteq DOMAIN Arrays
  /\ steps \in 0..MaxSteps

\* Every path out of a function gives back the references it took and no
\* other: an array has the reference of its owner, and one of each copy that
\* was not yet written back or was leaked.
OutputsReferenced ==
  \A a \in DOMAIN Arrays :
    refs[a] = 1 + Cardinality({c \in late : c.base = a}) + (IF a \in leaked THEN 1 ELSE 0)

\* A request returns the items, positions or order that the rules give, or
\* raises where they say so; and as soon as no copy waits for the finalizer,
\* the memory that all the arrays look at is what the requests one after the
\* other make of it: nothing besides the output is written, an error leaves
\* an output array alone ("so the input array is not changed before the error
\* is called", npy_item_selection.c:69), whatever the strides of the arrays; and
\* whatever the outcome, every array is left with the references it had.
SelectsAsPromised ==
  /\ answer = expected
  /\ late = {} => memory = promised
  /\ OutputsReferenced

\* "Setting this to False locks the data, making it read-only"
\* (add_newdocs.py:1762): a request changes nothing by way of an array that
\* is not writeable.
Target(r) == IF r.out # None THEN {r.out} ELSE IF r.op \in {"put", "putmask", "sort"} THEN {r.on[1]} ELSE {}
ReadOnlyKept ==
  [][\A a \in Target(asked') : asked'.op # "none" /\ ~writeable[a] => memory' = memory]_vars
=============================================================================
