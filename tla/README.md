# Verification of the numpy-refactor ndarray core

This directory holds TLA+ models of numpy-refactor: the language-independent C
core in `libndarray/src`, and the managed interface `numpy/NumpyDotNet` that
puts IronPython arrays on top of it.  TLC checks the models on small instances;
TLAPS proves the central theorems for every value of the constants.  Every
definition is translated from the code; `PROJECT.json` maps it to its lines.

## The system

    IronPython code
       |  ndarray, dtype, flatiter, ufunc wrappers (C#)      NumpyDotNet/*.cs
       |     one GCHandle per core object, garbage collector, finalizer thread
       |  native shims                                        NpyAccessLib/*.cpp
       v
    libndarray: reference counts, arrays, views, iterators,  libndarray/src/*.c
       dictionary, descriptors, indexing, ufunc loops
       ^
       |  the other client: CPython types and ufuncs          numpy/core/src

| Component | State | Operations | Hard behaviour |
|---|---|---|---|
| Object model and wrapper lifetime | `nob_refcnt`, `nob_interface`, `base_arr`, the GCHandle table, wrappers and who can reach them | INCREF, DECREF, NewFromDescr, NewView, IterNew, ToInterface, BaseArray, Dispose, finalizers | threads against each other, the collector and the finalizer thread; two locks; ownership of views over views |
| Hash table (`npy_dict.c`) | buckets, pair count, owned keys and values | put, rekey, force, remove, copy, iterate, rehash | lookups across a rehash; ownership on replace and merge |
| Output copies (UPDATEIFCOPY) | flags of the output array, copies and their flag and base | put, putmask, choose, argmax, take, flat views, setflags, dealloc | error half way; write-back on another thread; releasing locks |
| Descriptors and fields | `names`, `fields`, `subarray`, their counts | construction from a list, DescrNew, NewByteorder, ReplaceNames, SetNames, `__setstate__`, destruction | names, titles and table must agree; nested ownership |
| Iterators, broadcasting | coordinates, strides, backstrides, `dataptr` | next, goto, reset, broadcast | zero-dimensional and zero-stride axes |
| Indexing and mapping | parsed indexes, bound indexes, MapIter with its lists, subspace and fixed coordinates | views by simple indexes, get and set through fancy ones | which axis a part is for; one iterator under another; where the axes of the lists go |
| Shape and views | dimensions, strides, flags, who owns the memory | reshape, squeeze, transpose, ravel, flatten, resize, setting shape and strides | reshape without a copy; flags that every loop trusts |
| Item selection and sorting | none of its own | take, put, putmask, repeat, choose, sort, argsort, lexsort, searchsorted, nonzero | output protocol on every exit path; lines of any stride; which axis is meant |
| Ufuncs and error state | registered loops, the loop object of a call, its buffers, error state per thread | call, reduce, accumulate, reduceat | a dozen loops for one promise; references in buffers; errors half way |
| Conversion and casting | cast tables, registered types | casts, copies, user types | registration order |
| Buffers | export counts | get and release a buffer | release against the finalizer |
| Datetime | none | calendar arithmetic | rounding of negative values |
| Calculation, number operations | table of numeric ops | thin layers over ufuncs | none of their own |
| Type kernels and math | none | generated loops per type | floating point |
| CPython interface | CPython objects | the same core under the interpreter lock | counted by CPython |
| Python packages, tools, docs | | | libraries and build code |

**How they interact.**  The core calls back into the client through a table of
function pointers: `NpyInterface_ArrayNewWrapper` when an array is created,
`_NpyInterface_Incref/_Decref` when a count leaves or reaches zero,
`NpyInterface_IterNewWrapper` when `Npy_INTERFACE` first needs an iterator's
wrapper.  The client calls the core's functions and receives references that it
drops with `DecrefToInterface` once it holds the wrapper.  `nob_interface` is
shared state of both sides: the core reads it, the callbacks replace it.

**What makes each part correct.**  Counts equal owners and nothing is freed
under an owner; a handle is strong exactly while the core references its
object; what is garbage is eventually freed; a lookup finds what was put; every
heap block has one owner; a result reaches the output array once or not at all
and the array is unlocked again; a ufunc gives the same values whatever loop
and buffers it uses, and every object has as many references as places hold
it; a view shows the elements it promises and its flags are true; the names,
titles and fields of a descriptor agree.

`PROJECT.json` lists under "hazards" where each of these can go wrong, line by
line, and which property is there to catch it.

## Modules

| Module | Models | State and actions |
|---|---|---|
| `ObjectLife` | the lifetime protocol of arrays, views and iterators | one record of the core header (`status`, `type`, `refcnt`, `iface`, `base`), the handle table (`hkind`, `htarget`), the wrapper (`wrapper`, `arr`, `held`) and a small frame per thread (`pc`, `obj`, `src`, `data`, `use`).  One action per step between which another thread can run: allocate, wrap, set the base, read `nob_interface`, dereference it, drop the reference; plus `Collect` and `Finalize` |
| `RefHandle` | abstract: count and handle change in one step | `Incref`, `Decref` |
| `RefLocks` | INCREF, DECREF and IterNewWrapper at the grain of `Npy_RefCntLock` and `interfaceSyncRoot` | load and store of the count are separate steps; the monitor is reentrant (`syncDepth`).  Refines `RefHandle` |
| `NpyMap` | abstract: tables as maps | `Create` ... `Rekey` |
| `NpyDict` | `npy_dict.c`, every operation that changes a table | buckets are sets of pairs of heap blocks; `heap` is what is allocated.  Refines `NpyMap` |
| `UpdateIfCopy` | the output-copy protocol of the item selection functions, flat views, `setflags` and `NpyArray_dealloc` | flags and contents of the arrays, state of each copy, the operation in progress.  The `op` record is the frame of the C function |
| `Strided` | strided arrays: the iterator macros, slice binding, the loops behind flat indexing, the copy loops of `npy_ctors.c` | operators only; an array is its dimensions, strides and start |
| `FlatIter` | `flatiter.cs`, `broadcast.cs` and the iterators below them | the memory, the open iterators with their coordinates and pointers, what `Current` refers to, the broadcast index; one action per method |
| `ElementHeap` | the memory that ufunc loops work on | operators: words with a type and a byte order, the references they stand for, `copyswap`, casts.  Over `Strided` |
| `UfuncReduce` | `construct_reduce` and the loops of reduce, accumulate and reduceat | the array read, the array written, the loop object (`loop`), the heap.  One action per row, segment or chunk of the buffer, the finest grain at which an error can end the call |
| `UfuncCall` | `NpyUFunc_GenericFunction`, `construct_arrays` and the C# `GenericFunction` around them | the list of arrays (`mps`) and the references to them (`owned`), the iterators, the loop object, the heap |
| `Views` | `npy_shape.c`, `npy_getset.c`, `npy_flagsobject.c`, and the entry points of `npy_mapping.c` | the arrays with their dimensions, strides, flags and base, the blocks of memory, and what each array promises to show (`shown`) |
| `Indexing` | `npy_index.c`, `npy_mapping.c`: binding an index to a shape, views, the map iterator | operators only; an index is a sequence of parts |
| `Selections` | abstract: which elements an index selects, and in which shape, by the rules of `numpy/doc/indexing.py` | operators only, by coordinates |
| `ItemSelection` | `npy_item_selection.c` | one memory that all arrays are views of (`memory`), their flags and counts (`writeable`, `refs`), the copies that wait to be written back (`late`).  One action per function, with its error exits |
| `ItemRules` | abstract: what is selected, replaced and sorted, by coordinates and ranks | operators only |
| `DescrFields` | `npy_descriptor.c` and the list converter and setters of the CPython client | the descriptors with names, table of fields and subarray, their counts, the references of the program |
| `RefLocks_proofs`, `ObjectLife_proofs`, `UpdateIfCopy_proofs`, `NpyDict_proofs`, `FlatIter_proofs`, `FlatCopy_proofs`, `Views_proofs` | theorems | |
| `Strided_proofs` | lemmas about `Strided` | |
| `MCRefLocks`, `MCNpyDict`, `MCFlatIter`, `MCUfuncReduce`, `MCUfuncCall`, `MCViews`, `MCItemSelection`, `MCDescrFields` | instances for TLC | symmetry sets, calls and arrays |

`ObjectLife` takes an INCREF or DECREF as one step.  That is what `RefLocks`
and the theorem `Refinement` justify: behind the locks they are one step.

`UpdateIfCopy` keeps one user thread and the finalizer thread.  The step from
"the core dropped its last reference to the copy" to "the finalizer deallocates
it" is the part that `ObjectLife` models in detail; here it is the state
`garbage`.

In `FlatIter` a session is one iterator (`x.flat`) or those of a broadcast object.
Its reference operators (`CoordsAt`, `AddressAt`, `Selected`, `Assigned`, `Copied`)
say what is promised in terms of coordinates and sets of positions, and use none of
the incremental pointers and factors of the code.  Boolean scalars as indexes are left
out (`True` is position 0), as are iterators over mutable shapes: a program that
sets the shape of an array while an iterator is open is not modelled.

**Composition.**  `FlatIter`, `UfuncReduce`, `UfuncCall` and `Views` share the
iterators, flags and copies of `Strided`, so that the loops of ufuncs run on the same
`ITER_NEXT`, `WithoutAxis` and `BroadcastIter` that `FlatIter` checks against coordinates, and on
the contiguity flags that `Views` checks against addresses.  `Views` indexes arrays with `Indexing`, whose map iterator
is made of the iterators of `Strided`, and compares them with `Selections`, which knows neither strides nor iterators.
`ItemSelection` runs on the iterators and copies of `Strided`, with `InOneBlock`, `Permuted` and `WalkedTo` of `Indexing`; `ItemRules` extends `Selections`.
Its output copies are those of `UpdateIfCopy`: there any thread may look at the array meanwhile and contents are symbols, here contents
are computed and the program leaves an array alone while a copy of it waits (`Quiet`).  The table of fields of `DescrFields` is a
map: that `npy_dict.c` is one is the theorem `TablesImplementMaps`.  The output copies of a ufunc
are written back in `UfuncCall` and `UfuncReduce` at the places where they
call `NpyArray_ForceUpdate`; their lock and the finalizer are in `UpdateIfCopy`.

**Symbolic ufuncs.**  In `UfuncReduce` and `UfuncCall` a value is the expression that computed
it: the address of an input element, or the ufunc applied to values.  An application in
the wrong order, to an element twice, in the wrong byte order or before a cast thus gives
another value, for any ufunc at once.  A ufunc on objects may raise an error between any two
applications (`Applications`).

Definitions marked `Mutant` are plausible bugs of the definition that follows.
No specification uses them; each shows that a property notices that bug.

## Runs

| Run | Instance | What it shows |
|---|---|---|
| `object_safety` | 3 objects, 2 threads, 4 handle slots | counts equal owners; the handle of a live object is strong exactly while the core references it, and no other strong handle is left over (`HandlesExact`; the weak handles of freed objects stay allocated, in the code too); nothing is freed under an owner (`RefcntExact`, which holds `OwnersCounted` and `NothingDangles`); no handle is dereferenced after it was replaced; every operation returns, and once managed code holds nothing, every core object is freed (`EventuallyFreed`) |
| `locks_atomic` | 3 threads, 2 arrays, 4 slots, each thread owning at most one reference per array of its own | INCREF and DECREF refine the atomic steps; no count is lost; one wrapper per iterator |
| `dict_map` | 2 tables, 2 names, 2 blocks for each name, 3 value blocks | tables refine maps; one owner for every block; the count of pairs; no pair is hidden from a lookup or an iteration |
| `uic_managed` | 1 array, 2 copies, 2 values, operations put, putmask, argmax, take | copies are written back at most once and never after an error; locks are released |
| `flat_iter` | 6 arrays (contiguous, transposed, reversed, 0-d, empty, 3-d), 3 broadcasts, 16 copies, 80 slices, masks and lists; one write, one use of a broadcast's iterator by itself | the pointer of an iterator is at the element of its index after any sequence of calls (`WalkAsPromised`); indexing and assignment (`IndexAsPromised`), broadcasts and copies (`BroadcastAsPromised`) agree with the reference |
| `ufunc_call` | 9 pairs of inputs (broadcast, transposed, backwards, scalar, empty, misfits) and 5 single ones, elements of 4 kinds, buffers of 2 to 9 elements, outputs new, given, in place, too small and read-only; objects in single rows | every output element is the ufunc of the operands broadcasting puts there, nothing else is written; references of elements and arrays balance, after an error too |
| `ufunc_reduce` | 10 arrays of 1 to 3 axes, every axis, 5 kinds of elements, buffers of 1, 2, 3 and 9, 7 index lists, 4 outputs that are writeable, read-only and of another type, objects in, out and both | each result is the ufunc folded over its line or segment from the left; references balance; every step leaves less to do |
| `views` | 12 views of a block of 12 elements, 15 shapes, 3 orders, 5 strides, 21 indexes to read and 10 to assign through, 2 values, any two operations | arrays show what they promised, whatever was assigned to arrays whose memory they share; flags are true; a reshape copies only if no view of the shape exists |
| `descr_fields` | 1 built-in type, lists of two fields with and without titles, 4 operations, 6 descriptors | counts are exact through nested copies and destruction; names, titles and fields agree; a byte order reaches every field |
| `item_selection` | 9 arrays in 20 addresses (C order, transposed, backwards, broadcast, with gaps, 0-d, empty; some share memory), 83 requests, any two, locks set and released between them | every request returns, stores or raises what the rules say; an array keeps its references on every path; a read-only array is not changed |
| `locks_cycle`, `fancy_slices` | as above, or smaller | violations, see Findings |

Thirteen more configurations give counterexamples to single properties (see Findings):
`ObjectLife_stale`, `ObjectLife_finalize`, `NpyDict_size`, `UpdateIfCopy_take`, `FlatIter_assign`,
`UfuncCall_objects`, `UfuncReduce_reduceat`, `UfuncReduce_empty`, `Views_strides`, `DescrFields_names`, `ItemSelection_axis`,
`ItemSelection_readonly`, `ItemSelection_output`; for instance
`tlc -config FlatIter_assign.cfg MCFlatIter`.

**Why the bounds are enough.**  Three objects give a view of a view, an iterator
over a view, and a base dropped while two others depend on it; two threads give
every race between a pair.
A switch allocates a slot before it frees one, and an object keeps its slot when it is freed, so that
|Obj| + 1 slots are what it takes: with as many slots as objects a thread would wait
for ever inside an operation as soon as the third wrapper exists, and nothing after that would be
checked.  `EventuallyFreed` therefore also says that every operation returns, which TLC finds violated
for three objects and three slots.  Slots are reused, so a stale handle value can denote another
object's handle.  Objects are named in the order of their births, which loses nothing (addresses are not used again).
In `locks_atomic` three threads give one inside each lock and one waiting.
In `dict_map` the names collide with 1 and with 7 buckets (the initial sizes used)
and not with 5 (the size `calculateIdealNumOfBuckets` and `RemoveAll` choose),
so every rehash splits or joins a chain; two tables are needed for `Copy`, and
two blocks for each name for replacing a key by an equal one.
The thresholds of the instance (0.5, 1 and 1.5 pairs per bucket) are far below the
defaults (0, 3 and 15), so that two names are enough for a rehash;
`NpyDict_SetIdealRatio` allows such values, though no caller in the repository uses it.
`MaxMerges` bounds how often the code's miscount (see `NpyDict_size`) may happen
to a table, `MaxOwned` how many references a thread takes.  In `uic_managed` two copies are two
locks on one array, or one that waits for the finalizer while the next
operation runs; `put` adds the failure half way of an operation in place, and
`choose` is left out of the instance.

In `flat_iter` the arrays have two or three elements along an axis, so that every
carry of the odometer happens, on two and on three axes; the values of the memory
tell all addresses apart.  Indexing and copying are compared with the reference in
every state in which nothing has been written yet (`Untouched`): what they do
depends on where the iterator stands, not on the values.

In `ufunc_call` and `ufunc_reduce` rows have up to five elements and buffers from one
to nine: a row ends before, at and after the end of a buffer, fills it exactly and needs it several times; two and
three axes give every carry of the outer iterators.  Left out of the instances, because what the
code does there is undefined or is a finding: objects with an output array of
the caller, objects that are misaligned and buffered, reductions of no objects to an
identity, accumulate from objects to numbers by a buffer (it counts a number as if it were an object,
`npy_ufunc_object.c:893`), accumulate into an output of the same size and
another shape, reduceat by a buffer for objects; an error while buffers hold objects may leak there
(`ReferencesReturned` says so).

In `views` two operations meet: one that makes an array and one that changes or views it. Twelve elements
have enough factors for shapes of one, two and three axes that split, join and regroup
each other, with broken strides inside and between the groups.  `Resize` is called for memory that nothing else
uses (refcheck).  Strides are set to values that stay inside together; others are `Views_strides`.
The indexes combine integers, slices with steps of both signs, an ellipsis, new axes, Booleans, lists with one and
two axes, repeated and negative items, and masks; the arrays they are for are those the first operation makes, so that a
view by an index is reshaped or assigned through, and an array is indexed after its strides were set.  Assignments
are made to arrays no two elements of which are in one place.  `MCIndexes` has no index that meets the findings about `npy_mapping.c` below;
`Views_fancy.cfg` has those of the documentation.

In `item_selection` a second request meets the memory, the lock or the waiting copy that the first one left.  The requests have every mode and kind of output
(new, used in place, copied, refused), indices in range, out of range and at both ends, axes from both ends, None and wrong ones, and lines of length 0 to 6.
Left out are requests that meet the findings below, an empty axis with mode wrap (which never ends) or clip, several axes of repeats, axes of lexsort behind the last one,
outputs that overlap an operand, and `argsort` by qsort of equal items, whose order is not defined.

In `descr_fields` four operations reach a descriptor of a descriptor of a subarray, a copy that outlives
its original, and a list that is refused after some fields were added.  `RenameTaken` and
`ReorderTitled` are FALSE: a new name is one the table does not have, and
another byte order is asked only of fields without titles, for the reasons under Findings.

**Fairness.**  `ObjectLife`: weak fairness of each thread's steps inside an
operation (a thread that runs is scheduled; it waits for nothing but locks, which
are below this grain), of the collector (it finds garbage as long as there is some)
and of the finalizer thread (it works as long as its queue is not empty; which wrapper is next is left open).  No fairness on what
the user does: dropping a wrapper is never promised, which is why
`EventuallyFreed` assumes it.  `UpdateIfCopy`: weak fairness of the steps of
the operation, strong fairness of the finalization of each copy.  Strong, because
finalizing another copy disables it for two steps at a time: the finalizer queue
is first in, first out, so that no copy is passed over for ever.  The steps of
other specifications need none: `Advances` of `UfuncReduce` is a measure that every step lowers.

**Deadlock.**  `dict_map`, `flat_iter`, `ufunc_call` and `ufunc_reduce` check it: a call returns or raises.  `CHECK_DEADLOCK FALSE` stands where the
model or the system really stops: `ObjectLife` when every object has been used and freed
(addresses are not used again), `RefLocks` in the lock cycle found below,
`UpdateIfCopy` when the copies that `putmask` leaks have used up the instance, `Views`, `ItemSelection` and `DescrFields` when
the bound on the operations is reached.

## Findings

Listed runs:

1. `locks_cycle`: INCREF/DECREF take `Npy_RefCntLock`, then `interfaceSyncRoot`;
   IterNewWrapper takes them the other way round.
2. `fancy_slices`: `NpyArray_MapIterBind` stores the starts of the slices of an index with lists, and
   then writes zeros over them (`npy_mapping.c:237`).  `y[np.array([0,2,4]),1:3]` of
   `numpy/doc/indexing.py:254` selects columns 0 and 1, and a mask of rows with a slice does the same.

Configurations that are kept beside the runs:

3. `ObjectLife_stale`: `NpyArray_NewView` passes the base's `nob_interface`
   to the wrapper callback before it takes a reference to the base
   (`npy_ctors.c:1083`).  Another thread's INCREF or DECREF of the base replaces
   and frees that handle, and the callback's dereference fails.  Behind the wrong
   value there can also be a handle of another object, when the slot is reused.
4. `ObjectLife_finalize`: when `__array_finalize__` raises, the core array is
   freed but its wrapper still points to it and reads it in its finalizer.
5. `NpyDict_size`: `NpyDict_Rekey` onto a key that is present leaves `numOfElements`
   one too high; `SizeCounted` shows that nothing else miscounts.
6. `UpdateIfCopy_take`: `take` with an output array that needs a copy returns before the
   result is in it.
7. `FlatIter_assign`: `fl[i] = v` leaves an iterator over a non-contiguous array at
   element i with the coordinates of element 0.  The next steps carry at the wrong
   places, give other elements than those after i, and can leave the array.
8. `UfuncCall_objects`: after the first row of a buffered loop `objfunc` is set to 0
   (`npy_ufunc_object.c:457`), so that objects which casts make in later rows are
   not released.
9. `UfuncReduce_reduceat`: the buffered loop of reduceat starts from the identity, the others
   from the first element of the segment.  For a ufunc whose identity is not one on
   the left, or an array that happens to need a buffer, the result is not `reduce` of the segment
   (`npy_ufunc_object.c:975`, `1073`).
10. `Views_strides`: `NpyArray_CheckStrides` looks at each axis by itself; strides of two axes that are
    each inside of the memory lead out of it together.
11. `DescrFields_names`: `NpyArray_DescrReplaceNames` re-keys the fields one by one on the
   same table (`npy_descriptor.c:457`).  Names that are a permutation of the old ones, which
   `argsort(order=...)` passes (`methods.c:1071`), lose a field.
12. `ItemSelection_axis`: a negative axis, -1 by default, becomes the axis with the smallest stride of the first key before it is looked at
   (`npy_item_selection.c:1140`).  `np.lexsort((x.T,))` sorts along the first axis.
13. `ItemSelection_readonly`: `put` and `putmask` store into a contiguous array whatever its flags (`197`, `368`).  For a read-only array that is not contiguous
   the copy is NULL and is used (`211`, `379`); `Crashed` stands for that.
14. `ItemSelection_output`: when the indices cannot be cast or the choices not be broadcast, `choose` drops a reference to the output array that is its
   caller's (`668`); so does `take` when its indices cannot be cast (`177`).

15. `UfuncReduce_empty`: `reduceat` with no index leaves `construct_reduce` before it looks at the output (`npy_ufunc_object.c:2321`), so that with an `out` the
   array that is "returned immediately" (`1030`) is NULL, and `Npy_INCREF(ret)` dereferences it.

Met while reading `npy_index.c` and `npy_mapping.c`, and kept out of `MCIndexes` (the model has the first three:
an index like these in `Views_fancy.cfg` shows it; `Garbage` is what unwritten fields hold):

- the coordinates of axes without a list are not written when the index does not mention them all, as for a list with one
  axis on an array with three or one with two axes on an array with two (`bscoord`, `npy_mapping.c:172-189`, `235-238`);
- an integer beside a list has an iterator (`71-92`), and no entry in `iteraxes` (`180-182`);
- an axis is numbered with the new axes counted (`177`), and with as many lists as axes all other parts are
  passed over (`152-158`);
- `NpyArray_IndexExpandBool` puts a Boolean in twice, as an integer and as itself: its case has no `break` (`npy_index.c:93-97`);
- an integer out of range gives up without releasing the arrays already bound (`npy_index.c:306-310`);
- a slice with step 0 is refused nowhere between `NpyIndexes.AddIndex` (`NpyIndexes.cs:247-256`) and `NpyArray_SliceSteps`, which divides by it
  (`npy_index.c:453`); `IndexesAssumption` leaves it out.

Other pointers and lengths that the code does not look at, for which the model has no step:

- `NpyArray_SetStrides` of an array without a base (`npy_getset.c:70-71`; `SetStrides` is for arrays that have one);
- `put` and `putmask` in `UpdateIfCopy` to a read-only array that needs a copy (finding 13; `ItemSelection` has the step);
- an assignment through lists of a value with more axes than the result, for which `_swap_axes` stores in front of `permute`
  (`npy_mapping.c:409-411`; no value of `MCViews` has more);
- `lexsort` along an axis behind the last one, and counts of `repeat` with two or more axes and too few items.

A field whose title is no string is not stored under its name, and the reference of the converter to its descriptor
is never given back (`descriptor.c:437`, `486-510`); `AddField` has it, and no list of `MCDescrFields`.

The byte order of a field with a title is changed under its name and not under its title
(`npy_descriptor.c:357`); `ReorderTitled = TRUE` in `DescrFields_fields.cfg` shows it.

Met while reading `npy_item_selection.c`: `_new_sort` returns 0 also when the sort function failed (`744`); `argsort` of a single item
keeps its axes whatever the axis (`1011-1020`); repeats with two or more axes are read as if they had one for each item (`477-484`); `lexsort` of
`ModuleMethods.cs` converts NULL instead of a key that is not an array (`289`).

Two more places are modelled as they are and excused by name in `LockHasHolder`
(the variable `abandoned`): `PutMask` without values leaks its copy, and
`setflags(uic=False)` drops a copy's base without unlocking it.

## Proofs

Assumptions are those of the modules: `RefLocksAssumption` (finitely many
threads, the iterated array is an array, sentinels are not members), `UICAssumption` (at
least one value, sentinels are not members), `DictAssumption` (types of names, blocks and
thresholds; keys and values are different blocks) and `RatioAssumption` (the ideal ratio is
between the thresholds, as `NpyDict_SetIdealRatio` demands), `SentinelAssumption` and `FinitenessAssumption` of
`ObjectLife` (sentinels are not members; finitely many objects and threads), and `ArraysAssumption` of `FlatIter` (the arrays have as many
strides as lengths, and what is made a broadcast object can be broadcast: the constructor refuses the rest) and `IndexesAssumption` (an index is of one of the kinds that `NpyArray_IterSubscript` knows, and no slice has
step 0).  Three more are about its memory: `CopiesAssumption` (the elements of a copy's destination have different addresses and are none of the
source's: overlapping copies are not modelled), `MemoryAssumption` (all arrays are in the memory) and `BoundsAssumption` (the bounds are
naturals).  TLC evaluates them for the arrays of `flat_iter`.  `Views` assumes that the shapes asked for are sequences of integers, of either sign
(`ShapesAssumption`), and so are the strides (`StridesAssumption`), that the first view is an array (`StartsAssumption`), and of an index
(its `IndexesAssumption`) that each part is of a kind the parser makes, that no slice has step 0, and that integers stand among lists only where every
axis has a part of its own: for others the map iterator reads axes that nobody wrote (see the findings about `npy_mapping.c`).  `SizesAssumption` bounds its steps.  Integers are those of mathematics, so that the theorems say nothing of sizes near 2^63.  There is no bound on
threads, objects, arrays, axes, lengths, strides, handles, copies, values, tables, names or buckets.

**`RefLocks_proofs`.**  `TypeCorrect`, `CountsExact`, `OneWrapper`,
`OwnersSeeStrong` and `Refinement` (`Spec => AtomicRefcount`).  None of the
invariants is inductive alone.  `IInv` adds what the code relies on tacitly:

- `LockInv`: a thread is inside a critical section exactly where its `pc`
  says so, and the depth of the monitor is the number of times it entered;
- `LoadInv`: the count a thread has loaded is still the count (the lock at work);
- `OwnInv`: whoever is in the middle of an INCREF or DECREF, or inside
  flatiter's constructor, owns what it is about;
- `NoLostCount`: the count is the number of owned references, so a positive
  `owned` excludes a zero count;
- `HandleInv`: handles are distinct, and strong or weak according to the
  count, except for the array whose switch is pending;
- `WrapInv`: the iterator has a wrapper exactly when one was stored, and a thread
  between check and store holds the monitor.

`OwnerSeesStrongHandle` follows: an owner makes the count positive, and the only
exception in `HandleInv`, a pending switch to strong, belongs to a thread that
holds the lock and for which the property makes the exception; a pending switch to weak
has count zero.  For `Refinement` each action is a stutter or one step of `RefHandle`: the
count the mapping shows moves when the handle does, at `CallbackSwitch`, or
at the store if the handle stays.

**`ObjectLife_proofs`.**  `TypeCorrect`, `ReferencesExact` (`Spec => []RefcntExact`), `HandlesFollowCounts` and `HandleReadIsCurrent`.
`OwnersCounted` and `DerefIsCurrent` are part of what the steps need, so `IInv` has them, with:

- `HandleInv`: a live object's handle is strong if its count is positive and weak if it is zero, targets its wrapper, and is
  no other object's; no other handle is strong;
- `ObjInv`: what a status says about the other fields, and that a base is alive and has a handle;
- `HeldInv`: wrappers in variables are alive, and an operation's source is in a variable of its caller;
- `PrivateInv`: the object an operation is about to return is known to nobody else: no base, no variable, no other frame;
- `CallInv`: for every place in an operation, what it has done by then (wrapped or not, base set or not).

The owners of an object are the views and iterators on it, threads about to return it and threads inside the constructor of a flat iterator.  There is a lemma for each kind of
operation that says how owners and handles move together (`SwitchHandles`, `BirthKeeps`, `BasedKeeps`, `ReleaseKeeps`, `DeadKeeps`), and the
actions are instances.  `DeadKeeps` has the step that could go wrong: what is freed has no owner and no frame looks at it, and its base loses exactly one.
`DerefIsCurrent` is about the reads that `ToInterface` and the getters make; the handle
that `NpyArray_NewView` reads too early is the finding `InterfaceDataLive`.

**`UpdateIfCopy_proofs`.**  `TypeCorrect`, `WrittenOnce`, `LocksHeld`.  `IInv`
adds `CopyInv` (a copy that was written back or failed has lost its flag or its base, so
no one writes it again) and `OpInv` (the copy of the running operation is in
native hands, has its flag and its base, and no other).

**`NpyDict_proofs`.**  `LookupsComplete` (`Spec => []GetComplete`), `BlocksOwnedOnce` and
`TablesImplementMaps` (`Spec => ImplementsMap`).  Every operation has a lemma that says what the table
is afterwards (`PutNewIs`, `RekeyIs`, ...), in terms of the pairs before and
whatever bucket count a rehash chose; the three theorems use only these.

- A rehash must find a bucket count: `calculateIdealNumOfBuckets` looks upwards for an odd number without small
  factors.  `FitsBelowDouble` shows that there is one, for every size: a multiple of the product of the
  candidate factors, plus one, is one (`ProductCoprime`), and closer ones for small sizes (`StepsCoprime`).
- `TabInv`: every table is `Sound`: its buckets are sets of pairs (`Shape`), each pair is in
  the bucket of its name under the present bucket count, and no two pairs of a table have one name (`Hashed`).
  It is inductive by itself, since every operation looks in one bucket only, and gives `GetComplete`.
- `OwnInv` states ownership for any assignment of pairs to tables (`Own`); `OwnReplaces` is the one step all
  operations are instances of: in one table some pairs go with their blocks, others come with blocks that
  were in no table.
- For `ImplementsMap`, `MapOf` is the map that `Get` shows; each operation is a step of `NpyMap` or
  leaves it, because of `TabInv`: without it a `Put` could add a second pair that `Get` never finds.

`DictTypeCorrect` and `EntriesNeverHidden` (`Spec => []NothingHidden`) need `DictInv`: `TabInv`, `OwnInv` and

- `CountInv`: `numOfElements` is the number of pairs and of the merges that `NpyDict_Rekey` counts twice, for every table;
- `IterInv`: an iterator has yielded the pairs of the buckets before its own, and of its own all but the rest, once each, and none of the
  buckets after it.

Each operation replaces some pairs by others, and the lemmas above say which; finite cardinalities do the rest.
A rehash keeps the pairs and moves them, so that only the bucket count has to be typed.

**`Strided_proofs`.**  What the operators of `Strided` compute, for any number of axes.  Sums and products are folds; they are characterised
by recursion over finite sets (`SumIterIs`, `ProductLast`), from which follow the lemmas that all walks need:

- coordinates and places in C order determine each other (`PlaceBelow`, `PlaceUnique`, `PlaceOfDigits`): the quotients
  by the factors are the coordinates, as `NpyArray_ITER_GOTO1D` assumes;
- a turn of the odometer (one axis moves on, the ones behind it go back to 0) moves the pointer by that stride less the ways
  back (`StepMoves`), and the place by exactly one (`StepIsNext`);
- moves of elements: `Fills(w, m, R)` says that the memory w is m after the moves R, pairs of an address to write and one to read.
  Moves that no other of them disturbs (`Clean`) can be made in any order, one loop after the other (`FillsBoth`, `FillsInTurn`), and a
  strided copy makes those of its row (`StridedMoves`).

**`FlatIter_proofs`.**  `WalksAgree` (`Spec => []WalkAsPromised`), `IteratorsInStep` and `PositionsFound`.  `WalkInv` says of each iterator of a
session that it is `Placed`: the array `Meets` the shape, the fields that no step changes are those of its constructor (`Walks`), and index,
coordinates and pointer are at one element (`Stands`).  The coordinates matter only where the code uses them:
a contiguous iterator does not move them, and after a single assignment through an iterator they are stale until its reset.  That the contiguous and
the one-dimensional shortcuts give the same addresses is `ContigStrides` and `AddressesOne`.  `StepInv`, for `IteratorsInStep`, adds how far a broadcast object has come since its last
reset, and that none of its iterators was moved while none was used by itself.

Indexing is there too: `IndexingReachesSelected` (`Spec => []IndexAsPromised`).  `PointersAre` is its centre: the addresses that the loop of
an index visits are those of the elements it selects, in their order.  It has a lemma for each kind of index:

- slices (`SliceLeads`): the positions start + k * step for k below `NpyArray_SliceSteps` are those between the ends that the rules give, none is outside of
  the array, and none is missing, for parts of either sign, left out, or beyond either end (`BindSliceIs`, `HitUp`, `HitDown`; the quotient is
  counted by `StepsAre`).  Backwards, they are the reverse of the ascending enumeration (`DownwardInOrder`);
- masks (`MaskLeads`, by the fold of the C loop): as many steps as there are TRUE items, each standing at its element (`AdvancedAt`: a walk from the start
  finds every element);
- lists (`AllGood`) and positions through `PlacedGoto`.

For assignments, values written one after the other leave at every address the last one written to it (`WriteLeaves`), which is what `Assigned` says.
`MemInv` (the memory is as it was until the first write) is needed only to know that it is a function.

**`FlatCopy_proofs`.**  `BroadcastingFollowsRules` (`Spec => []BroadcastAsPromised`), `WritesFollowRules`, `PointersStayInMemory` and `FlatTypeCorrect`.
What a copy promises is a set of moves (`Matched`: each element of the destination gets the one that broadcasting puts against it), and so is what
each loop of `npy_ctors.c` does, by the lemma `CopyIntoFills`.  It has a case for each loop:

- the strided loop of `CopySameFills` and `BroadcastCopyFills` leaves out one axis of the walk and copies a row for each position of the others. `CopyAxis`
  shows, for any axis, that rows and positions together are all elements: the walk without axis k stands where the coordinates
  of the shape with length 1 on k say (`WithoutAxisVisits`), though it uses factors and backstrides of the full shape;
- the block copy (`BlocksMatch`): two arrays of one shape that are both in C or both in Fortran order have the elements of an offset at the same coordinates, whatever
  strides their axes of length 1 have;
- the copy from an array without axes (`Copy0dFills`), whose source stands still;
- shapes that differ by axes of length 1 in front have the same moves (`PaddedMatched`), and the code's test for a broadcast that fits, equal
  sizes, is the rule's (`FitsBroadcasts`, `BroadcastFits`), because a shape with fewer ones has more elements (`SameProduct`). Empty
  shapes pass the test without fitting; there is nothing to copy then (`NoFitNoCopy`).

`WritesFollowRules` says the same of every reachable memory, and of assignments through an index; the runs compare only memories in which nothing was
written.  `TypeInv` is `MemOK` (the memory keeps its addresses), `WalksOK` (the arrays of the iterators are in it) and
`CountsOK`.  While it was proved, the types turned out to be wrong: they said that `current` is in the memory, unless the iterator was misplaced by a single
assignment (finding 7).  After such an assignment an iterator can leave its array; an index then resets the iterator but not
`current`, which holds an address outside until the next step.  The instance was too small to show it (a Fortran-ordered array of 2 by 3 and four steps do),
and `TypeOK` no longer says it; `PointersInMemory` is what is true of the iterators.

**`Views_proofs`.**  `ArraysWellFormed` (`Spec => []TypeOK`), `FlagsStayTrue` (`Spec => []FlagsTrue`) and `CopiesNeeded` (`Spec =>
[]CopiesOnlyIfNeeded`), for arrays with any number of axes and any strides, any shapes and any indexes.

`IInv` says that each array is `Sound`: its fields are of their types, it has a stride for each axis, its base is older than
itself, its block exists, and its flags are `FlagsKnown`, the ones that `NpyArray_UpdateFlags` computes from its shape and strides.
`FlagsTrue` alone is not inductive: it speaks of addresses, and `NpyArray_Newshape` and `Ravel` decide by the stored flags and strides.  What a
flag means for addresses is then a fact about one array (`FlagsAreTrue`): an array whose flag is set is `Packed`, so that each axis with more than one
element has the weight of its axis as its stride, and the address of element n is n.  An array with no elements, or with axes of length 1, may have any
strides there.

That every operation preserves `IInv` has a lemma for each (`NewshapeKeeps` to `SubscriptAssignKeeps`).  Most of the work is to show that what they compute
are lengths and strides at all:

- the unknown length of a reshape (`_fix_unknown_dimension`) is the size divided by the known lengths, and not negative (`FixedIs`);
- in `_attempt_nocopy_reshape` each axis of the new shape belongs to a group of new axes and a group of old ones with the same product, so that
  the stride it starts from is one the old array has (`OldAtIs`, `NoCopyStridesType`);
- each part of a bound index is for an axis that the array has, whatever ellipses, new axes, masks and integers come before it
  (`WellBound`, `BindOne`, `IndexBound`), so that its slices have lengths and every axis of a view a stride (`DimsEtcIs`);
- the lists of an index, its subspace and the transposition of the result give the map iterator a stride for each axis
  (`ExpandedIs`, `MapIterFromIs`, `PermutationIs`, `SubscriptMapKeeps`).

`NpyArray_IndexBind`, the expansion of masks and the strides that `NpyArray_Newshape` fills in are recursive functions; that they are defined, and what they keep, is proved by a
least counterexample (`LeastOf`), because the library's induction takes the formula as a parameter.

`CopiesNeeded` is more than that a reshape shows the right elements: there is no view at all when the code makes a copy.
The code copies when two neighbouring axes i and j of the old shape (without those of length 1) have strides that do not fit
together, and no axis of the new shape ends between them (`GapBetween`; the groups are those of `_attempt_nocopy_reshape`, for either order).
Suppose that some strides show the elements all the same (`GapNotViewable`).  The new axis that contains the boundary between i and j goes equally far with each step, so that
the addresses go on across the boundary as they do before it (`Follows`, `GoesOn`), and the stride of j is the length of i times
the stride of i after all (`OneStride`), which contradicts the gap.

**Only model-checked.**  `UfuncReduce`, `UfuncCall`, `ItemSelection` and `DescrFields` entirely, and of `Views` `ShowsAsPromised`: that an
index shows the elements the rules of `Selections` name, through masks, lists and subspace together.  It does not hold for all indexes (see Findings), and an
inductive form of it would have to describe, index by index, for which ones it does.  The expressions that `UfuncCall` and `UfuncReduce` compute are
recursive in their data, as are the references of a descriptor in `DescrFields`.
Liveness (`EventuallyFreed`, `EventuallyUnlocked`) stays with TLC: fairness and
ENABLED are out of the prover's reach.  So is what a recursive definition computes for every input where the induction is over data.

## What is abstracted

Outside `Strided`, `FlatIter`, `ElementHeap`, the ufunc modules, `Views` and `ItemSelection`, contents of arrays are values of a small set, and
shapes, strides and types do not occur; there, elements have size 1, and copies are
between arrays that share nothing, aligned and of one byte order.  An allocation failure ends the process in most of this code and is
modelled only where it is survived (`NpyDict_Rehash`).  A chain of the hash
table is a set: its order decides only the order of iteration.  Managed code
holds wrappers in variables (`held`); it may share or drop them between operations.
In `ObjectLife` addresses are not used again, so that reading freed memory shows as `fault`.
Memory pressure, logging and text are left out.
In `Views` items have size 1 and a block never moves; in `DescrFields` an offset is the number of the field and
`elsize` and type number are one symbol.

## Not modelled

- Ufuncs: selection of the loop by the types (`select_types`, user loops, `cmp_arg_types`), generalised signatures, more than one output, the
  prepare callback, not-implemented results, floating-point error state, `GenericReduction`'s normalisation of axes and types.
- Views: subtypes and their `__array_finalize__`, reference checks of resize, setting the data of an array.  Its `FlatView` is in `UpdateIfCopy`.
- Descriptors: parsing of type strings and dicts, alignment, metadata of date-times, the managed constructors and
  `__setstate__` of `dtype.cs`.
- Lifetime: multi-iterators as objects, `base_obj` and buffers, the dealloc of a copy that increments its own count from zero.
- Indexing: fields by name, byte-swapped and object items, the counts of references in an index, the managed getter and setter around
  it (`ndarray.cs`, which makes scalars of results without axes and has its own path for one element).
- Error state: `CheckError` and the thread-static variables of `NpyCoreApi.cs`.  One of them has an initial value, which only the first
  thread gets (`NpyCoreApi.cs:1640`).
- `setflags(uic=False)` on a view that is not a copy: `ClearUPDATEIFCOPY` tests `flags | NPY_UPDATEIFCOPY`, which is always
  true, and drops its base (`Npy_Array_Access.cpp:413`).
- Overlapping, misaligned and byte-swapped copies between arrays.
- Item selection: diagonal and subarrays, the sort functions of the types (`ItemSelection` sorts a line in one step), counts of object items, overlapping outputs.
  A request is one step, so that two threads never meet in one: `NpyArray_Repeat` sets the length of an axis of its input
  while it allocates the result (`npy_item_selection.c:507`), and the comparison of `qsort` reads the array from `global_obj` (`843`).
- Casting tables, date-times, numeric kernels, `linalg`, `random`, `fft` and the Python packages: data algorithms, generated or vendored code.

## Plan

1. Overlapping copies, and item selection with outputs that overlap an operand; the managed getter
   and setter around indexing, with the references of an index.
2. Lifetime: multi-iterators, buffers with `base_obj`, and UPDATEIFCOPY copies in
   `ObjectLife`; `setflags(uic=False)` on ordinary views.
3. Ufuncs: user loops in the dictionary, loop selection, several outputs, error state per thread; user types and cast tables.
4. Date-times: calendar functions against day counting.
5. Proofs: `StaysInside` of `Views` for the indexes without lists, from the lemmas about slices in `FlatIter_proofs`; the array references of
   `UfuncCall` (`Released`) and the types of the ufunc modules. The object references of buffered loops depend on which calls are made (finding 8), the
   counts of `DescrFields` on recursive operators: both stay with TLC.
