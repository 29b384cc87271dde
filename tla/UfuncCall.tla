----------------------------- MODULE UfuncCall -----------------------------
(***************************************************************************)
(* The call of a ufunc on arrays: NpyUFunc_GenericFunction                 *)
(* (npy_ufunc_object.c) between the wrapper that hands its arrays to it    *)
(* and takes them back (NpyCoreApi.GenericFunction).  One call of a ufunc  *)
(* with one output is made; Init chooses it.  A value is <<k>> for the     *)
(* element at address k - 1 before the call, or the ufunc's for some       *)
(* operands.                                                               *)
(***************************************************************************)
EXTENDS ElementHeap

CONSTANTS Jobs,         \* the calls: [inputs, out, ftypes, bufsize]; an input or out is [arr, type, swapped, aligned, writeable];
                        \*   ftypes are the types of the loop that was selected
          ScalarSlots   \* elements in the buffer of an argument with step 0

VARIABLES job,
          mps,    \* the arrays, with the output last; None for NULL
          owned,  \* references that the call holds through each of mps
          iters,  \* loop->iter->iters
          heap, loop, pc

vars == <<job, mps, owned, iters, heap, loop, pc>>

Nin   == Len(job.inputs)
Out   == Nin + 1
Args  == 1..Out

\* Where new arrays and the buffers are.
NewAt(i) == 100 + 50 * i
BufAt    == 400

Given == IF job.out = None THEN job.inputs ELSE Append(job.inputs, job.out)

Init ==
  /\ job \in Jobs
  /\ mps = Append(job.inputs, job.out)
  /\ owned = [i \in Args |-> IF i = Out /\ job.out = None THEN 0 ELSE 1]
  /\ iters = <<>>
  /\ LET at(i)  == Addresses(Given[i].arr)
         all    == UNION {at(i) : i \in DOMAIN Given}
         arg(a) == Given[CHOOSE i \in DOMAIN Given : a \in at(i)]
         cells  == [a \in all |-> [v |-> <<a + 1>>, type |-> arg(a).type, swapped |-> arg(a).swapped]]
     IN  heap = [cells |-> cells, bad |-> FALSE,
                 refs  |-> [v \in {<<a + 1>> : a \in {b \in all : cells[b].type = "obj"}} |-> 1]]
  /\ loop = None
  /\ pc = "arguments"

-----------------------------------------------------------------------------
(* construct_arrays.                                                       *)

\* Argument i, of another type or misbehaved, cannot be used as it is.
Misfit(i) ==
  mps[i].swapped \/ ~mps[i].aligned \/ mps[i].type # job.ftypes[i]

\* A new array for argument i with the elements of array a.
Fresh(i, dims) ==
  [arr |-> Ccontiguous(dims, NewAt(i)), type |-> job.ftypes[i], swapped |-> FALSE, aligned |-> TRUE,
   writeable |-> TRUE]
CopyTo(h, i, a) ==
  Repeat(LAMBDA g, k : Convert(g, NewAt(i) + k, Nth(a, k), job.ftypes[i]),
         Allocate(h, NewAt(i), Size(a)), Size(a))

\* _create_copies: small inputs are converted, and the copy takes the place
\* of the array and of the reference to it.
CreateCopies ==
  /\ pc = "arguments"
  /\ LET small(i) == Misfit(i) /\ Size(mps[i].arr) < job.bufsize
     IN  /\ mps' = [i \in Args |-> IF i # Out /\ small(i) THEN Fresh(i, mps[i].arr.dims) ELSE mps[i]]
         /\ heap' = Repeat(LAMBDA h, k : IF small(k + 1) THEN CopyTo(h, k + 1, mps[k + 1].arr) ELSE h,
                           heap, Nin)
  /\ pc' = "outputs"
  /\ UNCHANGED <<job, owned, iters, loop>>

InputArrays == [i \in 1..Nin |-> mps[i].arr]
OutDims == BroadcastDims(ToSet(InputArrays))

\* An out has another shape than the inputs have, or is not writeable.
OutRefused == mps[Out] # None /\ (mps[Out].arr.dims # OutDims \/ ~mps[Out].writeable)

\* Mutant: an out that is refused leaves the call with its reference.
BroadcastFailsLeaves ==
  /\ pc = "outputs"
  /\ IF Broadcastable(ToSet(InputArrays))
       THEN OutRefused /\ mps' = [mps EXCEPT ![Out] = None]
       ELSE UNCHANGED mps
  /\ pc' = "failed"
  /\ UNCHANGED <<job, owned, iters, heap, loop>>

\* The inputs do not go together, or an out is refused.
BroadcastFails ==
  /\ pc = "outputs"
  /\ IF Broadcastable(ToSet(InputArrays))
       THEN /\ OutRefused
            /\ mps' = [mps EXCEPT ![Out] = None]
            /\ owned' = [owned EXCEPT ![Out] = @ - 1]
       ELSE UNCHANGED <<mps, owned>>
  /\ pc' = "failed"
  /\ UNCHANGED <<job, iters, heap, loop>>

\* The output is a new array, out itself, or a copy that is written back.
MakeOutput ==
  /\ pc = "outputs"
  /\ Broadcastable(ToSet(InputArrays))
  /\ ~OutRefused
  /\ LET copies == mps[Out] # None /\ Misfit(Out) /\ Product(OutDims) < job.bufsize
     IN  /\ mps' = [mps EXCEPT ![Out] = IF @ = None \/ copies THEN Fresh(Out, OutDims) ELSE @]
         /\ owned' = [owned EXCEPT ![Out] = 1]
         /\ heap' = CASE mps[Out] = None -> Allocate(heap, NewAt(Out), Product(OutDims))
                      [] mps[Out] # None /\ copies -> CopyTo(heap, Out, mps[Out].arr)
                      [] OTHER -> heap
         /\ iters' = Append(MultiIterFromArrays(InputArrays), IterNew(mps'[Out].arr))
  /\ pc' = "choose"
  /\ UNCHANGED <<job, loop>>

\* loop->needbuffer.
NeedBuffer == {i \in Args : Misfit(i)}
Casts      == {i \in NeedBuffer : mps[i].type # job.ftypes[i]}
ISOBJECT   == \E i \in Args : "obj" \in {mps[i].type, job.ftypes[i]}
Axes       == Len(OutDims)

\* One step leads through all of every array: it is contiguous, or there is
\* no more than one axis, or it is a scalar.
Uniform ==
  \A i \in Args : iters[i].contiguous \/ Axes <= 1 \/ mps[i].arr.dims = <<>>

Method ==
  CASE NeedBuffer # {} -> "buffer"
    [] NeedBuffer = {} /\ Uniform -> "one"
    [] OTHER -> "nobuffer"

\* loop->lastdim: the last axis whose strides have the smallest sum.
InnerAxis ==
  LET total(k) == SumFunction([i \in Args |-> iters[i].strides[k]])
  IN  Max({k \in 1..Axes : \A j \in 1..Axes : total(k) <= total(j)})

LastStride(i) == LET a == mps[i].arr IN IF Size(a) = 1 THEN 0 ELSE a.strides[Len(a.dims)]

\* The loop over the whole of the arrays.
OneLoop ==
  [meth |-> "one", steps |-> [i \in Args |-> LastStride(i)], size |-> 1, index |-> 0,
   ptr |-> [i \in Args |-> mps[i].arr.data], count |-> Product(OutDims)]

\* The loops along one axis, which the iterators step over.  The steps of a
\* buffered argument are those in its buffer.
AxisLoop ==
  LET axis == InnerAxis
      dim  == OutDims[axis]
      stride(i) == iters[i].strides[axis]
  IN  [meth |-> Method, size |-> Product(OutDims) \div dim, index |-> 0, count |-> dim,
       laststrides |-> [i \in Args |-> stride(i)],
       steps |-> [i \in Args |-> IF i \in NeedBuffer /\ stride(i) # 0 THEN 1 ELSE stride(i)],
       ptr |-> [i \in Args |-> 0], k |-> 1,
       leftover |-> dim % job.bufsize, ninnerloops |-> (dim \div job.bufsize) + 1,
       objfunc |-> \E i \in NeedBuffer : job.ftypes[i] = "obj"]

\* The elements in the buffer of an argument.
Slot(steps, i)   == IF steps[i] = 0 THEN ScalarSlots ELSE job.bufsize
Slots(steps, is) == SumFunction([i \in is |-> Slot(steps, i)])

\* loop->buffer and loop->castbuf: one after the other, the casts at the end.
Buffer(i)  == BufAt + Slots(loop.steps, {j \in NeedBuffer : j < i})
CastBuf(i) == BufAt + Slots(loop.steps, NeedBuffer) + Slots(loop.steps, {j \in Casts : j < i})

ChooseLoop ==
  /\ pc = "choose"
  /\ IF Product(OutDims) = 0 THEN pc' = "end" /\ UNCHANGED <<iters, heap, loop>>
     ELSE /\ pc' = "row"
          /\ loop' = IF Method = "one" THEN OneLoop ELSE AxisLoop
          /\ iters' = IF Method = "one" THEN iters
                      ELSE [i \in Args |-> WithoutAxis(iters[i], InnerAxis)]
          /\ heap' = IF Method # "buffer" THEN heap
                     ELSE LET steps == AxisLoop.steps
                          IN  Allocate(heap, BufAt, Slots(steps, NeedBuffer) + Slots(steps, Casts))
  /\ UNCHANGED <<job, mps, owned>>

-----------------------------------------------------------------------------
(* The loops of NpyUFunc_GenericFunction.                                  *)

\* The ufunc, on one operand of each input.
Apply(xs) ==
  [v |-> <<-1>> \o [i \in 1..Nin |-> xs[i].v], type |-> job.ftypes[Out],
   swapped |-> \E i \in 1..Nin : xs[i].swapped \/ xs[i].type # job.ftypes[i]]

\* loop->function: n applications along the pointers.
InnerLoop(h, p, n) ==
  Repeat(LAMBDA g, k : Replace(g, p[Out] + k * loop.steps[Out],
                         Apply([i \in 1..Nin |-> Read(g, p[i] + k * loop.steps[i])])), h, n)

\* Mutant: an error leaves the objects in the buffers.
DropCastsNever(h) == h

\* The objects that casts made in the buffers are dropped, after the first
\* row or an error.  The word of a scalar stays in its buffer.
DropCasts(h) ==
  LET size   == IF loop.ninnerloops = 1 THEN loop.leftover ELSE job.bufsize
      scalar == {CastBuf(i) : i \in {j \in Casts : loop.steps[j] = 0}}
      vector == UNION {CastBuf(i)..(CastBuf(i) + size - 1) : i \in {j \in Casts : loop.steps[j] # 0}}
  IN  IF ~loop.objfunc THEN h
      ELSE [Release(h, scalar \cup vector) EXCEPT
              !.cells = [a \in DOMAIN h.cells |-> IF a \in vector THEN Null ELSE h.cells[a]]]

\* A ufunc may raise an error between two applications to objects.
Applications(n) == IF ISOBJECT THEN 0..n ELSE {n}

One ==
  /\ pc = "row" /\ loop.meth = "one"
  /\ \E done \in Applications(loop.count) :
       /\ heap' = InnerLoop(heap, loop.ptr, done)
       /\ pc' = IF done = loop.count THEN "end" ELSE "failed"
  /\ UNCHANGED <<job, mps, owned, iters, loop>>

\* The next row of an outer loop.
NextRow ==
  /\ iters' = [i \in Args |-> ITER_NEXT(iters[i])]
  /\ loop' = [loop EXCEPT !.index = @ + 1, !.k = 1, !.objfunc = FALSE]
  /\ pc' = IF loop.index + 1 = loop.size THEN "end" ELSE "row"

NoBufferRow ==
  /\ pc = "row" /\ loop.meth = "nobuffer"
  /\ \E done \in Applications(loop.count) :
       /\ heap' = InnerLoop(heap, [i \in Args |-> iters[i].dataptr], done)
       /\ IF done = loop.count THEN NextRow ELSE pc' = "failed" /\ UNCHANGED <<iters, loop>>
  /\ UNCHANGED <<job, mps, owned>>

BufferRow ==
  /\ pc = "row" /\ loop.meth = "buffer"
  /\ loop' = [loop EXCEPT !.ptr = [i \in Args |-> iters[i].dataptr]]
  /\ pc' = "chunk"
  /\ UNCHANGED <<job, mps, owned, iters, heap>>

\* The length of chunk k, and of the data of an argument in its buffer.
ChunkSize == IF loop.k = loop.ninnerloops THEN loop.leftover ELSE job.bufsize
DataSize(i) == IF loop.steps[i] = 0 THEN 1 ELSE ChunkSize

\* stopcondition.
LastChunk == IF loop.leftover = 0 THEN loop.ninnerloops - 1 ELSE loop.ninnerloops

\* Words are moved into a buffer, in the right byte order, and cast.
FillBuffer(h, i) ==
  LET swap  == mps[i].swapped
      moved == Repeat(LAMBDA g, k :
                        LET c == Read(g, loop.ptr[i] + k * loop.laststrides[i])
                        IN  Store(g, Buffer(i) + k, [c EXCEPT !.swapped = (@ # swap)]),
                      h, DataSize(i))
  IN  IF i \in Casts THEN CastN(moved, CastBuf(i), Buffer(i), DataSize(i), job.ftypes[i])
                     ELSE moved

\* Results are cast, put in the byte order of the array and moved to it in
\* place of the references there.
EmptyBuffer(h, i) ==
  LET swap == mps[i].swapped
      cast == IF i \in Casts THEN CastN(h, Buffer(i), CastBuf(i), DataSize(i), mps[i].type) ELSE h
  IN  Repeat(LAMBDA g, k :
               LET c  == Read(g, Buffer(i) + k)
                   to == loop.ptr[i] + k * loop.laststrides[i]
               IN  Store(Decref(g, IF mps[i].type = "obj" THEN Read(g, to) ELSE Null),
                         to, [c EXCEPT !.swapped = (@ # swap)]),
             cast, DataSize(i))

BufferChunk ==
  /\ pc = "chunk" /\ loop.k <= LastChunk
  /\ LET dptr == [i \in Args |-> CASE i \in Casts -> CastBuf(i)
                                   [] i \in NeedBuffer \ Casts -> Buffer(i)
                                   [] OTHER -> loop.ptr[i]]
         fill == Repeat(LAMBDA g, k : IF k + 1 \in NeedBuffer THEN FillBuffer(g, k + 1) ELSE g, heap, Nin)
     IN  \E done \in Applications(ChunkSize) : \E called \in {InnerLoop(fill, dptr, done)} :
           IF done = ChunkSize
             THEN /\ heap' = IF Out \in NeedBuffer THEN EmptyBuffer(called, Out) ELSE called
                  /\ loop' = [loop EXCEPT !.k = @ + 1,
                                !.ptr = [i \in Args |-> @[i] + ChunkSize * loop.laststrides[i]]]
                  /\ UNCHANGED pc
             ELSE heap' = DropCasts(called) /\ pc' = "failed" /\ UNCHANGED loop
  /\ UNCHANGED <<job, mps, owned, iters>>

BufferDone ==
  /\ pc = "chunk" /\ loop.k > LastChunk
  /\ heap' = DropCasts(heap)
  /\ NextRow
  /\ UNCHANGED <<job, mps, owned>>

-----------------------------------------------------------------------------
(* The end of the call.                                                    *)

Copied == mps[Out] # job.out /\ job.out # None

\* Mutant: the copy of out is never written back.
WrittenBackNever(h) == h

\* NpyArray_ForceUpdate of a copy of out.
WrittenBack(h) ==
  IF ~Copied THEN h
  ELSE Repeat(LAMBDA g, k : LET c == Read(g, NewAt(Out) + k)
                            IN  Store(g, Nth(job.out.arr, k),
                                      [c EXCEPT !.type = job.out.type, !.swapped = job.out.swapped]),
              h, Product(OutDims))

Succeed ==
  /\ pc = "end"
  /\ heap' = WrittenBack(heap)
  /\ pc' = "done"
  /\ UNCHANGED <<job, mps, owned, iters, loop>>

\* The finally block: every array that is left is given back.  After an error
\* nothing is written through a copy of out here: that is left to its end of
\* life (UpdateIfCopy).
TakeBack ==
  /\ pc \in {"done", "failed"}
  /\ owned' = [i \in Args |-> IF mps[i] = None THEN owned[i] ELSE owned[i] - 1]
  /\ pc' = IF pc = "done" THEN "returned" ELSE "raised"
  /\ UNCHANGED <<job, mps, iters, heap, loop>>

Over == pc \in {"returned", "raised"} /\ UNCHANGED vars

Next ==
  \/ CreateCopies \/ BroadcastFails \/ MakeOutput \/ ChooseLoop
  \/ One \/ NoBufferRow \/ BufferRow \/ BufferChunk \/ BufferDone
  \/ Succeed \/ TakeBack \/ Over

Spec == Init /\ [][Next]_vars

-----------------------------------------------------------------------------
(* What a call promises.                                                   *)

Result == IF Copied THEN job.out ELSE mps[Out]

\* The value before the call of input i at the coordinates c of the output.
Operand(i, c) ==
  LET a == job.inputs[i].arr
      shift == Len(c) - Len(a.dims)
  IN  <<a.data + Dot([k \in DOMAIN a.dims |-> IF a.dims[k] = 1 THEN 0 ELSE c[k + shift]], a.strides) + 1>>

\* Every element of the output is the ufunc's value for the elements of the
\* inputs that broadcasting puts there, whatever loop and buffers were used.
ResultAsPromised ==
  pc = "returned" =>
    \A n \in 0..(Product(OutDims) - 1) :
      Read(heap, Nth(Result.arr, n)) =
        [v |-> <<-1>> \o [i \in 1..Nin |->
                  Operand(i, Digits([k \in 1..Axes |-> Below(OutDims, k)], n))],
         type |-> Result.type, swapped |-> Result.swapped]

\* Nothing but the output is written: an input that is not the output keeps
\* its elements, and a call that fails before its loop leaves out alone.
NothingElseWritten ==
  \A i \in DOMAIN Given : \A a \in Addresses(Given[i].arr) :
    \/ job.out # None /\ a \in Addresses(job.out.arr) /\ loop # None
    \/ Read(heap, a).v = <<a + 1>>

CallAsPromised == ResultAsPromised /\ NothingElseWritten

\* The cells outside of the buffers, which end with the call.
Holders(v) ==
  Cardinality({a \in DOMAIN heap.cells : (a < BufAt \/ pc \notin {"done", "failed", "returned", "raised"})
                                         /\ heap.cells[a].type = "obj" /\ heap.cells[a].v = v})

\* Every object in a cell has a reference for it, none is dropped twice, and
\* when the call is over no reference is left that is not in an array.
ObjectsKept ==
  /\ ~heap.bad
  /\ \A v \in DOMAIN heap.refs :
       /\ Holders(v) <= heap.refs[v]
       /\ pc \in {"returned", "raised"} => Holders(v) = heap.refs[v]

\* The call gives back each reference to an array that it took, once.
Released ==
  /\ \A i \in Args : owned[i] \in 0..1
  /\ pc \in {"returned", "raised"} => \A i \in Args : owned[i] = 0

\* A call loses and invents no reference, to an object or to an array, on any
\* path to its end.
ReferencesKept == ObjectsKept /\ Released

TypeOK ==
  /\ pc \in {"arguments", "outputs", "choose", "row", "chunk", "end",
             "done", "failed", "returned", "raised"}
  /\ \A i \in Args : mps[i] = None => owned[i] = 0
  /\ loop # None => loop.index \in 0..loop.size
=============================================================================
