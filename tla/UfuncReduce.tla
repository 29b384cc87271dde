---------------------------- MODULE UfuncReduce ----------------------------
(***************************************************************************)
(* ufunc.reduce, accumulate and reduceat (npy_ufunc_object.c), from the    *)
(* choice of a loop to the release of its buffers.  One call is made; Init *)
(* chooses it.                                                             *)
(*                                                                         *)
(* The ufunc is a symbol: a value is <<k>> for the element of the input at *)
(* address k - 1, Identity, or the application of the ufunc to two values, *)
(* so that a result tells what it was computed from.                       *)
(***************************************************************************)
EXTENDS Strided, ElementHeap

CONSTANTS Jobs,      \* the calls: [op, arr, axis, ind, bufsize, atype, otype,
                     \*   swapped, aligned, identity, out, outtype, writeable],
                     \*   the last two of out; identity is "none",
                     \*   "left" or "other", which is not one on the left
          Garbage    \* what a field that is not initialised may hold

VARIABLES job,
          aar,     \* the array that is reduced: the argument or its copy
          ret,     \* the array that is written
          heap,    \* [cells, refs, bad]; bad once a count is wrong
          loop,    \* NpyUFuncReduceObject
          pc

vars == <<job, aar, ret, heap, loop, pc>>

\* Where the arrays and buffers are.
CopyAt == 50
RetAt  == 200
BufAt  == 300

-----------------------------------------------------------------------------
(* The ufunc.                                                              *)

Identity == <<0>>

\* The ufunc itself; what it makes of an operand in the wrong byte order or
\* of the wrong type is marked as swapped.
Apply(x, y) ==
  [v |-> IF x.v = Identity /\ job.identity = "left" THEN y.v ELSE Append(x.v, y.v),
   type |-> job.otype,
   swapped |-> x.swapped \/ y.swapped \/ x.type # job.otype \/ y.type # job.otype]

\* loop->function: n applications along the three pointers.
InnerLoop(h, p, s, n) ==
  Repeat(LAMBDA g, k : Replace(g, p[3] + k * s[3],
                         Apply(Read(g, p[1] + k * s[1]), Read(g, p[2] + k * s[2]))), h, n)

-----------------------------------------------------------------------------
\* The out argument holds old values, none of them references.
Init ==
  /\ job \in Jobs
  /\ aar = job.arr
  /\ ret = None
  /\ LET input == [a \in Addresses(job.arr) |->
                     [v |-> <<a + 1>>, type |-> job.atype, swapped |-> job.swapped]]
         old == IF job.out = None THEN {} ELSE Addresses(job.out)
     IN  heap = [cells |-> input @@ [a \in old |-> Null],
                 refs  |-> IF job.atype = "obj" THEN [v \in {c.v : c \in Range(input)} |-> 1]
                                                ELSE <<>>,
                 bad   |-> FALSE]
  /\ loop = None
  /\ pc = "copy"

-----------------------------------------------------------------------------
(* construct_reduce.                                                       *)

\* The array cannot be used as it is.
NeedsCast == job.swapped \/ ~job.aligned \/ job.atype # job.otype

\* _create_reduce_copy: a small array is converted at once.
CreateReduceCopy ==
  /\ pc = "copy"
  /\ IF Size(job.arr) < job.bufsize /\ NeedsCast
       THEN /\ aar' = Ccontiguous(job.arr.dims, CopyAt)
            /\ heap' = Repeat(LAMBDA h, k : Convert(h, CopyAt + k, Nth(job.arr, k), job.otype),
                              Allocate(heap, CopyAt, Size(job.arr)), Size(job.arr))
       ELSE UNCHANGED <<aar, heap>>
  /\ pc' = "construct"
  /\ UNCHANGED <<job, ret, loop>>

Copied == aar # job.arr
Length == aar.dims[job.axis]

\* The elements of the converted argument, which goes with the loop.
CopyCells == IF Copied THEN Addresses(aar) ELSE {}

Method ==
  CASE Length = 0 -> "zero"
    [] Length = 1 /\ (Copied \/ ~NeedsCast) -> "one"
    [] Length > 1 /\ (Copied \/ ~NeedsCast) -> "nobuffer"
    [] OTHER -> "buffer"

RetDims ==
  CASE job.op = "reduce"     -> RemoveAt(aar.dims, job.axis)
    [] job.op = "accumulate" -> aar.dims
    [] job.op = "reduceat"   -> [aar.dims EXCEPT ![job.axis] = Len(job.ind)]

NeedsIdentity == Method = "zero" \/ (job.op = "reduceat" /\ Method = "buffer")

\* reduceat of no index leaves before ret is set to the out it is given.
NullRet == job.op = "reduceat" /\ job.ind = <<>> /\ job.out # None

\* An index out of bounds, no identity, or an out of the wrong size or one that
\* is read-only, which cannot be used as it is nor be written back to.
Rejected ==
  \/ job.op = "reduceat" /\ \E i \in DOMAIN job.ind : job.ind[i] \notin 0..(Length - 1)
  \/ NeedsIdentity /\ job.identity = "none"
  \/ job.out # None /\ ~NullRet /\ (Size(job.out) # Product(RetDims) \/ ~job.writeable)

ConstructFails ==
  /\ pc = "construct" /\ Rejected
  /\ heap' = Release(heap, CopyCells)
  /\ pc' = "failed"
  /\ UNCHANGED <<job, aar, ret, loop>>

\* A copy of out is written back at the end.
Retbase == job.out # None /\ (~IsContiguous(job.out) \/ job.outtype # job.otype)

\* NpyArray_CopyInto of the copy: its elements, cast to the type of out.
WrittenBack(cells) ==
  LET copied == CopyInto(cells, job.out, ret)
      cast(c) == IF c = Null THEN c ELSE [c EXCEPT !.type = job.outtype]
  IN  [a \in DOMAIN copied |-> IF a \in Addresses(job.out) THEN cast(copied[a]) ELSE copied[a]]

NewRet ==
  CASE job.out = None -> Ccontiguous(RetDims, RetAt)
    [] job.out # None /\ Retbase -> Ccontiguous(job.out.dims, RetAt)
    [] OTHER -> job.out

\* loop->steps[0].
OutStep(r) == IF job.op = "accumulate" THEN r.strides[job.axis] ELSE 0

\* The loop object.  The step along an axis with one element is never set.
LoopFor(r, garbage) ==
  LET meth == IF Method = "one" /\ job.op = "reduceat" THEN "nobuffer" ELSE Method
      rows == meth \in {"nobuffer", "buffer"}
      cast == meth = "buffer" /\ job.atype # job.otype
      s1   == CASE Method = "nobuffer" -> aar.strides[job.axis]
                [] Method = "buffer" -> 1
                [] OTHER -> garbage
  IN  [meth  |-> meth,
       N     |-> IF Method = "nobuffer" THEN Length - 1 ELSE Length,
       it    |-> IF rows THEN WithoutAxis(IterNew(aar), job.axis) ELSE IterNew(aar),
       rit   |-> IF rows /\ job.op # "reduce" THEN WithoutAxis(IterNew(r), job.axis) ELSE None,
       ptr   |-> <<r.data, IF cast THEN BufAt + job.bufsize ELSE BufAt, r.data + OutStep(r)>>,
       steps |-> <<OutStep(r), s1, OutStep(r)>>,
       size  |-> CASE meth = "zero" -> Size(r)
                   [] meth = "one"  -> Size(aar)
                   [] OTHER         -> Size(aar) \div Length,
       cast  |-> cast, index |-> 0, seg |-> 1, inptr |-> 0, n |-> 0, last |-> 0]

\* The buffers are cleared when objects are involved; a number in them is
\* never read before it is written.
MakeLoop ==
  /\ ret' = NewRet
  /\ \E g \in IF Method = "one" THEN Garbage ELSE {0} : loop' = LoopFor(NewRet, g)
  /\ LET fresh == IF job.out = None \/ Retbase THEN Allocate(heap, RetAt, Size(NewRet)) ELSE heap
         size  == IF job.atype = job.otype THEN job.bufsize ELSE 2 * job.bufsize
     IN  heap' = IF Method = "buffer" THEN Allocate(fresh, BufAt, size) ELSE fresh

\* With a NULL ret the caller's Npy_INCREF(ret) is the end.
Construct ==
  /\ pc = "construct" /\ ~Rejected
  /\ IF NullRet THEN pc' = "crashed" /\ UNCHANGED <<ret, heap, loop>>
     ELSE /\ MakeLoop
          /\ pc' = IF job.op = "reduceat" /\ job.ind = <<>> THEN "end" ELSE "row"
  /\ UNCHANGED <<job, aar>>

-----------------------------------------------------------------------------
(* The rows of NpyUFunc_Reduce, Accumulate and Reduceat.                   *)

\* loop->obj: the array that is read or the result holds objects.
ReadsObjects == job.atype = "obj" /\ ~Copied
ISOBJECT == job.otype = "obj" \/ ReadsObjects

IdentityCell == [v |-> Identity, type |-> job.otype, swapped |-> FALSE]

\* Mutant: the reference that is copied is not counted.
MoveUncounted(h, dst, c) == Store(h, dst, c)

\* memmove of one element, after its reference is counted.
Move(h, dst, c) == Store(IF ISOBJECT THEN Incref(h, c) ELSE h, dst, c)

\* The ufunc may raise an error between two applications to objects.
Applications(n) == IF ISOBJECT THEN 0..n ELSE {n}

\* Mutant: the pointer to write to stays at the row before.
NextRowBehind(l) ==
  LET next == [l EXCEPT !.it = ITER_NEXT(@), !.index = @ + 1, !.seg = 1]
  IN  IF l.rit = None THEN [next EXCEPT !.ptr[1] = @ + 1] ELSE next

\* The iterators and pointers of the next row.
NextRow(l) ==
  LET next == [l EXCEPT !.it = ITER_NEXT(@), !.index = @ + 1, !.seg = 1]
      rit  == ITER_NEXT(l.rit)
      out  == IF l.rit = None THEN l.ptr[1] + 1 ELSE rit.dataptr
  IN  IF l.rit = None THEN [next EXCEPT !.ptr[1] = out, !.ptr[3] = out]
      ELSE [next EXCEPT !.rit = rit, !.ptr[1] = out, !.ptr[3] = out + l.steps[1]]

\* Mutant: the next segment has the index of this one.
NextSegmentSame(l) ==
  IF l.seg = Len(job.ind) THEN NextRow(l) ELSE [l EXCEPT !.ptr[1] = @ + ret.strides[job.axis]]

\* After output element seg of a row of reduceat.
NextSegment(l) ==
  IF l.seg = Len(job.ind) THEN NextRow(l)
  ELSE [l EXCEPT !.seg = @ + 1, !.ptr[1] = @ + ret.strides[job.axis]]

\* How far the segment reaches: to the next index or to the end.
SegmentLength ==
  (IF loop.seg = Len(job.ind) THEN Length ELSE job.ind[loop.seg + 1]) - job.ind[loop.seg]

AtRow(meth) == pc = "row" /\ loop.meth = meth /\ loop.index < loop.size

\* What ufuncreduce_dealloc leaves of a call that fails: a copy is written
\* back to out, a new array is destroyed with the references in it.
Abandoned(h) ==
  LET own    == IF job.out # None THEN CopyCells ELSE CopyCells \cup Addresses(ret)
      copied == IF Retbase THEN WrittenBack(h.cells) ELSE h.cells
  IN  [Release(h, own) EXCEPT !.cells = copied]

\* n applications of the ufunc; then the loop is next, unless it raised.
Call(h, p, n, next, then) ==
  \E done \in Applications(n) : \E after \in {InnerLoop(h, p, loop.steps, done)} :
    IF done = n THEN heap' = after /\ loop' = next /\ pc' = then
                ELSE heap' = Abandoned(after) /\ pc' = "failed" /\ UNCHANGED loop

ZeroElement ==
  /\ AtRow("zero")
  /\ heap' = Move(heap, loop.ptr[1], IdentityCell)
  /\ loop' = [loop EXCEPT !.ptr[1] = @ + 1, !.index = @ + 1]
  /\ UNCHANGED <<job, aar, ret, pc>>

OneElement ==
  /\ AtRow("one")
  /\ heap' = Move(heap, loop.ptr[1], Read(heap, loop.it.dataptr))
  /\ loop' = [loop EXCEPT !.it = ITER_NEXT(@), !.ptr[1] = @ + 1, !.index = @ + 1]
  /\ UNCHANGED <<job, aar, ret, pc>>

\* The first element of the row goes to the output, the others follow.
NoBufferRow ==
  /\ AtRow("nobuffer") /\ job.op # "reduceat"
  /\ Call(Move(heap, loop.ptr[1], Read(heap, loop.it.dataptr)),
          [loop.ptr EXCEPT ![2] = loop.it.dataptr + loop.steps[2]],
          loop.N, NextRow(loop), "row")
  /\ UNCHANGED <<job, aar, ret>>

NoBufferSegment ==
  /\ AtRow("nobuffer") /\ job.op = "reduceat"
  /\ LET first == loop.it.dataptr + job.ind[loop.seg] * loop.steps[2]
         to    == loop.ptr[1]
     IN  Call(Move(heap, to, Read(heap, first)), <<to, first + loop.steps[2], to>>,
              Max({SegmentLength - 1, 0}), NextSegment(loop), "row")
  /\ UNCHANGED <<job, aar, ret>>

CastBuf == BufAt + job.bufsize

\* The first element of the row goes to the output by way of the buffers.
\* accumulate counts what it cast even when it is no object.
BufferRow ==
  /\ AtRow("buffer") /\ job.op # "reduceat"
  /\ LET inptr == loop.it.dataptr
         cast  == CastN(CopySwap(heap, BufAt, inptr, job.swapped), CastBuf, BufAt, 1, job.otype)
         made  == ISOBJECT /\ (job.op = "accumulate" \/ ~ReadsObjects)
         term  == Read(cast, CastBuf)
     IN  /\ heap' = IF ~loop.cast THEN CopySwap(heap, loop.ptr[1], inptr, job.swapped)
                    ELSE Store(IF made THEN Incref(cast, term) ELSE cast, loop.ptr[1], term)
         /\ loop' = [loop EXCEPT !.inptr = inptr + aar.strides[job.axis], !.n = 1, !.last = loop.N]
  /\ pc' = "chunk"
  /\ UNCHANGED <<job, aar, ret>>

\* reduceat starts from the identity.
BufferSegment ==
  /\ AtRow("buffer") /\ job.op = "reduceat"
  /\ heap' = Move(heap, loop.ptr[1], IdentityCell)
  /\ loop' = [loop EXCEPT !.n = 0, !.last = Max({SegmentLength, 1}), !.ptr[3] = loop.ptr[1],
                          !.inptr = loop.it.dataptr + job.ind[loop.seg] * aar.strides[job.axis]]
  /\ pc' = "chunk"
  /\ UNCHANGED <<job, aar, ret>>

\* Mutant: the last chunk of a row is as long as the others.
ChunkFull == job.bufsize

\* How many elements fit into the buffer.
Chunk == Min({job.bufsize, loop.last - loop.n})

BufferChunk ==
  /\ pc = "chunk" /\ loop.n < loop.last
  /\ LET n == Chunk
         stride == aar.strides[job.axis]
         filled == Repeat(LAMBDA h, k : CopySwap(h, BufAt + k, loop.inptr + k * stride, job.swapped),
                          heap, n)
         cast == IF loop.cast THEN CastN(filled, CastBuf, BufAt, n, job.otype) ELSE filled
     IN  Call(cast, loop.ptr, n,
              [loop EXCEPT !.inptr = @ + n * stride, !.n = @ + n,
                           !.ptr[1] = @ + n * loop.steps[1], !.ptr[3] = @ + n * loop.steps[3]],
              "chunk")
  /\ UNCHANGED <<job, aar, ret>>

BufferDone ==
  /\ pc = "chunk" /\ loop.n = loop.last
  /\ loop' = IF job.op = "reduceat" THEN NextSegment(loop) ELSE NextRow(loop)
  /\ pc' = "row"
  /\ UNCHANGED <<job, aar, ret, heap>>

\* The buffer cells whose references are dropped after the last row.
LeftOver ==
  IF loop.meth # "buffer" \/ ~ISOBJECT THEN {}
  ELSE CASE ~ReadsObjects -> CastBuf..(CastBuf + job.bufsize - 1)
         [] ReadsObjects /\ job.op = "reduce" -> BufAt..(CastBuf - 1)
         [] OTHER -> {}

\* The buffers, the copies and, unless it is out itself, the temporary
\* result go; a copied array of objects drops its references.
Finish ==
  /\ pc = "end" \/ (pc = "row" /\ loop.index = loop.size)
  /\ LET clear == Release(heap, LeftOver \cup CopyCells)
     IN  heap' = [clear EXCEPT !.cells = IF Retbase THEN WrittenBack(@) ELSE @]
  /\ pc' = "done"
  /\ UNCHANGED <<job, aar, ret, loop>>

Returned == pc \in {"done", "failed", "crashed"} /\ UNCHANGED vars

Next ==
  \/ CreateReduceCopy \/ ConstructFails \/ Construct
  \/ ZeroElement \/ OneElement \/ NoBufferRow \/ NoBufferSegment
  \/ BufferRow \/ BufferSegment \/ BufferChunk \/ BufferDone
  \/ Finish \/ Returned

Spec == Init /\ [][Next]_vars

-----------------------------------------------------------------------------
(* What a call promises.                                                   *)

\* The ufunc applied from the left to a non-empty sequence of values.
Folded(vs) ==
  FoldLeft(LAMBDA x, y : IF x = Identity /\ job.identity = "left" THEN y ELSE Append(x, y),
           Head(vs), Tail(vs))

\* The elements of the input along the axis, at the other coordinates of c.
Line(c) ==
  LET a == job.arr
      rest == Dot([c EXCEPT ![job.axis] = 0], a.strides)
  IN  [k \in 1..a.dims[job.axis] |-> <<a.data + rest + (k - 1) * a.strides[job.axis] + 1>>]

\* array[indices[i]:indices[i+1]], or one element when that is empty.
Segment(line, i) ==
  LET from == job.ind[i] + 1
      to   == IF i = Len(job.ind) THEN Len(line) ELSE job.ind[i + 1]
  IN  SubSeq(line, from, Max({from, to}))

\* The value of the output element with coordinates c.
Promised(c) ==
  CASE job.op = "reduce" ->
         LET line == Line(InsertAt(c, job.axis, 0))
         IN  IF line = <<>> THEN Identity ELSE Folded(line)
    [] job.op = "accumulate" -> Folded(SubSeq(Line(c), 1, c[job.axis] + 1))
    [] job.op = "reduceat"   -> Folded(Segment(Line(c), c[job.axis] + 1))

Result == IF Retbase THEN job.out ELSE ret

\* Every element of the result is the ufunc applied to the elements of its
\* line or segment from the first to the last, in the right type and order,
\* whatever loop was chosen and wherever the buffer ended.
ResultAsPromised ==
  pc = "done" =>
    \A n \in 0..(Size(Result) - 1) :
      Read(heap, Nth(Result, n)) =
        [v |-> Promised(Digits([i \in DOMAIN RetDims |-> Below(RetDims, i)], n)),
         type |-> IF job.out = None THEN job.otype ELSE job.outtype, swapped |-> FALSE]

\* The cells that exist: all of them during the call, and the arrays that
\* are left after it.
LiveCells ==
  CASE pc = "done"   -> Addresses(job.arr) \cup Addresses(Result)
    [] pc = "failed" -> Addresses(job.arr) \cup (IF job.out = None THEN {} ELSE Addresses(job.out))
    [] OTHER         -> DOMAIN heap.cells

Holders(v) ==
  Cardinality({a \in LiveCells : heap.cells[a].type = "obj" /\ heap.cells[a].v = v})

\* Every object in a cell has a reference for it, and none is dropped twice.
ReferencesOwned ==
  /\ ~heap.bad
  /\ \A v \in DOMAIN heap.refs : Holders(v) <= heap.refs[v]

\* When the call is over, and unless it failed with objects in its buffers,
\* every reference is one of a cell that exists.
ReferencesReturned ==
  \/ pc \notin {"done", "failed"}
  \/ pc = "failed" /\ Method = "buffer"
  \/ \A v \in DOMAIN heap.refs : Holders(v) = heap.refs[v]

\* No loop copies an object without counting it, or counts it twice.
ReferencesKept == ReferencesOwned /\ ReferencesReturned

\* A call fails only for its arguments, or because the ufunc raised.
FailsForACause ==
  pc = "failed" =>
    \/ ISOBJECT
    \/ Length = 0 /\ job.identity = "none"
    \/ job.out # None /\ (Size(job.out) # Product(RetDims) \/ ~job.writeable)
    \/ job.op = "reduceat" /\ \E i \in DOMAIN job.ind : job.ind[i] \notin 0..(Length - 1)

\* Both: a call returns what is promised, or has a reason not to.
CallAsPromised == ResultAsPromised /\ FailsForACause

\* npy_ufunc_object.c:975: every element of reduceat is reduce of its segment,
\* whatever the identity of the ufunc is.
ReduceatReduces == job.op = "reduceat" => ResultAsPromised

\* npy_ufunc_object.c:1030, "zero-length index -- return array immediately": so
\* it is when no out is given.
EmptyReduceatReturns == pc # "crashed"

\* The row, and the elements of it that are done, stay within their bounds.
TypeOK ==
  /\ pc \in {"copy", "construct", "row", "chunk", "end", "done", "failed", "crashed"}
  /\ \A v \in DOMAIN heap.refs : heap.refs[v] \in Nat
  /\ loop # None => /\ loop.index \in 0..loop.size
                    /\ loop.n \in 0..loop.last

\* What is left to do: rows, then segments, then elements of the segment.
Left ==
  CASE pc = "copy"      -> 100001
    [] pc = "construct" -> 100000
    [] pc = "row"       -> 1000 * (loop.size - loop.index) - 20 * loop.seg + 19
    [] pc = "chunk"     -> 1000 * (loop.size - loop.index) - 20 * loop.seg + loop.last - loop.n
    [] pc = "end"       -> 0
    [] OTHER            -> -100

\* Every step leaves less to do, so that every call returns.
Advances == [][Left' < Left]_vars
=============================================================================
