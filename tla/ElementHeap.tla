---------------------------- MODULE ElementHeap ----------------------------
(***************************************************************************)
(* The memory that the loops of ufuncs work on, and the functions that     *)
(* move elements in it.  A heap is [cells, refs, bad].  A cell is          *)
(* [v, type, swapped]: a value, its type, and whether it is in the other   *)
(* byte order.  A cell of type "obj" is a reference to the object v;       *)
(* refs[v] counts the references to v as the interface of numpy/core       *)
(* does, and bad tells that a count went wrong.                            *)
(***************************************************************************)
EXTENDS Strided, TLC

Null == [v |-> <<>>, type |-> "null", swapped |-> FALSE]

Read(h, a) == IF a \in DOMAIN h.cells THEN h.cells[a] ELSE Null
Store(h, a, c) == [h EXCEPT !.cells[a] = c]
Allocate(h, at, n) == [h EXCEPT !.cells = [a \in at..(at + n - 1) |-> Null] @@ @]

\* The references to the object of value v, 0 when it was destroyed or never made.
RefCount(h, v) == IF v \in DOMAIN h.refs THEN h.refs[v] ELSE 0
Count(h, v, k) == [h EXCEPT !.refs = (v :> RefCount(h, v) + k) @@ @]

\* NpyInterface_INCREF and NpyInterface_DECREF of the word in a cell.
IsObject(h, c) == c.type = "obj" /\ RefCount(h, c.v) > 0
CountWord(h, c, k) ==
  CASE c.type = "null" -> h
    [] IsObject(h, c)  -> Count(h, c.v, k)
    [] OTHER           -> [h EXCEPT !.bad = TRUE]
Incref(h, c) == CountWord(h, c, 1)
Decref(h, c) == CountWord(h, c, -1)

\* A new value takes the place of what the cell at a holds.
Replace(h, a, c) ==
  Store(IF c.type = "obj" THEN Decref(Count(h, c.v, 1), Read(h, a)) ELSE h, a, c)

\* The references in some cells are dropped; numbers are left alone.
Release(h, cells) ==
  LET held(v) == Cardinality({a \in cells : Read(h, a).type = "obj" /\ Read(h, a).v = v})
      left    == [v \in DOMAIN h.refs |-> h.refs[v] - held(v)]
  IN  [h EXCEPT !.refs = left, !.bad = @ \/ \E v \in DOMAIN left : left[v] < 0]

\* op for k from 0 to n - 1, each on what the one before left of h.
Repeat(op(_, _), h, n) ==
  LET after[k \in 0..n] ==
        IF k = 0 THEN h ELSE CHOOSE r \in {op(g, k - 1) : g \in {after[k - 1]}} : TRUE
  IN  after[n]

\* descr->f->copyswap.
CopySwap(h, dst, src, swap) ==
  LET c == Read(h, src)
  IN  IF c.type = "obj" THEN Store(Decref(Incref(h, c), Read(h, dst)), dst, c)
                        ELSE Store(h, dst, [c EXCEPT !.swapped = (@ # swap)])

\* loop->cast, from one buffer to the other.
CastN(h, dst, src, n, type) ==
  Repeat(LAMBDA g, k : Replace(g, dst + k, [Read(g, src + k) EXCEPT !.type = type]), h, n)

\* An element that is copied to dst and converted on the way.
Convert(h, dst, src, type) ==
  LET c == [Read(h, src) EXCEPT !.type = type, !.swapped = FALSE]
  IN  IF Read(h, src).type = "obj" /\ type = "obj" THEN Store(Incref(h, c), dst, c)
                                                   ELSE Replace(h, dst, c)

-----------------------------------------------------------------------------
(* Arrays in the heap.                                                     *)

Size(a) == Product(a.dims)

\* The address of the element number n, from 0, in C order.
Nth(a, n) == a.data + Dot(Digits([i \in DOMAIN a.dims |-> Below(a.dims, i)], n), a.strides)

Addresses(a) == {Nth(a, n) : n \in 0..(Size(a) - 1)}

Ccontiguous(dims, at) ==
  [dims |-> dims, strides |-> [i \in DOMAIN dims |-> Below(dims, i)], data |-> at]
=============================================================================
