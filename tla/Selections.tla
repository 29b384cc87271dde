----------------------------- MODULE Selections -----------------------------
(***************************************************************************)
(* Which elements of an array an index promises to select, and in which    *)
(* shape: the rules of numpy/doc/indexing.py, stated by coordinates.  None *)
(* of this is how the code finds them (module Indexing).                   *)
(*                                                                         *)
(* An index is a sequence of parts: [kind |-> "intp", at],                 *)
(* [kind |-> "bool", at] with 0 or 1, [kind |-> "slice", slice],           *)
(* [kind |-> "ellipsis"], [kind |-> "newaxis"], and arrays of integers     *)
(* [kind |-> "list", dims, items] and of Booleans [kind |-> "mask", dims,  *)
(* items] with their items in C order.                                     *)
(***************************************************************************)
EXTENDS Strided

\* The positions a slice selects among n elements.
SlicePositions(s, n) ==
  LET step == IF s.step = None THEN 1 ELSE s.step
      wrap(i) == IF i < 0 THEN i + n ELSE i
      from == IF step > 0 THEN IF s.start = None THEN 0 ELSE Max({0, wrap(s.start)})
                          ELSE IF s.start = None THEN n - 1 ELSE Min({n - 1, wrap(s.start)})
      inside(p) == s.stop # None => IF step > 0 THEN p < wrap(s.stop) ELSE p > wrap(s.stop)
      hit == {p \in 0..(n - 1) : /\ inside(p)
                                 /\ \E j \in 0..n : p = from + j * step}
  IN  IF step > 0 THEN Ascending(hit) ELSE Reverse(Ascending(hit))

\* The coordinates of element n, from 0, in C order.
CoordsOf(dims, n) == [i \in DOMAIN dims |-> (n \div Below(dims, i)) % dims[i]]

Ellipsis   == [kind |-> "ellipsis"]
Everything == [kind |-> "slice", slice |-> [start |-> None, stop |-> None, step |-> None]]

\* How many axes the parts of an index are for.
AxesFor(ix) ==
  SumFunction([i \in DOMAIN ix |->
    CASE ix[i].kind \in {"ellipsis", "newaxis"} -> 0
      [] ix[i].kind = "mask" -> Len(ix[i].dims)
      [] OTHER -> 1])

\* The coordinates of the TRUE items of a mask, one list for each axis.
TrueItems(p) ==
  LET true == SelectSeq([n \in DOMAIN p.items |-> n], LAMBDA n : p.items[n])
  IN  [j \in DOMAIN p.dims |->
         [kind |-> "list", dims |-> <<Len(true)>>,
          items |-> [h \in DOMAIN true |-> CoordsOf(p.dims, true[h] - 1)[j]]]]

\* One part for each axis, and the new axes.
Spread(ix, nd) ==
  LET all == IF \E i \in DOMAIN ix : ix[i] = Ellipsis THEN ix ELSE Append(ix, Ellipsis)
  IN  FlattenSeq([i \in DOMAIN all |->
        CASE all[i].kind = "ellipsis" -> [k \in 1..(nd - AxesFor(ix)) |-> Everything]
          [] all[i].kind = "mask"     -> TrueItems(all[i])
          [] all[i].kind = "bool"     -> <<[kind |-> "intp", at |-> all[i].at]>>
          [] OTHER                    -> <<all[i]>>])

Fancy(parts)   == \E k \in DOMAIN parts : parts[k].kind \in {"list", "mask"}
AxisOf(e, k)   == Cardinality({j \in 1..k : e[j].kind # "newaxis"})
WrapAt(i, dim) == IF i < 0 THEN i + dim ELSE i

\* An integer counts as a list if there is one.
AsList(p) == IF p.kind = "intp" THEN [dims |-> <<>>, items |-> <<p.at>>]
                                ELSE [dims |-> p.dims, items |-> p.items]
ListsOf(e) == {k \in DOMAIN e : e[k].kind = "list" \/ (Fancy(e) /\ e[k].kind = "intp")}


AcceptedParts(e, dims) ==
  /\ Broadcastable({AsList(e[k]) : k \in ListsOf(e)} \cup {[dims |-> <<>>, items |-> <<>>]})
  /\ \A k \in DOMAIN e : e[k].kind \in {"intp", "list"} =>
       \A i \in ToSet(AsList(e[k]).items) : WrapAt(i, dims[AxisOf(e, k)]) \in 0..(dims[AxisOf(e, k)] - 1)

\* The index is one that an array of this shape accepts.
Legal(ix, dims) == AxesFor(ix) <= Len(dims) /\ AcceptedParts(Spread(ix, Len(dims)), dims)

-----------------------------------------------------------------------------
(* The result of an index with the parts e.  The axes of the lists, which  *)
(* are broadcast together, take the place of the lists if these stand next *)
(* to each other, and come first if they do not.                           *)

Basics(e)          == {k \in DOMAIN e : e[k].kind \in {"slice", "newaxis"}}
BasicsBefore(e, k) == Cardinality({j \in Basics(e) : j < k})
ListDims(lists)    == IF lists = {} THEN <<>> ELSE BroadcastDims(lists)

\* How many axes of the result are in front of those of the lists.
InFront(e, lists) ==
  IF lists # {} /\ lists = Min(lists)..Max(lists) THEN BasicsBefore(e, Min(lists)) ELSE 0

\* The axes of the result: those of the lists, and for each other part the
\* positions it selects and the axis they are along.
Layout(e, dims, front, among) ==
  [front |-> front, among |-> among,
   pos   |-> [k \in Basics(e) |-> IF e[k].kind = "newaxis" THEN <<0>>
                                  ELSE SlicePositions(e[k].slice, dims[AxisOf(e, k)])],
   along |-> [k \in Basics(e) |->
                BasicsBefore(e, k) + 1 + (IF BasicsBefore(e, k) >= front THEN Len(among) ELSE 0)],
   part  |-> [axis \in DOMAIN dims |-> CHOOSE k \in DOMAIN e : e[k].kind # "newaxis" /\ AxisOf(e, k) = axis]]

ResultDims(l) ==
  [r \in 1..(Cardinality(DOMAIN l.pos) + Len(l.among)) |->
     IF r \in (l.front + 1)..(l.front + Len(l.among)) THEN l.among[r - l.front]
     ELSE Len(l.pos[CHOOSE k \in DOMAIN l.pos : l.along[k] = r])]

\* The item of a list at coordinates c among the axes of the lists.
ItemOf(list, c) ==
  list.items[1 + SumFunction([i \in DOMAIN list.dims |->
    (IF list.dims[i] = 1 THEN 0 ELSE c[i + Len(c) - Len(list.dims)]) * Below(list.dims, i)])]

\* Where part k leads to along an axis of length dim, at coordinates c of the result.
Leads(e, l, k, dim, c) ==
  IF k \in DOMAIN l.pos THEN l.pos[k][c[l.along[k]] + 1]
  ELSE WrapAt(ItemOf(AsList(e[k]), SubSeq(c, l.front + 1, l.front + Len(l.among))), dim)

Elements(e, l, dims, shape) ==
  [dims |-> shape,
   at   |-> [n \in 1..Product(shape) |->
               [axis \in DOMAIN dims |->
                  Leads(e, l, l.part[axis], dims[axis], CoordsOf(shape, n - 1))]]]

ChosenLaid(e, l, dims) == Elements(e, l, dims, ResultDims(l))
ChosenParts(e, dims) ==
  ChosenLaid(e, Layout(e, dims, InFront(e, ListsOf(e)), ListDims({AsList(e[k]) : k \in ListsOf(e)})), dims)

\* The shape of the result of a legal index, and the coordinates in the array
\* of each of its elements, in C order.
Chosen(ix, dims) == ChosenParts(Spread(ix, Len(dims)), dims)
=============================================================================
