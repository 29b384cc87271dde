----------------------------- MODULE ItemRules ------------------------------
(***************************************************************************)
(* What take, put, putmask, repeat, choose, sort, argsort, lexsort,        *)
(* searchsorted and nonzero promise (add_newdocs.py, c-api.array.rst),     *)
(* stated by coordinates and ranks.  None of this is how the code finds    *)
(* its results (module ItemSelection).                                     *)
(*                                                                         *)
(* What an array shows is [dims, items], its items in C order.  Axes are   *)
(* numbered from 1.                                                        *)
(***************************************************************************)
EXTENDS Selections

Number(dims, c) == Dot(c, [i \in DOMAIN dims |-> Below(dims, i)])
At(x, c) == x.items[Number(x.dims, c) + 1]

\* The item of x at coordinates c of a shape that x is broadcast to.
BroadcastAt(x, c) ==
  At(x, [i \in DOMAIN x.dims |-> IF x.dims[i] = 1 THEN 0 ELSE c[i + Len(c) - Len(x.dims)]])

ArrayOf(dims, F(_)) ==
  [dims |-> dims, items |-> [n \in 1..Product(dims) |-> F(CoordsOf(dims, n - 1))]]

\* Where an index leads to among n items, if it is accepted.
Accepted(i, n, mode) == mode = "raise" => i \in (0 - n)..(n - 1)
Position(i, n, mode) ==
  CASE mode = "raise" -> WrapAt(i, n)
    [] mode = "wrap"  -> i % n
    [] mode = "clip"  -> Min({Max({i, 0}), n - 1})

\* The axis that is meant: None is the only axis of the flattened array.
Ravelled(x, axis) == IF axis = None \/ x.dims = <<>> THEN [x EXCEPT !.dims = <<Len(x.items)>>] ELSE x
HasAxis(dims, axis) == axis = None \/ axis \in (0 - Len(dims))..(Len(dims) - 1)
Axis(dims, axis) == IF axis = None THEN 1 ELSE WrapAt(axis, Len(dims)) + 1

-----------------------------------------------------------------------------
(* Selecting.                                                              *)

\* The axis of x is replaced by those of the list of positions.
Taken(x, axis, list) ==
  LET nl == Len(list.dims)
      from(c) == SubSeq(c, 1, axis - 1) \o <<At(list, SubSeq(c, axis, axis + nl - 1))>>
                   \o SubSeq(c, axis + nl, Len(c))
  IN  ArrayOf(SubSeq(x.dims, 1, axis - 1) \o list.dims \o SubSeq(x.dims, axis + 1, Len(x.dims)),
              LAMBDA c : At(x, from(c)))

\* Positions n times each, in a list.
Times(counts) ==
  LET all == FlattenSeq([j \in DOMAIN counts |-> [k \in 1..counts[j] |-> j - 1]])
  IN  [dims |-> <<Len(all)>>, items |-> all]

\* choices[list[c]][c] for the coordinates c of the shape of all of them.
ChosenFrom(choices, list, mode) ==
  ArrayOf(BroadcastDims(ToSet(choices) \cup {list}),
          LAMBDA c : BroadcastAt(choices[Position(BroadcastAt(list, c), Len(choices), mode) + 1], c))

\* The address of element n of a, from 0, in C order.
Place(a, n) == a.data + Dot(CoordsOf(a.dims, n), a.strides)
Shown(m, a) == [dims |-> a.dims, items |-> [n \in 1..Product(a.dims) |-> m[Place(a, n - 1)]]]

\* m with the values given to the elements of a at some positions, again from
\* the first when there are too few; the last one wins.
GivenTo(m, a, positions, values) ==
  LET hit(x) == {j \in DOMAIN positions : Place(a, positions[j]) = x}
  IN  [x \in DOMAIN m |-> IF hit(x) = {} THEN m[x] ELSE values[((Max(hit(x)) - 1) % Len(values)) + 1]]

-----------------------------------------------------------------------------
(* Sorting.                                                                *)

\* Along an axis through coordinates c, and where c is in it.
Line(x, axis, c) == [k \in 1..x.dims[axis] |-> At(x, [c EXCEPT ![axis] = k - 1])]

Sorted(s) == \A j, k \in DOMAIN s : j < k => s[j] <= s[k]

\* The item of rank n, from 0.
OfRank(s, n) ==
  CHOOSE v \in ToSet(s) : /\ Cardinality({k \in DOMAIN s : s[k] < v}) <= n
                          /\ n < Cardinality({k \in DOMAIN s : s[k] <= v})
SortedAlong(x, axis) == ArrayOf(x.dims, LAMBDA c : OfRank(Line(x, axis, c), c[axis]))

\* Position p comes before q: by the last line in which they differ, and by
\* their places if they do in none.
Precedes(lines, p, q) ==
  \/ \E j \in DOMAIN lines : /\ lines[j][p] < lines[j][q]
                             /\ \A k \in (j + 1)..Len(lines) : lines[k][p] = lines[k][q]
  \/ p < q /\ \A j \in DOMAIN lines : lines[j][p] = lines[j][q]
Ranked(lines, n) ==
  CHOOSE p \in DOMAIN lines[1] : Cardinality({q \in DOMAIN lines[1] : Precedes(lines, q, p)}) = n
OrderAlong(keys, axis) ==
  ArrayOf(keys[1].dims, LAMBDA c : Ranked([j \in DOMAIN keys |-> Line(keys[j], axis, c)], c[axis]) - 1)

\* How many items of a sorted list are in front of where a key goes.
InFrontOf(s, key, side) ==
  Cardinality({k \in DOMAIN s : s[k] < key \/ (side = "right" /\ s[k] = key)})
=============================================================================
