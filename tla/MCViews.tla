------------------------------ MODULE MCViews ------------------------------
EXTENDS Views

From(size, dims, strides, data) ==
  [size |-> size, view |-> [dims |-> dims, strides |-> strides, data |-> data]]

\* In C and in Fortran order, with gaps, backwards, with axes of length 1 and
\* 0, without axes, and with gaps between some of the axes only.
MCStarts ==
  {From(12, <<2, 6>>, <<6, 1>>, 0), From(12, <<2, 3, 2>>, <<1, 2, 6>>, 0),
   From(12, <<6>>, <<2>>, 1), From(12, <<6>>, <<-1>>, 8), From(12, <<2, 3>>, <<6, 2>>, 0),
   From(12, <<3, 2>>, <<4, 1>>, 1), From(12, <<1, 6>>, <<12, 1>>, 2),
   From(12, <<2, 1, 3>>, <<-3, 9, 1>>, 3), From(12, <<2, 0>>, <<2, 1>>, 4),
   From(12, <<1>>, <<5>>, 7), From(12, <<>>, <<>>, 7), From(12, <<3, 2, 2>>, <<4, 2, 1>>, 0)}

MCShapes ==
  {<<6>>, <<12>>, <<-1>>, <<2, 3>>, <<3, 2>>, <<1, 6>>, <<6, 1>>, <<2, 1, 3>>, <<-1, 2>>,
   <<3, 4>>, <<2, 3, 2>>, <<2, 0>>, <<>>, <<1, 1>>, <<4>>}

MCStrides == {<<1>>, <<-1>>, <<2>>, <<1, -1>>, <<-1, 2>>}

\* Strides for two axes that lead to the end of the memory together.
FarStrides == MCStrides \cup {<<6, 6>>, <<1, 2>>}

I(at)         == [kind |-> "intp", at |-> at]
B(at)         == [kind |-> "bool", at |-> at]
S(i, j, k)    == [kind |-> "slice", slice |-> [start |-> i, stop |-> j, step |-> k]]
All           == S(None, None, None)
New           == [kind |-> "newaxis"]
L(items)      == [kind |-> "list", dims |-> <<Len(items)>>, items |-> items]
L2(dims, items) == [kind |-> "list", dims |-> dims, items |-> items]
M(dims, items) == [kind |-> "mask", dims |-> dims, items |-> items]

\* Indexes for arrays with so many axes.
MCIndexes ==
  [n \in 0..3 |->
     CASE n = 0 -> {<<Ellipsis, New>>}
       [] n = 1 -> {<<I(-1)>>, <<S(4, 0, -1)>>, <<New, S(1, 5, 2), Ellipsis>>, <<L(<<1, -1, 1>>)>>,
                    <<L2(<<2, 2>>, <<0, 3, 2, -5>>)>>, <<M(<<4>>, <<TRUE, FALSE, FALSE, TRUE>>)>>}
       [] n = 2 -> {<<I(-1)>>, <<Ellipsis, S(None, None, -2)>>, <<All, New, B(1)>>,
                    <<L(<<0, 1>>), L2(<<2, 1>>, <<1, 0>>)>>, <<L(<<1, -2, 0>>), I(-1)>>,
                    <<S(1, None, -1), L(<<0, -1, 1>>)>>, <<L(<<1, 0, 1>>)>>,
                    <<M(<<2, 3>>, <<TRUE, FALSE, TRUE, FALSE, TRUE, TRUE>>)>>}
       [] n = 3 -> {<<I(1), Ellipsis, I(-1)>>, <<Ellipsis, L(<<1, 0>>)>>, <<All, L(<<0, 0, 0>>), S(0, 1, 1)>>,
                    <<L(<<1, 0>>), All, L(<<0, 1>>)>>, <<All, L(<<1, 0>>), L(<<0, 1>>)>>,
                    <<M(<<2, 1>>, <<TRUE, TRUE>>), All>>}]

MCAssignIndexes ==
  [n \in 0..3 |->
     CASE n = 0 -> {<<New, Ellipsis>>, <<Ellipsis>>}
       [] n = 1 -> {<<S(1, None, 3)>>, <<L(<<1, -1, 1>>)>>}
       [] n = 2 -> {<<I(-1)>>, <<All, L(<<0, -1>>)>>, <<L(<<1, 1>>), L(<<0, 0>>)>>}
       [] n = 3 -> {<<All, All, L(<<1, 0>>)>>, <<L(<<1, 0>>), All, L(<<0, 1>>)>>, <<All, L(<<1, 0>>), L(<<0, 0>>)>>}]

MCValues == {[dims |-> <<>>, items |-> <<100>>], [dims |-> <<2>>, items |-> <<101, 102>>]}

\* y[np.array([0, 2, 4]), 1:3], and the mask and slice after it, for an array
\* with fewer rows.
DocIndexes ==
  [n \in {2} |-> {<<L(<<0, 1>>), S(1, 3, 1)>>, <<M(<<2>>, <<FALSE, TRUE>>), S(1, 3, 1)>>}]
=============================================================================
