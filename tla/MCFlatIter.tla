----------------------------- MODULE MCFlatIter -----------------------------
EXTENDS FlatIter

A(dims, strides, data) == [dims |-> dims, strides |-> strides, data |-> data]

\* Six elements in rows of three, the same transposed, a column, ...
Rows     == A(<<2, 3>>, <<3, 1>>, 0)
Columns  == A(<<3, 2>>, <<1, 3>>, 0)
Column   == A(<<2, 1>>, <<3, 3>>, 1)
Reversed == A(<<3>>, <<-2>>, 4)
Scalar   == A(<<>>, <<>>, 5)
Empty    == A(<<2, 0>>, <<1, 1>>, 0)
Cube     == A(<<2, 2, 2>>, <<2, 4, 1>>, 0)
Row      == A(<<3>>, <<1>>, 8)

\* ... and what they are copied into.
Rows2    == A(<<2, 3>>, <<3, 1>>, 8)
Columns2 == A(<<3, 2>>, <<1, 3>>, 8)
Upward   == A(<<3, 2>>, <<-2, 1>>, 12)
Sparse   == A(<<2, 2>>, <<4, 2>>, 8)
Cube2    == A(<<2, 2, 2>>, <<1, 2, 4>>, 8)
Duo      == A(<<2>>, <<1>>, 8)
Square   == A(<<2, 2>>, <<2, 1>>, 0)
Line     == A(<<3>>, <<2>>, 8)

MCFlatArrays == {Rows, Columns, Reversed, Scalar, Empty, Cube}
MCPairs == {<<Column, Duo>>, <<Square, Sparse>>, <<Scalar, Sparse>>}
MCCopies ==
  {<<Rows2, Rows>>, <<Columns2, Columns>>, <<Upward, Columns>>, <<Cube2, Cube>>,
   <<Rows2, Column>>, <<Columns2, Column>>, <<Sparse, Scalar>>, <<Columns2, Scalar>>,
   <<Line, Scalar>>, <<Line, Reversed>>, <<Upward, A(<<2>>, <<-1>>, 1)>>,
   <<Row, Rows>>, <<Empty, Row>>, <<A(<<1, 3>>, <<3, 1>>, 8), Reversed>>,
   <<Row, A(<<1, 3>>, <<6, 2>>, 0)>>, <<A(<<2, 2, 3>>, <<6, 3, 1>>, 8), Column>>}

Slice(i, j, s) == [kind |-> "slice", slice |-> [start |-> i, stop |-> j, step |-> s]]
MCIndexes ==
  {Slice(i, j, s) : i \in {None, -9, -2, 7}, j \in {None, -9, -3, 2, 7}, s \in {None, 2, -1, -3}}
  \cup {[kind |-> "all"]}
  \cup {[kind |-> "intp", at |-> i] : i \in {-3, 0, 5}}
  \cup {[kind |-> "mask", mask |-> m] : m \in {<<FALSE, TRUE>>, <<TRUE, FALSE, FALSE, TRUE, TRUE>>}}
  \cup {[kind |-> "list", list |-> l] : l \in {<<>>, <<2, -1, 2>>, <<1, 9>>}}
MCPositions == {-2, 1, 6}
MCValues == {<<>>, <<101, 102>>}
=============================================================================
