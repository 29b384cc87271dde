---------------------------- MODULE MCUfuncCall ----------------------------
EXTENDS UfuncCall

A(dims, strides, data) == [dims |-> dims, strides |-> strides, data |-> data]

\* What may have to be done to the elements of an array.
Kinds == {<<"num", FALSE, TRUE>>, <<"wide", FALSE, TRUE>>, <<"num", TRUE, TRUE>>,
          <<"num", FALSE, FALSE>>}
Of(arr, kind) == [arr |-> arr, type |-> kind[1], swapped |-> kind[2], aligned |-> kind[3], writeable |-> TRUE]
Plain(arr) == Of(arr, <<"num", FALSE, TRUE>>)

Row5   == A(<<5>>, <<1>>, 0)
Rows   == A(<<2, 3>>, <<3, 1>>, 0)
Back   == A(<<3>>, <<-2>>, 34)
Scalar == A(<<>>, <<>>, 6)

\* Pairs of inputs that are of one shape or stretched to it, or do not fit.
Pairs ==
  {<<Row5, A(<<5>>, <<-2>>, 28)>>, <<Row5, Scalar>>, <<Rows, A(<<2, 3>>, <<1, 2>>, 20)>>,
   <<Rows, Back>>, <<Rows, A(<<2, 1>>, <<1, 9>>, 20)>>, <<A(<<2, 1, 2>>, <<2, 1, 1>>, 0), A(<<3, 1>>, <<1, 1>>, 20)>>,
   <<A(<<2, 0>>, <<1, 1>>, 0), Scalar>>, <<Rows, Row5>>, <<A(<<1>>, <<1>>, 3), Scalar>>}

Base == [inputs |-> <<Plain(Row5), Plain(Scalar)>>, out |-> None, ftypes |-> <<"num", "num", "num">>,
         bufsize |-> 2]

Binary == {[Base EXCEPT !.inputs = <<Of(p[1], k1), Of(p[2], k2)>>, !.bufsize = b] :
             p \in Pairs, k1 \in Kinds, k2 \in Kinds, b \in {2, 3, 9}}

\* Into an array of the caller: in C and in Fortran order, in place, too
\* small, read-only.
Into == {[j EXCEPT !.out = o] :
           j \in {k \in Binary : k.inputs[1].arr = Rows /\ k.inputs[2] = Plain(k.inputs[2].arr)},
           o \in {Of(A(<<2, 3>>, <<3, 1>>, 40), k) : k \in Kinds}
                 \cup {Of(A(<<2, 3>>, <<-1, 2>>, 41), k) : k \in Kinds}
                 \cup {Plain(A(<<3>>, <<1>>, 40)), [Plain(A(<<2, 3>>, <<3, 1>>, 40)) EXCEPT !.writeable = FALSE]}}
InPlace == {[j EXCEPT !.out = j.inputs[1]] :
              j \in {k \in Binary : k.inputs[1].arr \in {Row5, Rows}}}

\* A ufunc for objects, of numbers or objects, with a numeric or a new output.
Objects(arrays) ==
  {[Base EXCEPT !.inputs = <<Of(p[1], <<t[1], FALSE, TRUE>>), Of(p[2], <<t[2], FALSE, TRUE>>)>>,
                !.ftypes = <<"obj", "obj", "obj">>, !.bufsize = b,
                !.out = IF o = None THEN None ELSE Of(o, <<"num", FALSE, TRUE>>)] :
     p \in arrays, t \in {"num", "obj"} \X {"num", "obj"}, b \in {2, 3, 9},
     o \in {None, A(<<5>>, <<1>>, 40)}}

Lines == {<<Row5, A(<<5>>, <<-2>>, 28)>>, <<Row5, A(<<1>>, <<1>>, 28)>>}

Unary == {[Base EXCEPT !.inputs = <<Of(a, k)>>, !.ftypes = <<"num", "num">>, !.bufsize = b] :
            a \in {Row5, Rows, Back, Scalar, A(<<2, 3, 2>>, <<6, 1, 3>>, 0)}, k \in Kinds, b \in {2, 4}}

MCJobs == Binary \cup Unary \cup Into \cup InPlace \cup Objects(Lines)

\* Objects in more than one row of a buffered loop.
RowJobs == {[j EXCEPT !.out = None] : j \in Objects({<<Rows, Back>>, <<Rows, A(<<2, 1>>, <<1, 9>>, 20)>>})}
=============================================================================
