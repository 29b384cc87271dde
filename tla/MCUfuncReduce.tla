--------------------------- MODULE MCUfuncReduce ---------------------------
EXTENDS UfuncReduce

A(dims, strides, data) == [dims |-> dims, strides |-> strides, data |-> data]

\* Two or three axes in C and in Fortran order, backwards, repeated, empty.
Inputs ==
  {A(<<5>>, <<1>>, 0), A(<<4>>, <<-2>>, 7), A(<<3>>, <<0>>, 2), A(<<1>>, <<1>>, 3),
   A(<<2, 3>>, <<3, 1>>, 0), A(<<3, 2>>, <<1, 3>>, 0), A(<<1, 3>>, <<3, 1>>, 0),
   A(<<2, 2, 2>>, <<2, 4, 1>>, 0), A(<<0, 2>>, <<2, 1>>, 0), A(<<2, 0>>, <<1, 1>>, 0)}

Base == [op |-> "reduce", arr |-> A(<<5>>, <<1>>, 0), axis |-> 1, ind |-> <<>>, bufsize |-> 2,
         atype |-> "num", otype |-> "num", swapped |-> FALSE, aligned |-> TRUE,
         identity |-> "none", out |-> None, outtype |-> "num", writeable |-> TRUE]

\* The ways an array of numbers may have to be converted: not at all, from
\* another type, from the other byte order, or only to be aligned.
Kinds == {<<"num", FALSE, TRUE>>, <<"wide", FALSE, TRUE>>, <<"wide", TRUE, TRUE>>,
          <<"num", TRUE, TRUE>>, <<"num", FALSE, FALSE>>}

Plain == {[Base EXCEPT !.op = op, !.arr = a, !.axis = k, !.bufsize = b,
                       !.atype = kind[1], !.swapped = kind[2], !.aligned = kind[3],
                       !.identity = identity] :
            op \in {"reduce", "accumulate"}, a \in Inputs, k \in 1..3, b \in {1, 2, 3, 9},
            kind \in Kinds, identity \in {"none", "left", "other"}}

Indices == {<<>>, <<0>>, <<1, 0>>, <<0, 2, 1>>, <<2, 2>>, <<0, 1, 4>>, <<-1>>}

Reduceat(kinds, identities) ==
  {[Base EXCEPT !.op = "reduceat", !.arr = a, !.axis = k, !.bufsize = b, !.ind = ind,
                !.atype = kind[1], !.swapped = kind[2], !.aligned = kind[3],
                !.identity = identity] :
     a \in Inputs, k \in 1..2, b \in {1, 2, 9}, ind \in Indices, kind \in kinds,
     identity \in identities}

\* Into an array of the caller: its own, a transposed one, a wrong size, one of
\* another type and a read-only one.
Into == {[j EXCEPT !.out = o, !.outtype = w[1], !.writeable = w[2]] :
           j \in {k \in Plain : k.arr = A(<<2, 3>>, <<3, 1>>, 0) /\ k.identity = "none"},
           o \in {A(<<3>>, <<1>>, 100), A(<<2>>, <<-2>>, 104),
                  A(<<2, 3>>, <<3, 1>>, 100), A(<<2, 3>>, <<1, 2>>, 100)},
           w \in {<<"num", TRUE>>, <<"wide", TRUE>>, <<"num", FALSE>>}}

ReduceatInto == {[j EXCEPT !.out = o] :
                   j \in {k \in Reduceat(Kinds, {"left"}) :
                            k.arr = A(<<2, 3>>, <<3, 1>>, 0) /\ k.ind \in {<<1, 0>>, <<0, 2, 1>>}},
                   o \in {A(<<2, 2>>, <<1, 2>>, 100), A(<<2, 3>>, <<3, 1>>, 100)}}

\* Objects in, out or both.
Objects == {[j EXCEPT !.atype = t[1], !.otype = t[2]] :
              j \in {k \in Plain : k.atype = "num" /\ ~k.swapped /\ k.aligned /\ k.identity = "none"},
              t \in {<<"obj", "obj">>, <<"num", "obj">>, <<"obj", "num">>}}
           \cup {[j EXCEPT !.atype = "obj", !.otype = "obj"] :
                   j \in Reduceat({<<"num", FALSE, TRUE>>}, {"none"})}

\* What the model leaves to the README: accumulate from objects to numbers,
\* where a number is counted as if it were an object.
Sound(j) == /\ j.axis <= Len(j.arr.dims)
            /\ ~(j.op = "accumulate" /\ j.atype = "obj" /\ j.otype # "obj"
                 /\ Product(j.arr.dims) >= j.bufsize)
            /\ (j.out # None /\ j.op # "reduce") =>
                 LET dims == IF j.op = "accumulate" THEN j.arr.dims
                             ELSE [j.arr.dims EXCEPT ![j.axis] = Len(j.ind)]
                 IN  j.out.dims = dims \/ Product(j.out.dims) # Product(dims)

MCJobs == {j \in Plain \cup Into \cup ReduceatInto \cup Objects
                 \cup Reduceat(Kinds, {"left"}) \cup Reduceat({<<"num", FALSE, TRUE>>}, {"none", "other"}) :
             Sound(j)}

\* reduceat of a ufunc such as subtract.
ReduceatJobs == {j \in Reduceat(Kinds, {"other"}) : Sound(j)}

\* reduceat of no index into an array of the caller.
EmptyJobs == {[Base EXCEPT !.op = "reduceat", !.out = A(<<0>>, <<1>>, 100)]}

MCGarbage == {-7, 0, 3}
=============================================================================
