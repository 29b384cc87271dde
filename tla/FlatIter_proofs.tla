--------------------------- MODULE FlatIter_proofs --------------------------
(***************************************************************************)
(* Theorems about FlatIter, for arrays with any number of axes, any        *)
(* lengths and any strides: index, pointer and coordinates of an iterator  *)
(* agree, positions find their elements, and the iterators of a broadcast  *)
(* object stay in step.                                                    *)
(*                                                                         *)
(* Strided_proofs has the arithmetic of coordinates.  Walks says what      *)
(* stays of an iterator and Stands what its index, pointer and coordinates *)
(* have to do with one another; NextStands, GotoStands, CoordsStand and    *)
(* ResetIsNew say that the operations of an iterator keep both.  Reading   *)
(* and assigning through a position, a slice, a mask or a list then        *)
(* reaches exactly the elements that the rules select, in their order.     *)
(***************************************************************************)
EXTENDS FlatIter, Strided_proofs

-----------------------------------------------------------------------------
(* The coordinates of a place.                                             *)

LEMMA AllCoordsAre ==
  ASSUME NEW dims \in Seq(Nat)
  PROVE  AllCoords(dims) = Coordinates(dims)
  <1>. DEFINE n == Len(dims)
              S == ToSet(dims) \cup {0}
              top == Max(S)
  <1>0. DOMAIN dims = 1..n /\ \A i \in 1..n : dims[i] \in Nat
    OBVIOUS
  <1>1. top \in Nat /\ \A i \in 1..n : dims[i] <= top
    <2>1. PICK b \in Nat : \A i \in 1..n : dims[i] <= b
      BY LengthsBounded
    <2>2. \A i \in 1..n : dims[i] \in S
      BY <1>0 DEF ToSet
    <2>3. S \in SUBSET (0..b) /\ S # {}
      BY <1>0, <2>1 DEF ToSet
    <2>. HIDE DEF S
    <2>4. Max(S) \in S /\ \A y \in S : Max(S) >= y
      BY <2>3, MaxOf
    <2>5. Max(S) \in Nat
      <3>1. \A y \in S : y \in 0..b
        BY <2>3
      <3>2. Max(S) \in 0..b
        BY <2>4, <3>1
      <3>. HIDE DEF top
      <3>. QED
        BY <2>1, <3>2
    <2>. QED
      BY <1>0, <2>2, <2>4, <2>5
  <1>. HIDE DEF top
  <1>2. ASSUME NEW c \in Coordinates(dims)  PROVE c \in AllCoords(dims)
    <2>1. c = [i \in 1..n |-> c[i]]
      BY DEF Coordinates
    <2>2. \A i \in 1..n : c[i] \in Nat /\ c[i] < dims[i]
      BY DEF Coordinates
    <2>3. \A i \in 1..n : c[i] \in 0..top
      BY <1>0, <1>1, <2>2
    <2>4. c \in [DOMAIN dims -> 0..top]
      BY <1>0, <2>1, <2>3
    <2>. QED
      BY <1>0, <2>2, <2>4 DEF AllCoords, top, S
  <1>3. ASSUME NEW c \in AllCoords(dims)  PROVE c \in Coordinates(dims)
    <2>1. c \in [1..n -> 0..top] /\ \A i \in 1..n : c[i] < dims[i]
      BY <1>0 DEF AllCoords, top, S
    <2>2. c \in [1..n -> Nat]
      BY <1>1, <2>1
    <2>. QED
      BY <2>1, <2>2 DEF Coordinates
  <1>. QED
    BY <1>2, <1>3

LEMMA BeforeIs ==
  ASSUME NEW dims \in Seq(Nat), NEW c \in Coordinates(dims), NEW d \in Coordinates(dims)
  PROVE  Before(d, c) <=> Place(dims, d) < Place(dims, c)
  <1>. DEFINE n == Len(dims)
  <1>0. DOMAIN d = 1..n /\ \A i \in 1..n : c[i] \in Nat /\ d[i] \in Nat
    BY DEF Coordinates
  <1>1. ASSUME Before(d, c)  PROVE Place(dims, d) < Place(dims, c)
    <2>1. PICK k \in 1..n : d[k] < c[k] /\ \A j \in 1..(k - 1) : d[j] = c[j]
      BY <1>0, <1>1 DEF Before
    <2>. QED
      BY <2>1, PlaceOrder
  <1>2. ASSUME Place(dims, d) < Place(dims, c)  PROVE Before(d, c)
    <2>0. Place(dims, d) \in Int /\ Place(dims, c) \in Int
      BY PlaceBelow
    <2>1. d # c
      BY <1>2, <2>0
    <2>2. PICK k \in 1..n : d[k] # c[k] /\ \A j \in 1..(k - 1) : d[j] = c[j]
      BY <2>1, FirstDifference
    <2>3. ~(c[k] < d[k])
      <3>. SUFFICES ASSUME c[k] < d[k]  PROVE FALSE
        OBVIOUS
      <3>1. \A j \in 1..(k - 1) : c[j] = d[j]
        BY <2>2
      <3>2. Place(dims, c) < Place(dims, d)
        BY <3>1, PlaceOrder
      <3>. QED
        BY <3>2, <2>0, <1>2
    <2>4. d[k] < c[k]
      BY <1>0, <2>2, <2>3
    <2>. QED
      BY <1>0, <2>2, <2>4 DEF Before
  <1>. QED
    BY <1>1, <1>2

\* As many elements come before one as its place says.
LEMMA HowManyBefore ==
  ASSUME NEW dims \in Seq(Nat), NEW c \in Coordinates(dims)
  PROVE  Cardinality({d \in AllCoords(dims) : Before(d, c)}) = Place(dims, c)
  <1>. DEFINE p == Place(dims, c)
              S == {d \in AllCoords(dims) : Before(d, c)}
              T == 0..(p - 1)
              f == [m \in T |-> Digits(Factors(dims), m)]
  <1>1. p \in 0..(Product(dims) - 1) /\ Product(dims) \in Nat
    BY PlaceBelow, BelowStep
  <1>2. S = {d \in Coordinates(dims) : Place(dims, d) < p}
    <2>1. S = {d \in Coordinates(dims) : Before(d, c)}
      BY AllCoordsAre
    <2>. QED
      BY <2>1, BeforeIs
  <1>. HIDE DEF S, p
  <1>3. ASSUME NEW m \in T
        PROVE  f[m] \in Coordinates(dims) /\ Place(dims, f[m]) = m
    <2>1. m \in 0..(Product(dims) - 1)
      BY <1>1
    <2>. QED
      BY <2>1, PlaceOfDigits
  <1>. HIDE DEF f
  <1>4. \A m \in T : f[m] \in S
    BY <1>1, <1>2, <1>3
  <1>5. DOMAIN f = T /\ f = [m \in T |-> f[m]]
    BY DEF f
  <1>6. \A d \in S : \E m \in T : f[m] = d
    <2>. SUFFICES ASSUME NEW d \in S  PROVE \E m \in T : f[m] = d
      OBVIOUS
    <2>1. d \in Coordinates(dims) /\ Place(dims, d) < p
      BY <1>2
    <2>2. Place(dims, d) \in T
      <3>1. Place(dims, d) \in 0..(Product(dims) - 1)
        BY <2>1, PlaceBelow
      <3>. QED
        BY <1>1, <2>1, <3>1
    <2>3. f[Place(dims, d)] = d
      BY <1>3, <2>1, <2>2, PlaceUnique
    <2>. QED
      BY <2>2, <2>3
  <1>7. f \in Bijection(T, S)
    <2>1. f \in [T -> S]
      BY <1>4, <1>5
    <2>2. \A m \in T, k \in T : f[m] = f[k] => m = k
      BY <1>3
    <2>. QED
      BY <2>1, <2>2, <1>6 DEF Bijection, Injection, Surjection, IsInjective
  <1>8. IsFiniteSet(T) /\ Cardinality(T) = p
    <2>1. 0 \in Int /\ p - 1 \in Int /\ p \in Nat
      BY <1>1
    <2>2. IsFiniteSet(T) /\ Cardinality(T) = IF 0 > p - 1 THEN 0 ELSE (p - 1) - 0 + 1
      BY <2>1, FS_Interval
    <2>. QED
      BY <2>1, <2>2
  <1>9. Cardinality(S) = Cardinality(T)
    <2>1. ExistsBijection(T, S)
      BY <1>7 DEF ExistsBijection
    <2>. HIDE DEF T
    <2>. QED
      BY <1>8, <2>1, FS_Bijection
  <1>. QED
    BY <1>8, <1>9 DEF S, p

\* The n-th coordinates in C order are those whose place is n.
LEMMA CoordsAtIs ==
  ASSUME NEW dims \in Seq(Nat), NEW c \in Coordinates(dims)
  PROVE  CoordsAt(dims, Place(dims, c)) = c
  <1>. DEFINE Rank(d) == Cardinality({e \in AllCoords(dims) : Before(e, d)})
              n == Place(dims, c)
  <1>1. c \in AllCoords(dims) /\ Rank(c) = n
    BY AllCoordsAre, HowManyBefore
  <1>2. ASSUME NEW d \in AllCoords(dims), Rank(d) = n  PROVE d = c
    <2>1. d \in Coordinates(dims)
      BY AllCoordsAre
    <2>2. Place(dims, d) = n
      BY <1>2, <2>1, HowManyBefore
    <2>. QED
      BY <2>1, <2>2, PlaceUnique
  <1>3. CoordsAt(dims, n) = CHOOSE d \in AllCoords(dims) : Rank(d) = n
    BY DEF CoordsAt
  <1>. HIDE DEF Rank, n
  <1>4. CoordsAt(dims, n) = c
    BY <1>1, <1>2, <1>3
  <1>. QED
    BY <1>4 DEF n

LEMMA CoordsAtDigits ==
  ASSUME NEW dims \in Seq(Nat), NEW m \in 0..(Product(dims) - 1)
  PROVE  /\ CoordsAt(dims, m) = Digits(Factors(dims), m)
         /\ CoordsAt(dims, m) \in Coordinates(dims) /\ Place(dims, CoordsAt(dims, m)) = m
  <1>1. Digits(Factors(dims), m) \in Coordinates(dims)
        /\ Place(dims, Digits(Factors(dims), m)) = m
    BY PlaceOfDigits
  <1>2. CoordsAt(dims, m) = Digits(Factors(dims), m)
    BY <1>1, CoordsAtIs
  <1>. QED
    BY <1>1, <1>2

-----------------------------------------------------------------------------
(* The addresses a walk reaches.                                           *)

\* Broadcasting an array, with the strides of the axes it repeats set to 0, is
\* looking its elements up by the coordinates.
LEMMA AddressOfIs ==
  ASSUME NEW a, NEW dims, Meets(a, dims), NEW c \in Coordinates(dims)
  PROVE  AddressOf(a, c) = a.data + SumFunction(Reach(c, StridesFor(a, dims), Len(dims)))
  <1>. DEFINE n == Len(dims)
              na == Len(a.dims)
              o == n - na
              s == StridesFor(a, dims)
              C == [i \in DOMAIN a.dims |-> IF a.dims[i] = 1 THEN 0 ELSE c[i + Len(c) - na]]
              F == [i \in DOMAIN C |-> C[i] * a.strides[i]]
              G == Reach(c, s, n)
              Same == {i \in 0..na : After(F, na, i) = After(G, n, i + o)}
              Leading == {j \in 0..o : After(G, n, j) = After(G, n, o)}
  <1>0. n \in Nat /\ na \in Nat /\ o \in Nat /\ na + o = n /\ dims \in Seq(Nat)
        /\ DOMAIN dims = 1..n
    BY DEF Meets, IsArray
  <1>1. AddressOf(a, c) = a.data + SumFunction(F)
    BY DEF AddressOf, Dot
  <1>2. DOMAIN C = 1..na /\ DOMAIN F = 1..na
    BY DEF Meets, IsArray
  <1>3. \A i \in 1..n : c[i] \in Nat /\ dims[i] \in Nat /\ c[i] < dims[i]
    BY DEF Coordinates, Meets
  <1>4. Len(c) = n
    BY <1>0 DEF Coordinates
  <1>5. s \in [1..n -> Int]
    BY StridesForType
  <1>6. Terms(G, n)
    <2>. HIDE DEF s
    <2>. QED
      BY <1>0, <1>5, ReachTerms
  <1>7. \A i \in 1..na : a.dims[i] \in Nat /\ a.strides[i] \in Int
    BY SMTT(20) DEF Meets, IsArray
  <1>8. ASSUME NEW i \in 1..na  PROVE F[i] = G[i + o]
    <2>. DEFINE j == i + o
    <2>1. j \in 1..n /\ Own(a, dims, j) = i /\ i > 0
      BY <1>0 DEF Own
    <2>2. Stretched(a, n, j) = a.dims[i]
      <3>1. j + na - n = i
        BY <1>0
      <3>. QED
        BY <2>1, <3>1 DEF Stretched
    <2>3. a.dims[i] = 1 \/ a.dims[i] = dims[j]
      BY <2>1, <2>2 DEF Meets
    <2>4. i + Len(c) - na = j
      BY <1>0, <1>4
    <2>5. F[i] = (IF a.dims[i] = 1 THEN 0 ELSE c[j]) * a.strides[i]
      BY <1>2, <2>4
    <2>6. G[j] = c[j] * s[j]
      BY <2>1 DEF Reach
    <2>7. s[j] = IF a.dims[i] = dims[j] THEN a.strides[i] ELSE 0
      <3>1. Kept(a, dims, j) <=> a.dims[i] = dims[j]
        BY <2>1, <2>2 DEF Kept
      <3>2. j \in DOMAIN dims
        BY <1>0, <2>1
      <3>. QED
        BY <2>1, <3>1, <3>2 DEF StridesFor
    <2>8. c[j] \in Nat /\ c[j] < dims[j] /\ dims[j] \in Nat
      BY <1>3, <2>1
    <2>9. a.strides[i] \in Int
      BY <1>7
    <2>. HIDE DEF j, s, F, G, o, n, na, C
    <2>10. ASSUME a.dims[i] = dims[j]  PROVE F[i] = G[j]
      <3>1. CASE a.dims[i] = 1
        <4>1. c[j] = 0
          BY <2>8, <2>10, <3>1
        <4>. QED
          BY <2>5, <2>6, <2>7, <2>10, <3>1, <4>1
      <3>2. CASE a.dims[i] # 1
        BY <2>5, <2>6, <2>7, <2>10, <3>2
      <3>. QED
        BY <3>1, <3>2
    <2>11. ASSUME a.dims[i] # dims[j]  PROVE F[i] = G[j]
      <3>1. F[i] = 0 * a.strides[i] /\ G[j] = c[j] * 0
        BY <2>3, <2>5, <2>6, <2>7, <2>11
      <3>. QED
        BY <3>1, <2>8, <2>9
    <2>12. F[i] = G[j]
      BY <2>10, <2>11
    <2>. QED
      BY <2>12 DEF j
  <1>9. ASSUME NEW j \in 1..o  PROVE G[j] = 0
    <2>1. j \in 1..n /\ ~(Own(a, dims, j) > 0)
      BY <1>0 DEF Own
    <2>2. s[j] = 0
      <3>1. j \in DOMAIN dims
        BY <1>0, <2>1
      <3>. QED
        BY <2>1, <3>1 DEF StridesFor, Kept
    <2>3. G[j] = c[j] * s[j]
      BY <2>1 DEF Reach
    <2>4. c[j] \in Nat
      BY <1>3, <2>1
    <2>. HIDE DEF G, s
    <2>. QED
      BY <2>2, <2>3, <2>4
  <1>10. Terms(F, na)
    <2>1. ASSUME NEW i \in 1..na  PROVE F[i] \in Int
      <3>1. i + o \in 1..n
        BY <1>0
      <3>2. G[i + o] \in Int
        <4>. HIDE DEF G, n, o
        <4>. QED
          BY <1>6, <3>1 DEF Terms
      <3>. HIDE DEF F, G
      <3>. QED
        BY <1>8, <3>2
    <2>. QED
      BY <1>0, <2>1 DEF Terms
  <1>. HIDE DEF F, G, n, na, o, s, C
  <1>11. Same = 0..na
    <2>1. na \in Same
      <3>1. After(F, na, na) = 0 /\ After(G, n, n) = 0
        BY <1>6, <1>10, AfterStep
      <3>2. na \in 0..na
        BY <1>0
      <3>. QED
        BY <1>0, <3>1, <3>2
    <2>2. ASSUME NEW i \in 1..na, i \in Same  PROVE i - 1 \in Same
      <3>1. i - 1 \in 0..na /\ i + o \in 1..n /\ (i - 1) + o = (i + o) - 1
        BY <1>0
      <3>2. After(F, na, i - 1) = F[i] + After(F, na, i)
        BY <1>10, AfterStep
      <3>3. After(G, n, (i + o) - 1) = G[i + o] + After(G, n, i + o)
        BY <1>6, <3>1, AfterStep
      <3>4. F[i] = G[i + o]
        BY <1>8
      <3>5. After(F, na, i) = After(G, n, i + o)
        BY <2>2
      <3>6. After(F, na, i - 1) = After(G, n, (i - 1) + o)
        BY <3>1, <3>2, <3>3, <3>4, <3>5
      <3>. QED
        BY <3>1, <3>6
    <2>3. Same \in SUBSET (0..na)
      OBVIOUS
    <2>. HIDE DEF Same
    <2>. QED
      BY <1>0, <2>1, <2>2, <2>3, DownFrom
  <1>12. Leading = 0..o
    <2>1. o \in Leading
      BY <1>0
    <2>2. ASSUME NEW j \in 1..o, j \in Leading  PROVE j - 1 \in Leading
      <3>1. j - 1 \in 0..o /\ j \in 1..n /\ j \in 0..n
        BY <1>0
      <3>2. After(G, n, j - 1) = G[j] + After(G, n, j) /\ After(G, n, j) \in Int
        BY <1>6, <3>1, AfterStep
      <3>3. G[j] = 0 /\ After(G, n, j) = After(G, n, o)
        BY <1>9, <2>2
      <3>4. After(G, n, j - 1) = After(G, n, o)
        BY <3>2, <3>3
      <3>. QED
        BY <3>1, <3>4
    <2>3. Leading \in SUBSET (0..o)
      OBVIOUS
    <2>. HIDE DEF Leading
    <2>. QED
      BY <1>0, <2>1, <2>2, <2>3, DownFrom
  <1>13. After(F, na, 0) = After(G, n, 0)
    <2>1. 0 \in Same /\ 0 \in Leading
      <3>. HIDE DEF Same, Leading
      <3>. QED
        BY <1>0, <1>11, <1>12
    <2>2. 0 + o = o
      BY <1>0
    <2>. QED
      BY <2>1, <2>2
  <1>14. SumFunction(F) = After(F, na, 0) /\ SumFunction(G) = After(G, n, 0)
    <2>1. F = [i \in 1..na |-> F[i]]
      BY <1>2 DEF F
    <2>2. G = [i \in 1..n |-> G[i]]
      BY DEF G, Reach
    <2>. QED
      BY <1>0, <2>1, <2>2, AfterAll
  <1>15. AddressOf(a, c) = a.data + SumFunction(G)
    BY <1>1, <1>13, <1>14
  <1>. QED
    BY <1>15 DEF G, s, n

AddressIn(a, dims, m) ==
  a.data + SumFunction(Reach(CoordsAt(dims, m), StridesFor(a, dims), Len(dims)))

\* Where an iterator stands that was moved by a single assignment, or not.
Stands(it, a, dims, moved) ==
  /\ it.index \in 0..Product(dims)
  /\ it.index < Product(dims) =>
       /\ ~moved /\ ~Contig(a, dims) => it.coordinates = CoordsAt(dims, it.index)
       /\ ~moved \/ Contig(a, dims) \/ Len(dims) = 1 => it.dataptr = AddressIn(a, dims, it.index)

\* A new iterator, of an array or of a broadcast.
LEMMA NewWalks ==
  ASSUME NEW a, NEW dims, Meets(a, dims)
  PROVE  /\ BroadcastIter(a, dims)
              = [ao |-> a, index |-> 0, size |-> Product(dims), coordinates |-> Zeros(dims),
                 dims_m1 |-> Ends(dims),
                 strides |-> StridesFor(a, dims), backstrides |-> Back(dims, StridesFor(a, dims)),
                 factors |-> Factors(dims), dataptr |-> a.data, contiguous |-> Contig(a, dims)]
         /\ Walks(BroadcastIter(a, dims), a, dims)
         /\ \A moved \in BOOLEAN : Stands(BroadcastIter(a, dims), a, dims, moved)
         /\ BroadcastIter(a, dims).index = 0
  <1>. DEFINE n == Len(dims)
              s == StridesFor(a, dims)
              it == BroadcastIter(a, dims)
              r == [ao |-> a, index |-> 0, size |-> Product(dims), coordinates |-> Zeros(dims),
                    dims_m1 |-> Ends(dims),
                    strides |-> s, backstrides |-> Back(dims, s),
                    factors |-> Factors(dims), dataptr |-> a.data, contiguous |-> Contig(a, dims)]
  <1>0. DOMAIN dims = 1..n /\ dims \in Seq(Nat) /\ n \in Nat
    BY DEF Meets
  <1>1. it = r
    <2>3. it = Walk(a, dims, s, Contig(a, dims))
      BY BroadcastIterIs
    <2>4. [i \in DOMAIN dims |-> s[i] * (dims[i] - 1)] = Back(dims, s)
      BY <1>0 DEF Back
    <2>5. [i \in DOMAIN dims |-> Below(dims, i)] = Factors(dims)
      BY <1>0 DEF Factors
    <2>. HIDE DEF s
    <2>. QED
      BY <1>0, <2>3, <2>4, <2>5 DEF Walk, Ends
  <1>2. it.index = 0 /\ it.coordinates = Zeros(dims) /\ it.dataptr = a.data
    BY <1>1
  <1>3. Walks(it, a, dims)
    <2>. HIDE DEF it
    <2>. QED
      BY <1>1, <1>2 DEF Walks
  <1>4. Product(dims) \in Nat
    BY <1>0, BelowStep
  <1>5. ASSUME Product(dims) > 0
        PROVE  CoordsAt(dims, 0) = Zeros(dims) /\ AddressIn(a, dims, 0) = a.data
    <2>1. 0 \in 0..(Product(dims) - 1)
      BY <1>4, <1>5
    <2>2. CoordsAt(dims, 0) = Digits(Factors(dims), 0)
      BY <1>0, <2>1, CoordsAtDigits
    <2>3. Digits(Factors(dims), 0) = Zeros(dims)
      BY <1>0 DEF Digits, Zeros, Factors
    <2>. DEFINE f == Reach(Zeros(dims), s, n)
    <2>4. \A i \in 1..n : f[i] = 0
      <3>1. s \in [1..n -> Int]
        BY StridesForType
      <3>2. ASSUME NEW i \in 1..n  PROVE f[i] = 0
        <4>1. f[i] = 0 * s[i]
          BY <1>0 DEF Reach, Zeros
        <4>2. s[i] \in Int
          BY <3>1
        <4>. HIDE DEF s, f
        <4>. QED
          BY <4>1, <4>2
      <3>. QED
        BY <3>2
    <2>5. SumFunction(f) = After(f, n, 0)
      <3>1. f = [i \in 1..n |-> f[i]]
        BY DEF Reach
      <3>. HIDE DEF f, n
      <3>. QED
        BY <1>0, <3>1, AfterAll
    <2>6. After(f, n, 0) = 0
      <3>1. 0 \in 0..n /\ \A i \in (0 + 1)..n : f[i] = 0
        BY <1>0, <2>4
      <3>. HIDE DEF f, n
      <3>. QED
        BY <1>0, <3>1, AfterZero
    <2>7. AddressIn(a, dims, 0) = a.data + SumFunction(f)
      BY <2>2, <2>3 DEF AddressIn
    <2>8. a.data \in Int
      BY DEF Meets, IsArray
    <2>. HIDE DEF f
    <2>. QED
      BY <2>2, <2>3, <2>5, <2>6, <2>7, <2>8
  <1>6. ASSUME NEW moved \in BOOLEAN  PROVE Stands(it, a, dims, moved)
    <2>. HIDE DEF it
    <2>. QED
      BY <1>2, <1>4, <1>5 DEF Stands
  <1>. QED
    BY <1>1, <1>2, <1>3, <1>6

\* An iterator that was reset is a new one, whatever happened to it.
LEMMA ResetIsNew ==
  ASSUME NEW it, NEW a, NEW dims, Meets(a, dims), Walks(it, a, dims)
  PROVE  ITER_RESET(it) = BroadcastIter(a, dims)
  <1>1. Zeros(it.dims_m1) = Zeros(dims)
    <2>1. it.dims_m1 = Ends(dims) /\ DOMAIN dims = 1..Len(dims)
      BY WalksFields DEF Meets
    <2>2. DOMAIN it.dims_m1 = DOMAIN dims
      BY <2>1 DEF Ends
    <2>. QED
      BY <2>2 DEF Zeros
  <1>2. it.ao = a
    BY WalksFields
  <1>. DEFINE z == Zeros(dims)
  <1>3. ITER_RESET(it) = [it EXCEPT !.index = 0, !.dataptr = a.data, !.coordinates = z]
    BY <1>1, <1>2 DEF ITER_RESET
  <1>. HIDE DEF z
  <1>4. it = [ao |-> a, index |-> it.index, size |-> Product(dims), coordinates |-> it.coordinates,
              dims_m1 |-> Ends(dims),
              strides |-> StridesFor(a, dims), backstrides |-> Back(dims, StridesFor(a, dims)),
              factors |-> Factors(dims), dataptr |-> it.dataptr, contiguous |-> Contig(a, dims)]
    BY DEF Walks
  <1>. DEFINE ix == it.index
              co == it.coordinates
              dp == it.dataptr
  <1>5. it = [ao |-> a, index |-> ix, size |-> Product(dims), coordinates |-> co,
              dims_m1 |-> Ends(dims),
              strides |-> StridesFor(a, dims), backstrides |-> Back(dims, StridesFor(a, dims)),
              factors |-> Factors(dims), dataptr |-> dp, contiguous |-> Contig(a, dims)]
    BY <1>4
  <1>. HIDE DEF ix, co, dp
  <1>6. ITER_RESET(it)
          = [ao |-> a, index |-> 0, size |-> Product(dims), coordinates |-> z,
             dims_m1 |-> Ends(dims),
             strides |-> StridesFor(a, dims), backstrides |-> Back(dims, StridesFor(a, dims)),
             factors |-> Factors(dims), dataptr |-> a.data, contiguous |-> Contig(a, dims)]
    BY <1>3, <1>5, ZenonT(20)
  <1>. QED
    BY <1>6, NewWalks DEF z

\* The shape of a walk, as the properties read it off the iterator.
LEMMA ShapeIs ==
  ASSUME NEW it, NEW a, NEW dims, dims \in Seq(Nat), Walks(it, a, dims)
  PROVE  Shape(it) = dims /\ Len(it.dims_m1) = Len(dims)
  <1>. DEFINE n == Len(dims)
              e == [i \in 1..n |-> dims[i] - 1]
  <1>0. n \in Nat /\ dims \in [1..n -> Nat]
    OBVIOUS
  <1>1. it.dims_m1 = e
    BY WalksFields DEF Ends
  <1>2. Len(e) = n
    <2>1. e \in [1..n -> Int]
      BY <1>0
    <2>. HIDE DEF e, n
    <2>2. e \in Seq(Int)
      BY <1>0, <2>1
    <2>. QED
      BY <1>0, <2>1, <2>2
  <1>3. [i \in DOMAIN e |-> e[i] + 1] = [i \in 1..n |-> dims[i]]
    <2>1. DOMAIN e = 1..n /\ \A i \in 1..n : e[i] + 1 = dims[i]
      BY <1>0
    <2>. HIDE DEF e
    <2>. QED
      BY <2>1
  <1>4. [i \in 1..n |-> dims[i]] = dims
    BY <1>0
  <1>. QED
    BY <1>1, <1>2, <1>3, <1>4 DEF Shape

\* it with another index, pointer and coordinates.
Moved(it, i, d, c) == [it EXCEPT !.index = i, !.dataptr = d, !.coordinates = c]

LEMMA MovedWalks ==
  ASSUME NEW it, NEW a, NEW dims, Walks(it, a, dims), NEW i, NEW d, NEW c
  PROVE  /\ Walks(Moved(it, i, d, c), a, dims)
         /\ Moved(it, i, d, c).index = i /\ Moved(it, i, d, c).dataptr = d
         /\ Moved(it, i, d, c).coordinates = c
  <1>. DEFINE ix == it.index
              co == it.coordinates
              dp == it.dataptr
              r == Moved(it, i, d, c)
  <1>1. it = [ao |-> a, index |-> ix, size |-> Product(dims), coordinates |-> co,
              dims_m1 |-> Ends(dims),
              strides |-> StridesFor(a, dims), backstrides |-> Back(dims, StridesFor(a, dims)),
              factors |-> Factors(dims), dataptr |-> dp, contiguous |-> Contig(a, dims)]
    BY DEF Walks
  <1>. HIDE DEF ix, co, dp
  <1>2. r = [ao |-> a, index |-> i, size |-> Product(dims), coordinates |-> c,
             dims_m1 |-> Ends(dims),
             strides |-> StridesFor(a, dims), backstrides |-> Back(dims, StridesFor(a, dims)),
             factors |-> Factors(dims), dataptr |-> d, contiguous |-> Contig(a, dims)]
    <2>. DEFINE sz == Product(dims)
                dm == Ends(dims)
                st == StridesFor(a, dims)
                bs == Back(dims, StridesFor(a, dims))
                fa == Factors(dims)
                cg == Contig(a, dims)
    <2>1. it = [ao |-> a, index |-> ix, size |-> sz, coordinates |-> co, dims_m1 |-> dm,
                strides |-> st, backstrides |-> bs, factors |-> fa, dataptr |-> dp,
                contiguous |-> cg]
      BY <1>1
    <2>2. r = [it EXCEPT !.index = i, !.dataptr = d, !.coordinates = c]
      BY DEF Moved
    <2>. HIDE DEF sz, dm, st, bs, fa, cg, r
    <2>3. r = [ao |-> a, index |-> i, size |-> sz, coordinates |-> c, dims_m1 |-> dm,
               strides |-> st, backstrides |-> bs, factors |-> fa, dataptr |-> d,
               contiguous |-> cg]
      BY <2>1, <2>2
    <2>. QED
      BY <2>3 DEF sz, dm, st, bs, fa, cg
  <1>3. r.index = i /\ r.dataptr = d /\ r.coordinates = c
    BY <1>2
  <1>. HIDE DEF r
  <1>4. Walks(r, a, dims)
    BY <1>2, <1>3 DEF Walks
  <1>. QED
    BY <1>3, <1>4 DEF r

\* What ITER_NEXT, the odometer and ITER_GOTO1D change of an iterator.
LEMMA NextIs ==
  ASSUME NEW it, NEW a, NEW dims, Meets(a, dims), Walks(it, a, dims)
  PROVE  /\ Len(dims) = 1 =>
              ITER_NEXT(it) = Moved(it, it.index + 1, it.dataptr + StridesFor(a, dims)[1],
                                    [it.coordinates EXCEPT ![1] = @ + 1])
         /\ Len(dims) # 1 /\ Contig(a, dims) =>
              ITER_NEXT(it) = Moved(it, it.index + 1, it.dataptr + 1, it.coordinates)
         /\ Len(dims) # 1 /\ ~Contig(a, dims) =>
              ITER_NEXT(it) = Odometer([it EXCEPT !.index = @ + 1])
  <1>0. /\ dims \in Seq(Nat) /\ Len(it.dims_m1) = Len(dims)
        /\ it.strides = StridesFor(a, dims) /\ it.contiguous = Contig(a, dims)
        /\ it.backstrides = Back(dims, StridesFor(a, dims))
    <2>1. dims \in Seq(Nat)
      BY DEF Meets
    <2>2. Len(it.dims_m1) = Len(dims)
      BY <2>1, ShapeIs
    <2>3. it.strides = StridesFor(a, dims)
      BY WalksFields
    <2>4. it.contiguous = Contig(a, dims)
      BY WalksFields
    <2>5. it.backstrides = Back(dims, StridesFor(a, dims))
      BY WalksFields
    <2>. QED
      BY <2>1, <2>2, <2>3, <2>4, <2>5
  <1>. DEFINE ix == it.index
              co == it.coordinates
              dp == it.dataptr
              dm == it.dims_m1
              st == it.strides
              bs == it.backstrides
              fa == it.factors
              sz == it.size
              cg == it.contiguous
  <1>1. it = [ao |-> a, index |-> ix, size |-> sz, coordinates |-> co, dims_m1 |-> dm,
              strides |-> st, backstrides |-> bs, factors |-> fa, dataptr |-> dp,
              contiguous |-> cg]
    BY WalksFields DEF Walks
  <1>2. st = StridesFor(a, dims) /\ cg = Contig(a, dims) /\ Len(dm) = Len(dims)
    BY <1>0
  <1>. HIDE DEF ix, co, dp, dm, st, bs, fa, sz, cg
  <1>3. it.index = ix /\ it.coordinates = co /\ it.dataptr = dp /\ it.dims_m1 = dm
        /\ it.strides = st
    BY <1>1
  <1>4. ASSUME Len(dims) = 1
        PROVE  ITER_NEXT(it) = Moved(it, ix + 1, dp + st[1], [co EXCEPT ![1] = @ + 1])
    BY <1>1, <1>2, <1>4 DEF ITER_NEXT, Moved
  <1>5. ASSUME Len(dims) # 1, Contig(a, dims)
        PROVE  ITER_NEXT(it) = Moved(it, ix + 1, dp + 1, co)
    <2>. DEFINE next == [it EXCEPT !.index = @ + 1]
    <2>1. Len(it.dims_m1) # 1 /\ it.contiguous
      BY <1>2, <1>5 DEF dm, cg
    <2>2. ITER_NEXT(it) = [next EXCEPT !.dataptr = @ + 1]
      BY <2>1 DEF ITER_NEXT
    <2>3. next = [ao |-> a, index |-> ix + 1, size |-> sz, coordinates |-> co, dims_m1 |-> dm,
                  strides |-> st, backstrides |-> bs, factors |-> fa, dataptr |-> dp,
                  contiguous |-> cg]
      BY <1>1
    <2>. DEFINE ptr == dp + 1
                j == ix + 1
    <2>4. Moved(it, j, ptr, co) = [it EXCEPT !.index = j, !.dataptr = ptr, !.coordinates = co]
      BY DEF Moved
    <2>. HIDE DEF next
    <2>5. ITER_NEXT(it) = [next EXCEPT !.dataptr = ptr]
      BY <2>2, <2>3
    <2>. HIDE DEF j, ptr
    <2>6. next = [ao |-> a, index |-> j, size |-> sz, coordinates |-> co, dims_m1 |-> dm,
                  strides |-> st, backstrides |-> bs, factors |-> fa, dataptr |-> dp,
                  contiguous |-> cg]
      BY <2>3 DEF j
    <2>7. ITER_NEXT(it)
            = [ao |-> a, index |-> j, size |-> sz, coordinates |-> co, dims_m1 |-> dm,
               strides |-> st, backstrides |-> bs, factors |-> fa, dataptr |-> ptr,
               contiguous |-> cg]
      BY <2>5, <2>6
    <2>8. Moved(it, j, ptr, co)
            = [ao |-> a, index |-> j, size |-> sz, coordinates |-> co, dims_m1 |-> dm,
               strides |-> st, backstrides |-> bs, factors |-> fa, dataptr |-> ptr,
               contiguous |-> cg]
      BY <1>1, <2>4, ZenonT(20)
    <2>9. ITER_NEXT(it) = Moved(it, j, ptr, co)
      BY <2>7, <2>8
    <2>. QED
      BY <2>9 DEF j, ptr
  <1>6. ASSUME Len(dims) # 1, ~Contig(a, dims)
        PROVE  ITER_NEXT(it) = Odometer([it EXCEPT !.index = @ + 1])
    <2>1. Len(it.dims_m1) # 1 /\ ~it.contiguous
      BY <1>2, <1>6 DEF dm, cg
    <2>. QED
      BY <2>1 DEF ITER_NEXT
  <1>. QED
    BY <1>2, <1>3, <1>4, <1>5, <1>6

\* The odometer's step along axis k.
Turned(it, k) ==
  [it EXCEPT
    !.coordinates = [i \in DOMAIN @ |-> CASE i < k -> @[i]
                                          [] i = k -> @[i] + 1
                                          [] i > k -> 0],
    !.dataptr = @ - SumFunction([i \in (k + 1)..Len(it.dims_m1) |-> it.backstrides[i]])
                  + (IF k = 0 THEN 0 ELSE it.strides[k])]

LEMMA OdometerTurns ==
  ASSUME NEW it
  PROVE  Odometer(it) = Turned(it, NextAxis(it))
  BY DEF Odometer, Turned

\* The coordinates after a step along axis k.
Onwards(c, k) ==
  [i \in DOMAIN c |-> CASE i < k -> c[i] [] i = k -> c[i] + 1 [] i > k -> 0]

LEMMA OdometerIs ==
  ASSUME NEW it, NEW a, NEW dims, Meets(a, dims), Walks(it, a, dims),
         NEW k, k = NextAxis(it)
  PROVE  Odometer([it EXCEPT !.index = @ + 1])
           = Moved(it, it.index + 1,
                   it.dataptr - After(Back(dims, StridesFor(a, dims)), Len(dims), k)
                     + (IF k = 0 THEN 0 ELSE StridesFor(a, dims)[k]),
                   Onwards(it.coordinates, k))
  <1>0. /\ dims \in Seq(Nat) /\ Len(it.dims_m1) = Len(dims)
        /\ it.strides = StridesFor(a, dims) /\ it.contiguous = Contig(a, dims)
        /\ it.backstrides = Back(dims, StridesFor(a, dims))
    <2>1. dims \in Seq(Nat)
      BY DEF Meets
    <2>2. Len(it.dims_m1) = Len(dims)
      BY <2>1, ShapeIs
    <2>3. it.strides = StridesFor(a, dims)
      BY WalksFields
    <2>4. it.contiguous = Contig(a, dims)
      BY WalksFields
    <2>5. it.backstrides = Back(dims, StridesFor(a, dims))
      BY WalksFields
    <2>. QED
      BY <2>1, <2>2, <2>3, <2>4, <2>5
  <1>. DEFINE ix == it.index
              co == it.coordinates
              dp == it.dataptr
              dm == it.dims_m1
              st == it.strides
              bs == it.backstrides
              fa == it.factors
              sz == it.size
              cg == it.contiguous
              next == [it EXCEPT !.index = @ + 1]
              back == SumFunction([i \in (k + 1)..Len(dm) |-> bs[i]])
              way == IF k = 0 THEN 0 ELSE st[k]
              coords == Onwards(co, k)
  <1>1. it = [ao |-> a, index |-> ix, size |-> sz, coordinates |-> co, dims_m1 |-> dm,
              strides |-> st, backstrides |-> bs, factors |-> fa, dataptr |-> dp,
              contiguous |-> cg]
    BY WalksFields DEF Walks
  <1>2. st = StridesFor(a, dims) /\ Len(dm) = Len(dims) /\ bs = Back(dims, StridesFor(a, dims))
    BY <1>0
  <1>3. back = After(Back(dims, StridesFor(a, dims)), Len(dims), k)
    BY <1>2 DEF After
  <1>. HIDE DEF ix, co, dp, dm, st, bs, fa, sz, cg
  <1>4. next = [ao |-> a, index |-> ix + 1, size |-> sz, coordinates |-> co, dims_m1 |-> dm,
                strides |-> st, backstrides |-> bs, factors |-> fa, dataptr |-> dp,
                contiguous |-> cg]
    BY <1>1
  <1>5. it.coordinates = co /\ it.dims_m1 = dm /\ it.strides = st /\ it.backstrides = bs
        /\ it.index = ix /\ it.dataptr = dp
    BY <1>1
  <1>. HIDE DEF next
  <1>6. next.coordinates = co /\ next.dims_m1 = dm /\ next.strides = st /\ next.backstrides = bs
        /\ next.dataptr = dp
    BY <1>4
  <1>7. NextAxis(next) = k
    <2>1. NextAxis(next) = NextAxis(it)
      BY <1>5, <1>6 DEF NextAxis
    <2>. QED
      BY <2>1
  <1>8. Odometer(next) = [next EXCEPT !.coordinates = coords, !.dataptr = dp - back + way]
    <2>1. Odometer(next) = Turned(next, k)
      BY <1>7, OdometerTurns
    <2>. QED
      BY <1>6, <2>1 DEF Turned, Onwards
  <1>. HIDE DEF coords, back, way
  <1>. DEFINE ptr == dp - back + way
              j == ix + 1
  <1>9. Odometer(next) = Moved(it, ix + 1, dp - back + way, coords)
    <2>1. Odometer(next) = [next EXCEPT !.coordinates = coords, !.dataptr = ptr]
      BY <1>8
    <2>. HIDE DEF ptr, j
    <2>2. next = [ao |-> a, index |-> j, size |-> sz, coordinates |-> co, dims_m1 |-> dm,
                strides |-> st, backstrides |-> bs, factors |-> fa, dataptr |-> dp,
                contiguous |-> cg]
      BY <1>4 DEF j
    <2>3. Odometer(next) = [ao |-> a, index |-> j, size |-> sz, coordinates |-> coords,
                            dims_m1 |-> dm, strides |-> st, backstrides |-> bs, factors |-> fa,
                            dataptr |-> ptr, contiguous |-> cg]
      BY ZenonT(40), <2>1, <2>2
    <2>4. Moved(it, j, ptr, coords) = [it EXCEPT !.index = j, !.dataptr = ptr, !.coordinates = coords]
      BY DEF Moved
    <2>5. Moved(it, j, ptr, coords)
            = [ao |-> a, index |-> j, size |-> sz, coordinates |-> coords,
               dims_m1 |-> dm, strides |-> st, backstrides |-> bs, factors |-> fa,
               dataptr |-> ptr, contiguous |-> cg]
      BY <1>1, <2>4, ZenonT(20)
    <2>. QED
      BY <2>3, <2>5 DEF ptr, j
  <1>10. coords = Onwards(it.coordinates, k)
    BY <1>5 DEF coords
  <1>11. way = IF k = 0 THEN 0 ELSE StridesFor(a, dims)[k]
    BY <1>2 DEF way
  <1>12. Odometer(next) = Moved(it, it.index + 1,
                                it.dataptr - After(Back(dims, StridesFor(a, dims)), Len(dims), k) + way,
                                coords)
    BY <1>3, <1>5, <1>9
  <1>. HIDE DEF coords, way
  <1>. QED
    BY <1>10, <1>11, <1>12 DEF next

LEMMA OneMore ==
  ASSUME NEW x \in Int, NEW y \in Int
  PROVE  (x + 1) * y = x * y + y /\ x * y \in Int
  OBVIOUS

LEMMA FirstDigit ==
  ASSUME NEW dims \in Seq(Nat), Len(dims) = 1, NEW m \in 0..(Product(dims) - 1)
  PROVE  CoordsAt(dims, m)[1] = m
  <1>1. Factors(dims)[1] = 1 /\ DOMAIN Factors(dims) = 1..1
    <2>1. Below(dims, Len(dims)) = 1
      BY BelowStep
    <2>2. Below(dims, 1) = 1
      BY <2>1
    <2>. QED
      BY <2>2 DEF Factors
  <1>2. Digits(Factors(dims), m)[1] = IF m = 0 THEN 0 ELSE m \div Factors(dims)[1]
    BY <1>1 DEF Digits
  <1>3. m \div 1 = m
    <2>1. m = 1 * m + 0 /\ m \in Int /\ 1 \in Nat \ {0} /\ 0 \in 0..(1 - 1)
      OBVIOUS
    <2>2. (1 * m + 0) \div 1 = m
      BY <2>1, DivUnique
    <2>. QED
      BY <2>1, <2>2
  <1>4. Digits(Factors(dims), m)[1] = m
    BY <1>1, <1>2, <1>3
  <1>. QED
    BY <1>4, CoordsAtDigits

LEMMA NoAxesContig ==
  ASSUME NEW a, NEW dims, Meets(a, dims), Len(dims) = 0
  PROVE  Contig(a, dims)
  <1>1. a.dims \in Seq(Nat) /\ dims \in Seq(Nat) /\ Len(a.dims) <= 0
    BY DEF Meets, IsArray
  <1>2. Len(a.dims) = 0
    BY <1>1
  <1>3. DOMAIN a.dims = {} /\ DOMAIN dims = {}
    BY <1>1, <1>2
  <1>. QED
    BY <1>2, <1>3 DEF Contig, IsContiguous

\* The addresses of elements, by the number of axes and the kind of walk.
LEMMA AddressesOne ==
  ASSUME NEW a, NEW dims, Meets(a, dims), Len(dims) = 1, NEW m \in 0..(Product(dims) - 1)
  PROVE  StridesFor(a, dims)[1] \in Int
         /\ AddressIn(a, dims, m) = a.data + m * StridesFor(a, dims)[1]
  <1>. DEFINE s == StridesFor(a, dims)
              c == CoordsAt(dims, m)
              f == Reach(c, s, 1)
  <1>0. dims \in Seq(Nat) /\ s \in [1..1 -> Int] /\ a.data \in Int
    BY StridesForType DEF Meets, IsArray
  <1>1. c[1] = m
    BY <1>0, FirstDigit
  <1>. HIDE DEF s, c
  <1>2. f[1] = m * s[1] /\ f[1] \in Int /\ f = [i \in 1..1 |-> f[i]] /\ s[1] \in Int
    BY <1>0, <1>1 DEF Reach
  <1>. HIDE DEF f
  <1>3. SumFunction(f) = After(f, 1, 0)
    BY <1>2, AfterAll
  <1>4. After(f, 1, 0) = f[1]
    <2>1. Terms(f, 1)
      BY <1>2 DEF Terms
    <2>2. After(f, 1, 1) = 0 /\ After(f, 1, 1 - 1) = f[1] + After(f, 1, 1)
      BY <2>1, AfterStep
    <2>3. 1 - 1 = 0 /\ f[1] + 0 = f[1]
      BY <1>2
    <2>. QED
      BY <2>2, <2>3
  <1>5. AddressIn(a, dims, m) = a.data + SumFunction(f)
    BY <1>0 DEF AddressIn, f, c, s
  <1>. QED
    BY <1>2, <1>3, <1>4, <1>5 DEF s

LEMMA AddressesInOrder ==
  ASSUME NEW a, NEW dims, Meets(a, dims), Len(dims) # 1, Contig(a, dims),
         NEW m \in 0..(Product(dims) - 1)
  PROVE  AddressIn(a, dims, m) = a.data + m
  <1>0. dims \in Seq(Nat) /\ Product(dims) # 0
    <2>1. dims \in Seq(Nat)
      BY DEF Meets
    <2>2. Product(dims) \in Nat
      BY <2>1, BelowStep
    <2>. QED
      BY <2>1, <2>2
  <1>. DEFINE c == CoordsAt(dims, m)
  <1>1. StridesFor(a, dims) = Factors(dims)
    BY <1>0, ContigStrides
  <1>2. Reach(c, Factors(dims), Len(dims)) = Skips(dims, c)
    BY DEF Reach, Factors, Skips
  <1>3. SumFunction(Skips(dims, c)) = m
    <2>1. Place(dims, c) = m
      BY <1>0, CoordsAtDigits
    <2>. QED
      BY <2>1 DEF Place
  <1>. QED
    BY <1>1, <1>2, <1>3 DEF AddressIn

\* The axis ITER_NEXT steps along is the last one that is not at its end.
LEMMA NextAxisIs ==
  ASSUME NEW dims \in Seq(Nat), Len(dims) # 0, NEW c \in Coordinates(dims),
         Place(dims, c) + 1 < Product(dims),
         NEW it, it.coordinates = c, it.dims_m1 = Ends(dims), Len(it.dims_m1) = Len(dims)
  PROVE  /\ NextAxis(it) \in 1..Len(dims)
         /\ c[NextAxis(it)] < dims[NextAxis(it)] - 1
         /\ \A i \in (NextAxis(it) + 1)..Len(dims) : c[i] = dims[i] - 1
  <1>. DEFINE n == Len(dims)
              inside == {i \in 1..n : c[i] < dims[i] - 1}
              first == IF n = 2 THEN 1 ELSE 0
              k == NextAxis(it)
  <1>0. n \in Nat /\ n # 0
        /\ \A i \in 1..n : c[i] \in Nat /\ dims[i] \in Nat /\ c[i] < dims[i]
    BY DEF Coordinates
  <1>1. k = Max(inside \cup {first})
    <2>1. {i \in DOMAIN it.dims_m1 : it.coordinates[i] < it.dims_m1[i]} = inside
      <3>1. DOMAIN it.dims_m1 = 1..n /\ \A i \in 1..n : it.dims_m1[i] = dims[i] - 1
        BY DEF Ends
      <3>. QED
        BY <3>1
    <2>. QED
      BY <2>1 DEF NextAxis
  <1>2. inside # {}
    <2>. SUFFICES ASSUME inside = {}  PROVE FALSE
      OBVIOUS
    <2>1. 0 \in 0..n /\ \A i \in (0 + 1)..n : c[i] = dims[i] - 1
      <3>1. ASSUME NEW i \in (0 + 1)..n  PROVE c[i] = dims[i] - 1
        <4>1. i \in 1..n
          OBVIOUS
        <4>2. ~(c[i] < dims[i] - 1)
          BY <4>1
        <4>. HIDE DEF inside, n
        <4>. QED
          BY <1>0, <4>1, <4>2
      <3>. QED
        BY <1>0, <3>1
    <2>2. After(Skips(dims, c), n, 0) = Below(dims, 0) - 1
      <3>. HIDE DEF inside
      <3>. QED
        BY <2>1, AtTheEnds
    <2>3. Place(dims, c) = Below(dims, 0) - 1 /\ Below(dims, 0) = Product(dims)
      BY <2>2, SkipsTerms, BelowStep
    <2>4. Product(dims) \in Nat
      BY BelowStep
    <2>. QED
      BY <2>3, <2>4
  <1>3. k \in inside \cup {first} /\ \A y \in inside \cup {first} : k >= y
    <2>1. inside \cup {first} \in SUBSET (0..n) /\ inside \cup {first} # {}
      BY <1>0
    <2>. HIDE DEF inside, first, k
    <2>2. Max(inside \cup {first}) \in inside \cup {first}
          /\ \A y \in inside \cup {first} : Max(inside \cup {first}) >= y
      BY <1>0, <2>1, MaxOf
    <2>. QED
      BY <1>1, <2>2
  <1>. HIDE DEF k
  <1>4. k \in inside
    <2>1. PICK i \in 1..n : i \in inside
      BY <1>2
    <2>2. k >= i
      BY <1>3, <2>1
    <2>3. CASE k = first
      <3>1. first >= 1 /\ first = 1
        BY <1>0, <2>1, <2>2, <2>3
      <3>2. i = 1
        BY <2>1, <2>2, <2>3, <3>1
      <3>. QED
        BY <2>1, <2>3, <3>1, <3>2
    <2>. QED
      BY <1>3, <2>3
  <1>5. ASSUME NEW i \in (k + 1)..n  PROVE c[i] = dims[i] - 1
    <2>1. k \in 1..n
      BY <1>4
    <2>2. i \in 1..n /\ ~(k >= i)
      BY <1>0, <2>1
    <2>3. i \notin inside
      BY <1>3, <2>2
    <2>4. ~(c[i] < dims[i] - 1)
      BY <2>2, <2>3
    <2>. HIDE DEF inside, first, n
    <2>. QED
      BY <1>0, <2>2, <2>4
  <1>. QED
    BY <1>4, <1>5 DEF k

\* ITER_NEXT keeps the iterator on the path: its pointer, moved by one stride
\* and the ways back of the axes that wrap around, is again the address of the
\* element that its index numbers, and so are its coordinates.
LEMMA NextStands ==
  ASSUME NEW it, NEW a, NEW dims, Meets(a, dims), Walks(it, a, dims),
         NEW moved \in BOOLEAN, Stands(it, a, dims, moved), it.index < Product(dims)
  PROVE  /\ Walks(ITER_NEXT(it), a, dims) /\ Stands(ITER_NEXT(it), a, dims, moved)
         /\ ITER_NEXT(it).index = it.index + 1
  <1>. DEFINE m == it.index
              s == StridesFor(a, dims)
              n == Len(dims)
              next == ITER_NEXT(it)
              OnPath == Walks(next, a, dims) /\ Stands(next, a, dims, moved) /\ next.index = m + 1
  <1>0. /\ dims \in Seq(Nat) /\ n \in Nat /\ Product(dims) \in Nat /\ a.data \in Int
        /\ m \in 0..(Product(dims) - 1) /\ m + 1 \in 0..Product(dims)
        /\ (m + 1 < Product(dims) => m + 1 \in 0..(Product(dims) - 1))
    <2>1. dims \in Seq(Nat) /\ a.data \in Int
      BY DEF Meets, IsArray
    <2>2. Product(dims) \in Nat
      BY <2>1, BelowStep
    <2>3. m \in 0..Product(dims) /\ m < Product(dims)
      BY DEF Stands
    <2>. HIDE DEF m
    <2>. QED
      BY <2>1, <2>2, <2>3
  <1>1. s \in [1..n -> Int]
    BY StridesForType
  <1>2. ~moved \/ Contig(a, dims) \/ n = 1 => it.dataptr = AddressIn(a, dims, m)
    BY DEF Stands
  <1>3. ~moved /\ ~Contig(a, dims) => it.coordinates = CoordsAt(dims, m)
    BY DEF Stands
  <1>4. ASSUME n = 1  PROVE OnPath
    <2>. DEFINE d == it.dataptr + s[1]
                c == [it.coordinates EXCEPT ![1] = @ + 1]
    <2>1. next = Moved(it, m + 1, d, c)
      BY <1>4, NextIs
    <2>. HIDE DEF d, c, next
    <2>2. /\ Walks(next, a, dims) /\ next.index = m + 1 /\ next.dataptr = d
          /\ next.coordinates = c
      BY <2>1, MovedWalks
    <2>3. ASSUME m + 1 < Product(dims)
          PROVE  /\ ~moved /\ ~Contig(a, dims) => c = CoordsAt(dims, m + 1)
                 /\ d = AddressIn(a, dims, m + 1)
      <3>1. /\ s[1] \in Int
            /\ AddressIn(a, dims, m) = a.data + m * s[1]
            /\ AddressIn(a, dims, m + 1) = a.data + (m + 1) * s[1]
        BY <1>0, <1>4, <2>3, AddressesOne
      <3>2. (m + 1) * s[1] = m * s[1] + s[1] /\ m * s[1] \in Int
        <4>1. m \in Int
          BY <1>0
        <4>. HIDE DEF m, s
        <4>. QED
          BY <3>1, <4>1, OneMore
      <3>3. d = AddressIn(a, dims, m + 1)
        <4>1. d = a.data + m * s[1] + s[1]
          BY <1>2, <1>4, <3>1 DEF d
        <4>. DEFINE t == m * s[1]
                    u == (m + 1) * s[1]
        <4>. HIDE DEF t, u, m, s
        <4>2. u = t + s[1] /\ t \in Int /\ d = a.data + t + s[1]
          BY <3>2, <4>1 DEF t, u
        <4>3. d = a.data + u
          BY <1>0, <3>1, <4>2, SMTT(20)
        <4>. QED
          BY <3>1, <4>3 DEF u
      <3>4. ASSUME ~moved, ~Contig(a, dims)  PROVE c = CoordsAt(dims, m + 1)
        <4>. DEFINE x == CoordsAt(dims, m)
                    y == CoordsAt(dims, m + 1)
        <4>1. x \in Coordinates(dims) /\ y \in Coordinates(dims)
          BY <1>0, <2>3, CoordsAtDigits
        <4>2. x[1] = m /\ y[1] = m + 1
          BY <1>0, <1>4, <2>3, FirstDigit
        <4>3. it.coordinates = x
          BY <1>3, <3>4
        <4>. HIDE DEF x, y, m
        <4>4. x \in [1..1 -> Nat] /\ y = [i \in 1..1 |-> y[i]]
          BY <1>4, <4>1 DEF Coordinates
        <4>5. c = [x EXCEPT ![1] = @ + 1]
          BY <4>3 DEF c
        <4>. HIDE DEF c
        <4>6. c = [i \in 1..1 |-> c[i]] /\ c[1] = m + 1
          <5>1. c \in [1..1 -> Nat] /\ c[1] = x[1] + 1
            BY <4>4, <4>5
          <5>. QED
            BY <4>2, <5>1
        <4>7. [i \in 1..1 |-> c[i]] = [i \in 1..1 |-> y[i]]
          BY <4>2, <4>6
        <4>8. c = y
          BY <4>4, <4>6, <4>7
        <4>. QED
          BY <4>8 DEF y
      <3>. QED
        BY <3>3, <3>4
    <2>. QED
      BY <1>0, <2>2, <2>3 DEF Stands
  <1>5. ASSUME n # 1, Contig(a, dims)  PROVE OnPath
    <2>. DEFINE d == it.dataptr + 1
                c == it.coordinates
    <2>1. next = Moved(it, m + 1, d, c)
      BY <1>5, NextIs
    <2>. HIDE DEF d, c, next
    <2>2. Walks(next, a, dims) /\ next.index = m + 1 /\ next.dataptr = d
      BY <2>1, MovedWalks
    <2>3. ASSUME m + 1 < Product(dims)  PROVE d = AddressIn(a, dims, m + 1)
      <3>1. AddressIn(a, dims, m) = a.data + m /\ AddressIn(a, dims, m + 1) = a.data + (m + 1)
        BY <1>0, <1>5, <2>3, AddressesInOrder
      <3>2. d = (a.data + m) + 1
        BY <1>2, <1>5, <3>1 DEF d
      <3>. HIDE DEF m
      <3>. QED
        BY <1>0, <3>1, <3>2, SMTT(20)
    <2>. QED
      BY <1>0, <1>5, <2>2, <2>3 DEF Stands
  <1>6. ASSUME n # 1, ~Contig(a, dims)  PROVE OnPath
    <2>. DEFINE k == NextAxis(it)
                b == After(Back(dims, s), n, k)
                d == it.dataptr - b + (IF k = 0 THEN 0 ELSE s[k])
                c == Onwards(it.coordinates, k)
    <2>1. next = Moved(it, m + 1, d, c)
      <3>1. next = Odometer([it EXCEPT !.index = @ + 1])
        BY <1>6, NextIs
      <3>. QED
        BY <3>1, OdometerIs
    <2>. HIDE DEF d, c, next
    <2>2. /\ Walks(next, a, dims) /\ next.index = m + 1 /\ next.dataptr = d
          /\ next.coordinates = c
      BY <2>1, MovedWalks
    <2>3. ASSUME m + 1 < Product(dims), ~moved
          PROVE  c = CoordsAt(dims, m + 1) /\ d = AddressIn(a, dims, m + 1)
      <3>. DEFINE x == CoordsAt(dims, m)
                  y == Stepped(x, k, n)
      <3>1. x \in Coordinates(dims) /\ Place(dims, x) = m /\ it.coordinates = x
            /\ it.dataptr = AddressIn(a, dims, m)
        BY <1>0, <1>2, <1>3, <1>6, <2>3, CoordsAtDigits
      <3>2. n # 0
        BY <1>0, <1>6, NoAxesContig
      <3>3. it.dims_m1 = Ends(dims) /\ Len(it.dims_m1) = n
        BY <1>0, WalksFields, ShapeIs
      <3>4. k \in 1..n /\ x[k] < dims[k] - 1 /\ \A i \in (k + 1)..n : x[i] = dims[i] - 1
        <4>. HIDE DEF x
        <4>1. Place(dims, x) + 1 < Product(dims)
          BY <2>3, <3>1
        <4>. QED
          BY <1>0, <3>1, <3>2, <3>3, <4>1, NextAxisIs
      <3>. HIDE DEF x, k, s
      <3>5. Place(dims, y) = m + 1
        BY <1>0, <3>1, <3>4, StepIsNext
      <3>6. /\ y \in Coordinates(dims) /\ b \in Int
            /\ SumFunction(Reach(x, s, n)) \in Int
            /\ SumFunction(Reach(y, s, n)) = SumFunction(Reach(x, s, n)) - b + s[k]
        BY <1>0, <1>1, <3>1, <3>4, StepMoves
      <3>7. c = y
        <4>1. DOMAIN x = 1..n
          BY <3>1 DEF Coordinates
        <4>2. c = [i \in 1..n |-> CASE i < k -> x[i] [] i = k -> x[i] + 1 [] i > k -> 0]
          BY <3>1, <4>1 DEF c, Onwards
        <4>. QED
          BY <4>2 DEF Stepped
      <3>8. CoordsAt(dims, m + 1) = y
        <4>. HIDE DEF y
        <4>. QED
          BY <1>0, <3>5, <3>6, CoordsAtIs
      <3>9. d = it.dataptr - b + s[k]
        BY <3>4 DEF d
      <3>10. /\ AddressIn(a, dims, m) = a.data + SumFunction(Reach(x, s, n))
             /\ AddressIn(a, dims, m + 1) = a.data + SumFunction(Reach(y, s, n))
        BY <3>8 DEF AddressIn, x, s
      <3>11. s[k] \in Int
        BY <1>1, <3>4
      <3>. DEFINE X == SumFunction(Reach(x, s, n))
                  Y == SumFunction(Reach(y, s, n))
      <3>12. X \in Int /\ b \in Int /\ Y = X - b + s[k] /\ d = (a.data + X) - b + s[k]
             /\ AddressIn(a, dims, m + 1) = a.data + Y
        BY <3>1, <3>6, <3>9, <3>10
      <3>. HIDE DEF X, Y, b
      <3>13. d = AddressIn(a, dims, m + 1)
        BY <1>0, <3>11, <3>12, SMTT(20)
      <3>. QED
        BY <3>7, <3>8, <3>13
    <2>. QED
      BY <1>0, <1>6, <2>2, <2>3 DEF Stands
  <1>. QED
    BY <1>4, <1>5, <1>6

Points(it, a, dims) == it.dataptr = AddressIn(a, dims, it.index)

\* ITER_GOTO1D takes the iterator to the element with the given index; the
\* coordinates stay behind.
LEMMA GotoStands ==
  ASSUME NEW it, NEW a, NEW dims, Meets(a, dims), Walks(it, a, dims),
         NEW m \in 0..(Product(dims) - 1), NEW r, r = ITER_GOTO1D(it, m)
  PROVE  /\ Walks(r, a, dims) /\ Stands(r, a, dims, TRUE)
         /\ r.index = m /\ Points(r, a, dims)
  <1>. DEFINE n == Len(dims)
              s == StridesFor(a, dims)
              offset == IF n = 1 THEN m * s[1]
                        ELSE IF Contig(a, dims) THEN m ELSE Dot(Digits(Factors(dims), m), s)
              d == a.data + offset
  <1>0. /\ dims \in Seq(Nat) /\ Product(dims) \in Nat /\ m \in 0..Product(dims) /\ ~(m < 0)
    <2>1. dims \in Seq(Nat)
      BY DEF Meets
    <2>. QED
      BY <2>1, BelowStep
  <1>1. /\ it.ao = a /\ it.strides = s /\ it.factors = Factors(dims)
        /\ it.contiguous = Contig(a, dims) /\ Len(it.dims_m1) = n
    BY <1>0, WalksFields, ShapeIs
  <1>2. r = [it EXCEPT !.index = m, !.dataptr = d]
    BY <1>0, <1>1 DEF ITER_GOTO1D
  <1>3. d = AddressIn(a, dims, m)
    <2>1. ASSUME n = 1  PROVE d = AddressIn(a, dims, m)
      BY <2>1, AddressesOne
    <2>2. ASSUME n # 1, Contig(a, dims)  PROVE d = AddressIn(a, dims, m)
      BY <2>2, AddressesInOrder
    <2>3. ASSUME n # 1, ~Contig(a, dims)  PROVE d = AddressIn(a, dims, m)
      <3>. DEFINE c == Digits(Factors(dims), m)
      <3>1. DOMAIN c = 1..n
        BY DEF Digits, Factors
      <3>. HIDE DEF c, s
      <3>2. Dot(c, s) = SumFunction(Reach(c, s, n))
        BY <3>1 DEF Dot, Reach
      <3>3. CoordsAt(dims, m) = c
        BY <1>0, CoordsAtDigits DEF c
      <3>4. d = a.data + Dot(c, s)
        BY <2>3 DEF c
      <3>. QED
        BY <3>2, <3>3, <3>4 DEF AddressIn, s
    <2>. QED
      BY <2>1, <2>2, <2>3
  <1>4. r = Moved(it, m, d, it.coordinates)
    <2>. DEFINE ix == it.index
                co == it.coordinates
                dp == it.dataptr
                dm == it.dims_m1
                st == it.strides
                bs == it.backstrides
                fa == it.factors
                sz == it.size
                cg == it.contiguous
    <2>1. it = [ao |-> a, index |-> ix, size |-> sz, coordinates |-> co, dims_m1 |-> dm,
                strides |-> st, backstrides |-> bs, factors |-> fa, dataptr |-> dp,
                contiguous |-> cg]
      BY WalksFields DEF Walks
    <2>2. Moved(it, m, d, co) = [it EXCEPT !.index = m, !.dataptr = d, !.coordinates = co]
      BY DEF Moved
    <2>. HIDE DEF ix, co, dp, dm, st, bs, fa, sz, cg, d
    <2>3. r = [ao |-> a, index |-> m, size |-> sz, coordinates |-> co, dims_m1 |-> dm,
               strides |-> st, backstrides |-> bs, factors |-> fa, dataptr |-> d,
               contiguous |-> cg]
      BY <1>2, <2>1
    <2>4. Moved(it, m, d, co)
            = [ao |-> a, index |-> m, size |-> sz, coordinates |-> co, dims_m1 |-> dm,
               strides |-> st, backstrides |-> bs, factors |-> fa, dataptr |-> d,
               contiguous |-> cg]
      BY <2>1, <2>2, ZenonT(20)
    <2>. QED
      BY <2>3, <2>4 DEF co
  <1>. HIDE DEF d
  <1>5. Walks(r, a, dims) /\ r.index = m /\ r.dataptr = d
    BY <1>4, MovedWalks
  <1>. QED
    BY <1>0, <1>3, <1>5 DEF Stands, Points

\* IterCoords changes only the coordinates, and only those of a contiguous
\* iterator; they are then those of the element with the iterator's index.
LEMMA CoordsStand ==
  ASSUME NEW it, NEW a, NEW dims, Meets(a, dims), Walks(it, a, dims),
         NEW moved \in BOOLEAN, Stands(it, a, dims, moved)
  PROVE  /\ Walks(IterCoords(it), a, dims) /\ Stands(IterCoords(it), a, dims, moved)
         /\ IterCoords(it).index = it.index
         /\ it.index < Product(dims) /\ (Contig(a, dims) \/ ~moved) =>
              IterCoords(it).coordinates = CoordsAt(dims, it.index)
  <1>0. it.factors = Factors(dims) /\ it.contiguous = Contig(a, dims)
    BY WalksFields
  <1>1. dims \in Seq(Nat) /\ Product(dims) \in Nat
        /\ (it.index < Product(dims) => it.index \in 0..(Product(dims) - 1))
    <2>1. dims \in Seq(Nat)
      BY DEF Meets
    <2>2. Product(dims) \in Nat
      BY <2>1, BelowStep
    <2>3. it.index \in 0..Product(dims)
      BY DEF Stands
    <2>. DEFINE m == it.index
    <2>. HIDE DEF m
    <2>4. m < Product(dims) => m \in 0..(Product(dims) - 1)
      BY <2>2, <2>3 DEF m
    <2>. QED
      BY <2>1, <2>2, <2>4 DEF m
  <1>2. ASSUME ~Contig(a, dims)
        PROVE  /\ Walks(IterCoords(it), a, dims) /\ Stands(IterCoords(it), a, dims, moved)
               /\ IterCoords(it).index = it.index
               /\ it.index < Product(dims) /\ ~moved =>
                    IterCoords(it).coordinates = CoordsAt(dims, it.index)
    <2>1. IterCoords(it) = it
      BY <1>0, <1>2 DEF IterCoords
    <2>2. it.index < Product(dims) /\ ~moved => it.coordinates = CoordsAt(dims, it.index)
      BY <1>2 DEF Stands
    <2>. QED
      BY <2>1, <2>2
  <1>3. ASSUME Contig(a, dims)
        PROVE  /\ Walks(IterCoords(it), a, dims) /\ Stands(IterCoords(it), a, dims, moved)
               /\ IterCoords(it).index = it.index
               /\ it.index < Product(dims) =>
                    IterCoords(it).coordinates = CoordsAt(dims, it.index)
    <2>. DEFINE c == Digits(Factors(dims), it.index)
                r == IterCoords(it)
                co == it.coordinates
                dp == it.dataptr
                ix == it.index
    <2>1. r = [it EXCEPT !.coordinates = c]
      BY <1>0, <1>3 DEF IterCoords
    <2>2. r = Moved(it, ix, dp, c)
      <3>. DEFINE dm == it.dims_m1
                  st == it.strides
                  bs == it.backstrides
                  fa == it.factors
                  sz == it.size
                  cg == it.contiguous
      <3>1. it = [ao |-> a, index |-> ix, size |-> sz, coordinates |-> co, dims_m1 |-> dm,
                  strides |-> st, backstrides |-> bs, factors |-> fa, dataptr |-> dp,
                  contiguous |-> cg]
        BY WalksFields DEF Walks
      <3>2. Moved(it, ix, dp, c) = [it EXCEPT !.index = ix, !.dataptr = dp, !.coordinates = c]
        BY DEF Moved
      <3>. HIDE DEF ix, co, dp, dm, st, bs, fa, sz, cg, c, r
      <3>3. r = [ao |-> a, index |-> ix, size |-> sz, coordinates |-> c, dims_m1 |-> dm,
                 strides |-> st, backstrides |-> bs, factors |-> fa, dataptr |-> dp,
                 contiguous |-> cg]
        BY <2>1, <3>1
      <3>4. Moved(it, ix, dp, c)
              = [ao |-> a, index |-> ix, size |-> sz, coordinates |-> c, dims_m1 |-> dm,
                 strides |-> st, backstrides |-> bs, factors |-> fa, dataptr |-> dp,
                 contiguous |-> cg]
        BY <3>1, <3>2, ZenonT(20)
      <3>. QED
        BY <3>3, <3>4
    <2>. HIDE DEF r, c
    <2>3. Walks(r, a, dims) /\ r.index = it.index /\ r.dataptr = it.dataptr /\ r.coordinates = c
      BY <2>2, MovedWalks
    <2>4. Stands(r, a, dims, moved)
      BY <1>3, <2>3 DEF Stands
    <2>5. it.index < Product(dims) => c = CoordsAt(dims, it.index)
      BY <1>1, CoordsAtDigits DEF c
    <2>. QED
      BY <2>3, <2>4, <2>5 DEF r
  <1>. QED
    BY <1>2, <1>3

-----------------------------------------------------------------------------
(* Every iterator of a session.                                            *)

\* it walks its array in its shape and stands where its index says.
Placed(it, moved) ==
  Meets(it.ao, Shape(it)) /\ Walks(it, it.ao, Shape(it)) /\ Stands(it, it.ao, Shape(it), moved)

LEMMA PlacedIs ==
  ASSUME NEW it, NEW a, NEW dims, NEW moved, Meets(a, dims), Walks(it, a, dims),
         Stands(it, a, dims, moved)
  PROVE  Placed(it, moved) /\ it.ao = a /\ Shape(it) = dims
  <1>1. dims \in Seq(Nat)
    BY DEF Meets
  <1>2. it.ao = a /\ Shape(it) = dims
    BY <1>1, WalksFields, ShapeIs
  <1>. QED
    BY <1>2 DEF Placed

\* Two iterators over the same elements.
SameWalk(r, it) == r.ao = it.ao /\ Shape(r) = Shape(it) /\ r.size = it.size

LEMMA PlacedFields ==
  ASSUME NEW it, NEW moved, Placed(it, moved)
  PROVE  /\ it.size = Product(Shape(it)) /\ it.size \in Nat /\ it.index \in 0..it.size
         /\ it.contiguous = Contig(it.ao, Shape(it)) /\ it.factors = Factors(Shape(it))
         /\ Shape(it) \in Seq(Nat) /\ Len(it.dims_m1) = Len(Shape(it))
  <1>. DEFINE a == it.ao
              dims == Shape(it)
  <1>1. Meets(a, dims) /\ Walks(it, a, dims) /\ Stands(it, a, dims, moved)
    BY DEF Placed
  <1>2. dims \in Seq(Nat)
    BY <1>1 DEF Meets
  <1>. HIDE DEF a, dims
  <1>3. it.size = Product(dims) /\ it.contiguous = Contig(a, dims) /\ it.factors = Factors(dims)
    BY <1>1, WalksFields
  <1>4. Len(it.dims_m1) = Len(dims)
    BY <1>1, <1>2, ShapeIs
  <1>5. Product(dims) \in Nat
    BY <1>2, BelowStep
  <1>6. it.index \in 0..Product(dims)
    BY <1>1 DEF Stands
  <1>. QED
    BY <1>2, <1>3, <1>4, <1>5, <1>6 DEF a, dims

\* The address that a walk reaches is that of the element with its index.
LEMMA AddressAtIs ==
  ASSUME NEW it, NEW moved, Placed(it, moved), NEW m \in 0..(it.size - 1)
  PROVE  AddressAt(it, m) = AddressIn(it.ao, Shape(it), m)
  <1>. DEFINE a == it.ao
              dims == Shape(it)
              c == CoordsAt(dims, m)
  <1>1. Meets(a, dims) /\ dims \in Seq(Nat) /\ m \in 0..(Product(dims) - 1)
    BY PlacedFields DEF Placed
  <1>. HIDE DEF a, dims
  <1>2. c \in Coordinates(dims)
    BY <1>1, CoordsAtDigits
  <1>. HIDE DEF c
  <1>3. AddressOf(a, c) = a.data + SumFunction(Reach(c, StridesFor(a, dims), Len(dims)))
    BY <1>1, <1>2, AddressOfIs
  <1>. QED
    BY <1>3 DEF AddressAt, AddressIn, a, dims, c

LEMMA PlacedReset ==
  ASSUME NEW it, NEW moved, Placed(it, moved), NEW m \in BOOLEAN
  PROVE  Placed(ITER_RESET(it), m) /\ SameWalk(ITER_RESET(it), it) /\ ITER_RESET(it).index = 0
  <1>. DEFINE a == it.ao
              dims == Shape(it)
              r == ITER_RESET(it)
  <1>1. Meets(a, dims) /\ Walks(it, a, dims)
    BY DEF Placed
  <1>. HIDE DEF a, dims
  <1>2. r = BroadcastIter(a, dims)
    BY <1>1, ResetIsNew
  <1>. HIDE DEF r
  <1>3. Walks(r, a, dims) /\ Stands(r, a, dims, m) /\ r.index = 0
    BY <1>1, <1>2, NewWalks
  <1>4. Placed(r, m) /\ r.ao = a /\ Shape(r) = dims
    BY <1>1, <1>3, PlacedIs
  <1>5. r.size = it.size
    BY <1>1, <1>3, WalksFields
  <1>. QED
    BY <1>3, <1>4, <1>5 DEF SameWalk, a, dims, r

LEMMA PlacedNext ==
  ASSUME NEW it, NEW moved \in BOOLEAN, Placed(it, moved)
  PROVE  /\ Placed(IterNext(it), moved) /\ SameWalk(IterNext(it), it)
         /\ IterNext(it).index = IF it.index < it.size THEN it.index + 1 ELSE it.index
  <1>. DEFINE a == it.ao
              dims == Shape(it)
              r == ITER_NEXT(it)
  <1>1. Meets(a, dims) /\ Walks(it, a, dims) /\ Stands(it, a, dims, moved)
    BY DEF Placed
  <1>2. it.size = Product(dims)
    BY PlacedFields
  <1>3. ASSUME ~(it.index < it.size)
        PROVE  /\ Placed(IterNext(it), moved) /\ SameWalk(IterNext(it), it)
               /\ IterNext(it).index = it.index
    BY <1>3 DEF IterNext, Unfinished, SameWalk
  <1>. HIDE DEF a, dims
  <1>4. ASSUME it.index < it.size
        PROVE  /\ Placed(IterNext(it), moved) /\ SameWalk(IterNext(it), it)
               /\ IterNext(it).index = it.index + 1
    <2>1. Walks(r, a, dims) /\ Stands(r, a, dims, moved) /\ r.index = it.index + 1
      BY <1>1, <1>2, <1>4, NextStands
    <2>2. IterNext(it) = r
      BY <1>4 DEF IterNext, Unfinished
    <2>. HIDE DEF r
    <2>3. Placed(r, moved) /\ r.ao = a /\ Shape(r) = dims /\ r.size = Product(dims)
      BY <1>1, <2>1, PlacedIs, WalksFields
    <2>. QED
      BY <1>2, <2>1, <2>2, <2>3 DEF SameWalk, a, dims
  <1>. QED
    BY <1>3, <1>4

LEMMA PlacedGoto ==
  ASSUME NEW it, NEW moved, Placed(it, moved), NEW m \in 0..(it.size - 1)
  PROVE  /\ Placed(ITER_GOTO1D(it, m), TRUE) /\ SameWalk(ITER_GOTO1D(it, m), it)
         /\ ITER_GOTO1D(it, m).dataptr = AddressAt(it, m)
  <1>. DEFINE a == it.ao
              dims == Shape(it)
              r == ITER_GOTO1D(it, m)
  <1>1. Meets(a, dims) /\ Walks(it, a, dims)
    BY DEF Placed
  <1>2. it.size = Product(dims) /\ Product(dims) \in Nat /\ m \in 0..(Product(dims) - 1)
    BY PlacedFields
  <1>. HIDE DEF a, dims
  <1>0. r = ITER_GOTO1D(it, m)
    OBVIOUS
  <1>. HIDE DEF r
  <1>3. Walks(r, a, dims) /\ Stands(r, a, dims, TRUE) /\ r.dataptr = AddressIn(a, dims, m)
    <2>1. Walks(r, a, dims)
      BY <1>0, <1>1, <1>2, GotoStands
    <2>2. Stands(r, a, dims, TRUE)
      BY <1>0, <1>1, <1>2, GotoStands
    <2>3. r.dataptr = AddressIn(a, dims, m)
      <3>1. r.index = m
        BY <1>0, <1>1, <1>2, GotoStands
      <3>2. Points(r, a, dims)
        BY <1>0, <1>1, <1>2, GotoStands
      <3>. QED
        BY <3>1, <3>2 DEF Points
    <2>. QED
      BY <2>1, <2>2, <2>3
  <1>4. Placed(r, TRUE) /\ r.ao = a /\ Shape(r) = dims /\ r.size = Product(dims)
    BY <1>1, <1>3, PlacedIs, WalksFields
  <1>5. AddressAt(it, m) = AddressIn(a, dims, m)
    BY AddressAtIs DEF a, dims
  <1>. QED
    BY <1>2, <1>3, <1>4, <1>5 DEF SameWalk, a, dims, r

LEMMA PlacedCoords ==
  ASSUME NEW it, NEW moved \in BOOLEAN, Placed(it, moved)
  PROVE  Placed(IterCoords(it), moved) /\ SameWalk(IterCoords(it), it)
         /\ IterCoords(it).index = it.index
  <1>. DEFINE a == it.ao
              dims == Shape(it)
              r == IterCoords(it)
  <1>1. Meets(a, dims) /\ Walks(it, a, dims) /\ Stands(it, a, dims, moved)
    BY DEF Placed
  <1>2. it.size = Product(dims)
    BY PlacedFields
  <1>. HIDE DEF a, dims
  <1>3. Walks(r, a, dims) /\ Stands(r, a, dims, moved) /\ r.index = it.index
    BY <1>1, CoordsStand
  <1>. HIDE DEF r
  <1>4. Placed(r, moved) /\ r.ao = a /\ Shape(r) = dims /\ r.size = Product(dims)
    BY <1>1, <1>3, PlacedIs, WalksFields
  <1>. QED
    BY <1>2, <1>3, <1>4 DEF SameWalk, a, dims, r

\* What the properties say of one iterator.
LEMMA PlacedMeans ==
  ASSUME NEW it, NEW moved \in BOOLEAN, Placed(it, moved), it.index < it.size
  PROVE  /\ ~(moved /\ ~it.contiguous /\ Len(it.dims_m1) > 1) =>
              it.dataptr = AddressAt(it, it.index)
         /\ ~(moved /\ ~it.contiguous) =>
              IterCoords(it).coordinates = CoordsAt(Shape(it), it.index)
  <1>. DEFINE a == it.ao
              dims == Shape(it)
  <1>1. Meets(a, dims) /\ Walks(it, a, dims) /\ Stands(it, a, dims, moved)
    BY DEF Placed
  <1>2. /\ it.size = Product(dims) /\ it.contiguous = Contig(a, dims) /\ dims \in Seq(Nat)
        /\ Len(it.dims_m1) = Len(dims) /\ it.index \in 0..(it.size - 1)
    <2>1. /\ it.size = Product(dims) /\ it.contiguous = Contig(a, dims) /\ dims \in Seq(Nat)
          /\ Len(it.dims_m1) = Len(dims) /\ it.index \in 0..it.size /\ it.size \in Nat
      BY PlacedFields
    <2>. DEFINE m == it.index
                z == it.size
    <2>2. m \in 0..z /\ z \in Nat /\ m < z
      BY <2>1
    <2>. HIDE DEF m, z
    <2>3. m \in 0..(z - 1)
      BY <2>2
    <2>. QED
      BY <2>1, <2>3 DEF m, z
  <1>3. AddressAt(it, it.index) = AddressIn(a, dims, it.index)
    BY <1>2, AddressAtIs
  <1>. HIDE DEF a, dims
  <1>4. ASSUME ~(moved /\ ~it.contiguous /\ Len(it.dims_m1) > 1)
        PROVE  it.dataptr = AddressIn(a, dims, it.index)
    <2>1. ~moved \/ Contig(a, dims) \/ Len(dims) = 1
      <3>1. ASSUME Len(dims) = 0  PROVE Contig(a, dims)
        BY <1>1, <3>1, NoAxesContig
      <3>2. Len(dims) \in Nat /\ Len(it.dims_m1) = Len(dims)
        BY <1>2
      <3>3. it.contiguous => Contig(a, dims)
        BY <1>2
      <3>4. ~(Len(it.dims_m1) > 1) => Len(dims) = 0 \/ Len(dims) = 1
        <4>. DEFINE n == Len(dims)
                    k == Len(it.dims_m1)
        <4>1. n \in Nat /\ k = n
          BY <3>2
        <4>. HIDE DEF n, k
        <4>2. ~(k > 1) => n = 0 \/ n = 1
          BY <4>1
        <4>. QED
          BY <4>2 DEF n, k
      <3>. QED
        BY <1>4, <3>1, <3>3, <3>4
    <2>. QED
      BY <1>1, <1>2, <2>1 DEF Stands
  <1>5. ASSUME ~(moved /\ ~it.contiguous)
        PROVE  IterCoords(it).coordinates = CoordsAt(dims, it.index)
    <2>1. Contig(a, dims) \/ ~moved
      BY <1>2, <1>5
    <2>. QED
      BY <1>1, <1>2, <2>1, CoordsStand
  <1>. QED
    BY <1>3, <1>4, <1>5 DEF dims

-----------------------------------------------------------------------------
(* The invariant.                                                          *)

\* Every iterator walks its array and stands where its index says; one that a
\* single assignment moved is only held to what it can still promise.
WalkInv ==
  \A k \in Sessions : /\ k \notin jumped => Placed(iters[k], FALSE)
                      /\ k \in jumped => Placed(iters[k], TRUE)

LEMMA WalkImplies == WalkInv => WalkAsPromised
  <1>. SUFFICES ASSUME WalkInv, NEW k \in Sessions, Unfinished(iters[k])
                PROVE  /\ ~(Misplaced(k) /\ Len(iters[k].dims_m1) > 1) =>
                            iters[k].dataptr = AddressAt(iters[k], iters[k].index)
                       /\ ~Misplaced(k) =>
                            IterCoords(iters[k]).coordinates
                              = CoordsAt(Shape(iters[k]), iters[k].index)
    BY DEF WalkAsPromised, PointerAtIndex, CoordsAtIndex
  <1>. DEFINE it == iters[k]
  <1>1. it.index < it.size
    BY DEF Unfinished
  <1>2. CASE k \in jumped
    <2>1. Placed(it, TRUE)
      BY <1>2 DEF WalkInv
    <2>. HIDE DEF it
    <2>2. /\ ~(~it.contiguous /\ Len(it.dims_m1) > 1) => it.dataptr = AddressAt(it, it.index)
          /\ ~(~it.contiguous) => IterCoords(it).coordinates = CoordsAt(Shape(it), it.index)
      BY <1>1, <2>1, PlacedMeans
    <2>. QED
      BY <1>2, <2>2 DEF Misplaced, it
  <1>3. CASE k \notin jumped
    <2>1. Placed(it, FALSE)
      BY <1>3 DEF WalkInv
    <2>. HIDE DEF it
    <2>2. /\ it.dataptr = AddressAt(it, it.index)
          /\ IterCoords(it).coordinates = CoordsAt(Shape(it), it.index)
      BY <1>1, <2>1, PlacedMeans
    <2>. QED
      BY <1>3, <2>2 DEF Misplaced, it
  <1>. QED
    BY <1>2, <1>3

LEMMA NewPlaced ==
  ASSUME NEW a, NEW dims, Meets(a, dims)
  PROVE  Placed(BroadcastIter(a, dims), FALSE)
  <1>. DEFINE it == BroadcastIter(a, dims)
  <1>1. Walks(it, a, dims) /\ Stands(it, a, dims, FALSE)
    BY NewWalks
  <1>. HIDE DEF it
  <1>2. Placed(it, FALSE)
    BY <1>1, PlacedIs
  <1>. QED
    BY <1>2 DEF it

\* The iterators of a broadcast object walk its shape.
LEMMA MultiPlaced ==
  ASSUME NEW p \in Pairs
  PROVE  /\ MultiIterFromArrays(p)
              = [i \in 1..2 |-> BroadcastIter(p[i], BroadcastDims(ToSet(p)))]
         /\ \A i \in 1..2 : Placed(BroadcastIter(p[i], BroadcastDims(ToSet(p))), FALSE)
  <1>1. /\ p = <<p[1], p[2]>> /\ IsArray(p[1]) /\ IsArray(p[2]) /\ Broadcastable(ToSet(p))
    BY ArraysAssumption
  <1>2. DOMAIN p = 1..2
    BY <1>1
  <1>3. ASSUME NEW i \in 1..2  PROVE Placed(BroadcastIter(p[i], BroadcastDims(ToSet(p))), FALSE)
    <2>1. p[i] \in {p[1], p[2]}
      OBVIOUS
    <2>2. Meets(p[i], BroadcastDims(ToSet(p)))
      BY <1>1, <2>1, BroadcastMeets
    <2>. QED
      BY <2>2, NewPlaced
  <1>. QED
    BY <1>2, <1>3 DEF MultiIterFromArrays

LEMMA InitWalk == Init => WalkInv
  <1>. SUFFICES ASSUME Init  PROVE WalkInv
    OBVIOUS
  <1>1. jumped = {}
    BY DEF Init
  <1>2. ASSUME NEW a \in FlatArrays, iters = <<IterNew(a)>>  PROVE WalkInv
    <2>1. IterNew(a) = BroadcastIter(a, a.dims) /\ Meets(a, a.dims)
      BY ArraysAssumption, IterNewIs
    <2>2. Placed(IterNew(a), FALSE)
      BY <2>1, NewPlaced
    <2>3. DOMAIN iters = {1} /\ iters[1] = IterNew(a)
      BY <1>2
    <2>. QED
      BY <1>1, <2>2, <2>3 DEF WalkInv, Sessions
  <1>3. ASSUME NEW p \in Pairs, iters = MultiIterFromArrays(p)  PROVE WalkInv
    <2>1. /\ iters = [i \in 1..2 |-> BroadcastIter(p[i], BroadcastDims(ToSet(p)))]
          /\ \A i \in 1..2 : Placed(BroadcastIter(p[i], BroadcastDims(ToSet(p))), FALSE)
      BY <1>3, MultiPlaced
    <2>2. DOMAIN iters = 1..2 /\ \A k \in 1..2 : iters[k] = BroadcastIter(p[k], BroadcastDims(ToSet(p)))
      BY <2>1
    <2>3. \A k \in 1..2 : Placed(iters[k], FALSE)
      BY <2>1, <2>2
    <2>. QED
      BY <1>1, <2>2, <2>3 DEF WalkInv, Sessions
  <1>4. \/ \E a \in FlatArrays : iters = <<IterNew(a)>>
        \/ \E p \in Pairs : iters = MultiIterFromArrays(p)
    BY DEF Init
  <1>. QED
    BY <1>2, <1>3, <1>4

\* One iterator changes, and may have been moved or put back.
LEMMA OneMoves ==
  ASSUME WalkInv, NEW k \in Sessions, NEW it, iters' = [iters EXCEPT ![k] = it],
         \A j \in Sessions : j # k => (j \in jumped' <=> j \in jumped),
         k \in jumped' => Placed(it, TRUE), k \notin jumped' => Placed(it, FALSE)
  PROVE  WalkInv'
  <1>1. Sessions' = Sessions
    BY DEF Sessions
  <1>2. ASSUME NEW j \in Sessions
        PROVE  /\ j \notin jumped' => Placed(iters'[j], FALSE)
               /\ j \in jumped' => Placed(iters'[j], TRUE)
    <2>1. CASE j = k
      <3>1. iters'[j] = it
        BY <2>1 DEF Sessions
      <3>. QED
        BY <2>1, <3>1
    <2>2. CASE j # k
      <3>1. iters'[j] = iters[j]
        BY <2>2 DEF Sessions
      <3>. QED
        BY <2>2, <3>1 DEF WalkInv
    <2>. QED
      BY <2>1, <2>2
  <1>. QED
    BY <1>1, <1>2 DEF WalkInv

LEMMA NextWalk == WalkInv /\ [Next]_vars => WalkInv'
  <1>. SUFFICES ASSUME WalkInv, [Next]_vars  PROVE WalkInv'
    OBVIOUS
  <1>1. ASSUME NEW k \in Sessions, MoveNext(k)  PROVE WalkInv'
    <2>1. iters' = [iters EXCEPT ![k] = IterNext(iters[k])] /\ jumped' = jumped
      BY <1>1 DEF MoveNext
    <2>2. /\ k \in jumped => Placed(IterNext(iters[k]), TRUE)
          /\ k \notin jumped => Placed(IterNext(iters[k]), FALSE)
      <3>1. /\ Placed(iters[k], TRUE) => Placed(IterNext(iters[k]), TRUE)
            /\ Placed(iters[k], FALSE) => Placed(IterNext(iters[k]), FALSE)
        BY PlacedNext
      <3>. QED
        BY <3>1 DEF WalkInv
    <2>. QED
      BY <2>1, <2>2, OneMoves
  <1>2. ASSUME NEW k \in Sessions, iters' = [iters EXCEPT ![k] = ITER_RESET(iters[k])],
               jumped' = jumped \ {k}
        PROVE  WalkInv'
    <2>1. Placed(ITER_RESET(iters[k]), FALSE)
      <3>1. \/ Placed(iters[k], TRUE)
            \/ Placed(iters[k], FALSE)
        BY DEF WalkInv
      <3>. QED
        BY <3>1, PlacedReset
    <2>2. k \notin jumped' /\ \A j \in Sessions : j # k => (j \in jumped' <=> j \in jumped)
      BY <1>2
    <2>. QED
      BY <1>2, <2>1, <2>2, OneMoves
  <1>3. ASSUME NEW k \in Sessions, Reset(k)  PROVE WalkInv'
    BY <1>2, <1>3 DEF Reset
  <1>4. ASSUME NEW k \in Sessions, Coords(k)  PROVE WalkInv'
    <2>1. iters' = [iters EXCEPT ![k] = IterCoords(iters[k])] /\ jumped' = jumped
      BY <1>4 DEF Coords
    <2>2. /\ k \in jumped => Placed(IterCoords(iters[k]), TRUE)
          /\ k \notin jumped => Placed(IterCoords(iters[k]), FALSE)
      <3>1. /\ Placed(iters[k], TRUE) => Placed(IterCoords(iters[k]), TRUE)
            /\ Placed(iters[k], FALSE) => Placed(IterCoords(iters[k]), FALSE)
        BY PlacedCoords
      <3>. QED
        BY <3>1 DEF WalkInv
    <2>. QED
      BY <2>1, <2>2, OneMoves
  <1>5. ASSUME NEW k \in Sessions, NEW i \in Positions, NEW v, SingleAssign(k, i, v)  PROVE WalkInv'
    <2>. DEFINE m == Wrapped(iters[k], i)
                fresh == ITER_RESET(iters[k])
                it == ITER_GOTO1D(fresh, m)
    <2>1. /\ iters' = [iters EXCEPT ![k] = it] /\ jumped' = jumped \cup {k}
          /\ m \in 0..(iters[k].size - 1)
      BY <1>5 DEF SingleAssign, InBounds
    <2>. HIDE DEF m
    <2>2. Placed(fresh, FALSE) /\ fresh.size = iters[k].size
      <3>1. \/ Placed(iters[k], TRUE)
            \/ Placed(iters[k], FALSE)
        BY DEF WalkInv
      <3>. QED
        BY <3>1, PlacedReset DEF SameWalk
    <2>. HIDE DEF fresh
    <2>3. Placed(it, TRUE)
      <3>1. m \in 0..(fresh.size - 1)
        BY <2>1, <2>2
      <3>. QED
        BY <2>2, <3>1, PlacedGoto
    <2>. HIDE DEF it
    <2>4. k \in jumped' /\ \A j \in Sessions : j # k => (j \in jumped' <=> j \in jumped)
      BY <2>1
    <2>. QED
      BY <2>1, <2>3, <2>4, OneMoves
  <1>6. ASSUME NEW k \in Sessions, NEW ix \in Indexes, Subscript(k, ix)  PROVE WalkInv'
    BY <1>2, <1>6 DEF Subscript
  <1>7. ASSUME NEW k \in Sessions, NEW ix \in Indexes, NEW value \in Values,
               SubscriptAssign(k, ix, value)
        PROVE  WalkInv'
    BY <1>2, <1>7 DEF SubscriptAssign
  <1>8. ASSUME BroadcastMoveNext  PROVE WalkInv'
    <2>1. iters' = [k \in Sessions |-> IterNext(iters[k])] /\ jumped' = jumped
      BY <1>8 DEF BroadcastMoveNext, Sessions
    <2>2. ASSUME NEW k \in Sessions
          PROVE  /\ k \in jumped => Placed(IterNext(iters[k]), TRUE)
                 /\ k \notin jumped => Placed(IterNext(iters[k]), FALSE)
      <3>1. /\ Placed(iters[k], TRUE) => Placed(IterNext(iters[k]), TRUE)
            /\ Placed(iters[k], FALSE) => Placed(IterNext(iters[k]), FALSE)
        BY PlacedNext
      <3>. QED
        BY <3>1 DEF WalkInv
    <2>3. Sessions' = Sessions /\ \A k \in Sessions : iters'[k] = IterNext(iters[k])
      BY <2>1 DEF Sessions
    <2>. QED
      BY <2>1, <2>2, <2>3 DEF WalkInv
  <1>9. ASSUME BroadcastReset  PROVE WalkInv'
    <2>1. iters' = [k \in Sessions |-> ITER_RESET(iters[k])] /\ jumped' = {}
      BY <1>9 DEF BroadcastReset, Sessions
    <2>2. ASSUME NEW k \in Sessions  PROVE Placed(ITER_RESET(iters[k]), FALSE)
      <3>1. \/ Placed(iters[k], TRUE)
            \/ Placed(iters[k], FALSE)
        BY DEF WalkInv
      <3>. QED
        BY <3>1, PlacedReset
    <2>3. Sessions' = Sessions /\ \A k \in Sessions : iters'[k] = ITER_RESET(iters[k])
      BY <2>1 DEF Sessions
    <2>. QED
      BY <2>1, <2>2, <2>3 DEF WalkInv
  <1>10. ASSUME iters' = iters, jumped' = jumped  PROVE WalkInv'
    BY <1>10 DEF WalkInv, Sessions
  <1>11. ASSUME NEW p \in Copies, MoveInto(p[1], p[2])  PROVE WalkInv'
    BY <1>10, <1>11 DEF MoveInto
  <1>12. CASE UNCHANGED vars
    BY <1>10, <1>12 DEF vars
  <1>13. CASE Next
    BY <1>1, <1>3, <1>4, <1>5, <1>6, <1>7, <1>8, <1>9, <1>11, <1>13 DEF Next
  <1>. QED
    BY <1>12, <1>13

\* Whatever a program does with its flat iterators and broadcast objects, index,
\* pointer and coordinates of an iterator agree: for arrays of any number of
\* axes, with any lengths and strides.
THEOREM WalksAgree == Spec => []WalkAsPromised
  <1>1. Spec => []WalkInv
    BY InitWalk, NextWalk, PTL DEF Spec
  <1>. QED
    BY <1>1, WalkImplies, PTL

\* NpyArray_ITER_GOTO1D finds every element, from wherever the iterator stands,
\* even one that a single assignment misplaced: it only uses what no step
\* changes.  Single positions, slices and lists of indexes all go through it.
ElementsFound ==
  \A k \in Sessions : \A m \in 0..(iters[k].size - 1) :
    ITER_GOTO1D(iters[k], m).dataptr = AddressAt(iters[k], m)

\* For all arrays and in every reachable state, a position finds its element.
THEOREM PositionsFound == Spec => []ElementsFound
  <1>1. Spec => []WalkInv
    BY InitWalk, NextWalk, PTL DEF Spec
  <1>2. WalkInv => ElementsFound
    <2>. SUFFICES ASSUME WalkInv, NEW k \in Sessions, NEW m \in 0..(iters[k].size - 1)
                  PROVE  ITER_GOTO1D(iters[k], m).dataptr = AddressAt(iters[k], m)
      BY DEF ElementsFound
    <2>1. \/ Placed(iters[k], TRUE)
          \/ Placed(iters[k], FALSE)
      BY DEF WalkInv
    <2>. QED
      BY <2>1, PlacedGoto
  <1>. QED
    BY <1>1, <1>2, PTL

LEMMA SameAddresses ==
  ASSUME NEW r, NEW it, SameWalk(r, it), NEW n
  PROVE  AddressAt(r, n) = AddressAt(it, n)
  BY DEF SameWalk, AddressAt

\* The iterators stay those of one object, and none of them was moved while none
\* was used by itself.
StepInv ==
  /\ \E n \in Nat : iters = [k \in 1..n |-> iters[k]]
  /\ parted \in Nat /\ index \in Int /\ since \in Int /\ index - since \in Nat
  /\ Broadcast /\ parted = 0 => jumped = {}
  /\ BroadcastInStep

InStepFor(k, n) ==
  /\ iters[k].index = Min({n, iters[k].size})
  /\ current[k] = IF n \in 1..iters[k].size THEN AddressAt(iters[k], n - 1) ELSE None

LEMMA InStepIs ==
  BroadcastInStep <=> (Broadcast /\ parted = 0 => \A k \in Sessions : InStepFor(k, index - since))
  BY DEF BroadcastInStep, InStepFor

\* The iterators change and their sessions do not.
LEMMA SameSessions ==
  ASSUME StepInv, iters' = [k \in Sessions |-> iters'[k]]
  PROVE  /\ (\E n \in Nat : iters = [k \in 1..n |-> iters[k]])'
         /\ Broadcast' = Broadcast /\ Sessions' = Sessions
  <1>1. PICK n \in Nat : iters = [k \in 1..n |-> iters[k]]
    BY DEF StepInv
  <1>2. Sessions = 1..n /\ Len(iters) = n
    BY <1>1, LenIs DEF Sessions
  <1>3. iters' = [k \in 1..n |-> iters'[k]]
    BY <1>2
  <1>4. Len(iters') = n
    BY <1>3, LenIs
  <1>5. DOMAIN iters' = 1..n
    BY <1>3
  <1>. QED
    BY <1>2, <1>3, <1>4, <1>5 DEF Broadcast, Sessions

LEMMA InitStep == Init => StepInv
  <1>. SUFFICES ASSUME Init  PROVE StepInv
    OBVIOUS
  <1>0. /\ index = 0 /\ since = 0 /\ parted = 0 /\ jumped = {}
        /\ current = [k \in Sessions |-> None]
    BY DEF Init, Sessions
  <1>1. \E n \in Nat : /\ iters = [k \in 1..n |-> iters[k]]
                       /\ \A k \in 1..n : iters[k].index = 0
    <2>1. ASSUME NEW a \in FlatArrays, iters = <<IterNew(a)>>
          PROVE  /\ iters = [k \in 1..1 |-> iters[k]]
                 /\ \A k \in 1..1 : iters[k].index = 0
      <3>1. IterNew(a) = BroadcastIter(a, a.dims) /\ Meets(a, a.dims)
        BY ArraysAssumption, IterNewIs
      <3>2. BroadcastIter(a, a.dims).index = 0
        BY <3>1, NewWalks
      <3>3. iters[1].index = 0
        BY <2>1, <3>1, <3>2
      <3>. QED
        BY <2>1, <3>3
    <2>2. ASSUME NEW p \in Pairs, iters = MultiIterFromArrays(p)
          PROVE  /\ iters = [k \in 1..2 |-> iters[k]]
                 /\ \A k \in 1..2 : iters[k].index = 0
      <3>. DEFINE dims == BroadcastDims(ToSet(p))
      <3>1. iters = [i \in 1..2 |-> BroadcastIter(p[i], dims)]
        BY <2>2, MultiPlaced
      <3>2. ASSUME NEW k \in 1..2  PROVE BroadcastIter(p[k], dims).index = 0
        BY DEF BroadcastIter, Walk
      <3>. HIDE DEF dims
      <3>. QED
        BY <3>1, <3>2
    <2>3. \/ \E a \in FlatArrays : iters = <<IterNew(a)>>
          \/ \E p \in Pairs : iters = MultiIterFromArrays(p)
      BY DEF Init
    <2>. QED
      BY <2>1, <2>2, <2>3
  <1>2. ASSUME NEW k \in Sessions  PROVE InStepFor(k, 0)
    <2>1. iters[k].index = 0
      BY <1>1 DEF Sessions
    <2>2. iters[k].size \in Nat
      BY <1>0, InitWalk, PlacedFields DEF WalkInv
    <2>. DEFINE z == iters[k].size
    <2>3. Min({0, z}) = 0
      <3>1. z \in Int /\ 0 \in Int /\ 0 <= z
        BY <2>2
      <3>. HIDE DEF z
      <3>. QED
        BY <3>1, MinOf
    <2>4. 0 \notin 1..z /\ current[k] = None
      BY <1>0, <2>2
    <2>. QED
      BY <2>1, <2>3, <2>4 DEF InStepFor
  <1>. QED
    BY <1>0, <1>1, <1>2, InStepIs DEF StepInv

\* Use of one iterator by itself, which the object counts on never.
LEMMA UsedAlone ==
  ASSUME StepInv, NEW k \in Sessions, NEW it, iters' = [iters EXCEPT ![k] = it], Part,
         UNCHANGED <<index, since>>
  PROVE  StepInv'
  <1>1. iters' = [j \in Sessions |-> iters'[j]]
    BY DEF Sessions
  <1>2. /\ (\E n \in Nat : iters = [j \in 1..n |-> iters[j]])'
        /\ Broadcast' = Broadcast
    BY <1>1, SameSessions
  <1>3. parted' \in Nat /\ ~(Broadcast' /\ parted' = 0)
    BY <1>2 DEF Part, StepInv
  <1>4. BroadcastInStep'
    BY <1>3 DEF BroadcastInStep
  <1>. QED
    BY <1>2, <1>3, <1>4 DEF StepInv

\* The object advances: its iterators do so together, to the same element, or
\* are finished together.
LEMMA AllAdvance ==
  ASSUME WalkInv, StepInv, BroadcastMoveNext
  PROVE  StepInv'
  <1>. DEFINE n == index - since
  <1>0. /\ iters' = [k \in Sessions |-> IterNext(iters[k])]
        /\ current' = [k \in Sessions |-> Fetched(iters[k])]
        /\ index' = index + 1 /\ since' = since /\ parted' = parted /\ jumped' = jumped
    BY DEF BroadcastMoveNext, Sessions
  <1>1. /\ (\E m \in Nat : iters = [k \in 1..m |-> iters[k]])'
        /\ Broadcast' = Broadcast /\ Sessions' = Sessions
    <2>1. iters' = [k \in Sessions |-> iters'[k]]
      BY <1>0
    <2>. QED
      BY <2>1, SameSessions
  <1>2. n \in Nat /\ (index - since)' = n + 1 /\ (index - since)' \in Nat
    BY <1>0 DEF StepInv
  <1>. HIDE DEF n
  <1>3. ASSUME Broadcast, parted = 0, NEW k \in Sessions
        PROVE  /\ IterNext(iters[k]).index = Min({n + 1, IterNext(iters[k]).size})
               /\ Fetched(iters[k]) = IF n + 1 \in 1..IterNext(iters[k]).size
                                       THEN AddressAt(IterNext(iters[k]), (n + 1) - 1) ELSE None
    <2>. DEFINE it == iters[k]
                r == IterNext(it)
                z == it.size
                m == it.index
    <2>1. Placed(it, FALSE)
      BY <1>3 DEF StepInv, WalkInv
    <2>2. m = Min({n, z})
      BY <1>3 DEF StepInv, BroadcastInStep, n
    <2>. HIDE DEF it
    <2>3. z \in Nat
      BY <2>1, PlacedFields
    <2>4. SameWalk(r, it) /\ r.index = IF m < z THEN m + 1 ELSE m
      BY <2>1, PlacedNext
    <2>5. r.size = z
      BY <2>4 DEF SameWalk
    <2>6. ASSUME m < z  PROVE Fetched(it) = AddressAt(it, m)
      BY <2>1, <2>6, PlacedMeans DEF Fetched, Unfinished
    <2>7. ASSUME ~(m < z)  PROVE Fetched(it) = None
      BY <2>7 DEF Fetched, Unfinished
    <2>8. AddressAt(r, (n + 1) - 1) = AddressAt(it, (n + 1) - 1)
      BY <2>4, SameAddresses
    <2>. HIDE DEF r, z, m
    <2>9. m = IF n <= z THEN n ELSE z
      BY <1>2, <2>2, <2>3, MinOf
    <2>10. Min({n + 1, z}) = IF n + 1 <= z THEN n + 1 ELSE z
      BY <1>2, <2>3, MinOf
    <2>11. r.index = Min({n + 1, z})
      BY <1>2, <2>3, <2>4, <2>9, <2>10
    <2>12. (n + 1) - 1 = n /\ (n + 1 \in 1..z <=> n < z)
      BY <1>2, <2>3
    <2>13. Fetched(it) = IF n + 1 \in 1..z THEN AddressAt(r, (n + 1) - 1) ELSE None
      <3>1. CASE n < z
        <4>1. m = n /\ m < z
          BY <1>2, <2>3, <2>9, <3>1
        <4>. QED
          BY <2>6, <2>8, <2>12, <3>1, <4>1
      <3>2. CASE ~(n < z)
        <4>1. ~(m < z)
          BY <1>2, <2>3, <2>9, <3>2
        <4>. QED
          BY <2>7, <2>12, <3>2, <4>1
      <3>. QED
        BY <3>1, <3>2
    <2>. QED
      BY <2>5, <2>11, <2>13 DEF it, r
  <1>4. Broadcast' /\ parted' = 0 => \A k \in Sessions' : InStepFor(k, index - since)'
    <2>. SUFFICES ASSUME Broadcast, parted = 0, NEW k \in Sessions
                  PROVE  InStepFor(k, index - since)'
      BY <1>0, <1>1
    <2>1. iters'[k] = IterNext(iters[k]) /\ current'[k] = Fetched(iters[k])
      BY <1>0
    <2>. QED
      BY <1>2, <1>3, <2>1 DEF InStepFor
  <1>5. BroadcastInStep'
    BY <1>4 DEF BroadcastInStep, InStepFor
  <1>6. Broadcast' /\ parted' = 0 => jumped' = {}
    BY <1>0, <1>1 DEF StepInv
  <1>7. parted' \in Nat /\ index' \in Int /\ since' \in Int
    BY <1>0 DEF StepInv
  <1>. QED
    BY <1>1, <1>2, <1>5, <1>6, <1>7 DEF StepInv

LEMMA NextStep == WalkInv /\ StepInv /\ [Next]_vars => StepInv'
  <1>. SUFFICES ASSUME WalkInv, StepInv, [Next]_vars  PROVE StepInv'
    OBVIOUS
  <1>1. ASSUME NEW k \in Sessions, MoveNext(k)  PROVE StepInv'
    BY <1>1, UsedAlone DEF MoveNext
  <1>2. ASSUME NEW k \in Sessions, Reset(k)  PROVE StepInv'
    BY <1>2, UsedAlone DEF Reset
  <1>3. ASSUME NEW k \in Sessions, NEW i \in Positions, NEW v, SingleAssign(k, i, v)  PROVE StepInv'
    <2>. DEFINE it == ITER_GOTO1D(ITER_RESET(iters[k]), Wrapped(iters[k], i))
    <2>1. iters' = [iters EXCEPT ![k] = it] /\ Part /\ UNCHANGED <<index, since>>
      BY <1>3 DEF SingleAssign
    <2>. HIDE DEF it
    <2>. QED
      BY <2>1, UsedAlone
  <1>4. ASSUME NEW k \in Sessions, NEW ix \in Indexes, Subscript(k, ix)  PROVE StepInv'
    BY <1>4, UsedAlone DEF Subscript
  <1>5. ASSUME NEW k \in Sessions, NEW ix \in Indexes, NEW value \in Values,
               SubscriptAssign(k, ix, value)
        PROVE  StepInv'
    BY <1>5, UsedAlone DEF SubscriptAssign
  <1>6. ASSUME NEW k \in Sessions, Coords(k)  PROVE StepInv'
    <2>0. /\ iters' = [iters EXCEPT ![k] = IterCoords(iters[k])]
          /\ UNCHANGED <<current, index, jumped, parted, since>>
      BY <1>6 DEF Coords
    <2>1. iters' = [j \in Sessions |-> iters'[j]]
      BY <2>0 DEF Sessions
    <2>2. /\ (\E n \in Nat : iters = [j \in 1..n |-> iters[j]])'
          /\ Broadcast' = Broadcast /\ Sessions' = Sessions
      BY <2>1, SameSessions
    <2>3. ASSUME Broadcast, parted = 0, NEW j \in Sessions  PROVE InStepFor(j, index - since)'
      <3>1. Placed(iters[j], FALSE) /\ InStepFor(j, index - since)
        BY <2>3, InStepIs DEF StepInv, WalkInv
      <3>2. SameWalk(iters'[j], iters[j]) /\ iters'[j].index = iters[j].index
        <4>1. CASE j = k
          <5>1. iters'[j] = IterCoords(iters[j])
            BY <2>0, <4>1 DEF Sessions
          <5>. QED
            BY <3>1, <5>1, PlacedCoords
        <4>2. CASE j # k
          <5>1. iters'[j] = iters[j]
            BY <2>0, <4>2 DEF Sessions
          <5>. QED
            BY <5>1 DEF SameWalk
        <4>. QED
          BY <4>1, <4>2
      <3>3. iters'[j].size = iters[j].size
        BY <3>2 DEF SameWalk
      <3>4. AddressAt(iters'[j], (index - since) - 1) = AddressAt(iters[j], (index - since) - 1)
        BY <3>2, SameAddresses
      <3>. QED
        BY <2>0, <3>1, <3>2, <3>3, <3>4 DEF InStepFor
    <2>4. BroadcastInStep'
      <3>1. Broadcast' /\ parted' = 0 => \A j \in Sessions' : InStepFor(j, index - since)'
        BY <2>0, <2>2, <2>3
      <3>. QED
        BY <3>1 DEF BroadcastInStep, InStepFor
    <2>. QED
      BY <2>0, <2>2, <2>4 DEF StepInv
  <1>7. ASSUME BroadcastMoveNext  PROVE StepInv'
    BY <1>7, AllAdvance
  <1>8. ASSUME BroadcastReset  PROVE StepInv'
    <2>0. /\ iters' = [k \in Sessions |-> ITER_RESET(iters[k])]
          /\ current' = [k \in Sessions |-> None]
          /\ index' = -1 /\ since' = -1 /\ parted' = 0 /\ jumped' = {}
      BY <1>8 DEF BroadcastReset, Sessions
    <2>1. /\ (\E n \in Nat : iters = [j \in 1..n |-> iters[j]])'
          /\ Broadcast' = Broadcast /\ Sessions' = Sessions
      <3>1. iters' = [k \in Sessions |-> iters'[k]]
        BY <2>0
      <3>. QED
        BY <3>1, SameSessions
    <2>2. ASSUME NEW k \in Sessions  PROVE InStepFor(k, index - since)'
      <3>. DEFINE r == ITER_RESET(iters[k])
                  z == r.size
      <3>1. iters'[k] = r /\ current'[k] = None /\ (index - since)' = 0
        BY <2>0
      <3>2. Placed(r, FALSE) /\ r.index = 0
        <4>1. \/ Placed(iters[k], TRUE)
              \/ Placed(iters[k], FALSE)
          BY DEF WalkInv
        <4>. QED
          BY <4>1, PlacedReset
      <3>. HIDE DEF r
      <3>3. z \in Nat
        BY <3>2, PlacedFields
      <3>4. Min({0, z}) = 0
        <4>1. z \in Int /\ 0 \in Int /\ 0 <= z
          BY <3>3
        <4>. HIDE DEF z
        <4>. QED
          BY <4>1, MinOf
      <3>5. 0 \notin 1..z
        BY <3>3
      <3>. QED
        BY <3>1, <3>2, <3>4, <3>5 DEF InStepFor
    <2>3. BroadcastInStep'
      <3>1. Broadcast' /\ parted' = 0 => \A j \in Sessions' : InStepFor(j, index - since)'
        BY <2>1, <2>2
      <3>. QED
        BY <3>1 DEF BroadcastInStep, InStepFor
    <2>. QED
      BY <2>0, <2>1, <2>3 DEF StepInv
  <1>9. ASSUME UNCHANGED <<iters, current, index, jumped, parted, since>>  PROVE StepInv'
    BY <1>9 DEF StepInv, BroadcastInStep, Broadcast, Sessions
  <1>10. ASSUME NEW p \in Copies, MoveInto(p[1], p[2])  PROVE StepInv'
    BY <1>9, <1>10 DEF MoveInto
  <1>11. CASE UNCHANGED vars
    BY <1>9, <1>11 DEF vars
  <1>12. CASE Next
    BY <1>1, <1>2, <1>3, <1>4, <1>5, <1>6, <1>7, <1>8, <1>10, <1>12 DEF Next
  <1>. QED
    BY <1>11, <1>12

\* The iterators of a broadcast object stay in step, at the same element of the
\* broadcast shape, and finish together, for arrays of all shapes and strides
\* that can be broadcast, as long as none is used by itself.
THEOREM IteratorsInStep == Spec => []BroadcastInStep
  <1>1. Spec => []WalkInv
    BY InitWalk, NextWalk, PTL DEF Spec
  <1>2. Spec /\ []WalkInv => []StepInv
    BY InitStep, NextStep, PTL DEF Spec
  <1>3. StepInv => BroadcastInStep
    BY DEF StepInv
  <1>. QED
    BY <1>1, <1>2, <1>3, PTL

-----------------------------------------------------------------------------
(* Indexing a flat iterator.                                               *)

\* A walk from the start finds every element.
LEMMA AdvancedAt ==
  ASSUME NEW it, NEW moved \in BOOLEAN, Placed(it, moved), NEW n \in 0..(it.size - 1)
  PROVE  Advanced(it, n).dataptr = AddressAt(it, n)
  <1>. DEFINE f == CHOOSE g : Steps(it, g, n)
              z == it.size
              Right == {k \in 0..n : Placed(f[k], FALSE) /\ SameWalk(f[k], it) /\ f[k].index = k}
  <1>0. z \in Nat /\ n \in Nat /\ n < z
    BY PlacedFields
  <1>1. Steps(it, f, n)
    BY <1>0, StepsExist
  <1>2. Advanced(it, n) = f[n]
    BY AdvancedIs
  <1>. HIDE DEF f
  <1>3. 0 \in 0..n /\ n \in 0..n
    BY <1>0
  <1>4. f[0] = ITER_RESET(it)
    BY <1>1, <1>3 DEF Steps
  <1>5. 0 \in Right
    BY <1>3, <1>4, PlacedReset
  <1>6. ASSUME NEW k \in 1..n, k - 1 \in Right  PROVE k \in Right
    <2>. DEFINE r == f[k - 1]
    <2>1. Placed(r, FALSE) /\ SameWalk(r, it) /\ r.index = k - 1
      BY <1>6
    <2>2. k \in 0..n /\ k # 0 /\ k - 1 < z
      BY <1>0
    <2>3. f[k] = ITER_NEXT(r)
      BY <1>1, <2>2 DEF Steps
    <2>. HIDE DEF r
    <2>4. r.size = z
      BY <2>1 DEF SameWalk
    <2>. HIDE DEF z
    <2>5. IterNext(r) = ITER_NEXT(r)
      BY <2>1, <2>2, <2>4 DEF IterNext, Unfinished
    <2>6. r.index < r.size
      BY <2>1, <2>2, <2>4
    <2>7. Placed(f[k], FALSE) /\ SameWalk(f[k], r) /\ f[k].index = r.index + 1
      BY <2>1, <2>3, <2>5, <2>6, PlacedNext
    <2>8. SameWalk(f[k], it)
      BY <2>1, <2>7 DEF SameWalk
    <2>9. f[k].index = k
      BY <2>1, <2>7
    <2>. QED
      BY <2>2, <2>7, <2>8, <2>9
  <1>7. Right = 0..n
    <2>1. Right \in SUBSET (0..n)
      OBVIOUS
    <2>. HIDE DEF Right
    <2>. QED
      BY <1>0, <1>5, <1>6, <2>1, UpTo
  <1>8. Placed(f[n], FALSE) /\ SameWalk(f[n], it) /\ f[n].index = n
    BY <1>3, <1>7
  <1>9. f[n].index < f[n].size
    BY <1>0, <1>8 DEF SameWalk
  <1>10. f[n].dataptr = AddressAt(f[n], n)
    BY <1>8, <1>9, PlacedMeans
  <1>. QED
    BY <1>2, <1>8, <1>10, SameAddresses

-----------------------------------------------------------------------------
(* The addresses an index leads to are those of the elements it selects.   *)

AddressesOf(it, chosen) == [j \in DOMAIN chosen |-> AddressAt(it, chosen[j])]

LEMMA MaskPointersAre ==
  ASSUME NEW it, NEW moved \in BOOLEAN, Placed(it, moved),
         NEW mask \in Seq(BOOLEAN), Len(mask) <= it.size
  PROVE  MaskPointers(it, mask)
           = AddressesOf(it, Ascending({p \in 0..(it.size - 1) : p < Len(mask) /\ mask[p + 1]}))
  <1>. DEFINE n == it.size
              m == Len(mask)
              T == TrueUpTo(mask, m)
              S == {p \in 0..(n - 1) : p < m /\ mask[p + 1]}
  <1>0. n \in Nat /\ m \in Nat /\ m <= n
    BY PlacedFields
  <1>count. PICK c \in Nat : \E f : Enumerates(f, c, T) /\ MaskPointers(it, mask) = PointersOf(it, f, c)
    BY MaskLeads
  <1>1. PICK f : Enumerates(f, c, T) /\ MaskPointers(it, mask) = PointersOf(it, f, c)
    BY <1>count
  <1>. DEFINE g == [i \in 1..c |-> f[i] + (-1)]
  <1>. HIDE DEF n, m
  <1>2. T \in SUBSET Int
    BY <1>0 DEF TrueUpTo
  <1>3. S = {p + (-1) : p \in T}
    <2>1. ASSUME NEW p \in S  PROVE p \in {r + (-1) : r \in T}
      <3>1. p + 1 \in 1..m /\ mask[p + 1] /\ (p + 1) + (-1) = p
        BY <1>0
      <3>2. p + 1 \in T
        BY <3>1 DEF TrueUpTo
      <3>. QED
        BY <3>1, <3>2
    <2>2. ASSUME NEW r \in T  PROVE r + (-1) \in S
      <3>1. r \in 1..m /\ mask[r]
        BY DEF TrueUpTo
      <3>2. r + (-1) \in 0..(n - 1) /\ r + (-1) < m /\ (r + (-1)) + 1 = r
        BY <1>0, <3>1
      <3>. QED
        BY <3>1, <3>2
    <2>. HIDE DEF S, T
    <2>. QED
      BY <2>1, <2>2
  <1>. HIDE DEF T
  <1>4. Enumerates(g, c, {p + (-1) : p \in T})
    <2>1. -1 \in Int
      OBVIOUS
    <2>. QED
      BY <1>1, <1>2, <2>1, Shifted
  <1>5. S \in SUBSET Int
    BY <1>0
  <1>. HIDE DEF S, g
  <1>6. Ascending(S) = g /\ DOMAIN Ascending(S) = 1..c /\ g \in [1..c -> S]
    BY <1>3, <1>4, <1>5, AscendingIs DEF Enumerates
  <1>7. ASSUME NEW i \in 1..c  PROVE StepPointer(it, f[i]) = AddressAt(it, g[i])
    <2>1. g[i] = f[i] + (-1) /\ f[i] \in Int
      BY <1>1, <1>2 DEF g, Enumerates
    <2>2. g[i] \in 0..(n - 1) /\ g[i] = f[i] - 1
      BY <1>6, <2>1 DEF S
    <2>3. Advanced(it, f[i] - 1).dataptr = AddressAt(it, f[i] - 1)
      BY <2>2, AdvancedAt DEF n
    <2>. QED
      BY <2>2, <2>3 DEF StepPointer
  <1>8. PointersOf(it, f, c) = AddressesOf(it, Ascending(S))
    BY <1>6, <1>7 DEF PointersOf, AddressesOf
  <1>. QED
    BY <1>1, <1>8 DEF S, n, m

\* A position that is in bounds, counted from either end.
LEMMA WrappedFound ==
  ASSUME NEW it, NEW moved \in BOOLEAN, Placed(it, moved), NEW i, InBounds(it, i)
  PROVE  ITER_GOTO1D(it, Wrapped(it, i)).dataptr = AddressAt(it, Wrapped(it, i))
  BY PlacedGoto DEF InBounds

LEMMA SlicePointersAre ==
  ASSUME NEW it, NEW moved \in BOOLEAN, Placed(it, moved), NEW b, NEW chosen,
         SliceSteps(b) \in Nat, \A k \in 1..SliceSteps(b) : SliceAt(b, k) \in 0..(it.size - 1),
         chosen = [k \in 1..SliceSteps(b) |-> SliceAt(b, k)]
  PROVE  SlicePointers(it, b) = AddressesOf(it, chosen)
  <1>1. ASSUME NEW k \in 1..SliceSteps(b)
        PROVE  ITER_GOTO1D(it, SliceAt(b, k)).dataptr = AddressAt(it, chosen[k])
    BY PlacedGoto
  <1>2. DOMAIN chosen = 1..SliceSteps(b)
    OBVIOUS
  <1>. QED
    BY <1>1, <1>2 DEF SlicePointers, AddressesOf, SliceAt

\* Every index that is not refused leads to the elements it selects.
LEMMA PointersAre ==
  ASSUME NEW it, NEW moved \in BOOLEAN, Placed(it, moved), NEW ix, IsIndex(ix), ~IndexFails(it, ix)
  PROVE  Pointers(it, ix) = AddressesOf(it, Selected(ix, it.size))
  <1>. DEFINE n == it.size
              chosen == Selected(ix, n)
  <1>0. n \in Nat
    BY PlacedFields
  <1>1. CASE ix.kind = "all"
    <2>. DEFINE b == [start |-> 0, stop |-> n, step |-> 1]
    <2>1. Pointers(it, ix) = SlicePointers(it, b) /\ chosen = [j \in 1..n |-> j - 1]
      BY <1>1 DEF Pointers, Selected
    <2>2. SliceSteps(b) = n /\ \A k \in 1..n : SliceAt(b, k) = k - 1 /\ k - 1 \in 0..(n - 1)
      BY <1>0 DEF SliceSteps, SliceAt
    <2>. HIDE DEF b
    <2>3. chosen = [k \in 1..SliceSteps(b) |-> SliceAt(b, k)]
      BY <2>1, <2>2
    <2>4. \A k \in 1..SliceSteps(b) : SliceAt(b, k) \in 0..(n - 1)
      BY <2>2
    <2>5. SliceSteps(b) \in Nat
      BY <1>0, <2>2
    <2>. HIDE DEF chosen
    <2>6. SlicePointers(it, b) = AddressesOf(it, chosen)
      BY <2>3, <2>4, <2>5, SlicePointersAre
    <2>. QED
      BY <2>1, <2>6 DEF chosen
  <1>2. CASE ix.kind = "intp"
    <2>1. Pointers(it, ix) = <<ITER_GOTO1D(it, Wrapped(it, ix.at)).dataptr>>
      BY <1>2 DEF Pointers
    <2>2. chosen = <<Wrapped(it, ix.at)>>
      BY <1>2 DEF Selected, Wrapped
    <2>3. InBounds(it, ix.at)
      BY <1>2 DEF IndexFails
    <2>4. ITER_GOTO1D(it, Wrapped(it, ix.at)).dataptr = AddressAt(it, Wrapped(it, ix.at))
      BY <2>3, WrappedFound
    <2>5. AddressesOf(it, chosen) = <<AddressAt(it, Wrapped(it, ix.at))>>
      BY <2>2 DEF AddressesOf
    <2>. QED
      BY <2>1, <2>4, <2>5
  <1>3. CASE ix.kind = "slice"
    <2>. DEFINE s == ix.slice
                b == BindSlice(AddIndex(s), n)
    <2>1. Pointers(it, ix) = SlicePointers(it, b) /\ chosen = SlicePositions(s, n)
      BY <1>3 DEF Pointers, Selected
    <2>2. Parts(s)
      BY <1>3 DEF IsIndex, Parts
    <2>. HIDE DEF s, b, chosen
    <2>3. /\ SliceSteps(b) \in Nat
          /\ \A k \in 1..SliceSteps(b) : SliceAt(b, k) \in 0..(n - 1)
          /\ SlicePositions(s, n) = [k \in 1..SliceSteps(b) |-> SliceAt(b, k)]
      BY <1>0, <2>2, SliceLeads DEF b
    <2>4. SlicePointers(it, b) = AddressesOf(it, chosen)
      BY <2>1, <2>3, SlicePointersAre
    <2>. QED
      BY <2>1, <2>4 DEF chosen
  <1>4. CASE ix.kind = "mask"
    <2>1. /\ Pointers(it, ix) = MaskPointers(it, ix.mask)
          /\ chosen = Ascending({p \in 0..(n - 1) : p < Len(ix.mask) /\ ix.mask[p + 1]})
      BY <1>4 DEF Pointers, Selected
    <2>2. ix.mask \in Seq(BOOLEAN)
      BY <1>4 DEF IsIndex
    <2>3. Len(ix.mask) <= n
      BY <1>0, <1>4, <2>2 DEF IndexFails, Refused
    <2>. QED
      BY <2>1, <2>2, <2>3, MaskPointersAre
  <1>5. CASE ix.kind = "list"
    <2>. DEFINE l == ix.list
    <2>1. l \in Seq(Int)
      BY <1>5 DEF IsIndex
    <2>2. Good(it, ix) = Len(l) /\ \A j \in DOMAIN l : InBounds(it, l[j])
      BY <1>5, <2>1, AllGood DEF IndexFails
    <2>3. DOMAIN l = 1..Len(l)
      BY <2>1
    <2>4. Pointers(it, ix) = [j \in 1..Good(it, ix) |-> ITER_GOTO1D(it, Wrapped(it, l[j])).dataptr]
      BY <1>5 DEF Pointers
    <2>5. chosen = [j \in DOMAIN l |-> Wrapped(it, l[j])]
      BY <1>5 DEF Selected, Wrapped
    <2>. HIDE DEF l, chosen
    <2>6. \A j \in DOMAIN l :
            ITER_GOTO1D(it, Wrapped(it, l[j])).dataptr = AddressAt(it, Wrapped(it, l[j]))
      BY <2>2, WrappedFound
    <2>7. Pointers(it, ix) = [j \in DOMAIN l |-> AddressAt(it, Wrapped(it, l[j]))]
      BY <2>2, <2>3, <2>4, <2>6
    <2>8. AddressesOf(it, chosen) = [j \in DOMAIN l |-> AddressAt(it, Wrapped(it, l[j]))]
      BY <2>5 DEF AddressesOf
    <2>. QED
      BY <2>7, <2>8 DEF chosen
  <1>. QED
    BY <1>1, <1>2, <1>3, <1>4, <1>5 DEF IsIndex

LEMMA HowManyPointers ==
  ASSUME NEW it, NEW moved \in BOOLEAN, Placed(it, moved), NEW ix, IsIndex(ix), ~IndexFails(it, ix)
  PROVE  \E c \in Nat : DOMAIN Pointers(it, ix) = 1..c
  <1>. DEFINE n == it.size
  <1>0. n \in Nat
    BY PlacedFields
  <1>1. CASE ix.kind = "all"
    <2>. DEFINE b == [start |-> 0, stop |-> n, step |-> 1]
    <2>1. DOMAIN Pointers(it, ix) = 1..SliceSteps(b)
      BY <1>1 DEF Pointers, SlicePointers
    <2>2. SliceSteps(b) \in Nat
      BY <1>0 DEF SliceSteps
    <2>. HIDE DEF b
    <2>. QED
      BY <2>1, <2>2
  <1>2. CASE ix.kind = "intp"
    <2>1. DOMAIN Pointers(it, ix) = 1..1
      BY <1>2 DEF Pointers
    <2>. QED
      BY <2>1
  <1>3. CASE ix.kind = "slice"
    <2>. DEFINE s == ix.slice
                b == BindSlice(AddIndex(s), n)
    <2>1. DOMAIN Pointers(it, ix) = 1..SliceSteps(b)
      BY <1>3 DEF Pointers, SlicePointers
    <2>2. Parts(s)
      BY <1>3 DEF IsIndex, Parts
    <2>. HIDE DEF s, b
    <2>3. SliceSteps(b) \in Nat
      BY <1>0, <2>2, SliceLeads DEF b
    <2>. QED
      BY <2>1, <2>3
  <1>4. CASE ix.kind = "mask"
    <2>1. Pointers(it, ix) = MaskPointers(it, ix.mask) /\ ix.mask \in Seq(BOOLEAN)
      BY <1>4 DEF Pointers, IsIndex
    <2>2. PICK c \in Nat : \E f : MaskPointers(it, ix.mask) = PointersOf(it, f, c)
      BY <2>1, MaskLeads
    <2>3. DOMAIN Pointers(it, ix) = 1..c
      BY <2>1, <2>2 DEF PointersOf
    <2>. QED
      BY <2>3
  <1>5. CASE ix.kind = "list"
    <2>1. ix.list \in Seq(Int)
      BY <1>5 DEF IsIndex
    <2>2. Good(it, ix) = Len(ix.list) /\ Len(ix.list) \in Nat
      BY <1>5, <2>1, AllGood DEF IndexFails
    <2>3. DOMAIN Pointers(it, ix) = 1..Good(it, ix)
      BY <1>5 DEF Pointers
    <2>. QED
      BY <2>2, <2>3
  <1>. QED
    BY <1>1, <1>2, <1>3, <1>4, <1>5 DEF IsIndex

\* Values written through an index end up where they are promised.
LEMMA AssignsAre ==
  ASSUME NEW it, NEW moved \in BOOLEAN, Placed(it, moved), NEW ix, IsIndex(ix), ~IndexFails(it, ix),
         NEW m, m = [x \in DOMAIN m |-> m[x]], NEW value, value # <<>>
  PROVE  IterSubscriptAssign(m, it, ix, value) = Assigned(m, it, ix, value)
  <1>. DEFINE at == AddressesOf(it, Selected(ix, it.size))
  <1>1. Pointers(it, ix) = at
    BY PointersAre
  <1>2. PICK c \in Nat : DOMAIN at = 1..c
    BY <1>1, HowManyPointers
  <1>. DEFINE values == Cycled(value, c)
              Hits(x) == {j \in 1..c : at[j] = x}
  <1>3. Len(at) = c
    <2>1. at = [j \in 1..c |-> at[j]]
      BY <1>2 DEF AddressesOf
    <2>. HIDE DEF at
    <2>. QED
      BY <2>1, LenIs
  <1>4. ~Refused(it, ix)
    BY DEF IndexFails
  <1>5. IterSubscriptAssign(m, it, ix, value) = Write(m, at, values)
    BY <1>1, <1>3, <1>4 DEF IterSubscriptAssign
  <1>6. Assigned(m, it, ix, value)
          = [x \in DOMAIN m |-> IF x \in ToSet(at)
                                THEN value[((Max({j \in DOMAIN at : at[j] = x}) - 1) % Len(value)) + 1]
                                ELSE m[x]]
    BY DEF Assigned, AddressesOf
  <1>. HIDE DEF at, values
  <1>7. Write(m, at, values) = Written(m, at, values, c)
    BY <1>2, WriteLeaves
  <1>8. ASSUME NEW x \in DOMAIN m
        PROVE  (IF \E j \in 1..c : at[j] = x THEN values[Max(Hits(x))] ELSE m[x])
                 = IF x \in ToSet(at) THEN value[((Max(Hits(x)) - 1) % Len(value)) + 1] ELSE m[x]
    <2>1. x \in ToSet(at) <=> \E j \in 1..c : at[j] = x
      BY <1>2 DEF ToSet
    <2>2. ASSUME NEW j \in 1..c, at[j] = x
          PROVE  values[Max(Hits(x))] = value[((Max(Hits(x)) - 1) % Len(value)) + 1]
      <3>1. Hits(x) \in SUBSET (0..c) /\ Hits(x) # {} /\ Hits(x) \in SUBSET (1..c)
        BY <2>2
      <3>2. Max(Hits(x)) \in 1..c
        <4>. HIDE DEF Hits
        <4>. QED
          BY <3>1, MaxOf
      <3>. HIDE DEF Hits
      <3>. QED
        BY <3>2 DEF values, Cycled
    <2>. HIDE DEF Hits
    <2>. QED
      BY <2>1, <2>2
  <1>9. Written(m, at, values, c) = [x \in DOMAIN m |-> IF \E j \in 1..c : at[j] = x
                                                        THEN values[Max(Hits(x))] ELSE m[x]]
    BY DEF Written
  <1>10. Assigned(m, it, ix, value)
           = [x \in DOMAIN m |-> IF x \in ToSet(at)
                                 THEN value[((Max(Hits(x)) - 1) % Len(value)) + 1] ELSE m[x]]
    BY <1>2, <1>6
  <1>. HIDE DEF Hits
  <1>. QED
    BY <1>5, <1>7, <1>8, <1>9, <1>10

-----------------------------------------------------------------------------
(* The memory is as it was until the first write.                          *)

MemInv == writes \in Nat /\ (writes = 0 => mem = [x \in 0..(MemSize - 1) |-> x])

LEMMA InitMem == Init => MemInv
  BY DEF Init, MemInv

LEMMA NextMem == MemInv /\ [Next]_vars => MemInv'
  <1>. SUFFICES ASSUME MemInv, [Next]_vars  PROVE MemInv'
    OBVIOUS
  <1>1. ASSUME writes' = writes + 1  PROVE MemInv'
    BY <1>1 DEF MemInv
  <1>2. ASSUME UNCHANGED <<mem, writes>>  PROVE MemInv'
    BY <1>2 DEF MemInv
  <1>3. ASSUME NEW k \in Sessions, MoveNext(k) \/ Reset(k) \/ Coords(k)  PROVE MemInv'
    BY <1>2, <1>3 DEF MoveNext, Reset, Coords
  <1>4. ASSUME NEW k \in Sessions, NEW i \in Positions, NEW v, SingleAssign(k, i, v)  PROVE MemInv'
    BY <1>1, <1>4 DEF SingleAssign
  <1>5. ASSUME NEW k \in Sessions, NEW ix \in Indexes, Subscript(k, ix)  PROVE MemInv'
    BY <1>2, <1>5 DEF Subscript
  <1>6. ASSUME NEW k \in Sessions, NEW ix \in Indexes, NEW value \in Values,
               SubscriptAssign(k, ix, value)
        PROVE  MemInv'
    BY <1>1, <1>6 DEF SubscriptAssign
  <1>7. ASSUME BroadcastMoveNext \/ BroadcastReset  PROVE MemInv'
    BY <1>2, <1>7 DEF BroadcastMoveNext, BroadcastReset
  <1>8. ASSUME NEW p \in Copies, MoveInto(p[1], p[2])  PROVE MemInv'
    BY <1>1, <1>8 DEF MoveInto
  <1>9. ASSUME UNCHANGED vars  PROVE MemInv'
    BY <1>2, <1>9 DEF vars
  <1>. QED
    BY <1>3, <1>4, <1>5, <1>6, <1>7, <1>8, <1>9 DEF Next

LEMMA IndexingFollows == WalkInv /\ MemInv => IndexAsPromised
  <1>. SUFFICES ASSUME WalkInv, MemInv, Untouched  PROVE IndexAsPromised
    BY DEF IndexAsPromised, SubscriptAsPromised, AssignAsPromised
  <1>1. ASSUME NEW k \in Sessions  PROVE \E moved \in BOOLEAN : Placed(iters[k], moved)
    BY DEF WalkInv
  <1>2. ASSUME NEW k \in Sessions, NEW ix \in Indexes, ~IndexFails(iters[k], ix)
        PROVE  IterSubscript(mem, iters[k], ix)
                 = [j \in DOMAIN Selected(ix, iters[k].size) |->
                      mem[AddressAt(iters[k], Selected(ix, iters[k].size)[j])]]
    <2>. DEFINE it == iters[k]
                at == AddressesOf(it, Selected(ix, it.size))
    <2>1. Pointers(it, ix) = at
      <3>. HIDE DEF it, at
      <3>1. PICK moved \in BOOLEAN : Placed(it, moved)
        BY <1>1 DEF it
      <3>2. IsIndex(ix)
        BY IndexesAssumption
      <3>. QED
        BY <1>2, <3>1, <3>2, PointersAre DEF at, it
    <2>2. IterSubscript(mem, it, ix) = [j \in DOMAIN at |-> mem[at[j]]]
      BY <2>1 DEF IterSubscript
    <2>. QED
      BY <2>2 DEF AddressesOf
  <1>3. mem = [x \in DOMAIN mem |-> mem[x]]
    BY DEF MemInv, Untouched
  <1>4. ASSUME NEW k \in Sessions, NEW ix \in Indexes, NEW value \in Values,
               ~IndexFails(iters[k], ix), value # <<>>
        PROVE  IterSubscriptAssign(mem, iters[k], ix, value) = Assigned(mem, iters[k], ix, value)
    <2>1. PICK moved \in BOOLEAN : Placed(iters[k], moved)
      BY <1>1
    <2>2. IsIndex(ix)
      BY IndexesAssumption
    <2>. QED
      BY <1>3, <1>4, <2>1, <2>2, AssignsAre
  <1>. QED
    BY <1>2, <1>4 DEF IndexAsPromised, SubscriptAsPromised, AssignAsPromised

\* For all arrays and all indexes: reading and assigning through a flat iterator
\* reaches the elements the index selects, in its order, and no others, from
\* wherever the iterator stands.  This is NpyArray_IterSubscript and
\* NpyArray_IterSubscriptAssign with NpyArray_SliceSteps and the binding of
\* slices of npy_index.c; only step 0, which the code divides by, is left out.
THEOREM IndexingReachesSelected == Spec => []IndexAsPromised
  <1>1. Spec => []WalkInv
    BY InitWalk, NextWalk, PTL DEF Spec
  <1>2. Spec => []MemInv
    BY InitMem, NextMem, PTL DEF Spec
  <1>. QED
    BY <1>1, <1>2, IndexingFollows, PTL
=============================================================================
