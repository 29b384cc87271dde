--------------------------- MODULE FlatCopy_proofs ---------------------------
(***************************************************************************)
(* Copies of arrays, and the types of FlatIter.  A copy is a set of moves  *)
(* <<to, from>>.  The moves of the loop over the other axes and of a block *)
(* copy are found first; each loop of npy_ctors.c then makes the moves of  *)
(* the abstract copy, and those only.                                      *)
(***************************************************************************)
EXTENDS FlatIter_proofs

-----------------------------------------------------------------------------
(* Strided copies, one for every position of two outer iterators.          *)

AlongIter(it, m, dit, outstrides, sit, instrides, n, q) ==
  it = [s \in SUBSET DOMAIN q |->
          IF s = {} THEN m
          ELSE StridedCopy(it[s \ {Max(s)}], Advanced(dit, q[Max(s)] - 1).dataptr, outstrides,
                           Advanced(sit, q[Max(s)] - 1).dataptr, instrides, n)]

Counting(n) == [k \in 1..n |-> k]

LEMMA CopyAlongIs ==
  ASSUME NEW m, NEW dit, NEW outstrides, NEW sit, NEW instrides, NEW n
  PROVE  CopyAlong(m, dit, outstrides, sit, instrides, n)
           = (CHOOSE it : AlongIter(it, m, dit, outstrides, sit, instrides, n,
                                    Counting(dit.size)))[DOMAIN Counting(dit.size)]
  BY Zenon DEF CopyAlong, FoldLeft, MapThenFoldSet, AlongIter, Counting

\* The copy at position k, and its moves.
CopyAt(w, dit, outstrides, sit, instrides, n, k) ==
  StridedCopy(w, Advanced(dit, k - 1).dataptr, outstrides,
                 Advanced(sit, k - 1).dataptr, instrides, n)

RowAt(dit, outstrides, sit, instrides, n, k) ==
  Row(Advanced(dit, k - 1).dataptr, outstrides, Advanced(sit, k - 1).dataptr, instrides, n)

LEMMA FillsType ==
  ASSUME NEW v, NEW w, NEW D, NEW V, v \in [D -> V], NEW R, Clean(R, D), Fills(w, v, R)
  PROVE  w \in [D -> V]
  <1>1. DOMAIN v = D /\ w = [x \in D |-> w[x]]
    BY DEF Fills, Over
  <1>2. ASSUME NEW x \in D  PROVE w[x] \in V
    <2>1. CASE \E r \in R : r[1] = x
      <3>1. PICK r \in R : r[1] = x
        BY <2>1
      <3>2. w[x] = v[r[2]] /\ r[2] \in D
        BY <3>1 DEF Fills, Clean
      <3>. QED
        BY <3>2
    <2>2. CASE ~\E r \in R : r[1] = x
      <3>1. w[x] = v[x]
        BY <1>1, <2>2 DEF Fills
      <3>. QED
        BY <3>1
    <2>. QED
      BY <2>1, <2>2
  <1>. QED
    BY <1>1, <1>2

LEMMA AlongMoves ==
  ASSUME NEW m, Over(m, m), NEW T, Clean(T, DOMAIN m), NEW n \in Nat,
         NEW dit, NEW outstrides, NEW sit, NEW instrides, NEW z, z = dit.size, z \in Nat,
         \A k \in 1..z : RowAt(dit, outstrides, sit, instrides, n, k) \subseteq T
  PROVE  Fills(CopyAlong(m, dit, outstrides, sit, instrides, n), m,
               Gathered([k \in 1..z |-> RowAt(dit, outstrides, sit, instrides, n, k)], z))
  <1>. DEFINE q == Counting(z)
              D == DOMAIN m
              R == {m[x] : x \in D}
              V == [D -> R]
              C(w, k) == CopyAt(w, dit, outstrides, sit, instrides, n, k)
              Rw(k) == RowAt(dit, outstrides, sit, instrides, n, k)
              H == [p \in V \X (1..z) |-> C(p[1], p[2])]
              it == CHOOSE g : AlongIter(g, m, dit, outstrides, sit, instrides, n, q)
              G == [k \in 1..z |-> Rw(k)]
              f == [k \in 0..z |-> it[1..k]]
  <1>0. DOMAIN q = 1..z /\ \A k \in 1..z : q[k] = k
    BY DEF Counting
  <1>1. m \in V
    BY DEF Over
  <1>2. ASSUME NEW v, NEW k \in 1..z, Over(v, m)  PROVE Fills(C(v, k), v, Rw(k))
    <2>1. DOMAIN v = DOMAIN m /\ Over(v, v)
      BY <1>2 DEF Over
    <2>. QED
      BY <2>1, StridedMoves DEF CopyAt, RowAt
  <1>3. ASSUME NEW v \in V, NEW k \in 1..z  PROVE C(v, k) \in V
    <2>1. Over(v, m)
      BY DEF Over
    <2>2. Fills(C(v, k), v, Rw(k))
      BY <1>2, <2>1
    <2>3. Clean(Rw(k), D)
      <3>1. Rw(k) \subseteq T
        OBVIOUS
      <3>. HIDE DEF Rw
      <3>. QED
        BY <3>1, CleanPart
    <2>. HIDE DEF C, Rw, R
    <2>. QED
      BY <2>2, <2>3, FillsType
  <1>4. H \in [V \X (1..z) -> V]
    <2>. HIDE DEF C, V
    <2>. QED
      BY <1>3
  <1>5. PICK g : DomIter(g, z, m, H) /\ \A s \in SUBSET (1..z) : g[s] \in V
    <2>. HIDE DEF V, H
    <2>. QED
      BY <1>1, <1>4, DomIterExists
  <1>6. ASSUME NEW s \in SUBSET (1..z), s # {}
        PROVE  H[<<g[s \ {Max(s)}], Max(s)>>] = C(g[s \ {Max(s)}], q[Max(s)])
    <2>1. Max(s) \in 1..z
      <3>1. s \in SUBSET (0..z)
        OBVIOUS
      <3>2. Max(s) \in s
        BY <1>6, <3>1, MaxOf
      <3>. QED
        BY <3>2
    <2>2. g[s \ {Max(s)}] \in V
      BY <1>5
    <2>. HIDE DEF V, C
    <2>. QED
      BY <1>0, <2>1, <2>2
  <1>7. AlongIter(g, m, dit, outstrides, sit, instrides, n, q)
    <2>. HIDE DEF V, H, q
    <2>1. g = [s \in SUBSET (1..z) |-> IF s = {} THEN m ELSE C(g[s \ {Max(s)}], q[Max(s)])]
      <3>. HIDE DEF C
      <3>. QED
        BY <1>5, <1>6 DEF DomIter
    <2>. QED
      BY <1>0, <2>1 DEF AlongIter, CopyAt
  <1>8. AlongIter(it, m, dit, outstrides, sit, instrides, n, q)
    <2>. HIDE DEF q, V, H
    <2>. QED
      BY <1>7
  <1>9. CopyAlong(m, dit, outstrides, sit, instrides, n) = it[1..z]
    BY <1>0, CopyAlongIs
  <1>. HIDE DEF it, q, H, V, R
  <1>10. f[0] = m
    <2>1. 1..0 = {} /\ {} \in SUBSET (1..z) /\ 0 \in 0..z
      OBVIOUS
    <2>2. it[{}] = m
      BY <1>0, <1>8, <2>1 DEF AlongIter
    <2>. QED
      BY <2>1, <2>2
  <1>11. ASSUME NEW k \in 1..z  PROVE f[k] = C(f[k - 1], k)
    <2>1. 1..k \in SUBSET (1..z) /\ 1..k # {} /\ Max(1..k) = k /\ (1..k) \ {k} = 1..(k - 1)
      BY LastOf
    <2>2. it[1..k] = C(it[1..(k - 1)], k)
      <3>1. it[1..k] = C(it[(1..k) \ {Max(1..k)}], q[Max(1..k)])
        BY <1>0, <1>8, <2>1 DEF AlongIter, CopyAt
      <3>. HIDE DEF C
      <3>2. q[Max(1..k)] = k
        BY <1>0, <2>1
      <3>. QED
        BY <2>1, <3>1, <3>2
    <2>3. k \in 0..z /\ k - 1 \in 0..z
      OBVIOUS
    <2>. HIDE DEF C
    <2>. QED
      BY <2>2, <2>3
  <1>12. ASSUME NEW k \in 1..z, Over(f[k - 1], m)  PROVE Fills(f[k], f[k - 1], G[k])
    <2>. HIDE DEF f, C, Rw
    <2>1. Fills(C(f[k - 1], k), f[k - 1], Rw(k))
      BY <1>2, <1>12
    <2>. QED
      BY <1>11, <2>1
  <1>13. \A k \in 1..z : G[k] \subseteq T
    OBVIOUS
  <1>14. f[z] = it[1..z]
    BY <1>9
  <1>. HIDE DEF f, G
  <1>15. Fills(f[z], m, Gathered(G, z))
    BY <1>10, <1>12, <1>13, FillsInTurn
  <1>. QED
    BY <1>9, <1>14, <1>15 DEF G

-----------------------------------------------------------------------------
(* A walk over all axes but one.                                           *)

\* The shape of such a walk.
Flat(dims, k) == [dims EXCEPT ![k] = 1]

LEMMA FlatType ==
  ASSUME NEW dims \in Seq(Nat), NEW k \in 1..Len(dims)
  PROVE  /\ Flat(dims, k) \in Seq(Nat) /\ Len(Flat(dims, k)) = Len(dims)
         /\ Flat(dims, k)[k] = 1
         /\ \A i \in 1..Len(dims) : i # k => Flat(dims, k)[i] = dims[i]
  BY DEF Flat

LEMMA FlatProduct ==
  ASSUME NEW dims \in Seq(Nat), NEW k \in 1..Len(dims)
  PROVE  Product(dims) = dims[k] * Product(Flat(dims, k)) /\ Product(Flat(dims, k)) \in Nat
  <1>. DEFINE n == Len(dims)
              e == Flat(dims, k)
              B(i) == Below(dims, i)
              E(i) == Below(e, i)
              Same == {i \in 0..(n - k) : B(n - i) = E(n - i)}
              More == {i \in 0..(k - 1) : B(i) = dims[k] * E(i)}
  <1>0. n \in Nat /\ e \in Seq(Nat) /\ Len(e) = n /\ e[k] = 1
        /\ \A i \in 1..n : dims[i] \in Nat /\ e[i] \in Nat /\ (i # k => e[i] = dims[i])
    BY FlatType
  <1>. HIDE DEF e
  <1>1. /\ B(n) = 1 /\ B(0) = Product(dims) /\ (\A i \in 0..n : B(i) \in Nat)
        /\ \A i \in 1..n : B(i - 1) = dims[i] * B(i)
    BY BelowStep
  <1>2. /\ E(n) = 1 /\ E(0) = Product(e) /\ (\A i \in 0..n : E(i) \in Nat)
        /\ \A i \in 1..n : E(i - 1) = e[i] * E(i)
    BY <1>0, BelowStep
  <1>. HIDE DEF B, E, n
  <1>3. Same = 0..(n - k)
    <2>1. 0 \in Same
      <3>1. n - 0 = n /\ 0 \in 0..(n - k)
        BY <1>0 DEF n
      <3>. QED
        BY <1>1, <1>2, <3>1
    <2>2. ASSUME NEW i \in 1..(n - k), i - 1 \in Same  PROVE i \in Same
      <3>. DEFINE j == n - (i - 1)
      <3>1. j \in 1..n /\ j - 1 = n - i /\ j # k /\ i \in 0..(n - k)
        BY <1>0 DEF n
      <3>2. B(j) = E(j)
        BY <2>2
      <3>. HIDE DEF j
      <3>3. e[j] = dims[j]
        BY <1>0, <3>1
      <3>4. B(j - 1) = dims[j] * B(j) /\ E(j - 1) = e[j] * E(j)
        BY <1>1, <1>2, <3>1
      <3>5. B(n - i) = E(n - i)
        BY <3>1, <3>2, <3>3, <3>4
      <3>. QED
        BY <3>1, <3>5
    <2>3. Same \in SUBSET (0..(n - k)) /\ n - k \in Nat
      BY <1>0 DEF n
    <2>. HIDE DEF Same
    <2>. QED
      BY <2>1, <2>2, <2>3, UpTo
  <1>4. B(k) = E(k)
    <2>1. n - k \in 0..(n - k) /\ n - (n - k) = k
      BY <1>0 DEF n
    <2>2. n - k \in Same
      <3>. HIDE DEF Same
      <3>. QED
        BY <1>3, <2>1
    <2>. QED
      BY <2>1, <2>2
  <1>5. More = 0..(k - 1)
    <2>0. k \in 1..n /\ k \in 0..n
      BY DEF n
    <2>1. k - 1 \in More
      <3>1. k - 1 \in 0..(k - 1) /\ E(k - 1) = 1 * E(k) /\ B(k - 1) = dims[k] * B(k)
        BY <1>0, <1>1, <1>2, <2>0
      <3>2. E(k) \in Nat
        BY <1>2, <2>0
      <3>3. E(k - 1) = E(k)
        BY <3>1, <3>2
      <3>. QED
        BY <1>4, <3>1, <3>3
    <2>2. ASSUME NEW i \in 1..(k - 1), i \in More  PROVE i - 1 \in More
      <3>1. i \in 1..n /\ i \in 0..n /\ i # k /\ i - 1 \in 0..(k - 1)
        BY <1>0, <2>0
      <3>2. B(i) = dims[k] * E(i) /\ e[i] = dims[i]
        BY <1>0, <2>2, <3>1
      <3>3. B(i - 1) = dims[i] * B(i) /\ E(i - 1) = dims[i] * E(i)
        BY <1>1, <1>2, <3>1, <3>2
      <3>. DEFINE x == dims[i]
                  y == dims[k]
                  w == E(i)
      <3>4. x \in Nat /\ y \in Nat /\ w \in Nat
        BY <1>0, <1>2, <2>0, <3>1
      <3>. HIDE DEF x, y, w
      <3>5. x * (y * w) = y * (x * w)
        BY <3>4
      <3>6. B(i - 1) = dims[k] * E(i - 1)
        BY <3>2, <3>3, <3>5 DEF x, y, w
      <3>. QED
        BY <3>1, <3>6
    <2>3. More \in SUBSET (0..(k - 1)) /\ k - 1 \in Nat
      BY <2>0
    <2>. HIDE DEF More
    <2>. QED
      BY <2>1, <2>2, <2>3, DownFrom
  <1>6. 0 \in More
    <2>1. 0 \in 0..(k - 1)
      OBVIOUS
    <2>. HIDE DEF More
    <2>. QED
      BY <1>5, <2>1
  <1>7. 0 \in 0..n
    BY <1>0
  <1>. QED
    BY <1>1, <1>2, <1>6, <1>7 DEF e

\* An odometer over shape e with strides s.
Rest(a, e, s, factors, ix, coords, ptr) ==
  [ao |-> a, index |-> ix, size |-> Product(e), coordinates |-> coords,
   dims_m1 |-> Ends(e), strides |-> s, backstrides |-> Back(e, s),
   factors |-> factors, dataptr |-> ptr, contiguous |-> FALSE]

LEMMA RestFields ==
  ASSUME NEW a, NEW e, NEW s, NEW factors, NEW ix, NEW coords, NEW ptr,
         NEW it, it = Rest(a, e, s, factors, ix, coords, ptr)
  PROVE  /\ it.ao = a /\ it.index = ix /\ it.size = Product(e) /\ it.coordinates = coords
         /\ it.dims_m1 = Ends(e) /\ it.strides = s /\ it.backstrides = Back(e, s)
         /\ it.dataptr = ptr /\ ~it.contiguous
  BY DEF Rest

\* One field changed.
WithIndex(it, i)  == [it EXCEPT !.index = i]

WithCoords(it, c) == [it EXCEPT !.coordinates = c]

WithPtr(it, p)    == [it EXCEPT !.dataptr = p]

LEMMA RestWith ==
  ASSUME NEW a, NEW e, NEW s, NEW factors, NEW ix, NEW coords, NEW ptr,
         NEW it, it = Rest(a, e, s, factors, ix, coords, ptr)
  PROVE  /\ \A i : WithIndex(it, i) = Rest(a, e, s, factors, i, coords, ptr)
         /\ \A c : WithCoords(it, c) = Rest(a, e, s, factors, ix, c, ptr)
         /\ \A p : WithPtr(it, p) = Rest(a, e, s, factors, ix, coords, p)
  <1>. DEFINE sz == Product(e)
              dm == Ends(e)
              bs == Back(e, s)
              cg == FALSE
              Is(u, i, c, p) == u = [ao |-> a, index |-> i, size |-> sz, coordinates |-> c,
                                     dims_m1 |-> dm, strides |-> s, backstrides |-> bs,
                                     factors |-> factors, dataptr |-> p, contiguous |-> cg]
  <1>1. Is(it, ix, coords, ptr)
    BY DEF Rest
  <1>2. \A u, i, c, p : Is(u, i, c, p) => u = Rest(a, e, s, factors, i, c, p)
    BY DEF Rest
  <1>. HIDE DEF sz, dm, bs, cg
  <1>3. ASSUME NEW i  PROVE Is(WithIndex(it, i), i, coords, ptr)
    BY <1>1 DEF WithIndex
  <1>4. ASSUME NEW c  PROVE Is(WithCoords(it, c), ix, c, ptr)
    BY <1>1 DEF WithCoords
  <1>5. ASSUME NEW p  PROVE Is(WithPtr(it, p), ix, coords, p)
    BY <1>1 DEF WithPtr
  <1>. HIDE DEF Is
  <1>. QED
    BY <1>2, <1>3, <1>4, <1>5

LEMMA EndsLen ==
  ASSUME NEW dims \in Seq(Nat)
  PROVE  Len(Ends(dims)) = Len(dims) /\ DOMAIN Ends(dims) = 1..Len(dims)
  <1>. DEFINE n == Len(dims)
              e == [i \in 1..n |-> dims[i] - 1]
  <1>1. n \in Nat /\ e \in [1..n -> Int]
    OBVIOUS
  <1>. HIDE DEF e, n
  <1>2. e \in Seq(Int) /\ Len(e) = n /\ DOMAIN e = 1..n
    BY <1>1
  <1>. QED
    BY <1>2 DEF Ends, e, n

LEMMA WithoutAxisIs ==
  ASSUME NEW a, NEW dims, Meets(a, dims), Product(dims) # 0, NEW k \in 1..Len(dims)
  PROVE  WithoutAxis(BroadcastIter(a, dims), k)
           = Rest(a, Flat(dims, k), StridesFor(a, dims), Factors(dims), 0, Zeros(dims), a.data)
  <1>. DEFINE n == Len(dims)
              e == Flat(dims, k)
              s == StridesFor(a, dims)
              it == BroadcastIter(a, dims)
  <1>0. dims \in Seq(Nat) /\ n \in Nat /\ s \in [1..n -> Int]
    BY StridesForType DEF Meets
  <1>1. it = [ao |-> a, index |-> 0, size |-> Product(dims), coordinates |-> Zeros(dims),
              dims_m1 |-> Ends(dims), strides |-> s, backstrides |-> Back(dims, s),
              factors |-> Factors(dims), dataptr |-> a.data, contiguous |-> Contig(a, dims)]
    BY NewWalks
  <1>2. /\ e \in Seq(Nat) /\ Len(e) = n /\ e[k] = 1
        /\ \A i \in 1..n : i # k => e[i] = dims[i]
    BY <1>0, FlatType
  <1>. HIDE DEF e, s
  <1>3. Ends(e) = [Ends(dims) EXCEPT ![k] = 0]
    <2>1. \A i \in 1..n : e[i] - 1 = IF i = k THEN 0 ELSE dims[i] - 1
      BY <1>2
    <2>. QED
      BY <1>2, <2>1 DEF Ends
  <1>4. Back(e, s) = [Back(dims, s) EXCEPT ![k] = 0]
    <2>1. \A i \in 1..n : s[i] * (e[i] - 1) = IF i = k THEN 0 ELSE s[i] * (dims[i] - 1)
      <3>1. ASSUME NEW i \in 1..n, i = k  PROVE s[i] * (e[i] - 1) = 0
        <4>1. e[i] - 1 = 0
          BY <1>2, <3>1
        <4>2. s[i] \in Int
          BY <1>0
        <4>3. s[i] * 0 = 0
          BY <4>2
        <4>. QED
          BY <4>1, <4>3
      <3>. QED
        BY <1>2, <3>1
    <2>. QED
      BY <1>2, <2>1 DEF Back
  <1>5. Product(dims) \div (Ends(dims)[k] + 1) = Product(e)
    <2>1. Product(dims) = dims[k] * Product(e) /\ Product(e) \in Nat
      BY <1>0, FlatProduct DEF e
    <2>2. dims[k] \in Nat /\ dims[k] > 0
      BY <1>0, NoEmptyAxis
    <2>3. Ends(dims)[k] + 1 = dims[k]
      BY <2>2 DEF Ends
    <2>. DEFINE x == Product(e)
                y == dims[k]
    <2>4. Product(dims) = y * x /\ x \in Int /\ y \in Nat \ {0}
      BY <2>1, <2>2
    <2>. HIDE DEF x, y
    <2>5. 0 \in 0..(y - 1) /\ y * x + 0 = y * x
      BY <2>4
    <2>6. (y * x + 0) \div y = x
      BY <2>4, <2>5, DivUnique
    <2>7. Product(dims) \div y = x
      BY <2>4, <2>5, <2>6
    <2>. QED
      BY <2>3, <2>7 DEF x, y
  <1>. DEFINE sz == Product(dims)
              dm == Ends(dims)
              bs == Back(dims, s)
              fa == Factors(dims)
              cg == Contig(a, dims)
              co == Zeros(dims)
              dp == a.data
              z == Product(e)
              de == [dm EXCEPT ![k] = 0]
              be == [bs EXCEPT ![k] = 0]
  <1>6. it = [ao |-> a, index |-> 0, size |-> sz, coordinates |-> co,
              dims_m1 |-> dm, strides |-> s, backstrides |-> bs,
              factors |-> fa, dataptr |-> dp, contiguous |-> cg]
    BY <1>1
  <1>7. WithoutAxis(it, k)
          = [it EXCEPT !.contiguous = FALSE, !.size = z, !.dims_m1 = de, !.backstrides = be]
    <2>. HIDE DEF it, sz, dm, bs, fa, cg, co, dp, z
    <2>1. it.size = sz /\ it.dims_m1 = dm /\ it.backstrides = bs
      BY <1>6
    <2>2. sz # 0
      BY DEF sz
    <2>3. (IF it.size = 0 THEN 0 ELSE it.size \div (it.dims_m1[k] + 1)) = z
      BY <1>5, <2>1, <2>2 DEF sz, dm, z
    <2>4. WithoutAxis(it, k)
            = [it EXCEPT !.contiguous = FALSE,
                         !.size = IF it.size = 0 THEN 0 ELSE it.size \div (it.dims_m1[k] + 1),
                         !.dims_m1 = [it.dims_m1 EXCEPT ![k] = 0],
                         !.backstrides = [it.backstrides EXCEPT ![k] = 0]]
      BY <1>6 DEF WithoutAxis
    <2>. QED
      BY <2>1, <2>3, <2>4
  <1>8. WithoutAxis(it, k)
          = [ao |-> a, index |-> 0, size |-> z, coordinates |-> co,
              dims_m1 |-> de, strides |-> s, backstrides |-> be,
              factors |-> fa, dataptr |-> dp, contiguous |-> FALSE]
    <2>. HIDE DEF it, sz, dm, bs, fa, cg, co, dp, z, de, be
    <2>. QED
      BY ZenonT(40), <1>6, <1>7
  <1>. QED
    BY <1>3, <1>4, <1>8 DEF Rest, e, s

\* The address of coordinates c, by strides.
At(a, c, s) == a.data + SumFunction(Reach(c, s, Len(s)))

\* An array at whose elements strides s reach for coordinates of shape e.
Strides(a, e, s) == a.data \in Int /\ e \in Seq(Nat) /\ s \in Seq(Int) /\ Len(s) = Len(e)

\* The walk when it stands at place m.
RestAt(a, e, s, factors, m) == Rest(a, e, s, factors, m, CoordsAt(e, m), At(a, CoordsAt(e, m), s))

\* ITER_NEXT takes the odometer to the next coordinates and their address.
LEMMA RestNext ==
  ASSUME NEW a, NEW e, NEW s, Strides(a, e, s), Len(e) # 1, NEW factors,
         NEW m \in Nat, m + 1 < Product(e), NEW it, it = RestAt(a, e, s, factors, m)
  PROVE  ITER_NEXT(it) = RestAt(a, e, s, factors, m + 1)
  <1>. SUFFICES ASSUME a.data \in Int, e \in Seq(Nat), s \in Seq(Int), Len(s) = Len(e)
                PROVE  ITER_NEXT(it) = RestAt(a, e, s, factors, m + 1)
    BY DEF Strides
  <1>. DEFINE n == Len(e)
              c == CoordsAt(e, m)
              ptr == At(a, c, s)
              k == NextAxis(it)
              d == Stepped(c, k, n)
              back == SumFunction([i \in (k + 1)..Len(Ends(e)) |-> Back(e, s)[i]])
              next == [it EXCEPT !.index = @ + 1]
  <1>0. /\ n \in Nat /\ Product(e) \in Nat /\ m \in 0..(Product(e) - 1)
        /\ s \in [1..n -> Int]
    <2>1. Product(e) \in Nat
      BY BelowStep
    <2>. QED
      BY <2>1
  <1>1. c \in Coordinates(e) /\ Place(e, c) = m
    BY <1>0, CoordsAtDigits
  <1>2. n # 0
    <2>. SUFFICES ASSUME n = 0  PROVE FALSE
      OBVIOUS
    <2>1. e = <<>>
      OBVIOUS
    <2>2. Product(e) = 1
      BY <2>1, ProductEmpty
    <2>. QED
      BY <2>2
  <1>3. /\ it.ao = a /\ it.index = m /\ it.coordinates = c /\ it.dims_m1 = Ends(e)
        /\ it.strides = s /\ it.backstrides = Back(e, s) /\ it.dataptr = ptr /\ ~it.contiguous
    BY RestFields DEF RestAt
  <1>4. Len(Ends(e)) = n
    BY EndsLen
  <1>. HIDE DEF c, ptr
  <1>5. k \in 1..n /\ c[k] < e[k] - 1 /\ \A i \in (k + 1)..n : c[i] = e[i] - 1
    <2>1. Place(e, c) + 1 < Product(e)
      BY <1>1
    <2>. QED
      BY <1>1, <1>2, <1>3, <1>4, <2>1, NextAxisIs
  <1>. HIDE DEF k
  <1>6. /\ d \in Coordinates(e)
        /\ After(Back(e, s), n, k) \in Int
        /\ SumFunction(Reach(c, s, n)) \in Int
        /\ SumFunction(Reach(d, s, n)) = SumFunction(Reach(c, s, n)) - After(Back(e, s), n, k) + s[k]
    BY <1>0, <1>1, <1>5, StepMoves
  <1>7. Place(e, d) = m + 1
    BY <1>1, <1>5, StepIsNext
  <1>. HIDE DEF d
  <1>8. CoordsAt(e, m + 1) = d
    BY <1>6, <1>7, CoordsAtIs
  <1>9. At(a, d, s) = ptr - back + s[k]
    <2>1. back = After(Back(e, s), n, k)
      BY <1>4 DEF After
    <2>. DEFINE x == SumFunction(Reach(c, s, n))
                y == SumFunction(Reach(d, s, n))
                b == After(Back(e, s), n, k)
    <2>2. ptr = a.data + x /\ At(a, d, s) = a.data + y
      BY Zenon DEF At, ptr, c
    <2>3. x \in Int /\ b \in Int /\ y = x - b + s[k] /\ s[k] \in Int
      BY <1>0, <1>5, <1>6
    <2>. HIDE DEF x, y, b, back
    <2>4. back = b
      BY <2>1 DEF b
    <2>. DEFINE z == a.data
                t == s[k]
    <2>5. /\ x \in Int /\ b \in Int /\ t \in Int /\ z \in Int
          /\ y = x - b + t /\ ptr = z + x /\ At(a, d, s) = z + y
      BY <2>2, <2>3
    <2>. HIDE DEF z, t
    <2>6. At(a, d, s) = ptr - b + t
      BY <2>5
    <2>. QED
      BY <2>4, <2>6 DEF t
  <1>10. ITER_NEXT(it) = Odometer(next)
    <2>1. Len(it.dims_m1) # 1 /\ ~it.contiguous
      BY <1>3, <1>4
    <2>. QED
      BY <2>1, Zenon DEF ITER_NEXT
  <1>11. next = Rest(a, e, s, factors, m + 1, c, ptr)
    <2>1. next = [it EXCEPT !.index = m + 1]
      BY <1>3, Zenon
    <2>2. it = Rest(a, e, s, factors, m, c, ptr)
      BY DEF RestAt, c, ptr
    <2>3. next = WithIndex(it, m + 1)
      BY <2>1 DEF WithIndex
    <2>. HIDE DEF next
    <2>. QED
      BY <2>2, <2>3, RestWith
  <1>. HIDE DEF next
  <1>12. /\ next.coordinates = c /\ next.dims_m1 = Ends(e)
         /\ next.strides = s /\ next.backstrides = Back(e, s) /\ next.dataptr = ptr
    BY <1>11, RestFields
  <1>13. NextAxis(next) = k
    BY <1>3, <1>12 DEF NextAxis, k
  <1>14. Onwards(c, k) = d
    <2>1. DOMAIN c = 1..n
      BY <1>1 DEF Coordinates
    <2>. QED
      BY <2>1 DEF Onwards, Stepped, d
  <1>15. Odometer(next) = [next EXCEPT !.coordinates = d, !.dataptr = ptr - back + s[k]]
    <2>1. Odometer(next) = Turned(next, k)
      BY <1>13, OdometerTurns
    <2>2. k # 0
      BY <1>5
    <2>3. Onwards(next.coordinates, k) = d
      BY <1>12, <1>14
    <2>4. Turned(next, k)
            = [next EXCEPT !.coordinates = Onwards(next.coordinates, k),
                 !.dataptr = next.dataptr
                               - SumFunction([i \in (k + 1)..Len(next.dims_m1) |-> next.backstrides[i]])
                               + (IF k = 0 THEN 0 ELSE next.strides[k])]
      BY Zenon DEF Turned, Onwards
    <2>. QED
      BY <1>12, <2>1, <2>2, <2>3, <2>4
  <1>16. Odometer(next) = Rest(a, e, s, factors, m + 1, d, ptr - back + s[k])
    <2>. DEFINE p == ptr - back + s[k]
                w == Odometer(next)
                j == m + 1
    <2>. DEFINE u == WithCoords(next, d)
    <2>1. next = Rest(a, e, s, factors, j, c, ptr)
      BY <1>11
    <2>2. w = WithPtr(u, p)
      BY <1>15 DEF WithPtr, WithCoords
    <2>. HIDE DEF w, p, j
    <2>3. u = Rest(a, e, s, factors, j, d, ptr)
      BY <2>1, RestWith
    <2>. HIDE DEF u
    <2>4. w = Rest(a, e, s, factors, j, d, p)
      BY <2>2, <2>3, RestWith
    <2>. QED
      BY <2>4 DEF w, p, j
  <1>. QED
    BY <1>8, <1>9, <1>10, <1>16 DEF RestAt

LEMMA FirstCoords ==
  ASSUME NEW a, a.data \in Int, NEW e \in Seq(Nat), Product(e) # 0, NEW s \in Seq(Int), Len(s) = Len(e)
  PROVE  CoordsAt(e, 0) = Zeros(Ends(e)) /\ At(a, CoordsAt(e, 0), s) = a.data
  <1>. DEFINE n == Len(e)
              c == [i \in 1..n |-> 0]
              f == Skips(e, c)
              g == Reach(c, s, n)
  <1>0. n \in Nat /\ s \in [1..n -> Int] /\ 0 \in 0..n
    OBVIOUS
  <1>1. c = Zeros(Ends(e))
    BY EndsLen DEF Zeros
  <1>2. c \in Coordinates(e)
    BY NoEmptyAxis DEF Coordinates
  <1>3. ASSUME NEW i \in 1..n  PROVE f[i] = 0 /\ g[i] = 0 /\ c[i] = 0
    <2>1. Below(e, i) \in Nat /\ s[i] \in Int /\ c[i] = 0
      BY <1>0, BelowStep
    <2>. DEFINE x == Below(e, i)
                y == s[i]
    <2>2. 0 * x = 0 /\ 0 * y = 0
      BY <2>1
    <2>3. f[i] = c[i] * x /\ g[i] = c[i] * y
      BY DEF Skips, Reach
    <2>. HIDE DEF x, y, c, f, g
    <2>. QED
      BY <2>1, <2>2, <2>3
  <1>4. f = [i \in 1..n |-> f[i]] /\ g = [i \in 1..n |-> g[i]]
    BY Zenon DEF Skips, Reach
  <1>. HIDE DEF f, g, n
  <1>5. \A i \in (0 + 1)..n : f[i] = 0 /\ g[i] = 0
    BY <1>3
  <1>6. SumFunction(f) = 0
    BY <1>0, <1>4, <1>5, AfterAll, AfterZero
  <1>7. SumFunction(g) = 0
    BY <1>0, <1>4, <1>5, AfterAll, AfterZero
  <1>8. Place(e, c) = 0
    BY <1>6 DEF Place, f
  <1>9. CoordsAt(e, 0) = c
    BY <1>2, <1>8, CoordsAtIs
  <1>10. At(a, c, s) = a.data + SumFunction(g)
    BY DEF At, g, n
  <1>. HIDE DEF c
  <1>11. At(a, c, s) = a.data
    BY <1>7, <1>10
  <1>. QED
    BY <1>1, <1>9, <1>11

\* The walk as it is made.
RestStart(a, e, s, factors, co) == Rest(a, e, s, factors, 0, co, a.data)

\* Such a walk goes through the elements in the order of their places.
LEMMA RestAdvanced ==
  ASSUME NEW a, NEW e, NEW s, Strides(a, e, s), Len(e) # 1 \/ Product(e) = 1, NEW factors, NEW co,
         NEW it, it = RestStart(a, e, s, factors, co), NEW m \in 0..(Product(e) - 1)
  PROVE  Advanced(it, m).dataptr = At(a, CoordsAt(e, m), s)
  <1>. SUFFICES ASSUME a.data \in Int, e \in Seq(Nat), s \in Seq(Int), Len(s) = Len(e)
                PROVE  Advanced(it, m).dataptr = At(a, CoordsAt(e, m), s)
    BY DEF Strides
  <1>. DEFINE R(i) == RestAt(a, e, s, factors, i)
              f == CHOOSE g : Steps(it, g, m)
              Right == {i \in 0..m : f[i] = R(i)}
  <1>0. Product(e) \in Nat /\ m \in Nat /\ m < Product(e) /\ Product(e) # 0
    <2>1. Product(e) \in Nat
      BY BelowStep
    <2>. QED
      BY <2>1
  <1>2. CoordsAt(e, 0) = Zeros(Ends(e)) /\ At(a, CoordsAt(e, 0), s) = a.data
    BY <1>0, FirstCoords
  <1>3. ITER_RESET(it) = R(0)
    <2>. DEFINE z == Zeros(Ends(e))
                u == WithIndex(it, 0)
                v == WithPtr(u, a.data)
                w == WithCoords(v, z)
                da == a.data
    <2>1. it.ao = a /\ it.dims_m1 = Ends(e)
      BY RestFields DEF RestStart
    <2>2. ITER_RESET(it) = w
      BY <2>1, Zenon DEF ITER_RESET, WithIndex, WithPtr, WithCoords
    <2>3. it = Rest(a, e, s, factors, 0, co, da)
      BY DEF RestStart
    <2>4. u = WithIndex(it, 0) /\ v = WithPtr(u, da) /\ w = WithCoords(v, z)
      OBVIOUS
    <2>. HIDE DEF u, v, w, z, da
    <2>5. u = Rest(a, e, s, factors, 0, co, da)
      BY <2>3, <2>4, RestWith
    <2>6. v = Rest(a, e, s, factors, 0, co, da)
      BY <2>4, <2>5, RestWith
    <2>7. w = Rest(a, e, s, factors, 0, z, da)
      BY <2>4, <2>6, RestWith
    <2>. QED
      BY <1>2, <2>2, <2>7 DEF z, da, RestAt
  <1>4. Steps(it, f, m)
    BY <1>0, StepsExist
  <1>5. Advanced(it, m) = f[m]
    BY AdvancedIs
  <1>. HIDE DEF f, R
  <1>6. 0 \in Right
    <2>1. 0 \in 0..m
      BY <1>0
    <2>2. f[0] = ITER_RESET(it)
      BY <1>4, <2>1 DEF Steps
    <2>. QED
      BY <1>3, <2>1, <2>2
  <1>7. ASSUME NEW i \in 1..m, i - 1 \in Right  PROVE i \in Right
    <2>. DEFINE j == i - 1
    <2>1. i \in 0..m /\ i # 0 /\ j \in Nat /\ j + 1 < Product(e) /\ i = j + 1
      BY <1>0
    <2>2. f[i] = ITER_NEXT(f[j])
      BY <1>4, <2>1 DEF Steps
    <2>3. f[j] = R(j)
      BY <1>7
    <2>4. Len(e) # 1
      BY <2>1
    <2>. HIDE DEF j
    <2>5. ITER_NEXT(f[j]) = R(j + 1)
      BY <2>1, <2>3, <2>4, RestNext DEF R
    <2>. QED
      BY <2>1, <2>2, <2>5
  <1>8. m \in Right
    <2>1. Right \in SUBSET (0..m) /\ m \in 0..m
      BY <1>0
    <2>. HIDE DEF Right
    <2>. QED
      BY <1>0, <1>6, <1>7, <2>1, UpTo
  <1>9. f[m] = R(m)
    BY <1>8
  <1>. QED
    BY <1>5, <1>9, RestFields DEF R, RestAt

\* The walk over all axes but one goes through the elements of the others.
LEMMA AdvancedRest ==
  ASSUME NEW a, NEW dims, Meets(a, dims), Product(dims) # 0, NEW k \in 1..Len(dims),
         NEW m \in 0..(Product(Flat(dims, k)) - 1)
  PROVE  Advanced(WithoutAxis(BroadcastIter(a, dims), k), m).dataptr
           = At(a, CoordsAt(Flat(dims, k), m), StridesFor(a, dims))
  <1>. DEFINE n == Len(dims)
              e == Flat(dims, k)
              s == StridesFor(a, dims)
              it == WithoutAxis(BroadcastIter(a, dims), k)
              fa == Factors(dims)
              co == Zeros(dims)
  <1>1. dims \in Seq(Nat) /\ n \in Nat /\ a.data \in Int
    BY DEF Meets, IsArray
  <1>2. s \in [1..n -> Int]
    BY StridesForType
  <1>3. s \in Seq(Int) /\ Len(s) = n
    BY <1>1, <1>2
  <1>4. e \in Seq(Nat) /\ Len(e) = n /\ e[k] = 1
    BY <1>1, FlatType
  <1>5. it = RestStart(a, e, s, fa, co)
    BY WithoutAxisIs DEF RestStart
  <1>. HIDE DEF e, s, it, fa, co
  <1>6. Len(e) # 1 \/ Product(e) = 1
    <2>. SUFFICES ASSUME Len(e) = 1  PROVE Product(e) = 1
      OBVIOUS
    <2>1. k = 1 /\ 1 \in 1..Len(e)
      <3>1. Len(dims) = 1
        BY <1>4
      <3>. QED
        BY <3>1
    <2>2. Product(e) = e[1] * 1
      <3>1. 1 - 1 = 0
        OBVIOUS
      <3>. QED
        BY <1>4, <2>1, <3>1, BelowStep
    <2>. QED
      BY <1>4, <2>1, <2>2
  <1>7. m \in 0..(Product(e) - 1)
    BY DEF e
  <1>8. Advanced(it, m).dataptr = At(a, CoordsAt(e, m), s)
    <2>1. Strides(a, e, s)
      BY <1>1, <1>3, <1>4 DEF Strides
    <2>. QED
      BY <1>5, <1>6, <1>7, <2>1, RestAdvanced
  <1>. QED
    BY <1>8 DEF e, s, it

\* What a copy of s into d does, both broadcast to shape dims.
Matched(d, s, dims) == {<<AddressOf(d, c), AddressOf(s, c)>> : c \in Coordinates(dims)}

\* The moves of one row: outer coordinates p, and all positions along axis k.
LEMMA RowElement ==
  ASSUME NEW a, NEW dims, Meets(a, dims), NEW k \in 1..Len(dims),
         NEW p \in Coordinates(Flat(dims, k)), NEW j \in 0..(dims[k] - 1)
  PROVE  /\ [p EXCEPT ![k] = j] \in Coordinates(dims)
         /\ AddressOf(a, [p EXCEPT ![k] = j])
              = At(a, p, StridesFor(a, dims)) + j * StridesFor(a, dims)[k]
  <1>. DEFINE n == Len(dims)
              e == Flat(dims, k)
              s == StridesFor(a, dims)
              c == [p EXCEPT ![k] = j]
              f == Reach(p, s, n)
              g == Reach(c, s, n)
              h == [i \in (1..n) \ {k} |-> f[i]]
  <1>0. dims \in Seq(Nat) /\ n \in Nat /\ a.data \in Int /\ dims[k] \in Nat
    BY DEF Meets, IsArray
  <1>1. s \in [1..n -> Int]
    BY StridesForType
  <1>2. e \in Seq(Nat) /\ Len(e) = n /\ e[k] = 1 /\ \A i \in 1..n : i # k => e[i] = dims[i]
    BY <1>0, FlatType
  <1>. HIDE DEF e, s
  <1>3. p \in [1..n -> Nat] /\ \A i \in 1..n : p[i] < e[i]
    BY <1>2 DEF Coordinates, e
  <1>4. /\ c \in [1..n -> Nat] /\ c[k] = j /\ p[k] = 0
        /\ \A i \in 1..n : i # k => c[i] = p[i]
    <2>1. p[k] < 1 /\ p[k] \in Nat /\ j \in Nat
      BY <1>2, <1>3
    <2>2. p[k] = 0
      BY <2>1
    <2>. QED
      BY <1>3, <2>1, <2>2
  <1>. HIDE DEF c
  <1>5. c \in Coordinates(dims)
    <2>1. ASSUME NEW i \in 1..n  PROVE c[i] < dims[i]
      <3>1. CASE i = k
        <4>1. j < dims[k]
          BY <1>0
        <4>. QED
          BY <1>4, <3>1, <4>1
      <3>2. CASE i # k
        <4>1. c[i] = p[i] /\ p[i] < e[i] /\ e[i] = dims[i]
          BY <1>2, <1>3, <1>4, <3>2
        <4>. QED
          BY <4>1
      <3>. QED
        BY <3>1, <3>2
    <2>. QED
      BY <1>4, <2>1 DEF Coordinates
  <1>6. AddressOf(a, c) = a.data + SumFunction(g) /\ At(a, p, s) = a.data + SumFunction(f)
    <2>1. Len(s) = n
      BY <1>0, <1>1
    <2>. QED
      BY <1>5, <2>1, AddressOfIs DEF At, s
  <1>7. /\ DOMAIN f = 1..n /\ DOMAIN g = 1..n /\ DOMAIN h = (1..n) \ {k}
        /\ \A i \in 1..n : f[i] = p[i] * s[i] /\ g[i] = c[i] * s[i]
        /\ \A i \in (1..n) \ {k} : h[i] = f[i]
    BY DEF Reach
  <1>. HIDE DEF f, g, h, n
  <1>8. IsFiniteSet(1..n) /\ IsFiniteSet((1..n) \ {k})
    <2>1. IsFiniteSet(1..n)
      BY <1>0, FS_Interval
    <2>. QED
      BY <2>1, FS_Subset
  <1>9. ASSUME NEW i \in 1..n
        PROVE  f[i] \in Int /\ g[i] \in Int /\ (i # k => f[i] = g[i])
    <2>1. p[i] \in Int /\ s[i] \in Int /\ c[i] \in Int
      BY <1>1, <1>3, <1>4
    <2>. DEFINE x == p[i]
                y == s[i]
                w == c[i]
    <2>2. x * y \in Int /\ w * y \in Int
      BY <2>1
    <2>. QED
      BY <1>4, <1>7, <2>2
  <1>10. Summable(f) /\ Summable(g) /\ Summable(h)
    BY <1>7, <1>8, <1>9 DEF Summable
  <1>11. (\A y \in DOMAIN h : h[y] = f[y]) /\ (\A y \in DOMAIN h : h[y] = g[y])
    BY <1>7, <1>9
  <1>12. SumFunction(f) = f[k] + SumFunction(h) /\ SumFunction(g) = g[k] + SumFunction(h)
    <2>1. k \in DOMAIN f /\ k \in DOMAIN g /\ DOMAIN h = DOMAIN f \ {k} /\ DOMAIN h = DOMAIN g \ {k}
      BY <1>7 DEF n
    <2>2. SumFunction(f) = f[k] + SumFunction(h)
      BY <1>10, <1>11, <2>1, SumSplit, Zenon
    <2>3. SumFunction(g) = g[k] + SumFunction(h)
      BY <1>10, <1>11, <2>1, SumSplit, Zenon
    <2>. QED
      BY <2>2, <2>3
  <1>13. SumFunction(h) \in Int
    BY <1>10, SumType
  <1>14. f[k] = 0 /\ g[k] = j * s[k] /\ g[k] \in Int
    <2>1. k \in 1..n
      BY DEF n
    <2>2. s[k] \in Int
      BY <1>1, <2>1
    <2>. DEFINE y == s[k]
    <2>3. 0 * y = 0
      BY <2>2
    <2>. QED
      BY <1>4, <1>7, <1>9, <2>1, <2>3
  <1>15. AddressOf(a, c) = At(a, p, s) + j * s[k]
    <2>. DEFINE u == SumFunction(f)
                v == SumFunction(g)
                w == SumFunction(h)
                y == j * s[k]
                x == a.data
    <2>1. u = w /\ v = y + w /\ y \in Int /\ w \in Int /\ x \in Int
      BY <1>0, <1>12, <1>13, <1>14
    <2>. HIDE DEF u, v, w, y, x
    <2>2. x + v = (x + u) + y
      BY <2>1
    <2>. QED
      BY <1>6, <2>2 DEF u, v, x, y
  <1>. QED
    BY <1>5, <1>15 DEF c, s

\* The iterator goes along the elements of a with coordinate 0 on axis k.
Visits(it, a, dims, k) ==
  \A i \in 0..(Product(Flat(dims, k)) - 1) :
    Advanced(it, i).dataptr = At(a, CoordsAt(Flat(dims, k), i), StridesFor(a, dims))

\* One strided copy along axis k for each position of the other axes copies
\* every element.
LEMMA AlongAxis ==
  ASSUME NEW d, NEW s, NEW dims, Meets(d, dims), Meets(s, dims), NEW k \in 1..Len(dims),
         NEW m, Over(m, m), Clean(Matched(d, s, dims), DOMAIN m),
         NEW dit, NEW sit, Visits(dit, d, dims, k), Visits(sit, s, dims, k),
         dit.size = Product(Flat(dims, k))
  PROVE  Fills(CopyAlong(m, dit, StridesFor(d, dims)[k], sit, StridesFor(s, dims)[k], dims[k]),
               m, Matched(d, s, dims))
  <1>. DEFINE e == Flat(dims, k)
              z == Product(e)
              os == StridesFor(d, dims)[k]
              is == StridesFor(s, dims)[k]
              n == dims[k]
              T == Matched(d, s, dims)
              to(q) == At(d, CoordsAt(e, q - 1), StridesFor(d, dims))
              from(q) == At(s, CoordsAt(e, q - 1), StridesFor(s, dims))
              G == [q \in 1..z |-> RowAt(dit, os, sit, is, n, q)]
  <1>0. dims \in Seq(Nat) /\ n \in Nat /\ e \in Seq(Nat) /\ Len(e) = Len(dims) /\ z \in Nat
        /\ e[k] = 1 /\ \A i \in 1..Len(dims) : i # k => e[i] = dims[i]
    <2>1. dims \in Seq(Nat)
      BY DEF Meets
    <2>2. e \in Seq(Nat) /\ Len(e) = Len(dims) /\ e[k] = 1
          /\ \A i \in 1..Len(dims) : i # k => e[i] = dims[i]
      BY <2>1, FlatType
    <2>3. z \in Nat
      BY <2>1, FlatProduct
    <2>. HIDE DEF e, z
    <2>. QED
      BY <2>1, <2>2, <2>3
  <1>1. ASSUME NEW q \in 1..z
        PROVE  RowAt(dit, os, sit, is, n, q) = Row(to(q), os, from(q), is, n)
    <2>1. q - 1 \in 0..(z - 1)
      BY <1>0
    <2>2. Advanced(dit, q - 1).dataptr = to(q) /\ Advanced(sit, q - 1).dataptr = from(q)
      BY <2>1 DEF Visits
    <2>. QED
      BY <2>2 DEF RowAt
  <1>2. ASSUME NEW q \in 1..z, NEW j \in 0..(n - 1)
        PROVE  /\ [CoordsAt(e, q - 1) EXCEPT ![k] = j] \in Coordinates(dims)
               /\ AddressOf(d, [CoordsAt(e, q - 1) EXCEPT ![k] = j]) = to(q) + j * os
               /\ AddressOf(s, [CoordsAt(e, q - 1) EXCEPT ![k] = j]) = from(q) + j * is
    <2>1. q - 1 \in 0..(z - 1)
      BY <1>0
    <2>2. CoordsAt(e, q - 1) \in Coordinates(e)
      BY <1>0, <2>1, CoordsAtDigits
    <2>. QED
      BY <2>2, RowElement
  <1>3. ASSUME NEW c \in Coordinates(dims)
        PROVE  \E q \in 1..z : \E j \in 0..(n - 1) :
                 <<AddressOf(d, c), AddressOf(s, c)>> = <<to(q) + j * os, from(q) + j * is>>
    <2>. DEFINE p == [c EXCEPT ![k] = 0]
                q == Place(e, p) + 1
                j == c[k]
    <2>1. c \in [1..Len(dims) -> Nat] /\ \A i \in 1..Len(dims) : c[i] < dims[i]
      BY DEF Coordinates
    <2>2. p \in Coordinates(e)
      <3>1. p \in [1..Len(e) -> Nat]
        BY <1>0, <2>1
      <3>2. ASSUME NEW i \in 1..Len(e)  PROVE p[i] < e[i]
        BY <1>0, <2>1
      <3>. QED
        BY <3>1, <3>2 DEF Coordinates
    <2>3. Place(e, p) \in 0..(z - 1) /\ CoordsAt(e, Place(e, p)) = p
      BY <1>0, <2>2, PlaceBelow, CoordsAtIs
    <2>4. q \in 1..z /\ q - 1 = Place(e, p)
      BY <1>0, <2>3
    <2>5. j \in 0..(n - 1)
      BY SMTT(30), <1>0, <2>1
    <2>6. [p EXCEPT ![k] = j] = c
      BY <2>1
    <2>. HIDE DEF p, q, j
    <2>7. CoordsAt(e, q - 1) = p
      BY <2>3, <2>4
    <2>. HIDE DEF to, from, os, is, e, n, z
    <2>8. AddressOf(d, c) = to(q) + j * os /\ AddressOf(s, c) = from(q) + j * is
      BY <1>2, <2>4, <2>5, <2>6, <2>7
    <2>. QED
      BY <2>4, <2>5, <2>8
  <1>4. ASSUME NEW q \in 1..z, NEW j \in 0..(n - 1)
        PROVE  <<to(q) + j * os, from(q) + j * is>> \in T
    <2>. DEFINE c == [CoordsAt(e, q - 1) EXCEPT ![k] = j]
    <2>1. c \in Coordinates(dims) /\ AddressOf(d, c) = to(q) + j * os
          /\ AddressOf(s, c) = from(q) + j * is
      BY <1>2
    <2>. HIDE DEF c, to, from, os, is
    <2>. QED
      BY <2>1 DEF Matched
  <1>. HIDE DEF to, from, os, is, e, n
  <1>5. ASSUME NEW q \in 1..z  PROVE RowAt(dit, os, sit, is, n, q) \subseteq T
    <2>. HIDE DEF T, z
    <2>. QED
      BY <1>1, <1>4 DEF Row
  <1>6. Gathered(G, z) = T
    <2>1. ASSUME NEW c \in Coordinates(dims)
          PROVE  \E q \in 1..z : <<AddressOf(d, c), AddressOf(s, c)>> \in G[q]
      <3>1. PICK q \in 1..z : \E j \in 0..(n - 1) :
              <<AddressOf(d, c), AddressOf(s, c)>> = <<to(q) + j * os, from(q) + j * is>>
        BY <1>3
      <3>2. G[q] = Row(to(q), os, from(q), is, n)
        BY <1>1
      <3>. HIDE DEF G
      <3>3. <<AddressOf(d, c), AddressOf(s, c)>> \in G[q]
        BY <3>1, <3>2 DEF Row
      <3>. QED
        BY <3>3
    <2>2. \A q \in 1..z : G[q] \subseteq T
      BY <1>5
    <2>. HIDE DEF G, z
    <2>3. T \subseteq Gathered(G, z)
      BY <2>1 DEF Gathered, Matched
    <2>4. Gathered(G, z) \subseteq T
      BY <2>2 DEF Gathered
    <2>. QED
      BY <2>3, <2>4
  <1>7. Clean(T, DOMAIN m) /\ z = dit.size
    BY DEF e
  <1>. HIDE DEF T, z
  <1>8. Fills(CopyAlong(m, dit, os, sit, is, n), m, Gathered(G, z))
    BY SMTT(30), <1>0, <1>5, <1>7, AlongMoves
  <1>. HIDE DEF G
  <1>9. Fills(CopyAlong(m, dit, os, sit, is, n), m, T)
    BY <1>6, <1>8
  <1>. QED
    BY <1>9 DEF T, os, is, n

LEMMA WithoutAxisVisits ==
  ASSUME NEW a, NEW dims, Meets(a, dims), Product(dims) # 0, NEW k \in 1..Len(dims)
  PROVE  /\ Visits(WithoutAxis(BroadcastIter(a, dims), k), a, dims, k)
         /\ WithoutAxis(BroadcastIter(a, dims), k).size = Product(Flat(dims, k))
  <1>1. Visits(WithoutAxis(BroadcastIter(a, dims), k), a, dims, k)
    BY AdvancedRest DEF Visits
  <1>. DEFINE it == WithoutAxis(BroadcastIter(a, dims), k)
              e == Flat(dims, k)
              s == StridesFor(a, dims)
              fa == Factors(dims)
              co == Zeros(dims)
  <1>2. it = Rest(a, e, s, fa, 0, co, a.data)
    BY WithoutAxisIs
  <1>. HIDE DEF it, e, s, fa, co
  <1>3. it.size = Product(e)
    BY <1>2, RestFields
  <1>. QED
    BY <1>1, <1>3 DEF it, e

\* Where there is no element nothing is walked, and nothing is copied.
LEMMA NothingMatched ==
  ASSUME NEW d, NEW s, NEW dims \in Seq(Nat), Product(dims) = 0
  PROVE  Matched(d, s, dims) = {}
  BY SkipsTerms DEF Matched

LEMMA WithoutAxisEmpty ==
  ASSUME NEW a, NEW dims, Meets(a, dims), Product(dims) = 0, NEW k \in 1..Len(dims)
  PROVE  WithoutAxis(BroadcastIter(a, dims), k).size = 0
  <1>. DEFINE it == BroadcastIter(a, dims)
  <1>1. Walks(it, a, dims)
    BY NewWalks
  <1>2. it.size = 0
    BY <1>1, WalksFields
  <1>. DEFINE sz == Product(dims)
              co == it.coordinates
              dm == Ends(dims)
              st == StridesFor(a, dims)
              bs == Back(dims, st)
              fa == Factors(dims)
              dp == it.dataptr
              cg == Contig(a, dims)
              ix == it.index
  <1>3. it = [ao |-> a, index |-> ix, size |-> sz, coordinates |-> co, dims_m1 |-> dm,
              strides |-> st, backstrides |-> bs, factors |-> fa, dataptr |-> dp,
              contiguous |-> cg]
    BY <1>1 DEF Walks
  <1>4. WithoutAxis(it, k)
          = [it EXCEPT !.contiguous = FALSE,
                       !.size = IF it.size = 0 THEN 0 ELSE it.size \div (it.dims_m1[k] + 1),
                       !.dims_m1 = [it.dims_m1 EXCEPT ![k] = 0],
                       !.backstrides = [it.backstrides EXCEPT ![k] = 0]]
    BY <1>3 DEF WithoutAxis
  <1>. HIDE DEF it, sz, co, dm, st, bs, fa, dp, cg, ix
  <1>. QED
    BY <1>2, <1>3, <1>4 DEF it

LEMMA NothingAlong ==
  ASSUME NEW m, Over(m, m), NEW dit, dit.size = 0, NEW os, NEW sit, NEW is, NEW n \in Nat
  PROVE  Fills(CopyAlong(m, dit, os, sit, is, n), m, {})
  <1>. DEFINE z == 0
              G == [k \in 1..z |-> RowAt(dit, os, sit, is, n, k)]
  <1>1. Clean({}, DOMAIN m)
    BY DEF Clean
  <1>2. 1..z = {} /\ z = dit.size /\ z \in Nat
    OBVIOUS
  <1>. HIDE DEF z
  <1>3. Fills(CopyAlong(m, dit, os, sit, is, n), m, Gathered(G, z))
    <2>1. \A k \in 1..z : RowAt(dit, os, sit, is, n, k) \subseteq {}
      BY <1>2
    <2>. QED
      BY <1>1, <1>2, <2>1, AlongMoves
  <1>. HIDE DEF G
  <1>4. Gathered(G, z) = {}
    BY <1>2 DEF Gathered
  <1>. QED
    BY <1>3, <1>4

\* The loop over two walks that leave out the same axis.
LEMMA CopyAxis ==
  ASSUME NEW d, NEW s, NEW dims, Meets(d, dims), Meets(s, dims), NEW k \in 1..Len(dims),
         NEW m, Over(m, m), Clean(Matched(d, s, dims), DOMAIN m)
  PROVE  Fills(CopyAlong(m, WithoutAxis(BroadcastIter(d, dims), k), StridesFor(d, dims)[k],
                            WithoutAxis(BroadcastIter(s, dims), k), StridesFor(s, dims)[k], dims[k]),
               m, Matched(d, s, dims))
  <1>1. CASE Product(dims) # 0
    BY <1>1, WithoutAxisVisits, AlongAxis
  <1>2. CASE Product(dims) = 0
    <2>1. dims \in Seq(Nat)
      BY DEF Meets
    <2>2. Matched(d, s, dims) = {} /\ dims[k] \in Nat
      BY <1>2, <2>1, NothingMatched
    <2>3. WithoutAxis(BroadcastIter(d, dims), k).size = 0
      BY <1>2, WithoutAxisEmpty
    <2>. QED
      BY <2>2, <2>3, NothingAlong
  <1>. QED
    BY <1>1, <1>2

LEMMA SmallestAxisIn ==
  ASSUME NEW a, IsArray(a), Len(a.dims) # 0
  PROVE  SmallestAxis(a) \in 1..Len(a.dims)
  <1>. DEFINE n == Len(a.dims)
              st == a.strides
              moving == {i \in DOMAIN st : st[i] # 0}
              first == IF moving = {} THEN 0 ELSE st[Min(moving)]
              lower == {i \in DOMAIN st \ {1} : 0 < st[i] /\ st[i] < first}
              least == {i \in lower : \A j \in lower : st[i] <= st[j]}
  <1>0. n \in Nat /\ DOMAIN st = 1..n /\ (\A i \in 1..n : st[i] \in Int) /\ 1 \in 1..n
    BY DEF IsArray
  <1>1. SmallestAxis(a) = IF lower = {} THEN 1 ELSE Min(least)
    BY Zenon DEF SmallestAxis
  <1>2. lower \in SUBSET (1..n)
    BY <1>0
  <1>. HIDE DEF lower, st, n
  <1>3. CASE lower # {}
    <2>1. \A i \in lower : st[i] \in Int
      BY <1>0, <1>2
    <2>2. least # {}
      BY <1>0, <1>2, <1>3, <2>1, SmallestOne
    <2>3. least \in SUBSET Nat /\ least \subseteq lower
      <3>1. least \subseteq lower
        OBVIOUS
      <3>2. \A i \in lower : i \in Nat
        BY <1>2
      <3>. QED
        BY <3>1, <3>2
    <2>. HIDE DEF least
    <2>4. Min(least) \in least
      BY <2>2, <2>3, MinIn
    <2>. QED
      BY <1>1, <1>2, <1>3, <2>3, <2>4 DEF n
  <1>4. CASE lower = {}
    BY <1>0, <1>1, <1>4 DEF n
  <1>. QED
    BY <1>3, <1>4

LEMMA RemoveSmallestIn ==
  ASSUME NEW n \in Nat, n # 0, NEW dit, NEW sit,
         dit.strides \in [1..n -> Int], sit.strides \in [1..n -> Int]
  PROVE  RemoveSmallest(dit, sit) \in 1..n
  <1>. DEFINE ds == dit.strides
              ss == sit.strides
              f == [i \in 1..n |-> ds[i] + ss[i]]
              least == {i \in 1..n : \A j \in 1..n : f[i] <= f[j]}
  <1>1. \A i \in 1..n : f[i] \in Int
    OBVIOUS
  <1>2. RemoveSmallest(dit, sit) = Min(least)
    <2>1. RemoveSmallest(dit, sit)
            = Min({i \in DOMAIN ds : \A j \in DOMAIN ds : ds[i] + ss[i] <= ds[j] + ss[j]})
      BY Zenon DEF RemoveSmallest
    <2>2. DOMAIN ds = 1..n
      OBVIOUS
    <2>3. {i \in 1..n : \A j \in 1..n : ds[i] + ss[i] <= ds[j] + ss[j]} = least
      OBVIOUS
    <2>. QED
      BY <2>1, <2>2, <2>3
  <1>. HIDE DEF f
  <1>3. least # {}
    <2>1. 1..n \in SUBSET (1..n) /\ 1..n # {}
      <3>1. 1 \in 1..n
        OBVIOUS
      <3>. QED
        BY <3>1
    <2>. QED
      BY <1>1, <2>1, SmallestOne
  <1>4. least \in SUBSET Nat
    OBVIOUS
  <1>. HIDE DEF least
  <1>5. Min(least) \in least
    BY <1>3, <1>4, MinIn
  <1>. QED
    BY <1>2, <1>5 DEF least

-----------------------------------------------------------------------------
(* Arrays of one shape.                                                    *)

LEMMA OwnStrides ==
  ASSUME NEW a, IsArray(a)
  PROVE  /\ Meets(a, a.dims) /\ a.dims \in Seq(Nat) /\ IterNew(a) = BroadcastIter(a, a.dims)
         /\ \A k \in 1..Len(a.dims) : StridesFor(a, a.dims)[k] = a.strides[k]
  <1>1. Meets(a, a.dims) /\ IterNew(a) = BroadcastIter(a, a.dims)
    BY IterNewIs
  <1>2. a.dims \in Seq(Nat)
    BY DEF IsArray
  <1>3. ASSUME NEW k \in 1..Len(a.dims)  PROVE StridesFor(a, a.dims)[k] = a.strides[k]
    <2>1. Own(a, a.dims, k) = k /\ k > 0 /\ k \in DOMAIN a.dims
      BY <1>2 DEF Own
    <2>2. Stretched(a, Len(a.dims), k) = a.dims[k]
      BY <1>2, <2>1 DEF Stretched
    <2>3. Kept(a, a.dims, k)
      BY <2>1, <2>2 DEF Kept
    <2>. QED
      BY <2>1, <2>3 DEF StridesFor
  <1>. QED
    BY <1>1, <1>2, <1>3

LEMMA CopySameFills ==
  ASSUME NEW dest, NEW src, IsArray(dest), IsArray(src), src.dims = dest.dims, Len(dest.dims) # 0,
         NEW m, Over(m, m), Clean(Matched(dest, src, dest.dims), DOMAIN m)
  PROVE  Fills(CopySameShape(m, dest, src), m, Matched(dest, src, dest.dims))
  <1>. DEFINE dims == dest.dims
              k == SmallestAxis(dest)
  <1>1. k \in 1..Len(dims)
    BY SmallestAxisIn
  <1>2. /\ Meets(dest, dims) /\ Meets(src, dims)
        /\ IterNew(dest) = BroadcastIter(dest, dims) /\ IterNew(src) = BroadcastIter(src, dims)
    BY OwnStrides
  <1>. HIDE DEF k
  <1>3. StridesFor(dest, dims)[k] = dest.strides[k] /\ StridesFor(src, dims)[k] = src.strides[k]
    BY <1>1, OwnStrides
  <1>4. CopySameShape(m, dest, src)
          = CopyAlong(m, WithoutAxis(BroadcastIter(dest, dims), k), StridesFor(dest, dims)[k],
                         WithoutAxis(BroadcastIter(src, dims), k), StridesFor(src, dims)[k], dims[k])
    BY <1>2, <1>3 DEF CopySameShape, k
  <1>. QED
    BY <1>1, <1>2, <1>4, CopyAxis

-----------------------------------------------------------------------------
(* Addresses of contiguous arrays.                                         *)

LEMMA ReachedBy ==
  ASSUME NEW a, IsArray(a), NEW c \in Coordinates(a.dims), NEW f,
         f = [i \in 1..Len(a.dims) |-> f[i]],
         \A i \in 1..Len(a.dims) : f[i] = c[i] * a.strides[i]
  PROVE  AddressOf(a, c) = a.data + SumFunction(f)
  <1>. DEFINE n == Len(a.dims)
              s == StridesFor(a, a.dims)
  <1>1. Meets(a, a.dims) /\ \A k \in 1..n : s[k] = a.strides[k]
    BY OwnStrides
  <1>2. AddressOf(a, c) = a.data + SumFunction(Reach(c, s, n))
    BY <1>1, AddressOfIs
  <1>3. Reach(c, s, n) = f
    <2>. HIDE DEF s, n
    <2>1. ASSUME NEW i \in 1..n  PROVE c[i] * s[i] = f[i]
      BY <1>1, <2>1 DEF n
    <2>2. f = [i \in 1..n |-> f[i]]
      BY DEF n
    <2>3. [i \in 1..n |-> c[i] * s[i]] = [i \in 1..n |-> f[i]]
      BY <2>1
    <2>. QED
      BY <2>2, <2>3 DEF Reach
  <1>. QED
    BY <1>2, <1>3

LEMMA COrder ==
  ASSUME NEW a, IsArray(a), Product(a.dims) # 0, IsContiguous(a), NEW c \in Coordinates(a.dims)
  PROVE  AddressOf(a, c) = a.data + Place(a.dims, c)
  <1>. DEFINE dims == a.dims
              n == Len(dims)
              f == Skips(dims, c)
  <1>0. dims \in Seq(Nat) /\ n \in Nat /\ DOMAIN dims = 1..n
    BY DEF IsArray
  <1>1. ASSUME NEW i \in 1..n  PROVE f[i] = c[i] * a.strides[i]
    <2>0. f[i] = c[i] * Below(dims, i)
      BY DEF Skips
    <2>1. CASE n = 1
      <3>1. i = 1 /\ (dims[1] = 1 \/ a.strides[1] = 1)
        BY <2>1 DEF IsContiguous
      <3>2. Below(dims, 1) = 1
        BY <1>0, <2>1, BelowStep
      <3>. QED
        BY <2>0, <2>1, <3>1, <3>2, OneAxis
    <2>2. CASE n # 1
      <3>1. {j \in DOMAIN dims : dims[j] = 0} = {}
        BY <1>0, NoEmptyAxis
      <3>2. Max({} \cup {0}) = 0
        <4>1. {} \cup {0} = {0} /\ {0} \in SUBSET Int /\ 0 \in {0} /\ \A y \in {0} : 0 >= y
          OBVIOUS
        <4>. QED
          BY <4>1, MaxIs
      <3>3. a.strides[i] = Below(dims, i)
        <4>1. i \in DOMAIN dims /\ i > 0
          BY <1>0
        <4>. QED
          BY <2>2, <3>1, <3>2, <4>1 DEF IsContiguous
      <3>. QED
        BY <2>0, <3>3
    <2>. QED
      BY <2>1, <2>2
  <1>2. f = [i \in 1..n |-> f[i]]
    BY DEF Skips
  <1>. HIDE DEF f
  <1>3. AddressOf(a, c) = a.data + SumFunction(f)
    BY <1>1, <1>2, ReachedBy
  <1>. QED
    BY <1>3 DEF Place, f

LEMMA FOrder ==
  ASSUME NEW a, IsArray(a), Product(a.dims) # 0, IsFortranContiguous(a), NEW c \in Coordinates(a.dims)
  PROVE  AddressOf(a, c) = a.data + FPlace(a.dims, c)
  <1>. DEFINE dims == a.dims
              n == Len(dims)
              f == Leaps(dims, c)
  <1>0. dims \in Seq(Nat) /\ n \in Nat /\ DOMAIN dims = 1..n
    BY DEF IsArray
  <1>1. ASSUME NEW i \in 1..n  PROVE f[i] = c[i] * a.strides[i]
    <2>0. f[i] = c[i] * Ahead(dims, i)
      BY DEF Leaps
    <2>1. CASE n = 1
      <3>1. i = 1 /\ (dims[1] = 1 \/ a.strides[1] = 1)
        BY <2>1 DEF IsFortranContiguous
      <3>2. Ahead(dims, 1) = 1
        BY <1>0, AheadStep
      <3>. QED
        BY <2>0, <2>1, <3>1, <3>2, OneAxis
    <2>2. CASE n # 1
      <3>1. {j \in DOMAIN dims : dims[j] = 0} = {}
        BY <1>0, NoEmptyAxis
      <3>2. a.strides[i] = Ahead(dims, i)
        <4>1. i \in DOMAIN dims
          BY <1>0
        <4>. QED
          BY <2>2, <3>1, <4>1 DEF IsFortranContiguous, Ahead
      <3>. QED
        BY <2>0, <3>2
    <2>. QED
      BY <2>1, <2>2
  <1>2. f = [i \in 1..n |-> f[i]]
    BY DEF Leaps
  <1>. HIDE DEF f
  <1>3. AddressOf(a, c) = a.data + SumFunction(f)
    BY <1>1, <1>2, ReachedBy
  <1>. QED
    BY <1>3 DEF FPlace, f

\* The moves of n elements from address ss to address dd.
Block(dd, ss, n) == {<<dd + q, ss + q>> : q \in 0..(n - 1)}

\* Two arrays of one shape, both in C order or both in Fortran order, are
\* copied by copying the block.
LEMMA BlocksMatch ==
  ASSUME NEW d, NEW s, IsArray(d), IsArray(s), s.dims = d.dims,
         \/ IsContiguous(s) /\ IsContiguous(d)
         \/ IsFortranContiguous(s) /\ IsFortranContiguous(d)
  PROVE  Matched(d, s, d.dims) = Block(d.data, s.data, Product(d.dims))
  <1>. DEFINE dims == d.dims
              C == Coordinates(dims)
              n == Product(dims)
  <1>0. dims \in Seq(Nat) /\ n \in Nat
    <2>1. dims \in Seq(Nat)
      BY DEF IsArray
    <2>. QED
      BY <2>1, BelowStep
  <1>1. CASE n = 0
    <2>1. Matched(d, s, dims) = {}
      BY <1>0, <1>1, NothingMatched
    <2>2. 0..(n - 1) = {}
      BY <1>1
    <2>. QED
      BY <2>1, <2>2 DEF Block
  <1>2. CASE n # 0
    <2>1. ASSUME NEW place, \A c \in C : place[c] \in 0..(n - 1),
                 \A q \in 0..(n - 1) : \E c \in C : place[c] = q,
                 \A c \in C : AddressOf(d, c) = d.data + place[c] /\ AddressOf(s, c) = s.data + place[c]
          PROVE  Matched(d, s, dims) = Block(d.data, s.data, n)
      <3>. HIDE DEF C, n
      <3>1. Matched(d, s, dims) \subseteq Block(d.data, s.data, n)
        BY <2>1 DEF Matched, Block, C
      <3>2. ASSUME NEW q \in 0..(n - 1)  PROVE <<d.data + q, s.data + q>> \in Matched(d, s, dims)
        <4>1. PICK c \in C : place[c] = q
          BY <2>1
        <4>2. AddressOf(d, c) = d.data + q /\ AddressOf(s, c) = s.data + q
          BY <2>1, <4>1
        <4>. QED
          BY <4>2 DEF Matched, C
      <3>3. Block(d.data, s.data, n) \subseteq Matched(d, s, dims)
        <4>. HIDE DEF dims
        <4>. QED
          BY <3>2 DEF Block
      <3>. QED
        BY <3>1, <3>3
    <2>2. CASE IsContiguous(s) /\ IsContiguous(d)
      <3>. DEFINE place == [c \in C |-> Place(dims, c)]
      <3>1. \A c \in C : place[c] = Place(dims, c) /\ place[c] \in 0..(n - 1)
        BY <1>0, PlaceBelow
      <3>2. ASSUME NEW q \in 0..(n - 1)  PROVE \E c \in C : place[c] = q
        <4>1. CoordsAt(dims, q) \in C /\ Place(dims, CoordsAt(dims, q)) = q
          BY <1>0, CoordsAtDigits
        <4>. HIDE DEF place
        <4>. QED
          BY <3>1, <4>1
      <3>3. \A c \in C : AddressOf(d, c) = d.data + place[c] /\ AddressOf(s, c) = s.data + place[c]
        <4>1. \A c \in C : AddressOf(d, c) = d.data + Place(dims, c)
          BY <1>2, <2>2, COrder
        <4>2. \A c \in C : AddressOf(s, c) = s.data + Place(dims, c)
          BY <1>2, <2>2, COrder
        <4>. HIDE DEF place, C
        <4>. QED
          BY <3>1, <4>1, <4>2
      <3>. HIDE DEF place, C, n
      <3>9. Matched(d, s, dims) = Block(d.data, s.data, n)
        BY <2>1, <3>1, <3>2, <3>3
      <3>. QED
        BY <3>9 DEF n
    <2>3. CASE IsFortranContiguous(s) /\ IsFortranContiguous(d)
      <3>. DEFINE place == [c \in C |-> FPlace(dims, c)]
      <3>0. /\ \A c \in C : FPlace(dims, c) \in 0..(n - 1)
            /\ \A q \in 0..(n - 1) : \E c \in C : FPlace(dims, c) = q
        BY <1>0, <1>2, FPlaces
      <3>1. \A c \in C : place[c] = FPlace(dims, c)
        OBVIOUS
      <3>3. \A c \in C : AddressOf(d, c) = d.data + place[c] /\ AddressOf(s, c) = s.data + place[c]
        <4>1. \A c \in C : AddressOf(d, c) = d.data + FPlace(dims, c)
          BY <1>2, <2>3, FOrder
        <4>2. \A c \in C : AddressOf(s, c) = s.data + FPlace(dims, c)
          BY <1>2, <2>3, FOrder
        <4>. HIDE DEF place, C
        <4>. QED
          BY <3>1, <4>1, <4>2
      <3>. HIDE DEF place, C, n
      <3>4. \A c \in C : place[c] \in 0..(n - 1)
        BY <3>0, <3>1
      <3>5. \A q \in 0..(n - 1) : \E c \in C : place[c] = q
        <4>. SUFFICES ASSUME NEW q \in 0..(n - 1)  PROVE \E c \in C : place[c] = q
          OBVIOUS
        <4>1. PICK c \in C : FPlace(dims, c) = q
          BY <3>0
        <4>. QED
          BY <3>1, <4>1
      <3>9. Matched(d, s, dims) = Block(d.data, s.data, n)
        BY <2>1, <3>3, <3>4, <3>5
      <3>. QED
        BY <3>9 DEF n
    <2>. QED
      BY <2>2, <2>3
  <1>. QED
    BY <1>1, <1>2

\* Element by element, from the first to the last.
LEMMA WriteBlock ==
  ASSUME NEW m, Over(m, m), NEW dd \in Int, NEW ss \in Int, NEW n \in Nat,
         Clean(Block(dd, ss, n), DOMAIN m)
  PROVE  Fills(Write(m, [k \in 1..n |-> dd + k - 1], [k \in 1..n |-> m[ss + k - 1]]),
               m, Block(dd, ss, n))
  <1>. DEFINE at == [k \in 1..n |-> dd + k - 1]
              values == [k \in 1..n |-> m[ss + k - 1]]
              w == Written(m, at, values, n)
  <1>1. m = [x \in DOMAIN m |-> m[x]]
    BY DEF Over
  <1>2. /\ DOMAIN at = 1..n /\ (\A k \in 1..n : at[k] = dd + k - 1 /\ at[k] \in Int)
        /\ \A k \in 1..n : values[k] = m[ss + k - 1]
    OBVIOUS
  <1>. HIDE DEF at, values
  <1>3. Write(m, at, values) = w
    BY <1>1, <1>2, WriteLeaves
  <1>4. DOMAIN w = DOMAIN m /\ Over(w, m)
    BY DEF Written, Over
  <1>5. ASSUME NEW x \in DOMAIN m, ~\E j \in 1..n : at[j] = x  PROVE w[x] = m[x]
    BY <1>5 DEF Written
  <1>6. ASSUME NEW x \in DOMAIN m, NEW k \in 1..n, at[k] = x  PROVE w[x] = values[k]
    <2>1. \A j \in 1..n : at[j] = x <=> j = k
      <3>1. ASSUME NEW j \in 1..n, at[j] = x  PROVE j = k
        <4>1. dd + j - 1 = dd + k - 1
          BY <1>2, <1>6, <3>1
        <4>. QED
          BY <4>1
      <3>. QED
        BY <1>6, <3>1
    <2>2. {j \in 1..n : at[j] = x} = {k}
      BY <2>1
    <2>3. Max({k}) = k
      <3>1. {k} \in SUBSET Int /\ k \in {k} /\ \A y \in {k} : k >= y
        OBVIOUS
      <3>. QED
        BY <3>1, MaxIs
    <2>4. w[x] = values[Max({j \in 1..n : at[j] = x})]
      BY <1>6 DEF Written
    <2>. QED
      BY <2>2, <2>3, <2>4
  <1>. HIDE DEF w
  <1>7. ASSUME NEW q \in 0..(n - 1)
        PROVE  LET r == <<dd + q, ss + q>> IN w[r[1]] = m[r[2]]
    <2>. DEFINE r == <<dd + q, ss + q>>
                k == q + 1
    <2>1. r[1] = dd + q /\ r[2] = ss + q /\ r \in Block(dd, ss, n)
      BY DEF Block
    <2>2. k \in 1..n /\ dd + k - 1 = dd + q /\ ss + k - 1 = ss + q
      OBVIOUS
    <2>3. r[1] \in DOMAIN m
      BY <2>1 DEF Clean
    <2>. HIDE DEF r, k
    <2>4. w[r[1]] = values[k]
      BY <1>2, <1>6, <2>1, <2>2, <2>3
    <2>5. values[k] = m[r[2]]
      BY <1>2, <2>1, <2>2
    <2>. QED
      BY <2>4, <2>5 DEF r
  <1>8. ASSUME NEW x \in DOMAIN m, \A r \in Block(dd, ss, n) : r[1] # x  PROVE w[x] = m[x]
    <2>1. ASSUME NEW j \in 1..n, at[j] = x  PROVE FALSE
      <3>. DEFINE r == <<dd + (j - 1), ss + (j - 1)>>
      <3>1. j - 1 \in 0..(n - 1) /\ dd + (j - 1) = dd + j - 1
        OBVIOUS
      <3>2. r \in Block(dd, ss, n) /\ r[1] = dd + (j - 1)
        BY <3>1 DEF Block
      <3>. HIDE DEF r
      <3>. QED
        BY <1>2, <1>8, <2>1, <3>1, <3>2
    <2>. QED
      BY <1>5, <2>1
  <1>9. \A r \in Block(dd, ss, n) : w[r[1]] = m[r[2]]
    BY <1>7 DEF Block
  <1>10. Fills(w, m, Block(dd, ss, n))
    BY <1>4, <1>8, <1>9 DEF Fills
  <1>. QED
    BY <1>3, <1>10 DEF at, values

-----------------------------------------------------------------------------
(* A copy from an array without axes.                                      *)

LEMMA ZeroD ==
  ASSUME NEW s, IsArray(s), s.dims = <<>>, NEW dims \in Seq(Nat)
  PROVE  /\ Meets(s, dims) /\ StridesFor(s, dims) = [i \in 1..Len(dims) |-> 0]
         /\ \A c : AddressOf(s, c) = s.data
  <1>. DEFINE n == Len(dims)
  <1>0. n \in Nat /\ Len(s.dims) = 0 /\ DOMAIN s.dims = {} /\ DOMAIN dims = 1..n
    OBVIOUS
  <1>1. ASSUME NEW i \in 1..n  PROVE Own(s, dims, i) <= 0 /\ Stretched(s, n, i) = 1
    <2>1. ~(i + 0 - n > 0) /\ i + 0 - n <= 0
      BY <1>0
    <2>. QED
      BY <1>0, <2>1 DEF Own, Stretched
  <1>2. Meets(s, dims)
    BY <1>0, <1>1 DEF Meets
  <1>3. StridesFor(s, dims) = [i \in 1..n |-> 0]
    <2>1. \A i \in 1..n : ~Kept(s, dims, i)
      <3>1. \A i \in 1..n : Own(s, dims, i) \in Int
        BY <1>0 DEF Own
      <3>. QED
        BY <1>1, <3>1 DEF Kept
    <2>2. \A i \in 1..n : (IF Kept(s, dims, i) THEN s.strides[Own(s, dims, i)] ELSE 0) = 0
      BY <2>1
    <2>3. StridesFor(s, dims)
            = [i \in 1..n |-> IF Kept(s, dims, i) THEN s.strides[Own(s, dims, i)] ELSE 0]
      BY <1>0 DEF StridesFor
    <2>. QED
      BY <2>2, <2>3
  <1>4. ASSUME NEW c  PROVE AddressOf(s, c) = s.data
    <2>. DEFINE C == [i \in DOMAIN s.dims |-> IF s.dims[i] = 1 THEN 0 ELSE c[i + Len(c) - Len(s.dims)]]
                F == [i \in DOMAIN C |-> C[i] * s.strides[i]]
    <2>1. AddressOf(s, c) = s.data + SumFunction(F)
      BY DEF AddressOf, Dot
    <2>2. DOMAIN F = {}
      BY <1>0
    <2>. HIDE DEF F
    <2>3. Summable(F)
      BY <2>2, FS_EmptySet DEF Summable
    <2>4. SumFunction(F) = 0
      BY <2>2, <2>3, SumType
    <2>5. s.data \in Int
      BY DEF IsArray
    <2>. QED
      BY <2>1, <2>4, <2>5
  <1>. QED
    BY <1>2, <1>3, <1>4

\* The one element is found again at every step.
LEMMA StillVisits ==
  ASSUME NEW s, IsArray(s), s.dims = <<>>, NEW dims \in Seq(Nat), NEW k \in 1..Len(dims),
         NEW z, z = Product(Flat(dims, k))
  PROVE  Visits(Still(s, z), s, dims, k)
  <1>. DEFINE e == Flat(dims, k)
              n == Len(dims)
              one == <<z>>
              it == BroadcastIter(s, one)
  <1>0. e \in Seq(Nat) /\ Len(e) = n /\ z \in Nat
    BY FlatType, FlatProduct
  <1>1. one \in Seq(Nat) /\ Len(one) = 1 /\ one[1] = z
    BY <1>0
  <1>2. Product(one) = z
    <2>1. 1 \in 1..Len(one) /\ 1 - 1 = 0
      BY <1>1
    <2>. HIDE DEF one
    <2>2. Product(one) = z * 1
      BY <1>1, <2>1, BelowStep
    <2>. QED
      BY <1>0, <2>2
  <1>. HIDE DEF one, e
  <1>3. Meets(s, one)
    BY <1>1, ZeroD
  <1>4. Placed(it, FALSE) /\ Walks(it, s, one)
    BY <1>3, NewPlaced, NewWalks
  <1>5. it.ao = s /\ it.size = z
    BY <1>2, <1>4, WalksFields
  <1>. HIDE DEF it
  <1>6. ASSUME NEW i \in 0..(z - 1)
        PROVE  Advanced(it, i).dataptr = At(s, CoordsAt(e, i), StridesFor(s, dims))
    <2>1. Advanced(it, i).dataptr = AddressAt(it, i)
      BY <1>4, <1>5, AdvancedAt
    <2>2. AddressAt(it, i) = s.data
      BY <1>1, <1>5, ZeroD DEF AddressAt
    <2>3. Product(e) = z
      BY DEF e
    <2>4. CoordsAt(e, i) \in Coordinates(e)
      BY <1>0, <2>3, CoordsAtDigits
    <2>5. Meets(s, e) /\ StridesFor(s, e) = StridesFor(s, dims) /\ Len(StridesFor(s, dims)) = n
      <3>1. StridesFor(s, dims) = [j \in 1..n |-> 0]
        BY ZeroD
      <3>2. StridesFor(s, e) = [j \in 1..n |-> 0] /\ Meets(s, e)
        BY <1>0, ZeroD
      <3>. QED
        BY <3>1, <3>2
    <2>6. AddressOf(s, CoordsAt(e, i)) = At(s, CoordsAt(e, i), StridesFor(s, dims))
      BY <1>0, <2>4, <2>5, AddressOfIs DEF At
    <2>7. AddressOf(s, CoordsAt(e, i)) = s.data
      BY ZeroD
    <2>. QED
      BY <2>1, <2>2, <2>6, <2>7
  <1>. QED
    BY <1>6 DEF Visits, Still, it, one, e

\* The elements of a shape are numbered from 0.
Numbered(dims, place, n) ==
  /\ \A c \in Coordinates(dims) : place[c] \in 0..(n - 1)
  /\ \A q \in 0..(n - 1) : \E c \in Coordinates(dims) : place[c] = q

\* The elements of a are in one row.
InRow(a, dims, place, first, stride) ==
  \A c \in Coordinates(dims) : AddressOf(a, c) = first + place[c] * stride

LEMMA RowMatches ==
  ASSUME NEW d, NEW s, NEW dims \in Seq(Nat), NEW n, NEW os, NEW is, NEW dd, NEW ss, NEW place,
         Numbered(dims, place, n), InRow(d, dims, place, dd, os), InRow(s, dims, place, ss, is)
  PROVE  Matched(d, s, dims) = Row(dd, os, ss, is, n)
  <1>1. Matched(d, s, dims) \subseteq Row(dd, os, ss, is, n)
    BY DEF Matched, Row, Numbered, InRow
  <1>2. ASSUME NEW q \in 0..(n - 1)  PROVE <<dd + q * os, ss + q * is>> \in Matched(d, s, dims)
    <2>1. PICK c \in Coordinates(dims) : place[c] = q
      BY DEF Numbered
    <2>2. AddressOf(d, c) = dd + q * os /\ AddressOf(s, c) = ss + q * is
      BY <2>1 DEF InRow
    <2>. QED
      BY <2>2 DEF Matched
  <1>3. Row(dd, os, ss, is, n) \subseteq Matched(d, s, dims)
    BY <1>2 DEF Row
  <1>. QED
    BY <1>1, <1>3

LEMMA Copy0dFills ==
  ASSUME NEW dest, NEW src, IsArray(dest), IsArray(src), src.dims = <<>>,
         NEW m, Over(m, m), Clean(Matched(dest, src, dest.dims), DOMAIN m)
  PROVE  Fills(CopyFrom0d(m, dest, src), m, Matched(dest, src, dest.dims))
  <1>. DEFINE dims == dest.dims
              n == Product(dims)
              T == Matched(dest, src, dims)
              C == Coordinates(dims)
              os == IF Len(dims) = 1 THEN dest.strides[1] ELSE 1
  <1>0. dims \in Seq(Nat) /\ n \in Nat /\ dest.data \in Int /\ src.data \in Int
    <2>1. dims \in Seq(Nat) /\ dest.data \in Int /\ src.data \in Int
      BY DEF IsArray
    <2>. QED
      BY <2>1, BelowStep
  <1>1. Meets(src, dims) /\ \A c : AddressOf(src, c) = src.data
    BY <1>0, ZeroD
  <1>2. CASE Len(dims) < 2 \/ IsContiguous(dest) \/ IsFortranContiguous(dest)
    <2>1. CopyFrom0d(m, dest, src) = StridedCopy(m, dest.data, os, src.data, 0, n)
      BY <1>2 DEF CopyFrom0d
    <2>2. T = Row(dest.data, os, src.data, 0, n)
      <3>1. ASSUME NEW place, Numbered(dims, place, n), InRow(dest, dims, place, dest.data, os)
            PROVE  T = Row(dest.data, os, src.data, 0, n)
        <4>. DEFINE is == 0
        <4>1. ASSUME NEW c \in C  PROVE AddressOf(src, c) = src.data + place[c] * is
          <5>1. place[c] \in Int
            BY <3>1 DEF Numbered
          <5>2. place[c] * 0 = 0
            BY <5>1
          <5>. QED
            BY <1>0, <1>1, <5>2
        <4>. HIDE DEF is, n, os
        <4>2. InRow(src, dims, place, src.data, is)
          BY <4>1 DEF InRow
        <4>3. T = Row(dest.data, os, src.data, is, n)
          BY <1>0, <3>1, <4>2, RowMatches
        <4>. QED
          BY <4>3 DEF is
      <3>2. CASE n = 0
        <4>1. T = {} /\ 0..(n - 1) = {}
          BY <1>0, <3>2, NothingMatched
        <4>. QED
          BY <4>1 DEF Row
      <3>3. CASE n # 0 /\ (Len(dims) = 1 \/ IsContiguous(dest))
        <4>. DEFINE place == [c \in C |-> Place(dims, c)]
        <4>1. \A c \in C : place[c] = Place(dims, c) /\ place[c] \in 0..(n - 1)
          BY <1>0, PlaceBelow
        <4>2. ASSUME NEW q \in 0..(n - 1)  PROVE \E c \in C : place[c] = q
          <5>1. CoordsAt(dims, q) \in C /\ Place(dims, CoordsAt(dims, q)) = q
            BY <1>0, CoordsAtDigits
          <5>. HIDE DEF place
          <5>. QED
            BY <4>1, <5>1
        <4>3. ASSUME NEW c \in C  PROVE AddressOf(dest, c) = dest.data + Place(dims, c) * os
          <5>1. CASE Len(dims) = 1
            <6>1. Meets(dest, dims) /\ 1 \in 1..Len(dims)
              BY <5>1, OwnStrides
            <6>2. StridesFor(dest, dims)[1] = os
              BY <5>1, <6>1, OwnStrides
            <6>3. Place(dims, c) \in 0..(n - 1) /\ CoordsAt(dims, Place(dims, c)) = c
              BY <1>0, PlaceBelow, CoordsAtIs
            <6>4. AddressIn(dest, dims, Place(dims, c)) = dest.data + Place(dims, c) * StridesFor(dest, dims)[1]
              BY <5>1, <6>1, <6>3, AddressesOne
            <6>5. AddressIn(dest, dims, Place(dims, c)) = AddressOf(dest, c)
              BY <6>1, <6>3, AddressOfIs DEF AddressIn
            <6>. QED
              BY <6>2, <6>4, <6>5
          <5>2. CASE Len(dims) # 1
            <6>1. AddressOf(dest, c) = dest.data + Place(dims, c)
              BY <3>3, <5>2, COrder
            <6>2. Place(dims, c) * 1 = Place(dims, c) /\ os = 1
              <7>1. Place(dims, c) \in Int
                BY <1>0, PlaceBelow
              <7>. QED
                BY <5>2, <7>1
            <6>. QED
              BY <6>1, <6>2
          <5>. QED
            BY <5>1, <5>2
        <4>. HIDE DEF place, C, n, os, T
        <4>4. InRow(dest, dims, place, dest.data, os)
          BY <4>1, <4>3 DEF InRow, C
        <4>5. Numbered(dims, place, n)
          BY <4>1, <4>2 DEF Numbered, C
        <4>. QED
          BY <3>1, <4>4, <4>5
      <3>4. CASE n # 0 /\ Len(dims) # 1 /\ IsFortranContiguous(dest)
        <4>. DEFINE place == [c \in C |-> FPlace(dims, c)]
        <4>0. /\ \A c \in C : FPlace(dims, c) \in 0..(n - 1)
              /\ \A q \in 0..(n - 1) : \E c \in C : FPlace(dims, c) = q
          BY <1>0, <3>4, FPlaces
        <4>1. \A c \in C : place[c] = FPlace(dims, c)
          OBVIOUS
        <4>2. ASSUME NEW c \in C  PROVE AddressOf(dest, c) = dest.data + FPlace(dims, c) * os
          <5>1. AddressOf(dest, c) = dest.data + FPlace(dims, c)
            BY <3>4, FOrder
          <5>2. FPlace(dims, c) * 1 = FPlace(dims, c) /\ os = 1
            <6>1. FPlace(dims, c) \in Int
              BY <4>0
            <6>. QED
              BY <3>4, <6>1
          <5>. QED
            BY <5>1, <5>2
        <4>. HIDE DEF place, C, n, os, T
        <4>3. Numbered(dims, place, n)
          <5>1. \A c \in C : place[c] \in 0..(n - 1)
            BY <4>0, <4>1
          <5>2. ASSUME NEW q \in 0..(n - 1)  PROVE \E c \in C : place[c] = q
            <6>1. PICK c \in C : FPlace(dims, c) = q
              BY <4>0
            <6>. QED
              BY <4>1, <6>1
          <5>. QED
            BY <5>1, <5>2 DEF Numbered, C
        <4>4. InRow(dest, dims, place, dest.data, os)
          BY <4>1, <4>2 DEF InRow, C
        <4>. QED
          BY <3>1, <4>3, <4>4
      <3>5. Len(dims) < 2 /\ Len(dims) # 1 => IsContiguous(dest)
        <4>. SUFFICES ASSUME Len(dims) < 2, Len(dims) # 1  PROVE IsContiguous(dest)
          OBVIOUS
        <4>1. Len(dims) = 0
          <5>. DEFINE l == Len(dims)
          <5>1. l \in Nat /\ l < 2 /\ l # 1
            BY <1>0
          <5>. HIDE DEF l
          <5>2. l = 0
            BY <5>1
          <5>. QED
            BY <5>2 DEF l
        <4>2. DOMAIN dims = {}
          BY <1>0, <4>1
        <4>. QED
          BY <4>1, <4>2 DEF IsContiguous
      <3>. QED
        BY <1>2, <3>2, <3>3, <3>4, <3>5
    <2>. HIDE DEF T, os, n
    <2>3. Fills(StridedCopy(m, dest.data, os, src.data, 0, n), m, T)
      BY <1>0, <2>2, StridedMoves DEF T
    <2>. QED
      BY <2>1, <2>3 DEF T
  <1>3. CASE ~(Len(dims) < 2 \/ IsContiguous(dest) \/ IsFortranContiguous(dest))
    <2>. DEFINE k == SmallestAxis(dest)
                dit == WithoutAxis(BroadcastIter(dest, dims), k)
                sit == Still(src, dit.size)
    <2>1. k \in 1..Len(dims)
      <3>1. Len(dims) # 0
        BY <1>3
      <3>. QED
        BY <3>1, SmallestAxisIn
    <2>2. Meets(dest, dims) /\ IterNew(dest) = BroadcastIter(dest, dims)
      BY OwnStrides
    <2>. HIDE DEF k
    <2>3. StridesFor(dest, dims)[k] = dest.strides[k] /\ StridesFor(src, dims)[k] = 0
      <3>1. StridesFor(src, dims) = [i \in 1..Len(dims) |-> 0]
        BY <1>0, ZeroD
      <3>. QED
        BY <2>1, <3>1, OwnStrides
    <2>4. CopyFrom0d(m, dest, src)
            = CopyAlong(m, dit, StridesFor(dest, dims)[k], sit, StridesFor(src, dims)[k], dims[k])
      BY <1>3, <2>2, <2>3 DEF CopyFrom0d, k
    <2>5. CASE n # 0
      <3>1. Visits(dit, dest, dims, k) /\ dit.size = Product(Flat(dims, k))
        BY <2>1, <2>2, <2>5, WithoutAxisVisits
      <3>2. Visits(sit, src, dims, k)
        BY <1>0, <2>1, <3>1, StillVisits
      <3>. HIDE DEF dit, sit
      <3>. QED
        BY <1>1, <2>1, <2>2, <2>4, <3>1, <3>2, AlongAxis
    <2>6. CASE n = 0
      <3>1. T = {} /\ dims[k] \in Nat
        BY <1>0, <2>1, <2>6, NothingMatched
      <3>2. dit.size = 0
        BY <2>1, <2>2, <2>6, WithoutAxisEmpty
      <3>. HIDE DEF dit, sit
      <3>. QED
        BY <2>4, <3>1, <3>2, NothingAlong
    <2>. QED
      BY <2>5, <2>6
  <1>. QED
    BY <1>2, <1>3

-----------------------------------------------------------------------------
(* An element of a broadcast array is one of the array's own.              *)

\* The array's own coordinates for coordinates c of a shape.
Used(a, c) ==
  [i \in DOMAIN a.dims |-> IF a.dims[i] = 1 THEN 0 ELSE c[i + Len(c) - Len(a.dims)]]

LEMMA AddressUses ==
  ASSUME NEW a, NEW c, NEW e, Used(a, c) = Used(a, e)
  PROVE  AddressOf(a, c) = AddressOf(a, e)
  <1>1. AddressOf(a, c) = a.data + Dot(Used(a, c), a.strides)
    BY Zenon DEF AddressOf, Used
  <1>2. AddressOf(a, e) = a.data + Dot(Used(a, e), a.strides)
    BY Zenon DEF AddressOf, Used
  <1>. QED
    BY <1>1, <1>2

LEMMA OwnElement ==
  ASSUME NEW a, NEW dims, Meets(a, dims), NEW c \in Coordinates(dims)
  PROVE  AddressOf(a, c) \in Footprint(a)
  <1>. DEFINE na == Len(a.dims)
              n  == Len(dims)
              e  == [i \in 1..na |-> IF a.dims[i] = 1 THEN 0 ELSE c[i + n - na]]
  <1>1. /\ a.dims \in Seq(Nat) /\ na \in Nat /\ n \in Nat /\ na <= n /\ dims \in Seq(Nat)
        /\ DOMAIN a.dims = 1..na
    BY DEF Meets, IsArray
  <1>2. \A i \in 1..n : Stretched(a, n, i) \in {1, dims[i]}
    BY DEF Meets
  <1>3. /\ \A i \in 1..n : c[i] \in Nat /\ c[i] < dims[i]
        /\ c = [i \in 1..n |-> c[i]]
    BY DEF Coordinates
  <1>4. ASSUME NEW i \in 1..na  PROVE e[i] \in Nat /\ e[i] < a.dims[i]
    <2>. DEFINE j == i + n - na
    <2>1. j \in 1..n /\ j + na - n = i /\ i > 0
      BY <1>1
    <2>2. CASE a.dims[i] = 1
      <3>1. e[i] = 0
        BY <2>2
      <3>. HIDE DEF e
      <3>. QED
        BY <2>2, <3>1
    <2>3. CASE a.dims[i] # 1
      <3>1. e[i] = c[j]
        BY <2>3
      <3>2. Stretched(a, n, j) = a.dims[j + na - n]
        BY <2>1 DEF Stretched
      <3>. HIDE DEF j
      <3>3. Stretched(a, n, j) = a.dims[i]
        BY <2>1, <3>2
      <3>4. a.dims[i] = dims[j]
        BY <1>2, <2>1, <2>3, <3>3
      <3>. HIDE DEF e
      <3>. QED
        BY <1>3, <2>1, <3>1, <3>4
    <2>. QED
      BY <2>2, <2>3
  <1>5. e \in Coordinates(a.dims)
    <2>1. e = [i \in 1..na |-> e[i]]
      OBVIOUS
    <2>. HIDE DEF e
    <2>. QED
      BY <1>4, <2>1 DEF Coordinates
  <1>6. Len(c) = n /\ Len(e) = na
    <2>1. e = [i \in 1..na |-> e[i]]
      OBVIOUS
    <2>. HIDE DEF e, n, na
    <2>. QED
      BY <1>1, <1>3, <2>1, LenIs
  <1>7. Used(a, c) = [i \in 1..na |-> IF a.dims[i] = 1 THEN 0 ELSE c[i + n - na]]
    BY <1>1, <1>6 DEF Used
  <1>8. Used(a, e) = [i \in 1..na |-> IF a.dims[i] = 1 THEN 0 ELSE e[i + na - na]]
    <2>. HIDE DEF e
    <2>. QED
      BY <1>1, <1>6 DEF Used
  <1>9. Used(a, c) = Used(a, e)
    <2>1. \A i \in 1..na : a.dims[i] # 1 => e[i] = c[i + n - na]
      OBVIOUS
    <2>. HIDE DEF e, n, na
    <2>2. \A i \in 1..na : i + na - na = i
      BY <1>1
    <2>3. Used(a, e) = [i \in 1..na |-> IF a.dims[i] = 1 THEN 0 ELSE e[i]]
      BY <1>8, <2>2
    <2>. QED
      BY <1>7, <2>1, <2>3
  <1>. HIDE DEF e
  <1>10. AddressOf(a, c) = AddressOf(a, e)
    BY <1>9, AddressUses
  <1>11. e \in AllCoords(a.dims)
    BY <1>1, <1>5, AllCoordsAre
  <1>. QED
    BY <1>10, <1>11 DEF Footprint

-----------------------------------------------------------------------------
(* Axes of length 1 put in front of a shape.                               *)

Padded(long, dims) ==
  /\ long \in Seq(Nat) /\ dims \in Seq(Nat) /\ Len(dims) <= Len(long)
  /\ \A i \in 1..Len(long) :
       /\ i > Len(long) - Len(dims) => long[i] = dims[i - (Len(long) - Len(dims))]
       /\ i <= Len(long) - Len(dims) => long[i] = 1

LEMMA PaddedProduct ==
  ASSUME NEW long, NEW dims, Padded(long, dims)
  PROVE  Product(long) = Product(dims)
  <1>. DEFINE n  == Len(long)
              p  == Len(long) - Len(dims)
              G  == {i \in 0..p : Below(long, i) = Product(long)}
  <1>1. /\ long \in Seq(Nat) /\ dims \in Seq(Nat) /\ n \in Nat /\ p \in Nat /\ p <= n
        /\ Len(dims) = n - p
    BY DEF Padded
  <1>2. /\ \A i \in 1..n : i > p => long[i] = dims[i - p]
        /\ \A i \in 1..n : i <= p => long[i] = 1
    BY DEF Padded
  <1>3. /\ Below(long, 0) = Product(long)
        /\ \A i \in 0..n : Below(long, i) \in Nat
        /\ \A i \in 1..n : Below(long, i - 1) = long[i] * Below(long, i)
    BY <1>1, BelowStep
  <1>. HIDE DEF n, p
  <1>4. G = 0..p
    <2>1. G \in SUBSET (0..p) /\ 0 \in G
      BY <1>1, <1>3
    <2>2. ASSUME NEW i \in 1..p, i - 1 \in G  PROVE i \in G
      <3>1. i \in 1..n /\ i \in 0..n /\ i \in 0..p
        BY <1>1
      <3>2. Below(long, i - 1) = 1 * Below(long, i)
        BY <1>2, <1>3, <3>1
      <3>3. Below(long, i) = Below(long, i - 1)
        BY <1>3, <3>1, <3>2
      <3>. QED
        BY <2>2, <3>1, <3>3
    <2>. HIDE DEF G
    <2>. QED
      BY <1>1, <2>1, <2>2, UpTo
  <1>5. Below(long, p) = Product(long)
    BY <1>1, <1>4
  <1>6. SubSeq(long, p + 1, n) = dims
    <2>1. SubSeq(long, p + 1, n) = [i \in 1..(n - p) |-> long[i + p]]
      BY <1>1 DEF n
    <2>2. \A i \in 1..(n - p) : long[i + p] = dims[i]
      <3>1. SUFFICES ASSUME NEW i \in 1..(n - p)  PROVE long[i + p] = dims[i]
        OBVIOUS
      <3>2. i + p \in 1..n /\ i + p > p /\ (i + p) - p = i
        BY <1>1
      <3>. QED
        BY <1>2, <3>2
    <2>3. dims = [i \in 1..(n - p) |-> dims[i]]
      BY <1>1
    <2>. QED
      BY <2>1, <2>2, <2>3
  <1>. QED
    BY <1>5, <1>6 DEF Below, n

\* The last n of a sequence of coordinates.
LastOnes(c, n, p) == [i \in 1..n |-> c[i + p]]

LEMMA PaddedAddress ==
  ASSUME NEW long, NEW dims, Padded(long, dims), NEW a, Meets(a, long), NEW c \in Coordinates(long),
         NEW t, t = LastOnes(c, Len(dims), Len(long) - Len(dims))
  PROVE  t \in Coordinates(dims) /\ AddressOf(a, c) = AddressOf(a, t)
  <1>. DEFINE n  == Len(long)
              nd == Len(dims)
              p  == Len(long) - Len(dims)
              na == Len(a.dims)
  <1>1. /\ long \in Seq(Nat) /\ dims \in Seq(Nat) /\ n \in Nat /\ p \in Nat /\ p <= n
        /\ nd \in Nat /\ nd = n - p /\ Len(long) - Len(dims) = p
    BY DEF Padded
  <1>2. /\ \A i \in 1..n : i > p => long[i] = dims[i - p]
        /\ \A i \in 1..n : i <= p => long[i] = 1
    BY DEF Padded
  <1>3. a.dims \in Seq(Nat) /\ na \in Nat /\ na <= n /\ DOMAIN a.dims = 1..na
    BY DEF Meets, IsArray
  <1>4. \A i \in 1..n : Stretched(a, n, i) \in {1, long[i]}
    BY DEF Meets
  <1>5. /\ \A i \in 1..n : c[i] \in Nat /\ c[i] < long[i]
        /\ c = [i \in 1..n |-> c[i]]
    BY DEF Coordinates
  <1>6. t = [i \in 1..nd |-> c[i + p]]
    BY DEF LastOnes
  <1>. HIDE DEF n, p, nd, na
  <1>7. ASSUME NEW i \in 1..nd  PROVE t[i] \in Nat /\ t[i] < dims[i]
    <2>1. i + p \in 1..n /\ i + p > p /\ (i + p) - p = i
      BY <1>1
    <2>2. t[i] = c[i + p] /\ long[i + p] = dims[i]
      BY <1>2, <1>6, <2>1
    <2>. QED
      BY <1>5, <2>1, <2>2
  <1>8. t \in Coordinates(dims)
    <2>1. t = [i \in 1..nd |-> t[i]]
      BY <1>6
    <2>2. t \in [1..nd -> Nat]
      BY <1>7, <2>1
    <2>. QED
      BY <1>7, <2>2 DEF Coordinates, nd
  <1>9. Len(c) = n /\ Len(t) = nd
    BY <1>1, <1>5, <1>6, LenIs
  <1>10. Used(a, c) = [i \in 1..na |-> IF a.dims[i] = 1 THEN 0 ELSE c[i + n - na]]
    BY <1>3, <1>9 DEF Used, na
  <1>11. Used(a, t) = [i \in 1..na |-> IF a.dims[i] = 1 THEN 0 ELSE t[i + nd - na]]
    BY <1>3, <1>9 DEF Used, na
  <1>12. ASSUME NEW i \in 1..na, a.dims[i] # 1  PROVE t[i + nd - na] = c[i + n - na]
    <2>. DEFINE j == i + n - na
    <2>1. j \in 1..n /\ j + na - n = i /\ i > 0
      BY <1>1, <1>3
    <2>2. Stretched(a, n, j) = a.dims[j + na - n]
      BY <2>1 DEF Stretched, na
    <2>. HIDE DEF j
    <2>3. long[j] = a.dims[i]
      BY <1>4, <1>12, <2>1, <2>2
    <2>4. j > p
      BY <1>1, <1>2, <1>12, <2>1, <2>3
    <2>5. i + nd - na \in 1..nd /\ (i + nd - na) + p = i + n - na
      BY <1>1, <1>3, <2>1, <2>4 DEF j
    <2>. QED
      BY <1>6, <2>5
  <1>13. Used(a, c) = Used(a, t)
    BY <1>10, <1>11, <1>12
  <1>. QED
    BY <1>8, <1>13, AddressUses

LEMMA PaddedMatched ==
  ASSUME NEW long, NEW dims, Padded(long, dims), NEW d, Meets(d, long), NEW s, Meets(s, long)
  PROVE  Matched(d, s, long) = Matched(d, s, dims)
  <1>. DEFINE n  == Len(long)
              nd == Len(dims)
              p  == Len(long) - Len(dims)
  <1>1. /\ n \in Nat /\ p \in Nat /\ p <= n /\ nd \in Nat /\ nd = n - p
    BY DEF Padded
  <1>2. /\ \A i \in 1..n : i > p => long[i] = dims[i - p]
        /\ \A i \in 1..n : i <= p => long[i] = 1
    BY DEF Padded
  <1>3. ASSUME NEW c \in Coordinates(long)
        PROVE  \E t \in Coordinates(dims) : AddressOf(d, c) = AddressOf(d, t)
                                            /\ AddressOf(s, c) = AddressOf(s, t)
    <2>. DEFINE t == LastOnes(c, Len(dims), Len(long) - Len(dims))
    <2>. HIDE DEF t
    <2>1. t \in Coordinates(dims) /\ AddressOf(d, c) = AddressOf(d, t)
      BY PaddedAddress DEF t
    <2>2. AddressOf(s, c) = AddressOf(s, t)
      BY PaddedAddress DEF t
    <2>. QED
      BY <2>1, <2>2
  <1>4. ASSUME NEW t \in Coordinates(dims)
        PROVE  \E c \in Coordinates(long) : t = LastOnes(c, Len(dims), Len(long) - Len(dims))
    <2>. DEFINE c == [i \in 1..n |-> IF i <= p THEN 0 ELSE t[i - p]]
    <2>. HIDE DEF n, p, nd
    <2>1. /\ \A i \in 1..nd : t[i] \in Nat /\ t[i] < dims[i]
          /\ t = [i \in 1..nd |-> t[i]]
      BY DEF Coordinates, nd
    <2>2. ASSUME NEW i \in 1..n  PROVE c[i] \in Nat /\ c[i] < long[i]
      <3>1. CASE i <= p
        <4>1. c[i] = 0 /\ long[i] = 1
          BY <1>2, <3>1
        <4>. HIDE DEF c
        <4>. QED
          BY <4>1
      <3>2. CASE i > p
        <4>1. i - p \in 1..nd /\ ~(i <= p)
          BY <1>1, <3>2
        <4>2. c[i] = t[i - p] /\ long[i] = dims[i - p]
          BY <1>2, <3>2, <4>1
        <4>. HIDE DEF c
        <4>. QED
          BY <2>1, <4>1, <4>2
      <3>. QED
        BY <1>1, <3>1, <3>2
    <2>3. c \in Coordinates(long)
      <3>1. c = [i \in 1..n |-> c[i]]
        OBVIOUS
      <3>. HIDE DEF c
      <3>2. c \in [1..n -> Nat]
        BY <2>2, <3>1
      <3>. QED
        BY <2>2, <3>2 DEF Coordinates, n
    <2>4. \A i \in 1..nd : c[i + p] = t[i]
      <3>1. SUFFICES ASSUME NEW i \in 1..nd  PROVE c[i + p] = t[i]
        OBVIOUS
      <3>2. i + p \in 1..n /\ ~(i + p <= p) /\ (i + p) - p = i
        BY <1>1
      <3>. QED
        BY <3>2
    <2>. HIDE DEF c
    <2>5. LastOnes(c, nd, p) = [i \in 1..nd |-> c[i + p]]
      BY DEF LastOnes
    <2>6. LastOnes(c, nd, p) = t
      BY <2>1, <2>4, <2>5
    <2>. QED
      BY <2>3, <2>6 DEF nd, p
  <1>5. ASSUME NEW t \in Coordinates(dims)
        PROVE  \E c \in Coordinates(long) : AddressOf(d, c) = AddressOf(d, t)
                                            /\ AddressOf(s, c) = AddressOf(s, t)
    <2>1. PICK c \in Coordinates(long) : t = LastOnes(c, Len(dims), Len(long) - Len(dims))
      BY <1>4
    <2>2. AddressOf(d, c) = AddressOf(d, t)
      BY <2>1, PaddedAddress
    <2>3. AddressOf(s, c) = AddressOf(s, t)
      BY <2>1, PaddedAddress
    <2>. QED
      BY <2>2, <2>3
  <1>6. Matched(d, s, long) \subseteq Matched(d, s, dims)
    BY <1>3 DEF Matched
  <1>7. Matched(d, s, dims) \subseteq Matched(d, s, long)
    BY <1>5 DEF Matched
  <1>. QED
    BY <1>6, <1>7

-----------------------------------------------------------------------------
(* A shape whose lengths are those of another, or 1, has fewer elements.   *)

LEMMA GrowStep ==
  ASSUME NEW b \in Nat \ {0}, NEW a \in {1, b}, NEW x \in Nat \ {0}, NEW y \in Nat \ {0}, x <= y
  PROVE  a * x \in Nat /\ b * y \in Nat /\ a * x <= b * y /\ (x < y \/ a # b => a * x < b * y)
  <1>0. a * x \in Nat /\ b * y \in Nat
    OBVIOUS
  <1>1. CASE a = b
    <2>1. CASE x = y
      BY <1>0, <1>1, <2>1
    <2>2. CASE x < y
      <3>1. x * b + b <= y * b
        BY <2>2, TimesLess
      <3>2. x * b \in Nat /\ y * b \in Nat /\ x * b = a * x /\ y * b = b * y
        BY <1>1
      <3>. QED
        BY <1>1, <3>1, <3>2
    <2>. QED
      BY <2>1, <2>2
  <1>2. CASE a # b
    <2>1. a = 1 /\ 1 < b
      BY <1>2
    <2>. DEFINE one == 1
    <2>2. one \in Nat /\ one < b /\ one * y = y /\ a * x = x
      BY <2>1
    <2>. HIDE DEF one
    <2>3. one * y + y <= b * y
      BY <2>2, TimesLess
    <2>. QED
      BY <1>0, <2>2, <2>3
  <1>. QED
    BY <1>1, <1>2

LEMMA SameProduct ==
  ASSUME NEW dims \in Seq(Nat), NEW part \in Seq(Nat), Len(part) = Len(dims),
         \A i \in 1..Len(dims) : part[i] \in {1, dims[i]},
         Product(part) = Product(dims), Product(dims) # 0
  PROVE  \A i \in 1..Len(dims) : part[i] = dims[i]
  <1>. DEFINE n == Len(dims)
              G == {i \in 0..n : Below(part, n - i) <= Below(dims, n - i)}
  <1>1. /\ n \in Nat /\ Below(dims, n) = 1 /\ Below(part, n) = 1
        /\ Below(dims, 0) = Product(dims) /\ Below(part, 0) = Product(dims)
        /\ \A i \in 1..n : Below(dims, i - 1) = dims[i] * Below(dims, i)
        /\ \A i \in 1..n : Below(part, i - 1) = part[i] * Below(part, i)
    BY BelowStep
  <1>2. /\ \A i \in 0..n : Below(dims, i) \in Nat \ {0}
        /\ \A i \in 0..n : Below(part, i) \in Nat \ {0}
        /\ \A i \in 1..n : dims[i] \in Nat \ {0}
    <2>1. \A i \in 0..n : Below(dims, i) \in Nat /\ Below(dims, i) > 0
      BY BelowStep, NoEmptyAxis
    <2>2. \A i \in 0..n : Below(part, i) \in Nat /\ Below(part, i) > 0
      BY BelowStep, NoEmptyAxis
    <2>3. \A i \in 1..n : dims[i] \in Nat /\ dims[i] > 0
      BY NoEmptyAxis
    <2>. QED
      BY <2>1, <2>2, <2>3
  <1>3. \A i \in 1..n : part[i] \in {1, dims[i]}
    OBVIOUS
  <1>. HIDE DEF n
  <1>4. ASSUME NEW i \in 1..n, Below(part, i) <= Below(dims, i)
        PROVE  /\ Below(part, i - 1) <= Below(dims, i - 1)
               /\ Below(part, i) < Below(dims, i) \/ part[i] # dims[i] =>
                    Below(part, i - 1) < Below(dims, i - 1)
    <2>. DEFINE x == Below(part, i)
                y == Below(dims, i)
                a == part[i]
                b == dims[i]
    <2>1. i \in 0..n
      BY <1>1
    <2>2. b \in Nat \ {0} /\ a \in {1, b} /\ x \in Nat \ {0} /\ y \in Nat \ {0} /\ x <= y
      BY <1>2, <1>3, <1>4, <2>1
    <2>3. Below(part, i - 1) = a * x /\ Below(dims, i - 1) = b * y
      BY <1>1
    <2>. HIDE DEF a, b, x, y
    <2>4. a * x <= b * y /\ (x < y \/ a # b => a * x < b * y)
      BY <2>2, GrowStep
    <2>5. Below(part, i - 1) <= Below(dims, i - 1)
      BY <2>3, <2>4
    <2>6. x < y \/ a # b => Below(part, i - 1) < Below(dims, i - 1)
      BY <2>3, <2>4
    <2>. QED
      BY <2>5, <2>6 DEF a, b, x, y
  <1>5. G = 0..n
    <2>1. G \in SUBSET (0..n) /\ 0 \in G
      BY <1>1
    <2>2. ASSUME NEW i \in 1..n, i - 1 \in G  PROVE i \in G
      <3>. DEFINE j == n - (i - 1)
      <3>1. j \in 1..n /\ j - 1 = n - i /\ i \in 0..n
        BY <1>1
      <3>2. Below(part, j) <= Below(dims, j)
        BY <2>2
      <3>. HIDE DEF j
      <3>3. Below(part, j - 1) <= Below(dims, j - 1)
        BY <1>4, <3>1, <3>2
      <3>. QED
        BY <3>1, <3>3
    <2>. HIDE DEF G
    <2>. QED
      BY <1>1, <2>1, <2>2, UpTo
  <1>6. ASSUME NEW i \in 0..n  PROVE Below(part, i) <= Below(dims, i)
    <2>1. n - i \in 0..n /\ n - (n - i) = i
      BY <1>1
    <2>2. n - i \in G
      BY <1>5, <2>1
    <2>. QED
      BY <2>1, <2>2
  <1>7. SUFFICES ASSUME NEW k \in 1..n, part[k] # dims[k]  PROVE FALSE
    BY DEF n
  <1>. DEFINE H == {i \in 0..(k - 1) : Below(part, (k - 1) - i) < Below(dims, (k - 1) - i)}
  <1>8. H = 0..(k - 1)
    <2>1. k \in 0..n /\ k - 1 \in Nat /\ (k - 1) - 0 = k - 1
      BY <1>1
    <2>2. Below(part, k - 1) < Below(dims, k - 1)
      BY <1>4, <1>6, <1>7, <2>1
    <2>3. H \in SUBSET (0..(k - 1)) /\ 0 \in H
      BY <2>1, <2>2
    <2>4. ASSUME NEW i \in 1..(k - 1), i - 1 \in H  PROVE i \in H
      <3>. DEFINE j == (k - 1) - (i - 1)
      <3>1. j \in 1..n /\ j \in 0..n /\ j - 1 = (k - 1) - i /\ i \in 0..(k - 1)
        BY <1>1
      <3>2. Below(part, j) < Below(dims, j)
        BY <2>4
      <3>. HIDE DEF j
      <3>3. Below(part, j - 1) < Below(dims, j - 1)
        BY <1>4, <1>6, <3>1, <3>2
      <3>. QED
        BY <3>1, <3>3
    <2>. DEFINE z == k - 1
    <2>. HIDE DEF H
    <2>5. z \in Nat /\ H \in SUBSET (0..z) /\ 0 \in H /\ \A i \in 1..z : i - 1 \in H => i \in H
      BY <2>1, <2>3, <2>4
    <2>. HIDE DEF z
    <2>6. H = 0..z
      BY <2>5, UpTo
    <2>. QED
      BY <2>6 DEF z
  <1>9. k - 1 \in 0..(k - 1) /\ (k - 1) - (k - 1) = 0
    BY <1>1
  <1>10. k - 1 \in H
    BY <1>8, <1>9
  <1>11. Below(part, 0) < Below(dims, 0)
    BY <1>9, <1>10
  <1>. QED
    BY <1>1, <1>2, <1>11

-----------------------------------------------------------------------------
(* Which shapes fit.                                                       *)

\* The lengths of an array seen with n axes.
Seen(a, n) == [i \in 1..n |-> Stretched(a, n, i)]

LEMMA SeenPads ==
  ASSUME NEW a, IsArray(a), NEW n \in Nat, Len(a.dims) <= n
  PROVE  Padded(Seen(a, n), a.dims) /\ Seen(a, n) \in Seq(Nat) /\ Len(Seen(a, n)) = n
  <1>. DEFINE na == Len(a.dims)
              e  == Seen(a, n)
  <1>1. a.dims \in Seq(Nat) /\ na \in Nat /\ na <= n
    BY DEF IsArray
  <1>2. e = [i \in 1..n |-> Stretched(a, n, i)]
    BY DEF Seen
  <1>3. ASSUME NEW i \in 1..n
        PROVE  /\ i > n - na => Stretched(a, n, i) = a.dims[i - (n - na)] /\ i - (n - na) \in 1..na
               /\ i <= n - na => Stretched(a, n, i) = 1
    <2>1. i + na - n = i - (n - na)
      BY <1>1
    <2>2. CASE i > n - na
      <3>1. i + na - n > 0 /\ i + na - n \in 1..na
        BY <1>1, <2>2
      <3>2. Stretched(a, n, i) = a.dims[i + na - n]
        BY <3>1 DEF Stretched
      <3>. HIDE DEF na
      <3>. QED
        BY <1>1, <2>1, <2>2, <3>1, <3>2
    <2>3. CASE i <= n - na
      <3>1. ~(i + na - n > 0)
        BY <1>1, <2>3
      <3>2. Stretched(a, n, i) = 1
        BY <3>1 DEF Stretched
      <3>. HIDE DEF na
      <3>. QED
        BY <1>1, <2>3, <3>2
    <2>. QED
      BY <1>1, <2>2, <2>3
  <1>. HIDE DEF e, na
  <1>4. \A i \in 1..n : Stretched(a, n, i) \in Nat
    <2>1. SUFFICES ASSUME NEW i \in 1..n  PROVE Stretched(a, n, i) \in Nat
      OBVIOUS
    <2>2. CASE i > n - na
      <3>1. i - (n - na) \in 1..Len(a.dims) /\ Stretched(a, n, i) = a.dims[i - (n - na)]
        BY <1>3, <2>2 DEF na
      <3>. QED
        BY <1>1, <3>1
    <2>3. CASE i <= n - na
      BY <1>3, <2>3
    <2>. QED
      BY <1>1, <2>2, <2>3
  <1>5. e \in [1..n -> Nat]
    BY <1>2, <1>4
  <1>6. e \in Seq(Nat) /\ Len(e) = n
    BY <1>5
  <1>7. \A i \in 1..n : e[i] = Stretched(a, n, i)
    BY <1>2
  <1>8. Padded(e, a.dims)
    <2>1. \A i \in 1..n : /\ i > n - na => e[i] = a.dims[i - (n - na)]
                          /\ i <= n - na => e[i] = 1
      BY <1>3, <1>7
    <2>. QED
      BY <1>1, <1>6, <2>1 DEF Padded, na
  <1>. QED
    BY <1>6, <1>8 DEF e

LEMMA BothAxes ==
  ASSUME NEW dest, NEW src, IsArray(dest), IsArray(src), NEW n, n = MostAxes({dest, src})
  PROVE  /\ n \in Nat /\ Len(dest.dims) <= n /\ Len(src.dims) <= n
         /\ n = Max({Len(dest.dims), Len(src.dims)})
         /\ DOMAIN BroadcastDims({dest, src}) = 1..n /\ Len(BroadcastDims({dest, src})) = n
         /\ Fits(dest, src) <=> \A i \in 1..n : Stretched(src, n, i) \in {1, Stretched(dest, n, i)}
  <1>. DEFINE u == Len(dest.dims)
              v == Len(src.dims)
              f == BroadcastDims({dest, src})
  <1>1. u \in Nat /\ v \in Nat
    BY DEF IsArray
  <1>2. {Len(a.dims) : a \in {dest, src}} = {u, v}
    OBVIOUS
  <1>3. n = Max({u, v})
    BY <1>2 DEF MostAxes
  <1>4. Fits(dest, src)
          <=> \A i \in 1..Max({u, v}) : Stretched(src, Max({u, v}), i)
                                          \in {1, Stretched(dest, Max({u, v}), i)}
    BY Zenon DEF Fits
  <1>5. f = [i \in 1..n |-> IF Lengths({dest, src}, i) = {} THEN 1 ELSE Max(Lengths({dest, src}, i))]
    BY DEF BroadcastDims
  <1>. HIDE DEF u, v, f
  <1>6. Max({u, v}) \in {u, v} /\ \A y \in {u, v} : Max({u, v}) >= y
    <2>1. {u, v} \in SUBSET (0..(u + v)) /\ {u, v} # {} /\ u + v \in Nat
      BY <1>1
    <2>. QED
      BY <2>1, MaxOf
  <1>7. n \in Nat /\ u <= n /\ v <= n
    BY <1>1, <1>3, <1>6
  <1>8. DOMAIN f = 1..n /\ f = [i \in 1..n |-> f[i]]
    BY <1>5
  <1>9. Len(f) = n
    BY <1>7, <1>8, LenIs
  <1>. QED
    BY <1>3, <1>4, <1>7, <1>8, <1>9 DEF u, v, f

LEMMA FitsBroadcasts ==
  ASSUME NEW dest, NEW src, IsArray(dest), IsArray(src), Fits(dest, src)
  PROVE  /\ Broadcastable({dest, src})
         /\ BroadcastDims({dest, src}) = Seen(dest, MostAxes({dest, src}))
  <1>. DEFINE n == MostAxes({dest, src})
              L(i) == Lengths({dest, src}, i)
              T(i) == Stretched(dest, n, i)
              f == BroadcastDims({dest, src})
  <1>1. n \in Nat /\ Len(dest.dims) <= n /\ \A i \in 1..n : Stretched(src, n, i) \in {1, T(i)}
    BY BothAxes
  <1>2. \A i \in 1..n : T(i) \in Nat
    <2>1. Seen(dest, n) \in Seq(Nat) /\ Len(Seen(dest, n)) = n
      BY <1>1, SeenPads
    <2>2. \A i \in 1..n : Seen(dest, n)[i] = T(i)
      BY DEF Seen
    <2>. HIDE DEF T, n
    <2>3. \A i \in 1..n : Seen(dest, n)[i] \in Nat
      BY <1>1, <2>1
    <2>. QED
      BY <2>2, <2>3
  <1>3. ASSUME NEW i \in 1..n
        PROVE  L(i) = IF T(i) = 1 THEN {} ELSE {T(i)}
    <2>1. L(i) = {Stretched(dest, n, i), Stretched(src, n, i)} \ {1}
      BY DEF Lengths
    <2>. QED
      BY <1>1, <2>1
  <1>4. f = [i \in 1..n |-> IF L(i) = {} THEN 1 ELSE Max(L(i))]
    BY DEF BroadcastDims
  <1>5. Broadcastable({dest, src}) <=> \A i \in 1..n : Cardinality(L(i)) <= 1
    BY DEF Broadcastable
  <1>. HIDE DEF n, L, T, f
  <1>6. \A i \in 1..n : Cardinality(L(i)) <= 1
    <2>1. Cardinality({}) = 0
      BY FS_EmptySet
    <2>2. \A i \in 1..n : Cardinality({T(i)}) = 1
      BY FS_Singleton
    <2>3. SUFFICES ASSUME NEW i \in 1..n  PROVE Cardinality(L(i)) <= 1
      OBVIOUS
    <2>4. Cardinality(L(i)) = 0 \/ Cardinality(L(i)) = 1
      BY <1>3, <2>1, <2>2
    <2>. QED
      BY <2>4
  <1>7. \A i \in 1..n : (IF L(i) = {} THEN 1 ELSE Max(L(i))) = T(i)
    <2>1. SUFFICES ASSUME NEW i \in 1..n  PROVE (IF L(i) = {} THEN 1 ELSE Max(L(i))) = T(i)
      OBVIOUS
    <2>2. Max({T(i)}) = T(i)
      <3>1. {T(i)} \in SUBSET Int /\ T(i) \in {T(i)} /\ \A y \in {T(i)} : T(i) >= y
        BY <1>2
      <3>. QED
        BY <3>1, MaxIs
    <2>. QED
      BY <1>3, <2>2
  <1>8. f = [i \in 1..n |-> T(i)]
    BY <1>4, <1>7
  <1>9. Seen(dest, n) = [i \in 1..n |-> T(i)]
    BY DEF Seen, T
  <1>10. f = Seen(dest, n) /\ Broadcastable({dest, src})
    BY <1>5, <1>6, <1>8, <1>9
  <1>. QED
    BY <1>10 DEF f, n

LEMMA BothMeet ==
  ASSUME NEW dest, NEW src, IsArray(dest), IsArray(src), Broadcastable({dest, src})
  PROVE  Meets(dest, BroadcastDims({dest, src})) /\ Meets(src, BroadcastDims({dest, src}))
  <1>. DEFINE p == <<dest, src>>
  <1>1. ToSet(p) = {dest, src}
    <2>1. DOMAIN p = 1..2 /\ p[1] = dest /\ p[2] = src
      OBVIOUS
    <2>. HIDE DEF p
    <2>2. ToSet(p) = {p[i] : i \in 1..2}
      BY <2>1 DEF ToSet
    <2>. QED
      BY <2>1, <2>2
  <1>2. p = <<p[1], p[2]>> /\ p[1] = dest /\ p[2] = src
    OBVIOUS
  <1>. HIDE DEF p
  <1>3. IsArray(p[1]) /\ IsArray(p[2]) /\ Broadcastable(ToSet(p))
    BY <1>1, <1>2
  <1>4. \A x \in {p[1], p[2]} : Meets(x, BroadcastDims(ToSet(p)))
    BY <1>2, <1>3, BroadcastMeets
  <1>. QED
    BY <1>1, <1>2, <1>4

\* A broadcast of dest's size, without empty axes, has dest's shape.
LEMMA BroadcastFits ==
  ASSUME NEW dest, NEW src, IsArray(dest), IsArray(src), Broadcastable({dest, src}),
         Product(BroadcastDims({dest, src})) = Product(dest.dims), Product(dest.dims) # 0
  PROVE  Fits(dest, src)
  <1>. DEFINE n == MostAxes({dest, src})
              f == BroadcastDims({dest, src})
              e == Seen(dest, n)
  <1>1. /\ n \in Nat /\ Len(dest.dims) <= n /\ Len(f) = n
        /\ Fits(dest, src) <=> \A i \in 1..n : Stretched(src, n, i) \in {1, Stretched(dest, n, i)}
    BY BothAxes
  <1>2. Meets(dest, f) /\ Meets(src, f)
    BY BothMeet
  <1>. HIDE DEF f, n
  <1>3. /\ f \in Seq(Nat)
        /\ \A i \in 1..n : Stretched(dest, n, i) \in {1, f[i]}
        /\ \A i \in 1..n : Stretched(src, n, i) \in {1, f[i]}
    BY <1>1, <1>2 DEF Meets
  <1>4. Padded(e, dest.dims) /\ e \in Seq(Nat) /\ Len(e) = n
    BY <1>1, SeenPads
  <1>5. \A i \in 1..n : e[i] = Stretched(dest, n, i)
    BY DEF Seen
  <1>. HIDE DEF e
  <1>6. Product(e) = Product(dest.dims)
    BY <1>4, PaddedProduct
  <1>7. Product(e) = Product(f) /\ Product(f) # 0
    BY <1>6 DEF f
  <1>8. Len(e) = Len(f) /\ \A i \in 1..Len(f) : e[i] \in {1, f[i]}
    BY <1>1, <1>3, <1>4, <1>5
  <1>9. \A i \in 1..Len(f) : e[i] = f[i]
    BY <1>3, <1>4, <1>7, <1>8, SameProduct
  <1>. QED
    BY <1>1, <1>3, <1>5, <1>9

-----------------------------------------------------------------------------
(* Copying an array into one it is broadcast to.                           *)

\* The loop of the copy, once the axis is chosen.
AlongBroadcast(m, dit, sit, axis) ==
  CopyAlong(m, WithoutAxis(dit, axis), dit.strides[axis],
               WithoutAxis(sit, axis), sit.strides[axis], dit.dims_m1[axis] + 1)

LEMMA BroadcastCopyIs ==
  ASSUME NEW m, NEW dest, NEW src, Broadcastable({dest, src}),
         Product(BroadcastDims({dest, src})) = Product(dest.dims),
         NEW dit, dit = BroadcastIter(dest, BroadcastDims({dest, src})),
         NEW sit, sit = BroadcastIter(src, BroadcastDims({dest, src}))
  PROVE  BroadcastCopy(m, dest, src) = AlongBroadcast(m, dit, sit, RemoveSmallest(dit, sit))
  <1>. DEFINE p == <<dest, src>>
              multi == MultiIterFromArrays(p)
  <1>1. DOMAIN p = 1..2 /\ p[1] = dest /\ p[2] = src
    OBVIOUS
  <1>2. ToSet(p) = {dest, src}
    <2>. HIDE DEF p
    <2>1. ToSet(p) = {p[i] : i \in 1..2}
      BY <1>1 DEF ToSet
    <2>. QED
      BY <1>1, <2>1
  <1>3. multi[1] = dit /\ multi[2] = sit
    <2>. HIDE DEF p
    <2>1. multi = [i \in 1..2 |-> BroadcastIter(p[i], BroadcastDims({dest, src}))]
      BY <1>1, <1>2 DEF MultiIterFromArrays
    <2>. QED
      BY <1>1, <2>1
  <1>4. BroadcastCopy(m, dest, src)
          = AlongBroadcast(m, multi[1], multi[2], RemoveSmallest(multi[1], multi[2]))
    BY Zenon DEF BroadcastCopy, AlongBroadcast
  <1>. QED
    BY <1>3, <1>4

LEMMA BroadcastCopyFills ==
  ASSUME NEW dest, NEW src, IsArray(dest), IsArray(src), Len(src.dims) # 0,
         Broadcastable({dest, src}),
         NEW dims, dims = BroadcastDims({dest, src}), Product(dims) = Product(dest.dims),
         NEW m, Over(m, m), Clean(Matched(dest, src, dims), DOMAIN m)
  PROVE  Fills(BroadcastCopy(m, dest, src), m, Matched(dest, src, dims))
  <1>. DEFINE n    == Len(dims)
              dit  == BroadcastIter(dest, dims)
              sit  == BroadcastIter(src, dims)
              axis == RemoveSmallest(dit, sit)
  <1>1. Meets(dest, dims) /\ Meets(src, dims)
    BY BothMeet
  <1>2. dims \in Seq(Nat) /\ n \in Nat /\ n # 0
    <2>1. Len(src.dims) \in Nat /\ Len(src.dims) <= n /\ dims \in Seq(Nat)
      BY <1>1 DEF Meets, IsArray
    <2>. QED
      BY <2>1
  <1>3. /\ dit.strides = StridesFor(dest, dims) /\ dit.dims_m1 = Ends(dims)
        /\ sit.strides = StridesFor(src, dims)
    <2>. HIDE DEF dit, sit
    <2>1. Walks(dit, dest, dims) /\ Walks(sit, src, dims)
      BY <1>1, NewWalks DEF dit, sit
    <2>. QED
      BY <2>1, WalksFields
  <1>4. BroadcastCopy(m, dest, src) = AlongBroadcast(m, dit, sit, axis)
    BY BroadcastCopyIs
  <1>. HIDE DEF dit, sit
  <1>5. axis \in 1..n
    <2>1. dit.strides \in [1..n -> Int] /\ sit.strides \in [1..n -> Int]
      BY <1>1, <1>3, StridesForType
    <2>. HIDE DEF n
    <2>. QED
      BY <1>2, <2>1, RemoveSmallestIn
  <1>. HIDE DEF axis
  <1>6. dit.dims_m1[axis] + 1 = dims[axis]
    <2>1. Ends(dims)[axis] = dims[axis] - 1 /\ dims[axis] \in Nat
      BY <1>2, <1>5 DEF Ends
    <2>. QED
      BY <1>3, <2>1
  <1>7. BroadcastCopy(m, dest, src)
          = CopyAlong(m, WithoutAxis(dit, axis), StridesFor(dest, dims)[axis],
                         WithoutAxis(sit, axis), StridesFor(src, dims)[axis], dims[axis])
    BY <1>3, <1>4, <1>6 DEF AlongBroadcast
  <1>8. Fills(CopyAlong(m, WithoutAxis(dit, axis), StridesFor(dest, dims)[axis],
                           WithoutAxis(sit, axis), StridesFor(src, dims)[axis], dims[axis]),
              m, Matched(dest, src, dims))
    <2>1. axis \in 1..Len(dims)
      BY <1>5
    <2>. QED
      BY <1>1, <2>1, CopyAxis DEF dit, sit
  <1>. QED
    BY <1>7, <1>8

-----------------------------------------------------------------------------
(* What fits is copied as promised.                                        *)

\* dest and src of a copy in the memory m.
CopyOf(dest, src, m) ==
  /\ IsArray(dest) /\ IsArray(src) /\ Apart(dest, src)
  /\ Footprint(dest) \subseteq DOMAIN m /\ Footprint(src) \subseteq DOMAIN m
  /\ Over(m, m)

LEMMA FitsMatched ==
  ASSUME NEW dest, NEW src, IsArray(dest), IsArray(src), Fits(dest, src),
         NEW dims, dims = BroadcastDims({dest, src})
  PROVE  /\ Broadcastable({dest, src}) /\ Meets(dest, dims) /\ Meets(src, dims)
         /\ Product(dims) = Product(dest.dims)
         /\ Matched(dest, src, dims) = Matched(dest, src, dest.dims)
  <1>. DEFINE n == MostAxes({dest, src})
  <1>1. Broadcastable({dest, src}) /\ dims = Seen(dest, n)
    BY FitsBroadcasts
  <1>2. Meets(dest, dims) /\ Meets(src, dims)
    BY <1>1, BothMeet
  <1>3. Padded(dims, dest.dims)
    <2>1. n \in Nat /\ Len(dest.dims) <= n
      BY BothAxes
    <2>. HIDE DEF n
    <2>. QED
      BY <1>1, <2>1, SeenPads
  <1>4. Product(dims) = Product(dest.dims)
    BY <1>3, PaddedProduct
  <1>5. Matched(dest, src, dims) = Matched(dest, src, dest.dims)
    BY <1>2, <1>3, PaddedMatched
  <1>. QED
    BY <1>1, <1>2, <1>4, <1>5

LEMMA CleanCopies ==
  ASSUME NEW dest, NEW src, NEW m, CopyOf(dest, src, m), Fits(dest, src)
  PROVE  Clean(Matched(dest, src, dest.dims), DOMAIN m)
  <1>. DEFINE T == Matched(dest, src, dest.dims)
              f == BroadcastDims({dest, src})
  <1>1. IsArray(dest) /\ IsArray(src) /\ Apart(dest, src)
    BY DEF CopyOf
  <1>2. Footprint(dest) \subseteq DOMAIN m /\ Footprint(src) \subseteq DOMAIN m
    BY DEF CopyOf
  <1>3. Meets(dest, f) /\ Meets(src, f) /\ Matched(dest, src, f) = T
    BY <1>1, FitsMatched
  <1>. HIDE DEF f
  <1>4. ASSUME NEW r \in T  PROVE r[1] \in Footprint(dest) /\ r[2] \in Footprint(src)
    <2>1. PICK c \in Coordinates(f) : r = <<AddressOf(dest, c), AddressOf(src, c)>>
      BY <1>3 DEF Matched
    <2>2. AddressOf(dest, c) \in Footprint(dest)
      BY <1>3, OwnElement
    <2>3. AddressOf(src, c) \in Footprint(src)
      BY <1>3, OwnElement
    <2>. QED
      BY <2>1, <2>2, <2>3
  <1>5. \A r \in T : r[1] \in DOMAIN m /\ r[2] \in DOMAIN m
    BY <1>2, <1>4
  <1>6. \A r, t \in T : r[1] # t[2]
    <2>1. Footprint(dest) \cap Footprint(src) = {}
      BY <1>1 DEF Apart
    <2>. HIDE DEF T
    <2>. QED
      BY <1>4, <2>1
  <1>7. ASSUME NEW r \in T, NEW t \in T, r[1] = t[1]  PROVE r[2] = t[2]
    <2>1. PICK c \in Coordinates(dest.dims) : r = <<AddressOf(dest, c), AddressOf(src, c)>>
      BY DEF Matched
    <2>2. PICK d \in Coordinates(dest.dims) : t = <<AddressOf(dest, d), AddressOf(src, d)>>
      BY DEF Matched
    <2>3. AddressOf(dest, c) = AddressOf(dest, d)
      BY <1>7, <2>1, <2>2
    <2>4. dest.dims \in Seq(Nat)
      BY <1>1 DEF IsArray
    <2>5. AllCoords(dest.dims) = Coordinates(dest.dims)
      BY <2>4, AllCoordsAre
    <2>6. c = d
      BY <1>1, <2>3, <2>5 DEF Apart
    <2>. QED
      BY <2>1, <2>2, <2>6
  <1>. HIDE DEF T
  <1>8. Clean(T, DOMAIN m)
    BY <1>5, <1>6, <1>7 DEF Clean
  <1>. QED
    BY <1>8 DEF T

\* The reference: Copied moves every element.
LEMMA CopiedFills ==
  ASSUME NEW dest, NEW src, NEW m, CopyOf(dest, src, m), Fits(dest, src)
  PROVE  Fills(Copied(m, dest, src), m, Matched(dest, src, dest.dims))
  <1>. DEFINE T == Matched(dest, src, dest.dims)
              here(x) == {c \in AllCoords(dest.dims) : AddressOf(dest, c) = x}
              w == Copied(m, dest, src)
  <1>1. w = [x \in DOMAIN m |-> IF here(x) = {} THEN m[x]
                                ELSE m[AddressOf(src, CHOOSE c \in here(x) : TRUE)]]
    BY Zenon DEF Copied
  <1>2. AllCoords(dest.dims) = Coordinates(dest.dims)
    <2>1. dest.dims \in Seq(Nat)
      BY DEF CopyOf, IsArray
    <2>. QED
      BY <2>1, AllCoordsAre
  <1>3. Clean(T, DOMAIN m)
    BY CleanCopies
  <1>. HIDE DEF w
  <1>4. Over(w, m)
    BY <1>1 DEF Over
  <1>5. ASSUME NEW r \in T  PROVE w[r[1]] = m[r[2]]
    <2>1. PICK c \in Coordinates(dest.dims) : r = <<AddressOf(dest, c), AddressOf(src, c)>>
      BY DEF Matched
    <2>2. r[1] \in DOMAIN m
      BY <1>3 DEF Clean
    <2>3. c \in here(r[1])
      BY <1>2, <2>1
    <2>. DEFINE e == CHOOSE e \in here(r[1]) : TRUE
    <2>4. e \in here(r[1])
      BY <2>3
    <2>5. w[r[1]] = m[AddressOf(src, e)]
      BY <1>1, <2>2, <2>3
    <2>. HIDE DEF e
    <2>6. e \in Coordinates(dest.dims) /\ AddressOf(dest, e) = r[1]
      BY <1>2, <2>4
    <2>. DEFINE t == <<AddressOf(dest, e), AddressOf(src, e)>>
    <2>7. t \in T /\ t[1] = r[1] /\ t[2] = AddressOf(src, e)
      BY <2>6 DEF Matched
    <2>. HIDE DEF t, T
    <2>8. r[2] = t[2]
      BY <1>3, <1>5, <2>7 DEF Clean
    <2>. QED
      BY <2>5, <2>7, <2>8
  <1>6. ASSUME NEW x \in DOMAIN m, \A r \in T : r[1] # x  PROVE w[x] = m[x]
    <2>1. ASSUME NEW c \in Coordinates(dest.dims)  PROVE AddressOf(dest, c) # x
      <3>. DEFINE t == <<AddressOf(dest, c), AddressOf(src, c)>>
      <3>1. t \in T /\ t[1] = AddressOf(dest, c)
        BY DEF Matched
      <3>. HIDE DEF t, T
      <3>. QED
        BY <1>6, <3>1
    <2>2. here(x) = {}
      BY <1>2, <2>1
    <2>. QED
      BY <1>1, <2>2
  <1>. HIDE DEF T
  <1>7. Fills(w, m, T)
    BY <1>4, <1>5, <1>6 DEF Fills
  <1>. QED
    BY <1>7 DEF w, T

LEMMA SameFits ==
  ASSUME NEW dest, NEW src, IsArray(dest), IsArray(src), dest.dims = src.dims \/ src.dims = <<>>
  PROVE  Fits(dest, src)
  <1>. DEFINE n == MostAxes({dest, src})
  <1>1. Fits(dest, src) <=> \A i \in 1..n : Stretched(src, n, i) \in {1, Stretched(dest, n, i)}
    BY BothAxes
  <1>2. CASE dest.dims = src.dims
    <2>1. \A i \in 1..n : Stretched(src, n, i) = Stretched(dest, n, i)
      BY <1>2 DEF Stretched
    <2>. QED
      BY <1>1, <2>1
  <1>3. CASE src.dims = <<>>
    <2>1. n \in Nat /\ Len(src.dims) = 0
      BY <1>3, BothAxes
    <2>. HIDE DEF n
    <2>2. ASSUME NEW i \in 1..n  PROVE Stretched(src, n, i) = 1
      <3>1. ~(i + Len(src.dims) - n > 0)
        BY <2>1
      <3>. QED
        BY <3>1 DEF Stretched
    <2>. QED
      BY <1>1, <2>2 DEF n
  <1>. QED
    BY <1>2, <1>3

Simple(dest, src) ==
  dest.dims = src.dims /\ \/ IsContiguous(src) /\ IsContiguous(dest)
                          \/ IsFortranContiguous(src) /\ IsFortranContiguous(dest)

BlockCopy(m, dest, src, n) ==
  Write(m, [k \in 1..n |-> dest.data + k - 1], [k \in 1..n |-> m[src.data + k - 1]])

LEMMA CopyIntoIs ==
  ASSUME NEW m, NEW dest, NEW src
  PROVE  CopyInto(m, dest, src)
           = CASE Simple(dest, src) -> BlockCopy(m, dest, src, Product(dest.dims))
               [] ~Simple(dest, src) /\ src.dims = <<>> -> CopyFrom0d(m, dest, src)
               [] ~Simple(dest, src) /\ src.dims # <<>> /\ dest.dims = src.dims
                    -> CopySameShape(m, dest, src)
               [] OTHER -> BroadcastCopy(m, dest, src)
  BY Zenon DEF CopyInto, Simple, BlockCopy

\* The block copy, the 0-d, the same-shape and the broadcast loops.
LEMMA CopyIntoFills ==
  ASSUME NEW dest, NEW src, NEW m, CopyOf(dest, src, m), Fits(dest, src)
  PROVE  Fills(CopyInto(m, dest, src), m, Matched(dest, src, dest.dims))
  <1>. DEFINE T == Matched(dest, src, dest.dims)
  <1>1. IsArray(dest) /\ IsArray(src) /\ Over(m, m)
    BY DEF CopyOf
  <1>2. Clean(T, DOMAIN m)
    BY CleanCopies
  <1>3. dest.dims \in Seq(Nat) /\ src.dims \in Seq(Nat) /\ Len(src.dims) \in Nat
        /\ dest.data \in Int /\ src.data \in Int /\ (Len(src.dims) = 0 => src.dims = <<>>)
    BY <1>1 DEF IsArray
  <1>4. CASE Simple(dest, src)
    <2>. DEFINE n == Product(dest.dims)
    <2>1. CopyInto(m, dest, src) = BlockCopy(m, dest, src, n)
      BY <1>4, CopyIntoIs
    <2>2. T = Block(dest.data, src.data, n)
      <3>1. src.dims = dest.dims /\ \/ IsContiguous(src) /\ IsContiguous(dest)
                                    \/ IsFortranContiguous(src) /\ IsFortranContiguous(dest)
        BY <1>4 DEF Simple
      <3>. QED
        BY <1>1, <3>1, BlocksMatch
    <2>3. n \in Nat
      BY <1>3, BelowStep
    <2>. HIDE DEF n, T
    <2>4. Fills(BlockCopy(m, dest, src, n), m, Block(dest.data, src.data, n))
      BY <1>1, <1>2, <1>3, <2>2, <2>3, WriteBlock DEF BlockCopy
    <2>. QED
      BY <2>1, <2>2, <2>4 DEF T
  <1>5. CASE ~Simple(dest, src) /\ src.dims = <<>>
    <2>1. CopyInto(m, dest, src) = CopyFrom0d(m, dest, src)
      BY <1>5, CopyIntoIs
    <2>2. Fills(CopyFrom0d(m, dest, src), m, T)
      BY <1>1, <1>2, <1>5, Copy0dFills
    <2>. QED
      BY <2>1, <2>2
  <1>6. CASE ~Simple(dest, src) /\ src.dims # <<>> /\ dest.dims = src.dims
    <2>1. CopyInto(m, dest, src) = CopySameShape(m, dest, src)
      BY <1>6, CopyIntoIs
    <2>2. Fills(CopySameShape(m, dest, src), m, T)
      <3>1. Len(dest.dims) # 0 /\ src.dims = dest.dims
        BY <1>3, <1>6
      <3>. QED
        BY <1>1, <1>2, <3>1, CopySameFills
    <2>. QED
      BY <2>1, <2>2
  <1>7. CASE ~Simple(dest, src) /\ src.dims # <<>> /\ dest.dims # src.dims
    <2>. DEFINE f == BroadcastDims({dest, src})
    <2>1. CopyInto(m, dest, src) = BroadcastCopy(m, dest, src)
      BY <1>7, CopyIntoIs
    <2>2. /\ Broadcastable({dest, src}) /\ Product(f) = Product(dest.dims)
          /\ Matched(dest, src, f) = T
      BY <1>1, FitsMatched
    <2>3. Len(src.dims) # 0
      BY <1>3, <1>7
    <2>. HIDE DEF f, T
    <2>4. Clean(Matched(dest, src, f), DOMAIN m)
      BY <1>2, <2>2
    <2>5. Fills(BroadcastCopy(m, dest, src), m, Matched(dest, src, f))
      BY <1>1, <2>2, <2>3, <2>4, BroadcastCopyFills DEF f
    <2>. QED
      BY <2>1, <2>2, <2>5 DEF T
  <1>. QED
    BY <1>4, <1>5, <1>6, <1>7

\* Shapes that do not fit leave the memory alone: the copy is refused, or there
\* is nothing to copy.
LEMMA NoFitNoCopy ==
  ASSUME NEW dest, NEW src, NEW m, CopyOf(dest, src, m), ~Fits(dest, src)
  PROVE  CopyInto(m, dest, src) = m
  <1>. DEFINE f == BroadcastDims({dest, src})
  <1>1. IsArray(dest) /\ IsArray(src) /\ Over(m, m)
    BY DEF CopyOf
  <1>2. dest.dims # src.dims /\ src.dims # <<>>
    BY <1>1, SameFits
  <1>3. CopyInto(m, dest, src) = BroadcastCopy(m, dest, src)
    BY <1>2, CopyIntoIs DEF Simple
  <1>4. CASE ~Broadcastable({dest, src}) \/ Product(f) # Product(dest.dims)
    <2>1. BroadcastCopy(m, dest, src) = m
      BY Zenon, <1>4 DEF BroadcastCopy
    <2>. QED
      BY <1>3, <2>1
  <1>5. CASE Broadcastable({dest, src}) /\ Product(f) = Product(dest.dims)
    <2>1. Product(dest.dims) = 0
      BY <1>1, <1>5, BroadcastFits
    <2>2. Len(src.dims) # 0
      BY <1>1, <1>2 DEF IsArray
    <2>3. f \in Seq(Nat)
      <3>1. Meets(dest, f)
        BY <1>1, <1>5, BothMeet
      <3>. HIDE DEF f
      <3>. QED
        BY <3>1 DEF Meets
    <2>. HIDE DEF f
    <2>4. Matched(dest, src, f) = {}
      BY <1>5, <2>1, <2>3, NothingMatched
    <2>5. Clean(Matched(dest, src, f), DOMAIN m)
      BY <2>4 DEF Clean
    <2>6. Fills(BroadcastCopy(m, dest, src), m, {})
      <3>1. Fills(BroadcastCopy(m, dest, src), m, Matched(dest, src, f))
        BY <1>1, <1>5, <2>2, <2>5, BroadcastCopyFills DEF f
      <3>. QED
        BY <2>4, <3>1
    <2>7. Fills(m, m, {})
      BY <1>1, FillsNone
    <2>. QED
      BY <1>3, <2>6, <2>7, FillsSame
  <1>. QED
    BY <1>4, <1>5

LEMMA CopyIsCopied ==
  ASSUME NEW dest, NEW src, NEW m, CopyOf(dest, src, m)
  PROVE  CopyInto(m, dest, src) = Copied(m, dest, src)
  <1>1. CASE Fits(dest, src)
    <2>1. Fills(CopyInto(m, dest, src), m, Matched(dest, src, dest.dims))
      BY <1>1, CopyIntoFills
    <2>2. Fills(Copied(m, dest, src), m, Matched(dest, src, dest.dims))
      BY <1>1, CopiedFills
    <2>. QED
      BY <2>1, <2>2, FillsSame
  <1>2. CASE ~Fits(dest, src)
    <2>1. Copied(m, dest, src) = m
      BY <1>2 DEF Copied
    <2>. QED
      BY <1>2, <2>1, NoFitNoCopy
  <1>. QED
    BY <1>1, <1>2

-----------------------------------------------------------------------------
(* The copies of a program.                                                *)

LEMMA CopiesAreInMemory ==
  ASSUME NEW p \in Copies, NEW m, Over(m, m), DOMAIN m = 0..(MemSize - 1)
  PROVE  CopyOf(p[1], p[2], m)
  BY CopiesAssumption, MemoryAssumption DEF CopyOf

LEMMA CopyFollows == MemInv => CopyAsPromised
  <1>. SUFFICES ASSUME MemInv, writes = 0, NEW p \in Copies
                PROVE  CopyInto(mem, p[1], p[2]) = Copied(mem, p[1], p[2])
    BY DEF CopyAsPromised, Untouched
  <1>1. mem = [x \in 0..(MemSize - 1) |-> x]
    BY DEF MemInv
  <1>2. Over(mem, mem) /\ DOMAIN mem = 0..(MemSize - 1)
    BY <1>1 DEF Over
  <1>. QED
    BY <1>2, CopiesAreInMemory, CopyIsCopied

-----------------------------------------------------------------------------
(* The memory, and the pointers into it.                                   *)

LEMMA AddressHoused ==
  ASSUME NEW it, NEW moved, Placed(it, moved), NEW n \in 0..(it.size - 1)
  PROVE  AddressAt(it, n) \in Footprint(it.ao)
  <1>. DEFINE dims == Shape(it)
  <1>1. Meets(it.ao, dims) /\ it.size = Product(dims) /\ dims \in Seq(Nat)
    BY PlacedFields DEF Placed
  <1>. HIDE DEF dims
  <1>2. CoordsAt(dims, n) \in Coordinates(dims)
    BY <1>1, CoordsAtDigits
  <1>3. AddressOf(it.ao, CoordsAt(dims, n)) \in Footprint(it.ao)
    BY <1>1, <1>2, OwnElement
  <1>. QED
    BY <1>3 DEF AddressAt, dims

\* The iterator's array is in the memory, and its pointer is a number.
Housed(it) == it.dataptr \in Int /\ Footprint(it.ao) \subseteq 0..(MemSize - 1)

LEMMA HousedReset ==
  ASSUME NEW it, NEW moved, Placed(it, moved), Housed(it)
  PROVE  Housed(ITER_RESET(it))
  <1>1. SameWalk(ITER_RESET(it), it)
    <2>1. TRUE \in BOOLEAN
      OBVIOUS
    <2>. QED
      BY <2>1, PlacedReset
  <1>2. ITER_RESET(it) = BroadcastIter(it.ao, Shape(it)) /\ Meets(it.ao, Shape(it))
    BY ResetIsNew DEF Placed
  <1>3. BroadcastIter(it.ao, Shape(it)).dataptr = it.ao.data
    BY DEF BroadcastIter, Walk
  <1>4. it.ao.data \in Int
    BY <1>2 DEF Meets, IsArray
  <1>. QED
    BY <1>1, <1>2, <1>3, <1>4 DEF Housed, SameWalk

LEMMA HousedNext ==
  ASSUME NEW it, NEW moved \in BOOLEAN, Placed(it, moved), Housed(it)
  PROVE  Housed(IterNext(it)) /\ Fetched(it) \in Int \cup {None}
  <1>. DEFINE a    == it.ao
              dims == Shape(it)
              s    == StridesFor(a, dims)
              n    == Len(dims)
              dp   == it.dataptr
              next == ITER_NEXT(it)
  <1>1. Meets(a, dims) /\ Walks(it, a, dims) /\ dims \in Seq(Nat) /\ n \in Nat /\ dp \in Int
    BY PlacedFields DEF Placed, Housed
  <1>2. Fetched(it) \in Int \cup {None}
    BY <1>1 DEF Fetched
  <1>3. SameWalk(IterNext(it), it)
    BY PlacedNext
  <1>. HIDE DEF a, dims
  <1>4. s \in [1..n -> Int]
    BY <1>1, StridesForType
  <1>. HIDE DEF n, s
  <1>5. ASSUME n = 1  PROVE next.dataptr \in Int
    <2>. DEFINE d == dp + s[1]
                c == [it.coordinates EXCEPT ![1] = @ + 1]
                j == it.index + 1
    <2>1. next = Moved(it, j, d, c)
      BY <1>1, <1>5, NextIs DEF n, s
    <2>2. d \in Int
      BY <1>1, <1>4, <1>5
    <2>. HIDE DEF d, c, j, next, dp
    <2>3. next.dataptr = d
      BY <1>1, <2>1, MovedWalks
    <2>. QED
      BY <2>2, <2>3
  <1>6. ASSUME n # 1, Contig(a, dims)  PROVE next.dataptr \in Int
    <2>. DEFINE d == dp + 1
                c == it.coordinates
                j == it.index + 1
    <2>1. next = Moved(it, j, d, c)
      BY <1>1, <1>6, NextIs DEF n
    <2>2. d \in Int
      BY <1>1
    <2>. HIDE DEF d, c, j, next, dp
    <2>3. next.dataptr = d
      BY <1>1, <2>1, MovedWalks
    <2>. QED
      BY <2>2, <2>3
  <1>7. ASSUME n # 1, ~Contig(a, dims)  PROVE next.dataptr \in Int
    <2>. DEFINE k == NextAxis(it)
                back == After(Back(dims, s), n, k)
                way == IF k = 0 THEN 0 ELSE s[k]
                d == dp - back + way
                c == Onwards(it.coordinates, k)
                j == it.index + 1
    <2>0. next = Odometer([it EXCEPT !.index = @ + 1])
      BY <1>1, <1>7, NextIs DEF n
    <2>1. next = Moved(it, j, d, c)
      <3>1. Odometer([it EXCEPT !.index = @ + 1])
              = Moved(it, it.index + 1, it.dataptr - After(Back(dims, s), n, k)
                        + (IF k = 0 THEN 0 ELSE s[k]), Onwards(it.coordinates, k))
        BY <1>1, OdometerIs DEF n, s
      <3>. HIDE DEF next
      <3>. QED
        BY <2>0, <3>1
    <2>2. k \in 0..n
      <3>. DEFINE inside == {i \in DOMAIN it.dims_m1 : it.coordinates[i] < it.dims_m1[i]}
                  first  == IF Len(it.dims_m1) = 2 THEN 1 ELSE 0
      <3>1. it.dims_m1 = Ends(dims) /\ Len(it.dims_m1) = n
        BY <1>1, WalksFields, ShapeIs DEF n
      <3>2. DOMAIN it.dims_m1 = 1..n
        BY <3>1 DEF Ends, n
      <3>3. inside \cup {first} \in SUBSET (0..n) /\ inside \cup {first} # {}
        BY <1>1, <3>1, <3>2
      <3>4. k = Max(inside \cup {first})
        BY DEF NextAxis
      <3>. HIDE DEF inside, first, k
      <3>5. Max(inside \cup {first}) \in inside \cup {first}
        BY <1>1, <3>3, MaxOf DEF n
      <3>. QED
        BY <3>3, <3>4, <3>5
    <2>. HIDE DEF k
    <2>3. back \in Int
      <3>1. \A i \in 1..n : Back(dims, s)[i] \in Int
        <4>1. \A i \in 1..n : Back(dims, s)[i] = s[i] * (dims[i] - 1)
          BY DEF Back, n
        <4>2. \A i \in 1..n : dims[i] \in Nat /\ s[i] \in Int
          BY <1>1, <1>4 DEF n
        <4>. QED
          BY <4>1, <4>2
      <3>. DEFINE f == Back(dims, s)
      <3>2. Terms(f, n)
        BY <1>1, <3>1 DEF Terms
      <3>. HIDE DEF f
      <3>3. After(f, n, k) \in Int
        BY <2>2, <3>2, AfterStep
      <3>. QED
        BY <3>3 DEF f
    <2>4. way \in Int
      BY <1>4, <2>2
    <2>5. d \in Int
      <3>. HIDE DEF back, way, dp
      <3>. QED
        BY <1>1, <2>3, <2>4
    <2>. HIDE DEF d, c, j, next, dp
    <2>6. next.dataptr = d
      BY <1>1, <2>1, MovedWalks
    <2>. QED
      BY <2>5, <2>6
  <1>8. IterNext(it).dataptr \in Int
    <2>1. next.dataptr \in Int
      BY <1>5, <1>6, <1>7
    <2>2. IterNext(it) = next \/ IterNext(it) = it
      BY DEF IterNext
    <2>. HIDE DEF next
    <2>. QED
      BY <1>1, <2>1, <2>2
  <1>. QED
    BY <1>2, <1>3, <1>8 DEF Housed, SameWalk

LEMMA HousedGoto ==
  ASSUME NEW it, NEW moved, Placed(it, moved), Housed(it),
         NEW n \in 0..(it.size - 1)
  PROVE  Housed(ITER_GOTO1D(it, n)) /\ ITER_GOTO1D(it, n).dataptr \in 0..(MemSize - 1)
  <1>1. SameWalk(ITER_GOTO1D(it, n), it) /\ ITER_GOTO1D(it, n).dataptr = AddressAt(it, n)
    BY PlacedGoto
  <1>2. AddressAt(it, n) \in 0..(MemSize - 1)
    BY AddressHoused DEF Housed
  <1>3. ITER_GOTO1D(it, n).dataptr \in Int
    BY <1>1, <1>2
  <1>. QED
    BY <1>1, <1>2, <1>3 DEF Housed, SameWalk

LEMMA HousedCoords ==
  ASSUME NEW it, NEW moved \in BOOLEAN, Placed(it, moved), Housed(it)
  PROVE  Housed(IterCoords(it))
  <1>1. SameWalk(IterCoords(it), it)
    BY PlacedCoords
  <1>2. IterCoords(it).dataptr = it.dataptr
    <2>. DEFINE c == Digits(it.factors, it.index)
    <2>1. IterCoords(it) = [it EXCEPT !.coordinates = c] \/ IterCoords(it) = it
      BY DEF IterCoords
    <2>. HIDE DEF c
    <2>2. [it EXCEPT !.coordinates = c].dataptr = it.dataptr
      <3>1. Walks(it, it.ao, Shape(it))
        BY DEF Placed
      <3>2. it = [ao |-> it.ao, index |-> it.index, size |-> it.size, coordinates |-> it.coordinates,
                  dims_m1 |-> it.dims_m1, strides |-> it.strides, backstrides |-> it.backstrides,
                  factors |-> it.factors, dataptr |-> it.dataptr, contiguous |-> it.contiguous]
        BY <3>1, WalksFields DEF Walks
      <3>. DEFINE dp == it.dataptr
      <3>3. "dataptr" \in DOMAIN it /\ "dataptr" # "coordinates"
        BY <3>2
      <3>. QED
        BY <3>3
    <2>. QED
      BY <2>1, <2>2
  <1>. QED
    BY <1>1, <1>2 DEF Housed, SameWalk

LEMMA HowManyDone ==
  ASSUME NEW it, NEW moved \in BOOLEAN, Placed(it, moved), NEW ix, IsIndex(ix), ~Refused(it, ix),
         ix.kind # "intp"
  PROVE  \E c \in Nat : DOMAIN Pointers(it, ix) = 1..c
  <1>1. CASE ix.kind # "list"
    <2>1. ~IndexFails(it, ix)
      BY <1>1 DEF IndexFails
    <2>. QED
      BY <2>1, HowManyPointers
  <1>2. CASE ix.kind = "list"
    <2>. DEFINE n   == Len(ix.list)
                bad == {j \in DOMAIN ix.list : ~InBounds(it, ix.list[j])}
    <2>1. n \in Nat /\ DOMAIN ix.list = 1..n
      BY <1>2 DEF IsIndex
    <2>2. bad \cup {n + 1} \in SUBSET Nat /\ bad \cup {n + 1} # {} /\ 0 \notin bad \cup {n + 1}
      BY <2>1
    <2>3. Good(it, ix) = Min(bad \cup {n + 1}) - 1
      BY <1>2 DEF Good
    <2>. HIDE DEF bad, n
    <2>4. Min(bad \cup {n + 1}) \in bad \cup {n + 1}
      BY <2>2, MinIn
    <2>5. Good(it, ix) \in Nat
      BY <2>2, <2>3, <2>4
    <2>6. DOMAIN Pointers(it, ix) = 1..Good(it, ix)
      BY <1>2 DEF Pointers
    <2>. QED
      BY <2>5, <2>6
  <1>. QED
    BY <1>1, <1>2

\* Writing through an index, or up to the bad index of a list, keeps the memory's addresses.
LEMMA AssignKeeps ==
  ASSUME NEW it, NEW moved \in BOOLEAN, Placed(it, moved), NEW ix, IsIndex(ix), ~Refused(it, ix),
         ix.kind # "intp", NEW m, Over(m, m), NEW value, value # <<>>,
         NEW w, w = IterSubscriptAssign(m, it, ix, value)
  PROVE  Over(w, w) /\ DOMAIN w = DOMAIN m
  <1>. DEFINE at == Pointers(it, ix)
              values == Cycled(value, Len(at))
  <1>1. PICK c \in Nat : DOMAIN at = 1..c
    BY HowManyDone
  <1>2. w = Write(m, at, values)
    BY DEF IterSubscriptAssign
  <1>3. m = [x \in DOMAIN m |-> m[x]]
    BY DEF Over
  <1>. HIDE DEF at, values
  <1>4. w = Written(m, at, values, c)
    BY <1>1, <1>2, <1>3, WriteLeaves
  <1>. QED
    BY <1>4 DEF Written, Over

LEMMA CopyKeeps ==
  ASSUME NEW dest, NEW src, NEW m, CopyOf(dest, src, m)
  PROVE  Over(CopyInto(m, dest, src), CopyInto(m, dest, src)) /\ DOMAIN CopyInto(m, dest, src) = DOMAIN m
  <1>. DEFINE w == Copied(m, dest, src)
  <1>1. CopyInto(m, dest, src) = w
    BY CopyIsCopied
  <1>2. Over(w, m)
    <2>1. CASE Fits(dest, src)
      BY <2>1, CopiedFills DEF Fills
    <2>2. CASE ~Fits(dest, src)
      <3>1. w = m
        BY <2>2 DEF Copied
      <3>. QED
        BY <3>1 DEF CopyOf
    <2>. QED
      BY <2>1, <2>2
  <1>. HIDE DEF w
  <1>3. Over(w, w) /\ DOMAIN w = DOMAIN m
    <2>1. w = [x \in DOMAIN m |-> w[x]]
      BY <1>2 DEF Over
    <2>2. DOMAIN w = DOMAIN m
      BY <2>1
    <2>. QED
      BY <2>1, <2>2 DEF Over
  <1>. QED
    BY <1>1, <1>3

-----------------------------------------------------------------------------
(* The invariant: the memory keeps its addresses, the sessions their       *)
(* arrays, and the counters their bounds.                                  *)

MemOK == Over(mem, mem) /\ DOMAIN mem = 0..(MemSize - 1)

WalksOK ==
  /\ current = [k \in Sessions |-> current[k]]
  /\ \A k \in Sessions : Housed(iters[k]) /\ current[k] \in Int \cup {None}

CountsOK ==
  /\ jumped \subseteq Sessions /\ writes \in 0..MaxWrites /\ parted \in 0..MaxParted
  /\ 1 \in Sessions /\ since \in {-1, 0} /\ index \in Int
  /\ index - since \in 0..(iters[1].size + 1)

TypeInv == MemOK /\ WalksOK /\ CountsOK

LEMMA InitType == Init => TypeInv
  <1>. SUFFICES ASSUME Init  PROVE TypeInv
    OBVIOUS
  <1>0. /\ mem = [x \in 0..(MemSize - 1) |-> x] /\ current = [k \in Sessions |-> None]
        /\ index = 0 /\ since = 0 /\ parted = 0 /\ writes = 0 /\ jumped = {}
    BY DEF Init, Sessions
  <1>1. MemOK
    BY <1>0 DEF MemOK, Over
  <1>2. ASSUME NEW a \in FlatArrays, iters = <<IterNew(a)>>
        PROVE  1 \in Sessions /\ \A k \in Sessions : Housed(iters[k])
    <2>1. IsArray(a) /\ Footprint(a) \subseteq 0..(MemSize - 1)
      BY ArraysAssumption, MemoryAssumption
    <2>2. IterNew(a).ao = a /\ IterNew(a).dataptr = a.data
      BY DEF IterNew, Walk
    <2>3. DOMAIN iters = {1} /\ iters[1] = IterNew(a)
      BY <1>2
    <2>4. Housed(IterNew(a))
      BY <2>1, <2>2 DEF Housed, IsArray
    <2>. QED
      BY <2>3, <2>4 DEF Sessions
  <1>3. ASSUME NEW p \in Pairs, iters = MultiIterFromArrays(p)
        PROVE  1 \in Sessions /\ \A k \in Sessions : Housed(iters[k])
    <2>. DEFINE dims == BroadcastDims(ToSet(p))
    <2>1. iters = [i \in 1..2 |-> BroadcastIter(p[i], dims)]
      BY <1>3, MultiPlaced
    <2>. HIDE DEF dims
    <2>2. ASSUME NEW k \in 1..2  PROVE Housed(BroadcastIter(p[k], dims))
      <3>1. IsArray(p[k]) /\ Footprint(p[k]) \subseteq 0..(MemSize - 1)
        <4>1. k = 1 \/ k = 2
          OBVIOUS
        <4>2. IsArray(p[1]) /\ IsArray(p[2])
          BY ArraysAssumption
        <4>3. Footprint(p[1]) \cup Footprint(p[2]) \subseteq 0..(MemSize - 1)
          BY MemoryAssumption
        <4>. QED
          BY <4>1, <4>2, <4>3
      <3>2. BroadcastIter(p[k], dims).ao = p[k] /\ BroadcastIter(p[k], dims).dataptr = p[k].data
        BY DEF BroadcastIter, Walk
      <3>. QED
        BY <3>1, <3>2 DEF Housed, IsArray
    <2>3. Sessions = 1..2 /\ \A k \in 1..2 : iters[k] = BroadcastIter(p[k], dims)
      BY <2>1 DEF Sessions
    <2>. QED
      BY <2>2, <2>3
  <1>4. 1 \in Sessions /\ \A k \in Sessions : Housed(iters[k])
    <2>1. \/ \E a \in FlatArrays : iters = <<IterNew(a)>>
          \/ \E p \in Pairs : iters = MultiIterFromArrays(p)
      BY DEF Init
    <2>. QED
      BY <1>2, <1>3, <2>1
  <1>5. WalksOK
    <2>1. \A k \in Sessions : current[k] = None
      BY <1>0
    <2>. QED
      BY <1>0, <1>4, <2>1 DEF WalksOK
  <1>6. iters[1].size \in Nat
    BY <1>0, <1>4, InitWalk, PlacedFields DEF WalkInv
  <1>7. CountsOK
    BY <1>0, <1>4, <1>6, BoundsAssumption DEF CountsOK
  <1>. QED
    BY <1>1, <1>5, <1>7 DEF TypeInv

\* What a step leaves of the iterators.
IteratorsKept ==
  /\ Sessions' = Sessions
  /\ \A k \in Sessions : Housed(iters'[k]) /\ iters'[k].size = iters[k].size

\* An iterator after a step.
Keeps(it, old) == Housed(it) /\ it.size = old.size

LEMMA KeptAfter ==
  ASSUME WalkInv, WalksOK, NEW k \in Sessions
  PROVE  /\ Keeps(iters[k], iters[k]) /\ Keeps(ITER_RESET(iters[k]), iters[k])
         /\ Keeps(IterNext(iters[k]), iters[k]) /\ Fetched(iters[k]) \in Int \cup {None}
         /\ Keeps(IterCoords(iters[k]), iters[k])
         /\ \A m \in 0..(iters[k].size - 1) : Keeps(ITER_GOTO1D(ITER_RESET(iters[k]), m), iters[k])
  <1>. DEFINE it == iters[k]
  <1>1. Housed(it)
    BY DEF WalksOK
  <1>2. PICK moved \in BOOLEAN : Placed(it, moved)
    BY DEF WalkInv
  <1>. HIDE DEF it
  <1>. DEFINE fresh == ITER_RESET(it)
  <1>3. Placed(fresh, TRUE) /\ SameWalk(fresh, it) /\ Housed(fresh)
    BY <1>1, <1>2, PlacedReset, HousedReset
  <1>. HIDE DEF fresh
  <1>4. fresh.size = it.size
    BY <1>3 DEF SameWalk
  <1>5. Keeps(IterNext(it), it) /\ Fetched(it) \in Int \cup {None}
    BY <1>1, <1>2, PlacedNext, HousedNext DEF Keeps, SameWalk
  <1>6. Keeps(IterCoords(it), it)
    BY <1>1, <1>2, PlacedCoords, HousedCoords DEF Keeps, SameWalk
  <1>7. ASSUME NEW m \in 0..(it.size - 1)  PROVE Keeps(ITER_GOTO1D(fresh, m), it)
    <2>1. m \in 0..(fresh.size - 1)
      BY <1>4
    <2>2. SameWalk(ITER_GOTO1D(fresh, m), fresh) /\ Housed(ITER_GOTO1D(fresh, m))
      BY <1>3, <2>1, PlacedGoto, HousedGoto
    <2>. QED
      BY <1>4, <2>2 DEF Keeps, SameWalk
  <1>. QED
    BY <1>1, <1>3, <1>4, <1>5, <1>6, <1>7 DEF Keeps, it, fresh

LEMMA OneKept ==
  ASSUME WalkInv, WalksOK, NEW k \in Sessions, NEW it, iters' = [iters EXCEPT ![k] = it],
         Keeps(it, iters[k])
  PROVE  IteratorsKept
  <1>1. Sessions' = Sessions
    BY DEF Sessions
  <1>2. ASSUME NEW j \in Sessions  PROVE Keeps(iters'[j], iters[j])
    <2>1. CASE j = k
      <3>1. iters'[j] = it
        BY <2>1 DEF Sessions
      <3>. QED
        BY <2>1, <3>1
    <2>2. CASE j # k
      <3>1. iters'[j] = iters[j]
        BY <2>2 DEF Sessions
      <3>. QED
        BY <3>1, KeptAfter
    <2>. QED
      BY <2>1, <2>2
  <1>. QED
    BY <1>1, <1>2 DEF IteratorsKept, Keeps

\* current changes only to what IterNext returned, or to None.
CurrentKept ==
  /\ current' = [k \in Sessions |-> current'[k]]
  /\ \A k \in Sessions : current'[k] \in Int \cup {None}

LEMMA OneCurrent ==
  ASSUME WalksOK, NEW k \in Sessions, NEW c \in Int \cup {None}, current' = [current EXCEPT ![k] = c]
  PROVE  CurrentKept
  <1>1. DOMAIN current = Sessions /\ \A j \in Sessions : current[j] \in Int \cup {None}
    BY DEF WalksOK
  <1>2. current' = [j \in Sessions |-> current'[j]]
    BY <1>1
  <1>3. \A j \in Sessions : current'[j] = c \/ current'[j] = current[j]
    BY <1>1
  <1>. QED
    BY <1>1, <1>2, <1>3 DEF CurrentKept

LEMMA NextKeeps == WalkInv /\ WalksOK /\ [Next]_vars => IteratorsKept /\ CurrentKept
  <1>. SUFFICES ASSUME WalkInv, WalksOK, [Next]_vars  PROVE IteratorsKept /\ CurrentKept
    OBVIOUS
  <1>0. ASSUME current' = current  PROVE CurrentKept
    BY <1>0 DEF WalksOK, CurrentKept
  <1>1. ASSUME NEW k \in Sessions, MoveNext(k)  PROVE IteratorsKept /\ CurrentKept
    <2>1. /\ iters' = [iters EXCEPT ![k] = IterNext(iters[k])]
          /\ current' = [current EXCEPT ![k] = Fetched(iters[k])]
      BY <1>1 DEF MoveNext
    <2>2. Keeps(IterNext(iters[k]), iters[k]) /\ Fetched(iters[k]) \in Int \cup {None}
      BY KeptAfter
    <2>. QED
      BY <2>1, <2>2, OneKept, OneCurrent
  <1>2. ASSUME NEW k \in Sessions, iters' = [iters EXCEPT ![k] = ITER_RESET(iters[k])]
        PROVE  IteratorsKept
    BY <1>2, KeptAfter, OneKept
  <1>3. ASSUME NEW k \in Sessions, Reset(k)  PROVE IteratorsKept /\ CurrentKept
    <2>1. /\ iters' = [iters EXCEPT ![k] = ITER_RESET(iters[k])]
          /\ current' = [current EXCEPT ![k] = None]
      BY <1>3 DEF Reset
    <2>2. None \in Int \cup {None}
      OBVIOUS
    <2>. QED
      BY <1>2, <2>1, <2>2, OneCurrent
  <1>4. ASSUME NEW k \in Sessions, Coords(k)  PROVE IteratorsKept /\ CurrentKept
    <2>1. iters' = [iters EXCEPT ![k] = IterCoords(iters[k])] /\ current' = current
      BY <1>4 DEF Coords
    <2>2. Keeps(IterCoords(iters[k]), iters[k])
      BY KeptAfter
    <2>. QED
      BY <1>0, <2>1, <2>2, OneKept
  <1>5. ASSUME NEW k \in Sessions, NEW i \in Positions, NEW v, SingleAssign(k, i, v)
        PROVE  IteratorsKept /\ CurrentKept
    <2>. DEFINE m == Wrapped(iters[k], i)
                it == ITER_GOTO1D(ITER_RESET(iters[k]), m)
    <2>1. iters' = [iters EXCEPT ![k] = it] /\ current' = current /\ m \in 0..(iters[k].size - 1)
      BY <1>5 DEF SingleAssign, InBounds
    <2>. HIDE DEF m
    <2>2. Keeps(it, iters[k])
      BY <2>1, KeptAfter
    <2>. HIDE DEF it
    <2>. QED
      BY <1>0, <2>1, <2>2, OneKept
  <1>6. ASSUME NEW k \in Sessions, NEW ix \in Indexes, Subscript(k, ix)
        PROVE  IteratorsKept /\ CurrentKept
    BY <1>0, <1>2, <1>6 DEF Subscript
  <1>7. ASSUME NEW k \in Sessions, NEW ix \in Indexes, NEW value \in Values,
               SubscriptAssign(k, ix, value)
        PROVE  IteratorsKept /\ CurrentKept
    BY <1>0, <1>2, <1>7 DEF SubscriptAssign
  <1>8. ASSUME BroadcastMoveNext  PROVE IteratorsKept /\ CurrentKept
    <2>1. /\ iters' = [k \in Sessions |-> IterNext(iters[k])]
          /\ current' = [k \in Sessions |-> Fetched(iters[k])]
      BY <1>8 DEF BroadcastMoveNext, Sessions
    <2>2. Sessions' = Sessions /\ \A k \in Sessions : iters'[k] = IterNext(iters[k])
      BY <2>1 DEF Sessions
    <2>3. \A k \in Sessions : Keeps(IterNext(iters[k]), iters[k]) /\ Fetched(iters[k]) \in Int \cup {None}
      BY KeptAfter
    <2>4. IteratorsKept
      BY <2>2, <2>3 DEF IteratorsKept, Keeps
    <2>5. CurrentKept
      BY <2>1, <2>3 DEF CurrentKept
    <2>. QED
      BY <2>4, <2>5
  <1>9. ASSUME BroadcastReset  PROVE IteratorsKept /\ CurrentKept
    <2>1. /\ iters' = [k \in Sessions |-> ITER_RESET(iters[k])]
          /\ current' = [k \in Sessions |-> None]
      BY <1>9 DEF BroadcastReset, Sessions
    <2>2. Sessions' = Sessions /\ \A k \in Sessions : iters'[k] = ITER_RESET(iters[k])
      BY <2>1 DEF Sessions
    <2>3. \A k \in Sessions : Keeps(ITER_RESET(iters[k]), iters[k])
      BY KeptAfter
    <2>4. IteratorsKept
      BY <2>2, <2>3 DEF IteratorsKept, Keeps
    <2>5. CurrentKept
      BY <2>1 DEF CurrentKept
    <2>. QED
      BY <2>4, <2>5
  <1>10. ASSUME iters' = iters, current' = current  PROVE IteratorsKept /\ CurrentKept
    <2>1. Sessions' = Sessions
      BY <1>10 DEF Sessions
    <2>. QED
      BY <1>0, <1>10, <2>1 DEF IteratorsKept, WalksOK
  <1>11. ASSUME NEW p \in Copies, MoveInto(p[1], p[2])  PROVE IteratorsKept /\ CurrentKept
    BY <1>10, <1>11 DEF MoveInto
  <1>12. CASE UNCHANGED vars
    BY <1>10, <1>12 DEF vars
  <1>13. CASE Next
    BY <1>1, <1>3, <1>4, <1>5, <1>6, <1>7, <1>8, <1>9, <1>11, <1>13 DEF Next
  <1>. QED
    BY <1>12, <1>13

LEMMA NextMemOK == WalkInv /\ MemOK /\ [Next]_vars => MemOK'
  <1>. SUFFICES ASSUME WalkInv, MemOK, [Next]_vars  PROVE MemOK'
    OBVIOUS
  <1>1. ASSUME mem' = mem  PROVE MemOK'
    BY <1>1 DEF MemOK
  <1>2. ASSUME NEW k \in Sessions, MoveNext(k) \/ Reset(k) \/ Coords(k)  PROVE MemOK'
    BY <1>1, <1>2 DEF MoveNext, Reset, Coords
  <1>3. ASSUME NEW k \in Sessions, NEW i \in Positions, NEW v, SingleAssign(k, i, v)  PROVE MemOK'
    <2>. DEFINE ptr == ITER_GOTO1D(ITER_RESET(iters[k]), Wrapped(iters[k], i)).dataptr
    <2>1. mem' = [mem EXCEPT ![ptr] = v]
      BY <1>3 DEF SingleAssign
    <2>. HIDE DEF ptr
    <2>. QED
      BY <2>1 DEF MemOK, Over
  <1>4. ASSUME NEW k \in Sessions, NEW ix \in Indexes, Subscript(k, ix)  PROVE MemOK'
    BY <1>1, <1>4 DEF Subscript
  <1>5. ASSUME NEW k \in Sessions, NEW ix \in Indexes, NEW value \in Values,
               SubscriptAssign(k, ix, value)
        PROVE  MemOK'
    <2>1. /\ mem' = IterSubscriptAssign(mem, iters[k], ix, value)
          /\ ix.kind # "intp" /\ ~Refused(iters[k], ix) /\ value # <<>>
      BY <1>5 DEF SubscriptAssign
    <2>2. PICK moved \in BOOLEAN : Placed(iters[k], moved)
      BY DEF WalkInv
    <2>3. IsIndex(ix) /\ Over(mem, mem)
      BY IndexesAssumption DEF MemOK
    <2>4. Over(mem', mem') /\ DOMAIN mem' = DOMAIN mem
      BY <2>1, <2>2, <2>3, AssignKeeps
    <2>. QED
      BY <2>4 DEF MemOK
  <1>6. ASSUME BroadcastMoveNext \/ BroadcastReset  PROVE MemOK'
    BY <1>1, <1>6 DEF BroadcastMoveNext, BroadcastReset
  <1>7. ASSUME NEW p \in Copies, MoveInto(p[1], p[2])  PROVE MemOK'
    <2>1. mem' = CopyInto(mem, p[1], p[2])
      BY <1>7 DEF MoveInto
    <2>2. CopyOf(p[1], p[2], mem)
      BY CopiesAreInMemory DEF MemOK
    <2>3. Over(mem', mem') /\ DOMAIN mem' = DOMAIN mem
      BY <2>1, <2>2, CopyKeeps
    <2>. QED
      BY <2>3 DEF MemOK
  <1>8. ASSUME UNCHANGED vars  PROVE MemOK'
    BY <1>1, <1>8 DEF vars
  <1>. QED
    BY <1>2, <1>3, <1>4, <1>5, <1>6, <1>7, <1>8 DEF Next

LEMMA NextCounts == WalkInv /\ WalksOK /\ CountsOK /\ [Next]_vars => CountsOK'
  <1>. SUFFICES ASSUME WalkInv, WalksOK, CountsOK, [Next]_vars  PROVE CountsOK'
    OBVIOUS
  <1>. DEFINE z == iters[1].size
  <1>1. Sessions' = Sessions /\ 1 \in Sessions /\ iters'[1].size = z
    <2>1. IteratorsKept
      BY NextKeeps
    <2>. QED
      BY <2>1 DEF IteratorsKept, CountsOK
  <1>2. z \in Nat
    <2>1. \E moved \in BOOLEAN : Placed(iters[1], moved)
      BY <1>1 DEF WalkInv
    <2>. QED
      BY <2>1, PlacedFields
  <1>3. /\ jumped \subseteq Sessions /\ writes \in 0..MaxWrites /\ parted \in 0..MaxParted
        /\ since \in {-1, 0} /\ index \in Int /\ index - since \in 0..(z + 1)
    BY DEF CountsOK
  <1>. HIDE DEF z
  <1>4. ASSUME jumped' \subseteq Sessions, writes' \in 0..MaxWrites, parted' \in 0..MaxParted,
               since' \in {-1, 0}, index' \in Int, index' - since' \in 0..(z + 1)
        PROVE  CountsOK'
    BY <1>1, <1>4 DEF CountsOK, z
  <1>5. ASSUME Part  PROVE parted' \in 0..MaxParted
    BY <1>3, <1>5, BoundsAssumption DEF Part
  <1>6. ASSUME writes < MaxWrites, writes' = writes + 1  PROVE writes' \in 0..MaxWrites
    BY <1>3, <1>6, BoundsAssumption
  <1>7. ASSUME NEW k \in Sessions, MoveNext(k)  PROVE CountsOK'
    BY <1>3, <1>4, <1>5, <1>7 DEF MoveNext
  <1>8. ASSUME NEW k \in Sessions, Reset(k)  PROVE CountsOK'
    BY <1>3, <1>4, <1>5, <1>8 DEF Reset
  <1>9. ASSUME NEW k \in Sessions, Coords(k)  PROVE CountsOK'
    BY <1>3, <1>4, <1>9 DEF Coords
  <1>10. ASSUME NEW k \in Sessions, NEW i \in Positions, NEW v, SingleAssign(k, i, v)  PROVE CountsOK'
    <2>1. /\ writes < MaxWrites /\ writes' = writes + 1 /\ Part
          /\ jumped' = jumped \cup {k} /\ index' = index /\ since' = since
      BY <1>10 DEF SingleAssign
    <2>2. jumped' \subseteq Sessions
      BY <1>3, <2>1
    <2>. QED
      BY <1>3, <1>4, <1>5, <1>6, <2>1, <2>2
  <1>11. ASSUME NEW k \in Sessions, NEW ix \in Indexes, Subscript(k, ix)  PROVE CountsOK'
    BY <1>3, <1>4, <1>5, <1>11 DEF Subscript
  <1>12. ASSUME NEW k \in Sessions, NEW ix \in Indexes, NEW value \in Values,
                SubscriptAssign(k, ix, value)
         PROVE  CountsOK'
    BY <1>3, <1>4, <1>5, <1>6, <1>12 DEF SubscriptAssign
  <1>13. ASSUME BroadcastMoveNext  PROVE CountsOK'
    <2>1. /\ index - since <= z /\ index' = index + 1
          /\ jumped' = jumped /\ parted' = parted /\ since' = since /\ writes' = writes
      BY <1>13 DEF BroadcastMoveNext, z
    <2>3. index' \in Int /\ index' - since' \in 0..(z + 1)
      BY <1>2, <1>3, <2>1
    <2>. QED
      BY <1>3, <1>4, <2>1, <2>3
  <1>14. ASSUME BroadcastReset  PROVE CountsOK'
    <2>1. index' = -1 /\ since' = -1 /\ jumped' = {} /\ parted' = 0 /\ writes' = writes
      BY <1>14 DEF BroadcastReset
    <2>2. /\ index' \in Int /\ index' - since' \in 0..(z + 1)
          /\ parted' \in 0..MaxParted /\ jumped' \subseteq Sessions
      BY <1>2, <2>1, BoundsAssumption
    <2>. QED
      BY <1>3, <1>4, <2>1, <2>2
  <1>15. ASSUME NEW p \in Copies, MoveInto(p[1], p[2])  PROVE CountsOK'
    BY <1>3, <1>4, <1>6, <1>15 DEF MoveInto
  <1>16. ASSUME UNCHANGED vars  PROVE CountsOK'
    BY <1>3, <1>4, <1>16 DEF vars
  <1>. QED
    BY <1>7, <1>8, <1>9, <1>10, <1>11, <1>12, <1>13, <1>14, <1>15, <1>16 DEF Next

LEMMA NextType == WalkInv /\ TypeInv /\ [Next]_vars => TypeInv'
  <1>. SUFFICES ASSUME WalkInv, TypeInv, [Next]_vars  PROVE TypeInv'
    OBVIOUS
  <1>1. MemOK' /\ CountsOK'
    BY NextMemOK, NextCounts DEF TypeInv
  <1>2. IteratorsKept /\ CurrentKept
    BY NextKeeps DEF TypeInv
  <1>3. WalksOK'
    BY <1>2 DEF WalksOK, IteratorsKept, CurrentKept
  <1>. QED
    BY <1>1, <1>3 DEF TypeInv

-----------------------------------------------------------------------------
(* The theorems.                                                           *)

LEMMA TypesFollow == WalkInv /\ StepInv /\ TypeInv => TypeOK
  <1>. SUFFICES ASSUME WalkInv, StepInv, TypeInv  PROVE TypeOK
    OBVIOUS
  <1>1. DOMAIN mem = 0..(MemSize - 1)
    BY DEF TypeInv, MemOK
  <1>2. ASSUME NEW k \in Sessions
        PROVE  /\ iters[k].index \in 0..iters[k].size /\ current[k] \in Int \cup {None}
               /\ iters[k].size \in Nat
    <2>1. PICK moved \in BOOLEAN : Placed(iters[k], moved)
      BY DEF WalkInv
    <2>. QED
      BY <2>1, PlacedFields DEF TypeInv, WalksOK
  <1>3. index \in -1..(iters[1].size + 1)
    <2>. DEFINE z == iters[1].size
    <2>1. /\ index \in Int /\ since \in {-1, 0} /\ index - since \in 0..(z + 1) /\ z \in Nat
      BY <1>2 DEF StepInv, TypeInv, CountsOK
    <2>. HIDE DEF z
    <2>. QED
      BY <2>1 DEF z
  <1>. QED
    BY <1>1, <1>2, <1>3 DEF TypeOK, TypeInv, CountsOK

\* Types of FlatIter: the memory keeps its addresses through every assignment
\* and copy, no iterator passes its end, and the index of a broadcast object
\* stops one step after it.
THEOREM FlatTypeCorrect == Spec => []TypeOK
  <1>1. Spec => []WalkInv
    BY InitWalk, NextWalk, PTL DEF Spec
  <1>2. Spec /\ []WalkInv => []StepInv
    BY InitStep, NextStep, PTL DEF Spec
  <1>3. Spec /\ []WalkInv => []TypeInv
    BY InitType, NextType, PTL DEF Spec
  <1>. QED
    BY <1>1, <1>2, <1>3, TypesFollow, PTL

\* In the memory as it was at the start, the block copy, the 0-d, the same-shape
\* and the broadcast loops copy what the broadcasting rules put against each
\* other, and the iterators of a broadcast object stay in step: for arrays of
\* all shapes and strides.
THEOREM BroadcastingFollowsRules == Spec => []BroadcastAsPromised
  <1>1. Spec => []MemInv
    BY InitMem, NextMem, PTL DEF Spec
  <1>2. Spec => []BroadcastInStep
    BY IteratorsInStep
  <1>3. MemInv /\ BroadcastInStep => BroadcastAsPromised
    BY CopyFollows DEF BroadcastAsPromised
  <1>. QED
    BY <1>1, <1>2, <1>3, PTL

\* The same for copies, and for assignments through the index of a flat
\* iterator, whatever was written before.
WritesAsPromised ==
  /\ \A p \in Copies : CopyInto(mem, p[1], p[2]) = Copied(mem, p[1], p[2])
  /\ \A k \in Sessions, ix \in Indexes, value \in Values :
       ~IndexFails(iters[k], ix) /\ value # <<>> =>
         IterSubscriptAssign(mem, iters[k], ix, value) = Assigned(mem, iters[k], ix, value)

\* In every reachable memory, not only in the one at the start, a copy and an
\* assignment through an index write what they promise and nothing else.
THEOREM WritesFollowRules == Spec => []WritesAsPromised
  <1>1. Spec => []WalkInv
    BY InitWalk, NextWalk, PTL DEF Spec
  <1>2. Spec /\ []WalkInv => []TypeInv
    BY InitType, NextType, PTL DEF Spec
  <1>3. WalkInv /\ TypeInv => WritesAsPromised
    <2>. SUFFICES ASSUME WalkInv, TypeInv  PROVE WritesAsPromised
      OBVIOUS
    <2>1. Over(mem, mem) /\ DOMAIN mem = 0..(MemSize - 1) /\ mem = [x \in DOMAIN mem |-> mem[x]]
      BY DEF TypeInv, MemOK, Over
    <2>2. ASSUME NEW p \in Copies  PROVE CopyInto(mem, p[1], p[2]) = Copied(mem, p[1], p[2])
      BY <2>1, CopiesAreInMemory, CopyIsCopied
    <2>3. ASSUME NEW k \in Sessions, NEW ix \in Indexes, NEW value \in Values,
                 ~IndexFails(iters[k], ix), value # <<>>
          PROVE  IterSubscriptAssign(mem, iters[k], ix, value) = Assigned(mem, iters[k], ix, value)
      <3>1. PICK moved \in BOOLEAN : Placed(iters[k], moved)
        BY DEF WalkInv
      <3>2. IsIndex(ix)
        BY IndexesAssumption
      <3>. QED
        BY <2>1, <2>3, <3>1, <3>2, AssignsAre
    <2>. QED
      BY <2>2, <2>3 DEF WritesAsPromised
  <1>. QED
    BY <1>1, <1>2, <1>3, PTL

\* What MoveNext fetches from an iterator that no single assignment misplaced,
\* and every address that ITER_GOTO1D computes, are in the memory.
PointersInMemory ==
  \A k \in Sessions :
    /\ Unfinished(iters[k]) /\ ~(Misplaced(k) /\ Len(iters[k].dims_m1) > 1)
         => iters[k].dataptr \in DOMAIN mem
    /\ \A m \in 0..(iters[k].size - 1) : ITER_GOTO1D(iters[k], m).dataptr \in DOMAIN mem

\* The strided arithmetic never leaves the arrays: no step, jump or wrap of an
\* iterator, for any shape and strides of an array that is in the memory.
THEOREM PointersStayInMemory == Spec => []PointersInMemory
  <1>1. Spec => []WalkInv
    BY InitWalk, NextWalk, PTL DEF Spec
  <1>2. Spec /\ []WalkInv => []TypeInv
    BY InitType, NextType, PTL DEF Spec
  <1>3. WalkInv /\ TypeInv => PointersInMemory
    <2>. SUFFICES ASSUME WalkInv, TypeInv, NEW k \in Sessions
                  PROVE  /\ Unfinished(iters[k]) /\ ~(Misplaced(k) /\ Len(iters[k].dims_m1) > 1)
                              => iters[k].dataptr \in DOMAIN mem
                         /\ \A m \in 0..(iters[k].size - 1) :
                              ITER_GOTO1D(iters[k], m).dataptr \in DOMAIN mem
      BY DEF PointersInMemory
    <2>. DEFINE it == iters[k]
    <2>1. DOMAIN mem = 0..(MemSize - 1) /\ Housed(it)
      BY DEF TypeInv, MemOK, WalksOK
    <2>2. PICK moved \in BOOLEAN : Placed(it, moved)
      BY DEF WalkInv
    <2>3. ASSUME Unfinished(it), ~(Misplaced(k) /\ Len(it.dims_m1) > 1)
          PROVE  it.dataptr \in DOMAIN mem
      <3>1. it.dataptr = AddressAt(it, it.index)
        BY <2>3, WalkImplies DEF WalkAsPromised, PointerAtIndex
      <3>2. it.index \in 0..(it.size - 1)
        <4>. HIDE DEF it
        <4>1. it.index \in 0..it.size /\ it.size \in Nat /\ it.index < it.size
          BY <2>2, <2>3, PlacedFields DEF Unfinished
        <4>. QED
          BY <4>1
      <3>. HIDE DEF it
      <3>3. AddressAt(it, it.index) \in Footprint(it.ao)
        BY <2>2, <3>2, AddressHoused
      <3>. QED
        BY <2>1, <3>1, <3>3 DEF Housed
    <2>4. ASSUME NEW m \in 0..(it.size - 1)  PROVE ITER_GOTO1D(it, m).dataptr \in DOMAIN mem
      <3>. HIDE DEF it
      <3>. QED
        BY <2>1, <2>2, HousedGoto
    <2>. QED
      BY <2>3, <2>4
  <1>. QED
    BY <1>1, <1>2, <1>3, PTL
=============================================================================
