---------------------------- MODULE Views_proofs ----------------------------
(***************************************************************************)
(* Theorems about Views.                                                   *)
(*                                                                         *)
(* First, about a single array: coordinates, weights and strides; that the *)
(* flags which NpyArray_UpdateFlags computes tell how its elements lie     *)
(* (FlagsAreTrue); that a reshape copies only if no view of the shape      *)
(* exists (CopyNeeded).  Then the inductive invariant IInv and, for each   *)
(* operation, that it preserves IInv.  The theorems are at the end.        *)
(***************************************************************************)
EXTENDS Views, Strided_proofs

LEMMA ProductType ==
  ASSUME NEW dims \in Seq(Nat)
  PROVE  Product(dims) \in Nat
  <1>1. 0 \in 0..Len(dims)
    OBVIOUS
  <1>2. Below(dims, 0) \in Nat /\ Below(dims, 0) = Product(dims)
    BY <1>1, BelowStep
  <1>. QED
    BY <1>2

-----------------------------------------------------------------------------
(* The weights of the axes of a shape, in either order.                    *)

Holds(x, y) == \E q \in Nat \ {0} : x = q * y

LEMMA HoldsMore ==
  ASSUME NEW x \in Nat \ {0}, NEW y \in Nat \ {0}, NEW d \in Nat \ {0}, Holds(x, y)
  PROVE  /\ y <= x /\ Holds(d * x, y) /\ d * x \in Nat \ {0}
         /\ Holds(x, x)
  <1>1. PICK q \in Nat \ {0} : x = q * y
    BY DEF Holds
  <1>2. y <= x
    <2>1. q = 1 \/ 1 < q
      OBVIOUS
    <2>2. CASE q = 1
      BY <1>1, <2>2
    <2>3. CASE 1 < q
      <3>1. 1 * y + y <= q * y
        BY <2>3, TimesLess
      <3>. QED
        BY <1>1, <3>1
    <2>. QED
      BY <2>1, <2>2, <2>3
  <1>3. d * q \in Nat \ {0} /\ d * x = (d * q) * y
    BY <1>1
  <1>4. x = 1 * x /\ d * x \in Nat \ {0}
    OBVIOUS
  <1>. QED
    BY <1>2, <1>3, <1>4 DEF Holds

\* In C order a step along an axis skips a number of steps along the next ones.
LEMMA BelowHolds ==
  ASSUME NEW dims \in Seq(Nat), Product(dims) # 0, NEW j \in 0..Len(dims)
  PROVE  \A i \in 0..j : Holds(Below(dims, i), Below(dims, j))
  <1>. DEFINE G == {i \in 0..j : Holds(Below(dims, i), Below(dims, j))}
  <1>0. j \in Nat /\ j <= Len(dims) /\ Len(dims) \in Nat
    OBVIOUS
  <1>1. /\ \A i \in 0..Len(dims) : Below(dims, i) \in Nat \ {0}
        /\ \A i \in 1..Len(dims) : dims[i] \in Nat \ {0} /\ Below(dims, i - 1) = dims[i] * Below(dims, i)
    BY BelowStep, NoEmptyAxis
  <1>2. j \in G
    <2>1. Below(dims, j) = 1 * Below(dims, j)
      BY <1>0, <1>1
    <2>. QED
      BY <1>0, <2>1 DEF Holds
  <1>3. ASSUME NEW i \in 1..j, i \in G  PROVE i - 1 \in G
    <2>1. i \in 1..Len(dims) /\ i \in 0..Len(dims) /\ j \in 0..Len(dims) /\ i - 1 \in 0..j
      BY <1>0
    <2>. DEFINE x == Below(dims, i)
                y == Below(dims, j)
                d == dims[i]
    <2>2. x \in Nat \ {0} /\ y \in Nat \ {0} /\ d \in Nat \ {0} /\ Holds(x, y) /\ Below(dims, i - 1) = d * x
      BY <1>1, <1>3, <2>1
    <2>. HIDE DEF x, y, d
    <2>3. Holds(d * x, y)
      BY <2>2, HoldsMore
    <2>. QED
      BY <2>1, <2>2, <2>3 DEF y
  <1>4. G = 0..j
    <2>. HIDE DEF G
    <2>1. G \in SUBSET (0..j)
      BY DEF G
    <2>. QED
      BY <1>0, <1>2, <1>3, <2>1, DownFrom
  <1>. QED
    BY <1>4

LEMMA AheadHolds ==
  ASSUME NEW dims \in Seq(Nat), Product(dims) # 0, NEW j \in 1..(Len(dims) + 1)
  PROVE  \A i \in j..(Len(dims) + 1) : Holds(Ahead(dims, i), Ahead(dims, j))
  <1>. DEFINE n == Len(dims) + 1 - j
              G == {k \in 0..n : Holds(Ahead(dims, j + k), Ahead(dims, j))}
  <1>0. n \in Nat /\ j \in Nat /\ Len(dims) \in Nat
    OBVIOUS
  <1>1. /\ \A i \in 1..(Len(dims) + 1) : Ahead(dims, i) \in Nat \ {0}
        /\ \A i \in 1..Len(dims) : dims[i] \in Nat \ {0} /\ Ahead(dims, i + 1) = Ahead(dims, i) * dims[i]
    BY AheadStep, AheadType, NoEmptyAxis
  <1>2. 0 \in G
    <2>1. j + 0 = j /\ Ahead(dims, j) = 1 * Ahead(dims, j)
      BY <1>0, <1>1
    <2>. QED
      BY <1>0, <2>1 DEF Holds
  <1>3. ASSUME NEW k \in 1..n, k - 1 \in G  PROVE k \in G
    <2>. DEFINE i == j + (k - 1)
    <2>1. i \in 1..Len(dims) /\ i \in 1..(Len(dims) + 1) /\ j + k = i + 1 /\ k \in 0..n
      BY <1>0
    <2>. DEFINE x == Ahead(dims, i)
                y == Ahead(dims, j)
                d == dims[i]
    <2>2. x \in Nat \ {0} /\ y \in Nat \ {0} /\ d \in Nat \ {0} /\ Holds(x, y) /\ Ahead(dims, i + 1) = x * d
      BY <1>1, <1>3, <2>1
    <2>3. Ahead(dims, j + k) = Ahead(dims, i + 1)
      BY <2>1
    <2>. HIDE DEF x, y, d, i
    <2>4. Holds(d * x, y) /\ d * x = x * d
      BY <2>2, HoldsMore
    <2>. QED
      BY <2>1, <2>2, <2>3, <2>4 DEF y
  <1>4. G = 0..n
    <2>. HIDE DEF G, n
    <2>1. G \in SUBSET (0..n)
      BY DEF G
    <2>. QED
      BY <1>0, <1>2, <1>3, <2>1, UpTo
  <1>5. ASSUME NEW i \in j..(Len(dims) + 1)  PROVE Holds(Ahead(dims, i), Ahead(dims, j))
    <2>1. i - j \in 0..n /\ j + (i - j) = i
      OBVIOUS
    <2>. QED
      BY <1>4, <2>1
  <1>. QED
    BY <1>5

LEMMA WeightIs ==
  ASSUME NEW dims \in Seq(Nat), NEW i \in 1..Len(dims)
  PROVE  Weight(dims, "C", i) = Below(dims, i) /\ Weight(dims, "F", i) = Ahead(dims, i)
  BY DEF Weight, Prefix, Ahead

\* An axis is taken up whole by one step of any other, or the other way round,
\* and one of them is the longest that a number of elements goes along.
Nested(dims, o) ==
  /\ \A i \in 1..Len(dims) :
       /\ dims[i] \in Nat \ {0} /\ Weight(dims, o, i) \in Nat \ {0}
       /\ Weight(dims, o, i) * dims[i] <= Product(dims)
  /\ \A i, j \in 1..Len(dims) : i # j =>
       \/ Holds(Weight(dims, o, j), dims[i] * Weight(dims, o, i))
       \/ Holds(Weight(dims, o, i), dims[j] * Weight(dims, o, j))
  /\ \A m \in 1..(Product(dims) - 1) : \E r \in 1..Len(dims) :
       Weight(dims, o, r) <= m /\ m < Weight(dims, o, r) * dims[r]

LEMMA NestedC ==
  ASSUME NEW dims \in Seq(Nat), Product(dims) # 0
  PROVE  Nested(dims, "C")
  <1>. DEFINE n == Len(dims)
              B(i) == Below(dims, i)
  <1>1. /\ \A i \in 0..n : B(i) \in Nat \ {0}
        /\ \A i \in 1..n : dims[i] \in Nat \ {0} /\ B(i - 1) = dims[i] * B(i)
        /\ B(0) = Product(dims) /\ B(n) = 1 /\ n \in Nat
    BY BelowStep, NoEmptyAxis
  <1>2. ASSUME NEW j \in 0..n, NEW i \in 0..j  PROVE Holds(B(i), B(j))
    BY BelowHolds
  <1>3. ASSUME NEW i \in 1..n
        PROVE  /\ dims[i] \in Nat \ {0} /\ Weight(dims, "C", i) \in Nat \ {0}
               /\ Weight(dims, "C", i) * dims[i] <= Product(dims)
    <2>1. i \in 0..n /\ i - 1 \in 0..n /\ 0 \in 0..(i - 1)
      BY <1>1
    <2>2. Holds(B(0), B(i - 1))
      BY <1>2, <2>1
    <2>. DEFINE x == B(0)
                y == B(i - 1)
                w == B(i)
                d == dims[i]
    <2>3. x \in Nat \ {0} /\ y \in Nat \ {0} /\ Holds(x, y) /\ d \in Nat \ {0} /\ w \in Nat \ {0} /\ y = d * w
      BY <1>1, <2>1, <2>2
    <2>4. Weight(dims, "C", i) = w /\ Product(dims) = x
      BY <1>1, WeightIs
    <2>. HIDE DEF x, y, w, d
    <2>5. y <= x
      BY <2>3, HoldsMore
    <2>6. w * d = y
      BY <2>3
    <2>. QED
      BY <2>3, <2>4, <2>5, <2>6 DEF d
  <1>4. ASSUME NEW i \in 1..n, NEW j \in 1..n, i < j
        PROVE  Holds(Weight(dims, "C", i), dims[j] * Weight(dims, "C", j))
    <2>1. i \in 0..(j - 1) /\ j - 1 \in 0..n
      BY <1>1, <1>4
    <2>2. Holds(B(i), B(j - 1)) /\ B(j - 1) = dims[j] * B(j)
      BY <1>1, <1>2, <2>1
    <2>. QED
      BY <2>2, WeightIs
  <1>5. ASSUME NEW m \in 1..(Product(dims) - 1)
        PROVE  \E r \in 1..n : Weight(dims, "C", r) <= m /\ m < Weight(dims, "C", r) * dims[r]
    <2>. DEFINE G == {i \in 0..n : B(i) > m}
    <2>1. 0 \in G /\ n \notin G /\ G \in SUBSET (0..n)
      BY <1>1
    <2>2. \E i \in 1..n : i - 1 \in G /\ i \notin G
      <3>. SUFFICES ASSUME \A i \in 1..n : i - 1 \in G => i \in G  PROVE FALSE
        OBVIOUS
      <3>. HIDE DEF G
      <3>1. G = 0..n
        BY <1>1, <2>1, UpTo
      <3>. QED
        BY <1>1, <2>1, <3>1
    <2>3. PICK r \in 1..n : r - 1 \in G /\ r \notin G
      BY <2>2
    <2>. DEFINE w == B(r)
                d == dims[r]
                y == B(r - 1)
    <2>4. w \in Nat /\ d \in Nat /\ y = d * w /\ y > m /\ ~(w > m) /\ m \in Nat
      BY <1>1, <2>3
    <2>5. Weight(dims, "C", r) = w
      BY WeightIs
    <2>. HIDE DEF w, y
    <2>6. w <= m /\ m < w * d
      BY <2>4
    <2>. QED
      BY <2>5, <2>6
  <1>. QED
    BY <1>3, <1>4, <1>5 DEF Nested

LEMMA NestedF ==
  ASSUME NEW dims \in Seq(Nat), Product(dims) # 0
  PROVE  Nested(dims, "F")
  <1>. DEFINE n == Len(dims)
              A(i) == Ahead(dims, i)
  <1>1. /\ \A i \in 1..(n + 1) : A(i) \in Nat \ {0}
        /\ \A i \in 1..n : dims[i] \in Nat \ {0} /\ A(i + 1) = A(i) * dims[i]
        /\ A(1) = 1 /\ A(n + 1) = Product(dims) /\ n \in Nat
    BY AheadStep, AheadType, NoEmptyAxis
  <1>2. ASSUME NEW j \in 1..(n + 1), NEW i \in j..(n + 1)  PROVE Holds(A(i), A(j))
    BY AheadHolds
  <1>3. ASSUME NEW i \in 1..n
        PROVE  /\ dims[i] \in Nat \ {0} /\ Weight(dims, "F", i) \in Nat \ {0}
               /\ Weight(dims, "F", i) * dims[i] <= Product(dims)
    <2>1. i \in 1..(n + 1) /\ i + 1 \in 1..(n + 1) /\ n + 1 \in (i + 1)..(n + 1)
      BY <1>1
    <2>. DEFINE x == A(n + 1)
                y == A(i + 1)
                w == A(i)
                d == dims[i]
    <2>2. Holds(x, y)
      BY <1>2, <2>1
    <2>3. x \in Nat \ {0} /\ y \in Nat \ {0} /\ d \in Nat \ {0} /\ w \in Nat \ {0} /\ y = w * d
      BY <1>1, <2>1
    <2>4. Weight(dims, "F", i) = w /\ Product(dims) = x
      BY <1>1, WeightIs
    <2>. HIDE DEF x, y, w, d
    <2>5. y <= x
      BY <2>2, <2>3, HoldsMore
    <2>. QED
      BY <2>3, <2>4, <2>5 DEF d
  <1>4. ASSUME NEW i \in 1..n, NEW j \in 1..n, i < j
        PROVE  Holds(Weight(dims, "F", j), dims[i] * Weight(dims, "F", i))
    <2>1. i \in 1..(n + 1) /\ i + 1 \in 1..(n + 1) /\ j \in (i + 1)..(n + 1)
      BY <1>1, <1>4
    <2>2. Holds(A(j), A(i + 1)) /\ A(i + 1) = A(i) * dims[i]
      BY <1>1, <1>2, <2>1
    <2>3. A(i) * dims[i] = dims[i] * A(i)
      BY <1>1, <2>1
    <2>. QED
      BY <2>2, <2>3, WeightIs
  <1>5. ASSUME NEW m \in 1..(Product(dims) - 1)
        PROVE  \E r \in 1..n : Weight(dims, "F", r) <= m /\ m < Weight(dims, "F", r) * dims[r]
    <2>. DEFINE G == {i \in 0..n : A(i + 1) <= m}
    <2>1. 0 \in G /\ n \notin G /\ G \in SUBSET (0..n)
      <3>1. 0 + 1 = 1 /\ 0 \in 0..n /\ A(1) <= m
        BY <1>1
      <3>2. A(0 + 1) <= m
        BY <3>1
      <3>3. A(n + 1) = Product(dims) /\ Product(dims) \in Nat
        BY <1>1
      <3>4. ~(A(n + 1) <= m)
        BY <3>3
      <3>. QED
        BY <3>1, <3>2, <3>4
    <2>2. \E i \in 1..n : i - 1 \in G /\ i \notin G
      <3>. SUFFICES ASSUME \A i \in 1..n : i - 1 \in G => i \in G  PROVE FALSE
        OBVIOUS
      <3>. HIDE DEF G
      <3>1. G = 0..n
        BY <1>1, <2>1, UpTo
      <3>. QED
        BY <1>1, <2>1, <3>1
    <2>3. PICK r \in 1..n : r - 1 \in G /\ r \notin G
      BY <2>2
    <2>4. (r - 1) + 1 = r /\ r \in 0..n /\ r \in 1..(n + 1) /\ r + 1 \in 1..(n + 1)
      BY <1>1
    <2>. DEFINE w == A(r)
                d == dims[r]
                y == A(r + 1)
    <2>5. w \in Nat /\ d \in Nat /\ y = w * d /\ w <= m /\ ~(y <= m) /\ m \in Nat /\ y \in Nat
      BY <1>1, <2>3, <2>4
    <2>6. Weight(dims, "F", r) = w
      BY WeightIs
    <2>. HIDE DEF w, y
    <2>7. w <= m /\ m < w * d
      BY <2>5
    <2>. QED
      BY <2>6, <2>7
  <1>. QED
    BY <1>3, <1>4, <1>5 DEF Nested

LEMMA WeightsNest ==
  ASSUME NEW dims \in Seq(Nat), Product(dims) # 0, NEW o \in {"C", "F"}
  PROVE  Nested(dims, o)
  BY NestedC, NestedF

-----------------------------------------------------------------------------
(* Sums along the axes, of coordinates that differ in one.                 *)

\* Two sums that differ in the term of one axis.
LEMMA SumsDiffer ==
  ASSUME NEW n \in Nat, NEW r \in 1..n, NEW f \in [1..n -> Int], NEW g \in [1..n -> Int],
         \A i \in 1..n : i # r => f[i] = g[i]
  PROVE  /\ SumFunction(f) \in Int /\ SumFunction(g) \in Int
         /\ SumFunction(f) = SumFunction(g) + f[r] - g[r]
  <1>. DEFINE D == (1..n) \ {r}
              h == [i \in D |-> f[i]]
              k == [i \in D |-> g[i]]
  <1>1. IsFiniteSet(1..n)
    <2>1. 1 \in Int /\ n \in Int
      OBVIOUS
    <2>. QED
      BY <2>1, FS_Interval
  <1>2. Summable(f) /\ Summable(g) /\ DOMAIN f = 1..n /\ DOMAIN g = 1..n
    <2>1. DOMAIN f = 1..n
      OBVIOUS
    <2>2. DOMAIN g = 1..n
      OBVIOUS
    <2>. QED
      BY <1>1, <2>1, <2>2 DEF Summable
  <1>3. h = k
    OBVIOUS
  <1>4. SumFunction(f) = f[r] + SumFunction(h)
    <2>1. r \in DOMAIN f /\ DOMAIN h = DOMAIN f \ {r} /\ \A y \in DOMAIN h : h[y] = f[y]
      BY <1>2
    <2>. HIDE DEF h
    <2>. QED
      BY <1>2, <2>1, SumSplit, Zenon
  <1>5. SumFunction(g) = g[r] + SumFunction(k)
    <2>1. r \in DOMAIN g /\ DOMAIN k = DOMAIN g \ {r} /\ \A y \in DOMAIN k : k[y] = g[y]
      BY <1>2
    <2>. HIDE DEF k
    <2>. QED
      BY <1>2, <2>1, SumSplit, Zenon
  <1>6. SumFunction(h) \in Int
    <2>1. IsFiniteSet(D)
      BY <1>1, FS_Subset
    <2>2. Summable(h)
      BY <2>1 DEF Summable
    <2>. HIDE DEF h
    <2>. QED
      BY <2>2, SumType
  <1>. HIDE DEF h, k
  <1>7. f[r] \in Int /\ g[r] \in Int
    OBVIOUS
  <1>. DEFINE x == f[r]
              y == g[r]
              z == SumFunction(h)
  <1>8. SumFunction(f) = x + z /\ SumFunction(g) = y + z /\ x \in Int /\ y \in Int /\ z \in Int
    BY <1>3, <1>4, <1>5, <1>6, <1>7
  <1>. HIDE DEF x, y, z
  <1>9. /\ SumFunction(f) \in Int /\ SumFunction(g) \in Int
        /\ SumFunction(f) = SumFunction(g) + x - y
    BY <1>8
  <1>. QED
    BY <1>9 DEF x, y

Digit(m, b, d)   == (m \div b) % d
Element(x, w, y) == x * w + y

LEMMA DigitType ==
  ASSUME NEW b \in Nat \ {0}, NEW d \in Nat \ {0}, NEW m \in Nat
  PROVE  Digit(m, b, d) \in 0..(d - 1)
  <1>1. m \div b \in Int
    BY DivIs
  <1>. QED
    BY <1>1, DivIs DEF Digit

\* The coordinate along an axis that one step of another one takes up whole.
LEMMA DigitBelow ==
  ASSUME NEW b \in Nat \ {0}, NEW d \in Nat \ {0}, NEW w \in Nat, NEW x \in Nat, NEW y \in Nat, Holds(w, d * b)
  PROVE  Digit(Element(x, w, y), b, d) = Digit(y, b, d)
  <1>1. PICK q \in Nat \ {0} : w = q * (d * b)
    BY DEF Holds
  <1>. DEFINE e == y \div b
              r == y % b
              g == e \div d
              h == e % d
  <1>2. e \in Int /\ r \in 0..(b - 1) /\ y = b * e + r
    BY SMTT(30), DivIs
  <1>3. g \in Int /\ h \in 0..(d - 1) /\ e = d * g + h
    BY <1>2, DivIs
  <1>. HIDE DEF e, r, g, h
  <1>4. x * w + y = b * (x * q * d + e) + r
    <2>1. x * w = b * (x * q * d)
      BY <1>1
    <2>2. x * q * d \in Int
      BY <1>1
    <2>. HIDE DEF Holds
    <2>. DEFINE z == x * q * d
    <2>3. z \in Int /\ x * w = b * z
      BY <2>1, <2>2
    <2>. HIDE DEF z
    <2>4. b * (z + e) + r = b * z + b * e + r
      BY <1>2, <2>3
    <2>5. x * w + y = b * (z + e) + r
      BY <1>2, <2>3, <2>4
    <2>. QED
      BY <2>5 DEF z
  <1>5. x * q * d + e \in Int
    BY <1>1, <1>2
  <1>6. (x * w + y) \div b = x * q * d + e
    BY <1>2, <1>4, <1>5, DivUnique
  <1>7. x * q * d + e = d * (x * q + g) + h /\ x * q + g \in Int
    BY <1>1, <1>3
  <1>8. (x * q * d + e) % d = h
    BY <1>3, <1>7, DivUnique
  <1>. QED
    BY <1>6, <1>8 DEF e, h, Digit, Element

\* The coordinate along an axis that the elements do not go along at all.
LEMMA DigitAbove ==
  ASSUME NEW b \in Nat \ {0}, NEW d \in Nat \ {0}, NEW m \in Nat, m < b
  PROVE  Digit(m, b, d) = 0
  <1>1. m = b * 0 + m /\ m \in 0..(b - 1)
    OBVIOUS
  <1>2. m \div b = 0
    BY <1>1, DivUnique
  <1>3. 0 = d * 0 + 0 /\ 0 \in 0..(d - 1)
    OBVIOUS
  <1>4. 0 % d = 0
    BY <1>3, DivUnique
  <1>. QED
    BY <1>2, <1>4 DEF Digit

\* The coordinate along the axis itself.
LEMMA DigitAt ==
  ASSUME NEW b \in Nat \ {0}, NEW d \in Nat \ {0}, NEW x \in 0..(d - 1), NEW y \in 0..(b - 1)
  PROVE  Digit(x * b + y, b, d) = x
  <1>1. x * b + y = b * x + y
    OBVIOUS
  <1>2. (x * b + y) \div b = x
    BY <1>1, DivUnique
  <1>3. x = d * 0 + x
    OBVIOUS
  <1>4. x % d = x
    BY <1>3, DivUnique
  <1>. QED
    BY <1>2, <1>4 DEF Digit

\* Element x * w + y of an array, where w is the weight of an axis and y is less,
\* is x steps along that axis from element y.
LEMMA AlongOne ==
  ASSUME NEW dims \in Seq(Nat), Product(dims) # 0, NEW o \in {"C", "F"}, NEW t \in [1..Len(dims) -> Int],
         NEW r \in 1..Len(dims), NEW x \in 0..(dims[r] - 1), NEW y \in 0..(Weight(dims, o, r) - 1)
  PROVE  /\ x * Weight(dims, o, r) + y \in 0..(Product(dims) - 1)
         /\ Dot(Coords(dims, o, y), t) \in Int
         /\ Dot(Coords(dims, o, x * Weight(dims, o, r) + y), t) = x * t[r] + Dot(Coords(dims, o, y), t)
  <1>. DEFINE n == Len(dims)
              W(i) == Weight(dims, o, i)
              m == x * W(r) + y
              f == [i \in 1..n |-> Digit(m, W(i), dims[i]) * t[i]]
              g == [i \in 1..n |-> Digit(y, W(i), dims[i]) * t[i]]
  <1>0. n \in Nat /\ DOMAIN dims = 1..n
    OBVIOUS
  <1>1. /\ \A i \in 1..n : dims[i] \in Nat \ {0} /\ W(i) \in Nat \ {0} /\ W(i) * dims[i] <= Product(dims)
        /\ \A i \in 1..n : i # r => \/ Holds(W(r), dims[i] * W(i))
                                    \/ Holds(W(i), dims[r] * W(r))
    BY WeightsNest DEF Nested
  <1>2. m \in Nat /\ m < dims[r] * W(r) /\ y \in Nat /\ x \in Nat
    <2>. DEFINE w == W(r)
                d == dims[r]
    <2>1. w \in Nat \ {0} /\ d \in Nat \ {0} /\ x \in Nat /\ x < d /\ y \in Nat /\ y < w
      BY <1>1
    <2>. HIDE DEF w, d
    <2>2. x * w + w <= d * w /\ x * w \in Nat
      BY <2>1, TimesLess
    <2>3. d * w \in Nat
      BY <2>1
    <2>4. x * w + y \in Nat /\ x * w + y < d * w
      BY SMTT(30), <2>1, <2>2, <2>3
    <2>. QED
      BY <2>1, <2>4 DEF w, d
  <1>3. m \in 0..(Product(dims) - 1)
    <2>. DEFINE w == W(r)
                d == dims[r]
                p == Product(dims)
    <2>0. 0 \in 0..Len(dims) /\ p \in Nat
      BY ProductType
    <2>1. w \in Nat \ {0} /\ d \in Nat \ {0} /\ w * d <= p /\ p \in Nat
      BY <1>1, <2>0
    <2>2. w * d = d * w
      BY <2>1
    <2>. HIDE DEF w, d, p, m
    <2>3. m \in Nat /\ m < d * w
      BY <1>2 DEF w, d
    <2>4. d * w \in Nat
      BY <2>1
    <2>5. m \in 0..(p - 1)
      BY <2>1, <2>2, <2>3, <2>4
    <2>. QED
      BY <2>5 DEF p, m
  <1>4. ASSUME NEW i \in 1..n, i # r
        PROVE  Digit(m, W(i), dims[i]) = Digit(y, W(i), dims[i])
    <2>. DEFINE b == W(i)
                d == dims[i]
                w == W(r)
    <2>1. b \in Nat \ {0} /\ d \in Nat \ {0} /\ w \in Nat \ {0} /\ dims[r] \in Nat \ {0}
      BY <1>1
    <2>2. CASE Holds(w, d * b)
      <3>0. w \in Nat /\ x \in Nat /\ y \in Nat /\ b \in Nat \ {0} /\ d \in Nat \ {0}
        BY <1>2, <2>1
      <3>. HIDE DEF b, d, w
      <3>1. Digit(Element(x, w, y), b, d) = Digit(y, b, d)
        BY <2>2, <3>0, DigitBelow
      <3>. QED
        BY <3>1 DEF b, d, w, Element
    <2>3. CASE Holds(b, dims[r] * w)
      <3>. DEFINE v == dims[r] * w
      <3>1. v \in Nat \ {0} /\ m < v /\ y < v
        <4>. DEFINE e == dims[r]
        <4>1. e \in Nat \ {0} /\ y < w /\ y \in Nat /\ 1 * w <= e * w /\ e * w \in Nat \ {0}
          <5>1. e \in Nat \ {0} /\ y < w /\ y \in Nat
            BY <2>1
          <5>2. e = 1 \/ 1 < e
            BY <5>1
          <5>. HIDE DEF e, w
          <5>3. CASE e = 1
            BY <2>1, <5>1, <5>3
          <5>4. CASE 1 < e
            <6>1. 1 * w + w <= e * w /\ e * w \in Nat /\ 1 * w = w
              BY <2>1, <5>1, <5>4, TimesLess
            <6>. QED
              BY <2>1, <5>1, <6>1
          <5>. QED
            BY <5>2, <5>3, <5>4
        <4>2. y < e * w
          <5>. DEFINE p == e * w
          <5>1. w \in Nat /\ p \in Nat /\ 1 * w <= p /\ y \in Nat /\ y < w
            BY <2>1, <4>1
          <5>. HIDE DEF e, w, p
          <5>2. 1 * w = w
            BY <5>1
          <5>3. y < p
            BY <5>1, <5>2
          <5>. QED
            BY <5>3 DEF p
        <4>. QED
          BY <1>2, <4>1, <4>2
      <3>. HIDE DEF v, b, d
      <3>2. v <= b
        BY <2>1, <2>3, <3>1, HoldsMore DEF v
      <3>3. m < b /\ y < b /\ m \in Nat /\ y \in Nat
        BY <1>2, <2>1, <3>1, <3>2
      <3>. HIDE DEF m
      <3>4. Digit(m, b, d) = 0 /\ Digit(y, b, d) = 0
        BY <2>1, <3>3, DigitAbove
      <3>. QED
        BY <3>4 DEF b, d
    <2>. QED
      BY <1>1, <1>4, <2>2, <2>3
  <1>5. Digit(m, W(r), dims[r]) = x /\ Digit(y, W(r), dims[r]) = 0
    <2>. DEFINE b == W(r)
                d == dims[r]
    <2>1. b \in Nat \ {0} /\ d \in Nat \ {0} /\ x \in 0..(d - 1) /\ y \in 0..(b - 1) /\ y < b /\ y \in Nat
      BY <1>1
    <2>. HIDE DEF b, d
    <2>2. Digit(x * b + y, b, d) = x
      BY <2>1, DigitAt
    <2>3. Digit(y, b, d) = 0
      BY <2>1, DigitAbove
    <2>. QED
      BY <2>2, <2>3 DEF b, d
  <1>6. ASSUME NEW i \in 1..n  PROVE f[i] \in Int /\ g[i] \in Int
    <2>. DEFINE b == W(i)
                d == dims[i]
    <2>1. b \in Nat \ {0} /\ d \in Nat \ {0} /\ t[i] \in Int
      BY <1>1
    <2>. HIDE DEF b, d, m
    <2>2. m \in Nat /\ y \in Nat /\ b \in Nat \ {0} /\ d \in Nat \ {0}
      BY <1>2, <2>1
    <2>3. Digit(m, b, d) \in 0..(d - 1) /\ Digit(y, b, d) \in 0..(d - 1)
      BY <2>2, DigitType, Zenon
    <2>4. Digit(m, b, d) * t[i] \in Int /\ Digit(y, b, d) * t[i] \in Int
      BY SMTT(30), <2>1, <2>3
    <2>. QED
      BY <2>4 DEF b, d
  <1>7. ASSUME NEW i \in 1..n, i # r  PROVE f[i] = g[i]
    BY <1>4, <1>7
  <1>8. f[r] = x * t[r] /\ g[r] = 0
    <2>1. f[r] = Digit(m, W(r), dims[r]) * t[r] /\ g[r] = Digit(y, W(r), dims[r]) * t[r]
      OBVIOUS
    <2>2. t[r] \in Int /\ 0 * t[r] = 0
      OBVIOUS
    <2>. HIDE DEF f, g, m
    <2>. QED
      BY <1>5, <2>1, <2>2
  <1>9. Dot(Coords(dims, o, m), t) = SumFunction(f) /\ Dot(Coords(dims, o, y), t) = SumFunction(g)
    BY <1>0 DEF Dot, Coords, Digit
  <1>10. f \in [1..n -> Int] /\ g \in [1..n -> Int]
    BY <1>6
  <1>. HIDE DEF f, g, m
  <1>11. /\ SumFunction(f) \in Int /\ SumFunction(g) \in Int
         /\ SumFunction(f) = SumFunction(g) + f[r] - g[r]
    <2>2. \A i \in 1..n : i # r => f[i] = g[i]
      BY <1>7
    <2>3. n \in Nat /\ r \in 1..n
      BY <1>0
    <2>. HIDE DEF n
    <2>. QED
      BY <1>10, <2>2, <2>3, SumsDiffer
  <1>12. x * t[r] \in Int
    OBVIOUS
  <1>13. SumFunction(f) = x * t[r] + SumFunction(g)
    BY <1>8, <1>11, <1>12
  <1>. QED
    BY <1>3, <1>9, <1>11, <1>13 DEF m

LEMMA AtZero ==
  ASSUME NEW dims \in Seq(Nat), Product(dims) # 0, NEW o \in {"C", "F"}, NEW t \in [1..Len(dims) -> Int]
  PROVE  Dot(Coords(dims, o, 0), t) = 0
  <1>. DEFINE n == Len(dims)
              f == [i \in 1..n |-> Digit(0, Weight(dims, o, i), dims[i]) * t[i]]
  <1>0. n \in Nat /\ DOMAIN dims = 1..n
    OBVIOUS
  <1>1. ASSUME NEW i \in 1..n  PROVE f[i] = 0
    <2>. DEFINE b == Weight(dims, o, i)
                d == dims[i]
    <2>1. b \in Nat \ {0} /\ d \in Nat \ {0} /\ t[i] \in Int
      BY WeightsNest DEF Nested
    <2>. HIDE DEF b, d
    <2>2. 0 \in Nat /\ 0 < b
      BY <2>1
    <2>3. Digit(0, b, d) = 0
      BY <2>1, <2>2, DigitAbove, Zenon
    <2>4. f[i] = Digit(0, b, d) * t[i]
      BY DEF b, d
    <2>. HIDE DEF f
    <2>. QED
      BY <2>1, <2>3, <2>4
  <1>2. Dot(Coords(dims, o, 0), t) = SumFunction(f)
    BY <1>0 DEF Dot, Coords, Digit
  <1>3. f = [i \in 1..n |-> f[i]]
    OBVIOUS
  <1>. HIDE DEF f, n
  <1>4. SumFunction(f) = After(f, n, 0)
    BY <1>0, <1>3, AfterAll
  <1>5. 0 \in 0..n /\ \A i \in (0 + 1)..n : f[i] = 0
    BY <1>0, <1>1
  <1>6. After(f, n, 0) = 0
    BY <1>0, <1>5, AfterZero
  <1>. QED
    BY <1>2, <1>4, <1>6

\* An axis that element m goes along, how far, and what is left.
LEMMA LargestStep ==
  ASSUME NEW dims \in Seq(Nat), Product(dims) # 0, NEW o \in {"C", "F"}, NEW m \in 1..(Product(dims) - 1)
  PROVE  \E r \in 1..Len(dims) : \E x \in 0..(dims[r] - 1) : \E y \in 0..(Weight(dims, o, r) - 1) :
           m = Element(x, Weight(dims, o, r), y) /\ y < m /\ dims[r] # 1
  <1>1. PICK r \in 1..Len(dims) : Weight(dims, o, r) <= m /\ m < Weight(dims, o, r) * dims[r]
    BY WeightsNest DEF Nested
  <1>. DEFINE w == Weight(dims, o, r)
              d == dims[r]
              x == m \div w
              y == m % w
  <1>2. w \in Nat \ {0} /\ d \in Nat \ {0} /\ m \in Nat /\ w <= m /\ m < w * d
    <2>1. w \in Nat \ {0} /\ d \in Nat \ {0}
      BY WeightsNest DEF Nested
    <2>2. m \in Nat
      BY ProductType
    <2>. QED
      BY <1>1, <2>1, <2>2
  <1>. HIDE DEF w, d
  <1>3. x \in Int /\ y \in 0..(w - 1) /\ m = w * x + y
    BY <1>2, DivIs
  <1>. HIDE DEF x, y
  <1>4. x < d
    <2>. SUFFICES ASSUME d <= x  PROVE FALSE
      BY <1>2, <1>3
    <2>1. x \in Nat /\ d \in Nat /\ w \in Nat
      BY <1>2, <1>3
    <2>2. d * w <= x * w
      <3>1. d = x \/ d < x
        BY <1>2, <1>3
      <3>2. CASE d < x
        <4>1. d * w + w <= x * w /\ d * w \in Nat /\ x * w \in Nat
          BY <2>1, <3>2, TimesLess
        <4>. QED
          BY <2>1, <4>1
      <3>. QED
        BY <1>2, <3>1, <3>2
    <2>3. w * d = d * w /\ w * x = x * w /\ d * w \in Nat /\ x * w \in Nat
      BY <2>1
    <2>. QED
      BY <1>2, <1>3, <2>2, <2>3
  <1>5. x >= 0
    <2>. SUFFICES ASSUME x < 0  PROVE FALSE
      BY <1>3
    <2>. DEFINE z == 0 - x
    <2>1. z \in Nat /\ 0 < z /\ 0 \in Nat /\ w \in Nat
      BY <1>2, <1>3
    <2>2. 0 * w + w <= z * w /\ z * w \in Nat
      <3>. HIDE DEF z
      <3>. QED
        BY <2>1, TimesLess
    <2>3. w * x = 0 - z * w /\ 0 * w = 0
      BY <1>2, <1>3
    <2>. HIDE DEF z
    <2>. QED
      BY <1>2, <1>3, <2>2, <2>3
  <1>6. d # 1
    <2>. SUFFICES ASSUME d = 1  PROVE FALSE
      OBVIOUS
    <2>1. w * d = w
      BY <1>2
    <2>. QED
      BY <1>2, <2>1
  <1>7. m = Element(x, w, y) /\ x \in 0..(d - 1) /\ y < m
    BY <1>2, <1>3, <1>4, <1>5 DEF Element
  <1>. QED
    BY <1>3, <1>6, <1>7 DEF w, d

\* The strides of an array without gaps lead to its elements one after the other.
LEMMA LiesInOrder ==
  ASSUME NEW dims \in Seq(Nat), Product(dims) # 0, NEW o \in {"C", "F"}, NEW t \in [1..Len(dims) -> Int],
         \A i \in 1..Len(dims) : dims[i] # 1 => t[i] = Weight(dims, o, i)
  PROVE  \A m \in 0..(Product(dims) - 1) : Dot(Coords(dims, o, m), t) = m
  <1>. DEFINE n == Product(dims)
              Lead(m) == Dot(Coords(dims, o, m), t)
              G == {k \in 0..n : \A m \in 0..(k - 1) : Lead(m) = m}
  <1>0. n \in Nat
    BY ProductType
  <1>1. 0 \in G
    <2>1. 0..(0 - 1) = {} /\ 0 \in 0..n
      BY <1>0
    <2>. QED
      BY <2>1
  <1>2. ASSUME NEW k \in 1..n, k - 1 \in G  PROVE k \in G
    <2>. DEFINE m == k - 1
    <2>1. m \in 0..(n - 1) /\ k \in 0..n
      BY <1>0
    <2>2. \A j \in 0..(m - 1) : Lead(j) = j
      BY <1>2
    <2>3. Lead(m) = m
      <3>1. CASE m = 0
        <4>. HIDE DEF m, n
        <4>. QED
          BY <3>1, AtZero
      <3>2. CASE m # 0
        <4>1. m \in 1..(Product(dims) - 1)
          BY <2>1, <3>2
        <4>. HIDE DEF m
        <4>. DEFINE Splits(r, x, y) == m = Element(x, Weight(dims, o, r), y) /\ y < m /\ dims[r] # 1
        <4>2. PICK r \in 1..Len(dims) : \E x \in 0..(dims[r] - 1) : \E y \in 0..(Weight(dims, o, r) - 1) : Splits(r, x, y)
          BY <4>1, LargestStep
        <4>3. PICK x \in 0..(dims[r] - 1) : \E y \in 0..(Weight(dims, o, r) - 1) : Splits(r, x, y)
          BY <4>2
        <4>4. PICK y \in 0..(Weight(dims, o, r) - 1) : Splits(r, x, y)
          BY <4>3
        <4>. DEFINE w == Weight(dims, o, r)
        <4>5. w \in Nat \ {0} /\ y \in Nat /\ x \in Int
          BY SMTT(30), WeightsNest DEF Nested
        <4>6. Lead(y) = y
          <5>1. y \in 0..(m - 1)
            BY <2>1, <4>4, <4>5
          <5>. HIDE DEF Lead
          <5>. QED
            BY <2>2, <5>1
        <4>7. Lead(x * w + y) = x * t[r] + Lead(y)
          BY AlongOne
        <4>8. t[r] = w /\ m = x * w + y
          BY <4>4 DEF Element
        <4>. HIDE DEF Lead, w
        <4>. QED
          BY <4>5, <4>6, <4>7, <4>8
      <3>. QED
        BY <3>1, <3>2
    <2>4. \A j \in 0..(k - 1) : j = m \/ j \in 0..(m - 1)
      BY <2>1
    <2>. HIDE DEF Lead, m
    <2>. QED
      BY <2>1, <2>2, <2>3, <2>4
  <1>3. G = 0..n
    <2>1. G \in SUBSET (0..n)
      OBVIOUS
    <2>. HIDE DEF G
    <2>. QED
      BY <1>0, <1>1, <1>2, <2>1, UpTo
  <1>4. n \in G
    BY <1>0, <1>3
  <1>. QED
    BY <1>4

-----------------------------------------------------------------------------
(* The flags.                                                              *)

Updated(a) == /\ a.C = IsContiguous(a)
              /\ a.F = (IsFortranContiguous(a) /\ ~(IsContiguous(a) /\ Nd(a) > 1))

Fresh(a, o) == /\ a.strides = Filled(a.dims, o)
               /\ a.C = (o = "C" \/ Nd(a) = 1)
               /\ a.F = (o = "F" \/ Nd(a) = 1)

\* The flags are those NpyArray_UpdateFlags gives, or those of a new array.
FlagsKnown(a) == Updated(a) \/ \E o \in {"C", "F"} : Fresh(a, o)

Axes(a) == a.dims \in Seq(Nat) /\ a.strides \in Seq(Int) /\ Len(a.strides) = Len(a.dims)

\* The strides are those of an array without gaps in the order o.
Packed(a, o) == \A i \in 1..Len(a.dims) : a.dims[i] # 1 => a.strides[i] = Weight(a.dims, o, i)

LEMMA LongerOf ==
  ASSUME NEW x \in Nat
  PROVE  Max({x, 1}) \in Nat \ {0} /\ (x # 0 => Max({x, 1}) = x) /\ (x = 0 => Max({x, 1}) = 1)
  <1>. DEFINE S == {x, 1}
  <1>1. S \in SUBSET Int
    OBVIOUS
  <1>2. CASE x = 0
    <2>1. 1 \in S /\ \A y \in S : 1 >= y
      BY <1>2
    <2>2. Max(S) = 1
      <3>. HIDE DEF S
      <3>. QED
        BY <1>1, <2>1, MaxIs
    <2>. QED
      BY <1>2, <2>2
  <1>3. CASE x # 0
    <2>1. x \in S /\ \A y \in S : x >= y
      BY <1>3
    <2>2. Max(S) = x
      <3>. HIDE DEF S
      <3>. QED
        BY <1>1, <2>1, MaxIs
    <2>. QED
      BY <1>3, <2>2
  <1>. QED
    BY <1>2, <1>3

\* The shape whose weights the strides of a new array are.
Longer(dims) == [i \in DOMAIN dims |-> Max({dims[i], 1})]

LEMMA LongerIs ==
  ASSUME NEW dims \in Seq(Nat)
  PROVE  /\ Longer(dims) \in Seq(Nat) /\ Len(Longer(dims)) = Len(dims)
         /\ Product(dims) # 0 => Longer(dims) = dims
         /\ \A i \in 1..Len(dims) : dims[i] # 0 => Longer(dims)[i] = dims[i]
  <1>. DEFINE n == Len(dims)
  <1>1. n \in Nat /\ DOMAIN dims = 1..n /\ \A i \in 1..n : dims[i] \in Nat
    OBVIOUS
  <1>2. \A i \in 1..n : /\ Max({dims[i], 1}) \in Nat
                        /\ (dims[i] # 0 => Max({dims[i], 1}) = dims[i])
    BY <1>1, LongerOf
  <1>3. Longer(dims) = [i \in 1..n |-> Max({dims[i], 1})]
    BY <1>1 DEF Longer
  <1>4. Longer(dims) \in Seq(Nat) /\ Len(Longer(dims)) = n
    <2>. HIDE DEF n
    <2>. QED
      BY <1>1, <1>2, <1>3
  <1>5. ASSUME Product(dims) # 0  PROVE Longer(dims) = dims
    <2>1. \A i \in 1..n : dims[i] # 0
      BY <1>5, NoEmptyAxis
    <2>2. \A i \in 1..n : Longer(dims)[i] = dims[i]
      BY <1>2, <1>3, <2>1
    <2>3. dims = [i \in 1..n |-> dims[i]]
      BY <1>1
    <2>. QED
      BY <1>2, <1>3, <2>1, <2>3
  <1>6. \A i \in 1..n : dims[i] # 0 => Longer(dims)[i] = dims[i]
    BY <1>2, <1>3
  <1>. QED
    BY <1>4, <1>5, <1>6

LEMMA FilledIs ==
  ASSUME NEW dims \in Seq(Nat), NEW o
  PROVE  Filled(dims, o) = [i \in 1..Len(dims) |-> Weight(Longer(dims), o, i)]
  <1>1. DOMAIN Longer(dims) = 1..Len(dims)
    BY DEF Longer
  <1>2. Filled(dims, o) = Weights(Longer(dims), o)
    BY DEF Filled, Longer
  <1>. QED
    BY <1>1, <1>2 DEF Weights

LEMMA ContiguousIs ==
  ASSUME NEW a, Axes(a), Product(a.dims) # 0
  PROVE  /\ IsContiguous(a) => Packed(a, "C")
         /\ IsFortranContiguous(a) => Packed(a, "F")
  <1>. DEFINE n == Len(a.dims)
              empty == {i \in DOMAIN a.dims : a.dims[i] = 0}
  <1>0. n \in Nat /\ a.dims \in Seq(Nat) /\ DOMAIN a.dims = 1..n
    BY DEF Axes
  <1>1. empty = {}
    <2>1. \A i \in 1..n : a.dims[i] # 0
      BY <1>0, NoEmptyAxis
    <2>. QED
      BY <1>0, <2>1
  <1>2. Max(empty \cup {0}) = 0
    <2>1. empty \cup {0} = {0}
      BY <1>1
    <2>. HIDE DEF empty
    <2>2. {0} \in SUBSET Int /\ 0 \in {0} /\ \A y \in {0} : 0 >= y
      OBVIOUS
    <2>. QED
      BY <2>1, <2>2, MaxIs
  <1>3. CASE n = 1
    <2>1. 1 \in 1..n
      BY <1>3
    <2>2. Weight(a.dims, "C", 1) = 1 /\ Weight(a.dims, "F", 1) = 1
      <3>1. Below(a.dims, Len(a.dims)) = 1 /\ Ahead(a.dims, 1) = 1
        BY <1>0, BelowStep, AheadStep
      <3>. QED
        BY <1>0, <1>3, <2>1, <3>1, WeightIs
    <2>3. \A i \in 1..n : i = 1
      BY <1>3
    <2>4. ASSUME IsContiguous(a)  PROVE a.dims[1] # 1 => a.strides[1] = 1
      BY <1>3, <2>4 DEF IsContiguous
    <2>5. ASSUME IsFortranContiguous(a)  PROVE a.dims[1] # 1 => a.strides[1] = 1
      BY <1>3, <2>5 DEF IsFortranContiguous
    <2>. QED
      BY <2>2, <2>3, <2>4, <2>5 DEF Packed
  <1>4. CASE n # 1
    <2>1. ASSUME IsContiguous(a), NEW i \in 1..n  PROVE a.strides[i] = Below(a.dims, i)
      <3>1. \A j \in DOMAIN a.dims : j > Max(empty \cup {0}) => a.strides[j] = Below(a.dims, j)
        BY <1>4, <2>1 DEF IsContiguous
      <3>. HIDE DEF empty
      <3>2. i > 0
        OBVIOUS
      <3>. QED
        BY <1>0, <1>2, <3>1, <3>2
    <2>2. ASSUME IsFortranContiguous(a), NEW i \in 1..n  PROVE a.strides[i] = Ahead(a.dims, i)
      <3>1. \A j \in DOMAIN a.dims : (\A k \in empty : j < k) => a.strides[j] = Product(SubSeq(a.dims, 1, j - 1))
        BY <1>4, <2>2 DEF IsFortranContiguous
      <3>. HIDE DEF empty
      <3>2. a.strides[i] = Product(SubSeq(a.dims, 1, i - 1))
        BY <1>0, <1>1, <3>1
      <3>. QED
        BY <3>2 DEF Ahead
    <2>. QED
      BY <1>0, <2>1, <2>2, WeightIs DEF Packed
  <1>. QED
    BY <1>3, <1>4

\* The one axis of an array is one step after the other in either order.
LEMMA OneWeight ==
  ASSUME NEW dims \in Seq(Nat), Len(dims) = 1, NEW o
  PROVE  Weight(dims, o, 1) = 1
  <1>1. Below(dims, Len(dims)) = 1 /\ Ahead(dims, 1) = 1
    BY BelowStep, AheadStep
  <1>2. Below(dims, 1) = 1 /\ Product(SubSeq(dims, 1, 1 - 1)) = 1
    BY <1>1 DEF Ahead
  <1>. QED
    BY <1>2 DEF Weight, Prefix

LEMMA FreshPacked ==
  ASSUME NEW a, Axes(a), Product(a.dims) # 0, NEW o \in {"C", "F"}, Fresh(a, o)
  PROVE  (a.C => Packed(a, "C")) /\ (a.F => Packed(a, "F"))
  <1>. DEFINE n == Len(a.dims)
  <1>0. n \in Nat /\ a.dims \in Seq(Nat)
    BY DEF Axes
  <1>1. \A i \in 1..n : a.strides[i] = Weight(a.dims, o, i)
    <2>1. Longer(a.dims) = a.dims
      BY <1>0, LongerIs
    <2>. QED
      BY <1>0, <2>1, FilledIs DEF Fresh
  <1>2. CASE n = 1
    <2>1. \A p \in {"C", "F"} : \A i \in 1..n : Weight(a.dims, p, i) = 1
      <3>1. \A i \in 1..n : i = 1
        BY <1>2
      <3>. QED
        BY <1>0, <1>2, <3>1, OneWeight
    <2>. QED
      BY <1>1, <2>1 DEF Packed
  <1>3. CASE n # 1
    BY <1>1, <1>3 DEF Packed, Fresh, Nd
  <1>. QED
    BY <1>2, <1>3

LEMMA FreshContiguous ==
  ASSUME NEW a, Axes(a), NEW o \in {"C", "F"}, Fresh(a, o)
  PROVE  IsContiguous(a) \/ IsFortranContiguous(a)
  <1>. DEFINE dims == a.dims
              n == Len(dims)
              empty == {i \in DOMAIN dims : dims[i] = 0}
              long == Longer(dims)
  <1>0. n \in Nat /\ dims \in Seq(Nat) /\ DOMAIN dims = 1..n
    BY DEF Axes
  <1>1. /\ long \in Seq(Nat) /\ Len(long) = n
        /\ \A i \in 1..n : dims[i] # 0 => long[i] = dims[i]
    BY <1>0, LongerIs
  <1>2. \A i \in 1..n : a.strides[i] = Weight(long, o, i)
    BY <1>0, FilledIs DEF Fresh
  <1>. HIDE DEF long
  <1>3. CASE n = 1
    <2>1. 1 \in 1..n
      BY <1>3
    <2>2. a.strides[1] = 1
      BY <1>1, <1>2, <1>3, <2>1, OneWeight
    <2>. QED
      BY <1>3, <2>2 DEF IsContiguous
  <1>4. CASE n # 1 /\ o = "C"
    <2>1. ASSUME NEW i \in 1..n, i > Max(empty \cup {0})  PROVE a.strides[i] = Below(dims, i)
      <3>. DEFINE s == empty \cup {0}
      <3>1. s \in SUBSET (0..n) /\ s # {}
        BY <1>0
      <3>2. Max(s) \in s /\ \A y \in s : Max(s) >= y
        <4>. HIDE DEF s
        <4>. QED
          BY <1>0, <3>1, MaxOf
      <3>3. Max(s) \in 0..n
        BY <3>1, <3>2
      <3>4. ASSUME NEW j \in (i + 1)..n  PROVE long[j] = dims[j]
        <4>1. j \in 1..n
          OBVIOUS
        <4>2. j \notin s
          <5>1. i > Max(s)
            BY <2>1
          <5>2. i \in Int /\ j \in Int /\ j > i
            OBVIOUS
          <5>. HIDE DEF s
          <5>3. Max(s) \in Int
            BY <3>3
          <5>. QED
            BY <3>2, <5>1, <5>2, <5>3
        <4>. QED
          BY <1>0, <1>1, <4>1, <4>2
      <3>5. SubSeq(long, i + 1, n) = SubSeq(dims, i + 1, n)
        <4>1. SubSeq(long, i + 1, n) = [k \in 1..(n - i) |-> long[k + i]]
          BY <1>0, <1>1
        <4>2. SubSeq(dims, i + 1, n) = [k \in 1..(n - i) |-> dims[k + i]]
          <5>. HIDE DEF dims
          <5>. QED
            BY <1>0
        <4>3. \A k \in 1..(n - i) : k + i \in (i + 1)..n
          BY <1>0
        <4>4. \A k \in 1..(n - i) : long[k + i] = dims[k + i]
          BY <3>4, <4>3
        <4>. QED
          BY <4>1, <4>2, <4>4
      <3>6. Weight(long, o, i) = Below(long, i)
        BY <1>4 DEF Weight
      <3>. QED
        BY <1>1, <1>2, <3>5, <3>6 DEF Below
    <2>2. \A i \in DOMAIN dims : i > Max(empty \cup {0}) => a.strides[i] = Below(dims, i)
      BY <1>0, <2>1
    <2>. QED
      BY <1>4, <2>2 DEF IsContiguous
  <1>5. CASE n # 1 /\ o = "F"
    <2>1. ASSUME NEW i \in 1..n, \A j \in empty : i < j  PROVE a.strides[i] = Product(SubSeq(dims, 1, i - 1))
      <3>4. ASSUME NEW j \in 1..(i - 1)  PROVE long[j] = dims[j]
        <4>1. j \in 1..n /\ ~(i < j)
          OBVIOUS
        <4>2. j \notin empty
          BY <2>1, <4>1
        <4>. QED
          BY <1>0, <1>1, <4>1, <4>2
      <3>5. SubSeq(long, 1, i - 1) = SubSeq(dims, 1, i - 1)
        <4>1. SubSeq(long, 1, i - 1) = [k \in 1..(i - 1) |-> long[k]]
          BY <1>0, <1>1
        <4>2. SubSeq(dims, 1, i - 1) = [k \in 1..(i - 1) |-> dims[k]]
          <5>. HIDE DEF dims
          <5>. QED
            BY <1>0
        <4>. QED
          BY <3>4, <4>1, <4>2
      <3>6. Weight(long, o, i) = Product(SubSeq(long, 1, i - 1))
        BY <1>5 DEF Weight, Prefix
      <3>. QED
        BY <1>2, <3>5, <3>6
    <2>2. \A i \in DOMAIN dims : (\A j \in empty : i < j) => a.strides[i] = Product(SubSeq(dims, 1, i - 1))
      BY <1>0, <2>1
    <2>. QED
      BY <1>5, <2>2 DEF IsFortranContiguous
  <1>. QED
    BY <1>3, <1>4, <1>5

\* What FlagsTrue says of one array.
FlagsTell(a) ==
  /\ a.C => \A n \in 0..(Size(a) - 1) : Address(a, "C", n) = a.data + n
  /\ a.F => \A n \in 0..(Size(a) - 1) : Address(a, "F", n) = a.data + n
  /\ OneSegment(a) <=> OneSegment(UpdateFlags(a))
  /\ Nd(a) > 1 => ~(a.C /\ a.F)
  /\ Nd(a) = 1 => (a.C <=> a.F)

Arrays == [dims : Seq(Nat), strides : Seq(Int), data : Int, block : Nat, base : Nat,
           owns : BOOLEAN, C : BOOLEAN, F : BOOLEAN]

LEMMA FlagsAreTrue ==
  ASSUME NEW a \in Arrays, Axes(a), FlagsKnown(a)
  PROVE  FlagsTell(a)
  <1>. DEFINE dims == a.dims
              n == Len(dims)
  <1>0. n \in Nat /\ dims \in Seq(Nat) /\ Nd(a) = n /\ Size(a) = Product(dims)
    BY DEF Axes, Nd, Size
  <1>1. ASSUME Product(dims) # 0
        PROVE  (a.C => Packed(a, "C")) /\ (a.F => Packed(a, "F"))
    BY <1>1, ContiguousIs, FreshPacked DEF FlagsKnown, Updated
  <1>2. ASSUME NEW o \in {"C", "F"}, Packed(a, o), NEW m \in 0..(Product(dims) - 1)
        PROVE  Address(a, o, m) = a.data + m
    <2>1. Product(dims) # 0
      BY <1>0
    <2>2. a.strides \in [1..n -> Int] /\ \A i \in 1..n : dims[i] # 1 => a.strides[i] = Weight(dims, o, i)
      BY <1>2 DEF Packed, Axes
    <2>3. Dot(Coords(dims, o, m), a.strides) = m
      <3>. HIDE DEF dims
      <3>. QED
        BY <1>0, <1>2, <2>1, <2>2, LiesInOrder
    <2>. QED
      BY <2>3 DEF Address
  <1>3. ASSUME NEW o \in {"C", "F"}, o = "C" => a.C, o = "F" => a.F
        PROVE  \A m \in 0..(Size(a) - 1) : Address(a, o, m) = a.data + m
    <2>1. CASE Product(dims) = 0
      <3>1. 0..(Size(a) - 1) = {}
        BY <1>0, <2>1
      <3>. QED
        BY <3>1
    <2>2. CASE Product(dims) # 0
      <3>1. Packed(a, o)
        BY <1>1, <1>3, <2>2
      <3>. QED
        BY <1>0, <1>2, <3>1
    <2>. QED
      BY <2>1, <2>2
  <1>4. OneSegment(a) <=> OneSegment(UpdateFlags(a))
    <2>. DEFINE b == UpdateFlags(a)
    <2>1. /\ b.dims = dims /\ b.C = IsContiguous(a)
          /\ b.F = (IsFortranContiguous(a) /\ ~(IsContiguous(a) /\ Nd(a) > 1))
      BY DEF UpdateFlags, Arrays
    <2>2. OneSegment(b) <=> n = 0 \/ IsContiguous(a) \/ IsFortranContiguous(a)
      BY <2>1 DEF OneSegment, Nd
    <2>3. OneSegment(a) <=> n = 0 \/ a.C \/ a.F
      BY DEF OneSegment, Nd
    <2>4. CASE Updated(a)
      BY <2>2, <2>3, <2>4 DEF Updated
    <2>5. CASE \E o \in {"C", "F"} : Fresh(a, o)
      <3>1. PICK o \in {"C", "F"} : Fresh(a, o)
        BY <2>5
      <3>2. a.C \/ a.F
        BY <3>1 DEF Fresh
      <3>3. IsContiguous(a) \/ IsFortranContiguous(a)
        BY <3>1, FreshContiguous
      <3>. QED
        BY <2>2, <2>3, <3>2, <3>3
    <2>. QED
      BY <2>4, <2>5 DEF FlagsKnown
  <1>5. /\ Nd(a) > 1 => ~(a.C /\ a.F)
        /\ Nd(a) = 1 => (a.C <=> a.F)
    <2>1. CASE Updated(a)
      <3>1. Nd(a) = 1 => (IsContiguous(a) <=> IsFortranContiguous(a))
        BY DEF IsContiguous, IsFortranContiguous, Nd
      <3>2. ~(Nd(a) = 1 /\ Nd(a) > 1)
        <4>1. ~(1 > 1)
          OBVIOUS
        <4>. QED
          BY <4>1, Zenon
      <3>. QED
        BY <2>1, <3>1, <3>2 DEF Updated
    <2>2. CASE \E o \in {"C", "F"} : Fresh(a, o)
      <3>1. PICK o \in {"C", "F"} : Fresh(a, o)
        BY <2>2
      <3>2. ~(Nd(a) = 1 /\ Nd(a) > 1)
        <4>1. ~(1 > 1)
          OBVIOUS
        <4>. QED
          BY <4>1, Zenon
      <3>. QED
        BY <3>1, <3>2 DEF Fresh
    <2>. QED
      BY <2>1, <2>2 DEF FlagsKnown
  <1>6. a.C => \A m \in 0..(Size(a) - 1) : Address(a, "C", m) = a.data + m
    BY <1>3
  <1>7. a.F => \A m \in 0..(Size(a) - 1) : Address(a, "F", m) = a.data + m
    BY <1>3
  <1>. QED
    BY <1>4, <1>5, <1>6, <1>7 DEF FlagsTell

-----------------------------------------------------------------------------
(* Whether a gap between two axes leaves a view of another shape.          *)

\* c steps of w elements each go t along, from any of the first w elements.
Goes(f, w, c, t) == \A x \in 0..(c - 1) : \A y \in 0..(w - 1) : f[Element(x, w, y)] = x * t + f[y]

Follows(f, w, c, t) == \A m \in Nat : m + w < w * c => f[m + w] = f[m] + t
FromInts(f, w)      == \A y \in 0..(w - 1) : f[y] \in Int

LEMMA GoesOn ==
  ASSUME NEW f, NEW w \in Nat \ {0}, NEW c \in Nat \ {0}, NEW t \in Int,
         Goes(f, w, c, t), FromInts(f, w)
  PROVE  Follows(f, w, c, t)
  <1>. SUFFICES ASSUME NEW m \in Nat, m + w < w * c  PROVE f[m + w] = f[m] + t
    BY DEF Follows
  <1>. DEFINE x == m \div w
              y == m % w
  <1>1. x \in Int /\ y \in 0..(w - 1) /\ m = w * x + y
    <2>1. m \in Int
      OBVIOUS
    <2>. QED
      BY <2>1, DivIs, Zenon
  <1>. HIDE DEF x, y
  <1>2. x >= 0
    <2>. SUFFICES ASSUME x < 0  PROVE FALSE
      BY <1>1
    <2>. DEFINE z == 0 - x
    <2>1. z \in Nat /\ 0 < z /\ 0 \in Nat /\ w \in Nat
      BY <1>1
    <2>2. 0 * w + w <= z * w /\ z * w \in Nat
      <3>. HIDE DEF z
      <3>. QED
        BY <2>1, TimesLess
    <2>3. w * x = 0 - z * w /\ 0 * w = 0
      BY <1>1
    <2>. HIDE DEF z
    <2>. QED
      BY <1>1, <2>2, <2>3
  <1>3. x + 1 < c
    <2>. SUFFICES ASSUME c <= x + 1  PROVE FALSE
      BY <1>1
    <2>. DEFINE z == x + 1
    <2>1. z \in Nat /\ c \in Nat /\ w \in Nat
      BY <1>1, <1>2
    <2>2. c * w <= z * w
      <3>1. c = z \/ c < z
        BY <2>1
      <3>. HIDE DEF z
      <3>2. CASE c < z
        <4>1. c * w + w <= z * w /\ c * w \in Nat /\ z * w \in Nat
          BY <2>1, <3>2, TimesLess
        <4>. QED
          BY <2>1, <4>1
      <3>3. CASE c = z
        <4>1. c * w \in Nat
          BY <2>1
        <4>. QED
          BY <3>3, <4>1
      <3>. QED
        BY <3>1, <3>2, <3>3
    <2>3. z * w = w * x + w /\ w * c = c * w /\ c * w \in Nat /\ w * x \in Int
      BY <1>1
    <2>. HIDE DEF z
    <2>. QED
      BY <1>1, <2>2, <2>3
  <1>4. x \in 0..(c - 1) /\ x + 1 \in 0..(c - 1)
    BY <1>1, <1>2, <1>3
  <1>5. f[Element(x, w, y)] = x * t + f[y] /\ f[Element(x + 1, w, y)] = (x + 1) * t + f[y]
    BY <1>1, <1>4, Zenon DEF Goes
  <1>6. Element(x, w, y) = m /\ Element(x + 1, w, y) = m + w
    BY <1>1 DEF Element
  <1>7. (x + 1) * t = x * t + t /\ x * t \in Int /\ f[y] \in Int
    BY <1>1 DEF FromInts
  <1>8. f[m] = x * t + f[y] /\ f[m + w] = (x + 1) * t + f[y]
    BY <1>5, <1>6
  <1>. QED
    BY <1>7, <1>8

\* Two axes of an array, a step along the outer one as far as all d steps of s
\* along the inner one take up, and an axis of another shape that takes up
\* the outer step and is not a whole number of them: with all three in the
\* same elements, the outer step goes d times as far as the inner one.
LEMMA OneStride ==
  ASSUME NEW n \in Nat, NEW f,
         NEW E \in Nat \ {0}, NEW d \in Nat, NEW s \in Int,
         NEW P \in Nat, NEW e \in Nat, NEW u \in Int,
         NEW w \in Nat \ {0}, NEW c \in Nat, NEW t \in Int,
         FromInts(f, n), f[0] = 0,
         Goes(f, E, d, s), d > 1,
         Goes(f, P, e, u), e > 1, P = E * d, P * e <= n,
         Goes(f, w, c, t), c > 1, w * c <= n, w < P, P < w * c
  PROVE  u = d * s
  <1>a. \A m \in 0..(n - 1) : f[m] \in Int
    BY DEF FromInts
  <1>0. /\ w \in Int /\ E \in Int /\ w > 0 /\ E > 0 /\ w * c \in Nat
        /\ P <= n /\ E < P /\ w < n
    <2>1. E * d >= E + E
      <3>1. 1 * E + E <= d * E /\ d * E = E * d /\ 1 * E = E
        BY TimesLess
      <3>. QED
        BY <3>1
    <2>2. P * e >= P
      <3>1. 1 * P + P <= e * P /\ e * P = P * e /\ 1 * P = P
        BY TimesLess
      <3>. QED
        BY <3>1
    <2>3. w * c \in Nat /\ P * e \in Nat
      OBVIOUS
    <2>. QED
      BY <2>1, <2>2, <2>3
  <1>1. ASSUME NEW m \in Nat, m + w < w * c  PROVE f[m + w] = f[m] + t
    <2>1. FromInts(f, w)
      <3>1. \A y \in 0..(w - 1) : y \in 0..(n - 1)
        BY <1>0
      <3>. QED
        BY <1>a, <3>1 DEF FromInts
    <2>2. c \in Nat \ {0} /\ w \in Nat \ {0} /\ t \in Int /\ m \in Nat
      OBVIOUS
    <2>3. Goes(f, w, c, t) /\ m + w < w * c
      BY <1>1
    <2>. QED
      <3>1. Follows(f, w, c, t)
        BY <2>1, <2>2, <2>3, GoesOn
      <3>. QED
        BY <2>2, <2>3, <3>1 DEF Follows
  <1>2. \A x \in 0..(d - 1) : \A y \in 0..(E - 1) : f[Element(x, E, y)] = x * s + f[y]
    BY DEF Goes
  <1>3. \A x \in 0..(e - 1) : \A y \in 0..(P - 1) : f[Element(x, P, y)] = x * u + f[y]
    BY DEF Goes
  <1>4. f[w] = t
    <2>1. w < w * c
      <3>1. 1 * w + w <= c * w /\ c * w = w * c /\ 1 * w = w
        BY TimesLess
      <3>. QED
        BY <1>0, <3>1
    <2>2. f[0 + w] = f[0] + t /\ 0 + w = w /\ 0 + t = t
      BY <1>0, <1>1, <2>1
    <2>. QED
      BY <2>2
  <1>5. f[P] = u
    <2>1. 1 \in 0..(e - 1) /\ 0 \in 0..(P - 1)
      BY <1>0
    <2>2. f[Element(1, P, 0)] = 1 * u + f[0]
      BY <1>3, <2>1
    <2>3. Element(1, P, 0) = P /\ 1 * u + 0 = u
      BY DEF Element
    <2>. QED
      BY <2>2, <2>3
  <1>6. f[P] = f[P - w] + t /\ P - w \in Nat /\ f[P - w] \in Int
    <2>1. P - w \in Nat /\ (P - w) + w = P /\ P - w \in 0..(n - 1)
      BY <1>0
    <2>. QED
      BY <1>1, <1>a, <2>1
  <1>7. CASE w <= E
    <2>1. E - w \in 0..(E - 1) /\ d - 1 \in 0..(d - 1) /\ 1 \in 0..(d - 1) /\ 0 \in 0..(E - 1)
      BY <1>0, <1>7
    <2>2. f[Element(d - 1, E, E - w)] = (d - 1) * s + f[E - w]
      BY <1>2, <2>1
    <2>3. Element(d - 1, E, E - w) = P - w
      <3>1. (d - 1) * E = E * d - E
        OBVIOUS
      <3>. QED
        BY <3>1 DEF Element
    <2>4. f[Element(1, E, 0)] = 1 * s + f[0] /\ Element(1, E, 0) = E /\ 1 * s + 0 = s
      <3>1. f[Element(1, E, 0)] = 1 * s + f[0]
        BY <1>2, <2>1
      <3>2. Element(1, E, 0) = E /\ 1 * s + 0 = s
        BY <1>0 DEF Element
      <3>. QED
        BY <3>1, <3>2
    <2>5. f[(E - w) + w] = f[E - w] + t /\ (E - w) + w = E
      BY <1>0, <1>1, <1>7
    <2>6. E - w \in 0..(n - 1)
      BY <1>0, <1>7
    <2>. DEFINE q == f[E - w]
    <2>7. q \in Int /\ t \in Int
      BY <1>a, <2>6
    <2>8. f[P] = ((d - 1) * s + q) + t /\ s = q + t
      BY <1>6, <2>2, <2>3, <2>4, <2>5
    <2>9. (d - 1) * s = d * s - s /\ d * s \in Int
      OBVIOUS
    <2>. HIDE DEF q
    <2>. QED
      BY <1>5, <2>7, <2>8, <2>9
  <1>8. CASE E < w
    <2>. DEFINE a == w \div E
                b == w % E
    <2>1. a \in Int /\ b \in 0..(E - 1) /\ w = E * a + b
      BY <1>0, DivIs, Zenon
    <2>. HIDE DEF a, b
    <2>2. a > 0
      <3>. SUFFICES ASSUME a <= 0  PROVE FALSE
        BY <2>1
      <3>. DEFINE z == 0 - a
      <3>1. z \in Nat /\ z * E >= 0 /\ E * a = 0 - z * E
        BY <2>1
      <3>. QED
        BY <1>0, <1>8, <2>1, <3>1
    <2>3. a < d
      <3>. SUFFICES ASSUME d <= a  PROVE FALSE
        BY <2>1
      <3>1. E * d <= E * a
        <4>1. d = a \/ d < a
          BY <2>1
        <4>2. CASE d < a
          <5>1. d * E + E <= a * E /\ d * E = E * d /\ a * E = E * a /\ E * d \in Nat
            BY <2>1, <2>2, <4>2, TimesLess
          <5>. QED
            BY <2>1, <5>1
        <4>. QED
          BY <4>1, <4>2
      <3>. QED
        BY <2>1, <3>1
    <2>4. a \in 0..(d - 1) /\ d - a \in 0..(d - 1) /\ 0 \in 0..(E - 1)
      BY <1>0, <2>1, <2>2, <2>3
    <2>5. f[Element(a, E, b)] = a * s + f[b] /\ Element(a, E, b) = w
      BY <1>2, <2>1, <2>4 DEF Element
    <2>6. f[b] \in Int
      <3>1. b \in 0..(n - 1)
        BY <1>0, <2>1
      <3>. QED
        BY <1>a, <3>1
    <2>7. t = a * s + f[b]
      BY <1>4, <2>5
    <2>8. CASE b = 0
      <3>1. f[Element(d - a, E, 0)] = (d - a) * s + f[0]
        BY <1>2, <2>4
      <3>2. Element(d - a, E, 0) = P - w
        <4>1. (d - a) * E = E * d - E * a
          BY <2>1
        <4>. QED
          BY <2>1, <2>8, <4>1 DEF Element
      <3>3. (d - a) * s + a * s = d * s /\ (d - a) * s \in Int /\ a * s \in Int
        BY <2>1
      <3>. QED
        BY <1>5, <1>6, <2>7, <2>8, <3>1, <3>2, <3>3
    <2>9. CASE b # 0
      <3>. DEFINE p == f[E - b]
                  q == f[b]
      <3>1. E - b \in 0..(E - 1) /\ E - b \in 0..(n - 1) /\ E - b \in Nat /\ d - 1 - a \in 0..(d - 1)
        BY <1>0, <2>1, <2>2, <2>3, <2>9
      <3>2. p \in Int /\ q \in Int
        BY <1>a, <2>6, <3>1
      <3>3. f[Element(d - 1 - a, E, E - b)] = (d - 1 - a) * s + p
        BY <1>2, <3>1
      <3>4. Element(d - 1 - a, E, E - b) = P - w
        <4>1. (d - 1 - a) * E = E * d - E - E * a
          BY <2>1
        <4>. QED
          BY <2>1, <4>1 DEF Element
      <3>5. (d - 1 - a) * s + a * s = d * s - s /\ (d - 1 - a) * s \in Int /\ a * s \in Int /\ d * s \in Int
        BY <2>1
      <3>6. u = d * s - s + p + q
        <4>. HIDE DEF p, q
        <4>1. u = ((d - 1 - a) * s + p) + (a * s + q)
          BY <1>5, <1>6, <2>7, <3>3, <3>4 DEF q
        <4>. QED
          BY <3>2, <3>5, <4>1
      <3>7. CASE a + 1 < d
        <4>1. a + 1 \in 0..(d - 1)
          BY <2>1, <2>2, <3>7
        <4>2. f[Element(a + 1, E, 0)] = (a + 1) * s + f[0]
          BY <1>2, <2>4, <4>1
        <4>3. (E - b) + w = E * a + E /\ (a + 1) * E = E * a + E /\ (a + 1) * E + E <= d * E /\ d * E = P
          <5>1. a + 1 \in Nat /\ a + 1 < d /\ d \in Nat /\ E \in Nat
            BY <2>1, <2>2, <3>7
          <5>2. (a + 1) * E + E <= d * E
            BY <5>1, TimesLess
          <5>. QED
            BY <2>1, <5>2
        <4>4. (E - b) + w < w * c /\ Element(a + 1, E, 0) = (E - b) + w
          <5>1. E * a \in Int
            BY <2>1
          <5>. QED
            BY <1>0, <4>3, <5>1 DEF Element
        <4>5. f[(E - b) + w] = p + t
          BY <1>1, <3>1, <4>4
        <4>6. (a + 1) * s = a * s + s /\ (a + 1) * s + 0 = a * s + s
          BY <2>1
        <4>. HIDE DEF p, q
        <4>7. a * s + s = p + (a * s + q)
          BY <2>7, <4>2, <4>4, <4>5, <4>6 DEF q
        <4>. QED
          BY <3>2, <3>5, <3>6, <4>7
      <3>8. CASE a + 1 = d
        <4>1. E + w = P + b
          <5>1. E * d = E * a + E
            BY <2>1, <3>8
          <5>. QED
            BY <2>1, <5>1
        <4>2. E + w < w * c
          <5>1. 1 * w + w <= c * w /\ c * w = w * c /\ 1 * w = w
            BY TimesLess
          <5>. QED
            BY <1>0, <1>8, <5>1
        <4>3. f[E + w] = f[E] + t
          BY <1>0, <1>1, <4>2
        <4>4. f[Element(1, E, 0)] = 1 * s + f[0] /\ Element(1, E, 0) = E /\ 1 * s + 0 = s
          <5>1. 1 \in 0..(d - 1)
            OBVIOUS
          <5>2. f[Element(1, E, 0)] = 1 * s + f[0]
            BY <1>2, <2>4, <5>1
          <5>3. Element(1, E, 0) = E /\ 1 * s + 0 = s
            BY <1>0 DEF Element
          <5>. QED
            BY <5>2, <5>3
        <4>5. f[Element(1, P, b)] = 1 * u + f[b] /\ Element(1, P, b) = P + b /\ 1 * u = u
          <5>1. 1 \in 0..(e - 1) /\ b \in 0..(P - 1)
            BY <1>0, <2>1
          <5>2. f[Element(1, P, b)] = 1 * u + f[b]
            BY <1>3, <5>1
          <5>. QED
            BY <2>1, <5>2 DEF Element
        <4>6. u + q = s + (a * s + q)
          BY <2>7, <4>1, <4>3, <4>4, <4>5
        <4>7. a * s = d * s - s
          BY <2>1, <3>8
        <4>. HIDE DEF q
        <4>. QED
          BY <3>2, <3>5, <4>6, <4>7
      <3>. QED
        BY <2>1, <2>3, <3>7, <3>8
    <2>. QED
      BY <2>8, <2>9
  <1>. QED
    BY <1>0, <1>7, <1>8

\* The numbers of a set of axes in their order.
LEMMA AscendingOf ==
  ASSUME NEW n \in Nat, NEW S \in SUBSET (1..n)
  PROVE  Cardinality(S) \in Nat /\ Enumerates(Ascending(S), Cardinality(S), S)
  <1>. DEFINE U(m) == {p \in S : p <= m}
              G == {m \in 0..n : \E c \in Nat : \E f : Enumerates(f, c, U(m))}
  <1>0. \A p \in S : p \in 1..n /\ p \in Int
    OBVIOUS
  <1>a. U(0) = {} /\ U(n) = S
    <2>. HIDE DEF G
    <2>1. \A p : p \in U(0) <=> FALSE
      <3>1. \A p \in S : ~(p <= 0)
        BY <1>0
      <3>. QED
        BY <3>1, Zenon
    <2>2. \A p : p \in U(n) <=> p \in S
      <3>1. \A p \in S : p <= n
        BY <1>0
      <3>. QED
        BY <3>1, Zenon
    <2>. HIDE DEF U
    <2>. QED
      BY <2>1, <2>2, Zenon
  <1>b. ASSUME NEW m \in 1..n
        PROVE  /\ m \in Int /\ m \in 0..n /\ U(m - 1) \in SUBSET Int /\ \A p \in U(m - 1) : p < m
               /\ m \in S => U(m) = U(m - 1) \cup {m}
               /\ m \notin S => U(m) = U(m - 1)
    <2>. HIDE DEF G
    <2>1. \A p \in S : p \in Int /\ (p <= m - 1 <=> p < m) /\ (p <= m <=> p < m \/ p = m)
      BY <1>0
    <2>2. m \in Int /\ m \in 0..n /\ m <= m
      OBVIOUS
    <2>3. \A p : p \in U(m - 1) <=> p \in S /\ p < m
      BY <2>1, Zenon
    <2>4. \A p : p \in U(m) <=> p \in S /\ (p < m \/ p = m)
      BY <2>1, Zenon
    <2>. HIDE DEF U
    <2>5. U(m - 1) \in SUBSET Int /\ \A p \in U(m - 1) : p < m
      BY <2>1, <2>3, Zenon
    <2>6. m \in S => U(m) = U(m - 1) \cup {m}
      BY <2>3, <2>4, Zenon
    <2>7. m \notin S => U(m) = U(m - 1)
      BY <2>3, <2>4, Zenon
    <2>. QED
      BY <2>2, <2>5, <2>6, <2>7
  <1>1. 0 \in G
    <2>1. U(0) = {}
      BY <1>a
    <2>2. Enumerates(<<>>, 0, {})
      BY DEF Enumerates
    <2>3. 0 \in Nat /\ 0 \in 0..n
      OBVIOUS
    <2>. HIDE DEF U
    <2>. QED
      BY <2>1, <2>2, <2>3
  <1>2. ASSUME NEW m \in 1..n, m - 1 \in G  PROVE m \in G
    <2>0. PICK c \in Nat : \E f : Enumerates(f, c, U(m - 1))
      BY <1>2
    <2>1. PICK f : c \in Nat /\ Enumerates(f, c, U(m - 1))
      BY <2>0
    <2>2. /\ m \in Int /\ m \in 0..n /\ U(m - 1) \in SUBSET Int /\ \A p \in U(m - 1) : p < m
          /\ m \in S => U(m) = U(m - 1) \cup {m}
          /\ m \notin S => U(m) = U(m - 1)
      BY <1>b
    <2>. HIDE DEF U
    <2>3. CASE m \in S
      <3>1. Enumerates(Extended(f, c, m), c + 1, U(m - 1) \cup {m})
        BY <2>1, <2>2, OneLarger
      <3>2. c + 1 \in Nat
        OBVIOUS
      <3>. QED
        BY <2>2, <2>3, <3>1, <3>2
    <2>4. CASE m \notin S
      BY <2>1, <2>2, <2>4
    <2>. QED
      BY <2>3, <2>4
  <1>3. n \in G
    <2>1. G \in SUBSET (0..n)
      OBVIOUS
    <2>. HIDE DEF G
    <2>2. G = 0..n
      BY <1>1, <1>2, <2>1, UpTo
    <2>. QED
      BY <2>2
  <1>4. U(n) = S
    BY <1>a
  <1>4a. PICK c \in Nat : \E f : Enumerates(f, c, S)
    BY <1>3, <1>4
  <1>5. PICK f : c \in Nat /\ Enumerates(f, c, S)
    BY <1>4a
  <1>6. Ascending(S) = f /\ DOMAIN Ascending(S) = 1..c
    <2>1. S \in SUBSET Int
      OBVIOUS
    <2>. QED
      BY <1>5, <2>1, AscendingIs
  <1>7. Cardinality(S) \in Nat
    <2>1. 1 \in Int /\ n \in Int
      OBVIOUS
    <2>. QED
      BY <2>1, FS_Interval, FS_Subset, FS_CardinalityType
  <1>8. Cardinality(S) = c
    <2>1. DOMAIN Ascending(S) = 1..Cardinality(S)
      BY DEF Ascending
    <2>2. 1..Cardinality(S) = 1..c
      BY <1>6, <2>1
    <2>. DEFINE k == Cardinality(S)
    <2>3. k \in Nat /\ 1..k = 1..c
      BY <1>7, <2>2
    <2>. HIDE DEF k
    <2>4. k = c
      <3>1. k # 0 => k \in 1..c
        BY <2>3
      <3>2. c # 0 => c \in 1..k
        BY <2>3
      <3>. QED
        BY <2>3, <3>1, <3>2
    <2>. QED
      BY <2>4 DEF k
  <1>. QED
    BY <1>5, <1>6, <1>8

\* What is picked from s, in order.
Picks(s, S, V) ==
  /\ Picked(s, S) \in Seq(V) /\ Len(Picked(s, S)) = Cardinality(S)
  /\ \A j \in 1..Cardinality(S) : Picked(s, S)[j] = s[Ascending(S)[j]]

LEMMA PickedIs ==
  ASSUME NEW V, NEW s \in Seq(V), NEW S \in SUBSET (1..Len(s))
  PROVE  Picks(s, S, V)
  <1>. DEFINE n == Len(s)
  <1>0. n \in Nat /\ s \in [1..n -> V]
    OBVIOUS
  <1>1. Cardinality(S) \in Nat /\ Enumerates(Ascending(S), Cardinality(S), S)
    BY <1>0, AscendingOf
  <1>. HIDE DEF n
  <1>. DEFINE c == Cardinality(S)
              f == Ascending(S)
  <1>2. c \in Nat /\ \A j \in 1..c : f[j] \in S
    BY <1>1 DEF Enumerates
  <1>a. \A j \in 1..c : f[j] \in 1..n
    BY <1>2 DEF n
  <1>3. Picked(s, S) = [j \in 1..c |-> s[f[j]]]
    BY DEF Picked
  <1>. HIDE DEF c, f
  <1>4. Picked(s, S) \in [1..c -> V]
    BY <1>0, <1>a, <1>3
  <1>5. Picked(s, S) = [j \in 1..c |-> Picked(s, S)[j]]
    BY <1>4
  <1>. DEFINE q == Picked(s, S)
  <1>. HIDE DEF q
  <1>6. q \in [1..c -> V] /\ q \in Seq(V) /\ Len(q) = c
    BY SMTT(30), <1>2, <1>4, <1>5, LenIs DEF q
  <1>. QED
    BY <1>3, <1>6 DEF q, c, f, Picks

\* An axis of length 1 leaves the number of elements before it and after it.
LEMMA OnesBetween ==
  ASSUME NEW dims \in Seq(Nat), NEW i \in 1..(Len(dims) + 1), NEW j \in i..(Len(dims) + 1),
         \A r \in i..(j - 1) : dims[r] = 1
  PROVE  Ahead(dims, j) = Ahead(dims, i) /\ Below(dims, j - 1) = Below(dims, i - 1)
  <1>. DEFINE n == j - i
              A(r) == Ahead(dims, r)
              B(r) == Below(dims, r)
              G == {k \in 0..n : A(i + k) = A(i) /\ B(i + k - 1) = B(i - 1)}
  <1>0. n \in Nat /\ i \in Nat /\ Len(dims) \in Nat /\ i + n = j
    OBVIOUS
  <1>1. 0 \in G
    <2>1. i + 0 = i
      BY <1>0
    <2>. QED
      BY <1>0, <2>1
  <1>2. ASSUME NEW k \in 1..n, k - 1 \in G  PROVE k \in G
    <2>. DEFINE r == i + (k - 1)
    <2>1. r \in i..(j - 1) /\ r \in 1..Len(dims) /\ r + 1 = i + k /\ r - 1 = i + (k - 1) - 1
          /\ r = i + k - 1 /\ k \in 0..n
      BY <1>0
    <2>2. dims[r] = 1
      BY <2>1
    <2>3. A(r) \in Int /\ A(r + 1) = A(r) * dims[r]
      BY <2>1, AheadStep
    <2>4. B(r - 1) = dims[r] * B(r) /\ B(r) \in Nat
      <3>1. r \in 0..Len(dims)
        BY <2>1
      <3>. QED
        BY <2>1, <3>1, BelowStep
    <2>. HIDE DEF A, B
    <2>5. A(r + 1) = A(r) /\ B(r) = B(r - 1)
      BY <2>2, <2>3, <2>4
    <2>6. A(r) = A(i) /\ B(r - 1) = B(i - 1)
      BY <1>2, <2>1
    <2>. QED
      BY <2>1, <2>5, <2>6
  <1>3. n \in G
    <2>1. G \in SUBSET (0..n)
      OBVIOUS
    <2>. HIDE DEF G, n
    <2>2. G = 0..n
      BY <1>0, <1>1, <1>2, <2>1, UpTo
    <2>. QED
      BY <1>0, <2>2
  <1>. QED
    BY <1>0, <1>3

LEMMA AheadTimesBelow ==
  ASSUME NEW dims \in Seq(Nat), NEW i \in 1..Len(dims)
  PROVE  Ahead(dims, i + 1) * Below(dims, i) = Product(dims)
  <1>. DEFINE n == Len(dims)
              A(r) == Ahead(dims, r)
              B(r) == Below(dims, r)
              G == {k \in 0..n : A(k + 1) * B(k) = Product(dims)}
  <1>0. n \in Nat
    OBVIOUS
  <1>1. 0 \in G
    <2>1. A(0 + 1) = 1 /\ B(0) = Product(dims) /\ Product(dims) \in Nat
      BY AheadStep, BelowStep, ProductType
    <2>. QED
      BY <1>0, <2>1
  <1>2. ASSUME NEW k \in 1..n, k - 1 \in G  PROVE k \in G
    <2>1. A((k - 1) + 1) * B(k - 1) = Product(dims) /\ (k - 1) + 1 = k /\ k \in 0..n /\ dims[k] \in Nat
      BY <1>2
    <2>2. A(k) \in Int /\ A(k + 1) = A(k) * dims[k] /\ B(k - 1) = dims[k] * B(k) /\ B(k) \in Nat
      BY <2>1, AheadStep, BelowStep
    <2>. DEFINE x == A(k)
                y == B(k)
                d == dims[k]
    <2>3. x * (d * y) = Product(dims) /\ x \in Int /\ y \in Nat /\ d \in Nat
      BY <2>1, <2>2
    <2>4. A(k + 1) * B(k) = (x * d) * y
      BY <2>2
    <2>. HIDE DEF x, y, d, A, B
    <2>5. (x * d) * y = x * (d * y)
      BY <2>3
    <2>. QED
      BY <2>1, <2>3, <2>4, <2>5
  <1>3. i \in G
    <2>1. G \in SUBSET (0..n)
      OBVIOUS
    <2>. HIDE DEF G
    <2>2. G = 0..n
      BY <1>0, <1>1, <1>2, <2>1, UpTo
    <2>. QED
      BY <2>2
  <1>. QED
    BY <1>3

\* The axes that are longer than 1, in their order: which they are, and what
\* a shape looks like without the others.
LongAt(dims, j) == Ascending(LongAxes(dims))[j]

LEMMA LongIs ==
  ASSUME NEW dims \in Seq(Nat)
  PROVE  /\ LongAxes(dims) \in SUBSET (1..Len(dims)) /\ Cardinality(LongAxes(dims)) \in Nat
         /\ Enumerates(Ascending(LongAxes(dims)), Cardinality(LongAxes(dims)), LongAxes(dims))
         /\ \A j \in 1..Cardinality(LongAxes(dims)) : /\ LongAt(dims, j) \in 1..Len(dims)
                                                      /\ dims[LongAt(dims, j)] # 1
  <1>1. LongAxes(dims) \in SUBSET (1..Len(dims)) /\ \A p \in LongAxes(dims) : p \in 1..Len(dims) /\ dims[p] # 1
    BY DEF LongAxes
  <1>2. Len(dims) \in Nat
    OBVIOUS
  <1>3. /\ Cardinality(LongAxes(dims)) \in Nat
        /\ Enumerates(Ascending(LongAxes(dims)), Cardinality(LongAxes(dims)), LongAxes(dims))
    BY <1>1, <1>2, AscendingOf
  <1>4. \A j \in 1..Cardinality(LongAxes(dims)) : Ascending(LongAxes(dims))[j] \in LongAxes(dims)
    BY <1>3 DEF Enumerates
  <1>. QED
    BY <1>1, <1>3, <1>4 DEF LongAt

LEMMA CoreIs ==
  ASSUME NEW a, Axes(a)
  PROVE  /\ Core(a).dims \in Seq(Nat) /\ Core(a).strides \in Seq(Int)
         /\ Len(Core(a).dims) = Cardinality(LongAxes(a.dims))
         /\ Len(Core(a).strides) = Cardinality(LongAxes(a.dims))
         /\ \A j \in 1..Cardinality(LongAxes(a.dims)) :
              /\ Core(a).dims[j] = a.dims[LongAt(a.dims, j)]
              /\ Core(a).strides[j] = a.strides[LongAt(a.dims, j)]
  <1>. DEFINE S == LongAxes(a.dims)
              n == Len(a.dims)
  <1>1. S \in SUBSET (1..n) /\ n \in Nat
    BY LongIs DEF Axes
  <1>3. Picks(a.dims, S, Nat) /\ Picks(a.strides, S, Int)
    <2>1. S \in SUBSET (1..Len(a.strides)) /\ S \in SUBSET (1..Len(a.dims))
      BY <1>1 DEF Axes
    <2>. HIDE DEF S
    <2>. QED
      BY <2>1, PickedIs DEF Axes
  <1>5. Core(a).dims = Picked(a.dims, S) /\ Core(a).strides = Picked(a.strides, S)
    BY DEF Core, Others
  <1>. QED
    BY <1>3, <1>5 DEF LongAt, Picks

\* Between two axes of the core there are axes of length 1 only.
LEMMA NextLong ==
  ASSUME NEW dims \in Seq(Nat), NEW k \in 1..Cardinality(LongAxes(dims))
  PROVE  /\ k = 1 => \A r \in 1..(LongAt(dims, 1) - 1) : dims[r] = 1
         /\ k > 1 => /\ LongAt(dims, k - 1) < LongAt(dims, k)
                     /\ \A r \in (LongAt(dims, k - 1) + 1)..(LongAt(dims, k) - 1) : dims[r] = 1
  <1>. DEFINE c == Cardinality(LongAxes(dims))
              f == Ascending(LongAxes(dims))
  <1>1. /\ c \in Nat /\ Enumerates(f, c, LongAxes(dims))
        /\ \A j \in 1..c : LongAt(dims, j) = f[j] /\ f[j] \in 1..Len(dims)
    <2>1. \A j \in 1..c : LongAt(dims, j) = f[j]
      BY DEF LongAt
    <2>. QED
      BY <2>1, LongIs
  <1>2. /\ \A r \in 1..Len(dims) : dims[r] # 1 => \E j \in 1..c : f[j] = r
        /\ \A i, j \in 1..c : i < j => f[i] < f[j]
    <2>1. \A r \in 1..Len(dims) : dims[r] # 1 => r \in LongAxes(dims)
      BY DEF LongAxes
    <2>. HIDE DEF f, c
    <2>. QED
      BY <1>1, <2>1 DEF Enumerates
  <1>. HIDE DEF c, f
  <1>3. k \in 1..c
    BY DEF c
  <1>4. ASSUME k = 1, NEW r \in 1..(f[1] - 1), dims[r] # 1  PROVE FALSE
    <2>1. 1 \in 1..c /\ f[1] \in 1..Len(dims)
      BY <1>1, <1>3, <1>4
    <2>2. r \in 1..Len(dims) /\ r < f[1]
      BY <2>1
    <2>3. PICK j \in 1..c : f[j] = r
      BY <1>2, <1>4, <2>2
    <2>4. j = 1 \/ 1 < j
      BY <1>1
    <2>. QED
      BY <1>2, <2>1, <2>2, <2>3, <2>4
  <1>5. ASSUME k > 1, NEW r \in (f[k - 1] + 1)..(f[k] - 1), dims[r] # 1  PROVE FALSE
    <2>1. k - 1 \in 1..c /\ f[k] \in 1..Len(dims) /\ f[k - 1] \in 1..Len(dims)
      BY <1>1, <1>3, <1>5
    <2>2. r \in 1..Len(dims) /\ r < f[k] /\ f[k - 1] < r
      BY SMTT(30), <2>1
    <2>3. PICK j \in 1..c : f[j] = r
      BY <1>2, <1>5, <2>2
    <2>4. j = k - 1 \/ j = k \/ j < k - 1 \/ k < j
      BY <1>1, <1>3
    <2>5. (j < k - 1 => f[j] < f[k - 1]) /\ (k < j => f[k] < f[j])
      BY <1>2, <1>3, <2>1
    <2>6. f[j] = r /\ f[k] \in Int /\ f[k - 1] \in Int /\ r \in Int
      BY <2>1, <2>3
    <2>. QED
      BY SMTT(30), <2>2, <2>4, <2>5, <2>6
  <1>6. k > 1 => f[k - 1] < f[k]
    <2>1. k > 1 => k - 1 \in 1..c /\ k - 1 < k
      BY <1>1, <1>3
    <2>. QED
      BY <1>2, <1>3, <2>1
  <1>7. LongAt(dims, k) = f[k] /\ (k = 1 => LongAt(dims, 1) = f[1]) /\ (k > 1 => LongAt(dims, k - 1) = f[k - 1])
    <2>1. k > 1 => k - 1 \in 1..c
      BY <1>1, <1>3
    <2>. QED
      BY <1>1, <1>3, <2>1
  <1>8. k = 1 => \A r \in 1..(f[1] - 1) : dims[r] = 1
    BY <1>4
  <1>9. k > 1 => \A r \in (f[k - 1] + 1)..(f[k] - 1) : dims[r] = 1
    BY <1>5
  <1>. QED
    BY <1>6, <1>7, <1>8, <1>9

\* The leading axes of the core have as many elements as the axes of the
\* array up to the same one.
LEMMA CorePrefix ==
  ASSUME NEW a, Axes(a)
  PROVE  \A k \in 1..Cardinality(LongAxes(a.dims)) :
           Prefix(Core(a).dims, k) = Ahead(a.dims, LongAt(a.dims, k) + 1)
  <1>. DEFINE c == Cardinality(LongAxes(a.dims))
              core == Core(a).dims
              at(k) == IF k = 0 THEN 1 ELSE LongAt(a.dims, k) + 1
              G == {k \in 0..c : Ahead(core, k + 1) = Ahead(a.dims, at(k))}
  <1>1. /\ c \in Nat /\ core \in Seq(Nat) /\ Len(core) = c /\ a.dims \in Seq(Nat)
        /\ \A j \in 1..c : core[j] = a.dims[LongAt(a.dims, j)] /\ LongAt(a.dims, j) \in 1..Len(a.dims)
    BY CoreIs, LongIs DEF Axes
  <1>2. 0 \in G
    <2>. HIDE DEF core
    <2>1. Ahead(core, 0 + 1) = 1 /\ Ahead(a.dims, 1) = 1
      BY <1>1, AheadStep
    <2>2. at(0) = 1 /\ 0 \in 0..c
      BY <1>1
    <2>. QED
      BY <2>1, <2>2
  <1>3. ASSUME NEW k \in 1..c, k - 1 \in G  PROVE k \in G
    <2>. DEFINE p == LongAt(a.dims, k)
                i == at(k - 1)
    <2>1. p \in 1..Len(a.dims) /\ k \in 1..Len(core) /\ k \in 0..c /\ Len(a.dims) \in Nat
      BY <1>1
    <2>2. i \in 1..(Len(a.dims) + 1) /\ p \in i..(Len(a.dims) + 1) /\ \A r \in i..(p - 1) : a.dims[r] = 1
      <3>1. CASE k = 1
        <4>1. i = 1 /\ p = LongAt(a.dims, 1)
          BY <3>1
        <4>2. \A r \in 1..(p - 1) : a.dims[r] = 1
          BY <1>1, <3>1, <4>1, NextLong
        <4>. HIDE DEF p, i
        <4>. QED
          BY <2>1, <4>1, <4>2
      <3>2. CASE k > 1
        <4>1. i = LongAt(a.dims, k - 1) + 1 /\ k - 1 \in 1..c
          <5>1. k - 1 # 0 /\ k - 1 \in 1..c
            BY <1>1, <3>2
          <5>. HIDE DEF G, c, core, p
          <5>. QED
            BY <5>1, Zenon
        <4>2. /\ LongAt(a.dims, k - 1) < p
              /\ \A r \in (LongAt(a.dims, k - 1) + 1)..(p - 1) : a.dims[r] = 1
          BY <1>1, <3>2, NextLong
        <4>3. LongAt(a.dims, k - 1) \in 1..Len(a.dims)
          BY <1>1, <4>1
        <4>. HIDE DEF p, i
        <4>. QED
          BY <2>1, <4>1, <4>2, <4>3
      <3>. QED
        BY <3>1, <3>2
    <2>3. Ahead(a.dims, p) = Ahead(a.dims, i)
      <3>. HIDE DEF p, i
      <3>. QED
        BY <1>1, <2>2, OnesBetween
    <2>4. Ahead(a.dims, p + 1) = Ahead(a.dims, p) * a.dims[p]
      <3>. HIDE DEF p
      <3>. QED
        BY <1>1, <2>1, AheadStep
    <2>5. Ahead(core, k + 1) = Ahead(core, k) * core[k]
      <3>. HIDE DEF core, c
      <3>. QED
        BY <1>1, <2>1, AheadStep
    <2>6. Ahead(core, (k - 1) + 1) = Ahead(a.dims, i) /\ (k - 1) + 1 = k
      BY <1>3
    <2>7. core[k] = a.dims[p]
      BY <1>1
    <2>8. Ahead(core, k + 1) = Ahead(a.dims, p + 1)
      <3>. HIDE DEF core, p, i
      <3>. QED
        BY <2>3, <2>4, <2>5, <2>6, <2>7
    <2>9. at(k) = p + 1
      BY <1>1
    <2>. HIDE DEF at, core, p, i
    <2>. QED
      BY <2>1, <2>8, <2>9
  <1>4. G = 0..c
    <2>1. G \in SUBSET (0..c)
      OBVIOUS
    <2>. HIDE DEF G, c
    <2>. QED
      BY <1>1, <1>2, <1>3, <2>1, UpTo
  <1>5. ASSUME NEW k \in 1..c  PROVE Prefix(core, k) = Ahead(a.dims, LongAt(a.dims, k) + 1)
    <2>1. k \in G /\ at(k) = LongAt(a.dims, k) + 1
      <3>1. k \in 0..c /\ k # 0
        BY <1>1
      <3>. HIDE DEF G, c, core
      <3>. QED
        BY <1>4, <3>1, Zenon
    <2>2. Ahead(core, k + 1) = Prefix(core, k)
      <3>1. (k + 1) - 1 = k
        BY <1>1
      <3>. QED
        BY <3>1 DEF Ahead, Prefix
    <2>. HIDE DEF at, core
    <2>. QED
      BY <2>1, <2>2
  <1>. QED
    BY <1>5

\* Two axes with a gap between them that no group of axes of the shape dims
\* ends at: the outer one, j, is next to the inner one, i.
GapAt(a, dims, o, i, j) ==
  /\ a.dims[i] # 1 /\ a.dims[j] # 1
  /\ Weight(a.dims, o, j) = Weight(a.dims, o, i) * a.dims[i]
  /\ a.strides[j] # a.dims[i] * a.strides[i]
  /\ \A r \in 1..Len(dims) : Weight(dims, o, r) # Weight(a.dims, o, j)

LEMMA GapBetween ==
  ASSUME NEW a, Axes(a), NEW dims \in Seq(Nat), Product(dims) = Product(a.dims), Product(dims) # 0,
         NEW o \in {"C", "F"}, ~WithoutGaps(Core(a), dims, o)
  PROVE  \E i, j \in 1..Len(a.dims) : GapAt(a, dims, o, i, j)
  <1>. DEFINE c == Cardinality(LongAxes(a.dims))
              core == Core(a)
  <1>1. /\ c \in Nat /\ core.dims \in Seq(Nat) /\ Len(core.dims) = c /\ a.dims \in Seq(Nat)
        /\ \A j \in 1..c : /\ core.dims[j] = a.dims[LongAt(a.dims, j)]
                           /\ core.strides[j] = a.strides[LongAt(a.dims, j)]
                           /\ LongAt(a.dims, j) \in 1..Len(a.dims) /\ a.dims[LongAt(a.dims, j)] # 1
    BY CoreIs, LongIs DEF Axes
  <1>2. PICK k \in 1..(c - 1) \ OldEnds(core, dims) :
          ~IF o = "F" THEN core.strides[k + 1] = core.dims[k] * core.strides[k]
                      ELSE core.strides[k] = core.dims[k + 1] * core.strides[k + 1]
    <2>. HIDE DEF c
    <2>. QED
      BY <1>1 DEF WithoutGaps
  <1>. HIDE DEF core, c
  <1>3. k \in 1..c /\ k + 1 \in 1..c /\ (k + 1) - 1 = k /\ k + 1 > 1
    BY <1>1
  <1>. DEFINE p == LongAt(a.dims, k)
              q == LongAt(a.dims, k + 1)
  <1>4. /\ p \in 1..Len(a.dims) /\ q \in 1..Len(a.dims) /\ a.dims[p] # 1 /\ a.dims[q] # 1
        /\ core.dims[k] = a.dims[p] /\ core.strides[k] = a.strides[p]
        /\ core.dims[k + 1] = a.dims[q] /\ core.strides[k + 1] = a.strides[q]
    BY <1>1, <1>3
  <1>5. p < q /\ \A r \in (p + 1)..(q - 1) : a.dims[r] = 1
    <2>. DEFINE d == a.dims
                u == k + 1
    <2>1. d \in Seq(Nat) /\ u \in 1..Cardinality(LongAxes(d)) /\ u > 1 /\ u - 1 = k
      BY <1>1, <1>3 DEF c
    <2>. HIDE DEF d, u
    <2>2. LongAt(d, u - 1) < LongAt(d, u) /\ \A r \in (LongAt(d, u - 1) + 1)..(LongAt(d, u) - 1) : d[r] = 1
      BY <2>1, NextLong
    <2>3. LongAt(d, k) < LongAt(d, u) /\ \A r \in (LongAt(d, k) + 1)..(LongAt(d, u) - 1) : d[r] = 1
      BY <2>1, <2>2
    <2>. QED
      BY <2>3 DEF d, u
  <1>6. \A j \in 1..Len(dims) : Ahead(dims, j + 1) # Ahead(a.dims, p + 1)
    <2>1. DOMAIN core.dims = 1..c /\ DOMAIN dims = 1..Len(dims)
      BY <1>1
    <2>2. \A j \in DOMAIN dims : Prefix(dims, j) # Prefix(core.dims, k)
      BY <1>2, <1>3, <2>1 DEF OldEnds
    <2>3. Prefix(core.dims, k) = Ahead(a.dims, p + 1)
      BY <1>3, CorePrefix DEF core, c
    <2>4. \A j \in 1..Len(dims) : Ahead(dims, j + 1) = Prefix(dims, j)
      <3>1. \A j \in 1..Len(dims) : (j + 1) - 1 = j
        OBVIOUS
      <3>. QED
        BY <3>1 DEF Ahead, Prefix
    <2>. QED
      BY <2>1, <2>2, <2>3, <2>4
  <1>. HIDE DEF p, q
  <1>7. Ahead(a.dims, q) = Ahead(a.dims, p + 1) /\ Below(a.dims, q - 1) = Below(a.dims, p)
    <2>1. p + 1 \in 1..(Len(a.dims) + 1) /\ q \in (p + 1)..(Len(a.dims) + 1) /\ (p + 1) - 1 = p
      BY <1>4, <1>5
    <2>. DEFINE i == p + 1
    <2>2. Ahead(a.dims, q) = Ahead(a.dims, i) /\ Below(a.dims, q - 1) = Below(a.dims, i - 1)
      <3>1. i \in 1..(Len(a.dims) + 1) /\ q \in i..(Len(a.dims) + 1) /\ \A r \in i..(q - 1) : a.dims[r] = 1
        BY <1>5, <2>1
      <3>. HIDE DEF i
      <3>. QED
        BY <1>1, <3>1, OnesBetween
    <2>. QED
      BY <2>1, <2>2
  <1>8. /\ Ahead(a.dims, p + 1) = Ahead(a.dims, p) * a.dims[p]
        /\ Below(a.dims, q - 1) = a.dims[q] * Below(a.dims, q)
        /\ a.dims[p] \in Nat /\ a.dims[q] \in Nat /\ Below(a.dims, q) \in Nat
    <2>1. q \in 0..Len(a.dims)
      BY <1>4
    <2>2. Ahead(a.dims, p + 1) = Ahead(a.dims, p) * a.dims[p]
      BY <1>1, <1>4, AheadStep
    <2>3. Below(a.dims, q - 1) = a.dims[q] * Below(a.dims, q) /\ Below(a.dims, q) \in Nat
      BY <1>1, <1>4, <2>1, BelowStep
    <2>4. a.dims[p] \in Nat /\ a.dims[q] \in Nat
      <3>1. \A r \in 1..Len(a.dims) : a.dims[r] \in Nat
        BY SMTT(30), <1>1
      <3>. QED
        BY <1>4, <3>1
    <2>. QED
      BY <2>2, <2>3, <2>4
  <1>9. /\ Weight(a.dims, "C", p) = Below(a.dims, p) /\ Weight(a.dims, "C", q) = Below(a.dims, q)
        /\ Weight(a.dims, "F", p) = Ahead(a.dims, p) /\ Weight(a.dims, "F", q) = Ahead(a.dims, q)
        /\ \A r \in 1..Len(dims) : Weight(dims, "C", r) = Below(dims, r) /\ Weight(dims, "F", r) = Ahead(dims, r)
    BY <1>1, <1>4, WeightIs
  <1>10. CASE o = "C"
    <2>1. a.strides[p] # a.dims[q] * a.strides[q]
      BY <1>2, <1>4, <1>10
    <2>2. Weight(a.dims, "C", p) = Weight(a.dims, "C", q) * a.dims[q]
      <3>. DEFINE x == a.dims[q]
                  y == Below(a.dims, q)
      <3>1. x * y = y * x
        BY <1>8
      <3>. HIDE DEF x, y
      <3>2. Below(a.dims, p) = x * y /\ Weight(a.dims, "C", q) = y
        BY <1>7, <1>8, <1>9 DEF x, y
      <3>. QED
        BY <1>9, <3>1, <3>2 DEF x
    <2>3. ASSUME NEW r \in 1..Len(dims), Below(dims, r) = Below(a.dims, p)  PROVE FALSE
      <3>. DEFINE x == Ahead(dims, r + 1)
                  y == Ahead(a.dims, p + 1)
                  z == Below(a.dims, p)
      <3>1. x * Below(dims, r) = Product(dims) /\ y * z = Product(a.dims)
        BY <1>1, <1>4, AheadTimesBelow
      <3>2. z \in Nat /\ z > 0
        <4>1. p \in 0..Len(a.dims) /\ Product(a.dims) # 0
          BY <1>4
        <4>. QED
          BY <1>1, <4>1, BelowStep, NoEmptyAxis
      <3>3. x \in Nat /\ y \in Nat
        <4>1. r + 1 \in 1..(Len(dims) + 1) /\ p + 1 \in 1..(Len(a.dims) + 1) /\ Product(a.dims) # 0
          BY <1>4
        <4>. QED
          BY <1>1, <4>1, AheadType
      <3>4. x * z = y * z
        BY <2>3, <3>1
      <3>5. x # y
        BY <1>6
      <3>. HIDE DEF x, y, z
      <3>6. CASE x < y
        <4>1. x * z + z <= y * z /\ x * z \in Nat /\ y * z \in Nat
          BY <3>2, <3>3, <3>6, TimesLess
        <4>. QED
          BY <3>2, <3>4, <4>1
      <3>7. CASE y < x
        <4>1. y * z + z <= x * z /\ x * z \in Nat /\ y * z \in Nat
          BY <3>2, <3>3, <3>7, TimesLess
        <4>. QED
          BY <3>2, <3>4, <4>1
      <3>. QED
        BY <3>3, <3>5, <3>6, <3>7
    <2>4. GapAt(a, dims, "C", q, p)
      BY <1>4, <1>9, <2>1, <2>2, <2>3, Zenon DEF GapAt
    <2>. QED
      BY <1>4, <1>10, <2>4
  <1>11. CASE o = "F"
    <2>1. a.strides[q] # a.dims[p] * a.strides[p]
      BY <1>2, <1>4, <1>11
    <2>2. Weight(a.dims, "F", q) = Weight(a.dims, "F", p) * a.dims[p]
      BY <1>7, <1>8, <1>9
    <2>3. ASSUME NEW r \in 1..Len(dims), Ahead(dims, r) = Ahead(a.dims, q)  PROVE FALSE
      <3>1. CASE r = 1
        <4>1. Ahead(a.dims, p) * a.dims[p] = 1 /\ Ahead(a.dims, p) \in Nat \ {0} /\ a.dims[p] \in Nat
          <5>1. Ahead(dims, 1) = 1 /\ Product(a.dims) # 0 /\ p \in 1..(Len(a.dims) + 1)
            BY <1>4, AheadStep
          <5>. QED
            BY <1>1, <1>7, <1>8, <2>3, <3>1, <5>1, AheadType
        <4>2. a.dims[p] > 1
          <5>1. a.dims[p] > 0
            BY <1>1, <1>4, NoEmptyAxis
          <5>. QED
            BY <1>4, <4>1, <5>1
        <4>. DEFINE x == a.dims[p]
                    y == Ahead(a.dims, p)
        <4>3. x \in Nat /\ y \in Nat /\ 1 < x /\ y > 0 /\ y * x = 1
          BY <4>1, <4>2
        <4>. HIDE DEF x, y
        <4>4. 1 * y + y <= x * y /\ 1 * y = y /\ x * y = y * x
          BY <4>3, TimesLess
        <4>. QED
          BY <4>3, <4>4
      <3>2. CASE r # 1
        <4>1. r - 1 \in 1..Len(dims) /\ (r - 1) + 1 = r
          BY <3>2
        <4>. QED
          BY <1>6, <1>7, <2>3, <4>1
      <3>. QED
        BY <3>1, <3>2
    <2>4. GapAt(a, dims, "F", p, q)
      BY <1>4, <1>9, <2>1, <2>2, <2>3, Zenon DEF GapAt
    <2>. QED
      BY <1>4, <1>11, <2>4
  <1>. QED
    BY <1>10, <1>11

\* With such a gap, no strides show the elements in that shape.
LEMMA GapNotViewable ==
  ASSUME NEW a \in Arrays, Axes(a), NEW dims \in Seq(Nat), Product(dims) = Product(a.dims), Product(dims) # 0,
         NEW o \in {"C", "F"}, NEW i \in 1..Len(a.dims), NEW j \in 1..Len(a.dims), GapAt(a, dims, o, i, j)
  PROVE  ~Viewable(a, dims, o)
  <1>. SUFFICES ASSUME Viewable(a, dims, o)  PROVE FALSE
    OBVIOUS
  <1>. DEFINE n == Product(dims)
              f == [m \in 0..(n - 1) |-> Dot(Coords(a.dims, o, m), a.strides)]
              at == [m \in 0..(n - 1) |-> Address(a, o, m)]
              t == [k \in DOMAIN dims |-> IF dims[k] = 1 THEN 0 ELSE at[Weight(dims, o, k)] - at[0]]
              E == Weight(a.dims, o, i)
              P == Weight(a.dims, o, j)
  <1>1. /\ n \in Nat /\ n # 0 /\ 0 \in 0..(n - 1) /\ a.data \in Int /\ a.dims \in Seq(Nat)
        /\ a.strides \in [1..Len(a.dims) -> Int] /\ DOMAIN dims = 1..Len(dims) /\ Product(a.dims) # 0
    <2>1. n \in Nat
      BY ProductType
    <2>. QED
      BY SMTT(30), <2>1 DEF Axes, Arrays
  <1>2. Nested(a.dims, o) /\ Nested(dims, o)
    BY <1>1, WeightsNest
  <1>3. /\ E \in Nat \ {0} /\ P \in Nat \ {0} /\ a.dims[i] \in Nat /\ a.dims[j] \in Nat
        /\ a.dims[i] > 1 /\ a.dims[j] > 1 /\ P = E * a.dims[i] /\ P * a.dims[j] <= n
        /\ a.strides[i] \in Int /\ a.strides[j] \in Int
    <2>1. /\ E \in Nat \ {0} /\ P \in Nat \ {0} /\ a.dims[i] \in Nat \ {0} /\ a.dims[j] \in Nat \ {0}
          /\ P * a.dims[j] <= n
      BY <1>2 DEF Nested
    <2>2. a.dims[i] # 1 /\ a.dims[j] # 1 /\ P = E * a.dims[i]
      BY DEF GapAt
    <2>3. a.strides[i] \in Int /\ a.strides[j] \in Int
      BY <1>1
    <2>. DEFINE d == a.dims[i]
                e == a.dims[j]
    <2>4. d \in Nat \ {0} /\ e \in Nat \ {0} /\ d # 1 /\ e # 1
      BY <2>1, <2>2
    <2>5. d \in Nat /\ e \in Nat /\ d > 1 /\ e > 1
      <3>. HIDE DEF d, e
      <3>. QED
        BY <2>4
    <2>. HIDE DEF E, P, n
    <2>. QED
      BY <2>1, <2>2, <2>3, <2>5
  <1>4. \A m \in 0..(n - 1) : f[m] = Dot(Coords(a.dims, o, m), a.strides) /\ at[m] = a.data + f[m]
    BY DEF Address
  <1>5. ASSUME NEW r \in 1..Len(a.dims)
        PROVE  /\ Goes(f, Weight(a.dims, o, r), a.dims[r], a.strides[r])
               /\ \A y \in 0..(Weight(a.dims, o, r) - 1) : Dot(Coords(a.dims, o, y), a.strides) \in Int
    <2>. DEFINE w == Weight(a.dims, o, r)
    <2>1. w \in Nat \ {0} /\ a.dims[r] \in Nat \ {0}
      BY <1>2 DEF Nested
    <2>2. ASSUME NEW x \in 0..(a.dims[r] - 1), NEW y \in 0..(w - 1)
          PROVE  f[Element(x, w, y)] = x * a.strides[r] + f[y] /\ Dot(Coords(a.dims, o, y), a.strides) \in Int
      <3>1. /\ x * w + y \in 0..(n - 1) /\ Dot(Coords(a.dims, o, y), a.strides) \in Int
            /\ Dot(Coords(a.dims, o, x * w + y), a.strides) = x * a.strides[r] + Dot(Coords(a.dims, o, y), a.strides)
        BY <1>1, AlongOne
      <3>2. y \in 0..(n - 1)
        <4>1. 0 \in 0..(a.dims[r] - 1)
          BY <2>1
        <4>2. 0 * w + y \in 0..(n - 1)
          BY <1>1, <4>1, AlongOne
        <4>3. 0 * w + y = y
          BY <2>1
        <4>. QED
          BY <4>2, <4>3
      <3>3. f[x * w + y] = x * a.strides[r] + f[y]
        BY <1>4, <3>1, <3>2
      <3>. HIDE DEF f
      <3>. QED
        BY <3>1, <3>3 DEF Element
    <2>3. 0 \in 0..(a.dims[r] - 1)
      BY <2>1
    <2>. HIDE DEF f, w
    <2>4. Goes(f, w, a.dims[r], a.strides[r])
      BY <2>2 DEF Goes
    <2>. QED
      BY <2>2, <2>3, <2>4 DEF w
  <1>6. f[0] = 0
    BY <1>1, <1>4, AtZero
  <1>7. \A m \in 0..(n - 1) : f[m] \in Int
    <2>. SUFFICES ASSUME NEW m \in 0..(n - 1)  PROVE f[m] \in Int
      OBVIOUS
    <2>1. CASE m = 0
      BY <1>6, <2>1
    <2>2. CASE m # 0
      <3>1. m \in 1..(Product(a.dims) - 1)
        BY <1>1, <2>2
      <3>a. PICK r \in 1..Len(a.dims) :
              \E x \in 0..(a.dims[r] - 1) : \E y \in 0..(Weight(a.dims, o, r) - 1) :
                m = Element(x, Weight(a.dims, o, r), y) /\ y < m /\ a.dims[r] # 1
        <4>. HIDE DEF n, f, at, t
        <4>. QED
          BY <1>1, <3>1, LargestStep, Zenon
      <3>2. PICK x \in 0..(a.dims[r] - 1), y \in 0..(Weight(a.dims, o, r) - 1) :
              m = Element(x, Weight(a.dims, o, r), y)
        BY <3>a
      <3>3. f[m] = x * a.strides[r] + f[y]
        BY <1>5, <3>2 DEF Goes
      <3>4. Dot(Coords(a.dims, o, y), a.strides) \in Int
        BY <1>5
      <3>5. y \in 0..(n - 1)
        <4>1. Nested(a.dims, o) /\ n = Product(a.dims)
          BY <1>2
        <4>2. /\ Weight(a.dims, o, r) * a.dims[r] <= n /\ Weight(a.dims, o, r) \in Nat \ {0}
              /\ a.dims[r] \in Nat \ {0}
          BY <4>1 DEF Nested
        <4>. DEFINE w == Weight(a.dims, o, r)
                    d == a.dims[r]
        <4>3. w \in Nat \ {0} /\ d \in Nat \ {0} /\ w * d <= n /\ y \in 0..(w - 1)
          BY <4>2
        <4>. HIDE DEF w, d, n
        <4>4. w <= w * d
          <5>1. 0 * w + w <= d * w /\ d * w = w * d /\ 0 * w = 0
            BY <4>3, TimesLess
          <5>. QED
            BY <4>3, <5>1
        <4>5. n \in Nat /\ w \in Nat /\ y \in Nat /\ y < w
          BY <1>1, <4>3
        <4>. DEFINE wd == w * d
        <4>6. wd \in Nat /\ w <= wd /\ wd <= n
          BY <4>3, <4>4
        <4>. HIDE DEF wd
        <4>. QED
          BY <4>5, <4>6
      <3>6. f[y] \in Int /\ x * a.strides[r] \in Int
        <4>1. f[y] = Dot(Coords(a.dims, o, y), a.strides)
          BY <3>5
        <4>. HIDE DEF f, at, t, n
        <4>2. a.strides[r] \in Int
          BY <1>1
        <4>3. x \in Int
          OBVIOUS
        <4>. QED
          BY <3>4, <4>1, <4>2, <4>3
      <3>. HIDE DEF f
      <3>. QED
        BY <3>3, <3>6
    <2>. QED
      BY <2>1, <2>2
  <1>8. t \in [1..Len(dims) -> Int]
    <2>. SUFFICES ASSUME NEW k \in 1..Len(dims)  PROVE t[k] \in Int
      BY <1>1
    <2>1. CASE dims[k] = 1
      BY <1>1, <2>1
    <2>2. CASE dims[k] # 1
      <3>1. /\ Weight(dims, o, k) \in Nat \ {0} /\ dims[k] \in Nat \ {0}
            /\ Weight(dims, o, k) * dims[k] <= n
        BY <1>2 DEF Nested
      <3>. DEFINE w == Weight(dims, o, k)
                  d == dims[k]
      <3>2. w \in 0..(n - 1)
        <4>1. w \in Nat \ {0} /\ d \in Nat /\ 1 < d /\ w * d <= n
          BY <2>2, <3>1
        <4>. HIDE DEF w, d, n
        <4>2. 1 * w + w <= d * w /\ d * w = w * d /\ 1 * w = w
          BY <4>1, TimesLess
        <4>. QED
          BY <1>1, <4>1, <4>2
      <3>3. at[w] \in Int /\ at[0] \in Int
        <4>. HIDE DEF at, f, n, w
        <4>1. at[w] = a.data + f[w] /\ at[0] = a.data + f[0] /\ f[w] \in Int /\ f[0] \in Int
          BY <1>1, <1>4, <1>7, <3>2
        <4>. QED
          BY SMTT(30), <1>1, <4>1
      <3>4. t[k] = at[w] - at[0]
        <4>. HIDE DEF at, n
        <4>. QED
          BY <1>1, <2>2
      <3>. HIDE DEF t, at
      <3>. QED
        BY <3>3, <3>4
    <2>. QED
      BY <2>1, <2>2
  <1>9. \A m \in 0..(n - 1) : f[m] = Dot(Coords(dims, o, m), t)
    <2>1. [m \in 0..(Size(a) - 1) |-> Address(a, o, m)] = at
      BY DEF Size
    <2>2. \A m \in DOMAIN at : at[m] = at[0] + Dot(Coords(dims, o, m), t)
      <3>. DEFINE at0 == [m \in 0..(Size(a) - 1) |-> Address(a, o, m)]
                  t0 == [k \in DOMAIN dims |-> IF dims[k] = 1 THEN 0 ELSE at0[Weight(dims, o, k)] - at0[0]]
      <3>1. \A m \in DOMAIN at0 : at0[m] = at0[0] + Dot(Coords(dims, o, m), t0)
        BY Zenon DEF Viewable
      <3>2. at0 = at
        BY <2>1
      <3>. HIDE DEF at0, at
      <3>. QED
        BY <3>1, <3>2
    <2>3. DOMAIN at = 0..(n - 1)
      OBVIOUS
    <2>. SUFFICES ASSUME NEW m \in 0..(n - 1)  PROVE f[m] = Dot(Coords(dims, o, m), t)
      OBVIOUS
    <2>4. Dot(Coords(dims, o, m), t) \in Int
      <3>. HIDE DEF t
      <3>1. CASE m = 0
        BY <1>1, <1>8, <3>1, AtZero
      <3>2. CASE m # 0
        <4>1. m \in 1..(Product(dims) - 1)
          BY <1>1, <3>2
        <4>a. PICK r \in 1..Len(dims) :
                \E x \in 0..(dims[r] - 1) : \E y \in 0..(Weight(dims, o, r) - 1) :
                  m = Element(x, Weight(dims, o, r), y) /\ y < m /\ dims[r] # 1
          <5>. HIDE DEF n, f, at
          <5>. QED
            BY <1>1, <4>1, LargestStep, Zenon
        <4>2. PICK x \in 0..(dims[r] - 1), y \in 0..(Weight(dims, o, r) - 1) :
                m = Element(x, Weight(dims, o, r), y)
          BY <4>a
        <4>. DEFINE D == Dot(Coords(dims, o, y), t)
        <4>3. D \in Int /\ Dot(Coords(dims, o, m), t) = x * t[r] + D
          BY <1>1, <1>8, <4>2, AlongOne DEF Element
        <4>4. t[r] \in Int /\ x \in Int
          BY <1>8
        <4>. HIDE DEF D
        <4>. QED
          BY <4>3, <4>4
      <3>. QED
        BY <3>1, <3>2
    <2>. HIDE DEF at, f, t, n
    <2>5. at[m] = a.data + f[m] /\ at[0] = a.data + f[0] /\ f[m] \in Int
      BY <1>1, <1>4, <1>7
    <2>6. at[m] = at[0] + Dot(Coords(dims, o, m), t)
      BY <2>2, <2>3
    <2>. QED
      BY <1>1, <1>6, <2>4, <2>5, <2>6
  <1>10. P \in 1..(n - 1)
    <2>. DEFINE e == a.dims[j]
    <2>1. P \in Nat \ {0} /\ e \in Nat /\ 1 < e /\ P * e <= n
      BY <1>3
    <2>. HIDE DEF P, e, n
    <2>2. 1 * P + P <= e * P /\ e * P = P * e /\ 1 * P = P
      BY <2>1, TimesLess
    <2>. QED
      BY <1>1, <2>1, <2>2
  <1>11. PICK r \in 1..Len(dims) : Weight(dims, o, r) <= P /\ P < Weight(dims, o, r) * dims[r]
    BY <1>2, <1>10 DEF Nested
  <1>. DEFINE w == Weight(dims, o, r)
              c == dims[r]
  <1>12. w \in Nat \ {0} /\ c \in Nat \ {0} /\ w * c <= n /\ w # P
    BY <1>2 DEF Nested, GapAt
  <1>13. Goes(f, w, c, t[r])
    <2>. HIDE DEF t
    <2>1. ASSUME NEW x \in 0..(c - 1), NEW y \in 0..(w - 1)
          PROVE  f[Element(x, w, y)] = x * t[r] + f[y]
      <3>1. /\ x * w + y \in 0..(n - 1)
            /\ Dot(Coords(dims, o, x * w + y), t) = x * t[r] + Dot(Coords(dims, o, y), t)
        BY <1>1, <1>8, AlongOne
      <3>2. y \in 0..(n - 1)
        <4>1. 0 \in 0..(c - 1)
          BY <1>12
        <4>2. 0 * w + y \in 0..(n - 1)
          BY <1>1, <1>8, <4>1, AlongOne
        <4>3. 0 * w + y = y
          BY <1>12
        <4>. QED
          BY <4>2, <4>3
      <3>. HIDE DEF f
      <3>3. f[x * w + y] = x * t[r] + f[y]
        BY <1>9, <3>1, <3>2
      <3>. QED
        BY <3>3 DEF Element
    <2>. HIDE DEF f, w, c
    <2>. QED
      BY <2>1 DEF Goes
  <1>14. t[r] \in Int
    BY <1>8
  <1>15. w < P /\ P < w * c /\ c > 1
    <2>1. w <= P /\ P < w * c
      BY <1>11
    <2>. HIDE DEF w, c, P, n
    <2>2. w < P
      BY <1>10, <1>12, <2>1
    <2>3. c # 1
      <3>. SUFFICES ASSUME c = 1  PROVE FALSE
        OBVIOUS
      <3>1. w * 1 = w
        BY <1>12
      <3>. QED
        BY <1>10, <1>12, <2>1, <2>2, <3>1
    <2>. QED
      BY <1>12, <2>1, <2>2, <2>3
  <1>16. Goes(f, E, a.dims[i], a.strides[i]) /\ Goes(f, P, a.dims[j], a.strides[j])
    BY <1>5
  <1>. DEFINE d == a.dims[i]
              e == a.dims[j]
              s == a.strides[i]
              u == a.strides[j]
              v == t[r]
  <1>17. /\ d \in Nat /\ d > 1 /\ s \in Int /\ e \in Nat /\ e > 1 /\ u \in Int /\ v \in Int
         /\ Goes(f, E, d, s) /\ Goes(f, P, e, u) /\ Goes(f, w, c, v) /\ P = E * d /\ P * e <= n
    BY <1>3, <1>13, <1>14, <1>16
  <1>18. c \in Nat /\ P \in Nat /\ FromInts(f, n)
    <2>. HIDE DEF f, n, P, c
    <2>. QED
      BY <1>3, <1>7, <1>12 DEF FromInts
  <1>19. u # d * s
    BY DEF GapAt
  <1>. HIDE DEF n, f, E, P, t, w, c, d, e, s, u, v
  <1>20. /\ n \in Nat /\ E \in Nat \ {0} /\ w \in Nat \ {0} /\ w * c <= n
         /\ f[0] = 0
    BY <1>1, <1>3, <1>6, <1>12
  <1>21. u = d * s
    BY <1>15, <1>17, <1>18, <1>20, OneStride
  <1>. QED
    BY <1>19, <1>21

\* A new shape that is made by a copy has no view of the elements.
LEMMA CopyNeeded ==
  ASSUME NEW a \in Arrays, Axes(a), NEW dims \in Seq(Int), Unknown(dims) = {}, Product(dims) = Size(a), Size(a) # 0,
         NEW o \in {"C", "F"}, Copies(a, dims, o)
  PROVE  ~Viewable(a, dims, o)
  <1>1. dims \in Seq(Nat)
    <2>1. \A i \in DOMAIN dims : dims[i] \in Nat
      BY DEF Unknown
    <2>. QED
      BY <2>1
  <1>2. Product(dims) = Product(a.dims) /\ Product(dims) # 0
    BY DEF Size
  <1>3. ~WithoutGaps(Core(a), dims, o)
    BY <1>2 DEF Copies, NoCopy
  <1>4. PICK i, j \in 1..Len(a.dims) : GapAt(a, dims, o, i, j)
    BY <1>1, <1>2, <1>3, GapBetween
  <1>. QED
    BY <1>1, <1>2, <1>4, GapNotViewable

-----------------------------------------------------------------------------
(* Sequences of anything.                                                  *)

Listed(s) == Len(s) \in Nat /\ s = [k \in 1..Len(s) |-> s[k]]

LEMMA ListedSeq ==
  ASSUME NEW s, Listed(s)
  PROVE  \E V : s \in Seq(V)
  <1>. DEFINE n == Len(s)
              V == {s[k] : k \in 1..n}
  <1>1. n \in Nat /\ s = [k \in 1..n |-> s[k]]
    BY DEF Listed
  <1>. HIDE DEF n
  <1>2. s \in [1..n -> V]
    BY <1>1
  <1>. HIDE DEF V
  <1>3. s \in Seq(V)
    BY <1>1, <1>2
  <1>. QED
    BY <1>3

LEMMA SeqListed ==
  ASSUME NEW V, NEW s \in Seq(V)
  PROVE  Listed(s)
  BY DEF Listed

LEMMA FunctionListed ==
  ASSUME NEW n \in Nat, NEW s, s = [k \in 1..n |-> s[k]]
  PROVE  Listed(s) /\ Len(s) = n
  BY LenIs DEF Listed

LEMMA IntsListed ==
  ASSUME NEW n \in Nat, NEW f \in [1..n -> Int]
  PROVE  f \in Seq(Int) /\ Len(f) = n
  <1>1. f = [k \in 1..n |-> f[k]]
    OBVIOUS
  <1>2. Len(f) = n
    BY <1>1, LenIs
  <1>. QED
    BY <1>2

LEMMA NatsListed ==
  ASSUME NEW n \in Nat, NEW f \in [1..n -> Nat]
  PROVE  f \in Seq(Nat) /\ Len(f) = n
  <1>1. f = [k \in 1..n |-> f[k]]
    OBVIOUS
  <1>2. Len(f) = n
    BY <1>1, LenIs
  <1>. QED
    BY <1>2

LEMMA AppendIs ==
  ASSUME NEW s, Listed(s), NEW x
  PROVE  /\ Listed(Append(s, x)) /\ Len(Append(s, x)) = Len(s) + 1
         /\ \A k \in 1..Len(s) : Append(s, x)[k] = s[k]
         /\ Append(s, x)[Len(s) + 1] = x
  <1>1. PICK V : s \in Seq(V)
    BY ListedSeq
  <1>. DEFINE W == V \cup {x}
  <1>2. s \in Seq(W) /\ x \in W
    BY <1>1
  <1>. HIDE DEF W
  <1>3. Append(s, x) \in Seq(W)
    BY <1>2
  <1>4. Listed(Append(s, x))
    BY <1>3, SeqListed
  <1>. QED
    BY <1>2, <1>4

LEMMA ConcatIs ==
  ASSUME NEW s, Listed(s), NEW t, Listed(t)
  PROVE  /\ Listed(s \o t) /\ Len(s \o t) = Len(s) + Len(t)
         /\ \A k \in 1..Len(s) : (s \o t)[k] = s[k]
         /\ \A k \in 1..Len(t) : (s \o t)[Len(s) + k] = t[k]
  <1>1. PICK V : s \in Seq(V)
    BY ListedSeq
  <1>2. PICK U : t \in Seq(U)
    BY ListedSeq
  <1>. DEFINE W == V \cup U
  <1>3. s \in Seq(W) /\ t \in Seq(W)
    BY <1>1, <1>2
  <1>. HIDE DEF W
  <1>4. s \o t \in Seq(W)
    BY <1>3
  <1>5. Listed(s \o t)
    BY <1>4, SeqListed
  <1>6. Len(s \o t) = Len(s) + Len(t) /\ \A k \in 1..Len(s) : (s \o t)[k] = s[k]
    BY <1>3
  <1>7. ASSUME NEW k \in 1..Len(t)  PROVE (s \o t)[Len(s) + k] = t[k]
    BY <1>3
  <1>. QED
    BY <1>5, <1>6, <1>7

-----------------------------------------------------------------------------
(* The inductive invariant: an array is made of its flags and of a shape   *)
(* with a stride for every axis, and lies in a block that there is, with   *)
(* a base made before it.                                                  *)

Sound(a, i, n) ==
  /\ a \in Arrays /\ Axes(a) /\ FlagsKnown(a)
  /\ a.base < i /\ a.block \in 1..n

AllSound(arrs, n) == Listed(arrs) /\ \A i \in 1..Len(arrs) : Sound(arrs[i], i, n)

IInv ==
  /\ steps \in 0..MaxSteps
  /\ Listed(memory)
  /\ AllSound(arrays, Len(memory))

LEMMA SoundIn ==
  ASSUME NEW a, NEW i \in Nat, NEW j \in Nat, NEW n \in Nat, NEW m \in Nat, Sound(a, i, n), i <= j, n <= m
  PROVE  Sound(a, j, m)
  <1>1. a.base \in Nat
    BY DEF Sound, Arrays
  <1>. QED
    BY <1>1 DEF Sound

\* After an operation: the old arrays stay, and there may be more blocks.
LEMMA SoundAppend ==
  ASSUME NEW arrs, NEW n \in Nat, AllSound(arrs, n), NEW m \in Nat, n <= m,
         NEW a, Sound(a, Len(arrs) + 1, m)
  PROVE  AllSound(Append(arrs, a), m) /\ Len(Append(arrs, a)) = Len(arrs) + 1
  <1>. DEFINE c == Len(arrs)
              new == Append(arrs, a)
  <1>1. Listed(arrs) /\ c \in Nat /\ \A i \in 1..c : Sound(arrs[i], i, n)
    BY DEF AllSound, Listed
  <1>2. /\ Listed(new) /\ Len(new) = c + 1 /\ new[c + 1] = a
        /\ \A k \in 1..c : new[k] = arrs[k]
    BY <1>1, AppendIs
  <1>3. ASSUME NEW i \in 1..(c + 1)  PROVE Sound(new[i], i, m)
    <2>1. CASE i = c + 1
      BY <1>2, <2>1
    <2>2. CASE i # c + 1
      <3>1. i \in 1..c /\ i \in Nat /\ i <= i
        BY <1>1, <2>2
      <3>2. Sound(arrs[i], i, n) /\ new[i] = arrs[i]
        BY <1>1, <1>2, <3>1
      <3>. HIDE DEF new
      <3>. QED
        BY <3>1, <3>2, SoundIn
    <2>. QED
      BY <2>1, <2>2
  <1>. HIDE DEF new, c
  <1>. QED
    BY <1>2, <1>3 DEF AllSound, new, c

LEMMA SoundExcept ==
  ASSUME NEW arrs, NEW n \in Nat, AllSound(arrs, n), NEW i \in 1..Len(arrs), NEW a, Sound(a, i, n)
  PROVE  AllSound([arrs EXCEPT ![i] = a], n) /\ Len([arrs EXCEPT ![i] = a]) = Len(arrs)
  <1>. DEFINE c == Len(arrs)
              new == [arrs EXCEPT ![i] = a]
  <1>1. c \in Nat /\ arrs = [k \in 1..c |-> arrs[k]] /\ \A k \in 1..c : Sound(arrs[k], k, n)
    BY DEF AllSound, Listed
  <1>. HIDE DEF c
  <1>2. new = [k \in 1..c |-> new[k]] /\ \A k \in 1..c : new[k] = IF k = i THEN a ELSE arrs[k]
    BY <1>1
  <1>3. Listed(new) /\ Len(new) = c
    <2>. HIDE DEF new
    <2>. QED
      BY <1>1, <1>2, FunctionListed
  <1>4. \A k \in 1..c : Sound(new[k], k, n)
    BY <1>1, <1>2
  <1>. QED
    BY <1>3, <1>4 DEF AllSound, c

\* What a view of an array is.
LEMMA Flagged ==
  ASSUME NEW b \in Arrays, Axes(b)
  PROVE  LET v == UpdateFlags(b)
         IN  /\ v \in Arrays /\ Axes(v) /\ Updated(v) /\ FlagsKnown(v)
             /\ v.dims = b.dims /\ v.strides = b.strides /\ v.data = b.data
             /\ v.block = b.block /\ v.base = b.base
  <1>. DEFINE C == IsContiguous(b)
              F == IsFortranContiguous(b) /\ ~(IsContiguous(b) /\ Nd(b) > 1)
              v == UpdateFlags(b)
  <1>1. C \in BOOLEAN
    BY DEF IsContiguous
  <1>2. F \in BOOLEAN
    BY DEF IsFortranContiguous
  <1>3. v = [b EXCEPT !.C = C, !.F = F]
    BY DEF UpdateFlags
  <1>4. /\ v.dims = b.dims /\ v.strides = b.strides /\ v.data = b.data
        /\ v.block = b.block /\ v.base = b.base /\ v.C = C /\ v.F = F /\ v \in Arrays
    <2>. HIDE DEF C, F
    <2>. QED
      BY <1>1, <1>2, <1>3 DEF Arrays
  <1>5. IsContiguous(v) = IsContiguous(b) /\ IsFortranContiguous(v) = IsFortranContiguous(b) /\ Nd(v) = Nd(b)
    BY <1>4 DEF IsContiguous, IsFortranContiguous, Nd
  <1>6. Updated(v)
    BY <1>4, <1>5 DEF Updated
  <1>. QED
    BY <1>4, <1>6 DEF Axes, FlagsKnown

LEMMA ViewSound ==
  ASSUME NEW n \in Nat, AllSound(arrays, n), NEW i \in 1..Len(arrays),
         NEW dims \in Seq(Nat), NEW strides \in Seq(Int), Len(strides) = Len(dims)
  PROVE  /\ Sound(ViewOf(i, dims, strides), Len(arrays) + 1, n)
         /\ \A d \in Int : Sound([ViewOf(i, dims, strides) EXCEPT !.data = d], Len(arrays) + 1, n)
  <1>. DEFINE a == arrays[i]
              b == [a EXCEPT !.dims = dims, !.strides = strides, !.base = i, !.owns = FALSE]
              v == ViewOf(i, dims, strides)
  <1>1. a \in Arrays /\ a.block \in 1..n /\ i \in Nat /\ i < Len(arrays) + 1
    BY DEF AllSound, Listed, Sound
  <1>2. b \in Arrays /\ b.dims = dims /\ b.strides = strides /\ b.base = i /\ b.block = a.block
    <2>. HIDE DEF a
    <2>. QED
      BY <1>1 DEF Arrays
  <1>3. Axes(b)
    BY <1>2 DEF Axes
  <1>4. v = UpdateFlags(b)
    BY DEF ViewOf
  <1>. HIDE DEF b, a
  <1>5. /\ v \in Arrays /\ Axes(v) /\ Updated(v) /\ FlagsKnown(v) /\ v.block = b.block /\ v.base = b.base
    BY <1>2, <1>3, <1>4, Flagged
  <1>. HIDE DEF v
  <1>6. Sound(v, Len(arrays) + 1, n)
    BY <1>1, <1>2, <1>5 DEF Sound
  <1>7. ASSUME NEW d \in Int  PROVE Sound([v EXCEPT !.data = d], Len(arrays) + 1, n)
    <2>. DEFINE w == [v EXCEPT !.data = d]
    <2>1. /\ w \in Arrays /\ w.dims = v.dims /\ w.strides = v.strides /\ w.block = v.block /\ w.base = v.base
          /\ w.C = v.C /\ w.F = v.F
      BY <1>5 DEF Arrays
    <2>2. IsContiguous(w) = IsContiguous(v) /\ IsFortranContiguous(w) = IsFortranContiguous(v) /\ Nd(w) = Nd(v)
      BY <2>1 DEF IsContiguous, IsFortranContiguous, Nd
    <2>3. Updated(w)
      BY <1>5, <2>1, <2>2 DEF Updated
    <2>. HIDE DEF w
    <2>4. Axes(w) /\ FlagsKnown(w)
      BY <1>5, <2>1, <2>3 DEF Axes, FlagsKnown
    <2>5. Sound(w, Len(arrays) + 1, n)
      BY <1>6, <2>1, <2>4 DEF Sound
    <2>. QED
      BY <2>5 DEF w
  <1>. QED
    BY <1>6, <1>7 DEF v

LEMMA FilledType ==
  ASSUME NEW dims \in Seq(Nat), NEW o \in {"C", "F"}
  PROVE  Filled(dims, o) \in Seq(Int) /\ Len(Filled(dims, o)) = Len(dims)
  <1>. DEFINE l == Longer(dims)
              n == Len(dims)
              f == Filled(dims, o)
  <1>1. n \in Nat /\ l \in Seq(Nat) /\ Len(l) = n
    BY LongerIs
  <1>2. f = [i \in 1..n |-> Weight(l, o, i)]
    BY FilledIs
  <1>. HIDE DEF l, n
  <1>3. \A i \in 1..n : Weight(l, o, i) \in Int
    <2>. SUFFICES ASSUME NEW i \in 1..n  PROVE Weight(l, o, i) \in Int
      OBVIOUS
    <2>1. i \in 1..Len(l) /\ i \in 0..Len(l)
      BY <1>1
    <2>2. Weight(l, "C", i) = Below(l, i) /\ Weight(l, "F", i) = Ahead(l, i)
      BY <1>1, <2>1, WeightIs
    <2>3. Below(l, i) \in Int /\ Ahead(l, i) \in Int
      <3>1. Below(l, i) \in Nat
        BY <1>1, <2>1, BelowStep
      <3>2. Ahead(l, i) \in Int
        BY <1>1, <2>1, AheadStep
      <3>. QED
        BY <3>1, <3>2
    <2>. QED
      BY <2>2, <2>3
  <1>. HIDE DEF f
  <1>4. f \in [1..n -> Int] /\ f = [i \in 1..n |-> f[i]]
    BY <1>2, <1>3
  <1>5. Len(f) = n
    BY <1>1, <1>4, LenIs
  <1>6. f \in Seq(Int)
    BY <1>1, <1>4
  <1>. QED
    BY <1>5, <1>6 DEF f, n

LEMMA AllocatedSound ==
  ASSUME NEW dims \in Seq(Nat), NEW o \in {"C", "F"}, NEW i \in Nat \ {0}, NEW n \in Nat, NEW block \in 1..n
  PROVE  /\ Sound(Allocated(dims, o, block), i, n)
         /\ Allocated(dims, o, block).dims = dims /\ Allocated(dims, o, block).block = block
         /\ Allocated(dims, o, block).data = 0
  <1>. DEFINE a == Allocated(dims, o, block)
  <1>1. Filled(dims, o) \in Seq(Int) /\ Len(Filled(dims, o)) = Len(dims)
    BY FilledType
  <1>2. /\ a \in Arrays /\ a.dims = dims /\ a.strides = Filled(dims, o) /\ a.block = block /\ a.base = 0 /\ a.data = 0
        /\ a.C = (o = "C" \/ Len(dims) = 1) /\ a.F = (o = "F" \/ Len(dims) = 1)
    BY <1>1 DEF Arrays, Allocated
  <1>. HIDE DEF a
  <1>3. Fresh(a, o)
    BY <1>2 DEF Fresh, Nd
  <1>4. FlagsKnown(a) /\ Axes(a)
    BY <1>1, <1>2, <1>3 DEF FlagsKnown, Axes
  <1>5. Sound(a, i, n)
    BY <1>2, <1>4 DEF Sound
  <1>. QED
    BY <1>2, <1>5 DEF a

\* A copy and a view of it.
LEMMA CopySound ==
  ASSUME NEW arrs, NEW n \in Nat, AllSound(arrs, n), NEW m \in Nat, n <= m,
         NEW copy, Sound(copy, Len(arrs) + 1, m),
         NEW view, view \in Arrays, Axes(view), FlagsKnown(view), view.base = Len(arrs) + 1, view.block \in 1..m
  PROVE  AllSound(arrs \o <<copy, view>>, m)
  <1>. DEFINE one == Append(arrs, copy)
  <1>1. AllSound(one, m) /\ Len(one) = Len(arrs) + 1 /\ Len(arrs) \in Nat /\ Len(one) \in Nat
    <2>1. Len(arrs) \in Nat
      BY DEF AllSound, Listed
    <2>2. AllSound(one, m) /\ Len(one) = Len(arrs) + 1
      BY SoundAppend
    <2>. QED
      BY <2>1, <2>2
  <1>2. arrs \o <<copy, view>> = Append(one, view)
    <2>1. Listed(arrs)
      BY DEF AllSound
    <2>2. PICK V : arrs \in Seq(V)
      BY <2>1, ListedSeq
    <2>. DEFINE W == V \cup {copy, view}
    <2>3. arrs \in Seq(W) /\ copy \in W /\ view \in W
      BY <2>2
    <2>. HIDE DEF W
    <2>. QED
      BY <2>3
  <1>. HIDE DEF one
  <1>3. Sound(view, Len(one) + 1, m)
    BY <1>1 DEF Sound
  <1>4. AllSound(Append(one, view), m)
    <2>1. m <= m
      OBVIOUS
    <2>. QED
      BY <1>1, <1>3, <2>1, SoundAppend
  <1>. QED
    BY <1>2, <1>4

-----------------------------------------------------------------------------
(* Every operation keeps it.                                               *)

LEMMA ThenInv ==
  ASSUME IInv, Step, Listed(memory'), AllSound(arrays', Len(memory'))
  PROVE  IInv'
  <1>1. steps' \in 0..MaxSteps
    BY SizesAssumption DEF IInv, Step
  <1>. QED
    BY <1>1 DEF IInv, AllSound, Listed, Sound, Axes, FlagsKnown, Updated, Fresh

LEMMA MemoryGrows ==
  ASSUME IInv, UNCHANGED memory \/ \E x : memory' = Append(memory, x)
  PROVE  /\ Listed(memory') /\ Len(memory) \in Nat /\ Len(memory') \in Nat /\ Len(memory) <= Len(memory')
         /\ ~UNCHANGED memory => Len(memory') = Len(memory) + 1
  <1>1. Listed(memory) /\ Len(memory) \in Nat
    BY DEF IInv, Listed
  <1>2. CASE UNCHANGED memory
    BY <1>1, <1>2
  <1>3. CASE \E x : memory' = Append(memory, x)
    <2>1. PICK x : memory' = Append(memory, x)
      BY <1>3
    <2>2. Listed(Append(memory, x)) /\ Len(Append(memory, x)) = Len(memory) + 1
      BY <1>1, AppendIs
    <2>3. Listed(memory') /\ Len(memory') = Len(memory) + 1
      BY <2>1, <2>2
    <2>. QED
      BY <1>1, <2>3
  <1>. QED
    BY <1>2, <1>3

LEMMA ThenAdded ==
  ASSUME IInv, Step, UNCHANGED memory \/ \E x : memory' = Append(memory, x),
         NEW a, NEW s, Add(a, s), Sound(a, Len(arrays) + 1, Len(memory'))
  PROVE  IInv'
  <1>1. Listed(memory') /\ Len(memory) \in Nat /\ Len(memory') \in Nat /\ Len(memory) <= Len(memory')
    BY MemoryGrows
  <1>2. AllSound(arrays, Len(memory)) /\ arrays' = Append(arrays, a)
    BY DEF IInv, Add
  <1>. DEFINE n == Len(memory)
              m == Len(memory')
  <1>3. AllSound(Append(arrays, a), m)
    <2>1. n \in Nat /\ m \in Nat /\ n <= m /\ AllSound(arrays, n) /\ Sound(a, Len(arrays) + 1, m)
      BY <1>1, <1>2
    <2>. HIDE DEF n, m
    <2>. QED
      BY <2>1, SoundAppend
  <1>. QED
    BY <1>1, <1>2, <1>3, ThenInv

\* A view in the same memory.
LEMMA ThenViewed ==
  ASSUME IInv, Step, UNCHANGED memory, NEW i \in 1..Len(arrays), NEW dims \in Seq(Nat), NEW strides \in Seq(Int),
         Len(strides) = Len(dims), NEW s, Add(ViewOf(i, dims, strides), s)
  PROVE  IInv'
  <1>1. AllSound(arrays, Len(memory)) /\ Len(memory) \in Nat
    BY DEF IInv, Listed
  <1>2. Sound(ViewOf(i, dims, strides), Len(arrays) + 1, Len(memory))
    BY <1>1, ViewSound
  <1>. HIDE DEF ViewOf
  <1>3. Sound(ViewOf(i, dims, strides), Len(arrays) + 1, Len(memory'))
    BY <1>2
  <1>. QED
    BY <1>3, ThenAdded

\* An array that is changed in place, in as much memory.
LEMMA ThenChanged ==
  ASSUME IInv, Step, Listed(memory'), Len(memory') = Len(memory), NEW i \in 1..Len(arrays), NEW a,
         arrays' = [arrays EXCEPT ![i] = a], Sound(a, i, Len(memory))
  PROVE  IInv'
  <1>1. AllSound(arrays, Len(memory)) /\ Len(memory) \in Nat
    BY DEF IInv, Listed
  <1>2. AllSound([arrays EXCEPT ![i] = a], Len(memory))
    BY <1>1, SoundExcept
  <1>3. AllSound(arrays', Len(memory'))
    BY <1>2
  <1>. QED
    BY <1>3, ThenInv

LEMMA Ours ==
  ASSUME IInv, NEW i \in 1..Len(arrays)
  PROVE  LET a == arrays[i]
         IN  /\ a \in Arrays /\ Axes(a) /\ FlagsKnown(a) /\ a.base < i /\ a.block \in 1..Len(memory)
             /\ a.dims \in Seq(Nat) /\ a.strides \in Seq(Int) /\ Len(a.strides) = Len(a.dims) /\ a.data \in Int
             /\ Len(arrays) \in Nat /\ Len(memory) \in Nat /\ Size(a) \in Nat
  <1>1. Sound(arrays[i], i, Len(memory)) /\ Len(arrays) \in Nat /\ Len(memory) \in Nat
    BY DEF IInv, AllSound, Listed
  <1>2. arrays[i].dims \in Seq(Nat)
    BY <1>1 DEF Sound, Axes
  <1>3. Size(arrays[i]) \in Nat
    BY <1>2, ProductType DEF Size
  <1>. QED
    BY <1>1, <1>3 DEF Sound, Axes, Arrays

LEMMA SqueezeKeeps ==
  ASSUME IInv, NEW i \in 1..Len(arrays), Squeeze(i)
  PROVE  IInv'
  <1>. DEFINE c == Core(arrays[i])
  <1>1. c.dims \in Seq(Nat) /\ c.strides \in Seq(Int) /\ Len(c.strides) = Len(c.dims)
    <2>1. Axes(arrays[i])
      BY Ours
    <2>2. /\ Core(arrays[i]).dims \in Seq(Nat) /\ Core(arrays[i]).strides \in Seq(Int)
          /\ Len(Core(arrays[i]).dims) = Cardinality(LongAxes(arrays[i].dims))
          /\ Len(Core(arrays[i]).strides) = Cardinality(LongAxes(arrays[i].dims))
      BY <2>1, CoreIs
    <2>. QED
      BY <2>2
  <1>2. Step /\ UNCHANGED memory /\ \E s : Add(ViewOf(i, c.dims, c.strides), s)
    BY DEF Squeeze
  <1>. HIDE DEF c
  <1>. QED
    BY <1>1, <1>2, ThenViewed

LEMMA TransposeKeeps ==
  ASSUME IInv, NEW i \in 1..Len(arrays), NEW axes \in [1..Nd(arrays[i]) -> 1..Nd(arrays[i])], Transpose(i, axes)
  PROVE  IInv'
  <1>. DEFINE a == arrays[i]
              n == Len(a.dims)
              dims == [k \in DOMAIN axes |-> a.dims[axes[k]]]
              strides == [k \in DOMAIN axes |-> a.strides[axes[k]]]
  <1>1. /\ n \in Nat /\ a.dims \in [1..n -> Nat] /\ a.strides \in [1..n -> Int]
        /\ axes \in [1..n -> 1..n]
    <2>1. axes \in [1..n -> 1..n]
      BY DEF Nd
    <2>2. a.dims \in Seq(Nat) /\ a.strides \in Seq(Int) /\ Len(a.strides) = Len(a.dims)
      BY Ours
    <2>. HIDE DEF a
    <2>. QED
      BY SMTT(30), <2>1, <2>2
  <1>2. Step /\ UNCHANGED memory /\ \E s : Add(ViewOf(i, dims, strides), s)
    BY Zenon DEF Transpose
  <1>3. dims \in [1..n -> Nat] /\ strides \in [1..n -> Int]
    <2>. HIDE DEF a, n
    <2>. QED
      BY <1>1
  <1>. HIDE DEF a, n, dims, strides
  <1>4. dims \in Seq(Nat) /\ strides \in Seq(Int) /\ Len(dims) = n /\ Len(strides) = n
    BY <1>1, <1>3, IntsListed, NatsListed
  <1>. QED
    BY <1>2, <1>4, ThenViewed

LEMMA SwapAxesKeeps ==
  ASSUME IInv, NEW i \in 1..Len(arrays), NEW a1, NEW a2, SwapAxes(i, a1, a2)
  PROVE  IInv'
  <1>. DEFINE axes == [k \in 1..Nd(arrays[i]) |-> CASE k = a1 -> a2 [] k = a2 -> a1 [] OTHER -> k]
  <1>1. axes \in [1..Nd(arrays[i]) -> 1..Nd(arrays[i])]
    <2>1. a1 \in 1..Nd(arrays[i]) /\ a2 \in 1..Nd(arrays[i]) /\ a1 # a2
      BY DEF SwapAxes
    <2>. QED
      BY <2>1
  <1>2. Transpose(i, axes)
    BY Zenon DEF SwapAxes
  <1>. HIDE DEF axes
  <1>. QED
    BY <1>1, <1>2, TransposeKeeps

LEMMA OrderIs ==
  ASSUME NEW a, NEW o \in Orders
  PROVE  Order(a, o) \in {"C", "F"}
  BY DEF Order, Orders

\* A new array in a block of its own.
LEMMA ThenAllocated ==
  ASSUME IInv, Step, NEW block, memory' = Append(memory, block), NEW dims \in Seq(Nat), NEW o \in {"C", "F"},
         NEW s, Add(Allocated(dims, o, Len(memory) + 1), s)
  PROVE  IInv'
  <1>1. /\ Len(memory) \in Nat /\ Len(memory') = Len(memory) + 1
        /\ Len(arrays) \in Nat /\ Listed(memory)
    <2>1. Listed(memory) /\ Len(memory) \in Nat /\ Len(arrays) \in Nat
      BY DEF IInv, AllSound, Listed
    <2>2. Len(Append(memory, block)) = Len(memory) + 1
      BY <2>1, AppendIs
    <2>. QED
      BY <2>1, <2>2
  <1>. DEFINE n == Len(memory) + 1
              j == Len(arrays) + 1
  <1>2. n \in Nat /\ n \in 1..n /\ j \in Nat \ {0}
    BY <1>1
  <1>. HIDE DEF n, j
  <1>3. Sound(Allocated(dims, o, n), j, n)
    BY <1>2, AllocatedSound
  <1>4. Sound(Allocated(dims, o, Len(memory) + 1), Len(arrays) + 1, Len(memory'))
    BY <1>1, <1>3 DEF n, j
  <1>. QED
    BY <1>4, ThenAdded

LEMMA FlattenKeeps ==
  ASSUME IInv, NEW i \in 1..Len(arrays), NEW o, Flatten(i, o)
  PROVE  IInv'
  <1>. DEFINE z == Size(arrays[i])
              dims == <<z>>
  <1>1. z \in Nat
    BY Ours
  <1>2. /\ Step /\ \E x : memory' = Append(memory, x)
        /\ \E s : Add(Allocated(dims, "C", Len(memory) + 1), s)
    BY Zenon DEF Flatten
  <1>. HIDE DEF z
  <1>3. dims \in Seq(Nat)
    BY <1>1
  <1>. HIDE DEF dims
  <1>. QED
    BY <1>2, <1>3, ThenAllocated

\* New strides in place.
LEMMA ThenReshaped ==
  ASSUME IInv, Step, UNCHANGED memory, NEW i \in 1..Len(arrays), NEW dims \in Seq(Nat), NEW strides \in Seq(Int),
         Len(strides) = Len(dims),
         arrays' = [arrays EXCEPT ![i] = UpdateFlags([@ EXCEPT !.dims = dims, !.strides = strides])]
  PROVE  IInv'
  <1>. DEFINE a == arrays[i]
              b == [a EXCEPT !.dims = dims, !.strides = strides]
              v == UpdateFlags(b)
  <1>1. a \in Arrays /\ a.base < i /\ a.block \in 1..Len(memory) /\ Listed(memory)
    BY Ours DEF IInv
  <1>2. b \in Arrays /\ b.dims = dims /\ b.strides = strides /\ b.base = a.base /\ b.block = a.block
    <2>. HIDE DEF a
    <2>. QED
      BY <1>1 DEF Arrays
  <1>3. arrays' = [arrays EXCEPT ![i] = v]
    OBVIOUS
  <1>. HIDE DEF a, b
  <1>4. Axes(b)
    BY <1>2 DEF Axes
  <1>5. v \in Arrays /\ Axes(v) /\ FlagsKnown(v) /\ v.block = b.block /\ v.base = b.base
    BY <1>2, <1>4, Flagged
  <1>. HIDE DEF v
  <1>6. Sound(v, i, Len(memory))
    BY <1>1, <1>2, <1>5 DEF Sound
  <1>. QED
    BY <1>1, <1>3, <1>6, ThenChanged

LEMMA SetStridesKeeps ==
  ASSUME IInv, NEW i \in 1..Len(arrays), NEW strides \in Seq(Int), SetStrides(i, strides)
  PROVE  IInv'
  <1>. DEFINE a == arrays[i]
              b == UpdateFlags([a EXCEPT !.strides = strides])
  <1>1. a.dims \in Seq(Nat) /\ a \in Arrays
    BY Ours
  <1>2. /\ Step /\ UNCHANGED memory /\ Len(strides) = Len(a.dims) /\ arrays' = [arrays EXCEPT ![i] = b]
    BY DEF SetStrides, Nd
  <1>3. [a EXCEPT !.strides = strides] = [a EXCEPT !.dims = a.dims, !.strides = strides]
    <2>. HIDE DEF a
    <2>. QED
      BY <1>1 DEF Arrays
  <1>4. b = UpdateFlags([a EXCEPT !.dims = a.dims, !.strides = strides])
    BY <1>3
  <1>5. arrays' = [arrays EXCEPT ![i] = UpdateFlags([@ EXCEPT !.dims = a.dims, !.strides = strides])]
    BY <1>2, <1>4
  <1>. QED
    BY <1>1, <1>2, <1>5, ThenReshaped

LEMMA ResizeKeeps ==
  ASSUME IInv, NEW i \in 1..Len(arrays), NEW dims \in Seq(Int), Resize(i, dims)
  PROVE  IInv'
  <1>. DEFINE a == arrays[i]
              order == IF a.F /\ ~a.C THEN "F" ELSE "C"
              b == [a EXCEPT !.dims = dims, !.strides = Filled(dims, order),
                             !.C = order = "C" \/ Len(dims) = 1, !.F = order = "F" \/ Len(dims) = 1]
  <1>1. /\ a \in Arrays /\ a.base < i /\ a.block \in 1..Len(memory) /\ Listed(memory) /\ Len(memory) \in Nat
        /\ memory = [k \in 1..Len(memory) |-> memory[k]]
    BY Ours DEF IInv, Listed
  <1>2. dims \in Seq(Nat)
    <2>1. \A k \in DOMAIN dims : dims[k] \in Nat
      BY DEF Resize, Unknown
    <2>. QED
      BY <2>1
  <1>3. order \in {"C", "F"}
    OBVIOUS
  <1>4. Step /\ arrays' = [arrays EXCEPT ![i] = b] /\ (UNCHANGED memory \/ \E x : memory' = [memory EXCEPT ![a.block] = x])
    BY DEF Resize
  <1>. HIDE DEF order
  <1>5. Filled(dims, order) \in Seq(Int) /\ Len(Filled(dims, order)) = Len(dims)
    BY <1>2, <1>3, FilledType
  <1>6. /\ b \in Arrays /\ b.dims = dims /\ b.strides = Filled(dims, order) /\ b.base = a.base /\ b.block = a.block
        /\ b.C = (order = "C" \/ Len(dims) = 1) /\ b.F = (order = "F" \/ Len(dims) = 1)
    <2>. HIDE DEF a
    <2>. QED
      BY <1>1, <1>2, <1>5 DEF Arrays
  <1>. HIDE DEF a, b
  <1>7. Fresh(b, order)
    BY <1>6 DEF Fresh, Nd
  <1>8. Axes(b) /\ FlagsKnown(b)
    BY <1>2, <1>3, <1>5, <1>6, <1>7 DEF Axes, FlagsKnown
  <1>9. Sound(b, i, Len(memory))
    BY <1>1, <1>6, <1>8 DEF Sound
  <1>10. Listed(memory') /\ Len(memory') = Len(memory)
    <2>1. CASE UNCHANGED memory
      BY <1>1, <2>1
    <2>2. CASE \E x : memory' = [memory EXCEPT ![a.block] = x]
      <3>1. PICK x : memory' = [memory EXCEPT ![a.block] = x]
        BY <2>2
      <3>. DEFINE n == Len(memory)
                  s == memory'
      <3>2. n \in Nat /\ memory = [k \in 1..n |-> memory[k]] /\ s = [memory EXCEPT ![a.block] = x]
        BY <1>1, <3>1
      <3>. HIDE DEF n, s
      <3>3. s = [k \in 1..n |-> s[k]]
        BY <3>2
      <3>4. Listed(s) /\ Len(s) = n
        BY <3>2, <3>3, FunctionListed
      <3>. QED
        BY <3>4 DEF n, s
    <2>. QED
      BY <1>4, <2>1, <2>2
  <1>. QED
    BY <1>4, <1>9, <1>10, ThenChanged

-----------------------------------------------------------------------------
(* The shape and the strides of NpyArray_Newshape.                         *)

\* The elements of a shape without axes of length 0 are never none.
LEMMA SomeElements ==
  ASSUME NEW dims \in Seq(Nat), \A i \in 1..Len(dims) : dims[i] # 0
  PROVE  Product(dims) \in Nat \ {0}
  <1>. DEFINE n == Len(dims)
              G == {i \in 0..n : Below(dims, i) \in Nat \ {0}}
  <1>0. n \in Nat
    OBVIOUS
  <1>1. n \in G
    BY <1>0, BelowStep
  <1>2. ASSUME NEW i \in 1..n, i \in G  PROVE i - 1 \in G
    <2>1. /\ Below(dims, i - 1) = dims[i] * Below(dims, i) /\ Below(dims, i) \in Nat \ {0}
          /\ dims[i] \in Nat \ {0} /\ i - 1 \in 0..n
      BY <1>2, BelowStep
    <2>. DEFINE x == dims[i]
                y == Below(dims, i)
    <2>2. x \in Nat \ {0} /\ y \in Nat \ {0} /\ Below(dims, i - 1) = x * y
      BY <2>1
    <2>. HIDE DEF x, y
    <2>3. x * y \in Nat \ {0}
      BY <2>2
    <2>. QED
      BY <2>1, <2>2, <2>3
  <1>3. 0 \in G
    <2>1. G \in SUBSET (0..n)
      OBVIOUS
    <2>. HIDE DEF G
    <2>2. G = 0..n
      BY <1>0, <1>1, <1>2, <2>1, DownFrom
    <2>. QED
      BY <1>0, <2>2
  <1>. QED
    BY <1>3, BelowStep

LEMMA KnownIs ==
  ASSUME NEW dims \in Seq(Int)
  PROVE  /\ Known(dims) \in Nat
         /\ (\A i \in 1..Len(dims) : dims[i] # 0) => Known(dims) # 0
  <1>. DEFINE S == {i \in DOMAIN dims : dims[i] >= 0}
              p == Picked(dims, S)
              c == Cardinality(S)
              f == Ascending(S)
  <1>1. S \in SUBSET (1..Len(dims)) /\ Len(dims) \in Nat /\ \A i \in S : dims[i] \in Nat
    OBVIOUS
  <1>2. c \in Nat /\ \A j \in 1..c : f[j] \in S
    <2>. HIDE DEF S
    <2>1. c \in Nat /\ Enumerates(f, c, S)
      BY <1>1, AscendingOf
    <2>. QED
      BY <2>1 DEF Enumerates
  <1>3. p = [j \in 1..c |-> dims[f[j]]]
    BY DEF Picked
  <1>4. Known(dims) = Product(p)
    BY DEF Known
  <1>5. \A i \in S : i \in 1..Len(dims)
    OBVIOUS
  <1>. HIDE DEF S, c, f, p
  <1>6. p \in [1..c -> Nat]
    BY <1>1, <1>2, <1>3
  <1>7. p \in Seq(Nat) /\ Len(p) = c
    BY <1>2, <1>6, NatsListed
  <1>8. Product(p) \in Nat
    BY <1>7, ProductType
  <1>9. ASSUME \A i \in 1..Len(dims) : dims[i] # 0  PROVE Product(p) # 0
    <2>1. \A j \in 1..c : p[j] # 0
      BY <1>2, <1>3, <1>5, <1>9
    <2>. QED
      BY <1>7, <2>1, SomeElements
  <1>. QED
    BY <1>4, <1>8, <1>9

LEMMA LongIntegers ==
  ASSUME NEW dims \in Seq(Int)
  PROVE  /\ Picks(dims, LongAxes(dims), Int) /\ Cardinality(LongAxes(dims)) \in Nat
         /\ \A i \in 1..Len(dims) : dims[i] # 1 =>
              \E j \in 1..Cardinality(LongAxes(dims)) : Ascending(LongAxes(dims))[j] = i
  <1>. DEFINE S == LongAxes(dims)
  <1>1. S \in SUBSET (1..Len(dims)) /\ Len(dims) \in Nat /\ \A i \in 1..Len(dims) : dims[i] # 1 => i \in S
    BY DEF LongAxes
  <1>. HIDE DEF S
  <1>2. Picks(dims, S, Int)
    BY <1>1, PickedIs
  <1>3. Cardinality(S) \in Nat /\ Enumerates(Ascending(S), Cardinality(S), S)
    BY <1>1, AscendingOf
  <1>4. \A i \in S : \E j \in 1..Cardinality(S) : Ascending(S)[j] = i
    BY <1>3 DEF Enumerates
  <1>. QED
    BY <1>1, <1>2, <1>3, <1>4 DEF S

\* A shape with the same long axes has a length for every axis.
LEMMA OnesKnown ==
  ASSUME NEW a, Axes(a), NEW dims \in Seq(Int), OnesOnly(a, dims)
  PROVE  dims \in Seq(Nat)
  <1>. DEFINE c == Cardinality(LongAxes(dims))
              p == Others(dims)
              f == Ascending(LongAxes(dims))
  <1>1. /\ c \in Nat /\ Len(p) = c /\ \A j \in 1..c : p[j] = dims[f[j]]
        /\ \A i \in 1..Len(dims) : dims[i] # 1 => \E j \in 1..c : f[j] = i
    BY LongIntegers DEF Others, Picks
  <1>2. p = Core(a).dims /\ Core(a).dims \in Seq(Nat)
    BY CoreIs DEF OnesOnly, Core
  <1>. HIDE DEF c, p, f
  <1>3. \A j \in 1..c : p[j] \in Nat
    BY <1>1, <1>2
  <1>4. ASSUME NEW i \in 1..Len(dims)  PROVE dims[i] \in Nat
    <2>1. CASE dims[i] = 1
      BY <2>1
    <2>2. CASE dims[i] # 1
      <3>1. PICK j \in 1..c : f[j] = i
        BY <1>1, <2>2
      <3>2. p[j] = dims[f[j]] /\ p[j] \in Nat
        BY <1>1, <1>3
      <3>. QED
        BY <3>1, <3>2
    <2>. QED
      BY <2>1, <2>2
  <1>. QED
    BY <1>4

\* The shape that is found has a length for every axis; unless the long axes
\* stay, both shapes have elements if one has.
LEMMA FixedIs ==
  ASSUME NEW a, Axes(a), NEW asked \in Seq(Int),
         a.dims = asked \/ OnesOnly(a, asked) \/ Fits(asked, Size(a)),
         NEW dims, dims = Fixed(asked, Size(a))
  PROVE  /\ dims \in Seq(Nat)
         /\ a.dims # dims /\ ~OnesOnly(a, dims) /\ Product(dims) # 0 => Size(a) # 0
  <1>. DEFINE k == Known(asked)
              z == Size(a)
  <1>1. k \in Nat /\ z \in Nat /\ ((\A i \in 1..Len(asked) : asked[i] # 0) => k # 0)
    <2>1. a.dims \in Seq(Nat)
      BY DEF Axes
    <2>. QED
      BY <2>1, KnownIs, ProductType DEF Size
  <1>2. dims = [i \in 1..Len(asked) |-> IF asked[i] < 0 THEN z \div k ELSE asked[i]]
    BY DEF Fixed
  <1>3. ASSUME asked \in Seq(Nat)  PROVE dims = asked
    <2>1. \A i \in 1..Len(asked) : ~(asked[i] < 0) /\ asked = [j \in 1..Len(asked) |-> asked[j]]
      BY <1>3
    <2>. HIDE DEF k, z
    <2>. QED
      BY <1>2, <1>3, <2>1
  <1>4. CASE a.dims = asked \/ OnesOnly(a, asked)
    <2>1. asked \in Seq(Nat)
      BY <1>4, OnesKnown DEF Axes
    <2>. QED
      BY <1>3, <1>4, <2>1
  <1>5. CASE Fits(asked, z) /\ Unknown(asked) = {}
    <2>1. asked \in Seq(Nat)
      <3>1. \A i \in 1..Len(asked) : asked[i] \in Nat
        BY <1>5 DEF Unknown
      <3>. QED
        BY <3>1
    <2>2. k = z
      <3>1. Cardinality(Unknown(asked)) # 1
        BY <1>5, FS_EmptySet
      <3>. QED
        BY <1>5, <3>1 DEF Fits
    <2>3. Product(dims) # 0 => \A i \in 1..Len(asked) : asked[i] # 0
      <3>1. Product(asked) # 0 => \A i \in 1..Len(asked) : asked[i] > 0
        BY <2>1, NoEmptyAxis
      <3>2. dims = asked
        BY <1>3, <2>1
      <3>. HIDE DEF k, z
      <3>. QED
        BY <2>1, <3>1, <3>2
    <2>. HIDE DEF k
    <2>. QED
      BY <1>1, <1>3, <2>1, <2>2, <2>3
  <1>6. CASE Fits(asked, z) /\ Unknown(asked) # {}
    <2>1. k # 0
      BY <1>6 DEF Fits
    <2>2. PICK u \in 1..Len(asked) : asked[u] < 0
      BY <1>6 DEF Unknown
    <2>3. z \div k \in Nat
      <3>. HIDE DEF z, k
      <3>1. z \in Int /\ k \in Nat \ {0}
        BY <1>1, <2>1
      <3>2. z \div k \in Int /\ z % k \in 0..(k - 1) /\ z = k * (z \div k) + (z % k)
        BY <3>1, DivIs
      <3>. DEFINE q == z \div k
                  r == z % k
      <3>3. q \in Int /\ r \in 0..(k - 1) /\ z = k * q + r
        BY <3>2
      <3>. HIDE DEF q, r
      <3>4. q >= 0
        <4>. SUFFICES ASSUME q < 0  PROVE FALSE
          BY <3>3
        <4>. DEFINE y == 0 - q
        <4>1. y \in Nat /\ 0 < y /\ k * q = 0 - y * k
          BY <3>1, <3>3
        <4>. HIDE DEF y
        <4>2. 0 * k + k <= y * k /\ 0 * k = 0 /\ y * k \in Nat
          BY <3>1, <4>1, TimesLess
        <4>. QED
          BY <1>1, <3>1, <3>3, <4>1, <4>2
      <3>. QED
        BY <3>3, <3>4 DEF q
    <2>. DEFINE q == z \div k
                n == Len(asked)
    <2>4. dims = [i \in 1..n |-> IF asked[i] < 0 THEN q ELSE asked[i]] /\ q \in Nat /\ n \in Nat
      BY <1>2, <2>3
    <2>5. z = 0 => q = 0
      <3>1. k \in Nat \ {0}
        BY <1>1, <2>1
      <3>. HIDE DEF z, k
      <3>2. (k * 0 + 0) \div k = 0 /\ k * 0 + 0 = 0
        <4>1. 0 \in Int /\ 0 \in 0..(k - 1)
          BY <3>1
        <4>2. (k * 0 + 0) \div k = 0
          BY <3>1, <4>1, DivUnique
        <4>. QED
          BY <3>1, <4>2
      <3>3. 0 \div k = 0
        BY <3>2
      <3>. QED
        BY <3>3
    <2>6. \A i \in 1..n : asked[i] \in Int
      OBVIOUS
    <2>. HIDE DEF q, n, z, k
    <2>7. dims \in [1..n -> Nat]
      BY <2>4, <2>6
    <2>8. dims \in Seq(Nat) /\ Len(dims) = n
      BY <2>4, <2>7, NatsListed
    <2>9. Product(dims) # 0 => q # 0
      <3>1. u \in 1..n /\ dims[u] = q
        BY <2>2, <2>4 DEF n
      <3>2. Product(dims) # 0 => dims[u] > 0
        BY <2>8, <3>1, NoEmptyAxis
      <3>. QED
        BY <3>1, <3>2
    <2>. QED
      BY <2>5, <2>8, <2>9 DEF z
  <1>. QED
    BY <1>4, <1>5, <1>6

LEMMA OnesStridesType ==
  ASSUME NEW a, Axes(a), NEW dims \in Seq(Nat)
  PROVE  OnesStrides(a, dims) \in [1..Len(dims) -> Int]
  <1>. DEFINE same(k) == {j \in DOMAIN a.dims : PlaceOf(a.dims, j) = PlaceOf(dims, k)}
              t(k) == IF same(k) = {} THEN 0 ELSE a.strides[CHOOSE j \in same(k) : TRUE]
  <1>1. OnesStrides(a, dims) = [k \in 1..Len(dims) |-> t(k)]
    BY DEF OnesStrides
  <1>2. ASSUME NEW k \in 1..Len(dims)  PROVE t(k) \in Int
    <2>1. CASE same(k) = {}
      BY <2>1
    <2>2. CASE same(k) # {}
      <3>1. \A j \in same(k) : j \in 1..Len(a.strides) /\ a.strides[j] \in Int
        BY SMTT(30) DEF Axes
      <3>. HIDE DEF same
      <3>2. (CHOOSE j \in same(k) : TRUE) \in same(k)
        BY <2>2
      <3>3. t(k) = a.strides[CHOOSE j \in same(k) : TRUE]
        BY <2>2
      <3>. HIDE DEF t
      <3>. QED
        BY <3>1, <3>2, <3>3
    <2>. QED
      BY <2>1, <2>2
  <1>. HIDE DEF t
  <1>. QED
    BY <1>1, <1>2

\* The functions that fill in the strides that are 0.
UpFrom(f, dims, s) ==
  f = [i \in 1..Len(dims) |-> IF s[i] # 0 THEN s[i] ELSE IF i = 1 THEN 1 ELSE f[i - 1] * dims[i - 1]]
DownTo(f, dims, s) ==
  f = [i \in 1..Len(dims) |-> IF s[i] # 0 THEN s[i] ELSE IF i = Len(dims) THEN 1 ELSE f[i + 1] * dims[i + 1]]

LEMMA UnzeroedIs ==
  ASSUME NEW dims, NEW s, NEW o
  PROVE  Unzeroed(dims, s, o) = IF o = "F" THEN CHOOSE f : UpFrom(f, dims, s) ELSE CHOOSE f : DownTo(f, dims, s)
  BY DEF Unzeroed, UpFrom, DownTo

\* There is one: from the first axis on, or from the last one back.
LEMMA UpExists ==
  ASSUME NEW dims \in Seq(Nat), NEW s \in [1..Len(dims) -> Int]
  PROVE  \E f \in [1..Len(dims) -> Int] : UpFrom(f, dims, s)
  <1>. DEFINE n == Len(dims)
              e(f, i) == IF s[i] # 0 THEN s[i] ELSE IF i = 1 THEN 1 ELSE f[i - 1] * dims[i - 1]
              good(f, m) == \A i \in 1..m : f[i] = e(f, i)
              G == {m \in 0..n : \E f \in [1..n -> Int] : good(f, m)}
  <1>1. n \in Nat /\ \A i \in 1..n : s[i] \in Int /\ dims[i] \in Nat
    OBVIOUS
  <1>2. 0 \in G
    <2>1. [i \in 1..n |-> 0] \in [1..n -> Int] /\ good([i \in 1..n |-> 0], 0)
      OBVIOUS
    <2>. QED
      BY <1>1, <2>1
  <1>3. ASSUME NEW m \in 1..n, m - 1 \in G  PROVE m \in G
    <2>1. PICK f \in [1..n -> Int] : good(f, m - 1)
      BY <1>3
    <2>. DEFINE g == [f EXCEPT ![m] = e(f, m)]
    <2>2. e(f, m) \in Int
      <3>1. CASE s[m] # 0 \/ m = 1
        BY <1>1, <3>1
      <3>2. CASE s[m] = 0 /\ m # 1
        <4>1. m - 1 \in 1..n
          BY <1>1, <3>2
        <4>2. f[m - 1] \in Int /\ dims[m - 1] \in Nat
          BY <1>1, <4>1
        <4>3. f[m - 1] * dims[m - 1] \in Int
          BY <4>2
        <4>. QED
          BY <3>2, <4>3
      <3>. QED
        BY <3>1, <3>2
    <2>. HIDE DEF e
    <2>3. g \in [1..n -> Int] /\ \A i \in 1..n : g[i] = IF i = m THEN e(f, m) ELSE f[i]
      BY <2>2
    <2>. HIDE DEF g
    <2>4. ASSUME NEW i \in 1..m  PROVE e(g, i) = e(f, i)
      <3>1. i = 1 \/ (i - 1 \in 1..n /\ i - 1 # m)
        BY <1>1
      <3>2. i = 1 \/ g[i - 1] = f[i - 1]
        BY <2>3, <3>1
      <3>. QED
        BY <3>2 DEF e
    <2>5. ASSUME NEW i \in 1..m  PROVE g[i] = e(g, i)
      <3>1. CASE i = m
        BY <2>3, <2>4, <3>1
      <3>2. CASE i # m
        <4>1. i \in 1..(m - 1) /\ i \in 1..n
          BY <1>1, <3>2
        <4>2. f[i] = e(f, i)
          BY <2>1, <4>1
        <4>3. g[i] = f[i]
          BY <2>3, <3>2, <4>1
        <4>4. e(g, i) = e(f, i)
          BY <2>4
        <4>. QED
          BY <4>2, <4>3, <4>4
      <3>. QED
        BY <3>1, <3>2
    <2>6. good(g, m)
      BY <2>5
    <2>. QED
      BY <2>3, <2>6
  <1>. HIDE DEF n
  <1>4. n \in G
    <2>1. G \in SUBSET (0..n)
      OBVIOUS
    <2>. HIDE DEF G
    <2>2. G = 0..n
      BY <1>1, <1>2, <1>3, <2>1, UpTo
    <2>. QED
      BY <1>1, <2>2
  <1>5. PICK f \in [1..n -> Int] : good(f, n)
    BY <1>4
  <1>6. f = [i \in 1..n |-> e(f, i)]
    <2>1. f = [i \in 1..n |-> f[i]]
      OBVIOUS
    <2>2. \A i \in 1..n : f[i] = e(f, i)
      BY <1>5
    <2>. HIDE DEF e
    <2>. QED
      BY <2>1, <2>2
  <1>7. UpFrom(f, dims, s)
    BY <1>6 DEF UpFrom, n
  <1>. QED
    BY <1>7 DEF n

LEMMA DownExists ==
  ASSUME NEW dims \in Seq(Nat), NEW s \in [1..Len(dims) -> Int]
  PROVE  \E f \in [1..Len(dims) -> Int] : DownTo(f, dims, s)
  <1>. DEFINE n == Len(dims)
              e(f, i) == IF s[i] # 0 THEN s[i] ELSE IF i = Len(dims) THEN 1 ELSE f[i + 1] * dims[i + 1]
              good(f, m) == \A i \in (m + 1)..n : f[i] = e(f, i)
              G == {m \in 0..n : \E f \in [1..n -> Int] : good(f, m)}
  <1>1. n \in Nat /\ \A i \in 1..n : s[i] \in Int /\ dims[i] \in Nat
    OBVIOUS
  <1>2. n \in G
    <2>1. [i \in 1..n |-> 0] \in [1..n -> Int] /\ good([i \in 1..n |-> 0], n)
      OBVIOUS
    <2>. QED
      BY <1>1, <2>1
  <1>3. ASSUME NEW m \in 1..n, m \in G  PROVE m - 1 \in G
    <2>1. PICK f \in [1..n -> Int] : good(f, m)
      BY <1>3
    <2>. DEFINE g == [f EXCEPT ![m] = e(f, m)]
    <2>2. e(f, m) \in Int
      <3>1. CASE s[m] # 0 \/ m = n
        BY <1>1, <3>1
      <3>2. CASE s[m] = 0 /\ m # n
        <4>1. m + 1 \in 1..n
          BY <1>1, <3>2
        <4>2. f[m + 1] \in Int /\ dims[m + 1] \in Nat
          BY <1>1, <4>1
        <4>3. f[m + 1] * dims[m + 1] \in Int
          BY <4>2
        <4>. QED
          BY <3>2, <4>3
      <3>. QED
        BY <3>1, <3>2
    <2>. HIDE DEF e
    <2>3. g \in [1..n -> Int] /\ \A i \in 1..n : g[i] = IF i = m THEN e(f, m) ELSE f[i]
      BY <2>2
    <2>. HIDE DEF g
    <2>4. ASSUME NEW i \in m..n  PROVE e(g, i) = e(f, i)
      <3>1. i = n \/ (i + 1 \in 1..n /\ i + 1 # m)
        BY <1>1
      <3>2. i = n \/ g[i + 1] = f[i + 1]
        BY <2>3, <3>1
      <3>. QED
        BY <3>2 DEF e, n
    <2>5. ASSUME NEW i \in m..n  PROVE g[i] = e(g, i)
      <3>1. CASE i = m
        BY <2>3, <2>4, <3>1
      <3>2. CASE i # m
        <4>1. i \in (m + 1)..n /\ i \in 1..n
          BY <1>1, <3>2
        <4>2. f[i] = e(f, i)
          BY <2>1, <4>1
        <4>3. g[i] = f[i]
          BY <2>3, <3>2, <4>1
        <4>4. e(g, i) = e(f, i)
          BY <2>4
        <4>. QED
          BY <4>2, <4>3, <4>4
      <3>. QED
        BY <3>1, <3>2
    <2>6. good(g, m - 1)
      BY <2>5
    <2>. QED
      BY <2>3, <2>6
  <1>. HIDE DEF n
  <1>4. 0 \in G
    <2>1. G \in SUBSET (0..n)
      OBVIOUS
    <2>. HIDE DEF G
    <2>2. G = 0..n
      BY <1>1, <1>2, <1>3, <2>1, DownFrom
    <2>. QED
      BY <1>1, <2>2
  <1>5. PICK f \in [1..n -> Int] : good(f, 0)
    BY <1>4
  <1>6. f = [i \in 1..n |-> e(f, i)]
    <2>1. f = [i \in 1..n |-> f[i]]
      OBVIOUS
    <2>2. \A i \in 1..n : f[i] = e(f, i)
      BY <1>5
    <2>. HIDE DEF e
    <2>. QED
      BY <2>1, <2>2
  <1>7. DownTo(f, dims, s)
    BY <1>6 DEF DownTo, n
  <1>. QED
    BY <1>7 DEF n

LEMMA UnzeroedType ==
  ASSUME NEW dims \in Seq(Nat), NEW s \in [1..Len(dims) -> Int], NEW o
  PROVE  Unzeroed(dims, s, o) \in Seq(Int) /\ Len(Unzeroed(dims, s, o)) = Len(dims)
  <1>. DEFINE n == Len(dims)
  <1>1. n \in Nat /\ \A i \in 1..n : s[i] \in Int /\ dims[i] \in Nat
    OBVIOUS
  <1>2. ASSUME NEW f, UpFrom(f, dims, s)  PROVE f \in [1..n -> Int]
    <2>1. f = [i \in 1..n |-> IF s[i] # 0 THEN s[i] ELSE IF i = 1 THEN 1 ELSE f[i - 1] * dims[i - 1]]
      BY <1>2 DEF UpFrom
    <2>. DEFINE G == {m \in 0..n : m = 0 \/ f[m] \in Int}
    <2>. HIDE DEF n
    <2>2. ASSUME NEW m \in 1..n, m - 1 \in G  PROVE m \in G
      <3>1. f[m] = IF s[m] # 0 THEN s[m] ELSE IF m = 1 THEN 1 ELSE f[m - 1] * dims[m - 1]
        BY <2>1
      <3>2. m = 1 \/ (f[m - 1] \in Int /\ dims[m - 1] \in Nat)
        BY <1>1, <2>2
      <3>3. m = 1 \/ f[m - 1] * dims[m - 1] \in Int
        BY <3>2
      <3>4. f[m] \in Int
        BY <1>1, <3>1, <3>3
      <3>. QED
        BY <1>1, <3>4
    <2>3. G \in SUBSET (0..n) /\ 0 \in G
      BY <1>1
    <2>4. G = 0..n
      <3>. HIDE DEF G
      <3>. QED
        BY <1>1, <2>2, <2>3, UpTo
    <2>5. \A m \in 1..n : f[m] \in Int
      BY <1>1, <2>4
    <2>6. DOMAIN f = 1..n /\ f = [i \in 1..n |-> f[i]]
      BY <2>1
    <2>. QED
      BY <2>5, <2>6
  <1>3. ASSUME NEW f, DownTo(f, dims, s)  PROVE f \in [1..n -> Int]
    <2>1. f = [i \in 1..n |-> IF s[i] # 0 THEN s[i] ELSE IF i = n THEN 1 ELSE f[i + 1] * dims[i + 1]]
      BY <1>3 DEF DownTo
    <2>. DEFINE G == {m \in 0..n : m = n \/ f[m + 1] \in Int}
    <2>. HIDE DEF n
    <2>2. ASSUME NEW m \in 1..n, m \in G  PROVE m - 1 \in G
      <3>1. f[m] = IF s[m] # 0 THEN s[m] ELSE IF m = n THEN 1 ELSE f[m + 1] * dims[m + 1]
        BY <2>1
      <3>2. m = n \/ (f[m + 1] \in Int /\ dims[m + 1] \in Nat)
        BY <1>1, <2>2
      <3>3. m = n \/ f[m + 1] * dims[m + 1] \in Int
        BY <3>2
      <3>4. f[m] \in Int
        BY <1>1, <3>1, <3>3
      <3>. QED
        BY <1>1, <3>4
    <2>3. G \in SUBSET (0..n) /\ n \in G
      BY <1>1
    <2>4. G = 0..n
      <3>. HIDE DEF G
      <3>. QED
        BY <1>1, <2>2, <2>3, DownFrom
    <2>5. \A m \in 1..n : f[m] \in Int
      <3>1. ASSUME NEW m \in 1..n  PROVE f[m] \in Int
        <4>. DEFINE j == m - 1
        <4>1. j \in 0..n /\ j # n /\ j + 1 = m
          BY <1>1
        <4>. HIDE DEF j
        <4>2. \A k \in G : k = n \/ f[k + 1] \in Int
          OBVIOUS
        <4>. HIDE DEF G
        <4>. QED
          BY <2>4, <4>1, <4>2
      <3>. QED
        BY <3>1
    <2>6. DOMAIN f = 1..n /\ f = [i \in 1..n |-> f[i]]
      BY <2>1
    <2>. QED
      BY <2>5, <2>6
  <1>4. UpFrom(CHOOSE f : UpFrom(f, dims, s), dims, s)
    BY UpExists
  <1>5. DownTo(CHOOSE f : DownTo(f, dims, s), dims, s)
    BY DownExists
  <1>6. Unzeroed(dims, s, o) \in [1..n -> Int]
    BY <1>2, <1>3, <1>4, <1>5, UnzeroedIs
  <1>. QED
    BY <1>1, <1>6, IntsListed

\* The leading axes of a shape with elements have more of them the more axes
\* of another length than 1 they are.
LEMMA PrefixesGrow ==
  ASSUME NEW dims \in Seq(Nat), \A i \in 1..Len(dims) : dims[i] # 0
  PROVE  /\ Prefix(dims, 0) = 1 /\ \A i \in 0..Len(dims) : Prefix(dims, i) \in Nat \ {0}
         /\ \A i, j \in 0..Len(dims) : i <= j => Prefix(dims, i) <= Prefix(dims, j)
         /\ \A i \in 0..Len(dims), j \in 1..Len(dims) : i < j /\ dims[j] # 1 => Prefix(dims, i) < Prefix(dims, j)
  <1>. DEFINE n == Len(dims)
              P(i) == Prefix(dims, i)
  <1>1. n \in Nat /\ Product(dims) \in Nat \ {0} /\ \A i \in 1..n : dims[i] \in Nat \ {0}
    BY SomeElements
  <1>2. \A i \in 0..n : P(i) = Ahead(dims, i + 1)
    BY <1>1 DEF Prefix, Ahead
  <1>3. /\ \A i \in 1..(n + 1) : Ahead(dims, i) \in Nat \ {0}
        /\ Ahead(dims, 1) = 1 /\ \A i \in 1..n : Ahead(dims, i + 1) = Ahead(dims, i) * dims[i]
    BY <1>1, AheadType, AheadStep
  <1>4. P(0) = 1 /\ \A i \in 0..n : P(i) \in Nat \ {0}
    <2>. HIDE DEF P
    <2>1. \A i \in 0..n : i + 1 \in 1..(n + 1)
      BY <1>1
    <2>2. 0 \in 0..n /\ 0 + 1 = 1
      BY <1>1
    <2>. QED
      BY <1>2, <1>3, <2>1, <2>2
  <1>5. ASSUME NEW i \in 1..n  PROVE P(i) = P(i - 1) * dims[i]
    <2>. HIDE DEF P
    <2>1. i - 1 \in 0..n /\ i \in 0..n /\ (i - 1) + 1 = i
      BY <1>1
    <2>. QED
      BY <1>2, <1>3, <2>1
  <1>. HIDE DEF P, n
  <1>6. ASSUME NEW i \in 1..n
        PROVE  P(i - 1) <= P(i) /\ (dims[i] # 1 => P(i - 1) < P(i))
    <2>. DEFINE x == P(i - 1)
                d == dims[i]
                e == d - 1
    <2>1. x \in Nat \ {0} /\ d \in Nat \ {0} /\ P(i) = x * d
      <3>1. i - 1 \in 0..n
        BY <1>1
      <3>. QED
        BY <1>1, <1>4, <1>5, <3>1
    <2>. HIDE DEF x, d
    <2>2. e \in Nat /\ (d # 1 => e # 0)
      BY <2>1
    <2>3. x * d = x * e + x /\ x * e \in Nat
      BY <2>1, <2>2
    <2>4. e # 0 => x * e # 0
      <3>. HIDE DEF e
      <3>. QED
        BY <2>1, <2>2
    <2>. HIDE DEF e
    <2>5. x <= P(i) /\ (d # 1 => x < P(i))
      BY <2>1, <2>2, <2>3, <2>4
    <2>. QED
      BY <2>5 DEF x, d
  <1>7. ASSUME NEW j \in 0..n
        PROVE  \A i \in 0..j : P(i) <= P(j)
    <2>. DEFINE G == {i \in 0..j : P(i) <= P(j)}
    <2>1. j \in Nat /\ j \in G
      BY <1>1, <1>4
    <2>2. ASSUME NEW i \in 1..j, i \in G  PROVE i - 1 \in G
      <3>1. i \in 1..n /\ i - 1 \in 0..j /\ i - 1 \in 0..n /\ i \in 0..n
        BY <1>1
      <3>2. P(i - 1) <= P(i) /\ P(i) <= P(j) /\ P(i - 1) \in Nat /\ P(i) \in Nat /\ P(j) \in Nat
        BY <1>4, <1>6, <2>2, <3>1
      <3>. QED
        BY <3>1, <3>2
    <2>3. G = 0..j
      <3>1. G \in SUBSET (0..j)
        OBVIOUS
      <3>. HIDE DEF G
      <3>. QED
        BY <2>1, <2>2, <3>1, DownFrom
    <2>. QED
      BY <2>3
  <1>8. ASSUME NEW i \in 0..n, NEW j \in 1..n, i < j, dims[j] # 1  PROVE P(i) < P(j)
    <2>1. j - 1 \in 0..n /\ i \in 0..(j - 1) /\ j \in 0..n
      BY <1>1, <1>8
    <2>2. P(i) <= P(j - 1) /\ P(j - 1) < P(j) /\ P(i) \in Nat /\ P(j) \in Nat /\ P(j - 1) \in Nat
      BY <1>4, <1>6, <1>7, <1>8, <2>1
    <2>. QED
      BY <2>2
  <1>9. ASSUME NEW i \in 0..n, NEW j \in 0..n, i <= j  PROVE P(i) <= P(j)
    <2>1. i \in 0..j
      BY <1>1, <1>9
    <2>. QED
      BY <1>7, <2>1
  <1>. QED
    BY <1>4, <1>8, <1>9 DEF P, n

\* The old axes with as many elements as the leading new ones.
OldAt(core, dims, j) == CHOOSE k \in 0..Len(core.dims) : Prefix(core.dims, k) = Prefix(dims, j)

LEMMA OldAtIs ==
  ASSUME NEW core, core.dims \in Seq(Nat), \A k \in 1..Len(core.dims) : core.dims[k] # 0,
         NEW dims \in Seq(Nat), \A k \in 1..Len(dims) : dims[k] # 0, NEW end \in NewEnds(core, dims)
  PROVE  /\ end \in 1..Len(dims) /\ OldAt(core, dims, end) \in 1..Len(core.dims)
         /\ \A start \in NewEnds(core, dims) \cup {0} :
              start < end => OldAt(core, dims, start) + 1 \in 1..Len(core.dims)
  <1>. DEFINE n == Len(dims)
              c == Len(core.dims)
              P(i) == Prefix(dims, i)
              Q(i) == Prefix(core.dims, i)
              old(j) == OldAt(core, dims, j)
  <1>1. /\ n \in Nat /\ P(0) = 1 /\ \A i \in 0..n : P(i) \in Nat \ {0}
        /\ \A i \in 0..n, j \in 1..n : i < j /\ dims[j] # 1 => P(i) < P(j)
    BY PrefixesGrow
  <1>2. c \in Nat /\ Q(0) = 1 /\ \A i, j \in 0..c : i <= j => Q(i) <= Q(j)
    <2>. DEFINE d == core.dims
    <2>1. d \in Seq(Nat) /\ \A k \in 1..Len(d) : d[k] # 0
      OBVIOUS
    <2>. HIDE DEF d
    <2>2. Len(d) \in Nat /\ Prefix(d, 0) = 1 /\ \A i, j \in 0..Len(d) : i <= j => Prefix(d, i) <= Prefix(d, j)
      BY <2>1, PrefixesGrow
    <2>. QED
      BY <2>2 DEF d
  <1>3. \A e \in NewEnds(core, dims) : e \in 1..n /\ dims[e] # 1 /\ \E k \in 1..c : P(e) = Q(k)
    BY SMTT(30) DEF NewEnds
  <1>. HIDE DEF P, Q, n, c
  <1>4. ASSUME NEW e \in NewEnds(core, dims) \cup {0}
        PROVE  e \in 0..n /\ old(e) \in 0..c /\ Q(old(e)) = P(e)
    <2>1. e \in 0..n /\ \E k \in 0..c : Q(k) = P(e)
      <3>1. CASE e = 0
        BY <1>1, <1>2, <3>1
      <3>2. CASE e \in NewEnds(core, dims)
        <4>1. PICK k \in 1..c : P(e) = Q(k)
          BY <1>3, <3>2
        <4>2. k \in 0..c /\ e \in 0..n
          BY <1>1, <1>2, <1>3, <3>2
        <4>. QED
          BY <4>1, <4>2
      <3>. QED
        BY <3>1, <3>2
    <2>2. old(e) = CHOOSE k \in 0..c : Q(k) = P(e)
      BY DEF OldAt, P, Q, c
    <2>. HIDE DEF old
    <2>. QED
      BY <2>1, <2>2
  <1>. HIDE DEF old
  <1>5. end \in 1..n /\ dims[end] # 1 /\ old(end) \in 0..c /\ Q(old(end)) = P(end)
    BY <1>3, <1>4
  <1>6. old(end) # 0
    <2>1. 0 \in 0..n /\ 0 < end
      BY <1>1, <1>5
    <2>2. P(0) < P(end)
      BY <1>1, <1>5, <2>1
    <2>3. P(0) = 1 /\ P(end) # 1
      BY <1>1, <2>2
    <2>. QED
      BY <1>2, <1>5, <2>3
  <1>7. ASSUME NEW start \in NewEnds(core, dims) \cup {0}, start < end
        PROVE  old(start) + 1 \in 1..c
    <2>1. start \in 0..n /\ old(start) \in 0..c /\ Q(old(start)) = P(start)
      BY <1>4
    <2>2. P(start) < P(end) /\ P(start) \in Nat /\ P(end) \in Nat
      <3>1. end \in 0..n
        BY <1>1, <1>5
      <3>. QED
        BY <1>1, <1>5, <1>7, <2>1, <3>1
    <2>3. old(start) # c
      <3>. SUFFICES ASSUME old(start) = c  PROVE FALSE
        OBVIOUS
      <3>1. old(end) <= old(start)
        BY <1>2, <1>5
      <3>2. Q(old(end)) <= Q(old(start))
        BY <1>2, <1>5, <2>1, <3>1
      <3>. QED
        BY <1>5, <2>1, <2>2, <3>2
    <2>. QED
      BY <1>2, <2>1, <2>3
  <1>8. old(end) \in 1..c
    BY <1>2, <1>5, <1>6
  <1>. QED
    BY <1>5, <1>7, <1>8 DEF n, c, old

LEMMA NoCopyStridesType ==
  ASSUME NEW a, Axes(a), Size(a) # 0, NEW dims \in Seq(Nat), Product(dims) # 0, NEW o, NEW g \in Int
  PROVE  NoCopyStrides(a, dims, o, g) \in Seq(Int) /\ Len(NoCopyStrides(a, dims, o, g)) = Len(dims)
  <1>. DEFINE n == Len(dims)
              core == Core(a)
              c == Len(core.dims)
              ends == NewEnds(core, dims)
              old(j) == OldAt(core, dims, j)
              end(i) == Min({e \in ends : i <= e})
              start(i) == Max({e \in ends : e < i} \cup {0})
              up(i) == Product(SubSeq(dims, start(i) + 1, i - 1))
              down(i) == Product(SubSeq(dims, i + 1, end(i)))
              t(i) == IF \A e \in ends : e < i THEN g
                      ELSE IF o = "F" THEN core.strides[old(start(i)) + 1] * up(i)
                                      ELSE core.strides[old(end(i))] * down(i)
  <1>1. NoCopyStrides(a, dims, o, g) = [i \in 1..n |-> t(i)]
    BY DEF NoCopyStrides, OldAt
  <1>2. /\ core.dims \in Seq(Nat) /\ core.strides \in Seq(Int) /\ Len(core.strides) = c /\ n \in Nat
        /\ \A k \in 1..c : core.dims[k] # 0 
        /\ \A k \in 1..n : dims[k] # 0
    <2>1. \A k \in 1..n : dims[k] # 0
      BY NoEmptyAxis
    <2>2. \A k \in 1..Len(a.dims) : a.dims[k] > 0
      BY NoEmptyAxis DEF Size, Axes
    <2>3. /\ Core(a).dims \in Seq(Nat) /\ Core(a).strides \in Seq(Int)
          /\ Len(Core(a).dims) = Cardinality(LongAxes(a.dims))
          /\ Len(Core(a).strides) = Cardinality(LongAxes(a.dims))
          /\ \A k \in 1..Cardinality(LongAxes(a.dims)) : Core(a).dims[k] = a.dims[LongAt(a.dims, k)]
      BY CoreIs
    <2>4. \A k \in 1..Cardinality(LongAxes(a.dims)) : LongAt(a.dims, k) \in 1..Len(a.dims)
      BY LongIs DEF Axes
    <2>5. ASSUME NEW k \in 1..c  PROVE core.dims[k] # 0
      <3>1. core.dims[k] = a.dims[LongAt(a.dims, k)] /\ LongAt(a.dims, k) \in 1..Len(a.dims)
        BY <2>3, <2>4
      <3>2. a.dims[LongAt(a.dims, k)] > 0
        BY <2>2, <3>1
      <3>. QED
        BY <3>1, <3>2
    <2>6. core.dims \in Seq(Nat) /\ core.strides \in Seq(Int) /\ Len(core.strides) = c
      BY <2>3
    <2>. QED
      BY <2>1, <2>5, <2>6
  <1>3. ASSUME NEW e \in ends
        PROVE  /\ e \in 1..n /\ old(e) \in 1..c
               /\ \A s \in ends \cup {0} : s < e => old(s) + 1 \in 1..c
    <2>. HIDE DEF core
    <2>. QED
      BY <1>2, OldAtIs
  <1>. HIDE DEF core, ends, old, n, c
  <1>4. ASSUME NEW i \in 1..n, NEW e \in ends, ~(e < i)
        PROVE  /\ end(i) \in ends /\ i <= end(i)
               /\ start(i) \in ends \cup {0} /\ start(i) < i
    <2>. DEFINE S == {x \in ends : i <= x}
                T == {x \in ends : x < i} \cup {0}
    <2>1. S \in SUBSET Nat /\ e \in S
      BY <1>2, <1>3, <1>4
    <2>2. T \in SUBSET (0..n) /\ 0 \in T
      BY <1>2, <1>3
    <2>3. \A x \in S : x \in ends /\ i <= x
      OBVIOUS
    <2>4. \A x \in T : x \in ends \cup {0} /\ x < i
      BY <1>2
    <2>. HIDE DEF S, T
    <2>5. Min(S) \in S
      BY <2>1, MinIn
    <2>6. Max(T) \in T
      BY <1>2, <2>2, MaxOf
    <2>. QED
      BY <2>3, <2>4, <2>5, <2>6 DEF S, T
  <1>. HIDE DEF end, start
  <1>5. ASSUME NEW i \in 1..n  PROVE t(i) \in Int
    <2>1. CASE \A e \in ends : e < i
      BY <2>1
    <2>2. CASE \E e \in ends : ~(e < i)
      <3>. DEFINE e == end(i)
                  s == start(i)
      <3>1. e \in ends /\ i <= e /\ s \in ends \cup {0} /\ s < i
        BY <1>4, <2>2
      <3>2. e \in 1..n /\ s \in 0..n
        BY <1>2, <1>3, <3>1
      <3>3. old(e) \in 1..c /\ old(s) + 1 \in 1..c
        BY <1>2, <1>3, <3>1, <3>2
      <3>. HIDE DEF e, s
      <3>4. up(i) \in Int /\ down(i) \in Int
        <4>1. SubSeq(dims, s + 1, i - 1) \in Seq(Nat) /\ SubSeq(dims, i + 1, e) \in Seq(Nat)
          BY SMTT(30), <1>2, <3>1, <3>2 DEF n
        <4>2. Product(SubSeq(dims, s + 1, i - 1)) \in Nat /\ Product(SubSeq(dims, i + 1, e)) \in Nat
          BY <4>1, ProductType
        <4>. QED
          BY <4>2 DEF s, e
      <3>5. core.strides[old(s) + 1] \in Int /\ core.strides[old(e)] \in Int
        BY <1>2, <3>3
      <3>6. t(i) = IF o = "F" THEN core.strides[old(s) + 1] * up(i) ELSE core.strides[old(e)] * down(i)
        BY <2>2 DEF s, e
      <3>. HIDE DEF up, down, t
      <3>7. core.strides[old(s) + 1] * up(i) \in Int /\ core.strides[old(e)] * down(i) \in Int
        BY <3>4, <3>5
      <3>. QED
        BY <3>6, <3>7
    <2>. QED
      BY <2>1, <2>2
  <1>. HIDE DEF t
  <1>6. NoCopyStrides(a, dims, o, g) \in [1..n -> Int]
    BY <1>1, <1>5
  <1>. QED
    BY <1>2, <1>6, IntsListed DEF n

LEMMA ViewStridesType ==
  ASSUME NEW a, Axes(a), NEW asked \in Seq(Int), a.dims = asked \/ OnesOnly(a, asked) \/ Fits(asked, Size(a)),
         NEW dims, dims = Fixed(asked, Size(a)), NEW o \in {"C", "F"}, ~Copies(a, dims, o), NEW g \in Int
  PROVE  ViewStrides(a, dims, o, g) \in Seq(Int) /\ Len(ViewStrides(a, dims, o, g)) = Len(dims)
  <1>1. dims \in Seq(Nat) /\ (a.dims # dims /\ ~OnesOnly(a, dims) /\ Product(dims) # 0 => Size(a) # 0)
    BY FixedIs
  <1>2. CASE a.dims = dims
    <2>1. ViewStrides(a, dims, o, g) = a.strides
      BY <1>2 DEF ViewStrides
    <2>. QED
      BY <1>2, <2>1 DEF Axes
  <1>3. CASE a.dims # dims /\ OnesOnly(a, dims)
    <2>1. ViewStrides(a, dims, o, g) = Unzeroed(dims, OnesStrides(a, dims), o)
      BY <1>3 DEF ViewStrides
    <2>2. OnesStrides(a, dims) \in [1..Len(dims) -> Int]
      BY <1>1, OnesStridesType
    <2>. QED
      BY <1>1, <2>1, <2>2, UnzeroedType
  <1>4. CASE a.dims # dims /\ ~OnesOnly(a, dims) /\ MustAttempt(a, o)
    <2>1. ViewStrides(a, dims, o, g) = NoCopyStrides(a, dims, o, g)
      BY <1>4 DEF ViewStrides
    <2>2. Product(dims) # 0
      BY <1>4 DEF Copies, NoCopy
    <2>. QED
      BY <1>1, <1>4, <2>1, <2>2, NoCopyStridesType
  <1>5. CASE a.dims # dims /\ ~OnesOnly(a, dims) /\ ~MustAttempt(a, o)
    <2>1. ViewStrides(a, dims, o, g) = Filled(dims, o)
      BY <1>5 DEF ViewStrides
    <2>. QED
      BY <1>1, <2>1, FilledType
  <1>. QED
    BY <1>2, <1>3, <1>4, <1>5

\* A copy in a block of its own, and a view of it.
LEMMA ThenCopied ==
  ASSUME IInv, Step, NEW block, memory' = Append(memory, block), NEW dims \in Seq(Nat), NEW o \in {"C", "F"},
         NEW copy, copy = Allocated(dims, o, Len(memory) + 1),
         NEW vdims \in Seq(Nat), NEW strides \in Seq(Int), Len(strides) = Len(vdims),
         arrays' = arrays \o <<copy, UpdateFlags([copy EXCEPT !.dims = vdims, !.strides = strides,
                                                    !.base = Len(arrays) + 1, !.owns = FALSE])>>
  PROVE  IInv'
  <1>. DEFINE n == Len(memory)
              m == Len(memory) + 1
              j == Len(arrays) + 1
              b == [copy EXCEPT !.dims = vdims, !.strides = strides, !.base = j, !.owns = FALSE]
              view == UpdateFlags(b)
  <1>1. /\ n \in Nat /\ m \in Nat /\ n <= m /\ m \in 1..m /\ j \in Nat \ {0}
        /\ Listed(memory') /\ Len(memory') = m /\ AllSound(arrays, n)
    <2>1. Listed(memory) /\ n \in Nat /\ Len(arrays) \in Nat /\ AllSound(arrays, n)
      BY DEF IInv, AllSound, Listed
    <2>2. Listed(memory') /\ Len(memory') = n + 1
      BY <2>1, AppendIs
    <2>. QED
      BY <2>1, <2>2
  <1>2. arrays' = arrays \o <<copy, view>> /\ j = Len(arrays) + 1
    OBVIOUS
  <1>. HIDE DEF n, m
  <1>3. Sound(copy, j, m) /\ copy.block = m
    <2>1. copy = Allocated(dims, o, m)
      BY DEF m
    <2>. HIDE DEF j
    <2>. QED
      BY <1>1, <2>1, AllocatedSound
  <1>4. b \in Arrays /\ b.dims = vdims /\ b.strides = strides /\ b.base = j /\ b.block = m
    <2>1. copy \in Arrays
      BY <1>3 DEF Sound
    <2>. HIDE DEF j
    <2>. QED
      BY <1>1, <1>3, <2>1 DEF Arrays
  <1>. HIDE DEF b
  <1>5. Axes(b)
    BY <1>4 DEF Axes
  <1>6. view \in Arrays /\ Axes(view) /\ FlagsKnown(view) /\ view.base = j /\ view.block = m
    BY <1>4, <1>5, Flagged
  <1>. HIDE DEF view
  <1>7. AllSound(arrays \o <<copy, view>>, m)
    BY <1>1, <1>3, <1>6, CopySound
  <1>. QED
    BY <1>1, <1>2, <1>7, ThenInv

LEMMA NewshapeKeeps ==
  ASSUME IInv, NEW i \in 1..Len(arrays), NEW asked \in Seq(Int), NEW o \in Orders, Newshape(i, asked, o)
  PROVE  IInv'
  <1>. DEFINE a == arrays[i]
              order == Order(a, o)
              dims == Fixed(asked, Size(a))
              copy == Allocated(a.dims, order, Len(memory) + 1)
  <1>1. /\ Step /\ (a.dims = asked \/ OnesOnly(a, asked) \/ Fits(asked, Size(a)))
        /\ \/ /\ Copies(a, dims, order)
              /\ memory' = Append(memory, Listing(a, order))
              /\ arrays' = arrays \o <<copy, UpdateFlags([copy EXCEPT !.dims = dims, !.strides = Filled(dims, order),
                                                            !.base = Len(arrays) + 1, !.owns = FALSE])>>
           \/ /\ ~Copies(a, dims, order) /\ UNCHANGED memory
              /\ \E g \in Garbage : \E s : Add(ViewOf(i, dims, ViewStrides(a, dims, order, g)), s)
    BY Zenon DEF Newshape
  <1>2. Axes(a) /\ a.dims \in Seq(Nat) /\ order \in {"C", "F"}
    BY Ours, OrderIs
  <1>3. dims \in Seq(Nat)
    BY <1>1, <1>2, FixedIs
  <1>. HIDE DEF a, order, dims
  <1>4. CASE /\ memory' = Append(memory, Listing(a, order))
             /\ arrays' = arrays \o <<copy, UpdateFlags([copy EXCEPT !.dims = dims, !.strides = Filled(dims, order),
                                                           !.base = Len(arrays) + 1, !.owns = FALSE])>>
    <2>1. Filled(dims, order) \in Seq(Int) /\ Len(Filled(dims, order)) = Len(dims)
      BY <1>2, <1>3, FilledType
    <2>. DEFINE block == Listing(a, order)
                fill == Filled(dims, order)
    <2>2. /\ memory' = Append(memory, block) /\ fill \in Seq(Int) /\ Len(fill) = Len(dims)
          /\ arrays' = arrays \o <<copy, UpdateFlags([copy EXCEPT !.dims = dims, !.strides = fill,
                                                        !.base = Len(arrays) + 1, !.owns = FALSE])>>
      BY <1>4, <2>1
    <2>3. copy = Allocated(a.dims, order, Len(memory) + 1)
      OBVIOUS
    <2>. HIDE DEF block, fill, copy
    <2>. QED
      BY <1>1, <1>2, <1>3, <2>2, <2>3, ThenCopied
  <1>5. CASE /\ ~Copies(a, dims, order) /\ UNCHANGED memory
             /\ \E g \in Garbage : \E s : Add(ViewOf(i, dims, ViewStrides(a, dims, order, g)), s)
    <2>1. PICK g \in Garbage : \E s : Add(ViewOf(i, dims, ViewStrides(a, dims, order, g)), s)
      BY <1>5
    <2>. DEFINE strides == ViewStrides(a, dims, order, g)
    <2>2. strides \in Seq(Int) /\ Len(strides) = Len(dims)
      <3>1. g \in Int /\ dims = Fixed(asked, Size(a)) /\ ~Copies(a, dims, order)
        BY <1>5, SizesAssumption DEF dims
      <3>. QED
        BY <1>1, <1>2, <3>1, ViewStridesType
    <2>3. PICK s : Add(ViewOf(i, dims, strides), s)
      BY <2>1
    <2>. HIDE DEF strides
    <2>. QED
      BY <1>1, <1>3, <1>5, <2>2, <2>3, ThenViewed
  <1>. QED
    BY <1>1, <1>4, <1>5

LEMMA RavelKeeps ==
  ASSUME IInv, NEW i \in 1..Len(arrays), NEW o \in Orders, Ravel(i, o)
  PROVE  IInv'
  <1>1. <<-1>> \in Seq(Int)
    OBVIOUS
  <1>2. Order(arrays[i], o) \in {"C", "F"}
    BY OrderIs
  <1>3. Order(arrays[i], o) \in Orders
    BY <1>2 DEF Orders
  <1>4. Newshape(i, <<-1>>, Order(arrays[i], o)) \/ Flatten(i, Order(arrays[i], o))
    BY Zenon DEF Ravel
  <1>5. CASE Newshape(i, <<-1>>, Order(arrays[i], o))
    BY <1>1, <1>3, <1>5, NewshapeKeeps
  <1>6. CASE Flatten(i, Order(arrays[i], o))
    BY <1>6, FlattenKeeps
  <1>. QED
    BY <1>4, <1>5, <1>6

LEMMA SetShapeKeeps ==
  ASSUME IInv, NEW i \in 1..Len(arrays), NEW asked \in Seq(Int), SetShape(i, asked)
  PROVE  IInv'
  <1>. DEFINE a == arrays[i]
              dims == Fixed(asked, Size(a))
  <1>1. /\ Step /\ UNCHANGED memory /\ (a.dims = asked \/ OnesOnly(a, asked) \/ Fits(asked, Size(a)))
        /\ ~Copies(a, dims, "C")
        /\ \E g \in Garbage :
             arrays' = [arrays EXCEPT ![i] =
                          UpdateFlags([@ EXCEPT !.dims = dims, !.strides = ViewStrides(a, dims, "C", g)])]
    BY Zenon DEF SetShape
  <1>2. Axes(a) /\ a.dims \in Seq(Nat)
    BY Ours
  <1>3. dims \in Seq(Nat) /\ dims = Fixed(asked, Size(a))
    BY <1>1, <1>2, FixedIs
  <1>. HIDE DEF a, dims
  <1>4. PICK g \in Garbage :
          arrays' = [arrays EXCEPT ![i] =
                       UpdateFlags([@ EXCEPT !.dims = dims, !.strides = ViewStrides(a, dims, "C", g)])]
    BY <1>1
  <1>. DEFINE strides == ViewStrides(a, dims, "C", g)
  <1>5. strides \in Seq(Int) /\ Len(strides) = Len(dims)
    <2>1. g \in Int /\ "C" \in {"C", "F"}
      BY SizesAssumption
    <2>. QED
      BY <1>1, <1>2, <1>3, <2>1, ViewStridesType
  <1>6. arrays' = [arrays EXCEPT ![i] = UpdateFlags([@ EXCEPT !.dims = dims, !.strides = strides])]
    BY <1>4
  <1>. HIDE DEF strides
  <1>. QED
    BY <1>1, <1>3, <1>5, <1>6, ThenReshaped

-----------------------------------------------------------------------------
(* Counting the parts of an index.                                         *)

OfKinds(s, K, i) == Cardinality({k \in 1..i : s[k].kind \in K})

LEMMA NewAxesIs ==
  ASSUME NEW s, NEW i
  PROVE  NewAxes(s, i) = OfKinds(s, {"newaxis"}, i)
  <1>1. {k \in 1..i : s[k].kind = "newaxis"} = {k \in 1..i : s[k].kind \in {"newaxis"}}
    OBVIOUS
  <1>. QED
    BY <1>1 DEF NewAxes, OfKinds

LEMMA OfKindsStep ==
  ASSUME NEW s, NEW K
  PROVE  /\ OfKinds(s, K, 0) = 0
         /\ \A i \in Nat : OfKinds(s, K, i) \in 0..i
         /\ \A i \in Nat \ {0} : OfKinds(s, K, i) = OfKinds(s, K, i - 1) + IF s[i].kind \in K THEN 1 ELSE 0
  <1>. DEFINE S(i) == {k \in 1..i : s[k].kind \in K}
  <1>1. \A i : OfKinds(s, K, i) = Cardinality(S(i))
    BY DEF OfKinds
  <1>2. ASSUME NEW i \in Nat  PROVE IsFiniteSet(S(i)) /\ Cardinality(S(i)) \in 0..i
    <2>1. IsFiniteSet(1..i) /\ Cardinality(1..i) = i
      <3>1. 1 \in Int /\ i \in Int
        OBVIOUS
      <3>2. IsFiniteSet(1..i) /\ Cardinality(1..i) = IF 1 > i THEN 0 ELSE i - 1 + 1
        BY <3>1, FS_Interval
      <3>. QED
        BY <3>2
    <2>2. S(i) \subseteq 1..i
      OBVIOUS
    <2>. HIDE DEF S
    <2>3. IsFiniteSet(S(i)) /\ Cardinality(S(i)) <= i
      BY <2>1, <2>2, FS_Subset
    <2>4. Cardinality(S(i)) \in Nat
      BY <2>3, FS_CardinalityType
    <2>. QED
      BY <2>3, <2>4
  <1>3. S(0) = {} /\ Cardinality(S(0)) = 0
    <2>1. S(0) = {}
      OBVIOUS
    <2>. QED
      BY <2>1, FS_EmptySet
  <1>4. ASSUME NEW i \in Nat \ {0}
        PROVE  Cardinality(S(i)) = Cardinality(S(i - 1)) + IF s[i].kind \in K THEN 1 ELSE 0
    <2>1. i - 1 \in Nat /\ IsFiniteSet(S(i - 1)) /\ Cardinality(S(i - 1)) \in Nat
      <3>1. i - 1 \in Nat
        OBVIOUS
      <3>. HIDE DEF S
      <3>. QED
        BY <1>2, <3>1
    <2>2. CASE s[i].kind \in K
      <3>1. S(i) = S(i - 1) \cup {i} /\ i \notin S(i - 1)
        BY <2>2
      <3>. HIDE DEF S
      <3>2. Cardinality(S(i)) = Cardinality(S(i - 1)) + 1
        BY <2>1, <3>1, FS_AddElement
      <3>. QED
        BY <2>2, <3>2
    <2>3. CASE s[i].kind \notin K
      <3>1. S(i) = S(i - 1)
        BY <2>3
      <3>. HIDE DEF S
      <3>. QED
        BY <2>1, <2>3, <3>1
    <2>. QED
      BY <2>2, <2>3
  <1>. QED
    <2>. HIDE DEF S
    <2>1. 0 \in Nat /\ \A i \in Nat \ {0} : OfKinds(s, K, i - 1) = Cardinality(S(i - 1))
      BY <1>1
    <2>. QED
      BY <1>1, <1>2, <1>3, <1>4

LEMMA OfKindsSame ==
  ASSUME NEW s, NEW t, NEW K, NEW i, \A k \in 1..i : s[k].kind = t[k].kind
  PROVE  OfKinds(s, K, i) = OfKinds(t, K, i)
  <1>1. {k \in 1..i : s[k].kind \in K} = {k \in 1..i : t[k].kind \in K}
    OBVIOUS
  <1>. QED
    BY <1>1 DEF OfKinds

LEMMA OfKindsType ==
  ASSUME NEW s, NEW K, NEW i \in Nat
  PROVE  OfKinds(s, K, i) \in 0..i
  <1>1. OfKinds(s, K, 0) = 0 /\ OfKinds(s, K, i) \in 0..i
    BY OfKindsStep
  <1>. QED
    BY <1>1

LEMMA OfKindsNext ==
  ASSUME NEW s, NEW K, NEW i \in Nat \ {0}
  PROVE  OfKinds(s, K, i) = OfKinds(s, K, i - 1) + IF s[i].kind \in K THEN 1 ELSE 0
  <1>1. OfKinds(s, K, 0) = 0 /\ OfKinds(s, K, i) = OfKinds(s, K, i - 1) + IF s[i].kind \in K THEN 1 ELSE 0
    BY OfKindsStep
  <1>. QED
    BY <1>1

\* Parts of other kinds do not count.
LEMMA OfKindsStays ==
  ASSUME NEW s, NEW K, NEW n \in Nat, NEW i \in 0..n, \A k \in (i + 1)..n : s[k].kind \notin K
  PROVE  OfKinds(s, K, n) = OfKinds(s, K, i)
  <1>. DEFINE G == {j \in 0..n : j >= i => OfKinds(s, K, j) = OfKinds(s, K, i)}
  <1>1. 0 \in G
    OBVIOUS
  <1>2. ASSUME NEW j \in 1..n, j - 1 \in G  PROVE j \in G
    <2>1. CASE j <= i
      BY <2>1
    <2>2. CASE j > i
      <3>1. j \in Nat \ {0} /\ j \in (i + 1)..n /\ j - 1 >= i
        BY <2>2
      <3>2. OfKinds(s, K, j) = OfKinds(s, K, j - 1) + 0 /\ OfKinds(s, K, j - 1) \in Int
        <4>1. s[j].kind \notin K
          BY <3>1
        <4>2. OfKinds(s, K, j) = OfKinds(s, K, j - 1) + IF s[j].kind \in K THEN 1 ELSE 0
          BY <3>1, OfKindsNext
        <4>3. j - 1 \in Nat
          BY <3>1
        <4>4. OfKinds(s, K, j - 1) \in 0..(j - 1)
          BY <4>3, OfKindsType
        <4>. QED
          BY <4>1, <4>2, <4>4
      <3>3. OfKinds(s, K, j - 1) = OfKinds(s, K, i)
        BY <1>2, <3>1
      <3>. QED
        BY <3>2, <3>3
    <2>. QED
      BY <2>1, <2>2
  <1>3. G = 0..n
    <2>1. G \in SUBSET (0..n)
      OBVIOUS
    <2>. HIDE DEF G
    <2>. QED
      BY <1>1, <1>2, <2>1, UpTo
  <1>. QED
    BY <1>3

\* How many parts of the index there are without those of some kinds.
LEMMA OthersGrow ==
  ASSUME NEW s, NEW K, NEW n \in Nat, NEW i \in 0..n
  PROVE  i - OfKinds(s, K, i) <= n - OfKinds(s, K, n)
  <1>. DEFINE G == {j \in 0..n : j - OfKinds(s, K, j) <= n - OfKinds(s, K, n)}
  <1>0. \A j \in Nat : OfKinds(s, K, j) \in Int
    BY OfKindsType
  <1>1. n \in G
    BY <1>0
  <1>2. ASSUME NEW j \in 1..n, j \in G  PROVE j - 1 \in G
    <2>1. OfKinds(s, K, j) = OfKinds(s, K, j - 1) + IF s[j].kind \in K THEN 1 ELSE 0
      <3>1. j \in Nat \ {0}
        OBVIOUS
      <3>. QED
        BY <3>1, OfKindsNext
    <2>2. j - 1 \in Nat /\ j \in Nat
      OBVIOUS
    <2>3. OfKinds(s, K, j - 1) \in Int /\ OfKinds(s, K, j) \in Int /\ OfKinds(s, K, n) \in Int
      BY <1>0, <2>2
    <2>. QED
      BY <1>2, <2>1, <2>2, <2>3
  <1>3. G = 0..n
    <2>1. G \in SUBSET (0..n)
      OBVIOUS
    <2>. HIDE DEF G
    <2>. QED
      BY <1>1, <1>2, <2>1, DownFrom
  <1>. QED
    BY <1>3

-----------------------------------------------------------------------------
(* Binding an index.                                                       *)

\* The parts of an index whose masks are expanded, and those of a bound one.
AskedPart(p) ==
  \/ p.kind \in {"ellipsis", "newaxis"}
  \/ p.kind \in {"intp", "bool"} /\ p.at \in Int
  \/ p.kind = "slice" /\ {p.slice.start, p.slice.stop, p.slice.step} \subseteq Int \cup {None} /\ p.slice.step # 0
  \/ p.kind = "list" /\ p.dims \in Seq(Nat)
BoundPart(p) ==
  \/ p.kind = "newaxis"
  \/ p.kind = "intp" /\ p.at \in Int
  \/ p.kind = "slice" /\ p.slice.start \in Int /\ p.slice.stop \in Int /\ p.slice.step \in Int /\ p.slice.step # 0
  \/ p.kind = "list" /\ p.dims \in Seq(Nat)

LEMMA SliceStepsType ==
  ASSUME NEW b, b.start \in Int, b.stop \in Int, b.step \in Int, b.step # 0
  PROVE  SliceSteps(b) \in Nat
  <1>. DEFINE x == b.start
              y == b.stop
              d == b.step
              nx == 0 - x
              ny == 0 - y
              nd == 0 - d
  <1>1. CASE d > 0
    <2>1. StepsBetween(x, y, d) \in Nat
      <3>1. x \in Int /\ y \in Int /\ d \in Nat \ {0}
        BY <1>1
      <3>. HIDE DEF x, y, d
      <3>. QED
        BY <3>1, StepsAre
    <2>2. SliceSteps(b) = StepsBetween(x, y, d)
      BY <1>1 DEF SliceSteps, StepsBetween
    <2>. QED
      BY <2>1, <2>2
  <1>2. CASE d < 0
    <2>1. StepsBetween(nx, ny, nd) \in Nat
      <3>1. nx \in Int /\ ny \in Int /\ nd \in Nat \ {0}
        BY <1>2
      <3>. HIDE DEF nx, ny, nd
      <3>. QED
        BY <3>1, StepsAre
    <2>2. ny - nx - 1 = x - y - 1 /\ (nx < ny <=> y < x)
      OBVIOUS
    <2>3. SliceSteps(b) = IF y < x THEN (x - y - 1) \div nd + 1 ELSE 0
      BY <1>2 DEF SliceSteps
    <2>4. SliceSteps(b) = StepsBetween(nx, ny, nd)
      <3>. HIDE DEF x, y, nx, ny, nd
      <3>. QED
        BY <2>2, <2>3 DEF StepsBetween
    <2>. QED
      BY <2>1, <2>4
  <1>. QED
    BY <1>1, <1>2

BindStep(ix, dims, b, i) ==
  IF b.ok /\ Binds(ix, i, b.parts, dims)
    THEN [b EXCEPT !.parts = @ \o BoundParts(ix, i, b.parts, dims)]
    ELSE [b EXCEPT !.ok = FALSE]
BindIter(g, ix, dims, q) ==
  g = [s \in SUBSET DOMAIN q |->
         IF s = {} THEN [ok |-> TRUE, parts |-> <<>>] ELSE BindStep(ix, dims, g[s \ {Max(s)}], q[Max(s)])]

LEMMA IndexBindIs ==
  ASSUME NEW ix, NEW dims
  PROVE  IndexBind(ix, dims) = (CHOOSE g : BindIter(g, ix, dims, Numbers(ix)))[DOMAIN Numbers(ix)]
  BY Zenon DEF IndexBind, FoldLeftDomain, FoldLeft, MapThenFoldSet, BindIter, BindStep, Numbers

\* How many axes an ellipsis is for.
LEMMA CountType ==
  ASSUME NEW ix, Listed(ix), \A k \in 1..Len(ix) : ix[k].kind # "mask", NEW i \in 0..Len(ix)
  PROVE  CountNonNew(ix, i) \in Nat
  <1>. DEFINE n == Len(ix)
              f == [k \in 1..n |-> IF ix[k].kind = "newaxis" THEN 0 ELSE 1]
              g == [k \in (i + 1)..n |-> f[k]]
  <1>1. n \in Nat
    BY DEF Listed
  <1>2. CountNonNew(ix, i) = After(f, n, i)
    <2>1. \A k \in (i + 1)..n :
            f[k] = CASE ix[k].kind = "newaxis" -> 0 [] ix[k].kind = "mask" -> Len(ix[k].dims) [] OTHER -> 1
      BY <1>1
    <2>. HIDE DEF f
    <2>2. [k \in (i + 1)..n |-> f[k]]
            = [k \in (i + 1)..n |->
                 CASE ix[k].kind = "newaxis" -> 0 [] ix[k].kind = "mask" -> Len(ix[k].dims) [] OTHER -> 1]
      BY <2>1, Zenon
    <2>. QED
      BY <2>2, Zenon DEF CountNonNew, After
  <1>3. /\ \A j \in 0..n : After(f, n, j) \in Int
        /\ After(f, n, n) = 0
        /\ \A j \in 1..n : After(f, n, j - 1) = f[j] + After(f, n, j)
    <2>1. Terms(f, n)
      BY <1>1 DEF Terms
    <2>. HIDE DEF f
    <2>. QED
      BY <2>1, AfterStep
  <1>. DEFINE G == {j \in 0..n : After(f, n, j) \in Nat}
  <1>4. n \in G
    BY <1>1, <1>3
  <1>5. ASSUME NEW j \in 1..n, j \in G  PROVE j - 1 \in G
    <2>1. f[j] \in {0, 1} /\ j - 1 \in 0..n
      BY <1>1
    <2>. HIDE DEF f
    <2>. QED
      BY <1>3, <1>5, <2>1
  <1>. HIDE DEF f, n
  <1>6. G = 0..n
    <2>1. G \in SUBSET (0..n)
      OBVIOUS
    <2>. HIDE DEF G
    <2>. QED
      BY <1>1, <1>4, <1>5, <2>1, DownFrom
  <1>. QED
    BY <1>2, <1>6 DEF n

\* Whatever part i can be bound to.
SlicePart(b) == [kind |-> "slice", slice |-> b]
BoundTo(ix, dims, i, z) ==
  {ix[i], SlicePart([start |-> 0, stop |-> dims[z], step |-> 1]),
   SlicePart(BindSlice(AddIndex(ix[i].slice), dims[z])), [kind |-> "intp", at |-> AtAxis(ix[i], dims[z])]}

Asked(ix) == Listed(ix) /\ \A k \in 1..Len(ix) : AskedPart(ix[k])

LEMMA BoundPartsAre ==
  ASSUME NEW ix, Asked(ix), NEW i \in 1..Len(ix), NEW bound, Len(bound) \in Nat, NEW dims, Len(dims) \in Nat
  PROVE  LET axis == NextFree(ix, i, bound)
             full == FullSlices(ix, i, bound, Len(dims))
         IN  /\ axis \in Int /\ full \in Int
             /\ ix[i].kind = "ellipsis" =>
                  BoundParts(ix, i, bound, dims)
                    = [k \in 1..full |-> SlicePart([start |-> 0, stop |-> dims[axis + k - 1], step |-> 1])]
             /\ ix[i].kind \in {"newaxis", "list"} => BoundParts(ix, i, bound, dims) = <<ix[i]>>
             /\ ix[i].kind = "slice" =>
                  BoundParts(ix, i, bound, dims) = <<SlicePart(BindSlice(AddIndex(ix[i].slice), dims[axis]))>>
             /\ ix[i].kind \in {"intp", "bool"} =>
                  BoundParts(ix, i, bound, dims) = <<[kind |-> "intp", at |-> AtAxis(ix[i], dims[axis])]>>
             /\ ix[i].kind \in {"ellipsis", "newaxis", "list", "slice", "intp", "bool"}
  <1>. DEFINE axis == NextFree(ix, i, bound)
              full == FullSlices(ix, i, bound, Len(dims))
  <1>1. Len(ix) \in Nat /\ ix[i].kind \in {"ellipsis", "newaxis", "list", "slice", "intp", "bool"}
    BY DEF Asked, Listed, AskedPart
  <1>2. NewAxes(ix, i - 1) \in Int
    <2>1. i - 1 \in Nat
      BY <1>1
    <2>2. OfKinds(ix, {"newaxis"}, i - 1) \in 0..(i - 1)
      BY <2>1, OfKindsType
    <2>. QED
      BY <2>1, <2>2, NewAxesIs
  <1>3. CountNonNew(ix, i) \in Nat
    <2>1. i \in 0..Len(ix) /\ \A k \in 1..Len(ix) : ix[k].kind # "mask"
      BY <1>1 DEF Asked, AskedPart
    <2>. QED
      BY <2>1, CountType DEF Asked
  <1>4. axis \in Int /\ full \in Int
    BY <1>2, <1>3 DEF NextFree, FullSlices
  <1>5. ix[i].kind = "ellipsis" =>
          BoundParts(ix, i, bound, dims)
            = [k \in 1..full |-> SlicePart([start |-> 0, stop |-> dims[axis + k - 1], step |-> 1])]
    BY DEF BoundParts, SlicePart
  <1>6. ix[i].kind \in {"newaxis", "list"} => BoundParts(ix, i, bound, dims) = <<ix[i]>>
    BY DEF BoundParts
  <1>7. ix[i].kind = "slice" =>
          BoundParts(ix, i, bound, dims) = <<SlicePart(BindSlice(AddIndex(ix[i].slice), dims[axis]))>>
    BY DEF BoundParts, SlicePart
  <1>8. ix[i].kind \in {"intp", "bool"} =>
          BoundParts(ix, i, bound, dims) = <<[kind |-> "intp", at |-> AtAxis(ix[i], dims[axis])]>>
    BY DEF BoundParts
  <1>. QED
    BY <1>1, <1>4, <1>5, <1>6, <1>7, <1>8

LEMMA BoundPartsIn ==
  ASSUME NEW ix, Asked(ix), NEW i \in 1..Len(ix), NEW bound, Len(bound) \in Nat, NEW dims, Len(dims) \in Nat,
         NEW P, \A z \in Int : BoundTo(ix, dims, i, z) \subseteq P
  PROVE  BoundParts(ix, i, bound, dims) \in Seq(P)
  <1>. DEFINE axis == NextFree(ix, i, bound)
              full == FullSlices(ix, i, bound, Len(dims))
              parts == BoundParts(ix, i, bound, dims)
              one(z) == SlicePart([start |-> 0, stop |-> dims[z], step |-> 1])
  <1>1. /\ axis \in Int /\ full \in Int
        /\ ix[i].kind = "ellipsis" => parts = [k \in 1..full |-> one(axis + k - 1)]
        /\ ix[i].kind \in {"newaxis", "list"} => parts = <<ix[i]>>
        /\ ix[i].kind = "slice" => parts = <<SlicePart(BindSlice(AddIndex(ix[i].slice), dims[axis]))>>
        /\ ix[i].kind \in {"intp", "bool"} => parts = <<[kind |-> "intp", at |-> AtAxis(ix[i], dims[axis])]>>
        /\ ix[i].kind \in {"ellipsis", "newaxis", "list", "slice", "intp", "bool"}
    BY BoundPartsAre
  <1>2. /\ ix[i] \in P /\ \A z \in Int : one(z) \in P
        /\ SlicePart(BindSlice(AddIndex(ix[i].slice), dims[axis])) \in P
        /\ [kind |-> "intp", at |-> AtAxis(ix[i], dims[axis])] \in P
    <2>1. \A z \in Int : BoundTo(ix, dims, i, z) \subseteq P
      OBVIOUS
    <2>2. \A z \in Int : /\ ix[i] \in P /\ one(z) \in P
                         /\ SlicePart(BindSlice(AddIndex(ix[i].slice), dims[z])) \in P
                         /\ [kind |-> "intp", at |-> AtAxis(ix[i], dims[z])] \in P
      BY <2>1, Zenon DEF BoundTo
    <2>. QED
      BY <1>1, <2>2
  <1>. HIDE DEF axis, full, parts, one
  <1>3. CASE ix[i].kind = "ellipsis"
    <2>1. \A k \in 1..full : one(axis + k - 1) \in P
      BY <1>1, <1>2
    <2>2. CASE full >= 0
      <3>. DEFINE t(k) == one(axis + k - 1)
      <3>1. full \in Nat /\ parts = [k \in 1..full |-> t(k)] /\ \A k \in 1..full : t(k) \in P
        BY <1>1, <1>3, <2>1, <2>2
      <3>. HIDE DEF t
      <3>2. parts \in [1..full -> P]
        BY <3>1
      <3>3. parts \in Seq(P)
        BY <3>1, <3>2
      <3>. QED
        BY <3>3 DEF parts
    <2>3. CASE full < 0
      <3>1. 1..full = {} 
        BY <1>1, <2>3
      <3>2. parts = <<>>
        BY <1>1, <1>3, <3>1
      <3>. QED
        BY <3>2 DEF parts
    <2>. QED
      BY <1>1, <2>2, <2>3 DEF parts
  <1>4. CASE ix[i].kind # "ellipsis"
    <2>1. \E p \in P : parts = <<p>>
      BY <1>1, <1>2, <1>4
    <2>. QED
      BY <2>1 DEF parts
  <1>. QED
    BY <1>3, <1>4

LEMMA BindIterExists ==
  ASSUME NEW ix, Asked(ix), NEW dims, Len(dims) \in Nat, NEW q, q = [i \in 1..Len(ix) |-> i]
  PROVE  \E g : BindIter(g, ix, dims, q)
  <1>. DEFINE n == Len(ix)
              P == UNION {BoundTo(ix, dims, k[1], k[2]) : k \in (1..n) \X Int}
              V == [ok : BOOLEAN, parts : Seq(P)]
              base == [ok |-> TRUE, parts |-> <<>>]
              H == [p \in V \X (1..n) |-> BindStep(ix, dims, p[1], p[2])]
  <1>0. n \in Nat
    BY DEF Asked, Listed
  <1>1. base \in V
    OBVIOUS
  <1>2. H \in [V \X (1..n) -> V]
    <2>1. ASSUME NEW v \in V, NEW i \in 1..n  PROVE BindStep(ix, dims, v, i) \in V
      <3>1. \A z \in Int : BoundTo(ix, dims, i, z) \subseteq P
        <4>1. ASSUME NEW z \in Int  PROVE BoundTo(ix, dims, i, z) \subseteq P
          <5>1. <<i, z>> \in (1..n) \X Int /\ <<i, z>>[1] = i /\ <<i, z>>[2] = z
            OBVIOUS
          <5>. QED
            BY <5>1
        <4>. QED
          BY <4>1
      <3>2. v.parts \in Seq(P) /\ v.ok \in BOOLEAN /\ Len(v.parts) \in Nat
        <4>. HIDE DEF P
        <4>. QED
          OBVIOUS
      <3>. HIDE DEF P
      <3>3. BoundParts(ix, i, v.parts, dims) \in Seq(P)
        BY <3>1, <3>2, BoundPartsIn
      <3>4. v.parts \o BoundParts(ix, i, v.parts, dims) \in Seq(P)
        BY <3>2, <3>3
      <3>. QED
        BY <3>2, <3>4 DEF BindStep
    <2>. HIDE DEF V
    <2>. QED
      BY <2>1
  <1>3. PICK g : DomIter(g, n, base, H) /\ \A s \in SUBSET (1..n) : g[s] \in V
    <2>. HIDE DEF V, H, base
    <2>. QED
      BY <1>0, <1>1, <1>2, DomIterExists
  <1>4. ASSUME NEW s \in SUBSET (1..n), s # {}
        PROVE  H[<<g[s \ {Max(s)}], Max(s)>>] = BindStep(ix, dims, g[s \ {Max(s)}], q[Max(s)])
    <2>1. Max(s) \in 1..n
      <3>1. s \in SUBSET (0..n)
        OBVIOUS
      <3>2. Max(s) \in s
        BY <1>0, <1>4, <3>1, MaxOf
      <3>. QED
        BY <3>2
    <2>2. g[s \ {Max(s)}] \in V
      BY <1>3
    <2>3. q[Max(s)] = Max(s)
      BY <2>1
    <2>. HIDE DEF V
    <2>. QED
      BY <2>1, <2>2, <2>3
  <1>5. DOMAIN q = 1..n
    OBVIOUS
  <1>. HIDE DEF V, H
  <1>6. g = [s \in SUBSET (1..n) |->
               IF s = {} THEN [ok |-> TRUE, parts |-> <<>>] ELSE BindStep(ix, dims, g[s \ {Max(s)}], q[Max(s)])]
    BY <1>3, <1>4 DEF DomIter
  <1>7. BindIter(g, ix, dims, q)
    BY <1>5, <1>6 DEF BindIter
  <1>. QED
    BY <1>7

\* Step by step.
LEMMA BindSteps ==
  ASSUME NEW ix, Asked(ix), NEW dims, Len(dims) \in Nat
  PROVE  \E b : /\ b[0] = [ok |-> TRUE, parts |-> <<>>]
                /\ \A i \in 1..Len(ix) : b[i] = BindStep(ix, dims, b[i - 1], i)
                /\ IndexBind(ix, dims) = b[Len(ix)]
  <1>. DEFINE n == Len(ix)
              q == Numbers(ix)
              g == CHOOSE h : BindIter(h, ix, dims, q)
              b == [i \in 0..n |-> g[1..i]]
  <1>1. n \in Nat /\ DOMAIN ix = 1..n
    BY DEF Asked, Listed
  <1>2. q = [i \in 1..n |-> i] /\ DOMAIN q = 1..n /\ \A k \in 1..n : q[k] = k
    BY <1>1 DEF Numbers
  <1>3. BindIter(g, ix, dims, q)
    <2>1. \E h : BindIter(h, ix, dims, q)
      BY <1>2, BindIterExists
    <2>. QED
      BY <2>1
  <1>4. IndexBind(ix, dims) = g[1..n]
    BY <1>2, IndexBindIs
  <1>. HIDE DEF n, q, g
  <1>5. g[{}] = [ok |-> TRUE, parts |-> <<>>]
    <2>1. {} \in SUBSET (1..n)
      OBVIOUS
    <2>. QED
      BY <1>2, <1>3, <2>1 DEF BindIter
  <1>6. ASSUME NEW i \in 1..n  PROVE g[1..i] = BindStep(ix, dims, g[1..(i - 1)], i)
    <2>1. 1..i \in SUBSET (1..n) /\ 1..i # {} /\ Max(1..i) = i /\ (1..i) \ {i} = 1..(i - 1)
      BY <1>1, LastOf
    <2>2. g[1..i] = BindStep(ix, dims, g[(1..i) \ {Max(1..i)}], q[Max(1..i)])
      BY <1>2, <1>3, <2>1 DEF BindIter
    <2>. QED
      BY <1>2, <2>1, <2>2
  <1>7. b[0] = [ok |-> TRUE, parts |-> <<>>]
    <2>1. 1..0 = {} /\ 0 \in 0..n
      BY <1>1
    <2>. QED
      BY <1>5, <2>1
  <1>8. ASSUME NEW i \in 1..n  PROVE b[i] = BindStep(ix, dims, b[i - 1], i)
    <2>1. i \in 0..n /\ i - 1 \in 0..n
      BY <1>1
    <2>2. b[i] = g[1..i] /\ b[i - 1] = g[1..(i - 1)]
      BY <2>1
    <2>. QED
      BY <1>6, <2>2
  <1>9. IndexBind(ix, dims) = b[n]
    BY <1>1, <1>4
  <1>. HIDE DEF b
  <1>. QED
    BY <1>7, <1>8, <1>9 DEF n

\* What the parts that the first i ones were bound to have in common with them.
WellBound(ix, dims, i, p) ==
  /\ Listed(p) /\ \A k \in 1..Len(p) : BoundPart(p[k])
  /\ NewAxes(p, Len(p)) = NewAxes(ix, i)
  /\ Len(p) - NewAxes(ix, i) <= Len(dims)
  /\ (\E k \in 1..i : ix[k].kind = "list") => \E k \in 1..Len(p) : p[k].kind = "list"
  /\ (\E k \in 1..Len(p) : p[k].kind = "intp") => \E k \in 1..i : ix[k].kind \in {"intp", "bool"}

LEMMA WellBoundAdds ==
  ASSUME NEW ix, NEW dims, NEW i \in Nat \ {0}, NEW p, WellBound(ix, dims, i - 1, p), Len(dims) \in Nat,
         NEW q, Listed(q), \A k \in 1..Len(q) : BoundPart(q[k]),
         \/ /\ ix[i].kind # "newaxis" /\ \A k \in 1..Len(q) : q[k].kind # "newaxis"
            /\ Len(p) + Len(q) - NewAxes(ix, i - 1) <= Len(dims)
         \/ ix[i].kind = "newaxis" /\ Len(q) = 1 /\ q[1].kind = "newaxis",
         ix[i].kind = "list" => \E k \in 1..Len(q) : q[k].kind = "list",
         (\E k \in 1..Len(q) : q[k].kind = "intp") => ix[i].kind \in {"intp", "bool"}
  PROVE  WellBound(ix, dims, i, p \o q)
  <1>. DEFINE c == Len(p)
              d == Len(q)
              r == p \o q
              N == {"newaxis"}
  <1>1. c \in Nat /\ d \in Nat /\ Listed(p) /\ \A k \in 1..c : BoundPart(p[k])
    BY DEF WellBound, Listed
  <1>2. /\ Listed(r) /\ Len(r) = c + d /\ \A k \in 1..c : r[k] = p[k]
        /\ \A k \in 1..d : r[c + k] = q[k]
    BY <1>1, ConcatIs
  <1>3. OfKinds(p, N, c) = OfKinds(ix, N, i - 1) /\ c - OfKinds(ix, N, i - 1) <= Len(dims)
    BY NewAxesIs DEF WellBound
  <1>4. /\ OfKinds(ix, N, i) = OfKinds(ix, N, i - 1) + (IF ix[i].kind \in N THEN 1 ELSE 0)
        /\ OfKinds(ix, N, i - 1) \in Int
    <2>1. i - 1 \in Nat
      OBVIOUS
    <2>2. OfKinds(ix, N, i - 1) \in 0..(i - 1)
      BY <2>1, OfKindsType
    <2>. QED
      BY <2>2, OfKindsNext
  <1>5. \/ /\ ix[i].kind \notin N /\ \A k \in 1..d : q[k].kind \notin N
           /\ c + d - OfKinds(ix, N, i - 1) <= Len(dims)
        \/ ix[i].kind \in N /\ d = 1 /\ q[1].kind \in N
    BY NewAxesIs
  <1>6. /\ ix[i].kind = "list" => \E k \in 1..d : q[k].kind = "list"
        /\ (\E k \in 1..d : q[k].kind = "intp") => ix[i].kind \in {"intp", "bool"}
        /\ \A k \in 1..d : BoundPart(q[k])
        /\ (\E k \in 1..(i - 1) : ix[k].kind = "list") => \E k \in 1..c : p[k].kind = "list"
        /\ (\E k \in 1..c : p[k].kind = "intp") => \E k \in 1..(i - 1) : ix[k].kind \in {"intp", "bool"}
    BY DEF WellBound
  <1>. HIDE DEF c, d, r
  <1>7. OfKinds(r, N, c) = OfKinds(p, N, c)
    BY <1>2, OfKindsSame
  <1>8. ASSUME NEW k \in 1..(c + d)
        PROVE  (k \in 1..c /\ r[k] = p[k]) \/ \E j \in 1..d : k = c + j /\ r[k] = q[j]
    <2>1. CASE k <= c
      BY <1>1, <1>2, <2>1
    <2>2. CASE k > c
      <3>. DEFINE j == k - c
      <3>1. j \in 1..d /\ k = c + j
        BY <1>1, <2>2
      <3>. HIDE DEF j
      <3>. QED
        BY <1>2, <3>1
    <2>. QED
      BY <1>1, <2>1, <2>2
  <1>9. OfKinds(r, N, c + d) = OfKinds(ix, N, i) /\ c + d - OfKinds(ix, N, i) <= Len(dims)
    <2>1. CASE /\ ix[i].kind \notin N /\ \A k \in 1..d : q[k].kind \notin N
               /\ c + d - OfKinds(ix, N, i - 1) <= Len(dims)
      <3>1. c + d \in Nat /\ c \in 0..(c + d)
        BY <1>1
      <3>2. \A k \in (c + 1)..(c + d) : r[k].kind \notin N
        <4>1. ASSUME NEW k \in (c + 1)..(c + d)  PROVE r[k].kind \notin N
          <5>1. k \in 1..(c + d) /\ k \notin 1..c
            BY <1>1
          <5>2. PICK j \in 1..d : k = c + j /\ r[k] = q[j]
            BY <1>8, <5>1
          <5>. QED
            BY <2>1, <5>2
        <4>. QED
          BY <4>1
      <3>. DEFINE m == c + d
      <3>3. OfKinds(r, N, m) = OfKinds(r, N, c)
        <4>1. m \in Nat /\ c \in 0..m /\ \A k \in (c + 1)..m : r[k].kind \notin N
          BY <3>1, <3>2
        <4>. HIDE DEF m, N
        <4>. QED
          BY <4>1, OfKindsStays
      <3>4. OfKinds(ix, N, i) = OfKinds(ix, N, i - 1)
        BY <1>4, <2>1
      <3>. QED
        BY <1>3, <1>7, <2>1, <3>3, <3>4
    <2>2. CASE ix[i].kind \in N /\ d = 1 /\ q[1].kind \in N
      <3>1. c + 1 \in Nat \ {0} /\ (c + 1) - 1 = c /\ 1 \in 1..d
        BY <1>1, <2>2
      <3>2. r[c + 1].kind \in N
        BY <1>2, <2>2, <3>1
      <3>. DEFINE m == c + 1
      <3>3. OfKinds(r, N, m) = OfKinds(r, N, c) + 1
        <4>1. m \in Nat \ {0} /\ m - 1 = c /\ r[m].kind \in N
          BY <3>1, <3>2
        <4>. HIDE DEF m, N
        <4>2. OfKinds(r, N, m) = OfKinds(r, N, m - 1) + IF r[m].kind \in N THEN 1 ELSE 0
          BY <4>1, OfKindsNext
        <4>. QED
          BY <4>1, <4>2
      <3>4. OfKinds(ix, N, i) = OfKinds(ix, N, i - 1) + 1
        BY <1>4, <2>2
      <3>5. c + d = m
        BY <2>2
      <3>. QED
        BY <1>1, <1>3, <1>4, <1>7, <2>2, <3>3, <3>4, <3>5
    <2>. QED
      BY <1>5, <2>1, <2>2
  <1>10. \A k \in 1..(c + d) : BoundPart(r[k])
    BY <1>1, <1>6, <1>8
  <1>11. ASSUME \E k \in 1..i : ix[k].kind = "list"  PROVE \E k \in 1..(c + d) : r[k].kind = "list"
    <2>1. CASE ix[i].kind = "list"
      <3>1. PICK j \in 1..d : q[j].kind = "list"
        BY <1>6, <2>1
      <3>2. c + j \in 1..(c + d) /\ r[c + j] = q[j]
        BY <1>1, <1>2
      <3>. QED
        BY <3>1, <3>2
    <2>2. CASE ix[i].kind # "list"
      <3>1. PICK k \in 1..i : ix[k].kind = "list"
        BY <1>11
      <3>2. k \in 1..(i - 1)
        BY <2>2, <3>1
      <3>3. PICK j \in 1..c : p[j].kind = "list"
        BY <1>6, <3>1, <3>2
      <3>4. j \in 1..(c + d) /\ r[j] = p[j]
        BY <1>1, <1>2
      <3>. QED
        BY <3>3, <3>4
    <2>. QED
      BY <2>1, <2>2
  <1>12. ASSUME NEW k \in 1..(c + d), r[k].kind = "intp"  PROVE \E j \in 1..i : ix[j].kind \in {"intp", "bool"}
    <2>1. CASE k \in 1..c /\ r[k] = p[k]
      <3>1. PICK j \in 1..(i - 1) : ix[j].kind \in {"intp", "bool"}
        BY <1>6, <1>12, <2>1
      <3>2. j \in 1..i
        OBVIOUS
      <3>. QED
        BY <3>1, <3>2
    <2>2. CASE \E j \in 1..d : k = c + j /\ r[k] = q[j]
      <3>1. ix[i].kind \in {"intp", "bool"} /\ i \in 1..i
        BY <1>6, <1>12, <2>2
      <3>. QED
        BY <3>1
    <2>. QED
      BY <1>8, <2>1, <2>2
  <1>13. NewAxes(r, c + d) = OfKinds(r, N, c + d) /\ NewAxes(ix, i) = OfKinds(ix, N, i)
    BY NewAxesIs
  <1>14. WellBound(ix, dims, i, r)
    <2>1. Listed(r) /\ \A k \in 1..Len(r) : BoundPart(r[k])
      BY <1>2, <1>10
    <2>2. NewAxes(r, Len(r)) = NewAxes(ix, i) /\ Len(r) - NewAxes(ix, i) <= Len(dims)
      <3>1. PICK m : m = c + d
        OBVIOUS
      <3>2. OfKinds(r, N, m) = OfKinds(ix, N, i) /\ m - OfKinds(ix, N, i) <= Len(dims)
        <4>1. OfKinds(r, N, m) = OfKinds(ix, N, i)
          BY <1>9, <3>1
        <4>2. c + d - OfKinds(ix, N, i) <= Len(dims) /\ OfKinds(ix, N, i) \in Int
          BY <1>4, <1>9
        <4>3. m - OfKinds(ix, N, i) <= Len(dims)
          BY <1>1, <3>1, <4>2
        <4>. QED
          BY <4>1, <4>3
      <3>3. NewAxes(r, m) = OfKinds(r, N, m) /\ NewAxes(ix, i) = OfKinds(ix, N, i) /\ Len(r) = m
        BY <1>2, <1>13, <3>1
      <3>. QED
        BY <3>2, <3>3
    <2>3. (\E k \in 1..i : ix[k].kind = "list") => \E k \in 1..Len(r) : r[k].kind = "list"
      BY <1>2, <1>11
    <2>4. (\E k \in 1..Len(r) : r[k].kind = "intp") => \E k \in 1..i : ix[k].kind \in {"intp", "bool"}
      BY <1>2, <1>12
    <2>. QED
      BY <2>1, <2>2, <2>3, <2>4 DEF WellBound
  <1>. QED
    BY <1>14 DEF r

LEMMA OneListed ==
  ASSUME NEW x
  PROVE  Listed(<<x>>) /\ Len(<<x>>) = 1 /\ <<x>>[1] = x
  <1>1. <<x>> \in Seq({x})
    OBVIOUS
  <1>. QED
    BY <1>1, SeqListed

\* Every part is bound to the axes it is for.
LEMMA BindOne ==
  ASSUME NEW ix, Asked(ix), NEW dims \in Seq(Nat), NEW i \in 1..Len(ix), NEW p, WellBound(ix, dims, i - 1, p),
         Binds(ix, i, p, dims)
  PROVE  WellBound(ix, dims, i, p \o BoundParts(ix, i, p, dims))
  <1>. DEFINE n == Len(dims)
              axis == NextFree(ix, i, p)
              full == FullSlices(ix, i, p, n)
              q == BoundParts(ix, i, p, dims)
              one(z) == SlicePart([start |-> 0, stop |-> dims[z], step |-> 1])
              new == NewAxes(ix, i - 1)
  <1>1. /\ axis \in Int /\ full \in Int
        /\ ix[i].kind = "ellipsis" => q = [k \in 1..full |-> one(axis + k - 1)]
        /\ ix[i].kind \in {"newaxis", "list"} => q = <<ix[i]>>
        /\ ix[i].kind = "slice" => q = <<SlicePart(BindSlice(AddIndex(ix[i].slice), dims[axis]))>>
        /\ ix[i].kind \in {"intp", "bool"} => q = <<[kind |-> "intp", at |-> AtAxis(ix[i], dims[axis])]>>
        /\ ix[i].kind \in {"ellipsis", "newaxis", "list", "slice", "intp", "bool"}
    <2>1. Len(p) \in Nat
      BY DEF WellBound, Listed
    <2>. QED
      BY <2>1, BoundPartsAre
  <1>2. /\ Len(p) \in Nat /\ new \in 0..Len(p) /\ axis = Len(p) - new + 1 /\ axis >= 1
        /\ n \in Nat /\ \A k \in 1..n : dims[k] \in Nat
    <2>1. Len(p) \in Nat /\ new = NewAxes(p, Len(p))
      BY DEF WellBound, Listed
    <2>2. OfKinds(p, {"newaxis"}, Len(p)) \in 0..Len(p)
      BY <2>1, OfKindsType
    <2>3. new \in 0..Len(p)
      BY <2>1, <2>2, NewAxesIs
    <2>4. axis = Len(p) - new + 1
      BY DEF NextFree
    <2>. HIDE DEF new, axis
    <2>. QED
      BY SMTT(30), <2>1, <2>3, <2>4
  <1>3. i \in Nat \ {0} /\ AskedPart(ix[i]) /\ CountNonNew(ix, i) \in Nat /\ full = n + new - CountNonNew(ix, i) - Len(p)
    <2>0. Len(ix) \in Nat /\ \A k \in 1..Len(ix) : AskedPart(ix[k])
      BY DEF Asked, Listed
    <2>a. \A k \in 1..Len(ix) : ix[k].kind # "mask"
      <3>. SUFFICES ASSUME NEW k \in 1..Len(ix)  PROVE ix[k].kind # "mask"
        OBVIOUS
      <3>1. AskedPart(ix[k])
        BY <2>0
      <3>. QED
        BY <3>1 DEF AskedPart
    <2>b. i \in Nat \ {0} /\ i \in 0..Len(ix)
      BY <2>0
    <2>1. i \in Nat \ {0} /\ AskedPart(ix[i]) /\ i \in 0..Len(ix) /\ \A k \in 1..Len(ix) : ix[k].kind # "mask"
      BY <2>0, <2>a, <2>b
    <2>2. CountNonNew(ix, i) \in Nat
      BY <2>1, CountType DEF Asked
    <2>. QED
      BY <2>1, <2>2 DEF FullSlices, AskedPart
  <1>4. /\ ix[i].kind = "ellipsis" => full >= 0
        /\ ix[i].kind \in {"slice", "list", "intp", "bool"} => axis <= n
        /\ ix[i].kind \in {"intp", "bool"} => AtAxis(ix[i], dims[axis]) \in 0..(dims[axis] - 1)
    BY DEF Binds
  <1>. HIDE DEF n, axis, full, q, new, one
  <1>5. CASE ix[i].kind = "ellipsis"
    <2>. DEFINE t(k) == one(axis + k - 1)
    <2>1. full \in Nat /\ q = [k \in 1..full |-> t(k)]
      BY <1>1, <1>4, <1>5
    <2>2. ASSUME NEW k \in 1..full  PROVE BoundPart(t(k)) /\ t(k).kind = "slice"
      <3>1. axis + k - 1 \in 1..n
        BY SMTT(30), <1>2, <1>3, <2>1
      <3>. DEFINE z == axis + k - 1
      <3>2. dims[z] \in Nat
        BY <1>2, <3>1
      <3>. HIDE DEF z
      <3>. QED
        BY <3>2 DEF one, SlicePart, BoundPart, z
    <2>. HIDE DEF t
    <2>3. q = [k \in 1..full |-> q[k]] /\ \A k \in 1..full : q[k] = t(k)
      BY <2>1
    <2>4. Listed(q) /\ Len(q) = full
      BY <2>1, <2>3, FunctionListed
    <2>5. /\ \A k \in 1..Len(q) : BoundPart(q[k])
          /\ \A k \in 1..Len(q) : q[k].kind # "newaxis"
          /\ ~(ix[i].kind = "list") /\ ~(\E k \in 1..Len(q) : q[k].kind = "intp")
          /\ ix[i].kind # "newaxis" /\ Len(p) + Len(q) - new <= n
      <3>1. \A k \in 1..Len(q) : BoundPart(q[k]) /\ q[k].kind = "slice"
        BY <2>2, <2>3, <2>4
      <3>2. Len(p) + Len(q) - new <= n
        BY SMTT(30), <1>2, <1>3, <2>1, <2>4
      <3>. QED
        BY <1>5, <3>1, <3>2
    <2>6. WellBound(ix, dims, i, p \o q)
      BY <1>2, <1>3, <2>4, <2>5, WellBoundAdds DEF new, n
    <2>. QED
      BY <2>6 DEF q
  <1>6. ASSUME NEW x, q = <<x>>, BoundPart(x),
               \/ x.kind # "newaxis" /\ ix[i].kind # "newaxis" /\ axis <= n
               \/ x.kind = "newaxis" /\ ix[i].kind = "newaxis",
               ix[i].kind = "list" => x.kind = "list", x.kind = "intp" => ix[i].kind \in {"intp", "bool"}
        PROVE  WellBound(ix, dims, i, p \o q)
    <2>1. Listed(q) /\ Len(q) = 1 /\ q[1] = x
      BY <1>6, OneListed
    <2>2. \A k \in 1..Len(q) : k = 1
      BY <2>1
    <2>3. /\ \A k \in 1..Len(q) : BoundPart(q[k])
          /\ \/ /\ ix[i].kind # "newaxis" /\ \A k \in 1..Len(q) : q[k].kind # "newaxis"
                /\ Len(p) + Len(q) - new <= n
             \/ ix[i].kind = "newaxis" /\ Len(q) = 1 /\ q[1].kind = "newaxis"
          /\ (ix[i].kind = "list" => \E k \in 1..Len(q) : q[k].kind = "list")
          /\ ((\E k \in 1..Len(q) : q[k].kind = "intp") => ix[i].kind \in {"intp", "bool"})
      BY <1>2, <1>6, <2>1, <2>2
    <2>. QED
      BY <1>2, <1>3, <2>1, <2>3, WellBoundAdds DEF new, n
  <1>7. CASE ix[i].kind = "newaxis"
    <2>1. q = <<ix[i]>> /\ BoundPart(ix[i])
      BY <1>1, <1>7 DEF BoundPart
    <2>2. WellBound(ix, dims, i, p \o q)
      BY <1>6, <1>7, <2>1
    <2>. QED
      BY <2>2 DEF q
  <1>8. CASE ix[i].kind = "list"
    <2>1. q = <<ix[i]>> /\ BoundPart(ix[i]) /\ axis <= n
      BY <1>1, <1>3, <1>4, <1>8 DEF BoundPart, AskedPart
    <2>2. WellBound(ix, dims, i, p \o q)
      BY <1>6, <1>8, <2>1
    <2>. QED
      BY <2>2 DEF q
  <1>9. CASE ix[i].kind = "slice"
    <2>. DEFINE s == ix[i].slice
                x == SlicePart(BindSlice(AddIndex(s), dims[axis]))
    <2>1. q = <<x>> /\ axis <= n /\ axis \in 1..n
      BY <1>1, <1>2, <1>4, <1>9
    <2>2. Parts(s) /\ dims[axis] \in Nat
      BY <1>2, <1>3, <1>9, <2>1 DEF AskedPart, Parts
    <2>3. /\ BindSlice(AddIndex(s), dims[axis]).start \in Int /\ BindSlice(AddIndex(s), dims[axis]).stop \in Int
          /\ BindSlice(AddIndex(s), dims[axis]).step \in Int /\ BindSlice(AddIndex(s), dims[axis]).step # 0
      <3>. DEFINE d == dims[axis]
      <3>1. d \in Nat
        BY <2>2
      <3>. HIDE DEF d, s
      <3>2. /\ BindSlice(AddIndex(s), d).start \in Int /\ BindSlice(AddIndex(s), d).stop \in Int
            /\ BindSlice(AddIndex(s), d).step \in Int /\ BindSlice(AddIndex(s), d).step # 0
        BY <2>2, <3>1, BindSliceIs
      <3>. QED
        BY <3>2 DEF d, s
    <2>4. BoundPart(x) /\ x.kind = "slice"
      BY <2>3 DEF BoundPart, SlicePart
    <2>. HIDE DEF x
    <2>5. WellBound(ix, dims, i, p \o q)
      BY <1>6, <1>9, <2>1, <2>4
    <2>. QED
      BY <2>5 DEF q
  <1>10. CASE ix[i].kind \in {"intp", "bool"}
    <2>. DEFINE x == [kind |-> "intp", at |-> AtAxis(ix[i], dims[axis])]
    <2>1. q = <<x>> /\ axis <= n /\ axis \in 1..n
      BY SMTT(30), <1>1, <1>2, <1>4, <1>10
    <2>2. AtAxis(ix[i], dims[axis]) \in Int
      <3>1. ix[i].at \in Int /\ dims[axis] \in Nat
        BY <1>2, <1>3, <1>10, <2>1 DEF AskedPart
      <3>. QED
        BY <3>1 DEF AtAxis
    <2>3. BoundPart(x) /\ x.kind = "intp"
      BY <2>2 DEF BoundPart
    <2>. HIDE DEF x
    <2>4. WellBound(ix, dims, i, p \o q)
      BY <1>6, <1>10, <2>1, <2>3
    <2>. QED
      BY <2>4 DEF q
  <1>. QED
    BY <1>1, <1>5, <1>7, <1>8, <1>9, <1>10

\* An index that can be bound.
LEMMA IndexBound ==
  ASSUME NEW ix, Asked(ix), NEW dims \in Seq(Nat), IndexBind(ix, dims).ok
  PROVE  WellBound(ix, dims, Len(ix), IndexBind(ix, dims).parts)
  <1>. DEFINE n == Len(ix)
  <1>1. n \in Nat /\ Len(dims) \in Nat
    BY DEF Asked, Listed
  <1>2. PICK b : /\ b[0] = [ok |-> TRUE, parts |-> <<>>]
                 /\ \A i \in 1..n : b[i] = BindStep(ix, dims, b[i - 1], i)
                 /\ IndexBind(ix, dims) = b[n]
    BY <1>1, BindSteps
  <1>. HIDE DEF n
  <1>. DEFINE made(i) == b[i] = [ok |-> b[i].ok, parts |-> b[i].parts]
              G == {i \in 0..n : made(i) /\ (b[i].ok => WellBound(ix, dims, i, b[i].parts))}
  <1>3. 0 \in G
    <2>1. NewAxes(<<>>, 0) = 0 /\ NewAxes(ix, 0) = 0
      <3>1. OfKinds(<<>>, {"newaxis"}, 0) = 0 /\ OfKinds(ix, {"newaxis"}, 0) = 0
        <4>1. 0 \in Nat
          OBVIOUS
        <4>2. OfKinds(<<>>, {"newaxis"}, 0) \in 0..0 /\ OfKinds(ix, {"newaxis"}, 0) \in 0..0
          BY <4>1, OfKindsType
        <4>. QED
          BY <4>2
      <3>. QED
        BY <3>1, NewAxesIs
    <2>2. Listed(<<>>) /\ Len(<<>>) = 0
      BY DEF Listed
    <2>3. 1..0 = {} /\ 0 - 0 = 0
      OBVIOUS
    <2>4. WellBound(ix, dims, 0, <<>>)
      BY <1>1, <2>1, <2>2, <2>3 DEF WellBound
    <2>5. b[0].parts = <<>> /\ made(0) /\ 0 \in 0..n
      BY <1>1, <1>2
    <2>. QED
      BY <2>4, <2>5
  <1>4. ASSUME NEW i \in 1..n, i - 1 \in G  PROVE i \in G
    <2>. DEFINE ok == b[i - 1].ok
                p == b[i - 1].parts
    <2>1. b[i - 1] = [ok |-> ok, parts |-> p]
      BY <1>4
    <2>2. b[i - 1].ok = ok /\ b[i - 1].parts = p /\ (ok => WellBound(ix, dims, i - 1, p))
      BY <1>4
    <2>. HIDE DEF ok, p
    <2>3. b[i] = IF ok /\ Binds(ix, i, p, dims)
                   THEN [ok |-> ok, parts |-> p \o BoundParts(ix, i, p, dims)] ELSE [ok |-> FALSE, parts |-> p]
      <3>1. b[i] = BindStep(ix, dims, b[i - 1], i)
        BY <1>2
      <3>. QED
        BY <2>1, <2>2, <3>1 DEF BindStep
    <2>4. CASE ok /\ Binds(ix, i, p, dims)
      <3>1. WellBound(ix, dims, i, p \o BoundParts(ix, i, p, dims))
        BY <2>2, <2>4, BindOne DEF n
      <3>2. b[i] = [ok |-> ok, parts |-> p \o BoundParts(ix, i, p, dims)]
        BY <2>3, <2>4
      <3>3. made(i) /\ b[i].parts = p \o BoundParts(ix, i, p, dims) /\ i \in 0..n
        BY <1>1, <3>2
      <3>. QED
        BY <3>1, <3>3
    <2>5. CASE ~(ok /\ Binds(ix, i, p, dims))
      <3>1. b[i] = [ok |-> FALSE, parts |-> p]
        BY <2>3, <2>5
      <3>2. made(i) /\ b[i].ok = FALSE /\ i \in 0..n
        BY <1>1, <3>1
      <3>. QED
        BY <3>2
    <2>. QED
      BY <2>4, <2>5
  <1>5. n \in G
    <2>1. G \in SUBSET (0..n)
      OBVIOUS
    <2>. HIDE DEF G
    <2>2. G = 0..n
      BY <1>1, <1>3, <1>4, <2>1, UpTo
    <2>. QED
      BY <1>1, <2>2
  <1>. QED
    BY <1>2, <1>5 DEF n

\* The axis that a bound part is for is one of the array.
PartAxis(parts, k) == k - NewAxes(parts, k)

LEMMA AxesOfParts ==
  ASSUME NEW parts, Len(parts) \in Nat, NEW L \in Nat, Len(parts) - NewAxes(parts, Len(parts)) <= L
  PROVE  /\ PartAxis(parts, Len(parts)) \in 0..L
         /\ \A k \in 1..Len(parts) : parts[k].kind # "newaxis" => PartAxis(parts, k) \in 1..L
  <1>. DEFINE n == Len(parts)
              N == {"newaxis"}
  <1>1. \A k : NewAxes(parts, k) = OfKinds(parts, N, k)
    BY NewAxesIs
  <1>2. n \in Nat /\ n - OfKinds(parts, N, n) <= L
    BY <1>1
  <1>. HIDE DEF n
  <1>3. n - OfKinds(parts, N, n) \in 0..L
    <2>1. OfKinds(parts, N, n) \in 0..n
      <3>. HIDE DEF N
      <3>. QED
        BY <1>2, OfKindsType
    <2>. QED
      BY <1>2, <2>1
  <1>4. ASSUME NEW k \in 1..n, parts[k].kind # "newaxis"
        PROVE  k - OfKinds(parts, N, k) \in 1..L
    <2>1. k \in Nat \ {0} /\ k - 1 \in Nat /\ k \in 0..n
      BY <1>2
    <2>2. OfKinds(parts, N, k) = OfKinds(parts, N, k - 1)
      <3>1. parts[k].kind \notin N
        BY <1>4
      <3>. HIDE DEF N
      <3>2. OfKinds(parts, N, k) = OfKinds(parts, N, k - 1) + IF parts[k].kind \in N THEN 1 ELSE 0
        BY <2>1, OfKindsNext
      <3>3. OfKinds(parts, N, k - 1) \in 0..(k - 1)
        BY <2>1, OfKindsType
      <3>. QED
        BY <3>1, <3>2, <3>3
    <2>3. OfKinds(parts, N, k - 1) \in 0..(k - 1)
      <3>. HIDE DEF N
      <3>. QED
        BY <2>1, OfKindsType
    <2>4. k - OfKinds(parts, N, k) <= n - OfKinds(parts, N, n)
      <3>. HIDE DEF N
      <3>. QED
        BY <1>2, <2>1, OthersGrow
    <2>. QED
      BY <1>2, <1>3, <2>1, <2>2, <2>3, <2>4
  <1>. QED
    BY <1>1, <1>3, <1>4 DEF n, PartAxis

LEMMA SubSeqIs ==
  ASSUME NEW V, NEW s \in Seq(V), NEW i \in 1..(Len(s) + 1)
  PROVE  SubSeq(s, i, Len(s)) \in Seq(V) /\ Len(SubSeq(s, i, Len(s))) = Len(s) - i + 1
  OBVIOUS

\* The parts that keep an axis.
KeptParts(parts) == {k \in DOMAIN parts : parts[k].kind \in {"slice", "newaxis"}}

\* A bound index takes the axes it keeps from those of the array.
LEMMA DimsEtcIs ==
  ASSUME NEW a, Axes(a), a.data \in Int, NEW parts, Listed(parts), \A k \in 1..Len(parts) : BoundPart(parts[k]),
         Len(parts) - NewAxes(parts, Len(parts)) <= Len(a.dims)
  PROVE  LET view == IndexToDimsEtc(a, parts)
         IN  /\ view.dims \in Seq(Nat) /\ view.strides \in Seq(Int) /\ view.data \in Int
             /\ Len(view.strides) = Len(view.dims)
             /\ Cardinality(KeptParts(parts)) \in Nat /\ Cardinality(KeptParts(parts)) <= Len(view.dims)
  <1>. DEFINE n == Len(parts)
              L == Len(a.dims)
              S == KeptParts(parts)
              kept == Ascending(S)
              c == Cardinality(S)
              new(k) == parts[k].kind = "newaxis"
              rest == PartAxis(parts, n) + 1
              D == [j \in 1..c |-> IF new(kept[j]) THEN 1 ELSE SliceSteps(parts[kept[j]].slice)]
              T == [j \in 1..c |-> IF new(kept[j]) THEN 0
                                   ELSE parts[kept[j]].slice.step * a.strides[PartAxis(parts, kept[j])]]
              M == [k \in 1..n |-> CASE parts[k].kind = "intp"  -> parts[k].at * a.strides[PartAxis(parts, k)]
                                     [] parts[k].kind = "slice" -> parts[k].slice.start * a.strides[PartAxis(parts, k)]
                                     [] OTHER -> 0]
  <1>1. /\ n \in Nat /\ DOMAIN parts = 1..n /\ L \in Nat /\ a.dims \in Seq(Nat) /\ a.strides \in Seq(Int)
        /\ Len(a.strides) = L
    BY DEF Listed, Axes
  <1>2. /\ PartAxis(parts, n) \in 0..L
        /\ \A k \in 1..n : parts[k].kind # "newaxis" => PartAxis(parts, k) \in 1..L
    BY <1>1, AxesOfParts
  <1>3. c \in Nat /\ kept \in [1..c -> S] /\ DOMAIN kept = 1..c /\ S \in SUBSET (1..n)
    <2>1. S \in SUBSET (1..n)
      BY <1>1 DEF KeptParts
    <2>. HIDE DEF S
    <2>2. c \in Nat /\ Enumerates(kept, c, S)
      BY <1>1, <2>1, AscendingOf
    <2>. QED
      BY <2>1, <2>2 DEF Enumerates
  <1>4. \A k \in S : k \in 1..n /\ BoundPart(parts[k]) /\ parts[k].kind \in {"slice", "newaxis"}
    BY <1>3 DEF KeptParts
  <1>. HIDE DEF n, S
  <1>5. D \in [1..c -> Nat] /\ T \in [1..c -> Int]
    <2>. SUFFICES ASSUME NEW j \in 1..c
                  PROVE  D[j] \in Nat /\ T[j] \in Int
      OBVIOUS
    <2>1. kept[j] \in 1..n /\ BoundPart(parts[kept[j]]) /\ parts[kept[j]].kind \in {"slice", "newaxis"}
      BY <1>3, <1>4
    <2>2. CASE new(kept[j])
      BY <2>2
    <2>3. CASE ~new(kept[j])
      <3>. DEFINE b == parts[kept[j]].slice
                  k == PartAxis(parts, kept[j])
      <3>1. b.start \in Int /\ b.stop \in Int /\ b.step \in Int /\ b.step # 0
        BY <2>1, <2>3 DEF BoundPart
      <3>2. k \in 1..L
        BY <1>2, <2>1, <2>3
      <3>3. a.strides[k] \in Int
        BY <1>1, <3>2
      <3>. HIDE DEF k
      <3>4. SliceSteps(b) \in Nat
        <4>. HIDE DEF b
        <4>. QED
          BY <3>1, SliceStepsType
      <3>5. b.step * a.strides[k] \in Int
        BY <3>1, <3>3
      <3>6. D[j] = SliceSteps(b) /\ T[j] = b.step * a.strides[k]
        BY <2>3 DEF k
      <3>. QED
        BY <3>4, <3>5, <3>6
    <2>. QED
      BY <2>2, <2>3
  <1>6. \A k \in 1..n : M[k] \in Int
    <2>. SUFFICES ASSUME NEW k \in 1..n
                  PROVE  M[k] \in Int
      OBVIOUS
    <2>1. BoundPart(parts[k])
      BY DEF n
    <2>2. parts[k].kind # "newaxis" => a.strides[PartAxis(parts, k)] \in Int
      BY <1>1, <1>2
    <2>. DEFINE x == a.strides[PartAxis(parts, k)]
    <2>3. CASE parts[k].kind = "intp"
      <3>1. parts[k].at \in Int /\ x \in Int
        BY <2>1, <2>2, <2>3 DEF BoundPart
      <3>2. M[k] = parts[k].at * x
        BY <2>3
      <3>. HIDE DEF x, M
      <3>. QED
        BY <3>1, <3>2
    <2>4. CASE parts[k].kind = "slice"
      <3>1. parts[k].slice.start \in Int /\ x \in Int
        BY <2>1, <2>2, <2>4 DEF BoundPart
      <3>2. M[k] = parts[k].slice.start * x
        BY <2>4
      <3>. HIDE DEF x, M
      <3>. QED
        BY <3>1, <3>2
    <2>5. CASE parts[k].kind \notin {"intp", "slice"}
      BY <2>5
    <2>. QED
      BY <2>3, <2>4, <2>5
  <1>7. SumFunction(M) \in Int
    <2>1. DOMAIN M = 1..n /\ IsFiniteSet(1..n)
      <3>1. 1 \in Int /\ n \in Int
        BY <1>1
      <3>. QED
        BY <3>1, FS_Interval
    <2>2. Summable(M)
      <3>. HIDE DEF M
      <3>. QED
        BY <1>6, <2>1 DEF Summable
    <2>. HIDE DEF M
    <2>. QED
      BY <2>2, SumType
  <1>8. IndexToDimsEtc(a, parts) = [dims    |-> D \o SubSeq(a.dims, rest, L),
                                    strides |-> T \o SubSeq(a.strides, rest, L),
                                    data    |-> a.data + SumFunction(M)]
    BY <1>1, <1>3 DEF IndexToDimsEtc, n, S, KeptParts, PartAxis
  <1>9. D \in Seq(Nat) /\ Len(D) = c /\ T \in Seq(Int) /\ Len(T) = c
    <2>. HIDE DEF D, T, c
    <2>. QED
      BY <1>3, <1>5, IntsListed, NatsListed
  <1>. HIDE DEF D, T, M, L, c
  <1>10. rest \in 1..(L + 1)
    BY <1>1, <1>2
  <1>. HIDE DEF rest
  <1>11. /\ SubSeq(a.dims, rest, L) \in Seq(Nat) /\ Len(SubSeq(a.dims, rest, L)) = L - rest + 1
         /\ SubSeq(a.strides, rest, L) \in Seq(Int) /\ Len(SubSeq(a.strides, rest, L)) = L - rest + 1
    BY <1>1, <1>10, SubSeqIs DEF L
  <1>12. /\ D \o SubSeq(a.dims, rest, L) \in Seq(Nat) /\ Len(D \o SubSeq(a.dims, rest, L)) = c + (L - rest + 1)
         /\ T \o SubSeq(a.strides, rest, L) \in Seq(Int) /\ Len(T \o SubSeq(a.strides, rest, L)) = c + (L - rest + 1)
    BY <1>9, <1>11
  <1>13. a.data + SumFunction(M) \in Int /\ c \in Nat /\ c <= c + (L - rest + 1)
    BY <1>1, <1>3, <1>7, <1>10
  <1>. QED
    BY <1>8, <1>12, <1>13 DEF c, S

\* Indexes without arrays are bound as they are, and make views.
LEMMA PlainAsked ==
  ASSUME NEW ix, NEW n, IsIndex(ix, n), ~Fancy(ix)
  PROVE  Asked(ix)
  <1>1. Listed(ix) /\ \A k \in 1..Len(ix) : IsPart(ix[k])
    BY DEF IsIndex, Listed
  <1>2. \A k \in 1..Len(ix) : ix[k].kind \notin {"list", "mask"}
    BY <1>1 DEF Listed, Fancy
  <1>3. ASSUME NEW k \in 1..Len(ix)
        PROVE  AskedPart(ix[k])
    BY <1>1, <1>2 DEF AskedPart, IsPart
  <1>. QED
    BY <1>1, <1>3 DEF Asked

ViewAxes(view) ==
  /\ view.dims \in Seq(Nat) /\ view.strides \in Seq(Int) /\ view.data \in Int
  /\ Len(view.strides) = Len(view.dims)

LEMMA IndexSimpleType ==
  ASSUME NEW a, Axes(a), a.data \in Int, NEW ix, Asked(ix), IndexSimple(a, ix) # None
  PROVE  ViewAxes(IndexSimple(a, ix))
  <1>. DEFINE dims == a.dims
              parts == IndexBind(ix, dims).parts
  <1>1. IndexBind(ix, dims).ok /\ IndexSimple(a, ix) = IndexToDimsEtc(a, parts)
    BY DEF IndexSimple
  <1>2. WellBound(ix, dims, Len(ix), parts)
    <2>1. dims \in Seq(Nat)
      BY DEF Axes
    <2>. HIDE DEF dims
    <2>. QED
      BY <1>1, <2>1, IndexBound
  <1>3. Listed(parts) /\ (\A k \in 1..Len(parts) : BoundPart(parts[k])) /\ Len(parts) - NewAxes(parts, Len(parts)) <= Len(a.dims)
    BY <1>2 DEF WellBound
  <1>. HIDE DEF parts, dims
  <1>4. LET view == IndexToDimsEtc(a, parts)
        IN  /\ view.dims \in Seq(Nat) /\ view.strides \in Seq(Int) /\ view.data \in Int
            /\ Len(view.strides) = Len(view.dims)
    BY <1>3, DimsEtcIs
  <1>. QED
    BY <1>1, <1>4 DEF ViewAxes

LEMMA ArrayItemType ==
  ASSUME NEW a, Axes(a), a.data \in Int, NEW ix, Asked(ix), IsItem(ix), ArrayItem(a, ix) # None
  PROVE  ViewAxes(ArrayItem(a, ix))
  <1>. DEFINE at == AtAxis(ix[1], a.dims[1])
              v == [dims |-> Tail(a.dims), strides |-> Tail(a.strides), data |-> a.data + at * a.strides[1]]
  <1>1. Nd(a) # 0 /\ at \in 0..(a.dims[1] - 1) /\ ArrayItem(a, ix) = v
    BY DEF ArrayItem
  <1>2. a.dims \in Seq(Nat) /\ a.strides \in Seq(Int) /\ Len(a.strides) = Len(a.dims) /\ Len(a.dims) # 0
    BY <1>1 DEF Axes, Nd
  <1>3. at \in Int /\ a.strides[1] \in Int
    BY <1>1, <1>2
  <1>. HIDE DEF at
  <1>4. a.data + at * a.strides[1] \in Int
    BY <1>3
  <1>5. Tail(a.dims) \in Seq(Nat) /\ Tail(a.strides) \in Seq(Int) /\ Len(Tail(a.strides)) = Len(Tail(a.dims))
    BY <1>2
  <1>. QED
    BY <1>1, <1>4, <1>5 DEF ViewAxes

LEMMA Subscript0dType ==
  ASSUME NEW a, a.data \in Int, NEW ix, Asked(ix), Subscript0d(a, ix) # None
  PROVE  ViewAxes(Subscript0d(a, ix))
  <1>. DEFINE c == NewAxes(ix, Len(ix))
              new == [k \in 1..c |-> 1]
  <1>1. Subscript0d(a, ix) = [dims |-> new, strides |-> new, data |-> a.data]
    BY DEF Subscript0d
  <1>2. c \in Nat
    <2>. DEFINE N == {"newaxis"}
                n == Len(ix)
    <2>1. NewAxes(ix, n) = OfKinds(ix, N, n) /\ n \in Nat
      BY NewAxesIs DEF Asked, Listed
    <2>. HIDE DEF N, n
    <2>2. OfKinds(ix, N, n) \in 0..n
      BY <2>1, OfKindsType
    <2>. QED
      BY <2>1, <2>2 DEF n
  <1>. HIDE DEF c
  <1>3. new \in [1..c -> Nat] /\ new \in [1..c -> Int]
    OBVIOUS
  <1>. HIDE DEF new
  <1>4. new \in Seq(Nat) /\ new \in Seq(Int)
    BY <1>2, <1>3, NatsListed, IntsListed
  <1>. QED
    BY <1>1, <1>4 DEF ViewAxes

LEMMA SubscriptSimpleKeeps ==
  ASSUME IInv, NEW i \in 1..Len(arrays), NEW ix, NEW n, IsIndex(ix, n), SubscriptSimple(i, ix)
  PROVE  IInv'
  <1>. DEFINE a == arrays[i]
              view == CASE IsItem(ix) -> ArrayItem(a, ix)
                        [] ~IsItem(ix) /\ Nd(a) = 0 -> Subscript0d(a, ix)
                        [] OTHER -> IndexSimple(a, ix)
              b == [ViewOf(i, view.dims, view.strides) EXCEPT !.data = view.data]
  <1>1. Step /\ ~Fancy(ix) /\ view # None /\ Add(b, Promised(shown[i], ix)) /\ UNCHANGED memory
    BY Zenon DEF SubscriptSimple
  <1>2. Axes(a) /\ a.data \in Int /\ Len(arrays) \in Nat
    BY Ours
  <1>3. Asked(ix)
    BY <1>1, PlainAsked
  <1>4. ViewAxes(view)
    <2>. HIDE DEF a
    <2>1. CASE IsItem(ix)
      BY <1>1, <1>2, <1>3, <2>1, ArrayItemType
    <2>2. CASE ~IsItem(ix) /\ Nd(a) = 0
      BY <1>1, <1>2, <1>3, <2>2, Subscript0dType
    <2>3. CASE ~IsItem(ix) /\ Nd(a) # 0
      BY <1>1, <1>2, <1>3, <2>3, IndexSimpleType
    <2>. QED
      BY <2>1, <2>2, <2>3
  <1>. DEFINE dims == view.dims
              strides == view.strides
              d == view.data
  <1>5. dims \in Seq(Nat) /\ strides \in Seq(Int) /\ d \in Int /\ Len(strides) = Len(dims)
    BY <1>4 DEF ViewAxes
  <1>6. Add([ViewOf(i, dims, strides) EXCEPT !.data = d], Promised(shown[i], ix))
    BY <1>1
  <1>. HIDE DEF dims, strides, d, view
  <1>7. Len(memory) \in Nat /\ AllSound(arrays, Len(memory)) /\ Len(memory') = Len(memory)
    BY <1>1 DEF IInv, Listed
  <1>8. Sound([ViewOf(i, dims, strides) EXCEPT !.data = d], Len(arrays) + 1, Len(memory))
    BY <1>5, <1>7, ViewSound
  <1>. DEFINE w == [ViewOf(i, dims, strides) EXCEPT !.data = d]
  <1>9. Sound(w, Len(arrays) + 1, Len(memory')) /\ Add(w, Promised(shown[i], ix))
    BY <1>6, <1>7, <1>8
  <1>. HIDE DEF w
  <1>. QED
    BY <1>1, <1>9, ThenAdded

LEMMA MaskPointersCounted ==
  ASSUME NEW it, NEW mask \in Seq(BOOLEAN)
  PROVE  Len(MaskPointers(it, mask)) \in Nat
  <1>1. PICK c \in Nat : \E f : Enumerates(f, c, TrueUpTo(mask, Len(mask))) /\ MaskPointers(it, mask) = PointersOf(it, f, c)
    BY MaskLeads
  <1>2. PICK f : MaskPointers(it, mask) = PointersOf(it, f, c)
    BY <1>1
  <1>. DEFINE s == PointersOf(it, f, c)
  <1>3. s = [i \in 1..c |-> s[i]]
    BY DEF PointersOf
  <1>. HIDE DEF s
  <1>4. Len(s) = c
    BY <1>1, <1>3, LenIs
  <1>. QED
    BY <1>1, <1>2, <1>4 DEF s

LEMMA SubscriptFlatKeeps ==
  ASSUME IInv, NEW i \in 1..Len(arrays), NEW ix, NEW n, IsIndex(ix, n), SubscriptFlat(i, ix)
  PROVE  IInv'
  <1>. DEFINE a == arrays[i]
              it == IterNew(a)
              at == Pointers(it, FlatIndex(ix[1]))
              dims == IF ix[1].kind = "list" THEN ix[1].dims ELSE <<Len(at)>>
              block == [k \in DOMAIN at |-> ItemIn(memory[a.block], at[k])]
              s == Promised(shown[i], ix)
  <1>1. /\ Step /\ Fancy(ix) /\ IsFlat(a, ix) /\ memory' = Append(memory, block)
        /\ Add(Allocated(dims, "C", Len(memory) + 1), s)
    BY Zenon DEF SubscriptFlat
  <1>2. ix[1].kind \in {"list", "mask"} /\ IsPart(ix[1])
    BY <1>1 DEF IsIndex, Fancy, IsFlat
  <1>3. dims \in Seq(Nat)
    <2>1. CASE ix[1].kind = "list"
      BY <1>2, <2>1 DEF IsPart
    <2>2. CASE ix[1].kind = "mask"
      <3>. DEFINE mask == ix[1].items
      <3>1. mask \in Seq(BOOLEAN)
        BY <1>2, <2>2 DEF IsPart
      <3>2. at = MaskPointers(it, mask)
        <4>1. FlatIndex(ix[1]) = [kind |-> "mask", mask |-> mask]
          BY <2>2 DEF FlatIndex
        <4>. HIDE DEF it, mask
        <4>. QED
          BY <4>1 DEF Pointers
      <3>3. dims = <<Len(at)>>
        BY <2>2
      <3>. HIDE DEF it, mask, at, dims
      <3>4. Len(at) \in Nat
        BY <3>1, <3>2, MaskPointersCounted
      <3>. QED
        BY <3>3, <3>4
    <2>. QED
      BY <1>2, <2>1, <2>2
  <1>. HIDE DEF dims, block, s
  <1>. QED
    BY <1>1, <1>3, ThenAllocated

-----------------------------------------------------------------------------
(* Indexes with lists and masks.                                           *)

Flattens(f, s, n) == f = [i \in 1..n |-> IF i = 1 THEN s[i] ELSE f[i - 1] \o s[i]]

LEMMA FlattenIs ==
  ASSUME NEW s
  PROVE  FlattenSeq(s) = IF Len(s) = 0 THEN s ELSE (CHOOSE f : Flattens(f, s, Len(s)))[Len(s)]
  BY Zenon DEF FlattenSeq, Flattens

LEMMA FlattensExists ==
  ASSUME NEW s, NEW n \in Nat
  PROVE  \E f : Flattens(f, s, n)
  <1>. DEFINE G == {k \in 0..n : \E f : Flattens(f, s, k)}
  <1>1. 0 \in G
    <2>1. Flattens([i \in 1..0 |-> 0], s, 0)
      BY DEF Flattens
    <2>. QED
      BY <2>1
  <1>2. ASSUME NEW k \in 1..n, k - 1 \in G
        PROVE  k \in G
    <2>1. PICK f : Flattens(f, s, k - 1)
      BY <1>2
    <2>. DEFINE g == [i \in 1..k |-> IF i \in 1..(k - 1) THEN f[i] ELSE IF k = 1 THEN s[1] ELSE f[k - 1] \o s[k]]
    <2>2. ASSUME NEW i \in 1..k
          PROVE  g[i] = IF i = 1 THEN s[i] ELSE g[i - 1] \o s[i]
      <3>1. CASE i \in 1..(k - 1)
        <4>1. f[i] = IF i = 1 THEN s[i] ELSE f[i - 1] \o s[i]
          BY <2>1, <3>1 DEF Flattens
        <4>2. i # 1 => i - 1 \in 1..(k - 1)
          BY <3>1
        <4>3. g[i] = f[i] /\ (i # 1 => g[i - 1] = f[i - 1])
          BY <3>1, <4>2
        <4>. HIDE DEF g
        <4>. QED
          BY <4>1, <4>3
      <3>2. CASE i = k
        <4>1. k \notin 1..(k - 1) /\ (k # 1 => k - 1 \in 1..(k - 1))
          OBVIOUS
        <4>2. g[k] = (IF k = 1 THEN s[1] ELSE f[k - 1] \o s[k]) /\ (k # 1 => g[k - 1] = f[k - 1])
          BY <4>1
        <4>. HIDE DEF g
        <4>. QED
          BY <3>2, <4>2
      <3>. QED
        BY <3>1, <3>2
    <2>3. Flattens(g, s, k)
      <3>1. g = [i \in 1..k |-> g[i]]
        OBVIOUS
      <3>. HIDE DEF g
      <3>. QED
        BY <2>2, <3>1 DEF Flattens
    <2>4. k \in 0..n
      OBVIOUS
    <2>. QED
      BY <2>3, <2>4
  <1>3. G = 0..n
    <2>1. G \in SUBSET (0..n)
      OBVIOUS
    <2>. HIDE DEF G
    <2>. QED
      BY <1>1, <1>2, <2>1, UpTo
  <1>4. n \in G
    BY <1>3
  <1>. QED
    BY <1>4

LEMMA FlattenSteps ==
  ASSUME NEW s, NEW n \in Nat \ {0}, Len(s) = n
  PROVE  \E f : /\ f[1] = s[1]
                /\ \A i \in 2..n : f[i] = f[i - 1] \o s[i]
                /\ FlattenSeq(s) = f[n]
  <1>. DEFINE f == CHOOSE g : Flattens(g, s, n)
  <1>1. Flattens(f, s, n)
    BY FlattensExists
  <1>2. FlattenSeq(s) = f[n]
    BY FlattenIs
  <1>. HIDE DEF f
  <1>3. f[1] = s[1]
    <2>1. 1 \in 1..n
      OBVIOUS
    <2>. QED
      BY <1>1, <2>1 DEF Flattens
  <1>4. ASSUME NEW i \in 2..n
        PROVE  f[i] = f[i - 1] \o s[i]
    <2>1. i \in 1..n /\ i # 1
      OBVIOUS
    <2>. QED
      BY <1>1, <2>1 DEF Flattens
  <1>. QED
    BY <1>2, <1>3, <1>4

LEMMA AscendingFunction ==
  ASSUME NEW S
  PROVE  Ascending(S) = [j \in 1..Cardinality(S) |-> Ascending(S)[j]]
  <1>. DEFINE h(j) == CHOOSE p \in S : Cardinality({q \in S : q < p}) = j - 1
  <1>1. Ascending(S) = [j \in 1..Cardinality(S) |-> h(j)]
    BY DEF Ascending
  <1>. HIDE DEF h
  <1>. QED
    BY <1>1

\* A mask becomes one list of coordinates for each of its axes.
LEMMA NonZeroIs ==
  ASSUME NEW p, p.dims \in Seq(Nat) \ {<<>>}, p.items \in Seq(BOOLEAN)
  PROVE  /\ Listed(NonZero(p)) /\ Len(NonZero(p)) = Len(p.dims) /\ Len(p.dims) \in Nat \ {0}
         /\ \A j \in 1..Len(p.dims) : NonZero(p)[j].kind = "list" /\ NonZero(p)[j].dims \in Seq(Nat)
  <1>. DEFINE n == Len(p.dims)
              S == {k \in 0..(Len(p.items) - 1) : p.items[k + 1]}
              ns == Ascending(S)
              c == Cardinality(S)
              it == [IterNew(InOneBlock(p.dims)) EXCEPT !.contiguous = FALSE]
              s == WalkedTo(it, ns)
  <1>1. n \in Nat \ {0} /\ DOMAIN p.dims = 1..n
    OBVIOUS
  <1>2. c \in Nat
    <2>. DEFINE I == 0..(Len(p.items) - 1)
    <2>1. 0 \in Int /\ Len(p.items) - 1 \in Int
      OBVIOUS
    <2>2. IsFiniteSet(I)
      BY <2>1, FS_Interval
    <2>3. S \in SUBSET I
      OBVIOUS
    <2>. HIDE DEF S, I
    <2>4. IsFiniteSet(S)
      BY <2>2, <2>3, FS_Subset
    <2>. QED
      BY <2>4, FS_CardinalityType
  <1>. HIDE DEF S
  <1>3. Len(ns) \in Nat
    <2>1. ns = [j \in 1..c |-> ns[j]]
      BY AscendingFunction
    <2>. HIDE DEF ns, c
    <2>. QED
      BY <1>2, <2>1, LenIs
  <1>4. DOMAIN it.dims_m1 = 1..n
    BY <1>1 DEF IterNew, Walk, InOneBlock
  <1>. HIDE DEF ns, it
  <1>5. s = [j \in 1..n |-> [kind |-> "list", dims |-> <<Len(ns)>>,
                             items |-> [h \in DOMAIN ns |-> Advanced(it, ns[h]).coordinates[j]]]]
    BY <1>4 DEF WalkedTo
  <1>6. \A j \in 1..n : s[j].kind = "list" /\ s[j].dims = <<Len(ns)>>
    BY <1>5
  <1>7. s = [j \in 1..n |-> s[j]]
    BY <1>5
  <1>8. NonZero(p) = s
    BY DEF NonZero, it, ns, S
  <1>. HIDE DEF s, n
  <1>9. Listed(s) /\ Len(s) = n
    BY <1>1, <1>7, FunctionListed
  <1>10. <<Len(ns)>> \in Seq(Nat)
    BY <1>3
  <1>. QED
    BY <1>1, <1>6, <1>8, <1>9, <1>10 DEF n

\* An index without its masks, and with every Boolean as an integer as well.
ExpandedPart(p) ==
  CASE p.kind = "mask" -> NonZero(p)
    [] p.kind = "bool" -> <<[kind |-> "intp", at |-> p.at], p>>
    [] OTHER           -> <<p>>

LEMMA ExpandedPartIs ==
  ASSUME NEW p, IsPart(p)
  PROVE  LET q == ExpandedPart(p)
         IN  /\ Listed(q) /\ Len(q) \in Nat \ {0} /\ \A k \in 1..Len(q) : AskedPart(q[k])
             /\ p.kind \in {"list", "mask"} => q[1].kind = "list"
             /\ p.kind \in {"intp", "bool"} => q[1].kind = "intp"
             /\ (\E k \in 1..Len(q) : q[k].kind \in {"intp", "bool"}) => p.kind \in {"intp", "bool"}
  <1>. DEFINE q == ExpandedPart(p)
  <1>1. CASE p.kind = "mask"
    <2>1. p.dims \in Seq(Nat) \ {<<>>} /\ p.items \in Seq(BOOLEAN)
      BY <1>1 DEF IsPart
    <2>2. q = NonZero(p)
      BY <1>1 DEF ExpandedPart
    <2>. DEFINE d == Len(p.dims)
    <2>3. /\ Listed(q) /\ Len(q) = d /\ d \in Nat \ {0}
          /\ \A j \in 1..d : q[j].kind = "list" /\ q[j].dims \in Seq(Nat)
      BY <2>1, <2>2, NonZeroIs
    <2>. HIDE DEF q, d
    <2>4. 1 \in 1..d
      BY <2>3
    <2>5. \A j \in 1..d : AskedPart(q[j])
      BY <2>3 DEF AskedPart
    <2>. QED
      BY <1>1, <2>3, <2>4, <2>5 DEF q
  <1>2. CASE p.kind = "bool"
    <2>. DEFINE z == [kind |-> "intp", at |-> p.at]
    <2>1. p.at \in Int /\ q = <<z, p>>
      BY <1>2 DEF IsPart, ExpandedPart
    <2>2. AskedPart(z) /\ AskedPart(p) /\ z.kind = "intp"
      BY <1>2, <2>1 DEF AskedPart
    <2>. HIDE DEF z
    <2>3. Listed(<<z, p>>) /\ Len(<<z, p>>) = 2 /\ <<z, p>>[1] = z /\ <<z, p>>[2] = p
      <3>1. <<z, p>> \in Seq({z, p})
        OBVIOUS
      <3>. QED
        BY <3>1, SeqListed
    <2>. HIDE DEF q
    <2>4. \A k \in 1..2 : k = 1 \/ k = 2
      OBVIOUS
    <2>. QED
      BY <1>2, <2>1, <2>2, <2>3, <2>4 DEF q
  <1>3. CASE p.kind \notin {"mask", "bool"}
    <2>1. q = <<p>> /\ AskedPart(p)
      BY <1>3 DEF IsPart, AskedPart, ExpandedPart
    <2>2. Listed(<<p>>) /\ Len(<<p>>) = 1 /\ <<p>>[1] = p
      BY OneListed
    <2>. HIDE DEF q
    <2>3. \A k \in 1..1 : k = 1
      OBVIOUS
    <2>. QED
      BY <1>3, <2>1, <2>2, <2>3 DEF q
  <1>. QED
    BY <1>1, <1>2, <1>3

LEMMA OfKindsGrows ==
  ASSUME NEW s, NEW K, NEW n \in Nat, NEW i \in 0..n
  PROVE  OfKinds(s, K, i) <= OfKinds(s, K, n)
  <1>. DEFINE S == {k \in 1..i : s[k].kind \in K}
              T == {k \in 1..n : s[k].kind \in K}
  <1>1. S \in SUBSET T
    OBVIOUS
  <1>2. IsFiniteSet(T)
    <2>1. 1 \in Int /\ n \in Int /\ T \in SUBSET (1..n)
      OBVIOUS
    <2>2. IsFiniteSet(1..n)
      BY <2>1, FS_Interval
    <2>. HIDE DEF T
    <2>. QED
      BY <2>1, <2>2, FS_Subset
  <1>3. OfKinds(s, K, i) = Cardinality(S) /\ OfKinds(s, K, n) = Cardinality(T)
    BY DEF OfKinds
  <1>. HIDE DEF S, T
  <1>. QED
    BY <1>1, <1>2, <1>3, FS_Subset

ListKinds == {"list", "intp"}
WithItems == {"intp", "bool", "list"}

\* What is known of the parts that the first i parts of an index expand to.
WellExpanded(ix, i, p) ==
  /\ Asked(p)
  /\ (\E k \in 1..i : ix[k].kind \in {"list", "mask"}) => \E k \in 1..Len(p) : p[k].kind = "list"
  /\ (\E k \in 1..Len(p) : p[k].kind \in {"intp", "bool"}) => \E k \in 1..i : ix[k].kind \in {"intp", "bool"}
  /\ (\A k \in 1..i : ix[k].kind \in WithItems) => i <= OfKinds(p, ListKinds, Len(p))

LEMMA ExpandedAdds ==
  ASSUME NEW ix, NEW i \in Nat \ {0}, NEW p, WellExpanded(ix, i - 1, p) \/ (i = 1 /\ p = <<>>), IsPart(ix[i])
  PROVE  WellExpanded(ix, i, p \o ExpandedPart(ix[i]))
  <1>. DEFINE q == ExpandedPart(ix[i])
              r == p \o q
              c == Len(p)
              d == Len(q)
              e == OfKinds(p, ListKinds, c)
              m == c + d
  <1>1. /\ Listed(q) /\ d \in Nat \ {0} /\ \A k \in 1..d : AskedPart(q[k])
        /\ ix[i].kind \in {"list", "mask"} => q[1].kind = "list"
        /\ ix[i].kind \in {"intp", "bool"} => q[1].kind = "intp"
        /\ (\E k \in 1..d : q[k].kind \in {"intp", "bool"}) => ix[i].kind \in {"intp", "bool"}
    BY ExpandedPartIs
  <1>2. WellExpanded(ix, i - 1, p)
    <2>1. CASE i = 1 /\ p = <<>>
      <3>1. p \in Seq({}) /\ Len(p) = 0 /\ i - 1 = 0
        BY <2>1
      <3>2. Listed(p)
        BY <3>1, SeqListed
      <3>3. OfKinds(p, ListKinds, 0) = 0
        BY OfKindsStep
      <3>4. \A k \in 1..0 : FALSE
        OBVIOUS
      <3>. HIDE DEF q, r, c, d, e, m
      <3>. QED
        BY <3>1, <3>2, <3>3, <3>4 DEF WellExpanded, Asked
    <2>. QED
      BY <2>1
  <1>. HIDE DEF q
  <1>3. /\ Listed(p) /\ c \in Nat /\ \A k \in 1..c : AskedPart(p[k])
        /\ (\E k \in 1..(i - 1) : ix[k].kind \in {"list", "mask"}) => \E k \in 1..c : p[k].kind = "list"
        /\ (\E k \in 1..c : p[k].kind \in {"intp", "bool"}) => \E k \in 1..(i - 1) : ix[k].kind \in {"intp", "bool"}
        /\ (\A k \in 1..(i - 1) : ix[k].kind \in WithItems) => i - 1 <= e
    BY <1>2 DEF WellExpanded, Asked, Listed
  <1>4. /\ Listed(r) /\ Len(r) = c + d /\ \A k \in 1..c : r[k] = p[k]
        /\ \A k \in 1..d : r[c + k] = q[k]
    BY <1>1, <1>3, ConcatIs
  <1>5. e \in Nat
    <2>1. e \in 0..c
      BY <1>3, OfKindsType
    <2>. QED
      BY <1>3, <2>1
  <1>6. ASSUME NEW k \in 1..m
        PROVE  (k \in 1..c /\ r[k] = p[k]) \/ \E j \in 1..d : k = c + j /\ r[k] = q[j]
    <2>1. CASE k <= c
      BY <1>1, <1>3, <1>4, <2>1
    <2>2. CASE k > c
      <3>. DEFINE j == k - c
      <3>1. j \in 1..d /\ k = c + j
        BY <1>1, <1>3, <2>2
      <3>. HIDE DEF j
      <3>. QED
        BY <1>4, <3>1
    <2>. QED
      BY <1>1, <1>3, <2>1, <2>2
  <1>7. m \in Nat /\ Len(r) = m /\ c + 1 \in 0..m /\ c \in 0..m /\ 1 \in 1..d /\ \A j \in 1..d : c + j \in 1..m
    BY <1>1, <1>3, <1>4
  <1>8. OfKinds(r, ListKinds, c) = e
    <2>. HIDE DEF c, r
    <2>. QED
      BY <1>4, OfKindsSame DEF e
  <1>. HIDE DEF c, d, r, e, m
  <1>9. Asked(r)
    <2>1. \A k \in 1..m : AskedPart(r[k])
      BY <1>1, <1>3, <1>6
    <2>. QED
      BY <1>4, <1>7, <2>1 DEF Asked
  <1>10. ASSUME \E k \in 1..i : ix[k].kind \in {"list", "mask"}
         PROVE  \E k \in 1..m : r[k].kind = "list"
    <2>1. PICK k \in 1..i : ix[k].kind \in {"list", "mask"}
      BY <1>10
    <2>2. CASE k = i
      <3>1. c + 1 \in 1..m /\ r[c + 1] = q[1] /\ q[1].kind = "list"
        BY <1>1, <1>4, <1>7, <2>1, <2>2
      <3>. QED
        BY <3>1
    <2>3. CASE k # i
      <3>1. k \in 1..(i - 1)
        BY <2>3
      <3>2. PICK j \in 1..c : p[j].kind = "list"
        BY <1>3, <2>1, <3>1
      <3>3. j \in 1..m /\ r[j] = p[j]
        BY <1>3, <1>4, <1>7
      <3>. QED
        BY <3>2, <3>3
    <2>. QED
      BY <2>2, <2>3
  <1>11. ASSUME NEW k \in 1..m, r[k].kind \in {"intp", "bool"}
         PROVE  \E j \in 1..i : ix[j].kind \in {"intp", "bool"}
    <2>1. CASE k \in 1..c /\ r[k] = p[k]
      <3>1. PICK j \in 1..(i - 1) : ix[j].kind \in {"intp", "bool"}
        BY <1>3, <1>11, <2>1
      <3>2. j \in 1..i
        OBVIOUS
      <3>. QED
        BY <3>1, <3>2
    <2>2. CASE \E j \in 1..d : k = c + j /\ r[k] = q[j]
      <3>1. ix[i].kind \in {"intp", "bool"} /\ i \in 1..i
        BY <1>1, <1>11, <2>2
      <3>. QED
        BY <3>1
    <2>. QED
      BY <1>6, <2>1, <2>2
  <1>12. ASSUME \A k \in 1..i : ix[k].kind \in WithItems
         PROVE  i <= OfKinds(r, ListKinds, m)
    <2>1. i - 1 <= e
      BY <1>3, <1>12
    <2>. DEFINE h == c + 1
    <2>2. h \in Nat \ {0} /\ h - 1 = c /\ h \in 0..m
      BY <1>3, <1>7
    <2>3. r[h].kind \in ListKinds
      <3>1. ix[i].kind \in WithItems
        BY <1>12
      <3>. QED
        BY <1>1, <1>4, <1>7, <3>1 DEF WithItems, ListKinds
    <2>. HIDE DEF h
    <2>4. OfKinds(r, ListKinds, h) = OfKinds(r, ListKinds, h - 1) + IF r[h].kind \in ListKinds THEN 1 ELSE 0
      BY <2>2, OfKindsNext
    <2>5. OfKinds(r, ListKinds, h) = e + 1
      BY <1>5, <1>8, <2>2, <2>3, <2>4
    <2>6. OfKinds(r, ListKinds, h) <= OfKinds(r, ListKinds, m)
      BY <1>7, <2>2, OfKindsGrows
    <2>7. OfKinds(r, ListKinds, m) \in 0..m
      BY <1>7, OfKindsType
    <2>. QED
      BY <1>5, <1>7, <2>1, <2>5, <2>6, <2>7
  <1>. QED
    BY <1>7, <1>9, <1>10, <1>11, <1>12 DEF WellExpanded, r, q

LEMMA NothingBefore ==
  ASSUME NEW s, Listed(s)
  PROVE  <<>> \o s = s
  <1>1. PICK V : s \in Seq(V)
    BY ListedSeq
  <1>. QED
    BY <1>1

LEMMA ExpandedIs ==
  ASSUME NEW ix, NEW nd, IsIndex(ix, nd), Len(ix) # 0
  PROVE  WellExpanded(ix, Len(ix), IndexExpandBool(ix))
  <1>. DEFINE n == Len(ix)
              s == [i \in 1..n |-> ExpandedPart(ix[i])]
  <1>1. n \in Nat \ {0} /\ DOMAIN ix = 1..n /\ \A i \in 1..n : IsPart(ix[i])
    BY DEF IsIndex
  <1>2. IndexExpandBool(ix) = FlattenSeq(s)
    BY <1>1 DEF IndexExpandBool, ExpandedPart
  <1>. HIDE DEF n
  <1>3. Len(s) = n /\ \A i \in 1..n : s[i] = ExpandedPart(ix[i])
    <2>1. s = [i \in 1..n |-> s[i]] /\ \A i \in 1..n : s[i] = ExpandedPart(ix[i])
      OBVIOUS
    <2>. HIDE DEF s
    <2>. QED
      BY <1>1, <2>1, LenIs
  <1>. HIDE DEF s
  <1>4. PICK f : /\ f[1] = s[1]
                 /\ \A i \in 2..n : f[i] = f[i - 1] \o s[i]
                 /\ FlattenSeq(s) = f[n]
    <2>1. n \in Nat \ {0} /\ Len(s) = n
      BY <1>1, <1>3
    <2>. QED
      BY <2>1, FlattenSteps
  <1>. DEFINE G == {k \in 0..n : k = 0 \/ WellExpanded(ix, k, f[k])}
  <1>5. 0 \in G
    BY <1>1
  <1>6. ASSUME NEW k \in 1..n, k - 1 \in G
        PROVE  k \in G
    <2>1. k \in Nat \ {0} /\ IsPart(ix[k]) /\ s[k] = ExpandedPart(ix[k]) /\ k \in 0..n
      BY <1>1, <1>3
    <2>2. CASE k = 1
      <3>1. f[1] = <<>> \o ExpandedPart(ix[1])
        <4>1. Listed(ExpandedPart(ix[1]))
          BY <2>1, <2>2, ExpandedPartIs
        <4>. QED
          BY <1>4, <2>1, <2>2, <4>1, NothingBefore
      <3>. DEFINE p == <<>>
      <3>2. WellExpanded(ix, k, p \o ExpandedPart(ix[k]))
        <4>1. p = <<>>
          OBVIOUS
        <4>. HIDE DEF p
        <4>. QED
          BY <2>1, <2>2, <4>1, ExpandedAdds
      <3>3. f[k] = p \o ExpandedPart(ix[k])
        BY <2>2, <3>1
      <3>. HIDE DEF p
      <3>. QED
        BY <2>1, <3>2, <3>3
    <2>3. CASE k # 1
      <3>1. WellExpanded(ix, k - 1, f[k - 1]) /\ k \in 2..n
        BY <1>6, <2>3
      <3>. DEFINE p == f[k - 1]
      <3>2. WellExpanded(ix, k - 1, p) /\ f[k] = p \o ExpandedPart(ix[k])
        BY <1>4, <2>1, <3>1
      <3>. HIDE DEF p
      <3>3. WellExpanded(ix, k, p \o ExpandedPart(ix[k]))
        BY <2>1, <3>2, ExpandedAdds
      <3>. QED
        BY <2>1, <3>2, <3>3
    <2>. QED
      BY <2>2, <2>3
  <1>7. G = 0..n
    <2>1. G \in SUBSET (0..n) /\ n \in Nat
      BY <1>1
    <2>. HIDE DEF G
    <2>. QED
      BY <1>5, <1>6, <2>1, UpTo
  <1>8. n \in G
    BY <1>1, <1>7
  <1>. QED
    BY <1>1, <1>2, <1>4, <1>8 DEF n

\* The lists of an index, an integer being one without axes.
LEMMA ListsInAre ==
  ASSUME NEW e, Asked(e)
  PROVE  LET c == OfKinds(e, ListKinds, Len(e))
         IN  /\ c \in Nat /\ Listed(ListsIn(e)) /\ Len(ListsIn(e)) = c
             /\ \A j \in 1..c : ListsIn(e)[j].dims \in Seq(Nat)
  <1>. DEFINE n == Len(e)
              S == {k \in 1..n : e[k].kind \in ListKinds}
              c == Cardinality(S)
              picked == Picked(e, S)
              as(p) == IF p.kind = "list" THEN [dims |-> p.dims, items |-> p.items]
                                          ELSE [dims |-> <<>>, items |-> <<p.at>>]
  <1>1. n \in Nat /\ DOMAIN e = 1..n /\ \A k \in 1..n : AskedPart(e[k])
    BY DEF Asked, Listed
  <1>2. c \in Nat /\ Ascending(S) \in [1..c -> S]
    <2>1. S \in SUBSET (1..n)
      OBVIOUS
    <2>. HIDE DEF S
    <2>2. Enumerates(Ascending(S), c, S) /\ c \in Nat
      BY <1>1, <2>1, AscendingOf
    <2>. QED
      BY <2>2 DEF Enumerates
  <1>3. OfKinds(e, ListKinds, Len(e)) = c
    BY DEF OfKinds
  <1>4. \A k \in S : e[k].kind \in ListKinds /\ AskedPart(e[k])
    BY <1>1
  <1>5. ListsIn(e) = [j \in DOMAIN picked |-> as(picked[j])]
    BY <1>1 DEF ListsIn, ListKinds
  <1>. HIDE DEF S, c
  <1>6. picked = [j \in 1..c |-> e[Ascending(S)[j]]]
    BY DEF Picked, c
  <1>7. ListsIn(e) = [j \in 1..c |-> as(e[Ascending(S)[j]])]
    BY <1>5, <1>6
  <1>8. ASSUME NEW j \in 1..c
        PROVE  ListsIn(e)[j].dims \in Seq(Nat)
    <2>1. PICK p : p = e[Ascending(S)[j]] /\ p.kind \in ListKinds /\ AskedPart(p)
      BY <1>2, <1>4
    <2>2. as(p).dims \in Seq(Nat)
      BY <2>1 DEF AskedPart, ListKinds
    <2>. HIDE DEF as
    <2>3. ListsIn(e)[j] = as(p)
      BY <1>7, <2>1
    <2>. QED
      BY <2>2, <2>3
  <1>9. ListsIn(e) = [j \in 1..c |-> ListsIn(e)[j]]
    <2>. HIDE DEF as
    <2>. QED
      BY <1>7
  <1>10. Listed(ListsIn(e)) /\ Len(ListsIn(e)) = c
    <2>. DEFINE s == ListsIn(e)
    <2>1. s = [j \in 1..c |-> s[j]]
      BY <1>9
    <2>. HIDE DEF s
    <2>2. Listed(s) /\ Len(s) = c
      BY <1>2, <2>1, FunctionListed
    <2>. QED
      BY <2>2 DEF s
  <1>. QED
    BY <1>2, <1>3, <1>8, <1>10

\* The shape that lists are broadcast to has as many axes as the one with the most.
LEMMA BroadcastType ==
  ASSUME NEW own, NEW c \in Nat \ {0}, DOMAIN own = 1..c, \A j \in 1..c : own[j].dims \in Seq(Nat)
  PROVE  BroadcastDims(ToSet(own)) \in Seq(Nat)
  <1>. DEFINE A == ToSet(own)
              L == [j \in 1..c |-> Len(own[j].dims)]
              Bound(j, b) == \A i \in 1..Len(own[j].dims) : own[j].dims[i] <= b
              pick(j) == CHOOSE b \in Nat : Bound(j, b)
              B == [j \in 1..c |-> pick(j)]
              m == MostAxes(A)
  <1>1. \A a : a \in A <=> \E j \in 1..c : a = own[j]
    BY DEF ToSet
  <1>2. 1 \in 1..c /\ own[1] \in A
    <2>1. 1 \in 1..c
      OBVIOUS
    <2>. QED
      BY <1>1, <2>1
  <1>3. L \in [1..c -> Nat]
    OBVIOUS
  <1>4. \A j \in 1..c : B[j] \in Nat /\ Bound(j, B[j])
    <2>. SUFFICES ASSUME NEW j \in 1..c
                  PROVE  B[j] \in Nat /\ Bound(j, B[j])
      OBVIOUS
    <2>1. \E b \in Nat : Bound(j, b)
      BY LengthsBounded
    <2>. HIDE DEF Bound
    <2>. QED
      BY <2>1
  <1>. HIDE DEF pick
  <1>5. B \in [1..c -> Nat]
    BY <1>4
  <1>. HIDE DEF A, L, B
  <1>6. PICK x \in Nat : \A j \in 1..c : L[j] <= x
    <2>1. L \in Seq(Nat) /\ Len(L) = c
      BY <1>3, NatsListed
    <2>. QED
      BY <2>1, LengthsBounded
  <1>7. PICK y \in Nat : \A j \in 1..c : B[j] <= y
    <2>1. B \in Seq(Nat) /\ Len(B) = c
      BY <1>5, NatsListed
    <2>. QED
      BY <2>1, LengthsBounded
  <1>8. m \in Nat
    <2>. DEFINE S == {Len(a.dims) : a \in A}
    <2>1. S \in SUBSET (0..x)
      <3>1. ASSUME NEW a \in A
            PROVE  Len(a.dims) \in 0..x
        <4>1. PICK j \in 1..c : a = own[j]
          BY <1>1
        <4>2. L[j] = Len(own[j].dims) /\ L[j] <= x /\ L[j] \in Nat
          BY <1>3, <1>6 DEF L
        <4>. QED
          BY <4>1, <4>2
      <3>. QED
        BY <3>1
    <2>2. S # {}
      BY <1>2
    <2>3. m = Max(S)
      BY DEF MostAxes
    <2>. HIDE DEF S
    <2>4. m \in S
      BY <2>1, <2>2, <2>3, MaxOf
    <2>5. m \in 0..x
      BY <2>1, <2>4
    <2>. HIDE DEF m
    <2>. QED
      BY <2>5
  <1>. DEFINE z == y + 1
  <1>9. ASSUME NEW i \in 1..m
        PROVE  (IF Lengths(A, i) = {} THEN 1 ELSE Max(Lengths(A, i))) \in Nat
    <2>. DEFINE S == Lengths(A, i)
    <2>1. S \in SUBSET (0..z)
      <3>1. ASSUME NEW a \in A
            PROVE  Stretched(a, m, i) \in 0..z
        <4>1. PICK j \in 1..c : a = own[j]
          BY <1>1
        <4>. DEFINE k == i + Len(a.dims) - m
        <4>2. a.dims \in Seq(Nat)
          BY <4>1
        <4>3. CASE k > 0
          <5>1. k \in 1..Len(a.dims)
            BY <1>8, <4>2, <4>3
          <5>2. a.dims[k] \in Nat
            BY <4>2, <5>1
          <5>3. a.dims[k] <= B[j] /\ B[j] <= y /\ B[j] \in Nat
            BY <1>4, <1>7, <4>1, <5>1
          <5>4. Stretched(a, m, i) = a.dims[k]
            BY <4>3 DEF Stretched
          <5>. QED
            BY <5>2, <5>3, <5>4
        <4>4. CASE ~(k > 0)
          <5>1. Stretched(a, m, i) = 1
            BY <4>4 DEF Stretched
          <5>. QED
            BY <5>1
        <4>. QED
          BY <4>3, <4>4
      <3>2. S = {Stretched(a, m, i) : a \in A} \ {1}
        BY DEF Lengths
      <3>. HIDE DEF S, z
      <3>. QED
        BY <3>1, <3>2
    <2>2. z \in Nat
      OBVIOUS
    <2>3. CASE S # {}
      <3>. HIDE DEF S, z
      <3>1. Max(S) \in S
        BY <2>1, <2>2, <2>3, MaxOf
      <3>. QED
        BY <2>1, <2>2, <2>3, <3>1 DEF S
    <2>. QED
      BY <2>3
  <1>. DEFINE D == [i \in 1..m |-> IF Lengths(A, i) = {} THEN 1 ELSE Max(Lengths(A, i))]
  <1>10. D = BroadcastDims(A)
    BY DEF BroadcastDims
  <1>11. D \in [1..m -> Nat]
    BY <1>9
  <1>. HIDE DEF D, m
  <1>12. D \in Seq(Nat)
    BY <1>8, <1>11, NatsListed
  <1>. QED
    BY <1>10, <1>12 DEF A

\* The map iterator of an index before it is bound to an array.
LEMMA MapIterFromIs ==
  ASSUME NEW e, Asked(e), NEW c \in Nat \ {0}, c = OfKinds(e, ListKinds, Len(e)), MapIterFrom(e) # None
  PROVE  LET mit == MapIterFrom(e)
         IN  /\ mit = [parts |-> mit.parts, items |-> mit.items, iters |-> mit.iters, dims |-> mit.dims,
                       iteraxes |-> mit.iteraxes, bscoord |-> mit.bscoord, consec |-> mit.consec,
                       subspace |-> None, index |-> mit.index, dataptr |-> mit.dataptr]
             /\ mit.parts = e /\ mit.dims \in Seq(Nat)
             /\ DOMAIN mit.iters = 1..c /\ Len(mit.iters) = c
             /\ Len(mit.iters[1].dims_m1) = Len(mit.dims)
  <1>. DEFINE lists == ListsIn(e)
              own == [j \in DOMAIN lists |-> InOneBlock(lists[j].dims)]
              dims == BroadcastDims(ToSet(own))
              iters == MultiIterFromArrays(own)
  <1>1. Listed(lists) /\ Len(lists) = c /\ \A j \in 1..c : lists[j].dims \in Seq(Nat)
    BY ListsInAre
  <1>2. DOMAIN lists = 1..c
    BY <1>1 DEF Listed
  <1>3. MapIterFrom(e) = MapIterOf(e, lists, own)
    BY DEF MapIterFrom, MapIterOver
  <1>. HIDE DEF lists
  <1>4. DOMAIN own = 1..c /\ \A j \in 1..c : own[j].dims \in Seq(Nat)
    BY <1>1, <1>2 DEF InOneBlock
  <1>5. MapIterOf(e, lists, own) =
          [parts |-> e, items |-> [j \in DOMAIN lists |-> lists[j].items],
           iters |-> iters, dims |-> dims, iteraxes |-> <<>>, bscoord |-> <<>>, consec |-> TRUE,
           subspace |-> None, index |-> 0, dataptr |-> 0]
    BY <1>3 DEF MapIterOf
  <1>. HIDE DEF own
  <1>6. dims \in Seq(Nat)
    BY <1>4, BroadcastType
  <1>7. iters = [j \in 1..c |-> BroadcastIter(own[j], dims)]
    BY <1>4 DEF MultiIterFromArrays
  <1>. HIDE DEF iters, dims
  <1>8. DOMAIN iters = 1..c /\ Len(iters) = c
    <2>1. iters = [j \in 1..c |-> iters[j]] /\ DOMAIN iters = 1..c
      BY <1>7
    <2>. QED
      BY <2>1, LenIs
  <1>9. Len(iters[1].dims_m1) = Len(dims)
    <2>1. iters[1] = BroadcastIter(own[1], dims)
      BY <1>7
    <2>. DEFINE f == iters[1].dims_m1
    <2>2. f = [i \in DOMAIN dims |-> dims[i] - 1]
      BY <2>1 DEF BroadcastIter, Walk
    <2>3. DOMAIN dims = 1..Len(dims) /\ Len(dims) \in Nat
      BY <1>6
    <2>4. f = [i \in 1..Len(dims) |-> f[i]]
      BY <2>2, <2>3
    <2>. HIDE DEF f
    <2>5. Len(f) = Len(dims)
      BY <2>3, <2>4, LenIs
    <2>. QED
      BY <2>5 DEF f
  <1>. QED
    BY <1>3, <1>5, <1>6, <1>8, <1>9

LEMMA SomeOfKind ==
  ASSUME NEW s, NEW K, NEW n \in Nat, NEW k \in 1..n, s[k].kind \in K
  PROVE  OfKinds(s, K, n) \in Nat \ {0}
  <1>1. k \in Nat \ {0} /\ k \in 0..n /\ k - 1 \in Nat
    OBVIOUS
  <1>2. OfKinds(s, K, k) = OfKinds(s, K, k - 1) + IF s[k].kind \in K THEN 1 ELSE 0
    BY <1>1, OfKindsNext
  <1>3. OfKinds(s, K, k - 1) \in 0..(k - 1)
    BY <1>1, OfKindsType
  <1>4. OfKinds(s, K, k) <= OfKinds(s, K, n)
    BY <1>1, OfKindsGrows
  <1>5. OfKinds(s, K, n) \in 0..n
    BY OfKindsType
  <1>. QED
    BY <1>2, <1>3, <1>4, <1>5

\* The parts before the first list keep their axes if there is no integer.
LEMMA FirstListIs ==
  ASSUME NEW parts, Listed(parts), \A k \in 1..Len(parts) : BoundPart(parts[k]) /\ parts[k].kind # "intp",
         \E k \in 1..Len(parts) : parts[k].kind = "list", Cardinality(KeptParts(parts)) \in Nat
  PROVE  LET lists == Ascending({k \in DOMAIN parts : parts[k].kind = "list"})
         IN  1 \in DOMAIN lists /\ lists[1] \in Nat \ {0} /\ lists[1] - 1 <= Cardinality(KeptParts(parts))
  <1>. DEFINE n == Len(parts)
              S == {k \in DOMAIN parts : parts[k].kind = "list"}
              lists == Ascending(S)
              c == Cardinality(S)
              first == lists[1]
              T == KeptParts(parts)
  <1>1. n \in Nat /\ DOMAIN parts = 1..n
    BY DEF Listed
  <1>2. S \in SUBSET (1..n) /\ S # {}
    BY <1>1
  <1>3. c \in Nat /\ lists \in [1..c -> S] /\ (\A i, j \in 1..c : i < j => lists[i] < lists[j])
        /\ \A p \in S : \E i \in 1..c : lists[i] = p
    <2>. HIDE DEF S
    <2>1. Enumerates(lists, c, S) /\ c \in Nat
      BY <1>1, <1>2, AscendingOf
    <2>. QED
      BY <2>1 DEF Enumerates
  <1>. HIDE DEF S, lists, c
  <1>4. 1 \in 1..c /\ DOMAIN lists = 1..c
    <2>1. PICK p \in S : TRUE
      BY <1>2
    <2>2. PICK i \in 1..c : lists[i] = p
      BY <1>3, <2>1
    <2>. QED
      BY <1>3, <2>2
  <1>5. first \in S /\ first \in 1..n
    BY <1>2, <1>3, <1>4
  <1>6. ASSUME NEW k \in 1..(first - 1)
        PROVE  k \in T
    <2>1. k \in 1..n /\ k < first
      BY <1>1, <1>5
    <2>2. k \notin S
      <3>1. SUFFICES ASSUME k \in S
                     PROVE  FALSE
        OBVIOUS
      <3>2. PICK i \in 1..c : lists[i] = k
        BY <1>3, <3>1
      <3>3. i = 1 \/ 1 < i
        BY <1>3, <3>2
      <3>4. i = 1 \/ first < k
        BY <1>3, <1>4, <3>2, <3>3
      <3>. QED
        BY <1>5, <2>1, <3>2, <3>4
    <2>3. parts[k].kind \in {"slice", "newaxis"}
      BY <1>1, <2>1, <2>2 DEF BoundPart, S
    <2>. QED
      BY <1>1, <2>1, <2>3 DEF KeptParts
  <1>7. T \in SUBSET (1..n)
    BY <1>1 DEF KeptParts
  <1>. HIDE DEF T, first, n
  <1>8. first - 1 <= Cardinality(T)
    <2>1. 1 \in Int /\ n \in Int /\ first - 1 \in Int /\ first \in Nat \ {0} /\ first - 1 \in Nat
      BY <1>1, <1>5
    <2>2. IsFiniteSet(1..n)
      BY <2>1, FS_Interval
    <2>3. IsFiniteSet(T)
      BY <1>7, <2>2, FS_Subset
    <2>. DEFINE R == 1..(first - 1)
                f == first - 1
    <2>4. R \in SUBSET T
      BY <1>6
    <2>5. Cardinality(R) = f
      <3>1. R = 1..f /\ f \in Nat
        BY <2>1
      <3>. HIDE DEF R, f
      <3>2. Cardinality(1..f) = IF 1 > f THEN 0 ELSE f - 1 + 1
        BY <2>1, <3>1, FS_Interval
      <3>. QED
        BY <3>1, <3>2
    <2>. HIDE DEF R
    <2>6. Cardinality(R) <= Cardinality(T)
      BY <2>3, <2>4, FS_Subset
    <2>. QED
      BY <2>5, <2>6
  <1>9. first \in Nat \ {0}
    BY <1>1, <1>5
  <1>. QED
    BY <1>4, <1>8, <1>9 DEF T, first, lists, S

Rotated(n1, n2, i) ==
  CASE i \in 1..(n1 + n2 - n1) -> n1 + i
    [] i \in (n1 + n2 - n1 + 1)..(n1 + n2) -> i - (n1 + n2 - n1)
    [] OTHER -> i

LEMMA RotatedInside ==
  ASSUME NEW N \in Nat, NEW n1 \in Nat, NEW n2 \in Nat, n1 + n2 <= N, NEW i \in 1..N
  PROVE  Rotated(n1, n2, i) \in 1..N
  <1>1. CASE i <= n2
    BY <1>1 DEF Rotated
  <1>2. CASE n2 < i /\ i <= n1 + n2
    BY <1>2 DEF Rotated
  <1>3. CASE n1 + n2 < i
    BY <1>3 DEF Rotated
  <1>. QED
    BY <1>1, <1>2, <1>3

LEMMA PermutationIs ==
  ASSUME NEW mit, mit.dims \in Seq(Nat), NEW n1 \in Nat, n1 = Len(mit.iters[1].dims_m1),
         NEW n2 \in Nat, n2 = mit.iteraxes[1] - 1, n1 + n2 <= Len(mit.dims)
  PROVE  SwapAxesPermutation(mit, TRUE) \in [1..Len(mit.dims) -> 1..Len(mit.dims)]
  <1>. DEFINE N == Len(mit.dims)
              f == [i \in 1..N |-> Rotated(n1, n2, i)]
  <1>1. N \in Nat /\ DOMAIN mit.dims = 1..N
    OBVIOUS
  <1>2. SwapAxesPermutation(mit, TRUE) = f
    BY <1>1 DEF SwapAxesPermutation, Rotated
  <1>3. \A i \in 1..N : Rotated(n1, n2, i) \in 1..N
    <2>1. n1 + n2 <= N
      OBVIOUS
    <2>. HIDE DEF N
    <2>. QED
      BY <1>1, <2>1, RotatedInside
  <1>4. f \in [1..N -> 1..N]
    BY <1>3
  <1>. QED
    BY <1>2, <1>4

\* A map iterator that is bound to an array with more axes than it has lists.
LEMMA BoundWithSubspace ==
  ASSUME NEW a, Axes(a), a.data \in Int, NEW e, Asked(e), NEW c \in Nat \ {0}, c = OfKinds(e, ListKinds, Len(e)),
         MapIterFrom(e) # None, \E k \in 1..Len(e) : e[k].kind = "list",
         \A k \in 1..Len(e) : e[k].kind \notin {"intp", "bool"},
         IndexBind(e, a.dims).ok, NEW g,
         NEW mit, mit = WithSubspace(MapIterFrom(e), a, IndexBind(e, a.dims).parts, g)
  PROVE  mit.dims \in Seq(Nat) /\ SwapAxesPermutation(mit, TRUE) \in [1..Len(mit.dims) -> 1..Len(mit.dims)]
  <1>. DEFINE m == MapIterFrom(e)
              dims == a.dims
              parts == IndexBind(e, dims).parts
              view == IndexToDimsEtc(a, parts)
              lists == Ascending({k \in DOMAIN parts : parts[k].kind = "list"})
              axes == [j \in DOMAIN m.iters |-> IF j \in DOMAIN lists THEN lists[j] ELSE g]
              kept == Cardinality(KeptParts(parts))
  <1>1. WellBound(e, dims, Len(e), parts)
    <2>1. dims \in Seq(Nat) /\ IndexBind(e, dims).ok
      BY DEF Axes
    <2>. HIDE DEF dims
    <2>. QED
      BY <2>1, IndexBound
  <1>. HIDE DEF parts
  <1>2. /\ Listed(parts) /\ (\A k \in 1..Len(parts) : BoundPart(parts[k]) /\ parts[k].kind # "intp")
        /\ Len(parts) - NewAxes(parts, Len(parts)) <= Len(a.dims)
        /\ \E k \in 1..Len(parts) : parts[k].kind = "list"
    BY <1>1 DEF WellBound
  <1>3. view.dims \in Seq(Nat) /\ kept \in Nat /\ kept <= Len(view.dims)
    BY <1>2, DimsEtcIs
  <1>4. 1 \in DOMAIN lists /\ lists[1] \in Nat \ {0} /\ lists[1] - 1 <= kept
    BY <1>2, <1>3, FirstListIs
  <1>5. /\ m = [parts |-> m.parts, items |-> m.items, iters |-> m.iters, dims |-> m.dims,
                iteraxes |-> m.iteraxes, bscoord |-> m.bscoord, consec |-> m.consec,
                subspace |-> None, index |-> m.index, dataptr |-> m.dataptr]
        /\ m.dims \in Seq(Nat) /\ DOMAIN m.iters = 1..c
        /\ Len(m.iters[1].dims_m1) = Len(m.dims)
    BY MapIterFromIs
  <1>6. mit = WithAxes(m, a, parts, view, axes, g)
    BY DEF WithSubspace, parts
  <1>. HIDE DEF m, view, lists, kept
  <1>7. 1 \in 1..c
    OBVIOUS
  <1>8. axes[1] = lists[1]
    BY <1>4, <1>5, <1>7
  <1>. HIDE DEF axes
  <1>9. mit.dims = m.dims \o view.dims /\ mit.iters = m.iters /\ mit.iteraxes = axes
    BY <1>5, <1>6 DEF WithAxes
  <1>. DEFINE n1 == Len(m.dims)
              n2 == lists[1] - 1
  <1>10. n1 \in Nat /\ n2 \in Nat /\ n2 <= Len(view.dims) /\ Len(view.dims) \in Nat
    BY <1>3, <1>4, <1>5
  <1>11. mit.dims \in Seq(Nat) /\ Len(mit.dims) = n1 + Len(view.dims)
    BY <1>3, <1>5, <1>9
  <1>12. n1 = Len(mit.iters[1].dims_m1) /\ n2 = mit.iteraxes[1] - 1
    BY <1>5, <1>8, <1>9
  <1>. HIDE DEF n1, n2
  <1>13. n1 + n2 <= Len(mit.dims)
    BY <1>10, <1>11
  <1>. QED
    BY <1>10, <1>11, <1>12, <1>13, PermutationIs

\* The axes of the copy that a map iterator makes can be put where they belong.
LEMMA MapItersAre ==
  ASSUME NEW a, Axes(a), a.data \in Int, NEW ix, IsIndex(ix, Nd(a)), Fancy(ix), NEW mit \in MapIters(a, ix)
  PROVE  /\ mit.dims \in Seq(Nat)
         /\ MustSwap(mit) => SwapAxesPermutation(mit, TRUE) \in [1..Len(mit.dims) -> 1..Len(mit.dims)]
  <1>. DEFINE e == IndexExpandBool(ix)
              m == MapIterFrom(e)
              c == OfKinds(e, ListKinds, Len(e))
              bound == IndexBind(e, a.dims)
  <1>1. PICK g \in Garbage : mit = MapIterBind(m, a, g) /\ mit # None /\ m # None
    BY DEF MapIters, MapIterNew, BoundMapIters
  <1>2. Len(ix) \in Nat /\ DOMAIN ix = 1..Len(ix) /\ \E k \in 1..Len(ix) : ix[k].kind \in {"list", "mask"}
    BY DEF IsIndex, Fancy
  <1>3. WellExpanded(ix, Len(ix), e)
    BY <1>2, ExpandedIs
  <1>. HIDE DEF e
  <1>4. /\ Asked(e) /\ Len(e) \in Nat /\ \E k \in 1..Len(e) : e[k].kind = "list"
        /\ (\E k \in 1..Len(e) : e[k].kind \in {"intp", "bool"}) => \E k \in 1..Len(ix) : ix[k].kind \in {"intp", "bool"}
        /\ (\A k \in 1..Len(ix) : ix[k].kind \in WithItems) => Len(ix) <= c
    BY <1>2, <1>3 DEF WellExpanded, Asked, Listed
  <1>5. c \in Nat \ {0}
    <2>1. PICK k \in 1..Len(e) : e[k].kind \in ListKinds
      BY <1>4 DEF ListKinds
    <2>. HIDE DEF c
    <2>. QED
      BY <1>4, <2>1, SomeOfKind DEF c
  <1>6. /\ m = [parts |-> m.parts, items |-> m.items, iters |-> m.iters, dims |-> m.dims,
                iteraxes |-> m.iteraxes, bscoord |-> m.bscoord, consec |-> m.consec,
                subspace |-> None, index |-> m.index, dataptr |-> m.dataptr]
        /\ m.parts = e /\ m.dims \in Seq(Nat) /\ Len(m.iters) = c
    BY <1>1, <1>4, <1>5, MapIterFromIs
  <1>7. Len(a.dims) \in Nat
    BY DEF Axes
  <1>. HIDE DEF c
  <1>8. \A x : Checked(x, a, g) \in {x, None}
    BY DEF Checked
  <1>9. CASE Len(a.dims) <= Len(m.iters)
    <2>. DEFINE x == [m EXCEPT !.iteraxes = [j \in DOMAIN m.iters |-> j]]
    <2>1. mit = Checked(x, a, g)
      <3>. HIDE DEF m
      <3>. QED
        BY <1>1, <1>5, <1>6, <1>7, <1>9 DEF MapIterBind
    <2>2. mit = x
      BY <1>1, <1>8, <2>1
    <2>3. mit.dims = m.dims /\ mit.subspace = None
      <3>. HIDE DEF m
      <3>. QED
        BY <1>6, <2>2
    <2>. QED
      BY <1>6, <2>3 DEF MustSwap
  <1>10. CASE ~(Len(a.dims) <= Len(m.iters))
    <2>1. mit = BindSubspace(m, a, bound, g)
      <3>1. ~(Len(a.dims) < Len(m.iters)) /\ Len(a.dims) # Len(m.iters)
        BY <1>5, <1>6, <1>7, <1>10
      <3>. HIDE DEF m, bound
      <3>2. MapIterBind(m, a, g) = BindSubspace(m, a, IndexBind(m.parts, a.dims), g)
        BY <3>1 DEF MapIterBind
      <3>. QED
        BY <1>1, <1>6, <3>2 DEF bound
    <2>2. bound.ok /\ mit = WithSubspace(m, a, bound.parts, g)
      <3>. HIDE DEF m, bound
      <3>. QED
        BY <1>1, <1>8, <2>1 DEF BindSubspace
    <2>3. \A k \in 1..Len(e) : e[k].kind \notin {"intp", "bool"}
      <3>. SUFFICES ASSUME \E k \in 1..Len(ix) : ix[k].kind \in {"intp", "bool"}
                    PROVE  FALSE
        BY <1>4
      <3>1. Len(ix) = Nd(a) /\ \A k \in 1..Len(ix) : ix[k].kind \in WithItems
        BY <1>2 DEF IsIndex, WithItems
      <3>2. Len(a.dims) <= c
        BY <1>4, <3>1 DEF Nd
      <3>. QED
        BY <1>6, <1>10, <3>2
    <2>4. mit.dims \in Seq(Nat) /\ SwapAxesPermutation(mit, TRUE) \in [1..Len(mit.dims) -> 1..Len(mit.dims)]
      <3>1. c = OfKinds(e, ListKinds, Len(e))
        BY DEF c
      <3>. QED
        BY <1>1, <1>4, <1>5, <2>2, <2>3, <3>1, BoundWithSubspace
    <2>. QED
      BY <2>4
  <1>. QED
    BY <1>9, <1>10

LEMMA SubscriptMapKeeps ==
  ASSUME IInv, NEW i \in 1..Len(arrays), NEW ix, IsIndex(ix, Nd(arrays[i])), SubscriptMap(i, ix)
  PROVE  IInv'
  <1>. DEFINE a == arrays[i]
              order == IF ISFORTRAN(a) THEN "F" ELSE "C"
              at(mit) == MapPointers(mit, a)
              walk(mit) == [dims |-> mit.dims, items |-> [n \in DOMAIN at(mit) |-> ItemIn(memory[a.block], at(mit)[n])]]
              copy(mit) == Allocated(mit.dims, order, Len(memory) + 1)
              perm(mit) == SwapAxesPermutation(mit, TRUE)
              view(mit) == UpdateFlags([Permuted(copy(mit), perm(mit)) EXCEPT
                                          !.base = Len(arrays) + 1, !.owns = FALSE])
              s == Promised(shown[i], ix)
  <1>1. /\ Step /\ Fancy(ix)
        /\ \E mit \in MapIters(a, ix) :
             /\ memory' = Append(memory, InOrder(walk(mit), order))
             /\ IF MustSwap(mit) THEN /\ arrays' = arrays \o <<copy(mit), view(mit)>>
                                      /\ shown' = shown \o <<walk(mit), s>>
                                 ELSE Add(copy(mit), s)
    BY Zenon DEF SubscriptMap
  <1>2. PICK mit \in MapIters(a, ix) :
          /\ memory' = Append(memory, InOrder(walk(mit), order))
          /\ IF MustSwap(mit) THEN /\ arrays' = arrays \o <<copy(mit), view(mit)>>
                                   /\ shown' = shown \o <<walk(mit), s>>
                              ELSE Add(copy(mit), s)
    BY <1>1
  <1>3. Axes(a) /\ a.data \in Int /\ Len(arrays) \in Nat /\ Len(memory) \in Nat
    BY Ours
  <1>4. /\ mit.dims \in Seq(Nat)
        /\ MustSwap(mit) => SwapAxesPermutation(mit, TRUE) \in [1..Len(mit.dims) -> 1..Len(mit.dims)]
    <2>. HIDE DEF a
    <2>. QED
      BY <1>1, <1>3, MapItersAre DEF a
  <1>5. order \in {"C", "F"}
    OBVIOUS
  <1>. DEFINE block == InOrder(walk(mit), order)
              dims == mit.dims
              c == Allocated(dims, order, Len(memory) + 1)
              p == perm(mit)
              vdims == [k \in DOMAIN p |-> c.dims[p[k]]]
              strides == [k \in DOMAIN p |-> c.strides[p[k]]]
  <1>6. memory' = Append(memory, block)
    BY <1>2
  <1>. HIDE DEF block, order, walk, perm
  <1>7. CASE ~MustSwap(mit)
    <2>1. Add(Allocated(dims, order, Len(memory) + 1), s)
      BY <1>2, <1>7
    <2>. HIDE DEF dims, s
    <2>. QED
      BY <1>1, <1>4, <1>5, <1>6, <2>1, ThenAllocated DEF dims
  <1>8. CASE MustSwap(mit)
    <2>1. p \in [1..Len(dims) -> 1..Len(dims)] /\ Len(dims) \in Nat
      <3>1. p = SwapAxesPermutation(mit, TRUE)
        BY DEF perm
      <3>2. SwapAxesPermutation(mit, TRUE) \in [1..Len(dims) -> 1..Len(dims)]
        BY <1>4, <1>8
      <3>3. Len(dims) \in Nat
        BY <1>4
      <3>. QED
        BY <3>1, <3>2, <3>3
    <2>2. c.dims = dims /\ c.strides = Filled(dims, order)
      BY DEF Allocated
    <2>3. Filled(dims, order) \in Seq(Int) /\ Len(Filled(dims, order)) = Len(dims)
      <3>. HIDE DEF dims
      <3>. QED
        BY <1>4, <1>5, FilledType DEF dims
    <2>4. Permuted(c, p) = [c EXCEPT !.dims = vdims, !.strides = strides]
      BY DEF Permuted
    <2>5. arrays' = arrays \o <<c, UpdateFlags([Permuted(c, p) EXCEPT !.base = Len(arrays) + 1, !.owns = FALSE])>>
      BY <1>2, <1>8
    <2>. HIDE DEF p
    <2>6. [Permuted(c, p) EXCEPT !.base = Len(arrays) + 1, !.owns = FALSE]
            = [c EXCEPT !.dims = vdims, !.strides = strides, !.base = Len(arrays) + 1, !.owns = FALSE]
      BY <2>4 DEF Allocated
    <2>7. vdims \in [1..Len(dims) -> Nat] /\ strides \in [1..Len(dims) -> Int]
      <3>1. DOMAIN p = 1..Len(dims) /\ \A k \in 1..Len(dims) : p[k] \in 1..Len(dims)
        BY <2>1
      <3>2. \A j \in 1..Len(dims) : c.dims[j] \in Nat /\ c.strides[j] \in Int
        BY SMTT(30), <1>4, <2>2, <2>3
      <3>. HIDE DEF c, dims
      <3>. QED
        BY <3>1, <3>2
    <2>. HIDE DEF vdims, strides, dims
    <2>8. /\ vdims \in Seq(Nat) /\ Len(vdims) = Len(dims)
          /\ strides \in Seq(Int) /\ Len(strides) = Len(dims)
      BY <2>1, <2>7, NatsListed, IntsListed
    <2>9. dims \in Seq(Nat)
      BY <1>4 DEF dims
    <2>10. arrays' = arrays \o <<c, UpdateFlags([c EXCEPT !.dims = vdims, !.strides = strides,
                                                   !.base = Len(arrays) + 1, !.owns = FALSE])>>
      BY <2>5, <2>6
    <2>11. c = Allocated(dims, order, Len(memory) + 1) /\ Len(strides) = Len(vdims)
      BY <2>8
    <2>. HIDE DEF c
    <2>. QED
      BY <1>1, <1>5, <1>6, <2>8, <2>9, <2>10, <2>11, ThenCopied
  <1>. QED
    BY <1>7, <1>8

LEMMA ListedExcept ==
  ASSUME NEW m, Listed(m), NEW b \in 1..Len(m), NEW x
  PROVE  Listed([m EXCEPT ![b] = x]) /\ Len([m EXCEPT ![b] = x]) = Len(m)
  <1>. DEFINE n == Len(m)
              w == [m EXCEPT ![b] = x]
  <1>1. n \in Nat /\ DOMAIN m = 1..n
    BY DEF Listed
  <1>2. w = [k \in 1..n |-> w[k]]
    BY <1>1
  <1>. HIDE DEF w, n
  <1>3. Listed(w) /\ Len(w) = n
    BY <1>1, <1>2, FunctionListed
  <1>. QED
    BY <1>3 DEF w, n

LEMMA SubscriptAssignKeeps ==
  ASSUME IInv, NEW i \in 1..Len(arrays), NEW ix, NEW value, SubscriptAssign(i, ix, value)
  PROVE  IInv'
  <1>. DEFINE b == arrays[i].block
  <1>1. Step /\ UNCHANGED arrays /\ \E x : memory' = [memory EXCEPT ![b] = x]
    BY Zenon DEF SubscriptAssign
  <1>2. b \in 1..Len(memory)
    BY Ours
  <1>3. Listed(memory) /\ AllSound(arrays, Len(memory))
    BY DEF IInv
  <1>. HIDE DEF b
  <1>4. Listed(memory') /\ Len(memory') = Len(memory)
    <2>1. PICK x : memory' = [memory EXCEPT ![b] = x]
      BY <1>1
    <2>2. Listed([memory EXCEPT ![b] = x]) /\ Len([memory EXCEPT ![b] = x]) = Len(memory)
      BY <1>2, <1>3, ListedExcept
    <2>. QED
      BY <2>1, <2>2
  <1>5. AllSound(arrays', Len(memory'))
    BY <1>1, <1>3, <1>4
  <1>. QED
    BY <1>1, <1>4, <1>5, ThenInv

LEMMA InitInv ==
  ASSUME Init
  PROVE  IInv
  <1>1. PICK s \in Starts :
          LET first == Allocated(<<s.size>>, "C", 1)
          IN  /\ memory = <<[k \in 1..s.size |-> k]>>
              /\ arrays = <<first, UpdateFlags([first EXCEPT !.dims = s.view.dims, !.strides = s.view.strides,
                                                  !.data = s.view.data, !.base = 1, !.owns = FALSE])>>
    BY DEF Init
  <1>. DEFINE v == s.view
              dims == <<s.size>>
              block == [k \in 1..s.size |-> k]
              first == Allocated(dims, "C", 1)
              b == [first EXCEPT !.dims = v.dims, !.strides = v.strides, !.data = v.data, !.base = 1, !.owns = FALSE]
              view == UpdateFlags(b)
  <1>2. s.size \in Nat /\ v.dims \in Seq(Nat) /\ v.strides \in Seq(Int) /\ Len(v.dims) = Len(v.strides) /\ v.data \in Int
    BY StartsAssumption DEF IsArray
  <1>3. memory = <<block>> /\ arrays = <<first, view>>
    BY <1>1
  <1>4. Listed(memory) /\ Len(memory) = 1
    <2>. HIDE DEF block
    <2>. QED
      BY <1>3, OneListed
  <1>5. dims \in Seq(Nat) /\ Len(dims) = 1
    BY <1>2
  <1>. DEFINE u == v.dims
              t == v.strides
              d == v.data
  <1>6. u \in Seq(Nat) /\ t \in Seq(Int) /\ Len(u) = Len(t) /\ d \in Int
    BY <1>2
  <1>7. Filled(dims, "C") \in Seq(Int) /\ Len(Filled(dims, "C")) = Len(dims)
    <2>. HIDE DEF dims
    <2>. QED
      BY <1>5, FilledType
  <1>8. b \in Arrays /\ Axes(b) /\ b.base = 1 /\ b.block = 1
    <2>1. first \in Arrays /\ first.block = 1
      <3>1. 1 \in Nat \ {0} /\ 1 \in Nat /\ 1 \in 1..1
        OBVIOUS
      <3>2. first.block = 1
        BY DEF Allocated
      <3>. HIDE DEF dims
      <3>3. Sound(first, 1, 1)
        BY <1>5, <3>1, AllocatedSound
      <3>. QED
        BY <3>2, <3>3 DEF Sound
    <2>2. b = [first EXCEPT !.dims = u, !.strides = t, !.data = d, !.base = 1, !.owns = FALSE]
      OBVIOUS
    <2>. HIDE DEF first, b, u, t, d
    <2>. QED
      BY <1>6, <2>1, <2>2 DEF Arrays, Axes
  <1>9. Sound(first, 1, 1)
    <2>1. 1 \in Nat \ {0} /\ 1 \in Nat /\ 1 \in 1..1
      OBVIOUS
    <2>. HIDE DEF dims
    <2>. QED
      BY <1>5, <2>1, AllocatedSound
  <1>. HIDE DEF first, b
  <1>10. view \in Arrays /\ Axes(view) /\ FlagsKnown(view) /\ view.block = 1 /\ view.base = 1
    BY <1>8, Flagged
  <1>. HIDE DEF view
  <1>11. AllSound(<<>>, 0) /\ Len(<<>>) + 1 = 1
    <2>. DEFINE none == <<>>
    <2>1. none \in Seq({}) /\ Len(none) = 0 /\ \A k \in 1..0 : FALSE
      OBVIOUS
    <2>. HIDE DEF none
    <2>2. Listed(none)
      BY <2>1, SeqListed
    <2>3. AllSound(none, 0) /\ Len(none) + 1 = 1
      BY <2>1, <2>2 DEF AllSound
    <2>. QED
      BY <2>3 DEF none
  <1>12. AllSound(<<>> \o <<first, view>>, 1)
    <2>. DEFINE none == <<>>
    <2>1. AllSound(none, 0) /\ Sound(first, Len(none) + 1, 1) /\ view.base = Len(none) + 1 /\ view.block \in 1..1
      BY <1>9, <1>10, <1>11
    <2>2. 0 \in Nat /\ 1 \in Nat /\ 0 <= 1
      OBVIOUS
    <2>. HIDE DEF none
    <2>3. AllSound(none \o <<first, view>>, 1)
      BY <1>10, <2>1, <2>2, CopySound
    <2>. QED
      BY <2>3 DEF none
  <1>13. AllSound(arrays, Len(memory))
    BY <1>3, <1>4, <1>12
  <1>14. steps \in 0..MaxSteps
    BY SizesAssumption DEF Init
  <1>. QED
    BY <1>4, <1>13, <1>14 DEF IInv

LEMMA NextKeeps ==
  ASSUME IInv, Next
  PROVE  IInv'
  <1>1. DOMAIN arrays = 1..Len(arrays)
    BY DEF IInv, AllSound, Listed
  <1>2. PICK i \in 1..Len(arrays) :
          \/ \E dims \in Shapes, o \in Orders : Newshape(i, dims, o)
          \/ Squeeze(i)
          \/ \E axes \in [1..Nd(arrays[i]) -> 1..Nd(arrays[i])] : IsInjective(axes) /\ Transpose(i, axes)
          \/ \E a1, a2 \in 1..3 : SwapAxes(i, a1, a2)
          \/ \E o \in Orders : Flatten(i, o) \/ Ravel(i, o)
          \/ \E dims \in Shapes : SetShape(i, dims) \/ Resize(i, dims)
          \/ \E strides \in StridesTried : SetStrides(i, strides)
          \/ \E ix \in At(Indexes, i) : SubscriptSimple(i, ix) \/ SubscriptFlat(i, ix) \/ SubscriptMap(i, ix)
          \/ \E ix \in At(AssignIndexes, i), value \in Values : SubscriptAssign(i, ix, value)
    BY Zenon, <1>1 DEF Next
  <1>3. ASSUME NEW dims \in Shapes, NEW o \in Orders, Newshape(i, dims, o)
        PROVE  IInv'
    <2>1. dims \in Seq(Int)
      BY ShapesAssumption
    <2>. QED
      BY <1>3, <2>1, NewshapeKeeps
  <1>4. ASSUME NEW axes \in [1..Nd(arrays[i]) -> 1..Nd(arrays[i])], Transpose(i, axes)
        PROVE  IInv'
    BY <1>4, TransposeKeeps
  <1>5. ASSUME NEW a1, NEW a2, SwapAxes(i, a1, a2)
        PROVE  IInv'
    BY <1>5, SwapAxesKeeps
  <1>6. ASSUME NEW o \in Orders, Flatten(i, o) \/ Ravel(i, o)
        PROVE  IInv'
    BY <1>6, FlattenKeeps, RavelKeeps
  <1>7. ASSUME NEW dims \in Shapes, SetShape(i, dims) \/ Resize(i, dims)
        PROVE  IInv'
    <2>1. dims \in Seq(Int)
      BY ShapesAssumption
    <2>. QED
      BY <1>7, <2>1, SetShapeKeeps, ResizeKeeps
  <1>8. ASSUME NEW strides \in StridesTried, SetStrides(i, strides)
        PROVE  IInv'
    <2>1. strides \in Seq(Int)
      BY StridesAssumption
    <2>. QED
      BY <1>8, <2>1, SetStridesKeeps
  <1>9. ASSUME NEW ix \in At(Indexes, i), SubscriptSimple(i, ix) \/ SubscriptFlat(i, ix) \/ SubscriptMap(i, ix)
        PROVE  IInv'
    <2>1. IsIndex(ix, Nd(arrays[i]))
      BY IndexesAssumption DEF At
    <2>2. CASE SubscriptSimple(i, ix)
      BY <2>1, <2>2, SubscriptSimpleKeeps
    <2>3. CASE SubscriptFlat(i, ix)
      BY <2>1, <2>3, SubscriptFlatKeeps
    <2>4. CASE SubscriptMap(i, ix)
      BY <2>1, <2>4, SubscriptMapKeeps
    <2>. QED
      BY <1>9, <2>2, <2>3, <2>4
  <1>10. ASSUME NEW ix, NEW value, SubscriptAssign(i, ix, value)
         PROVE  IInv'
    BY <1>10, SubscriptAssignKeeps
  <1>11. ASSUME Squeeze(i)
         PROVE  IInv'
    BY <1>11, SqueezeKeeps
  <1>. QED
    BY Zenon, <1>2, <1>3, <1>4, <1>5, <1>6, <1>7, <1>8, <1>9, <1>10, <1>11

LEMMA StutterKeeps ==
  ASSUME IInv, UNCHANGED vars
  PROVE  IInv'
  BY DEF IInv, AllSound, Sound, vars

\* IInv holds in every state of every run.
LEMMA InvHolds == Spec => []IInv
  <1>1. Init => IInv
    BY InitInv
  <1>2. IInv /\ [Next]_vars => IInv'
    BY NextKeeps, StutterKeeps
  <1>. QED
    BY <1>1, <1>2, PTL DEF Spec

LEMMA InvTypes ==
  ASSUME IInv
  PROVE  TypeOK
  <1>1. DOMAIN arrays = 1..Len(arrays) /\ DOMAIN memory = 1..Len(memory)
    BY DEF IInv, AllSound, Listed
  <1>2. steps \in 0..MaxSteps
    BY DEF IInv
  <1>3. ASSUME NEW i \in 1..Len(arrays)
        PROVE  /\ arrays[i].base < i
               /\ arrays[i].block \in 1..Len(memory)
               /\ Len(arrays[i].strides) = Nd(arrays[i])
               /\ \A k \in 1..Nd(arrays[i]) : arrays[i].dims[k] >= 0
    <2>1. /\ arrays[i].base < i /\ arrays[i].block \in 1..Len(memory)
          /\ arrays[i].dims \in Seq(Nat) /\ Len(arrays[i].strides) = Len(arrays[i].dims)
      BY Ours
    <2>. DEFINE dims == arrays[i].dims
    <2>2. dims \in Seq(Nat)
      BY <2>1
    <2>. HIDE DEF dims
    <2>3. \A k \in 1..Len(dims) : dims[k] >= 0
      <3>1. \A k \in 1..Len(dims) : dims[k] \in Nat
        BY <2>2
      <3>. QED
        BY <3>1
    <2>. QED
      BY <2>1, <2>3 DEF Nd, dims
  <1>. QED
    BY <1>1, <1>2, <1>3 DEF TypeOK

\* Whatever is done to arrays of whatever shapes, an array has a stride for
\* each of its axes and lengths that are not negative (_fix_unknown_dimension,
\* parse_subindex and the lists of an index never leave one), lies in a block
\* that there is, and has a base that is older than itself, so that no chain
\* of bases is a ring.
THEOREM ArraysWellFormed == Spec => []TypeOK
  <1>1. IInv => TypeOK
    BY InvTypes
  <1>. QED
    BY <1>1, InvHolds, PTL

LEMMA InvFlags ==
  ASSUME IInv
  PROVE  FlagsTrue
  <1>1. DOMAIN arrays = 1..Len(arrays)
    BY DEF IInv, AllSound, Listed
  <1>2. ASSUME NEW i \in 1..Len(arrays)
        PROVE  FlagsTell(arrays[i])
    <2>1. arrays[i] \in Arrays /\ Axes(arrays[i]) /\ FlagsKnown(arrays[i])
      BY Ours
    <2>. QED
      BY <2>1, FlagsAreTrue
  <1>. QED
    BY Zenon, <1>1, <1>2 DEF FlagsTrue, FlagsTell

\* The flags NpyArray_UpdateFlags leaves in an array are true at all times:
\* with CONTIGUOUS its elements in C order lie one after the other, with
\* FORTRAN those in Fortran order; whoever changes a shape or strides, in
\* place or in a view, has also brought the flags up to date.
THEOREM FlagsStayTrue == Spec => []FlagsTrue
  <1>1. IInv => FlagsTrue
    BY InvFlags
  <1>. QED
    BY <1>1, InvHolds, PTL

LEMMA InvCopies ==
  ASSUME IInv
  PROVE  CopiesOnlyIfNeeded
  <1>1. DOMAIN arrays = 1..Len(arrays)
    BY DEF IInv, AllSound, Listed
  <1>2. ASSUME NEW i \in 1..Len(arrays), NEW dims \in Shapes, NEW o \in {"C", "F"},
               Size(arrays[i]) # 0, Unknown(dims) = {}, Product(dims) = Size(arrays[i]), Copies(arrays[i], dims, o)
        PROVE  ~Viewable(arrays[i], dims, o)
    <2>1. arrays[i] \in Arrays /\ Axes(arrays[i])
      BY Ours
    <2>2. dims \in Seq(Int)
      BY ShapesAssumption
    <2>. QED
      BY <1>2, <2>1, <2>2, CopyNeeded
  <1>. QED
    BY Zenon, <1>1, <1>2 DEF CopiesOnlyIfNeeded

\* _attempt_nocopy_reshape and _check_ones miss no view: when NpyArray_Newshape
\* copies an array, no strides whatsoever show its elements, in the order asked
\* for, in the new shape.
THEOREM CopiesNeeded == Spec => []CopiesOnlyIfNeeded
  <1>1. IInv => CopiesOnlyIfNeeded
    BY InvCopies
  <1>. QED
    BY <1>1, InvHolds, PTL
=============================================================================
