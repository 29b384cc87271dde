--------------------------- MODULE Strided_proofs ---------------------------
(***************************************************************************)
(* Facts about the operators of Strided and Selections: sums and products  *)
(* along the axes, the position of an element in C and in Fortran order,   *)
(* the moves of a strided copy, and the positions of slices and masks.     *)
(***************************************************************************)
EXTENDS Selections, FiniteSetTheorems, WellFoundedInduction, TLAPS

-----------------------------------------------------------------------------
(* Induction over numbers and over finite sets, for the folds.             *)

\* A set of naturals has a least element.
LEMMA LeastOf ==
  ASSUME NEW S \in SUBSET Nat, S # {}
  PROVE  \E n \in S : \A m \in S : n <= m
  <1>1. PICK n \in S : \A m \in S : ~(<<m, n>> \in OpToRel(<, Nat))
    BY NatLessThanWellFounded, WFMin, Zenon
  <1>2. ASSUME NEW m \in S, ~(n <= m)  PROVE FALSE
    <2>1. m \in Nat /\ n \in Nat /\ m < n
      BY <1>2
    <2>2. <<m, n>> \in OpToRel(<, Nat)
      BY <2>1 DEF OpToRel
    <2>. QED
      BY <2>2, <1>1
  <1>. QED
    BY <1>2

\* A number from which a fact goes down to 0: the way along the axes from
\* the last one to the first.
LEMMA DownFrom ==
  ASSUME NEW n \in Nat, NEW G \in SUBSET (0..n), n \in G,
         \A i \in 1..n : i \in G => i - 1 \in G
  PROVE  G = 0..n
  <1>. SUFFICES ASSUME G # 0..n  PROVE FALSE
    OBVIOUS
  <1>. DEFINE Far == {d \in 0..n : (n - d) \notin G}
  <1>1. Far # {}
    <2>1. PICK i \in 0..n : i \notin G
      OBVIOUS
    <2>2. n - (n - i) = i /\ n - i \in 0..n
      OBVIOUS
    <2>3. n - i \in Far
      BY <2>1, <2>2
    <2>. QED
      BY <2>3
  <1>2. PICK d \in Far : \A m \in Far : d <= m
    <2>1. Far \in SUBSET Nat
      OBVIOUS
    <2>. HIDE DEF Far
    <2>. QED
      BY <1>1, <2>1, LeastOf
  <1>3. d \in 0..n /\ (n - d) \notin G /\ d # 0
    BY <1>2
  <1>4. d - 1 \in 0..n /\ d - 1 \notin Far
    <2>1. d - 1 \in 0..n /\ ~(d <= d - 1)
      BY <1>3
    <2>. HIDE DEF Far
    <2>. QED
      BY <2>1, <1>2
  <1>. DEFINE e == n - (d - 1)
  <1>5. e \in G /\ e \in 1..n /\ e - 1 = n - d
    BY <1>3, <1>4
  <1>. HIDE DEF e
  <1>6. e - 1 \in G
    BY <1>5
  <1>. QED
    BY <1>3, <1>5, <1>6

\* A subset that breaks a rule has a smallest one of its kind.
LEMMA SmallestOf ==
  ASSUME NEW D, IsFiniteSet(D), NEW Bad \in SUBSET (SUBSET D), Bad # {}
  PROVE  \E s \in Bad : \A t \in Bad : Cardinality(s) <= Cardinality(t)
  <1>. DEFINE Sizes == {Cardinality(s) : s \in Bad}
  <1>1. \A s \in Bad : Cardinality(s) \in Nat
    BY FS_Subset, FS_CardinalityType
  <1>2. Sizes \in SUBSET Nat /\ Sizes # {}
    BY <1>1
  <1>3. PICK n \in Sizes : \A m \in Sizes : n <= m
    BY <1>2, LeastOf
  <1>4. PICK s \in Bad : n = Cardinality(s)
    BY <1>3
  <1>. QED
    BY <1>3, <1>4

LEMMA Smaller ==
  ASSUME NEW D, IsFiniteSet(D), NEW s \in SUBSET D, NEW x \in s
  PROVE  /\ s \ {x} \in SUBSET D /\ Cardinality(s) \in Nat
         /\ Cardinality(s \ {x}) = Cardinality(s) - 1
  BY FS_Subset, FS_CardinalityType, FS_RemoveElement

Chooses(choice, D) == \A s \in SUBSET D : s # {} => choice[s] \in s

Folds(it, D, base, choice, G) ==
  \A s \in SUBSET D : it[s] = IF s = {} THEN base ELSE G[<<s, it[s \ {choice[s]}]>>]

\* The recursion over the subsets of a finite set, which takes out one element
\* after the other, has a solution.
LEMMA FoldExists ==
  ASSUME NEW D, IsFiniteSet(D), NEW V, NEW base \in V,
         NEW choice, Chooses(choice, D), NEW G \in [(SUBSET D) \X V -> V]
  PROVE  \E it \in [SUBSET D -> V] : Folds(it, D, base, choice, G)
  <1>. DEFINE Right(it, s) == it[s] = IF s = {} THEN base ELSE G[<<s, it[s \ {choice[s]}]>>]
              Upto == {n \in Nat : \E it \in [SUBSET D -> V] :
                         \A s \in SUBSET D : Cardinality(s) <= n => Right(it, s)}
  <1>1. \A s \in SUBSET D : Cardinality(s) \in Nat /\ (s # {} => Cardinality(s) > 0)
    BY FS_Subset, FS_CardinalityType, FS_EmptySet
  <1>2. 0 \in Upto
    <2>. DEFINE it0 == [s \in SUBSET D |-> base]
    <2>1. it0 \in [SUBSET D -> V]
      OBVIOUS
    <2>2. ASSUME NEW s \in SUBSET D, Cardinality(s) <= 0  PROVE Right(it0, s)
      <3>1. s = {}
        BY <1>1, <2>2
      <3>. QED
        BY <3>1
    <2>. QED
      BY <2>1, <2>2
  <1>3. ASSUME NEW n \in Upto  PROVE n + 1 \in Upto
    <2>1. PICK it \in [SUBSET D -> V] :
            \A s \in SUBSET D : Cardinality(s) <= n => Right(it, s)
      BY <1>3
    <2>. DEFINE nx == [s \in SUBSET D |->
                         IF Cardinality(s) <= n THEN it[s] ELSE G[<<s, it[s \ {choice[s]}]>>]]
    <2>2. \A s \in SUBSET D : G[<<s, it[s \ {choice[s]}]>>] \in V
      BY <2>1
    <2>3. nx \in [SUBSET D -> V]
      BY <2>1, <2>2
    <2>4. ASSUME NEW s \in SUBSET D, Cardinality(s) <= n + 1  PROVE Right(nx, s)
      <3>1. CASE s = {}
        <4>1. Cardinality(s) <= n
          BY <3>1, <1>3, FS_EmptySet
        <4>. QED
          BY <4>1, <2>1, <3>1
      <3>2. CASE s # {}
        <4>. DEFINE r == s \ {choice[s]}
        <4>1. r \in SUBSET D /\ Cardinality(s) \in Nat /\ Cardinality(r) = Cardinality(s) - 1
          BY <3>2, Smaller DEF Chooses
        <4>2. Cardinality(r) <= n
          BY <4>1, <2>4, <1>3
        <4>3. nx[r] = it[r]
          BY <4>1, <4>2
        <4>4. nx[s] = G[<<s, it[r]>>]
          <5>1. CASE Cardinality(s) <= n
            <6>1. it[s] = G[<<s, it[r]>>]
              BY <5>1, <2>1, <3>2
            <6>. QED
              BY <6>1, <5>1
          <5>2. CASE ~(Cardinality(s) <= n)
            BY <5>2
          <5>. QED
            BY <5>1, <5>2
        <4>. QED
          BY <3>2, <4>3, <4>4
      <3>. QED
        BY <3>1, <3>2
    <2>. HIDE DEF nx, Right
    <2>. QED
      BY <2>3, <2>4, <1>3
  <1>4. Upto = Nat
    <2>. DEFINE Out == Nat \ Upto
    <2>1. SUFFICES ASSUME Out # {} PROVE FALSE
      OBVIOUS
    <2>. HIDE DEF Upto
    <2>2. PICK n \in Out : \A m \in Out : n <= m
      BY <2>1, LeastOf
    <2>3. n \in Nat /\ n # 0 /\ n - 1 \notin Out
      BY <2>2, <1>2
    <2>4. n - 1 \in Upto
      BY <2>3
    <2>5. (n - 1) + 1 \in Upto
      BY <2>4, <1>3
    <2>. QED
      BY <2>5, <2>3, <2>2
  <1>5. Cardinality(D) \in Upto
    <2>1. Cardinality(D) \in Nat
      BY FS_CardinalityType
    <2>. HIDE DEF Upto
    <2>. QED
      BY <1>4, <2>1
  <1>6. PICK it \in [SUBSET D -> V] :
          \A s \in SUBSET D : Cardinality(s) <= Cardinality(D) => Right(it, s)
    BY <1>5
  <1>7. \A s \in SUBSET D : Right(it, s)
    BY <1>6, FS_Subset
  <1>. QED
    BY <1>7 DEF Folds

-----------------------------------------------------------------------------
(* Sums.                                                                   *)

\* f has integers at finitely many places.
Summable(f) == IsFiniteSet(DOMAIN f) /\ \A x \in DOMAIN f : f[x] \in Int

SumIter(f, it, D) ==
  it = [s \in SUBSET D |-> IF s = {} THEN 0
                           ELSE f[CHOOSE x \in s : TRUE] + it[s \ {CHOOSE x \in s : TRUE}]]

LEMMA SumIs ==
  ASSUME NEW f
  PROVE  SumFunction(f) = (CHOOSE it : SumIter(f, it, DOMAIN f))[DOMAIN f]
  BY Zenon DEF SumFunction, SumFunctionOnSet, FoldFunctionOnSet, MapThenFoldSet, SumIter

LEMMA SumIterExists ==
  ASSUME NEW f, Summable(f)
  PROVE  \E it : SumIter(f, it, DOMAIN f)
  <1>. DEFINE D == DOMAIN f
              choice == [s \in SUBSET D |-> CHOOSE x \in s : TRUE]
              G == [p \in (SUBSET D) \X Int |->
                      IF p[1] = {} THEN 0 ELSE f[choice[p[1]]] + p[2]]
  <1>1. Chooses(choice, D)
    BY DEF Chooses
  <1>2. G \in [(SUBSET D) \X Int -> Int]
    <2>1. ASSUME NEW s \in SUBSET D, NEW v \in Int, s # {}
          PROVE  f[choice[s]] + v \in Int
      <3>1. choice[s] \in D
        BY <1>1, <2>1 DEF Chooses
      <3>. HIDE DEF choice
      <3>. QED
        BY <3>1 DEF Summable
    <2>. HIDE DEF choice
    <2>. QED
      BY <2>1
  <1>3. IsFiniteSet(D)
    BY DEF Summable
  <1>4. PICK it \in [SUBSET D -> Int] : Folds(it, D, 0, choice, G)
    <2>1. 0 \in Int
      OBVIOUS
    <2>. HIDE DEF D, choice, G
    <2>. QED
      BY <1>1, <1>2, <1>3, <2>1, FoldExists
  <1>5. ASSUME NEW s \in SUBSET D, s # {}
        PROVE  G[<<s, it[s \ {choice[s]}]>>]
                 = f[CHOOSE x \in s : TRUE] + it[s \ {CHOOSE x \in s : TRUE}]
    <2>1. it[s \ {choice[s]}] \in Int
      BY <1>4
    <2>. QED
      BY <2>1, <1>5
  <1>6. it = [s \in SUBSET D |-> IF s = {} THEN 0
                                 ELSE f[CHOOSE x \in s : TRUE] + it[s \ {CHOOSE x \in s : TRUE}]]
    <2>1. it = [s \in SUBSET D |-> it[s]]
      BY <1>4
    <2>. HIDE DEF D, choice, G
    <2>. QED
      BY <1>4, <1>5, <2>1 DEF Folds
  <1>. QED
    BY <1>6 DEF SumIter

\* Whichever element is taken out first, the sum is the same.
LEMMA SumIterIs ==
  ASSUME NEW f, Summable(f), NEW it, SumIter(f, it, DOMAIN f)
  PROVE  \A s \in SUBSET (DOMAIN f) :
           /\ it[s] \in Int
           /\ s = {} => it[s] = 0
           /\ \A x \in s : it[s] = f[x] + it[s \ {x}]
  <1>. DEFINE D == DOMAIN f
              Summed(s) == it[s] \in Int /\ \A x \in s : it[s] = f[x] + it[s \ {x}]
              Bad == {s \in SUBSET D : ~Summed(s)}
  <1>0. IsFiniteSet(D) /\ \A x \in D : f[x] \in Int
    BY DEF Summable
  <1>1. it[{}] = 0
    BY DEF SumIter
  <1>2. ASSUME NEW s \in SUBSET D, s # {}
        PROVE  it[s] = f[CHOOSE x \in s : TRUE] + it[s \ {CHOOSE x \in s : TRUE}]
    BY <1>2 DEF SumIter
  <1>3. Bad = {}
    <2>. SUFFICES ASSUME Bad # {}  PROVE FALSE
      OBVIOUS
    <2>1. PICK s \in Bad : \A t \in Bad : Cardinality(s) <= Cardinality(t)
      <3>1. Bad \in SUBSET (SUBSET D)
        OBVIOUS
      <3>. HIDE DEF Bad
      <3>. QED
        BY <1>0, <3>1, SmallestOf
    <2>2. s \in SUBSET D /\ ~Summed(s)
      BY <2>1
    <2>3. ASSUME NEW x \in s  PROVE Summed(s \ {x})
      <3>1. /\ s \ {x} \in SUBSET D /\ Cardinality(s) \in Nat
            /\ Cardinality(s \ {x}) = Cardinality(s) - 1
        BY <1>0, <2>2, Smaller
      <3>2. s \ {x} \notin Bad
        <4>. HIDE DEF Bad
        <4>. QED
          BY <3>1, <2>1
      <3>. QED
        BY <3>1, <3>2
    <2>4. s # {}
      <3>1. ASSUME s = {}  PROVE it[s] = 0 /\ \A x \in s : FALSE
        BY <3>1, <1>1
      <3>. QED
        BY <2>2, <3>1
    <2>. DEFINE y == CHOOSE x \in s : TRUE
    <2>5. y \in s
      BY <2>4
    <2>6. it[s] = f[y] + it[s \ {y}]
      BY <1>2, <2>2, <2>4
    <2>. HIDE DEF y
    <2>7. it[s \ {y}] \in Int /\ f[y] \in Int
      BY <2>3, <2>5, <2>2, <1>0
    <2>8. ASSUME NEW x \in s  PROVE it[s] = f[x] + it[s \ {x}]
      <3>1. CASE x = y
        BY <3>1, <2>6
      <3>2. CASE x # y
        <4>. DEFINE r == (s \ {x}) \ {y}
        <4>1. (s \ {y}) \ {x} = r /\ x \in s \ {y} /\ y \in s \ {x}
          BY <3>2, <2>5
        <4>2. it[s \ {y}] = f[x] + it[r]
          BY <4>1, <2>3, <2>5
        <4>3. it[s \ {x}] = f[y] + it[r]
          BY <4>1, <2>3
        <4>4. f[x] \in Int /\ it[s \ {x}] \in Int /\ it[r] \in Int
          <5>1. it[s \ {x}] \in Int /\ f[x] \in Int
            BY <2>3, <2>2, <1>0
          <5>2. Cardinality(s) \in Nat /\ Cardinality(s \ {x}) = Cardinality(s) - 1
                /\ s \ {x} \in SUBSET D
            BY <1>0, <2>2, Smaller
          <5>3. Cardinality(r) = Cardinality(s \ {x}) - 1 /\ r \in SUBSET D
            BY <1>0, <5>2, <4>1, Smaller
          <5>4. r \notin Bad
            <6>. HIDE DEF Bad, r
            <6>. QED
              BY <5>2, <5>3, <2>1
          <5>5. Summed(r)
            BY <5>3, <5>4
          <5>. QED
            BY <5>1, <5>5
        <4>. HIDE DEF r
        <4>. QED
          BY <4>2, <4>3, <4>4, <2>6, <2>7
      <3>. QED
        BY <3>1, <3>2
    <2>9. it[s] \in Int
      BY <2>6, <2>7
    <2>. QED
      BY <2>2, <2>8, <2>9
  <1>. QED
    BY <1>1, <1>3

\* Places outside of a subset do not matter to its sum.
LEMMA SumIterAgree ==
  ASSUME NEW D, IsFiniteSet(D), NEW E \in SUBSET D, NEW f, NEW g, NEW it, NEW jt,
         SumIter(f, it, D), SumIter(g, jt, E), \A x \in E : f[x] = g[x]
  PROVE  it[E] = jt[E]
  <1>. DEFINE Bad == {s \in SUBSET E : it[s] # jt[s]}
  <1>0. IsFiniteSet(E)
    BY FS_Subset
  <1>1. Bad = {}
    <2>. SUFFICES ASSUME Bad # {}  PROVE FALSE
      OBVIOUS
    <2>1. PICK s \in Bad : \A t \in Bad : Cardinality(s) <= Cardinality(t)
      <3>1. Bad \in SUBSET (SUBSET E)
        OBVIOUS
      <3>. HIDE DEF Bad
      <3>. QED
        BY <1>0, <3>1, SmallestOf
    <2>2. s \in SUBSET E /\ s \in SUBSET D /\ it[s] # jt[s]
      BY <2>1
    <2>3. s # {}
      BY <2>2 DEF SumIter
    <2>. DEFINE y == CHOOSE x \in s : TRUE
    <2>4. y \in s
      BY <2>3
    <2>5. it[s] = f[y] + it[s \ {y}] /\ jt[s] = g[y] + jt[s \ {y}]
      BY <2>2, <2>3 DEF SumIter
    <2>. HIDE DEF y
    <2>6. /\ s \ {y} \in SUBSET E /\ Cardinality(s) \in Nat
          /\ Cardinality(s \ {y}) = Cardinality(s) - 1
      BY <1>0, <2>2, <2>4, Smaller
    <2>7. s \ {y} \notin Bad
      <3>. HIDE DEF Bad
      <3>. QED
        BY <2>6, <2>1
    <2>8. it[s \ {y}] = jt[s \ {y}] /\ f[y] = g[y]
      BY <2>6, <2>7, <2>2, <2>4
    <2>. QED
      BY <2>2, <2>5, <2>8
  <1>. QED
    BY <1>1

\* A sum is the value at one place and the sum of the others.
LEMMA SumSplit ==
  ASSUME NEW f, Summable(f), NEW x \in DOMAIN f,
         NEW g, DOMAIN g = DOMAIN f \ {x}, \A y \in DOMAIN g : g[y] = f[y]
  PROVE  SumFunction(f) = f[x] + SumFunction(g)
  <1>. DEFINE D == DOMAIN f
              E == DOMAIN g
              it == CHOOSE h : SumIter(f, h, D)
              jt == CHOOSE h : SumIter(g, h, E)
  <1>1. Summable(g)
    BY FS_RemoveElement DEF Summable
  <1>2. SumIter(f, it, D) /\ SumIter(g, jt, E)
    BY <1>1, SumIterExists
  <1>3. SumFunction(f) = it[D] /\ SumFunction(g) = jt[E]
    BY SumIs
  <1>. HIDE DEF it, jt
  <1>4. it[D] = f[x] + it[E]
    BY <1>2, SumIterIs
  <1>5. it[E] = jt[E]
    BY <1>2, SumIterAgree DEF Summable
  <1>. QED
    BY <1>3, <1>4, <1>5

LEMMA SumType ==
  ASSUME NEW f, Summable(f)
  PROVE  SumFunction(f) \in Int /\ (DOMAIN f = {} => SumFunction(f) = 0)
  <1>. DEFINE it == CHOOSE h : SumIter(f, h, DOMAIN f)
  <1>1. SumIter(f, it, DOMAIN f)
    BY SumIterExists
  <1>2. SumFunction(f) = it[DOMAIN f]
    BY SumIs
  <1>. HIDE DEF it
  <1>. QED
    BY <1>1, <1>2, SumIterIs

-----------------------------------------------------------------------------
(* Sums along the axes 1..n.                                               *)

\* What the axes after axis i add.
After(f, n, i) == SumFunction([j \in (i + 1)..n |-> f[j]])

Terms(f, n) == n \in Nat /\ \A j \in 1..n : f[j] \in Int

LEMMA AfterStep ==
  ASSUME NEW n, NEW f, Terms(f, n)
  PROVE  /\ \A i \in 0..n : After(f, n, i) \in Int
         /\ After(f, n, n) = 0
         /\ \A i \in 1..n : After(f, n, i - 1) = f[i] + After(f, n, i)
  <1>. DEFINE Rest(i) == [j \in (i + 1)..n |-> f[j]]
  <1>1. ASSUME NEW i \in 0..n  PROVE Summable(Rest(i))
    <2>1. IsFiniteSet((i + 1)..n)
      BY FS_Interval DEF Terms
    <2>. QED
      BY <2>1 DEF Summable, Terms
  <1>2. ASSUME NEW i \in 0..n  PROVE After(f, n, i) \in Int
    <2>. HIDE DEF Rest
    <2>. QED
      BY <1>1, SumType DEF After, Rest
  <1>3. After(f, n, n) = 0
    <2>1. n \in 0..n /\ DOMAIN Rest(n) = {}
      BY DEF Terms
    <2>2. SumFunction(Rest(n)) = 0
      <3>1. Summable(Rest(n))
        BY <1>1, <2>1
      <3>. HIDE DEF Rest
      <3>. QED
        BY <2>1, <3>1, SumType
    <2>. QED
      BY <2>2 DEF After
  <1>4. ASSUME NEW i \in 1..n  PROVE After(f, n, i - 1) = f[i] + After(f, n, i)
    <2>1. i - 1 \in 0..n /\ (i - 1) + 1 = i
      BY DEF Terms
    <2>2. i \in DOMAIN Rest(i - 1) /\ DOMAIN Rest(i) = DOMAIN Rest(i - 1) \ {i}
      BY <2>1 DEF Terms
    <2>3. \A j \in DOMAIN Rest(i) : Rest(i)[j] = Rest(i - 1)[j]
      BY <2>2
    <2>4. Rest(i - 1)[i] = f[i]
      BY <2>2
    <2>5. SumFunction(Rest(i - 1)) = Rest(i - 1)[i] + SumFunction(Rest(i))
      <3>1. Summable(Rest(i - 1))
        BY <1>1, <2>1
      <3>. HIDE DEF Rest
      <3>. QED
        BY <2>2, <2>3, <3>1, SumSplit
    <2>. QED
      BY <2>4, <2>5 DEF After
  <1>. QED
    BY <1>2, <1>3, <1>4

LEMMA AfterAll ==
  ASSUME NEW n \in Nat, NEW f, f = [j \in 1..n |-> f[j]]
  PROVE  SumFunction(f) = After(f, n, 0)
  <1>1. [j \in (0 + 1)..n |-> f[j]] = [j \in 1..n |-> f[j]]
    OBVIOUS
  <1>. QED
    BY <1>1 DEF After

LEMMA AfterSame ==
  ASSUME NEW n \in Nat, NEW i \in 0..n, NEW f, NEW g, \A j \in (i + 1)..n : f[j] = g[j]
  PROVE  After(f, n, i) = After(g, n, i)
  <1>1. [j \in (i + 1)..n |-> f[j]] = [j \in (i + 1)..n |-> g[j]]
    OBVIOUS
  <1>. QED
    BY <1>1 DEF After

LEMMA AfterZero ==
  ASSUME NEW n \in Nat, NEW k \in 0..n, NEW f, \A i \in (k + 1)..n : f[i] = 0
  PROVE  After(f, n, k) = 0
  <1>. DEFINE z == [i \in 1..n |-> 0]
              Zero == {i \in 0..n : After(z, n, i) = 0}
  <1>1. ASSUME NEW i \in (k + 1)..n  PROVE f[i] = z[i]
    <2>1. i \in 1..n
      OBVIOUS
    <2>. QED
      BY <2>1
  <1>2. After(f, n, k) = After(z, n, k)
    <2>. HIDE DEF z
    <2>. QED
      BY <1>1, AfterSame
  <1>3. Terms(z, n) /\ \A i \in 1..n : z[i] = 0
    BY DEF Terms
  <1>. HIDE DEF z
  <1>4. After(z, n, n) = 0 /\ \A i \in 1..n : After(z, n, i - 1) = 0 + After(z, n, i)
    BY <1>3, AfterStep
  <1>5. n \in Zero
    BY <1>4
  <1>6. ASSUME NEW i \in 1..n, i \in Zero  PROVE i - 1 \in Zero
    <2>1. i - 1 \in 0..n /\ After(z, n, i - 1) = 0 + 0
      BY <1>4, <1>6
    <2>. QED
      BY <2>1
  <1>7. Zero = 0..n
    <2>1. Zero \in SUBSET (0..n)
      OBVIOUS
    <2>. HIDE DEF Zero
    <2>. QED
      BY <1>5, <1>6, <2>1, DownFrom
  <1>. QED
    BY <1>2, <1>7

\* Two sums that agree up to axis k differ by what they add from there on.
LEMMA AfterDiffer ==
  ASSUME NEW n, NEW f, NEW g, Terms(f, n), Terms(g, n), NEW k \in 0..n,
         \A j \in 1..k : f[j] = g[j]
  PROVE  After(f, n, 0) - After(g, n, 0) = After(f, n, k) - After(g, n, k)
  <1>. DEFINE Same == {i \in 0..k : After(f, n, i) - After(g, n, i)
                                      = After(f, n, k) - After(g, n, k)}
  <1>1. n \in Nat /\ k \in Nat /\ k \in Same
    BY DEF Terms
  <1>2. ASSUME NEW i \in 1..k, i \in Same  PROVE i - 1 \in Same
    <2>1. i \in 1..n /\ i \in 0..n /\ i - 1 \in 0..n /\ i - 1 \in 0..k
      BY <1>1
    <2>2. /\ After(f, n, i - 1) = f[i] + After(f, n, i)
          /\ After(g, n, i - 1) = g[i] + After(g, n, i)
      BY <2>1, AfterStep
    <2>3. After(f, n, i) \in Int /\ After(g, n, i) \in Int
      BY <2>1, AfterStep
    <2>4. f[i] = g[i] /\ f[i] \in Int
      BY <2>1 DEF Terms
    <2>5. After(f, n, i) - After(g, n, i) = After(f, n, k) - After(g, n, k)
      BY <1>2
    <2>. QED
      BY <2>1, <2>2, <2>3, <2>4, <2>5
  <1>3. Same = 0..k
    <2>1. Same \in SUBSET (0..k)
      OBVIOUS
    <2>. HIDE DEF Same
    <2>. QED
      BY <1>1, <1>2, <2>1, DownFrom
  <1>4. 0 \in Same
    BY <1>1, <1>3
  <1>. QED
    BY <1>4

-----------------------------------------------------------------------------
(* Products.                                                               *)

LEMMA UpTo ==
  ASSUME NEW n \in Nat, NEW G \in SUBSET (0..n), 0 \in G,
         \A i \in 1..n : i - 1 \in G => i \in G
  PROVE  G = 0..n
  <1>. SUFFICES ASSUME G # 0..n  PROVE FALSE
    OBVIOUS
  <1>1. (0..n) \ G \in SUBSET Nat /\ (0..n) \ G # {}
    <2>1. \A x \in (0..n) \ G : x \in Nat
      OBVIOUS
    <2>2. \E x \in 0..n : x \notin G
      OBVIOUS
    <2>. QED
      BY <2>1, <2>2
  <1>2. PICK i \in (0..n) \ G : \A j \in (0..n) \ G : i <= j
    BY <1>1, LeastOf
  <1>3. i \in 1..n /\ i \notin G
    BY <1>2
  <1>4. i - 1 \in 0..n /\ ~(i <= i - 1)
    BY <1>3
  <1>5. i - 1 \in G
    BY <1>2, <1>4
  <1>. QED
    BY <1>3, <1>5

LEMMA MaxIs ==
  ASSUME NEW S \in SUBSET Int, NEW x \in S, \A y \in S : x >= y
  PROVE  Max(S) = x
  <1>1. Max(S) \in S /\ \A y \in S : Max(S) >= y
    BY DEF Max
  <1>2. Max(S) \in Int /\ x \in Int /\ Max(S) >= x /\ x >= Max(S)
    BY <1>1
  <1>. QED
    BY <1>2

LEMMA MaxOf ==
  ASSUME NEW n \in Nat, NEW s \in SUBSET (0..n), s # {}
  PROVE  Max(s) \in s /\ \A y \in s : Max(s) >= y
  <1>. DEFINE Far == {d \in 0..n : n - d \in s}
  <1>1. Far \in SUBSET Nat
    OBVIOUS
  <1>2. \A y \in s : n - y \in Far
    <2>1. \A y \in s : y \in 0..n /\ n - y \in 0..n /\ n - (n - y) = y
      OBVIOUS
    <2>. QED
      BY <2>1
  <1>3. Far # {}
    BY <1>2
  <1>4. PICK d \in Far : \A e \in Far : d <= e
    <2>. HIDE DEF Far
    <2>. QED
      BY <1>1, <1>3, LeastOf
  <1>5. n - d \in s /\ d \in 0..n
    BY <1>4
  <1>6. ASSUME NEW y \in s  PROVE n - d >= y
    <2>1. d <= n - y
      <3>. HIDE DEF Far
      <3>. QED
        BY <1>2, <1>4
    <2>2. y \in 0..n
      OBVIOUS
    <2>. QED
      BY <2>1, <2>2, <1>5
  <1>. QED
    BY <1>5, <1>6 DEF Max

ProductIter(q, it, D) ==
  it = [s \in SUBSET D |-> IF s = {} THEN 1 ELSE it[s \ {Max(s)}] * q[Max(s)]]

LEMMA ProductIs ==
  ASSUME NEW q
  PROVE  Product(q) = (CHOOSE it : ProductIter(q, it, DOMAIN q))[DOMAIN q]
  BY Zenon DEF Product, FoldLeft, MapThenFoldSet, ProductIter

LEMMA ProductIterExists ==
  ASSUME NEW n \in Nat, NEW q, \A j \in 1..n : q[j] \in Int
  PROVE  \E it : ProductIter(q, it, 1..n)
  <1>. DEFINE D == 1..n
              choice == [s \in SUBSET D |-> Max(s)]
              G == [p \in (SUBSET D) \X Int |->
                      IF p[1] = {} THEN 0 ELSE p[2] * q[choice[p[1]]]]
  <1>1. Chooses(choice, D)
    <2>1. ASSUME NEW s \in SUBSET D, s # {}  PROVE Max(s) \in s
      <3>1. s \in SUBSET (0..n)
        OBVIOUS
      <3>. QED
        BY <2>1, <3>1, MaxOf
    <2>. QED
      BY <2>1 DEF Chooses
  <1>2. G \in [(SUBSET D) \X Int -> Int]
    <2>1. ASSUME NEW s \in SUBSET D, NEW v \in Int, s # {}
          PROVE  v * q[choice[s]] \in Int
      <3>1. choice[s] \in D
        BY <1>1, <2>1 DEF Chooses
      <3>2. q[choice[s]] \in Int
        <4>. HIDE DEF choice
        <4>. QED
          BY <3>1
      <3>. HIDE DEF choice
      <3>. QED
        BY <3>2
    <2>. HIDE DEF choice
    <2>. QED
      BY <2>1
  <1>3. IsFiniteSet(D)
    BY FS_Interval
  <1>4. PICK it \in [SUBSET D -> Int] : Folds(it, D, 1, choice, G)
    <2>1. 1 \in Int
      OBVIOUS
    <2>. HIDE DEF D, choice, G
    <2>. QED
      BY <1>1, <1>2, <1>3, <2>1, FoldExists
  <1>5. ASSUME NEW s \in SUBSET D, s # {}
        PROVE  G[<<s, it[s \ {choice[s]}]>>] = it[s \ {Max(s)}] * q[Max(s)]
    <2>1. it[s \ {choice[s]}] \in Int
      BY <1>4
    <2>. QED
      BY <2>1, <1>5
  <1>6. it = [s \in SUBSET D |-> IF s = {} THEN 1 ELSE it[s \ {Max(s)}] * q[Max(s)]]
    <2>1. it = [s \in SUBSET D |-> it[s]]
      BY <1>4
    <2>. HIDE DEF D, choice, G
    <2>. QED
      BY <1>4, <1>5, <2>1 DEF Folds
  <1>. QED
    BY <1>6 DEF ProductIter

LEMMA ProductIterStep ==
  ASSUME NEW n \in Nat, NEW q, NEW it, ProductIter(q, it, 1..n)
  PROVE  /\ it[1..0] = 1
         /\ \A m \in 1..n : it[1..m] = it[1..(m - 1)] * q[m]
  <1>1. 1..0 = {}
    OBVIOUS
  <1>2. it[1..0] = 1
    BY <1>1 DEF ProductIter
  <1>3. ASSUME NEW m \in 1..n  PROVE it[1..m] = it[1..(m - 1)] * q[m]
    <2>1. 1..m \in SUBSET (1..n) /\ 1..m # {} /\ (1..m) \ {m} = 1..(m - 1)
      <3>1. m \in Nat /\ m \in 1..m /\ m <= n
        OBVIOUS
      <3>2. \A x : x \in (1..m) \ {m} <=> x \in 1..(m - 1)
        BY <3>1
      <3>3. \A x \in 1..m : x \in 1..n
        BY <3>1
      <3>. QED
        BY <3>1, <3>2, <3>3
    <2>2. Max(1..m) = m
      <3>1. 1..m \in SUBSET Int /\ m \in 1..m /\ \A y \in 1..m : m >= y
        OBVIOUS
      <3>. QED
        BY <3>1, MaxIs
    <2>. QED
      BY <2>1, <2>2 DEF ProductIter
  <1>. QED
    BY <1>2, <1>3

\* Two solutions agree as far as the lengths do.
LEMMA ProductIterAgree ==
  ASSUME NEW m \in Nat, NEW n \in Nat, m <= n, NEW p, NEW q, NEW it, NEW jt,
         \A j \in 1..m : p[j] = q[j] /\ p[j] \in Int,
         ProductIter(p, it, 1..m), ProductIter(q, jt, 1..n)
  PROVE  it[1..m] = jt[1..m] /\ it[1..m] \in Int
  <1>. DEFINE Same == {i \in 0..m : it[1..i] = jt[1..i] /\ it[1..i] \in Int}
  <1>1. 0 \in Same
    <2>1. it[1..0] = 1 /\ jt[1..0] = 1
      BY ProductIterStep
    <2>. QED
      BY <2>1
  <1>2. ASSUME NEW i \in 1..m, i - 1 \in Same  PROVE i \in Same
    <2>1. it[1..i] = it[1..(i - 1)] * p[i] /\ jt[1..i] = jt[1..(i - 1)] * q[i]
      <3>1. i \in 1..n
        OBVIOUS
      <3>. QED
        BY <3>1, ProductIterStep
    <2>2. it[1..(i - 1)] = jt[1..(i - 1)] /\ it[1..(i - 1)] \in Int
      BY <1>2
    <2>3. it[1..i] = jt[1..i]
      BY <2>1, <2>2
    <2>4. it[1..(i - 1)] * p[i] \in Int
      BY <2>2
    <2>. QED
      BY <2>1, <2>3, <2>4
  <1>3. Same = 0..m
    <2>1. Same \in SUBSET (0..m)
      OBVIOUS
    <2>. HIDE DEF Same
    <2>. QED
      BY <1>1, <1>2, <2>1, UpTo
  <1>4. m \in Same
    BY <1>3
  <1>. QED
    BY <1>4

LEMMA ProductEmpty == Product(<<>>) = 1
  <1>. DEFINE it == CHOOSE h : ProductIter(<<>>, h, 1..0)
  <1>1. ProductIter(<<>>, it, 1..0)
    BY ProductIterExists
  <1>2. DOMAIN <<>> = 1..0
    OBVIOUS
  <1>3. Product(<<>>) = it[1..0]
    BY <1>2, ProductIs
  <1>. HIDE DEF it
  <1>. QED
    BY <1>1, <1>3, ProductIterStep

\* Product multiplies the lengths one after the other.
LEMMA ProductLast ==
  ASSUME NEW m \in Nat, NEW p \in [1..m -> Int],
         NEW q \in [1..(m + 1) -> Int], \A j \in 1..m : q[j] = p[j]
  PROVE  Product(p) \in Int /\ Product(q) = Product(p) * q[m + 1]
  <1>. DEFINE it == CHOOSE h : ProductIter(p, h, 1..m)
              jt == CHOOSE h : ProductIter(q, h, 1..(m + 1))
  <1>1. ProductIter(p, it, 1..m) /\ ProductIter(q, jt, 1..(m + 1))
    BY ProductIterExists
  <1>2. DOMAIN p = 1..m /\ DOMAIN q = 1..(m + 1)
    OBVIOUS
  <1>3. Product(p) = it[1..m] /\ Product(q) = jt[1..(m + 1)]
    BY <1>2, ProductIs
  <1>. HIDE DEF it, jt
  <1>4. it[1..m] = jt[1..m] /\ it[1..m] \in Int
    <2>1. m + 1 \in Nat /\ m <= m + 1 /\ \A j \in 1..m : p[j] = q[j] /\ p[j] \in Int
      OBVIOUS
    <2>. QED
      BY <1>1, <2>1, ProductIterAgree
  <1>5. jt[1..(m + 1)] = jt[1..((m + 1) - 1)] * q[m + 1]
    <2>1. m + 1 \in Nat /\ m + 1 \in 1..(m + 1)
      OBVIOUS
    <2>. QED
      BY <1>1, <2>1, ProductIterStep
  <1>6. (m + 1) - 1 = m
    OBVIOUS
  <1>. QED
    BY <1>3, <1>4, <1>5, <1>6

-----------------------------------------------------------------------------
(* How many elements a step along an axis skips.                           *)

LEMMA SlabLast ==
  ASSUME NEW dims \in Seq(Nat), NEW i \in 1..(Len(dims) + 1), NEW m \in i..Len(dims)
  PROVE  /\ Product(SubSeq(dims, i, m - 1)) \in Int
         /\ Product(SubSeq(dims, i, m)) = Product(SubSeq(dims, i, m - 1)) * dims[m]
  <1>. DEFINE p == SubSeq(dims, i, m - 1)
              q == SubSeq(dims, i, m)
              k == m - i
  <1>1. k \in Nat /\ m \in 1..Len(dims) /\ Len(dims) \in Nat
    OBVIOUS
  <1>2. \A j \in 1..(k + 1) : i + j - 1 \in 1..Len(dims) /\ dims[i + j - 1] \in Int
    BY <1>1
  <1>3. p = [j \in 1..k |-> dims[i + j - 1]]
    BY <1>1
  <1>4. q = [j \in 1..(k + 1) |-> dims[i + j - 1]]
    BY <1>1
  <1>5. p \in [1..k -> Int] /\ q \in [1..(k + 1) -> Int] /\ \A j \in 1..k : q[j] = p[j]
    <2>. HIDE DEF p, q, k
    <2>0. \A j \in 1..k : j \in 1..(k + 1)
      BY <1>1
    <2>1. p \in [1..k -> Int]
      BY <2>0, <1>2, <1>3
    <2>1a. q \in [1..(k + 1) -> Int]
      BY <1>2, <1>4
    <2>2. ASSUME NEW j \in 1..k  PROVE q[j] = p[j]
      BY <2>0, <1>3, <1>4
    <2>. QED
      BY <2>1, <2>1a, <2>2
  <1>6. q[k + 1] = dims[m]
    <2>1. k + 1 \in 1..(k + 1) /\ i + (k + 1) - 1 = m
      BY <1>1
    <2>. DEFINE u == k + 1
    <2>. HIDE DEF q, k, u
    <2>2. q[u] = dims[i + u - 1] /\ i + u - 1 = m
      BY <1>4, <2>1 DEF u
    <2>. QED
      BY <2>2 DEF u
  <1>. HIDE DEF p, q, k
  <1>7. Product(p) \in Int /\ Product(q) = Product(p) * q[k + 1]
    BY <1>1, <1>5, ProductLast
  <1>. QED
    BY <1>6, <1>7 DEF p, q

LEMMA SlabFirst ==
  ASSUME NEW dims \in Seq(Nat), NEW i \in 1..Len(dims)
  PROVE  Product(SubSeq(dims, i, Len(dims))) = dims[i] * Product(SubSeq(dims, i + 1, Len(dims)))
  <1>. DEFINE n == Len(dims) - i
              P(a, m) == Product(SubSeq(dims, a, m))
              Done == {t \in 0..n : P(i, i + t) = dims[i] * P(i + 1, i + t)}
  <1>0. n \in Nat /\ i \in Nat /\ dims[i] \in Int /\ Len(dims) \in Nat
    OBVIOUS
  <1>1. 0 \in Done
    <2>1. SubSeq(dims, i, i - 1) = <<>> /\ SubSeq(dims, i + 1, i) = <<>>
      OBVIOUS
    <2>2. P(i, i) = P(i, i - 1) * dims[i]
      BY SlabLast
    <2>3. P(i, i - 1) = 1 /\ P(i + 1, i) = 1
      BY <2>1, ProductEmpty
    <2>4. i + 0 = i /\ P(i, i) = dims[i] * P(i + 1, i)
      <3>. HIDE DEF P
      <3>. QED
        BY <1>0, <2>2, <2>3
    <2>. QED
      BY <1>0, <2>4
  <1>2. ASSUME NEW t \in 1..n, t - 1 \in Done  PROVE t \in Done
    <2>. DEFINE m == i + t
    <2>1. m \in i..Len(dims) /\ m \in (i + 1)..Len(dims) /\ i + 1 \in 1..(Len(dims) + 1)
          /\ i + (t - 1) = m - 1
      BY <1>0
    <2>2. P(i, m) = P(i, m - 1) * dims[m] /\ P(i + 1, m) = P(i + 1, m - 1) * dims[m]
          /\ P(i + 1, m - 1) \in Int
      <3>1. P(i, m) = P(i, m - 1) * dims[m]
        <4>1. i \in 1..(Len(dims) + 1)
          BY <1>0
        <4>. HIDE DEF m
        <4>. QED
          BY <4>1, <2>1, SlabLast
      <3>2. P(i + 1, m) = P(i + 1, m - 1) * dims[m] /\ P(i + 1, m - 1) \in Int
        <4>. HIDE DEF m
        <4>. QED
          BY <2>1, SlabLast
      <3>. QED
        BY <3>1, <3>2
    <2>3. P(i, m - 1) = dims[i] * P(i + 1, m - 1)
      BY <1>2, <2>1
    <2>4. dims[m] \in Int
      BY <2>1
    <2>. HIDE DEF P, m
    <2>5. (dims[i] * P(i + 1, m - 1)) * dims[m] = dims[i] * (P(i + 1, m - 1) * dims[m])
      BY <1>0, <2>2, <2>4, SMTT(20)
    <2>6. P(i, m) = dims[i] * P(i + 1, m)
      BY <2>2, <2>3, <2>5
    <2>. QED
      BY <2>6 DEF m, P
  <1>3. Done = 0..n
    <2>1. Done \in SUBSET (0..n)
      OBVIOUS
    <2>. HIDE DEF Done, n
    <2>. QED
      BY <1>0, <1>1, <1>2, <2>1, UpTo
  <1>4. n \in Done /\ i + n = Len(dims)
    <2>1. n \in 0..n /\ i + n = Len(dims)
      BY <1>0
    <2>. HIDE DEF Done, n
    <2>. QED
      BY <1>3, <2>1
  <1>5. P(i, i + n) = dims[i] * P(i + 1, i + n)
    BY <1>4
  <1>. QED
    BY <1>4, <1>5

\* A step along an axis skips as many elements as the next axis has, for each
\* of the elements that a step along that one skips.
LEMMA BelowStep ==
  ASSUME NEW dims \in Seq(Nat)
  PROVE  /\ Below(dims, Len(dims)) = 1
         /\ Below(dims, 0) = Product(dims)
         /\ \A i \in 0..Len(dims) : Below(dims, i) \in Nat
         /\ \A i \in 1..Len(dims) : Below(dims, i - 1) = dims[i] * Below(dims, i)
  <1>. DEFINE n == Len(dims)
              Typed == {i \in 0..n : Below(dims, i) \in Nat}
  <1>0. n \in Nat
    OBVIOUS
  <1>1. Below(dims, n) = 1
    <2>1. SubSeq(dims, n + 1, n) = <<>>
      OBVIOUS
    <2>. QED
      BY <2>1, ProductEmpty DEF Below
  <1>2. Below(dims, 0) = Product(dims)
    <2>1. SubSeq(dims, 0 + 1, Len(dims)) = dims
      OBVIOUS
    <2>. QED
      BY <2>1 DEF Below
  <1>3. ASSUME NEW i \in 1..n  PROVE Below(dims, i - 1) = dims[i] * Below(dims, i)
    <2>1. (i - 1) + 1 = i
      OBVIOUS
    <2>. QED
      BY <2>1, SlabFirst DEF Below
  <1>4. Typed = 0..n
    <2>1. n \in Typed
      BY <1>0, <1>1
    <2>2. ASSUME NEW i \in 1..n, i \in Typed  PROVE i - 1 \in Typed
      <3>1. dims[i] \in Nat /\ Below(dims, i) \in Nat /\ i - 1 \in 0..n
        BY <2>2
      <3>2. dims[i] * Below(dims, i) \in Nat
        BY <3>1
      <3>. QED
        BY <1>3, <3>1, <3>2
    <2>3. Typed \in SUBSET (0..n)
      OBVIOUS
    <2>. HIDE DEF Typed, n
    <2>. QED
      BY <1>0, <2>1, <2>2, <2>3, DownFrom
  <1>. QED
    BY <1>1, <1>2, <1>3, <1>4

\* An array has elements when no axis has length 0.
LEMMA NoEmptyAxis ==
  ASSUME NEW dims \in Seq(Nat), Product(dims) # 0
  PROVE  /\ \A i \in 1..Len(dims) : dims[i] > 0
         /\ \A i \in 0..Len(dims) : Below(dims, i) > 0
  <1>. DEFINE n == Len(dims)
              B(i) == Below(dims, i)
  <1>0. n \in Nat /\ (\A i \in 0..n : B(i) \in Nat) /\ B(0) # 0
        /\ (\A i \in 1..n : B(i - 1) = dims[i] * B(i)) /\ (\A i \in 1..n : dims[i] \in Nat)
    BY BelowStep
  <1>. DEFINE Full == {i \in 0..n : B(i) # 0}
  <1>. HIDE DEF B, n
  <1>1. Full = 0..n
    <2>1. 0 \in Full
      BY <1>0
    <2>2. ASSUME NEW i \in 1..n, i - 1 \in Full  PROVE i \in Full
      <3>1. dims[i] * B(i) # 0
        BY <2>2, <1>0
      <3>2. B(i) # 0
        BY <3>1, <1>0
      <3>. QED
        BY <3>2
    <2>3. Full \in SUBSET (0..n)
      OBVIOUS
    <2>. HIDE DEF Full
    <2>. QED
      BY <1>0, <2>1, <2>2, <2>3, UpTo
  <1>2. ASSUME NEW i \in 0..n  PROVE B(i) > 0
    <2>1. i \in Full /\ B(i) \in Nat
      BY <1>0, <1>1
    <2>. QED
      BY <2>1
  <1>3. ASSUME NEW i \in 1..n  PROVE dims[i] > 0
    <2>0. i - 1 \in 0..n /\ i \in 0..n
      BY <1>0
    <2>1. B(i - 1) > 0 /\ B(i) \in Nat /\ B(i - 1) = dims[i] * B(i)
          /\ dims[i] \in Nat
      BY <1>0, <1>2, <2>0
    <2>2. dims[i] # 0
      BY <2>1
    <2>. QED
      BY <2>1, <2>2
  <1>. QED
    BY <1>2, <1>3 DEF B, n

-----------------------------------------------------------------------------
(* Division.                                                               *)

LEMMA DivIs ==
  ASSUME NEW a \in Int, NEW b \in Nat \ {0}
  PROVE  a \div b \in Int /\ a % b \in 0..(b - 1) /\ a = b * (a \div b) + (a % b)
  OBVIOUS

LEMMA DivUnique ==
  ASSUME NEW b \in Nat \ {0}, NEW q \in Int, NEW r \in 0..(b - 1)
  PROVE  (b * q + r) \div b = q /\ (b * q + r) % b = r
  <1>. DEFINE a == b * q + r
              d == a \div b
              e == a % b
  <1>1. a \in Int
    OBVIOUS
  <1>2. d \in Int /\ e \in 0..(b - 1) /\ a = b * d + e
    <2>. HIDE DEF a
    <2>. QED
      BY <1>1, DivIs
  <1>. HIDE DEF d, e
  <1>3. b * q + r = b * d + e
    BY <1>2
  <1>4. b * (q - d) = e - r
    BY <1>3, <1>2
  <1>5. ~(q - d >= 1)
    <2>. SUFFICES ASSUME q - d >= 1  PROVE FALSE
      OBVIOUS
    <2>1. b * (q - d) >= b
      BY <1>2
    <2>. QED
      BY <2>1, <1>4, <1>2
  <1>6. ~(q - d <= -1)
    <2>. SUFFICES ASSUME d - q >= 1  PROVE FALSE
      BY <1>2
    <2>1. b * (d - q) >= b
      BY <1>2
    <2>2. b * (d - q) = r - e
      BY <1>3, <1>2
    <2>. QED
      BY <2>1, <2>2, <1>2
  <1>7. q = d
    BY <1>5, <1>6, <1>2
  <1>8. e = r
    BY <1>3, <1>7, <1>2
  <1>. QED
    BY <1>7, <1>8 DEF d, e

\* One step more along an axis skips one slab more.
LEMMA TimesLess ==
  ASSUME NEW a \in Nat, NEW b \in Nat, NEW m \in Nat, a < b
  PROVE  a * m \in Nat /\ b * m \in Nat /\ a * m + m <= b * m
  <1>. DEFINE e == b - a - 1
  <1>1. e \in Nat /\ b = a + 1 + e
    OBVIOUS
  <1>. HIDE DEF e
  <1>2. b * m = a * m + m + e * m
    BY <1>1
  <1>3. e * m \in Nat /\ a * m \in Nat
    BY <1>1
  <1>. QED
    BY <1>2, <1>3

-----------------------------------------------------------------------------
(* The place of an element in C order.                                     *)

Coordinates(dims) == {c \in [1..Len(dims) -> Nat] : \A i \in 1..Len(dims) : c[i] < dims[i]}

Skips(dims, c) == [i \in 1..Len(dims) |-> c[i] * Below(dims, i)]
Place(dims, c) == SumFunction(Skips(dims, c))

\* The factors of an iterator.
Factors(dims) == [i \in 1..Len(dims) |-> Below(dims, i)]

LEMMA SkipsTerms ==
  ASSUME NEW dims \in Seq(Nat), NEW c \in Coordinates(dims)
  PROVE  /\ Terms(Skips(dims, c), Len(dims))
         /\ Place(dims, c) = After(Skips(dims, c), Len(dims), 0)
         /\ Product(dims) # 0
  <1>. DEFINE n == Len(dims)
  <1>0. n \in Nat
    OBVIOUS
  <1>1. ASSUME NEW i \in 1..n  PROVE c[i] * Below(dims, i) \in Int
    <2>1. c[i] \in Nat /\ i \in 0..n
      BY DEF Coordinates
    <2>2. Below(dims, i) \in Nat
      BY <2>1, BelowStep
    <2>. QED
      BY <2>1, <2>2
  <1>2. Terms(Skips(dims, c), n)
    BY <1>0, <1>1 DEF Terms, Skips
  <1>3. Skips(dims, c) = [j \in 1..n |-> Skips(dims, c)[j]]
    BY DEF Skips
  <1>4. SumFunction(Skips(dims, c)) = After(Skips(dims, c), n, 0)
    BY <1>0, <1>3, AfterAll
  <1>5. Product(dims) # 0
    <2>. DEFINE B(i) == Below(dims, i)
                Full == {i \in 0..n : B(i) # 0}
    <2>0. (\A i \in 0..n : B(i) \in Nat) /\ B(n) = 1 /\ B(0) = Product(dims)
          /\ (\A i \in 1..n : B(i - 1) = dims[i] * B(i))
      BY BelowStep
    <2>. HIDE DEF B
    <2>1. n \in Full
      BY <1>0, <2>0
    <2>2. ASSUME NEW i \in 1..n, i \in Full  PROVE i - 1 \in Full
      <3>1. dims[i] \in Nat /\ dims[i] # 0 /\ i - 1 \in 0..n
        BY DEF Coordinates
      <3>2. B(i) \in Nat /\ B(i) # 0 /\ B(i - 1) = dims[i] * B(i)
        BY <2>2, <2>0
      <3>3. dims[i] * B(i) # 0
        BY <3>1, <3>2
      <3>. QED
        BY <3>1, <3>2, <3>3
    <2>3. Full \in SUBSET (0..n)
      OBVIOUS
    <2>4. Full = 0..n
      <3>. HIDE DEF Full, n
      <3>. QED
        BY <1>0, <2>1, <2>2, <2>3, DownFrom
    <2>. QED
      BY <1>0, <2>0, <2>4
  <1>. QED
    BY <1>2, <1>4, <1>5 DEF Place

\* The elements after one along all later axes are fewer than a step skips.
LEMMA PlaceBelow ==
  ASSUME NEW dims \in Seq(Nat), NEW c \in Coordinates(dims)
  PROVE  /\ \A i \in 0..Len(dims) :
              After(Skips(dims, c), Len(dims), i) \in 0..(Below(dims, i) - 1)
         /\ Place(dims, c) \in 0..(Product(dims) - 1)
  <1>. DEFINE n == Len(dims)
              f == Skips(dims, c)
              A(i) == After(f, n, i)
              B(i) == Below(dims, i)
              Less == {i \in 0..n : A(i) \in 0..(B(i) - 1)}
  <1>0. n \in Nat
    OBVIOUS
  <1>1. /\ \A i \in 0..n : B(i) \in Nat
        /\ \A i \in 1..n : B(i - 1) = dims[i] * B(i)
        /\ B(n) = 1 /\ B(0) = Product(dims)
    BY BelowStep
  <1>2. /\ A(n) = 0 /\ \A i \in 0..n : A(i) \in Int
        /\ \A i \in 1..n : A(i - 1) = c[i] * B(i) + A(i)
    <2>1. \A i \in 1..n : f[i] = c[i] * B(i)
      BY DEF Skips
    <2>2. Terms(f, n)
      BY SkipsTerms
    <2>. HIDE DEF f, n
    <2>. QED
      BY <2>1, <2>2, AfterStep
  <1>3. \A i \in 1..n : c[i] \in Nat /\ dims[i] \in Nat /\ c[i] < dims[i]
    BY DEF Coordinates
  <1>. HIDE DEF A, B, n, f
  <1>4. n \in Less
    BY <1>0, <1>1, <1>2
  <1>5. ASSUME NEW i \in 1..n, i \in Less  PROVE i - 1 \in Less
    <2>1. i \in 0..n /\ i - 1 \in 0..n
      BY <1>0
    <2>2. B(i) \in Nat /\ A(i) \in 0..(B(i) - 1) /\ c[i] \in Nat /\ dims[i] \in Nat
          /\ c[i] < dims[i]
      BY <1>1, <1>3, <1>5, <2>1
    <2>. DEFINE x == c[i] * B(i)
                y == dims[i] * B(i)
    <2>3. x \in Nat /\ y \in Nat /\ x + B(i) <= y
      BY <2>2, TimesLess
    <2>4. A(i - 1) = x + A(i) /\ B(i - 1) = y
      BY <1>1, <1>2
    <2>. HIDE DEF x, y
    <2>7. A(i - 1) \in 0..(B(i - 1) - 1)
      BY <2>2, <2>3, <2>4, SMTT(20)
    <2>. QED
      BY <2>1, <2>7
  <1>6. Less = 0..n
    <2>1. Less \in SUBSET (0..n)
      OBVIOUS
    <2>. HIDE DEF Less
    <2>. QED
      BY <1>0, <1>4, <1>5, <2>1, DownFrom
  <1>7. \A i \in 0..n : A(i) \in 0..(B(i) - 1)
    BY <1>6
  <1>8. A(0) \in 0..(Product(dims) - 1)
    <2>1. 0 \in 0..n
      BY <1>0
    <2>2. A(0) \in 0..(B(0) - 1)
      BY <1>7, <2>1
    <2>. QED
      BY <2>2, <1>1
  <1>. QED
    BY <1>7, <1>8, SkipsTerms DEF A, B, f, n

\* Lexicographic order of coordinates is the order of places.
LEMMA PlaceOrder ==
  ASSUME NEW dims \in Seq(Nat), NEW c \in Coordinates(dims), NEW d \in Coordinates(dims),
         NEW k \in 1..Len(dims), c[k] < d[k], \A j \in 1..(k - 1) : c[j] = d[j]
  PROVE  Place(dims, c) < Place(dims, d)
  <1>. DEFINE n == Len(dims)
              f == Skips(dims, c)
              g == Skips(dims, d)
              b == Below(dims, k)
  <1>0. n \in Nat /\ k \in 0..n /\ k - 1 \in 0..n /\ k \in 1..n
    OBVIOUS
  <1>1. Terms(f, n) /\ Terms(g, n)
        /\ Place(dims, c) = After(f, n, 0) /\ Place(dims, d) = After(g, n, 0)
    BY SkipsTerms
  <1>2. After(f, n, k) \in 0..(b - 1) /\ After(g, n, k) \in 0..(b - 1)
    BY <1>0, PlaceBelow
  <1>3. b \in Nat
    BY <1>0, BelowStep
  <1>4. \A j \in 1..(k - 1) : f[j] = g[j]
    BY DEF Skips
  <1>5. f[k] = c[k] * b /\ g[k] = d[k] * b
    BY DEF Skips
  <1>6. c[k] \in Nat /\ d[k] \in Nat
    BY DEF Coordinates
  <1>. HIDE DEF f, g, b, n
  <1>7. After(f, n, 0) - After(g, n, 0) = After(f, n, k - 1) - After(g, n, k - 1)
    BY <1>0, <1>1, <1>4, AfterDiffer
  <1>8. After(f, n, k - 1) = c[k] * b + After(f, n, k)
        /\ After(g, n, k - 1) = d[k] * b + After(g, n, k)
    BY <1>0, <1>1, <1>5, AfterStep, SMTT(20)
  <1>9. c[k] * b + b <= d[k] * b
    BY <1>3, <1>6, TimesLess
  <1>10. c[k] * b \in Int /\ d[k] * b \in Int
    BY <1>3, <1>6
  <1>11. After(f, n, 0) \in Int /\ After(g, n, 0) \in Int
    <2>1. 0 \in 0..n
      BY <1>0
    <2>. QED
      BY <1>1, <2>1, AfterStep
  <1>12. After(f, n, k - 1) < After(g, n, k - 1)
    BY <1>2, <1>3, <1>8, <1>9, <1>10, SMTT(20)
  <1>13. After(f, n, k - 1) \in Int /\ After(g, n, k - 1) \in Int
    BY <1>0, <1>1, AfterStep
  <1>. QED
    BY <1>1, <1>7, <1>11, <1>12, <1>13

\* The first axis on which two coordinates differ.
LEMMA FirstDifference ==
  ASSUME NEW dims \in Seq(Nat), NEW c \in Coordinates(dims), NEW d \in Coordinates(dims), c # d
  PROVE  \E k \in 1..Len(dims) : c[k] # d[k] /\ \A j \in 1..(k - 1) : c[j] = d[j]
  <1>. DEFINE Unlike == {i \in 1..Len(dims) : c[i] # d[i]}
  <1>1. Unlike \in SUBSET Nat
    OBVIOUS
  <1>2. Unlike # {}
    BY DEF Coordinates
  <1>3. PICK k \in Unlike : \A j \in Unlike : k <= j
    <2>. HIDE DEF Unlike
    <2>. QED
      BY <1>1, <1>2, LeastOf
  <1>4. ASSUME NEW j \in 1..(k - 1)  PROVE c[j] = d[j]
    <2>1. j \in 1..Len(dims) /\ ~(k <= j) /\ k \in 1..Len(dims)
      BY <1>3
    <2>2. j \notin Unlike
      <3>. HIDE DEF Unlike
      <3>. QED
        BY <1>3, <2>1
    <2>. QED
      BY <2>1, <2>2
  <1>. QED
    BY <1>3, <1>4

LEMMA PlaceUnique ==
  ASSUME NEW dims \in Seq(Nat), NEW c \in Coordinates(dims), NEW d \in Coordinates(dims),
         Place(dims, c) = Place(dims, d)
  PROVE  c = d
  <1>. SUFFICES ASSUME c # d  PROVE FALSE
    OBVIOUS
  <1>1. PICK k \in 1..Len(dims) : c[k] # d[k] /\ \A j \in 1..(k - 1) : c[j] = d[j]
    BY FirstDifference
  <1>2. c[k] \in Nat /\ d[k] \in Nat
    BY DEF Coordinates
  <1>3. Place(dims, c) \in Int
    BY PlaceBelow
  <1>4. CASE c[k] < d[k]
    <2>1. Place(dims, c) < Place(dims, d)
      BY <1>1, <1>4, PlaceOrder
    <2>. QED
      BY <2>1, <1>3
  <1>5. CASE d[k] < c[k]
    <2>1. Place(dims, d) < Place(dims, c)
      BY <1>1, <1>5, PlaceOrder
    <2>. QED
      BY <2>1, <1>3
  <1>. QED
    BY <1>1, <1>2, <1>4, <1>5

\* One digit: what is left of m before an axis is its digit, times the factor
\* of the axis, and what is left after it.
LEMMA DigitStep ==
  ASSUME NEW m \in Nat, NEW b \in Nat \ {0}, NEW len \in Nat \ {0}, NEW r \in 0..(len * b - 1),
         r = m \/ r = m % (len * b)
  PROVE  /\ r \div b \in 0..(len - 1)
         /\ r = b * (r \div b) + (m % b)
  <1>. DEFINE d == r \div b
              e == r % b
  <1>1. len * b \in Nat \ {0}
    BY TimesLess
  <1>2. r \in Nat
    BY <1>1
  <1>3. d \in Int /\ e \in 0..(b - 1) /\ r = b * d + e
    BY <1>2, DivIs
  <1>. HIDE DEF d, e
  <1>4. d >= 0
    <2>. SUFFICES ASSUME d <= -1  PROVE FALSE
      BY <1>3
    <2>1. b * d <= 0 - b
      <3>. DEFINE x == (0 - d) - 1
      <3>1. x \in Nat /\ d = 0 - 1 - x
        BY <1>3
      <3>. HIDE DEF x
      <3>2. b * d = 0 - b - b * x
        BY <3>1
      <3>3. b * x \in Nat
        BY <3>1
      <3>. QED
        BY <3>2, <3>3
    <2>2. b * d \in Int
      BY <1>3
    <2>. QED
      BY <2>1, <2>2, <1>2, <1>3
  <1>5. d < len
    <2>. SUFFICES ASSUME len <= d  PROVE FALSE
      BY <1>3
    <2>1. len * b <= d * b
      <3>1. d \in Nat
        BY <1>3, <1>4
      <3>2. CASE len = d
        BY <3>2, <1>1
      <3>3. CASE len < d
        <4>1. len * b + b <= d * b /\ len * b \in Nat /\ d * b \in Nat
          BY <3>1, <3>3, TimesLess
        <4>. QED
          BY <4>1
      <3>. QED
        BY <3>1, <3>2, <3>3
    <2>2. d * b = b * d /\ b * d \in Int
      BY <1>3
    <2>. DEFINE x == len * b
                y == b * d
    <2>3. x <= y /\ y \in Int /\ r \in 0..(x - 1) /\ r = y + e /\ x \in Nat
      BY <2>1, <2>2, <1>1, <1>3
    <2>. HIDE DEF x, y
    <2>. QED
      BY <2>3, <1>3
  <1>6. e = m % b
    <2>1. CASE r = m
      BY <2>1 DEF e
    <2>2. CASE r = m % (len * b)
      <3>. DEFINE q == m \div (len * b)
      <3>1. q \in Int /\ m = (len * b) * q + r
        <4>1. m \in Int /\ \A x \in Nat \ {0} : m \div x \in Int /\ m = x * (m \div x) + (m % x)
          BY DivIs
        <4>. QED
          BY <1>1, <2>2, <4>1
      <3>. HIDE DEF q
      <3>2. (len * b) * q = b * (len * q)
        BY <3>1
      <3>3. b * (len * q) + b * d = b * (len * q + d)
        BY <3>1, <1>3
      <3>4. len * q + d \in Int /\ b * (len * q) \in Int /\ b * d \in Int
        BY <3>1, <1>3
      <3>5. m = b * (len * q + d) + e
        BY <3>1, <3>2, <3>3, <3>4, <1>3
      <3>. QED
        BY <3>4, <3>5, <1>3, DivUnique
    <2>. QED
      BY <2>1, <2>2
  <1>7. r \div b \in 0..(len - 1)
    BY <1>3, <1>4, <1>5 DEF d
  <1>. QED
    BY <1>3, <1>6, <1>7 DEF d

\* The digits of a place are coordinates, and theirs is that place.
LEMMA PlaceOfDigits ==
  ASSUME NEW dims \in Seq(Nat), NEW m \in 0..(Product(dims) - 1)
  PROVE  /\ Digits(Factors(dims), m) \in Coordinates(dims)
         /\ Place(dims, Digits(Factors(dims), m)) = m
  <1>. DEFINE n == Len(dims)
              B(i) == Below(dims, i)
              R(i) == IF i = 0 THEN m ELSE m % B(i)
              c == Digits(Factors(dims), m)
              f == Skips(dims, c)
              A(i) == After(f, n, i)
              Left == {i \in 0..n : A(i) = R(i)}
  <1>0. n \in Nat /\ m \in Nat
    BY BelowStep
  <1>1. Product(dims) # 0
    BY BelowStep
  <1>2. /\ \A i \in 0..n : B(i) \in Nat \ {0}
        /\ \A i \in 1..n : B(i - 1) = dims[i] * B(i)
        /\ B(n) = 1 /\ B(0) = Product(dims)
    BY <1>1, BelowStep, NoEmptyAxis
  <1>3. \A i \in 1..n : dims[i] \in Nat \ {0}
    BY <1>1, NoEmptyAxis
  <1>4. \A i \in 0..n : R(i) \in 0..(B(i) - 1)
    <2>1. ASSUME NEW i \in 0..n, i # 0  PROVE m % B(i) \in 0..(B(i) - 1)
      <3>1. B(i) \in Nat \ {0}
        BY <1>2
      <3>2. m \in Int
        BY <1>0
      <3>. HIDE DEF B
      <3>. QED
        BY <3>1, <3>2, DivIs
    <2>2. m \in 0..(B(0) - 1)
      BY <1>2
    <2>. HIDE DEF B
    <2>. QED
      BY <2>1, <2>2
  <1>5. c \in [1..n -> Int] /\ \A i \in 1..n : c[i] = R(i - 1) \div B(i)
    <2>1. c = [i \in 1..n |-> IF m = 0 THEN 0 ELSE (IF i = 1 THEN m ELSE m % B(i - 1)) \div B(i)]
      <3>1. DOMAIN Factors(dims) = 1..n /\ \A i \in 1..n : Factors(dims)[i] = B(i)
        BY DEF Factors
      <3>2. \A i \in 1..n : i = 1 \/ i - 1 \in 1..n
        BY <1>0
      <3>. QED
        BY <3>1, <3>2 DEF Digits
    <2>2. ASSUME NEW i \in 1..n
          PROVE  c[i] = R(i - 1) \div B(i) /\ c[i] \in Int
      <3>1. i - 1 \in 0..n /\ i \in 0..n /\ (i - 1 = 0 <=> i = 1)
        BY <1>0
      <3>2. R(i - 1) \in Int /\ B(i) \in Nat \ {0} /\ B(i - 1) \in Nat \ {0}
        BY <1>2, <1>4, <3>1
      <3>3. R(i - 1) \div B(i) \in Int
        <4>. HIDE DEF R, B
        <4>. QED
          BY <3>2, DivIs
      <3>4. m = 0 => R(i - 1) = 0 /\ 0 \div B(i) = 0
        <4>1. \A b \in Nat \ {0} : 0 % b = 0 /\ 0 \div b = 0
          OBVIOUS
        <4>. HIDE DEF B
        <4>. QED
          BY <4>1, <3>2
      <3>5. c[i] = IF m = 0 THEN 0 ELSE R(i - 1) \div B(i)
        <4>. HIDE DEF c, B, n
        <4>. QED
          BY <2>1, <3>1
      <3>. HIDE DEF c, B, R, n
      <3>. QED
        BY <3>3, <3>4, <3>5
    <2>. HIDE DEF R, B, n
    <2>. QED
      BY <2>1, <2>2
  <1>6. ASSUME NEW i \in 1..n
        PROVE  c[i] \in 0..(dims[i] - 1) /\ R(i - 1) = B(i) * c[i] + R(i)
    <2>1. i \in 0..n /\ i - 1 \in 0..n /\ i # 0 /\ (i - 1 = 0 <=> i = 1)
      BY <1>0
    <2>2. R(i - 1) = m \/ R(i - 1) = m % (dims[i] * B(i))
      BY <1>2
    <2>3. R(i - 1) \in 0..(dims[i] * B(i) - 1)
      <3>1. R(i - 1) \in 0..(B(i - 1) - 1) /\ B(i - 1) = dims[i] * B(i)
        BY <1>2, <1>4, <2>1
      <3>. QED
        BY <3>1
    <2>4. B(i) \in Nat \ {0} /\ dims[i] \in Nat \ {0}
      BY <1>2, <1>3, <2>1
    <2>5. /\ R(i - 1) \div B(i) \in 0..(dims[i] - 1)
          /\ R(i - 1) = B(i) * (R(i - 1) \div B(i)) + (m % B(i))
      <3>. HIDE DEF R, B, n
      <3>. QED
        BY <1>0, <2>2, <2>3, <2>4, DigitStep
    <2>6. R(i) = m % B(i)
      BY <2>1
    <2>7. c[i] = R(i - 1) \div B(i)
      BY <1>5
    <2>. HIDE DEF R, B, n, c
    <2>. QED
      BY <2>5, <2>6, <2>7
  <1>7. c \in Coordinates(dims)
    <2>1. \A i \in 1..n : c[i] \in Nat /\ c[i] < dims[i]
      <3>. HIDE DEF c, R
      <3>. QED
        BY <1>3, <1>6
    <2>2. DOMAIN c = 1..n /\ c = [i \in 1..n |-> c[i]]
      <3>. HIDE DEF c
      <3>. QED
        BY <1>5
    <2>. HIDE DEF c
    <2>. QED
      BY <2>1, <2>2 DEF Coordinates
  <1>8. Terms(f, n) /\ Place(dims, c) = A(0)
    <2>. HIDE DEF c
    <2>. QED
      BY <1>7, SkipsTerms
  <1>9. \A i \in 1..n : f[i] = c[i] * B(i)
    BY DEF Skips
  <1>10. A(n) = 0 /\ \A i \in 1..n : A(i - 1) = c[i] * B(i) + A(i)
    <2>. HIDE DEF f, n, c, B
    <2>. QED
      BY <1>8, <1>9, AfterStep
  <1>11. n \in Left
    <2>1. m % 1 = 0
      BY <1>0
    <2>2. n = 0 => m = 0
      BY <1>2
    <2>3. R(n) = 0
      BY <1>2, <2>1, <2>2
    <2>. HIDE DEF A, R
    <2>. QED
      BY <1>0, <1>10, <2>3
  <1>12. ASSUME NEW i \in 1..n, i \in Left  PROVE i - 1 \in Left
    <2>1. i - 1 \in 0..n /\ i \in 0..n
      BY <1>0
    <2>2. A(i) = R(i) /\ A(i - 1) = c[i] * B(i) + A(i) /\ R(i - 1) = B(i) * c[i] + R(i)
      <3>. HIDE DEF A, B, R, c, n
      <3>. QED
        BY <1>6, <1>10, <1>12
    <2>. HIDE DEF A, B, R, c, n
    <2>3. c[i] \in Int /\ B(i) \in Int
      <3>1. c[i] \in Int
        BY <1>5
      <3>2. B(i) \in Nat \ {0}
        BY <1>2, <2>1
      <3>. QED
        BY <3>1, <3>2
    <2>4. c[i] * B(i) = B(i) * c[i]
      BY <2>3
    <2>. QED
      BY <2>1, <2>2, <2>4
  <1>13. Left = 0..n
    <2>1. Left \in SUBSET (0..n)
      OBVIOUS
    <2>. HIDE DEF Left, n
    <2>. QED
      BY <1>0, <1>11, <1>12, <2>1, DownFrom
  <1>14. A(0) = R(0)
    <2>1. 0 \in 0..n
      BY <1>0
    <2>. HIDE DEF A, R, n
    <2>. QED
      BY <1>13, <2>1
  <1>. QED
    BY <1>7, <1>8, <1>14

-----------------------------------------------------------------------------
(* One step of the odometer.                                               *)

\* The terms of an address: coordinates times strides.
Reach(c, s, n) == [i \in 1..n |-> c[i] * s[i]]

\* Back to the start of the axes after axis k.
Back(dims, s) == [i \in 1..Len(dims) |-> s[i] * (dims[i] - 1)]

Stepped(c, k, n) == [i \in 1..n |-> CASE i < k -> c[i] [] i = k -> c[i] + 1 [] i > k -> 0]

LEMMA ReachTerms ==
  ASSUME NEW dims \in Seq(Nat), NEW c \in Coordinates(dims), NEW s \in [1..Len(dims) -> Int]
  PROVE  Terms(Reach(c, s, Len(dims)), Len(dims))
  <1>1. ASSUME NEW i \in 1..Len(dims)  PROVE c[i] * s[i] \in Int
    BY DEF Coordinates
  <1>. QED
    BY <1>1 DEF Terms, Reach

\* At the ends of the axes after axis k only one element is left before the
\* next step along it.
LEMMA AtTheEnds ==
  ASSUME NEW dims \in Seq(Nat), NEW c \in Coordinates(dims), NEW k \in 0..Len(dims),
         \A i \in (k + 1)..Len(dims) : c[i] = dims[i] - 1
  PROVE  After(Skips(dims, c), Len(dims), k) = Below(dims, k) - 1
  <1>. DEFINE n == Len(dims)
              f == Skips(dims, c)
              A(i) == After(f, n, i)
              B(i) == Below(dims, i)
              Full == {d \in 0..(n - k) : A(n - d) = B(n - d) - 1}
  <1>0. n \in Nat /\ k \in Nat /\ k <= n /\ n - k \in Nat
    OBVIOUS
  <1>1. /\ \A i \in 0..n : B(i) \in Nat
        /\ \A i \in 1..n : B(i - 1) = dims[i] * B(i)
        /\ B(n) = 1
    BY BelowStep
  <1>2. A(n) = 0 /\ \A i \in 1..n : A(i - 1) = c[i] * B(i) + A(i)
    <2>1. \A i \in 1..n : f[i] = c[i] * B(i)
      BY DEF Skips
    <2>2. Terms(f, n)
      BY SkipsTerms
    <2>. HIDE DEF f, n
    <2>. QED
      BY <2>1, <2>2, AfterStep
  <1>3. 0 \in Full
    <2>1. n - 0 = n
      BY <1>0
    <2>. HIDE DEF A, B, n
    <2>. QED
      BY <1>0, <1>1, <1>2, <2>1
  <1>4. ASSUME NEW d \in 1..(n - k), d - 1 \in Full  PROVE d \in Full
    <2>. DEFINE i == n - (d - 1)
    <2>1. i \in 1..n /\ i \in 0..n /\ i \in (k + 1)..n /\ i - 1 = n - d /\ d \in 0..(n - k)
      BY <1>0
    <2>2. A(i) = B(i) - 1
      BY <1>4
    <2>. HIDE DEF i, Full
    <2>3. c[i] = dims[i] - 1 /\ dims[i] \in Nat
      BY <2>1
    <2>. HIDE DEF A, B, n
    <2>4. A(i - 1) = c[i] * B(i) + A(i) /\ B(i - 1) = dims[i] * B(i) /\ B(i) \in Nat
      BY <1>1, <1>2, <2>1
    <2>. DEFINE x == c[i] * B(i)
                y == dims[i] * B(i)
    <2>5. x = y - B(i) /\ y \in Nat
      BY <2>3, <2>4, SMTT(20)
    <2>5a. A(i - 1) = x + A(i) /\ B(i - 1) = y
      BY <2>4
    <2>. HIDE DEF x, y
    <2>6. A(i - 1) = B(i - 1) - 1
      BY <2>2, <2>4, <2>5, <2>5a
    <2>7. A(n - d) = B(n - d) - 1
      BY <2>1, <2>6
    <2>. QED
      BY <2>1, <2>7 DEF Full
  <1>5. Full = 0..(n - k)
    <2>1. Full \in SUBSET (0..(n - k))
      OBVIOUS
    <2>. HIDE DEF Full, n
    <2>. QED
      BY <1>0, <1>3, <1>4, <2>1, UpTo
  <1>6. n - k \in Full /\ n - (n - k) = k
    <2>1. n - k \in 0..(n - k) /\ n - (n - k) = k
      BY <1>0
    <2>. HIDE DEF Full, n
    <2>. QED
      BY <1>5, <2>1
  <1>7. A(n - (n - k)) = B(n - (n - k)) - 1
    BY <1>6
  <1>. QED
    BY <1>6, <1>7

\* A step along axis k from the ends of the axes after it moves by the stride
\* of axis k and all the way back along the others.
LEMMA StepMoves ==
  ASSUME NEW dims \in Seq(Nat), NEW c \in Coordinates(dims), NEW s \in [1..Len(dims) -> Int],
         NEW k \in 1..Len(dims), c[k] < dims[k] - 1,
         \A i \in (k + 1)..Len(dims) : c[i] = dims[i] - 1
  PROVE  /\ Stepped(c, k, Len(dims)) \in Coordinates(dims)
         /\ After(Back(dims, s), Len(dims), k) \in Int
         /\ SumFunction(Reach(c, s, Len(dims))) \in Int
         /\ SumFunction(Reach(Stepped(c, k, Len(dims)), s, Len(dims)))
              = SumFunction(Reach(c, s, Len(dims))) - After(Back(dims, s), Len(dims), k) + s[k]
  <1>. DEFINE n == Len(dims)
              e == Stepped(c, k, n)
              f == Reach(c, s, n)
              g == Reach(e, s, n)
              b == Back(dims, s)
  <1>0. n \in Nat /\ k \in 1..n /\ k \in 0..n /\ k - 1 \in 0..n /\ 0 \in 0..n
    OBVIOUS
  <1>1. \A i \in 1..n : c[i] \in Nat /\ dims[i] \in Nat /\ c[i] < dims[i] /\ s[i] \in Int
    BY DEF Coordinates
  <1>2. \A i \in 1..n : e[i] = IF i < k THEN c[i] ELSE IF i = k THEN c[i] + 1 ELSE 0
    <2>1. ASSUME NEW i \in 1..n
          PROVE  (CASE i < k -> c[i] [] i = k -> c[i] + 1 [] i > k -> 0)
                   = IF i < k THEN c[i] ELSE IF i = k THEN c[i] + 1 ELSE 0
      <3>1. i < k \/ i = k \/ i > k
        OBVIOUS
      <3>. QED
        BY <3>1
    <2>. QED
      BY <2>1 DEF Stepped
  <1>3. e \in Coordinates(dims)
    <2>1. ASSUME NEW i \in 1..n  PROVE e[i] \in Nat /\ e[i] < dims[i]
      <3>1. e[i] = IF i < k THEN c[i] ELSE IF i = k THEN c[i] + 1 ELSE 0
        BY <1>2
      <3>2. c[i] \in Nat /\ dims[i] \in Nat /\ c[i] < dims[i]
        BY <1>1
      <3>3. i = k => c[i] < dims[i] - 1
        OBVIOUS
      <3>. HIDE DEF e, n
      <3>. QED
        BY <3>1, <3>2, <3>3
    <2>2. e = [i \in 1..n |-> e[i]]
      BY DEF Stepped
    <2>. HIDE DEF e
    <2>. QED
      BY <2>1, <2>2 DEF Coordinates
  <1>4. Terms(f, n) /\ Terms(g, n)
    <2>. HIDE DEF e
    <2>. QED
      BY <1>3, ReachTerms
  <1>5. Terms(b, n)
    <2>1. ASSUME NEW i \in 1..n  PROVE s[i] * (dims[i] - 1) \in Int
      BY <1>1
    <2>. QED
      BY <2>1 DEF Terms, Back
  <1>6. SumFunction(f) = After(f, n, 0) /\ SumFunction(g) = After(g, n, 0)
    <2>1. f = [j \in 1..n |-> f[j]] /\ g = [j \in 1..n |-> g[j]]
      BY DEF Reach
    <2>. HIDE DEF f, g, n
    <2>. QED
      BY <1>0, <2>1, AfterAll
  <1>7. \A i \in 1..n : f[i] = c[i] * s[i] /\ g[i] = e[i] * s[i] /\ b[i] = s[i] * (dims[i] - 1)
    BY DEF Reach, Back
  <1>. HIDE DEF n, e, f, g, b
  <1>8. After(f, n, k) = After(b, n, k)
    <2>1. ASSUME NEW i \in (k + 1)..n  PROVE f[i] = b[i]
      <3>1. i \in 1..n /\ c[i] = dims[i] - 1
        BY <1>0 DEF n
      <3>2. c[i] * s[i] = s[i] * (dims[i] - 1)
        BY <1>1, <3>1
      <3>. QED
        BY <1>7, <3>1, <3>2
    <2>. QED
      BY <1>0, <2>1, AfterSame
  <1>9. After(g, n, k) = 0
    <2>1. ASSUME NEW i \in (k + 1)..n  PROVE g[i] = 0
      <3>1. i \in 1..n /\ e[i] = 0
        BY <1>0, <1>2
      <3>2. 0 * s[i] = 0
        BY <1>1, <3>1
      <3>. QED
        BY <1>7, <3>1, <3>2
    <2>. QED
      BY <1>0, <2>1, AfterZero
  <1>10. After(g, n, 0) - After(f, n, 0) = After(g, n, k - 1) - After(f, n, k - 1)
    <2>1. ASSUME NEW i \in 1..(k - 1)  PROVE g[i] = f[i]
      <3>1. i \in 1..n /\ e[i] = c[i]
        BY <1>0, <1>2
      <3>. QED
        BY <1>7, <3>1
    <2>. QED
      BY <1>0, <1>4, <2>1, AfterDiffer
  <1>11. /\ After(g, n, k - 1) = (c[k] + 1) * s[k] + After(g, n, k)
         /\ After(f, n, k - 1) = c[k] * s[k] + After(f, n, k)
    <2>1. e[k] = c[k] + 1
      BY <1>0, <1>2
    <2>2. f[k] = c[k] * s[k] /\ g[k] = (c[k] + 1) * s[k]
      BY <1>0, <1>7, <2>1
    <2>. QED
      BY <1>0, <1>4, <2>2, AfterStep
  <1>12. (c[k] + 1) * s[k] = c[k] * s[k] + s[k] /\ c[k] * s[k] \in Int /\ s[k] \in Int
    BY <1>0, <1>1
  <1>13. After(f, n, 0) \in Int /\ After(g, n, 0) \in Int /\ After(b, n, k) \in Int
    BY <1>0, <1>4, <1>5, AfterStep
  <1>14. After(g, n, 0) = After(f, n, 0) - After(b, n, k) + s[k]
    <2>. DEFINE x == c[k] * s[k]
    <2>1. After(g, n, k - 1) = x + s[k] + 0 /\ After(f, n, k - 1) = x + After(b, n, k)
      BY <1>8, <1>9, <1>11, <1>12
    <2>2. x \in Int /\ s[k] \in Int
      BY <1>12
    <2>. DEFINE f0 == After(f, n, 0)
                g0 == After(g, n, 0)
                b0 == After(b, n, k)
    <2>. HIDE DEF x
    <2>3. f0 \in Int /\ g0 \in Int /\ b0 \in Int /\ g0 - f0 = (x + s[k] + 0) - (x + b0)
      BY <1>10, <1>13, <2>1
    <2>. HIDE DEF f0, g0, b0
    <2>4. g0 = f0 - b0 + s[k]
      BY <2>2, <2>3, SMTT(20)
    <2>. QED
      BY <2>4 DEF f0, g0, b0
  <1>. QED
    BY <1>3, <1>6, <1>13, <1>14 DEF n, e, f, g, b

\* The next place is one step along the last axis that is not at its end.
LEMMA StepIsNext ==
  ASSUME NEW dims \in Seq(Nat), NEW c \in Coordinates(dims),
         NEW k \in 1..Len(dims), c[k] < dims[k] - 1,
         \A i \in (k + 1)..Len(dims) : c[i] = dims[i] - 1
  PROVE  Place(dims, Stepped(c, k, Len(dims))) = Place(dims, c) + 1
  <1>. DEFINE n == Len(dims)
              s == Factors(dims)
              e == Stepped(c, k, n)
  <1>0. n \in Nat /\ k \in 0..n /\ k \in 1..n
    OBVIOUS
  <1>1. (\A i \in 0..n : Below(dims, i) \in Nat) /\ Below(dims, n) = 1
        /\ \A i \in 1..n : Below(dims, i - 1) = dims[i] * Below(dims, i)
    BY BelowStep
  <1>2. s \in [1..n -> Int] /\ s[k] = Below(dims, k)
    <2>1. \A i \in 1..n : Below(dims, i) \in Int
      BY <1>1
    <2>. QED
      BY <2>1 DEF Factors
  <1>3. \A d : Reach(d, s, n) = Skips(dims, d)
    BY DEF Reach, Skips, Factors
  <1>4. Place(dims, e) = Place(dims, c) - After(Back(dims, s), n, k) + s[k]
        /\ Place(dims, c) \in Int
    <2>1. /\ SumFunction(Reach(c, s, n)) \in Int
          /\ SumFunction(Reach(e, s, n))
               = SumFunction(Reach(c, s, n)) - After(Back(dims, s), n, k) + s[k]
      <3>. HIDE DEF s
      <3>. QED
        BY <1>2, StepMoves
    <2>. QED
      BY <1>3, <2>1 DEF Place
  <1>5. After(Back(dims, s), n, k) = After(Skips(dims, c), n, k)
    <2>1. ASSUME NEW i \in (k + 1)..n  PROVE Back(dims, s)[i] = Skips(dims, c)[i]
      <3>1. i \in 1..n /\ i \in 0..n /\ c[i] = dims[i] - 1 /\ dims[i] \in Nat
        BY <1>0
      <3>2. Below(dims, i) \in Nat
        BY <1>1, <3>1
      <3>3. Below(dims, i) * (dims[i] - 1) = (dims[i] - 1) * Below(dims, i)
        BY <3>1, <3>2
      <3>. QED
        BY <3>1, <3>3 DEF Back, Skips, Factors
    <2>. HIDE DEF n, s
    <2>. QED
      BY <1>0, <2>1, AfterSame
  <1>6. After(Skips(dims, c), n, k) = Below(dims, k) - 1
    BY <1>0, AtTheEnds
  <1>7. Below(dims, k) \in Nat
    BY <1>0, <1>1
  <1>. HIDE DEF s, n, e
  <1>8. Place(dims, e) = Place(dims, c) + 1
    BY <1>2, <1>4, <1>5, <1>6, <1>7
  <1>. QED
    BY <1>8 DEF e, n
-----------------------------------------------------------------------------
(* Moves of elements.                                                      *)

\* Among addresses D, no address is moved to twice, and none both to and from.
Clean(T, D) ==
  /\ \A r \in T : r[1] \in D /\ r[2] \in D
  /\ \A r, t \in T : r[1] = t[1] => r[2] = t[2]
  /\ \A r, t \in T : r[1] # t[2]

\* w is a memory over the addresses of m.
Over(w, m) == w = [x \in DOMAIN m |-> w[x]]

\* w is m after the moves R.
Fills(w, m, R) ==
  /\ Over(w, m)
  /\ \A r \in R : w[r[1]] = m[r[2]]
  /\ \A x \in DOMAIN m : (\A r \in R : r[1] # x) => w[x] = m[x]

LEMMA FillsNone ==
  ASSUME NEW m, Over(m, m)
  PROVE  Fills(m, m, {})
  BY DEF Fills, Over

LEMMA FillsOne ==
  ASSUME NEW m, Over(m, m), NEW to \in DOMAIN m, NEW from
  PROVE  Fills([m EXCEPT ![to] = m[from]], m, {<<to, from>>})
  <1>. DEFINE w == [m EXCEPT ![to] = m[from]]
              r == <<to, from>>
  <1>1. r[1] = to /\ r[2] = from
    OBVIOUS
  <1>2. w = [x \in DOMAIN m |-> w[x]] /\ w[to] = m[from]
    OBVIOUS
  <1>3. \A x \in DOMAIN m : x # to => w[x] = m[x]
    OBVIOUS
  <1>. HIDE DEF w, r
  <1>4. Fills(w, m, {r})
    BY <1>1, <1>2, <1>3 DEF Fills, Over
  <1>. QED
    BY <1>4 DEF w, r

\* Moves one set after the other are the moves of both.
LEMMA FillsBoth ==
  ASSUME NEW m, NEW v, NEW w, NEW R, NEW S, Clean(R \cup S, DOMAIN m), Fills(v, m, R), Fills(w, v, S)
  PROVE  Fills(w, m, R \cup S)
  <1>0. DOMAIN v = DOMAIN m
    BY DEF Fills, Over
  <1>1. w = [x \in DOMAIN m |-> w[x]]
    BY <1>0 DEF Fills, Over
  <1>2. ASSUME NEW r \in S  PROVE w[r[1]] = m[r[2]]
    <2>1. r[2] \in DOMAIN m /\ \A t \in R : t[1] # r[2]
      BY DEF Clean
    <2>2. v[r[2]] = m[r[2]]
      BY <2>1 DEF Fills, Over
    <2>. QED
      BY <2>2 DEF Fills, Over
  <1>3. ASSUME NEW r \in R  PROVE w[r[1]] = m[r[2]]
    <2>1. CASE \E t \in S : t[1] = r[1]
      <3>1. PICK t \in S : t[1] = r[1]
        BY <2>1
      <3>2. t[2] = r[2]
        BY <3>1 DEF Clean
      <3>. QED
        BY <1>2, <3>1, <3>2
    <2>2. CASE ~\E t \in S : t[1] = r[1]
      <3>1. r[1] \in DOMAIN v
        BY <1>0 DEF Clean
      <3>2. w[r[1]] = v[r[1]]
        BY <2>2, <3>1 DEF Fills, Over
      <3>. QED
        BY <3>2 DEF Fills, Over
    <2>. QED
      BY <2>1, <2>2
  <1>4. ASSUME NEW x \in DOMAIN m, \A r \in R \cup S : r[1] # x  PROVE w[x] = m[x]
    <2>1. v[x] = m[x]
      BY <1>4 DEF Fills, Over
    <2>2. w[x] = v[x]
      BY <1>0, <1>4 DEF Fills, Over
    <2>. QED
      BY <2>1, <2>2
  <1>5. \A r \in R \cup S : w[r[1]] = m[r[2]]
    BY <1>2, <1>3
  <1>. QED
    BY <1>1, <1>4, <1>5 DEF Fills, Over

\* The moves say all of what is left.
LEMMA FillsSame ==
  ASSUME NEW m, NEW v, NEW w, NEW R, Fills(v, m, R), Fills(w, m, R)
  PROVE  v = w
  <1>1. v = [x \in DOMAIN m |-> v[x]] /\ w = [x \in DOMAIN m |-> w[x]]
    BY DEF Fills, Over
  <1>2. ASSUME NEW x \in DOMAIN m  PROVE v[x] = w[x]
    <2>1. CASE \E r \in R : r[1] = x
      <3>1. PICK r \in R : r[1] = x
        BY <2>1
      <3>2. v[r[1]] = m[r[2]] /\ w[r[1]] = m[r[2]]
        BY DEF Fills, Over
      <3>. QED
        BY <3>1, <3>2
    <2>2. CASE ~\E r \in R : r[1] = x
      BY <2>2 DEF Fills, Over
    <2>. QED
      BY <2>1, <2>2
  <1>. QED
    BY <1>1, <1>2

LEMMA CleanPart ==
  ASSUME NEW T, NEW D, Clean(T, D), NEW R, R \subseteq T
  PROVE  Clean(R, D)
  BY DEF Clean

\* The first k groups of moves.
Gathered(G, k) == UNION {G[j] : j \in 1..k}

\* Moves one group after another, the groups numbered from 1.
LEMMA FillsInTurn ==
  ASSUME NEW n \in Nat, NEW m, Over(m, m), NEW T, Clean(T, DOMAIN m),
         NEW G, \A k \in 1..n : G[k] \subseteq T,
         NEW f, f[0] = m, \A k \in 1..n : Over(f[k - 1], m) => Fills(f[k], f[k - 1], G[k])
  PROVE  Fills(f[n], m, Gathered(G, n))
  <1>. DEFINE Right == {k \in 0..n : Fills(f[k], m, Gathered(G, k))}
  <1>1. 0 \in Right
    <2>1. Gathered(G, 0) = {}
      BY DEF Gathered
    <2>. QED
      BY <2>1, FillsNone
  <1>2. ASSUME NEW k \in 1..n, k - 1 \in Right  PROVE k \in Right
    <2>1. Gathered(G, k) = Gathered(G, k - 1) \cup G[k]
      <3>1. \A j \in 1..k : j = k \/ j \in 1..(k - 1)
        OBVIOUS
      <3>2. k \in 1..k /\ \A j \in 1..(k - 1) : j \in 1..k
        OBVIOUS
      <3>. QED
        BY <3>1, <3>2 DEF Gathered
    <2>2. Gathered(G, k) \subseteq T
      <3>1. \A j \in 1..k : j \in 1..n
        OBVIOUS
      <3>. QED
        BY <3>1 DEF Gathered
    <2>3. Fills(f[k - 1], m, Gathered(G, k - 1))
      BY <1>2
    <2>4. Clean(Gathered(G, k - 1) \cup G[k], DOMAIN m)
      BY <2>1, <2>2, CleanPart
    <2>5. Fills(f[k], f[k - 1], G[k])
      BY <2>3 DEF Fills
    <2>6. Fills(f[k], m, Gathered(G, k - 1) \cup G[k])
      BY <2>3, <2>4, <2>5, FillsBoth
    <2>7. Fills(f[k], m, Gathered(G, k))
      BY <2>1, <2>6, Zenon
    <2>. QED
      BY <2>7
  <1>3. Right = 0..n
    <2>1. Right \in SUBSET (0..n)
      OBVIOUS
    <2>. HIDE DEF Right
    <2>. QED
      BY <1>1, <1>2, <2>1, UpTo
  <1>4. n \in Right
    <2>. HIDE DEF Right
    <2>. QED
      BY <1>3
  <1>. QED
    BY <1>4

-----------------------------------------------------------------------------
(* A strided copy.                                                         *)

StridedSteps(f, m, dst, outstrides, src, instrides, n) ==
  f = [k \in 0..n |->
         IF k = 0 THEN m
         ELSE [f[k - 1] EXCEPT ![dst + (k - 1) * outstrides] = f[k - 1][src + (k - 1) * instrides]]]

LEMMA StridedCopyIs ==
  ASSUME NEW m, NEW dst, NEW outstrides, NEW src, NEW instrides, NEW n
  PROVE  StridedCopy(m, dst, outstrides, src, instrides, n)
           = (CHOOSE f : StridedSteps(f, m, dst, outstrides, src, instrides, n))[n]
  BY Zenon DEF StridedCopy, StridedSteps

LEMMA StridedStepsExist ==
  ASSUME NEW m, NEW dst, NEW outstrides, NEW src, NEW instrides, NEW n \in Nat
  PROVE  \E f : StridedSteps(f, m, dst, outstrides, src, instrides, n)
  <1>. DEFINE Onward(w, k) == [w EXCEPT ![dst + (k - 1) * outstrides] = w[src + (k - 1) * instrides]]
              Has(f, l) == StridedSteps(f, m, dst, outstrides, src, instrides, l)
              Upto == {l \in 0..n : \E f : Has(f, l)}
  <1>1. 0 \in Upto
    <2>. DEFINE f == [k \in 0..0 |-> m]
    <2>1. \A k \in 0..0 : k = 0
      OBVIOUS
    <2>2. Has(f, 0)
      BY <2>1 DEF StridedSteps
    <2>. QED
      BY <2>2
  <1>2. ASSUME NEW l \in 1..n, l - 1 \in Upto  PROVE l \in Upto
    <2>1. PICK f : Has(f, l - 1)
      BY <1>2
    <2>. DEFINE g == [k \in 0..l |-> IF k = l THEN Onward(f[l - 1], l) ELSE f[k]]
    <2>2. \A k \in 0..(l - 1) : k \in 0..l /\ k # l /\ g[k] = f[k]
      OBVIOUS
    <2>3. l \in 0..l /\ l # 0 /\ g[l] = Onward(f[l - 1], l) /\ l - 1 \in 0..(l - 1) /\ 0 \in 0..(l - 1)
      OBVIOUS
    <2>4. \A k \in 0..l : k # l => k \in 0..(l - 1) /\ (k # 0 => k - 1 \in 0..(l - 1))
      OBVIOUS
    <2>5. g = [k \in 0..l |-> g[k]]
      OBVIOUS
    <2>. HIDE DEF g
    <2>6. ASSUME NEW k \in 0..l  PROVE g[k] = IF k = 0 THEN m ELSE Onward(g[k - 1], k)
      <3>1. CASE k = l
        <4>1. l - 1 \in 0..(l - 1) /\ g[l - 1] = f[l - 1]
          BY <2>2, <2>3
        <4>. QED
          BY <2>3, <3>1, <4>1
      <3>2. CASE k # l
        <4>1. f[k] = IF k = 0 THEN m ELSE Onward(f[k - 1], k)
          BY <2>1, <2>4, <3>2 DEF StridedSteps
        <4>. HIDE DEF Onward
        <4>. QED
          BY <2>2, <2>4, <3>2, <4>1
      <3>. QED
        BY <3>1, <3>2
    <2>7. Has(g, l)
      BY <2>5, <2>6 DEF StridedSteps
    <2>. QED
      BY <2>7
  <1>3. Upto = 0..n
    <2>1. Upto \in SUBSET (0..n)
      OBVIOUS
    <2>. HIDE DEF Upto
    <2>. QED
      BY <1>1, <1>2, <2>1, UpTo
  <1>4. n \in Upto
    <2>. HIDE DEF Upto
    <2>. QED
      BY <1>3
  <1>5. PICK f : Has(f, n)
    BY <1>4
  <1>. QED
    BY <1>5

\* One move.
Put(w, to, from) == [w EXCEPT ![to] = w[from]]

\* The moves of a strided copy.
Row(dst, outstrides, src, instrides, n) ==
  {<<dst + j * outstrides, src + j * instrides>> : j \in 0..(n - 1)}

LEMMA StridedMoves ==
  ASSUME NEW m, Over(m, m), NEW T, Clean(T, DOMAIN m), NEW n \in Nat,
         NEW dst, NEW outstrides, NEW src, NEW instrides,
         Row(dst, outstrides, src, instrides, n) \subseteq T
  PROVE  Fills(StridedCopy(m, dst, outstrides, src, instrides, n), m,
               Row(dst, outstrides, src, instrides, n))
  <1>. DEFINE f == CHOOSE g : StridedSteps(g, m, dst, outstrides, src, instrides, n)
              To(k) == dst + (k - 1) * outstrides
              From(k) == src + (k - 1) * instrides
              G == [k \in 1..n |-> {<<To(k), From(k)>>}]
  <1>1. StridedSteps(f, m, dst, outstrides, src, instrides, n)
    BY StridedStepsExist
  <1>2. StridedCopy(m, dst, outstrides, src, instrides, n) = f[n]
    BY StridedCopyIs
  <1>. HIDE DEF f
  <1>3. f[0] = m
    BY <1>1 DEF StridedSteps
  <1>4. ASSUME NEW k \in 1..n  PROVE f[k] = Put(f[k - 1], To(k), From(k)) /\ k \in 0..n
    <2>1. k \in 0..n /\ k # 0
      OBVIOUS
    <2>. QED
      BY <1>1, <2>1 DEF StridedSteps, Put
  <1>5. Gathered(G, n) = Row(dst, outstrides, src, instrides, n)
    <2>1. ASSUME NEW j \in 0..(n - 1)
          PROVE  j + 1 \in 1..n /\ <<dst + j * outstrides, src + j * instrides>> \in G[j + 1]
      <3>1. j + 1 \in 1..n /\ (j + 1) - 1 = j
        OBVIOUS
      <3>. QED
        BY <3>1
    <2>2. ASSUME NEW k \in 1..n
          PROVE  \E j \in 0..(n - 1) : G[k] = {<<dst + j * outstrides, src + j * instrides>>}
      <3>1. k - 1 \in 0..(n - 1)
        OBVIOUS
      <3>. QED
        BY <3>1
    <2>. HIDE DEF G
    <2>. QED
      BY <2>1, <2>2 DEF Gathered, Row
  <1>6. ASSUME NEW k \in 1..n  PROVE G[k] \subseteq T /\ To(k) \in DOMAIN m
    <2>1. G[k] \subseteq Gathered(G, n)
      <3>. HIDE DEF G
      <3>. QED
        BY DEF Gathered
    <2>2. G[k] \subseteq T
      BY <1>5, <2>1
    <2>. DEFINE r == <<To(k), From(k)>>
    <2>3. r \in T /\ r[1] = To(k)
      BY <2>2
    <2>. HIDE DEF r, To, From, G
    <2>. QED
      BY <2>2, <2>3 DEF Clean
  <1>7. ASSUME NEW k \in 1..n, Over(f[k - 1], m)  PROVE Fills(f[k], f[k - 1], G[k])
    <2>. DEFINE v == f[k - 1]
                x == To(k)
                y == From(k)
    <2>1. G[k] = {<<x, y>>} /\ f[k] = Put(v, x, y) /\ x \in DOMAIN m
      BY <1>4, <1>6
    <2>2. Over(v, m)
      BY <1>7
    <2>. HIDE DEF v, x, y, G
    <2>3. DOMAIN v = DOMAIN m /\ Over(v, v)
      BY <2>2 DEF Over
    <2>4. Fills(Put(v, x, y), v, {<<x, y>>})
      BY <2>1, <2>3, FillsOne DEF Put
    <2>. QED
      BY <2>1, <2>4 DEF v
  <1>. HIDE DEF G
  <1>8. Fills(f[n], m, Gathered(G, n))
    BY <1>3, <1>6, <1>7, FillsInTurn
  <1>. QED
    BY <1>2, <1>5, <1>8

-----------------------------------------------------------------------------
(* The lengths of a shape are bounded.                                     *)

\* A finite number of lengths has a bound.
LEMMA LengthsBounded ==
  ASSUME NEW dims \in Seq(Nat)
  PROVE  \E b \in Nat : \A i \in 1..Len(dims) : dims[i] <= b
  <1>. DEFINE n == Len(dims)
              Upto == {m \in 0..n : \E b \in Nat : \A i \in 1..m : dims[i] <= b}
  <1>0. n \in Nat
    OBVIOUS
  <1>1. 0 \in Upto
    BY <1>0
  <1>2. ASSUME NEW m \in 1..n, m - 1 \in Upto  PROVE m \in Upto
    <2>1. PICK b \in Nat : \A i \in 1..(m - 1) : dims[i] <= b
      BY <1>2
    <2>2. dims[m] \in Nat /\ b + dims[m] \in Nat
      OBVIOUS
    <2>3. ASSUME NEW i \in 1..m  PROVE dims[i] <= b + dims[m]
      <3>1. i = m \/ i \in 1..(m - 1)
        OBVIOUS
      <3>2. dims[i] \in Nat
        OBVIOUS
      <3>. QED
        BY <2>1, <2>2, <3>1, <3>2
    <2>4. m \in 0..n /\ \E x \in Nat : \A i \in 1..m : dims[i] <= x
      <3>. DEFINE x == b + dims[m]
      <3>1. x \in Nat /\ \A i \in 1..m : dims[i] <= x
        BY <2>2, <2>3
      <3>2. m \in 0..n
        BY <1>0
      <3>. HIDE DEF x
      <3>3. \E y \in Nat : \A i \in 1..m : dims[i] <= y
        BY <3>1, Zenon
      <3>. QED
        BY <3>2, <3>3, Zenon
    <2>. QED
      BY <2>4
  <1>3. Upto = 0..n
    <2>1. Upto \in SUBSET (0..n)
      OBVIOUS
    <2>. HIDE DEF Upto, n
    <2>. QED
      BY <1>0, <1>1, <1>2, <2>1, UpTo
  <1>4. n \in Upto
    <2>. HIDE DEF Upto, n
    <2>. QED
      BY <1>0, <1>3
  <1>. QED
    BY <1>4

-----------------------------------------------------------------------------
(* An array seen in another shape.                                         *)

Own(a, dims, i)  == i + Len(a.dims) - Len(dims)

Kept(a, dims, i) == Own(a, dims, i) > 0 /\ Stretched(a, Len(dims), i) = dims[i]

\* The strides of BroadcastIter.
StridesFor(a, dims) ==
  [i \in DOMAIN dims |-> IF Kept(a, dims, i) THEN a.strides[Own(a, dims, i)] ELSE 0]

\* An array that is broadcast to a shape has its lengths, or length 1.
Meets(a, dims) ==
  /\ IsArray(a) /\ dims \in Seq(Nat) /\ Len(a.dims) <= Len(dims)
  /\ \A i \in 1..Len(dims) : Stretched(a, Len(dims), i) \in {1, dims[i]}

LEMMA StridesForType ==
  ASSUME NEW a, NEW dims, Meets(a, dims)
  PROVE  StridesFor(a, dims) \in [1..Len(dims) -> Int]
  <1>1. ASSUME NEW i \in 1..Len(dims), Own(a, dims, i) > 0
        PROVE  a.strides[Own(a, dims, i)] \in Int
    <2>1. Own(a, dims, i) \in 1..Len(a.dims)
      BY <1>1 DEF Own, Meets, IsArray
    <2>2. Own(a, dims, i) \in 1..Len(a.strides) /\ a.strides \in Seq(Int)
      BY <2>1 DEF Meets, IsArray
    <2>. HIDE DEF Own
    <2>. QED
      BY <2>2
  <1>2. DOMAIN dims = 1..Len(dims)
    BY DEF Meets
  <1>. QED
    BY <1>1, <1>2 DEF StridesFor, Kept

\* A contiguous walk over more or fewer than one axis has the strides of C order.
Contig(a, dims) == IsContiguous(a) /\ \A i \in DOMAIN dims : Kept(a, dims, i)

LEMMA ContigStrides ==
  ASSUME NEW a, NEW dims, Meets(a, dims), Contig(a, dims), Len(dims) # 1, Product(dims) # 0
  PROVE  StridesFor(a, dims) = Factors(dims)
  <1>. DEFINE n == Len(dims)
              na == Len(a.dims)
  <1>0. n \in Nat /\ na \in Nat /\ na <= n /\ dims \in Seq(Nat) /\ a.dims \in Seq(Nat)
        /\ DOMAIN dims = 1..n /\ DOMAIN a.dims = 1..na
    BY DEF Meets, IsArray
  <1>1. na = n
    <2>1. CASE n = 0
      BY <1>0, <2>1
    <2>2. CASE n # 0
      <3>1. 1 \in DOMAIN dims
        BY <1>0, <2>2
      <3>2. 1 + na - n > 0
        BY <3>1 DEF Contig, Kept, Own
      <3>. QED
        BY <1>0, <3>2
    <2>. QED
      BY <2>1, <2>2
  <1>2. ASSUME NEW i \in 1..n  PROVE Own(a, dims, i) = i /\ a.dims[i] = dims[i]
    <2>1. Own(a, dims, i) = i
      BY <1>0, <1>1 DEF Own
    <2>2. Stretched(a, n, i) = a.dims[i]
      <3>1. i + na - n = i /\ i > 0
        BY <1>0, <1>1
      <3>. QED
        BY <3>1 DEF Stretched
    <2>. QED
      BY <1>0, <2>1, <2>2 DEF Contig, Kept
  <1>3. a.dims = dims
    <2>. HIDE DEF n, na
    <2>1. a.dims \in [1..n -> Nat] /\ dims \in [1..n -> Nat]
      BY <1>0, <1>1, SMTT(20) DEF n, na
    <2>2. a.dims = [i \in 1..n |-> a.dims[i]] /\ dims = [i \in 1..n |-> dims[i]]
      BY <2>1
    <2>3. [i \in 1..n |-> a.dims[i]] = [i \in 1..n |-> dims[i]]
      BY <1>2
    <2>. QED
      BY <2>2, <2>3
  <1>4. {i \in DOMAIN a.dims : a.dims[i] = 0} = {}
    <2>1. \A i \in 1..n : dims[i] > 0
      BY <1>0, NoEmptyAxis
    <2>. QED
      BY <1>0, <1>3, <2>1
  <1>5. Max({} \cup {0}) = 0
    <2>1. {} \cup {0} \in SUBSET Int /\ 0 \in {} \cup {0} /\ \A y \in {} \cup {0} : 0 >= y
      OBVIOUS
    <2>. QED
      BY <2>1, MaxIs
  <1>6. \A i \in DOMAIN a.dims : a.strides[i] = Below(a.dims, i)
    <2>1. Len(a.dims) # 1
      BY <1>1
    <2>2. \A i \in DOMAIN a.dims : i > 0 => a.strides[i] = Below(a.dims, i)
      BY <1>4, <1>5, <2>1 DEF Contig, IsContiguous
    <2>. QED
      BY <1>0, <2>2
  <1>7. \A i \in 1..n : StridesFor(a, dims)[i] = Below(dims, i)
    <2>1. \A i \in 1..n : StridesFor(a, dims)[i] = a.strides[i]
      BY <1>0, <1>2 DEF StridesFor, Contig
    <2>. QED
      BY <1>0, <1>3, <1>6, <2>1
  <1>8. StridesFor(a, dims) = [i \in 1..n |-> StridesFor(a, dims)[i]]
    BY <1>0 DEF StridesFor
  <1>. QED
    BY <1>7, <1>8 DEF Factors

-----------------------------------------------------------------------------
(* One iterator.                                                           *)

\* The last index of every axis.
Ends(dims) == [i \in 1..Len(dims) |-> dims[i] - 1]

\* it walks array a in a shape: only index, coordinates and pointer differ from
\* those of a new iterator.
Walks(it, a, dims) ==
  it = [ao |-> a, index |-> it.index, size |-> Product(dims), coordinates |-> it.coordinates,
        dims_m1 |-> Ends(dims),
        strides |-> StridesFor(a, dims), backstrides |-> Back(dims, StridesFor(a, dims)),
        factors |-> Factors(dims), dataptr |-> it.dataptr, contiguous |-> Contig(a, dims)]

LEMMA WalksFields ==
  ASSUME NEW it, NEW a, NEW dims, Walks(it, a, dims)
  PROVE  /\ it.ao = a /\ it.size = Product(dims)
         /\ it.dims_m1 = Ends(dims)
         /\ it.strides = StridesFor(a, dims)
         /\ it.backstrides = Back(dims, StridesFor(a, dims))
         /\ it.factors = Factors(dims)
         /\ it.contiguous = Contig(a, dims)
  <1>. DEFINE r == [ao |-> a, index |-> it.index, size |-> Product(dims), coordinates |-> it.coordinates,
        dims_m1 |-> Ends(dims),
        strides |-> StridesFor(a, dims), backstrides |-> Back(dims, StridesFor(a, dims)),
        factors |-> Factors(dims), dataptr |-> it.dataptr, contiguous |-> Contig(a, dims)]
  <1>1. it = r
    BY DEF Walks
  <1>2. /\ r.ao = a /\ r.size = Product(dims)
        /\ r.dims_m1 = Ends(dims)
        /\ r.strides = StridesFor(a, dims)
        /\ r.backstrides = Back(dims, StridesFor(a, dims))
        /\ r.factors = Factors(dims)
        /\ r.contiguous = Contig(a, dims)
    OBVIOUS
  <1>. HIDE DEF r
  <1>. QED
    BY <1>1, <1>2

\* The strides and the flag of BroadcastIter, by name.
LEMMA BroadcastIterIs ==
  ASSUME NEW a, NEW dims
  PROVE  BroadcastIter(a, dims) = Walk(a, dims, StridesFor(a, dims), Contig(a, dims))
  BY DEF BroadcastIter, StridesFor, Kept, Own, Contig

LEMMA IterNewIs ==
  ASSUME NEW a, IsArray(a)
  PROVE  Meets(a, a.dims) /\ IterNew(a) = BroadcastIter(a, a.dims)
  <1>. DEFINE dims == a.dims
              n == Len(dims)
  <1>0. DOMAIN dims = 1..n /\ n \in Nat /\ a.strides \in [1..n -> Int]
    BY DEF IsArray
  <1>1. ASSUME NEW i \in 1..n
        PROVE  Stretched(a, n, i) = dims[i] /\ Own(a, dims, i) = i /\ i > 0
    <2>1. i + n - n = i /\ i > 0
      BY <1>0
    <2>. QED
      BY <2>1 DEF Stretched, Own
  <1>2. Meets(a, dims)
    BY <1>0, <1>1 DEF Meets, IsArray
  <1>3. \A i \in DOMAIN dims : Kept(a, dims, i)
    BY <1>0, <1>1 DEF Kept
  <1>4. StridesFor(a, dims) = a.strides
    <2>1. StridesFor(a, dims) = [i \in 1..n |-> a.strides[i]]
      <3>1. \A i \in 1..n : (IF Kept(a, dims, i) THEN a.strides[Own(a, dims, i)] ELSE 0) = a.strides[i]
        BY <1>0, <1>1, <1>3
      <3>. QED
        BY <1>0, <3>1 DEF StridesFor
    <2>2. a.strides = [i \in 1..n |-> a.strides[i]]
      BY <1>0
    <2>. QED
      BY <2>1, <2>2
  <1>5. Contig(a, dims) = IsContiguous(a)
    <2>1. Contig(a, dims) <=> IsContiguous(a)
      BY <1>3 DEF Contig
    <2>2. Contig(a, dims) \in BOOLEAN /\ IsContiguous(a) \in BOOLEAN
      BY Zenon DEF Contig, IsContiguous
    <2>. QED
      BY <2>1, <2>2
  <1>6. BroadcastIter(a, dims) = Walk(a, dims, StridesFor(a, dims), Contig(a, dims))
    BY BroadcastIterIs
  <1>7. IterNew(a) = Walk(a, dims, StridesFor(a, dims), Contig(a, dims))
    <2>1. IterNew(a) = Walk(a, dims, a.strides, IsContiguous(a))
      BY DEF IterNew
    <2>. QED
      BY <1>4, <1>5, <2>1
  <1>. QED
    BY <1>2, <1>6, <1>7

-----------------------------------------------------------------------------
(* Broadcasting.                                                           *)

LEMMA TwoAreFinite ==
  ASSUME NEW u, NEW v
  PROVE  IsFiniteSet({u, v}) /\ (u # v => Cardinality({u, v}) = 2)
  <1>. DEFINE S == {v}
  <1>1. IsFiniteSet(S) /\ Cardinality(S) = 1
    BY FS_Singleton
  <1>2. {u, v} = S \cup {u} /\ (u # v => u \notin S)
    OBVIOUS
  <1>. HIDE DEF S
  <1>3. /\ IsFiniteSet(S \cup {u})
        /\ u \notin S => Cardinality(S \cup {u}) = Cardinality(S) + 1
    BY <1>1, FS_AddElement
  <1>. QED
    BY <1>1, <1>2, <1>3

\* The broadcast shape of two arrays has the length of each of them along every
\* axis, except where that is 1.
LEMMA BroadcastMeets ==
  ASSUME NEW p, p = <<p[1], p[2]>>, IsArray(p[1]), IsArray(p[2]), Broadcastable(ToSet(p)),
         NEW x \in {p[1], p[2]}
  PROVE  Meets(x, BroadcastDims(ToSet(p)))
  <1>. DEFINE A == ToSet(p)
              n == MostAxes(A)
              L(i) == Lengths(A, i)
              dims == BroadcastDims(A)
              axes == {Len(y.dims) : y \in A}
  <1>1. A = {p[1], p[2]}
    <2>1. DOMAIN p = 1..2
      OBVIOUS
    <2>2. A = {p[i] : i \in 1..2}
      BY <2>1 DEF ToSet
    <2>. QED
      BY <2>2
  <1>. HIDE DEF A
  <1>2. \A y \in A : IsArray(y) /\ Len(y.dims) \in Nat
    BY <1>1 DEF IsArray
  <1>3. n \in Nat /\ \A y \in A : Len(y.dims) <= n
    <2>. DEFINE u == Len(p[1].dims)
                v == Len(p[2].dims)
    <2>1. axes = {u, v} /\ u \in Nat /\ v \in Nat
      BY <1>1, <1>2
    <2>. HIDE DEF u, v
    <2>2. {u, v} \in SUBSET (0..(u + v)) /\ {u, v} # {} /\ u + v \in Nat
      BY <2>1
    <2>3. Max({u, v}) \in {u, v} /\ \A y \in {u, v} : Max({u, v}) >= y
      BY <2>2, MaxOf
    <2>4. n = Max({u, v})
      BY <2>1 DEF MostAxes
    <2>5. n \in Nat /\ n >= u /\ n >= v
      BY <2>1, <2>3, <2>4
    <2>6. \A y \in A : Len(y.dims) = u \/ Len(y.dims) = v
      BY <1>1 DEF u, v
    <2>. HIDE DEF n
    <2>. QED
      BY <1>2, <2>1, <2>5, <2>6
  <1>4. ASSUME NEW y \in A, NEW i \in 1..n  PROVE Stretched(y, n, i) \in Nat
    <2>. DEFINE k == i + Len(y.dims) - n
    <2>1. y.dims \in Seq(Nat) /\ Len(y.dims) \in Nat /\ Len(y.dims) <= n
      BY <1>2, <1>3 DEF IsArray
    <2>2. ASSUME k > 0  PROVE y.dims[k] \in Nat
      <3>1. k \in 1..Len(y.dims)
        BY <1>3, <2>1, <2>2
      <3>. HIDE DEF k
      <3>. QED
        BY <2>1, <3>1
    <2>. QED
      BY <2>2 DEF Stretched
  <1>5. ASSUME NEW y \in A, NEW i \in 1..n, Stretched(y, n, i) # 1
        PROVE  L(i) = {Stretched(y, n, i)}
    <2>1. Stretched(y, n, i) \in L(i)
      BY <1>5 DEF Lengths
    <2>2. IsFiniteSet(L(i)) /\ Cardinality(L(i)) <= 1
      <3>. DEFINE u == Stretched(p[1], n, i)
                  v == Stretched(p[2], n, i)
      <3>1. L(i) \in SUBSET {u, v}
        BY <1>1 DEF Lengths
      <3>2. IsFiniteSet({u, v})
        BY TwoAreFinite
      <3>3. IsFiniteSet(L(i))
        BY <3>1, <3>2, FS_Subset
      <3>4. Cardinality(L(i)) <= 1
        BY DEF Broadcastable, A
      <3>. QED
        BY <3>3, <3>4
    <2>. HIDE DEF L
    <2>3. ASSUME NEW z \in L(i)  PROVE z = Stretched(y, n, i)
      <3>. DEFINE w == Stretched(y, n, i)
      <3>. SUFFICES ASSUME z # w  PROVE FALSE
        OBVIOUS
      <3>. HIDE DEF w
      <3>2. Cardinality({z, w}) = 2
        BY TwoAreFinite
      <3>3. {z, w} \in SUBSET L(i)
        BY <2>1 DEF w
      <3>4. Cardinality({z, w}) <= Cardinality(L(i)) /\ Cardinality(L(i)) \in Nat
        BY <2>2, <3>3, FS_Subset, FS_CardinalityType
      <3>. QED
        BY <2>2, <3>2, <3>4
    <2>. QED
      BY <2>1, <2>3
  <1>6. ASSUME NEW i \in 1..n, L(i) # {}
        PROVE  \E y \in A : Stretched(y, n, i) # 1 /\ L(i) = {Stretched(y, n, i)}
    <2>1. PICK z : z \in L(i)
      BY <1>6
    <2>2. PICK y \in A : Stretched(y, n, i) = z /\ z # 1
      BY <2>1 DEF Lengths
    <2>3. L(i) = {Stretched(y, n, i)}
      BY <1>5, <2>2
    <2>. QED
      BY <2>2, <2>3
  <1>7. ASSUME NEW z \in Nat  PROVE Max({z}) = z
    <2>1. {z} \in SUBSET Int /\ z \in {z} /\ \A y \in {z} : z >= y
      OBVIOUS
    <2>. QED
      BY <2>1, MaxIs
  <1>8. dims = [i \in 1..n |-> IF L(i) = {} THEN 1 ELSE Max(L(i))]
    BY DEF BroadcastDims
  <1>. HIDE DEF L, dims, n
  <1>9. ASSUME NEW i \in 1..n
        PROVE  dims[i] \in Nat /\ \A y \in A : Stretched(y, n, i) \in {1, dims[i]}
    <2>0. dims[i] = IF L(i) = {} THEN 1 ELSE Max(L(i))
      BY <1>8
    <2>1. CASE L(i) = {}
      <3>1. dims[i] = 1
        BY <2>0, <2>1
      <3>2. ASSUME NEW y \in A  PROVE Stretched(y, n, i) = 1
        BY <1>5, <2>1
      <3>. QED
        BY <3>1, <3>2
    <2>2. CASE L(i) # {}
      <3>1. PICK z \in A : Stretched(z, n, i) # 1 /\ L(i) = {Stretched(z, n, i)}
        BY <1>6, <2>2
      <3>2. dims[i] = Stretched(z, n, i) /\ dims[i] \in Nat
        BY <1>4, <1>7, <2>0, <2>2, <3>1
      <3>3. ASSUME NEW y \in A, Stretched(y, n, i) # 1  PROVE Stretched(y, n, i) = dims[i]
        <4>1. L(i) = {Stretched(y, n, i)}
          BY <1>5, <3>3
        <4>. QED
          BY <3>1, <3>2, <4>1
      <3>. QED
        BY <3>2, <3>3
    <2>. QED
      BY <2>1, <2>2
  <1>10. dims \in Seq(Nat) /\ Len(dims) = n
    <2>1. dims \in [1..n -> Nat]
      BY <1>8, <1>9
    <2>2. dims \in Seq(Nat)
      BY <1>3, <2>1
    <2>. QED
      BY <1>3, <2>1, <2>2
  <1>11. x \in A
    BY <1>1
  <1>. QED
    BY <1>2, <1>3, <1>9, <1>10, <1>11 DEF Meets, dims, A

-----------------------------------------------------------------------------
(* Lengths of sequences, and the smallest of some numbers.                 *)

LEMMA LenIs ==
  ASSUME NEW n \in Nat, NEW f, f = [i \in 1..n |-> f[i]]
  PROVE  Len(f) = n
  <1>. DEFINE S == {f[i] : i \in 1..n}
  <1>1. f \in [1..n -> S]
    OBVIOUS
  <1>. HIDE DEF S
  <1>2. f \in Seq(S)
    BY <1>1
  <1>. QED
    BY <1>1, <1>2

LEMMA MinOf ==
  ASSUME NEW x \in Int, NEW y \in Int
  PROVE  Min({x, y}) = IF x <= y THEN x ELSE y
  <1>. DEFINE z == IF x <= y THEN x ELSE y
  <1>1. z \in {x, y} /\ \A u \in {x, y} : z <= u
    OBVIOUS
  <1>2. \A v \in {x, y} : (\A u \in {x, y} : v <= u) => v = z
    OBVIOUS
  <1>3. Min({x, y}) = CHOOSE v \in {x, y} : \A u \in {x, y} : v <= u
    BY DEF Min
  <1>. HIDE DEF z
  <1>4. Min({x, y}) = z
    BY <1>1, <1>2, <1>3
  <1>. QED
    BY <1>4 DEF z

-----------------------------------------------------------------------------
(* Folds over the numbers 1..n, in their order.                            *)

\* it is the fold of H from base, over the subsets of 1..n.
DomIter(it, n, base, H) ==
  it = [s \in SUBSET (1..n) |-> IF s = {} THEN base ELSE H[<<it[s \ {Max(s)}], Max(s)>>]]

LEMMA DomIterExists ==
  ASSUME NEW n \in Nat, NEW V, NEW base \in V, NEW H \in [V \X (1..n) -> V]
  PROVE  \E it : DomIter(it, n, base, H) /\ \A s \in SUBSET (1..n) : it[s] \in V
  <1>. DEFINE D == 1..n
              choice == [s \in SUBSET D |-> Max(s)]
              G == [p \in (SUBSET D) \X V |->
                      IF p[1] = {} THEN base ELSE H[<<p[2], choice[p[1]]>>]]
  <1>1. Chooses(choice, D)
    <2>1. ASSUME NEW s \in SUBSET D, s # {}  PROVE Max(s) \in s
      <3>1. s \in SUBSET (0..n)
        OBVIOUS
      <3>. QED
        BY <2>1, <3>1, MaxOf
    <2>. QED
      BY <2>1 DEF Chooses
  <1>2. G \in [(SUBSET D) \X V -> V]
    <2>1. ASSUME NEW s \in SUBSET D, NEW v \in V, s # {}
          PROVE  H[<<v, choice[s]>>] \in V
      <3>1. choice[s] \in D
        BY <1>1, <2>1 DEF Chooses
      <3>. HIDE DEF choice
      <3>. QED
        BY <3>1
    <2>. HIDE DEF choice
    <2>. QED
      BY <2>1
  <1>3. IsFiniteSet(D)
    BY FS_Interval
  <1>4. PICK it \in [SUBSET D -> V] : Folds(it, D, base, choice, G)
    <2>. HIDE DEF D, choice, G
    <2>. QED
      BY <1>1, <1>2, <1>3, FoldExists
  <1>5. ASSUME NEW s \in SUBSET D, s # {}
        PROVE  G[<<s, it[s \ {choice[s]}]>>] = H[<<it[s \ {Max(s)}], Max(s)>>]
    <2>1. it[s \ {choice[s]}] \in V
      BY <1>4
    <2>. QED
      BY <2>1, <1>5
  <1>6. it = [s \in SUBSET D |-> IF s = {} THEN base ELSE H[<<it[s \ {Max(s)}], Max(s)>>]]
    <2>1. it = [s \in SUBSET D |-> it[s]]
      BY <1>4
    <2>. HIDE DEF D, choice, G
    <2>. QED
      BY <1>4, <1>5, <2>1 DEF Folds
  <1>. QED
    BY <1>4, <1>6 DEF DomIter

\* The last of the first m numbers.
LEMMA LastOf ==
  ASSUME NEW n \in Nat, NEW m \in 1..n
  PROVE  1..m \in SUBSET (1..n) /\ 1..m # {} /\ Max(1..m) = m /\ (1..m) \ {m} = 1..(m - 1)
  <1>1. m \in Nat /\ m \in 1..m /\ m <= n
    OBVIOUS
  <1>2. \A x : x \in (1..m) \ {m} <=> x \in 1..(m - 1)
    BY <1>1
  <1>3. \A x \in 1..m : x \in 1..n
    BY <1>1
  <1>4. Max(1..m) = m
    <2>1. 1..m \in SUBSET Int /\ m \in 1..m /\ \A y \in 1..m : m >= y
      OBVIOUS
    <2>. QED
      BY <2>1, MaxIs
  <1>. QED
    BY <1>1, <1>2, <1>3, <1>4

-----------------------------------------------------------------------------
(* Values written one after the other: the last one stays.                 *)

WriteIter(it, m, at, values, q) ==
  it = [s \in SUBSET DOMAIN q |->
          IF s = {} THEN m
          ELSE [it[s \ {Max(s)}] EXCEPT ![at[q[Max(s)]]] = values[q[Max(s)]]]]

Numbers(at) == [i \in DOMAIN at |-> i]

LEMMA WriteIs ==
  ASSUME NEW m, NEW at, NEW values
  PROVE  Write(m, at, values)
           = (CHOOSE it : WriteIter(it, m, at, values, Numbers(at)))[DOMAIN Numbers(at)]
  BY Zenon DEF Write, FoldLeftDomain, FoldLeft, MapThenFoldSet, WriteIter, Numbers

LEMMA WriteIterExists ==
  ASSUME NEW n \in Nat, NEW m, m = [x \in DOMAIN m |-> m[x]], NEW at, NEW values,
         NEW q, q = [i \in 1..n |-> i]
  PROVE  \E it : WriteIter(it, m, at, values, q)
  <1>. DEFINE R == {m[x] : x \in DOMAIN m} \cup {values[j] : j \in 1..n}
              V == [DOMAIN m -> R]
              H == [p \in V \X (1..n) |-> [p[1] EXCEPT ![at[p[2]]] = values[p[2]]]]
  <1>1. m \in V
    OBVIOUS
  <1>2. H \in [V \X (1..n) -> V]
    <2>1. ASSUME NEW v \in V, NEW k \in 1..n  PROVE [v EXCEPT ![at[k]] = values[k]] \in V
      <3>1. values[k] \in R
        OBVIOUS
      <3>. HIDE DEF R
      <3>. QED
        BY <3>1
    <2>. HIDE DEF V
    <2>. QED
      BY <2>1
  <1>3. PICK it : DomIter(it, n, m, H) /\ \A s \in SUBSET (1..n) : it[s] \in V
    <2>. HIDE DEF V, H
    <2>. QED
      BY <1>1, <1>2, DomIterExists
  <1>4. ASSUME NEW s \in SUBSET (1..n), s # {}
        PROVE  H[<<it[s \ {Max(s)}], Max(s)>>]
                 = [it[s \ {Max(s)}] EXCEPT ![at[q[Max(s)]]] = values[q[Max(s)]]]
    <2>1. Max(s) \in 1..n
      <3>1. s \in SUBSET (0..n)
        OBVIOUS
      <3>2. Max(s) \in s
        BY <1>4, <3>1, MaxOf
      <3>. QED
        BY <3>2
    <2>2. it[s \ {Max(s)}] \in V
      BY <1>3
    <2>3. q[Max(s)] = Max(s)
      BY <2>1
    <2>. HIDE DEF V
    <2>. QED
      BY <2>1, <2>2, <2>3
  <1>5. DOMAIN q = 1..n
    OBVIOUS
  <1>. HIDE DEF V, H
  <1>6. it = [s \in SUBSET (1..n) |-> IF s = {} THEN m
                ELSE [it[s \ {Max(s)}] EXCEPT ![at[q[Max(s)]]] = values[q[Max(s)]]]]
    BY <1>3, <1>4 DEF DomIter
  <1>. QED
    BY <1>5, <1>6 DEF WriteIter

\* m after the first k values were written.
Written(m, at, values, k) ==
  [x \in DOMAIN m |-> IF \E j \in 1..k : at[j] = x THEN values[Max({j \in 1..k : at[j] = x})]
                      ELSE m[x]]

LEMMA WrittenOneMore ==
  ASSUME NEW m, NEW at, NEW values, NEW k \in Nat, k # 0
  PROVE  [Written(m, at, values, k - 1) EXCEPT ![at[k]] = values[k]] = Written(m, at, values, k)
  <1>. DEFINE f == Written(m, at, values, k - 1)
              g == Written(m, at, values, k)
              Hits(x, l) == {j \in 1..l : at[j] = x}
  <1>1. ASSUME NEW x \in DOMAIN m, x = at[k]  PROVE g[x] = values[k]
    <2>1. k \in 1..k
      OBVIOUS
    <2>2. Max(Hits(x, k)) = k
      <3>1. Hits(x, k) \in SUBSET Int /\ k \in Hits(x, k) /\ \A y \in Hits(x, k) : k >= y
        BY <1>1
      <3>. HIDE DEF Hits
      <3>. QED
        BY <3>1, MaxIs
    <2>. QED
      BY <1>1, <2>1, <2>2 DEF Written
  <1>2. ASSUME NEW x \in DOMAIN m, x # at[k]  PROVE g[x] = f[x]
    <2>1. Hits(x, k) = Hits(x, k - 1)
      <3>1. \A j \in 1..k : j # k => j \in 1..(k - 1)
        OBVIOUS
      <3>2. \A j \in 1..(k - 1) : j \in 1..k
        OBVIOUS
      <3>. QED
        BY <1>2, <3>1, <3>2
    <2>2. (\E j \in 1..k : at[j] = x) <=> (\E j \in 1..(k - 1) : at[j] = x)
      <3>1. (\E j \in 1..k : at[j] = x) <=> Hits(x, k) # {}
        OBVIOUS
      <3>2. (\E j \in 1..(k - 1) : at[j] = x) <=> Hits(x, k - 1) # {}
        OBVIOUS
      <3>. QED
        BY <2>1, <3>1, <3>2
    <2>. QED
      BY <2>1, <2>2 DEF Written
  <1>3. f = [x \in DOMAIN m |-> f[x]] /\ g = [x \in DOMAIN m |-> g[x]]
    BY DEF Written
  <1>. HIDE DEF f, g
  <1>4. [f EXCEPT ![at[k]] = values[k]] = [x \in DOMAIN m |-> g[x]]
    BY <1>1, <1>2, <1>3
  <1>. QED
    BY <1>3, <1>4 DEF f, g

LEMMA WriteLeaves ==
  ASSUME NEW n \in Nat, NEW m, m = [x \in DOMAIN m |-> m[x]], NEW at, DOMAIN at = 1..n, NEW values
  PROVE  Write(m, at, values) = Written(m, at, values, n)
  <1>. DEFINE q == Numbers(at)
              it == CHOOSE h : WriteIter(h, m, at, values, q)
              Right == {k \in 0..n : it[1..k] = Written(m, at, values, k)}
  <1>1. q = [i \in 1..n |-> i] /\ DOMAIN q = 1..n /\ \A k \in 1..n : q[k] = k
    BY DEF Numbers
  <1>2. WriteIter(it, m, at, values, q)
    BY <1>1, WriteIterExists
  <1>3. Write(m, at, values) = it[1..n]
    BY <1>1, WriteIs
  <1>. HIDE DEF it, q
  <1>4. 0 \in Right
    <2>1. 1..0 = {} /\ {} \in SUBSET (1..n)
      OBVIOUS
    <2>2. it[{}] = m
      BY <1>1, <1>2, <2>1 DEF WriteIter
    <2>3. Written(m, at, values, 0) = m
      BY <2>1 DEF Written
    <2>. QED
      BY <2>1, <2>2, <2>3
  <1>5. ASSUME NEW k \in 1..n, k - 1 \in Right  PROVE k \in Right
    <2>1. 1..k \in SUBSET (1..n) /\ 1..k # {} /\ Max(1..k) = k /\ (1..k) \ {k} = 1..(k - 1)
      BY LastOf
    <2>2. it[1..k] = [it[1..(k - 1)] EXCEPT ![at[k]] = values[k]]
      <3>1. it[1..k] = [it[(1..k) \ {Max(1..k)}] EXCEPT ![at[q[Max(1..k)]]] = values[q[Max(1..k)]]]
        BY <1>1, <1>2, <2>1 DEF WriteIter
      <3>2. q[Max(1..k)] = k
        BY <1>1, <2>1
      <3>. QED
        BY <2>1, <3>1, <3>2
    <2>3. it[1..(k - 1)] = Written(m, at, values, k - 1)
      BY <1>5
    <2>4. it[1..k] = Written(m, at, values, k)
      BY <2>2, <2>3, WrittenOneMore
    <2>. QED
      BY <2>4
  <1>6. Right = 0..n
    <2>1. Right \in SUBSET (0..n)
      OBVIOUS
    <2>. HIDE DEF Right
    <2>. QED
      BY <1>4, <1>5, <2>1, UpTo
  <1>7. n \in Right
    BY <1>6
  <1>. QED
    BY <1>3, <1>7

-----------------------------------------------------------------------------
(* Numbers in ascending order.                                             *)

Enumerates(f, n, S) ==
  /\ f \in [1..n -> S]
  /\ \A i, j \in 1..n : i < j => f[i] < f[j]
  /\ \A p \in S : \E i \in 1..n : f[i] = p

LEMMA AscendingIs ==
  ASSUME NEW n \in Nat, NEW S \in SUBSET Int, NEW f, Enumerates(f, n, S)
  PROVE  Ascending(S) = f /\ DOMAIN Ascending(S) = 1..n
  <1>0. /\ f \in [1..n -> S] /\ \A i, j \in 1..n : i < j => f[i] < f[j]
        /\ \A p \in S : \E i \in 1..n : f[i] = p
    BY DEF Enumerates
  <1>1. \A i, j \in 1..n : f[i] \in Int /\ (f[i] = f[j] => i = j) /\ (f[i] < f[j] => i < j)
    <2>. SUFFICES ASSUME NEW i \in 1..n, NEW j \in 1..n
                  PROVE  f[i] \in Int /\ (f[i] = f[j] => i = j) /\ (f[i] < f[j] => i < j)
      OBVIOUS
    <2>1. f[i] \in Int /\ f[j] \in Int
      BY <1>0
    <2>2. (i < j => f[i] < f[j]) /\ (j < i => f[j] < f[i])
      BY <1>0
    <2>. QED
      BY <2>1, <2>2
  <1>2. Cardinality(S) = n
    <2>1. f \in Bijection(1..n, S)
      BY <1>0, <1>1 DEF Bijection, Injection, Surjection, IsInjective
    <2>. QED
      BY <2>1, FS_CountingElements DEF ExistsBijection
  <1>. DEFINE Count(p) == Cardinality({q \in S : q < p})
  <1>3. ASSUME NEW j \in 1..n  PROVE Count(f[j]) = j - 1
    <2>. DEFINE T == {q \in S : q < f[j]}
                g == [i \in 1..(j - 1) |-> f[i]]
    <2>0. j - 1 \in Nat /\ \A i \in 1..(j - 1) : i \in 1..n /\ i < j
      OBVIOUS
    <2>1. g \in [1..(j - 1) -> T]
      BY <1>0, <2>0
    <2>2. \A i, k \in 1..(j - 1) : g[i] = g[k] => i = k
      BY <1>1, <2>0
    <2>3. ASSUME NEW q \in T  PROVE \E i \in 1..(j - 1) : g[i] = q
      <3>1. PICK i \in 1..n : f[i] = q
        BY <1>0
      <3>2. i < j
        BY <1>1, <3>1
      <3>3. i \in 1..(j - 1)
        BY <3>2
      <3>. QED
        BY <3>1, <3>3
    <2>. HIDE DEF T, g
    <2>4. g \in Bijection(1..(j - 1), T)
      BY <2>1, <2>2, <2>3 DEF Bijection, Injection, Surjection, IsInjective
    <2>5. Cardinality(T) = j - 1
      BY <2>0, <2>4, FS_CountingElements DEF ExistsBijection
    <2>. QED
      BY <2>5 DEF T
  <1>4. ASSUME NEW j \in 1..n  PROVE (CHOOSE p \in S : Count(p) = j - 1) = f[j]
    <2>. HIDE DEF Count
    <2>1. f[j] \in S /\ Count(f[j]) = j - 1
      BY <1>0, <1>3
    <2>2. ASSUME NEW p \in S, Count(p) = j - 1  PROVE p = f[j]
      <3>1. PICK i \in 1..n : f[i] = p
        BY <1>0
      <3>2. Count(f[i]) = i - 1
        BY <1>3
      <3>3. i = j
        BY <2>2, <3>1, <3>2
      <3>. QED
        BY <3>1, <3>3
    <2>. QED
      BY <2>1, <2>2
  <1>5. Ascending(S) = [j \in 1..n |-> f[j]]
    BY <1>2, <1>4 DEF Ascending
  <1>. QED
    BY <1>0, <1>5

\* All of them moved by one distance.
LEMMA Shifted ==
  ASSUME NEW n \in Nat, NEW S \in SUBSET Int, NEW f, Enumerates(f, n, S), NEW d \in Int
  PROVE  Enumerates([i \in 1..n |-> f[i] + d], n, {p + d : p \in S})
  <1>. DEFINE g == [i \in 1..n |-> f[i] + d]
              T == {p + d : p \in S}
  <1>1. /\ f \in [1..n -> S] /\ \A i, j \in 1..n : i < j => f[i] < f[j]
        /\ \A p \in S : \E i \in 1..n : f[i] = p
    BY DEF Enumerates
  <1>2. g \in [1..n -> T]
    BY <1>1
  <1>3. ASSUME NEW i \in 1..n, NEW j \in 1..n, i < j  PROVE g[i] < g[j]
    <2>1. f[i] \in Int /\ f[j] \in Int /\ f[i] < f[j]
      BY <1>1, <1>3
    <2>. QED
      BY <2>1
  <1>4. ASSUME NEW p \in T  PROVE \E i \in 1..n : g[i] = p
    BY <1>1
  <1>. QED
    BY <1>2, <1>3, <1>4 DEF Enumerates

\* One more, larger than all of them.
Extended(f, n, x) == [i \in 1..(n + 1) |-> IF i = n + 1 THEN x ELSE f[i]]

LEMMA OneLarger ==
  ASSUME NEW n \in Nat, NEW S \in SUBSET Int, NEW f, Enumerates(f, n, S),
         NEW x \in Int, \A p \in S : p < x
  PROVE  Enumerates(Extended(f, n, x), n + 1, S \cup {x})
  <1>. DEFINE g == Extended(f, n, x)
  <1>1. /\ f \in [1..n -> S] /\ \A i, j \in 1..n : i < j => f[i] < f[j]
        /\ \A p \in S : \E i \in 1..n : f[i] = p
    BY DEF Enumerates
  <1>2. /\ \A i \in 1..(n + 1) : i # n + 1 => i \in 1..n
        /\ \A i \in 1..n : i \in 1..(n + 1) /\ i # n + 1 /\ g[i] = f[i]
        /\ n + 1 \in 1..(n + 1) /\ g[n + 1] = x
    BY DEF Extended
  <1>3. g \in [1..(n + 1) -> S \cup {x}]
    BY <1>1, <1>2 DEF Extended
  <1>. HIDE DEF g
  <1>4. ASSUME NEW i \in 1..(n + 1), NEW j \in 1..(n + 1), i < j  PROVE g[i] < g[j]
    <2>1. i \in 1..n
      BY <1>4
    <2>2. CASE j = n + 1
      BY <1>1, <1>2, <2>1, <2>2
    <2>3. CASE j # n + 1
      BY <1>1, <1>2, <1>4, <2>1, <2>3
    <2>. QED
      BY <2>2, <2>3
  <1>5. ASSUME NEW p \in S \cup {x}  PROVE \E i \in 1..(n + 1) : g[i] = p
    BY <1>1, <1>2
  <1>. QED
    BY <1>3, <1>4, <1>5 DEF Enumerates, g

-----------------------------------------------------------------------------
(* An iterator after n steps.                                              *)

Steps(it, f, n) ==
  f = [k \in 0..n |-> IF k = 0 THEN ITER_RESET(it) ELSE ITER_NEXT(f[k - 1])]

LEMMA AdvancedIs ==
  ASSUME NEW it, NEW n
  PROVE  Advanced(it, n) = (CHOOSE f : Steps(it, f, n))[n]
  BY Zenon DEF Advanced, Steps

LEMMA StepsExist ==
  ASSUME NEW it, NEW n \in Nat
  PROVE  \E f : Steps(it, f, n)
  <1>. DEFINE Upto == {m \in 0..n : \E f : Steps(it, f, m)}
  <1>1. 0 \in Upto
    <2>. DEFINE f == [k \in 0..0 |-> ITER_RESET(it)]
    <2>1. \A k \in 0..0 : k = 0
      OBVIOUS
    <2>2. Steps(it, f, 0)
      BY <2>1 DEF Steps
    <2>. QED
      BY <2>2
  <1>2. ASSUME NEW m \in 1..n, m - 1 \in Upto  PROVE m \in Upto
    <2>1. PICK f : Steps(it, f, m - 1)
      BY <1>2
    <2>. DEFINE g == [k \in 0..m |-> IF k = m THEN ITER_NEXT(f[m - 1]) ELSE f[k]]
    <2>2. \A k \in 0..(m - 1) : k \in 0..m /\ k # m /\ g[k] = f[k]
      OBVIOUS
    <2>3. m \in 0..m /\ m # 0 /\ g[m] = ITER_NEXT(f[m - 1]) /\ m - 1 \in 0..(m - 1) /\ 0 \in 0..(m - 1)
      OBVIOUS
    <2>4. \A k \in 0..m : k # m => k \in 0..(m - 1) /\ (k # 0 => k - 1 \in 0..(m - 1))
      OBVIOUS
    <2>5. g = [k \in 0..m |-> g[k]]
      OBVIOUS
    <2>. HIDE DEF g
    <2>6. ASSUME NEW k \in 0..m
          PROVE  g[k] = IF k = 0 THEN ITER_RESET(it) ELSE ITER_NEXT(g[k - 1])
      <3>1. CASE k = m
        BY <2>2, <2>3, <3>1
      <3>2. CASE k # m
        <4>1. f[k] = IF k = 0 THEN ITER_RESET(it) ELSE ITER_NEXT(f[k - 1])
          BY <2>1, <2>4, <3>2 DEF Steps
        <4>. QED
          BY <2>2, <2>4, <3>2, <4>1
      <3>. QED
        BY <3>1, <3>2
    <2>7. Steps(it, g, m)
      BY <2>5, <2>6 DEF Steps
    <2>. QED
      BY <2>7
  <1>3. Upto = 0..n
    <2>1. Upto \in SUBSET (0..n)
      OBVIOUS
    <2>. HIDE DEF Upto
    <2>. QED
      BY <1>1, <1>2, <2>1, UpTo
  <1>4. n \in Upto
    BY <1>3
  <1>. QED
    BY <1>4

-----------------------------------------------------------------------------
(* The positions a mask selects.                                           *)

StepPointer(it, k) == Advanced(it, k - 1).dataptr

MaskIter(g, it, mask, q) ==
  g = [s \in SUBSET DOMAIN q |->
         IF s = {} THEN <<>>
         ELSE IF mask[q[Max(s)]] THEN Append(g[s \ {Max(s)}], StepPointer(it, q[Max(s)]))
              ELSE g[s \ {Max(s)}]]

LEMMA MaskIs ==
  ASSUME NEW it, NEW mask
  PROVE  MaskPointers(it, mask)
           = (CHOOSE g : MaskIter(g, it, mask, Numbers(mask)))[DOMAIN Numbers(mask)]
  BY Zenon DEF MaskPointers, FoldLeftDomain, FoldLeft, MapThenFoldSet, MaskIter, Numbers, StepPointer

LEMMA MaskIterExists ==
  ASSUME NEW n \in Nat, NEW it, NEW mask, NEW q, q = [i \in 1..n |-> i]
  PROVE  \E g : MaskIter(g, it, mask, q)
  <1>. DEFINE P == {StepPointer(it, k) : k \in 1..n}
              V == Seq(P)
              H == [p \in V \X (1..n) |->
                      IF mask[p[2]] THEN Append(p[1], StepPointer(it, p[2])) ELSE p[1]]
  <1>1. <<>> \in V
    OBVIOUS
  <1>2. H \in [V \X (1..n) -> V]
    <2>1. ASSUME NEW v \in V, NEW k \in 1..n  PROVE Append(v, StepPointer(it, k)) \in V
      <3>1. StepPointer(it, k) \in P
        OBVIOUS
      <3>. HIDE DEF P
      <3>. QED
        BY <3>1
    <2>. HIDE DEF V
    <2>. QED
      BY <2>1
  <1>3. PICK g : DomIter(g, n, <<>>, H) /\ \A s \in SUBSET (1..n) : g[s] \in V
    <2>. HIDE DEF V, H
    <2>. QED
      BY <1>1, <1>2, DomIterExists
  <1>4. ASSUME NEW s \in SUBSET (1..n), s # {}
        PROVE  H[<<g[s \ {Max(s)}], Max(s)>>]
                 = IF mask[q[Max(s)]] THEN Append(g[s \ {Max(s)}], StepPointer(it, q[Max(s)]))
                   ELSE g[s \ {Max(s)}]
    <2>1. Max(s) \in 1..n
      <3>1. s \in SUBSET (0..n)
        OBVIOUS
      <3>2. Max(s) \in s
        BY <1>4, <3>1, MaxOf
      <3>. QED
        BY <3>2
    <2>2. g[s \ {Max(s)}] \in V
      BY <1>3
    <2>3. q[Max(s)] = Max(s)
      BY <2>1
    <2>. HIDE DEF V
    <2>. QED
      BY <2>1, <2>2, <2>3
  <1>5. DOMAIN q = 1..n
    OBVIOUS
  <1>. HIDE DEF V, H
  <1>6. g = [s \in SUBSET (1..n) |->
               IF s = {} THEN <<>>
               ELSE IF mask[q[Max(s)]] THEN Append(g[s \ {Max(s)}], StepPointer(it, q[Max(s)]))
                    ELSE g[s \ {Max(s)}]]
    BY <1>3, <1>4 DEF DomIter
  <1>. QED
    BY <1>5, <1>6 DEF MaskIter

\* The pointers of c steps.
PointersOf(it, f, c) == [i \in 1..c |-> StepPointer(it, f[i])]

LEMMA PointersAppend ==
  ASSUME NEW it, NEW c \in Nat, NEW f, NEW x
  PROVE  Append(PointersOf(it, f, c), StepPointer(it, x))
           = PointersOf(it, Extended(f, c, x), c + 1)
  <1>. DEFINE r == PointersOf(it, f, c)
              h == Extended(f, c, x)
              S == {r[i] : i \in 1..c} \cup {StepPointer(it, x)}
  <1>1. r = [i \in 1..c |-> r[i]] /\ Len(r) = c
    <2>1. r = [i \in 1..c |-> r[i]]
      BY DEF PointersOf
    <2>. HIDE DEF r
    <2>. QED
      BY <2>1, LenIs
  <1>2. Append(r, StepPointer(it, x))
          = [i \in 1..(c + 1) |-> IF i = c + 1 THEN StepPointer(it, x) ELSE r[i]]
    BY <1>1
  <1>3. ASSUME NEW i \in 1..(c + 1)
        PROVE  (IF i = c + 1 THEN StepPointer(it, x) ELSE r[i]) = StepPointer(it, h[i])
    <2>1. CASE i = c + 1
      BY <2>1 DEF Extended
    <2>2. CASE i # c + 1
      <3>1. i \in 1..c
        BY <2>2
      <3>. QED
        BY <2>2, <3>1 DEF PointersOf, Extended
    <2>. QED
      BY <2>1, <2>2
  <1>. QED
    BY <1>2, <1>3 DEF PointersOf

\* The TRUE items of a mask up to the k-th.
TrueUpTo(mask, k) == {j \in 1..k : mask[j]}

\* A mask leads to as many steps as it has TRUE items, in their order.
LEMMA MaskLeads ==
  ASSUME NEW it, NEW mask \in Seq(BOOLEAN)
  PROVE  \E c \in Nat : \E f : /\ Enumerates(f, c, TrueUpTo(mask, Len(mask)))
                              /\ MaskPointers(it, mask) = PointersOf(it, f, c)
  <1>. DEFINE n == Len(mask)
              q == Numbers(mask)
              g == CHOOSE h : MaskIter(h, it, mask, q)
              LeadsUpTo(k) == \E c \in Nat : \E f : /\ Enumerates(f, c, TrueUpTo(mask, k))
                                                /\ g[1..k] = PointersOf(it, f, c)
              Right == {k \in 0..n : LeadsUpTo(k)}
  <1>0. n \in Nat /\ DOMAIN mask = 1..n /\ \A k \in 1..n : mask[k] \in BOOLEAN
    OBVIOUS
  <1>1. q = [i \in 1..n |-> i] /\ DOMAIN q = 1..n /\ \A k \in 1..n : q[k] = k
    BY <1>0 DEF Numbers
  <1>. HIDE DEF n
  <1>2. MaskIter(g, it, mask, q)
    BY <1>0, <1>1, MaskIterExists
  <1>3. MaskPointers(it, mask) = g[1..n]
    BY <1>1, MaskIs
  <1>. HIDE DEF g, q
  <1>4. 0 \in Right
    <2>1. 1..0 = {} /\ {} \in SUBSET (1..n)
      OBVIOUS
    <2>2. g[1..0] = <<>>
      BY <1>1, <1>2, <2>1 DEF MaskIter
    <2>. DEFINE f == [i \in 1..0 |-> i]
    <2>3. TrueUpTo(mask, 0) = {}
      BY <2>1 DEF TrueUpTo
    <2>4. Enumerates(f, 0, TrueUpTo(mask, 0))
      BY <2>1, <2>3 DEF Enumerates
    <2>5. PointersOf(it, f, 0) = <<>>
      BY <2>1 DEF PointersOf
    <2>6. 0 \in Nat /\ 0 \in 0..n
      BY <1>0
    <2>. HIDE DEF f
    <2>. QED
      BY <2>2, <2>4, <2>5, <2>6
  <1>5. ASSUME NEW k \in 1..n, k - 1 \in Right  PROVE k \in Right
    <2>1. 1..k \in SUBSET (1..n) /\ 1..k # {} /\ Max(1..k) = k /\ (1..k) \ {k} = 1..(k - 1)
      BY <1>0, LastOf
    <2>2. g[1..k] = IF mask[k] THEN Append(g[1..(k - 1)], StepPointer(it, k)) ELSE g[1..(k - 1)]
      <3>1. g[1..k] = IF mask[q[Max(1..k)]]
                      THEN Append(g[(1..k) \ {Max(1..k)}], StepPointer(it, q[Max(1..k)]))
                      ELSE g[(1..k) \ {Max(1..k)}]
        BY <1>1, <1>2, <2>1 DEF MaskIter
      <3>2. q[Max(1..k)] = k
        BY <1>1, <2>1
      <3>. QED
        BY <2>1, <3>1, <3>2
    <2>. DEFINE UpToLast(c, f) == /\ Enumerates(f, c, TrueUpTo(mask, k - 1))
                               /\ g[1..(k - 1)] = PointersOf(it, f, c)
    <2>count. PICK c \in Nat : \E f : UpToLast(c, f)
      BY <1>5
    <2>3. PICK f : UpToLast(c, f)
      BY <2>count
    <2>4. k \in 0..n /\ k \in Int /\ \A j \in 1..k : j # k => j \in 1..(k - 1)
      BY <1>0
    <2>5. TrueUpTo(mask, k - 1) \in SUBSET Int /\ \A p \in TrueUpTo(mask, k - 1) : p < k
      BY <2>4 DEF TrueUpTo
    <2>6. CASE mask[k]
      <3>. DEFINE h == Extended(f, c, k)
      <3>1. TrueUpTo(mask, k) = TrueUpTo(mask, k - 1) \cup {k}
        BY <2>4, <2>6 DEF TrueUpTo
      <3>2. Enumerates(h, c + 1, TrueUpTo(mask, k))
        BY <2>3, <2>4, <2>5, <3>1, OneLarger
      <3>3. g[1..k] = PointersOf(it, h, c + 1)
        <4>1. Append(PointersOf(it, f, c), StepPointer(it, k)) = PointersOf(it, h, c + 1)
          BY PointersAppend, Zenon
        <4>. HIDE DEF h
        <4>. QED
          BY <2>2, <2>3, <2>6, <4>1
      <3>4. c + 1 \in Nat
        OBVIOUS
      <3>. HIDE DEF h
      <3>. QED
        BY <2>4, <3>2, <3>3, <3>4
    <2>7. CASE ~mask[k]
      <3>1. TrueUpTo(mask, k) = TrueUpTo(mask, k - 1)
        BY <2>4, <2>7 DEF TrueUpTo
      <3>. QED
        BY <2>2, <2>3, <2>4, <2>7, <3>1
    <2>. QED
      BY <2>6, <2>7
  <1>6. Right = 0..n
    <2>1. Right \in SUBSET (0..n)
      OBVIOUS
    <2>. HIDE DEF Right
    <2>. QED
      BY <1>0, <1>4, <1>5, <2>1, UpTo
  <1>7. n \in Right
    BY <1>0, <1>6
  <1>. QED
    BY <1>3, <1>7 DEF n

-----------------------------------------------------------------------------
(* Arithmetic progressions.                                                *)

Times(j, d) == j * d

\* The multiples of d that are at most m are the first ones.
LEMMA Multiples ==
  ASSUME NEW d \in Nat \ {0}, NEW m \in Nat
  PROVE  /\ m \div d \in Nat
         /\ \A j \in Nat : Times(j, d) \in Nat /\ (Times(j, d) <= m <=> j <= m \div d)
  <1>. DEFINE q == m \div d
  <1>1. q \in Int /\ m % d \in 0..(d - 1) /\ m = d * q + (m % d)
    BY DivIs
  <1>. DEFINE r == m % d
  <1>. HIDE DEF q, r
  <1>2. q \in Nat
    <2>1. ASSUME q < 0  PROVE FALSE
      <3>. DEFINE e == 0 - q - 1
      <3>1. e \in Nat /\ q = 0 - 1 - e
        BY <1>1, <2>1
      <3>. HIDE DEF e
      <3>2. d * q = 0 - d - d * e
        BY <1>1, <3>1
      <3>3. d * e \in Nat
        BY <3>1
      <3>. QED
        BY <1>1, <3>2, <3>3 DEF r
    <2>. QED
      BY <1>1, <2>1
  <1>3. d * q = q * d
    BY <1>2
  <1>4. ASSUME NEW j \in Nat  PROVE Times(j, d) \in Nat /\ (Times(j, d) <= m <=> j <= q)
    <2>1. j * d \in Nat /\ q * d \in Nat
      BY <1>2
    <2>2. ASSUME j < q  PROVE j * d + d <= q * d
      BY <1>2, <2>2, TimesLess
    <2>3. ASSUME q < j  PROVE q * d + d <= j * d
      BY <1>2, <2>3, TimesLess
    <2>4. m = q * d + r /\ r \in 0..(d - 1)
      BY <1>1, <1>3 DEF r
    <2>5. j = q => j * d = q * d
      OBVIOUS
    <2>. DEFINE x == j * d
                y == q * d
    <2>6. /\ x \in Nat /\ y \in Nat /\ m = y + r /\ r \in 0..(d - 1)
          /\ (j < q => x + d <= y) /\ (q < j => y + d <= x) /\ (j = q => x = y)
      BY <2>1, <2>2, <2>3, <2>4, <2>5
    <2>. HIDE DEF x, y
    <2>7. x <= m <=> j <= q
      BY <1>2, <2>6
    <2>. QED
      BY <2>6, <2>7 DEF x, Times
  <1>. QED
    BY <1>2, <1>4 DEF q

LEMMA TimesGrow ==
  ASSUME NEW d \in Nat \ {0}, NEW i \in Nat, NEW j \in Nat
  PROVE  /\ Times(j, d) \in Nat /\ Times(0, d) = 0 /\ (i < j => Times(i, d) < Times(j, d))
         /\ j <= Times(j, d)
  <1>1. i < j => i * d + d <= j * d
    BY TimesLess
  <1>2. j <= j * d
    <2>1. CASE j = 0
      BY <2>1
    <2>2. CASE j # 0
      <3>. DEFINE e == d - 1
      <3>1. e \in Nat /\ d = e + 1
        OBVIOUS
      <3>. HIDE DEF e
      <3>2. j * d = j * e + j /\ j * e \in Nat
        BY <3>1
      <3>. QED
        BY <3>2
    <2>. QED
      BY <2>1, <2>2
  <1>3. j * d \in Nat /\ i * d \in Nat /\ 0 * d = 0
    OBVIOUS
  <1>. QED
    BY <1>1, <1>2, <1>3 DEF Times

\* How many steps of length d lead from a to positions before e.
StepsBetween(a, e, d) == IF a < e THEN (e - a - 1) \div d + 1 ELSE 0

LEMMA StepsAre ==
  ASSUME NEW a \in Int, NEW e \in Int, NEW d \in Nat \ {0}
  PROVE  /\ StepsBetween(a, e, d) \in Nat
         /\ \A j \in Nat : a + Times(j, d) < e <=> j < StepsBetween(a, e, d)
  <1>1. CASE a < e
    <2>. DEFINE m == e - a - 1
                q == m \div d
    <2>1. m \in Nat
      BY <1>1
    <2>2. q \in Nat /\ \A j \in Nat : Times(j, d) \in Nat /\ (Times(j, d) <= m <=> j <= q)
      BY <2>1, Multiples
    <2>3. StepsBetween(a, e, d) = q + 1
      BY <1>1 DEF StepsBetween
    <2>. HIDE DEF q
    <2>. QED
      BY <2>2, <2>3
  <1>2. CASE ~(a < e)
    <2>1. \A j \in Nat : Times(j, d) \in Nat
      BY TimesGrow
    <2>. QED
      BY <1>2, <2>1 DEF StepsBetween
  <1>. QED
    BY <1>1, <1>2

\* The positions from a up to e, and from a down to e, without e.
Upward(a, e, d)   == {p \in Int : p < e /\ \E j \in Nat : p = a + Times(j, d)}

Downward(a, e, d) == {p \in Int : p > e /\ \E j \in Nat : p = a - Times(j, d)}

LEMMA UpwardInOrder ==
  ASSUME NEW a \in Int, NEW e \in Int, NEW d \in Nat \ {0}, NEW n, n = StepsBetween(a, e, d)
  PROVE  Enumerates([k \in 1..n |-> a + Times(k - 1, d)], n, Upward(a, e, d))
  <1>. DEFINE f == [k \in 1..n |-> a + Times(k - 1, d)]
              S == Upward(a, e, d)
  <1>1. n \in Nat /\ \A j \in Nat : a + Times(j, d) < e <=> j < n
    BY StepsAre
  <1>2. \A i, j \in Nat : Times(j, d) \in Nat /\ (i < j => Times(i, d) < Times(j, d))
    BY TimesGrow
  <1>3. \A k \in 1..n : k - 1 \in Nat /\ k - 1 < n
    BY <1>1
  <1>4. f \in [1..n -> S]
    BY <1>1, <1>2, <1>3 DEF Upward
  <1>5. ASSUME NEW i \in 1..n, NEW j \in 1..n, i < j  PROVE f[i] < f[j]
    <2>1. i - 1 \in Nat /\ j - 1 \in Nat /\ i - 1 < j - 1
      BY <1>5
    <2>2. Times(i - 1, d) \in Nat /\ Times(j - 1, d) \in Nat /\ Times(i - 1, d) < Times(j - 1, d)
      BY <1>2, <2>1
    <2>. QED
      BY <2>2
  <1>6. ASSUME NEW p \in S  PROVE \E i \in 1..n : f[i] = p
    <2>1. PICK j \in Nat : p = a + Times(j, d) /\ p < e
      BY DEF Upward
    <2>2. j + 1 \in 1..n /\ (j + 1) - 1 = j
      BY <1>1, <2>1
    <2>3. f[j + 1] = p
      BY <2>1, <2>2
    <2>. QED
      BY <2>2, <2>3
  <1>. QED
    BY <1>4, <1>5, <1>6 DEF Enumerates

LEMMA DownwardInOrder ==
  ASSUME NEW a \in Int, NEW e \in Int, NEW d \in Nat \ {0}, NEW n, n = StepsBetween(0 - a, 0 - e, d)
  PROVE  Enumerates([k \in 1..n |-> a - Times(n - k, d)], n, Downward(a, e, d))
  <1>. DEFINE f == [k \in 1..n |-> a - Times(n - k, d)]
              S == Downward(a, e, d)
  <1>1. n \in Nat /\ \A j \in Nat : (0 - a) + Times(j, d) < 0 - e <=> j < n
    <2>1. 0 - a \in Int /\ 0 - e \in Int
      OBVIOUS
    <2>. QED
      BY <2>1, StepsAre
  <1>2. \A i, j \in Nat : Times(j, d) \in Nat /\ (i < j => Times(i, d) < Times(j, d))
    BY TimesGrow
  <1>3. \A j \in Nat : a - Times(j, d) > e <=> j < n
    <2>. SUFFICES ASSUME NEW j \in Nat  PROVE a - Times(j, d) > e <=> j < n
      OBVIOUS
    <2>1. Times(j, d) \in Nat /\ ((0 - a) + Times(j, d) < 0 - e <=> j < n)
      BY <1>1, <1>2
    <2>. QED
      BY <2>1
  <1>4. \A k \in 1..n : n - k \in Nat /\ n - k < n
    BY <1>1
  <1>5. f \in [1..n -> S]
    BY <1>2, <1>3, <1>4 DEF Downward
  <1>6. ASSUME NEW i \in 1..n, NEW j \in 1..n, i < j  PROVE f[i] < f[j]
    <2>1. n - i \in Nat /\ n - j \in Nat /\ n - j < n - i
      BY <1>1, <1>6
    <2>2. Times(n - i, d) \in Nat /\ Times(n - j, d) \in Nat /\ Times(n - j, d) < Times(n - i, d)
      BY <1>2, <2>1
    <2>. QED
      BY <2>2
  <1>7. ASSUME NEW p \in S  PROVE \E i \in 1..n : f[i] = p
    <2>1. PICK j \in Nat : p = a - Times(j, d) /\ p > e
      BY DEF Downward
    <2>2. n - j \in 1..n /\ n - (n - j) = j
      BY <1>1, <1>3, <2>1
    <2>3. f[n - j] = p
      BY <2>1, <2>2
    <2>. QED
      BY <2>2, <2>3
  <1>. QED
    BY <1>5, <1>6, <1>7 DEF Enumerates

-----------------------------------------------------------------------------
(* Slices.                                                                 *)

Parts(s) == {s.start, s.stop, s.step} \subseteq Int \cup {None} /\ s.step # 0

StepOf(s) == IF s.step = None THEN 1 ELSE s.step

FromOf(s, n) ==
  IF StepOf(s) > 0 THEN IF s.start = None THEN 0 ELSE Max({0, WrapAt(s.start, n)})
                   ELSE IF s.start = None THEN n - 1 ELSE Min({n - 1, WrapAt(s.start, n)})

Within(s, n, p) ==
  s.stop # None => IF StepOf(s) > 0 THEN p < WrapAt(s.stop, n) ELSE p > WrapAt(s.stop, n)

Hit(s, n) == {p \in 0..(n - 1) : Within(s, n, p) /\ \E j \in 0..n : p = FromOf(s, n) + j * StepOf(s)}

LEMMA SlicePositionsIs ==
  ASSUME NEW s, NEW n
  PROVE  SlicePositions(s, n) = IF StepOf(s) > 0 THEN Ascending(Hit(s, n))
                                ELSE Reverse(Ascending(Hit(s, n)))
  BY DEF SlicePositions, Hit, Within, FromOf, StepOf, WrapAt

\* A slice with its parts filled in and bound to n elements.
BoundStart(s, n) ==
  LET first == IF StepOf(s) < 0 THEN -1 ELSE 0
      at    == WrapAt(IF s.start = None THEN first ELSE s.start, n)
  IN  IF at < 0 THEN first ELSE IF at >= n THEN n + first ELSE at

BoundStop(s, n) ==
  IF s.stop = None THEN IF StepOf(s) > 0 THEN n ELSE -1
  ELSE IF WrapAt(s.stop, n) < 0 THEN -1
  ELSE IF WrapAt(s.stop, n) <= n THEN WrapAt(s.stop, n) ELSE n

LEMMA BindSliceIs ==
  ASSUME NEW s, Parts(s), NEW n \in Nat
  PROVE  /\ StepOf(s) \in Int /\ StepOf(s) # 0
         /\ BindSlice(AddIndex(s), n).start = BoundStart(s, n) /\ BoundStart(s, n) \in Int
         /\ BindSlice(AddIndex(s), n).stop = BoundStop(s, n) /\ BoundStop(s, n) \in Int
         /\ BindSlice(AddIndex(s), n).step = StepOf(s)
  <1>1. /\ s.start # None => s.start \in Int
        /\ s.stop # None => s.stop \in Int
        /\ StepOf(s) \in Int /\ StepOf(s) # 0
    BY NoneAssumption DEF Parts, StepOf
  <1>. DEFINE d == StepOf(s)
              first == IF d < 0 THEN -1 ELSE 0
              begin == IF s.start = None THEN first ELSE s.start
              r == AddIndex(s)
  <1>2. r.start = begin /\ r.stop = s.stop /\ r.step = d
    BY DEF AddIndex, StepOf
  <1>3. begin \in Int /\ d \in Int /\ d # 0
    BY <1>1
  <1>4. WrapAt(begin, n) \in Int /\ (s.stop # None => WrapAt(s.stop, n) \in Int)
    BY <1>1, <1>3 DEF WrapAt
  <1>5. s.stop # None => Min({WrapAt(s.stop, n), n}) = IF WrapAt(s.stop, n) <= n THEN WrapAt(s.stop, n) ELSE n
    BY <1>4, MinOf
  <1>. HIDE DEF r
  <1>6. BindSlice(r, n).step = d
    BY <1>2 DEF BindSlice
  <1>7. BindSlice(r, n).start
          = CASE WrapAt(begin, n) < 0 -> 0 - (IF d < 0 THEN 1 ELSE 0)
              [] WrapAt(begin, n) >= n -> n - (IF d < 0 THEN 1 ELSE 0)
              [] OTHER -> WrapAt(begin, n)
    BY <1>2 DEF BindSlice, WrapAt
  <1>8. BindSlice(r, n).stop
          = CASE s.stop = None -> IF d > 0 THEN n ELSE -1
              [] s.stop # None /\ WrapAt(s.stop, n) < 0 -> -1
              [] OTHER -> Min({WrapAt(s.stop, n), n})
    BY <1>2 DEF BindSlice, WrapAt
  <1>9. BindSlice(r, n).start = BoundStart(s, n) /\ BoundStart(s, n) \in Int
    <2>1. BoundStart(s, n) = IF WrapAt(begin, n) < 0 THEN first
                             ELSE IF WrapAt(begin, n) >= n THEN n + first ELSE WrapAt(begin, n)
      BY DEF BoundStart
    <2>. HIDE DEF begin, d
    <2>. QED
      BY <1>3, <1>4, <1>7, <2>1
  <1>10. BindSlice(r, n).stop = BoundStop(s, n) /\ BoundStop(s, n) \in Int
    BY <1>1, <1>4, <1>5, <1>8 DEF BoundStop
  <1>. QED
    BY <1>1, <1>6, <1>9, <1>10 DEF r

LEMMA HitUp ==
  ASSUME NEW s, Parts(s), NEW n \in Nat, StepOf(s) > 0
  PROVE  Hit(s, n) = Upward(BoundStart(s, n), BoundStop(s, n), StepOf(s))
  <1>. DEFINE d == StepOf(s)
              a == BoundStart(s, n)
              e == BoundStop(s, n)
              from == FromOf(s, n)
              at == WrapAt(s.start, n)
              to == WrapAt(s.stop, n)
  <1>1. /\ s.start # None => s.start \in Int /\ at \in Int
        /\ s.stop # None => s.stop \in Int /\ to \in Int
    BY NoneAssumption DEF Parts, WrapAt
  <1>2. d \in Nat \ {0} /\ a \in Int /\ e \in Int
    BY BindSliceIs
  <1>3. \/ from \in Nat /\ a = from /\ a <= n
        \/ from \in Nat /\ a = n /\ n <= from
    <2>1. CASE s.start = None
      BY <1>2, <2>1 DEF FromOf, BoundStart, WrapAt
    <2>2. CASE s.start # None
      <3>1. from = Max({0, at})
        BY <2>2 DEF FromOf
      <3>2. Max({0, at}) = IF at < 0 THEN 0 ELSE at
        <4>. DEFINE z == IF at < 0 THEN 0 ELSE at
        <4>1. {0, at} \in SUBSET Int /\ z \in {0, at} /\ \A y \in {0, at} : z >= y
          BY <1>1, <2>2
        <4>. HIDE DEF z, at
        <4>2. Max({0, at}) = z
          BY <4>1, MaxIs
        <4>. QED
          BY <4>2 DEF z
      <3>3. a = IF at < 0 THEN 0 ELSE IF at >= n THEN n ELSE at
        BY <1>2, <2>2 DEF BoundStart
      <3>. HIDE DEF a, at, from
      <3>. QED
        BY <1>1, <2>2, <3>1, <3>2, <3>3
    <2>. QED
      BY <2>1, <2>2
  <1>4. e <= n /\ \A p \in 0..(n - 1) : Within(s, n, p) <=> p < e
    BY <1>1, <1>2 DEF Within, BoundStop
  <1>5. \A j \in Nat : Times(j, d) \in Nat /\ j <= Times(j, d) /\ Times(j, d) = j * d
    BY <1>2, TimesGrow DEF Times
  <1>6. Hit(s, n) = {p \in 0..(n - 1) : Within(s, n, p) /\ \E j \in 0..n : p = from + j * d}
    BY DEF Hit
  <1>. HIDE DEF a, e, d, from
  <1>7. ASSUME NEW p \in Hit(s, n)  PROVE p \in Upward(a, e, d)
    <2>1. PICK j \in 0..n : p = from + j * d
      BY <1>6
    <2>2. p \in 0..(n - 1) /\ p < e /\ p = from + Times(j, d) /\ Times(j, d) \in Nat /\ j \in Nat
      BY <1>4, <1>5, <1>6, <2>1
    <2>3. a = from
      BY <1>3, <2>2
    <2>. QED
      BY <2>2, <2>3 DEF Upward
  <1>8. ASSUME NEW p \in Upward(a, e, d)  PROVE p \in Hit(s, n)
    <2>1. p \in Int /\ p < e
      BY DEF Upward
    <2>2. PICK j \in Nat : p = a + Times(j, d)
      BY DEF Upward
    <2>3. Times(j, d) \in Nat /\ j <= Times(j, d) /\ Times(j, d) = j * d
      BY <1>5
    <2>4. a = from /\ p \in 0..(n - 1) /\ j \in 0..n
      BY <1>2, <1>3, <1>4, <2>1, <2>2, <2>3
    <2>5. p = from + j * d
      BY <2>2, <2>3, <2>4
    <2>. QED
      BY <1>4, <1>6, <2>1, <2>4, <2>5
  <1>. QED
    BY <1>7, <1>8 DEF a, e, d

LEMMA HitDown ==
  ASSUME NEW s, Parts(s), NEW n \in Nat, StepOf(s) < 0
  PROVE  Hit(s, n) = Downward(BoundStart(s, n), BoundStop(s, n), 0 - StepOf(s))
  <1>. DEFINE d == 0 - StepOf(s)
              a == BoundStart(s, n)
              e == BoundStop(s, n)
              from == FromOf(s, n)
              at == WrapAt(s.start, n)
              to == WrapAt(s.stop, n)
  <1>1. /\ s.start # None => s.start \in Int /\ at \in Int
        /\ s.stop # None => s.stop \in Int /\ to \in Int
    BY NoneAssumption DEF Parts, WrapAt
  <1>2. StepOf(s) \in Int /\ d \in Nat \ {0} /\ a \in Int /\ e \in Int
    BY BindSliceIs
  <1>3. \/ from \in Int /\ a = from /\ a <= n - 1
        \/ from \in Int /\ a = -1 /\ from < 0
    <2>1. CASE s.start = None
      BY <1>2, <2>1 DEF FromOf, BoundStart, WrapAt
    <2>2. CASE s.start # None
      <3>1. from = Min({n - 1, at})
        BY <1>2, <2>2 DEF FromOf
      <3>2. Min({n - 1, at}) = IF n - 1 <= at THEN n - 1 ELSE at
        BY <1>1, <2>2, MinOf
      <3>3. a = IF at < 0 THEN -1 ELSE IF at >= n THEN n - 1 ELSE at
        BY <1>2, <2>2 DEF BoundStart
      <3>4. at \in Int
        BY <1>1, <2>2
      <3>. HIDE DEF a, at, from
      <3>5. CASE at < 0
        BY <3>1, <3>2, <3>3, <3>4, <3>5
      <3>6. CASE at >= 0
        BY <3>1, <3>2, <3>3, <3>4, <3>6
      <3>. QED
        BY <3>4, <3>5, <3>6
    <2>. QED
      BY <2>1, <2>2
  <1>4. e >= -1 /\ \A p \in 0..(n - 1) : Within(s, n, p) <=> p > e
    BY <1>1, <1>2 DEF Within, BoundStop
  <1>5. \A j \in Nat : Times(j, d) \in Nat /\ j <= Times(j, d) /\ Times(j, d) = j * d
    BY <1>2, TimesGrow DEF Times
  <1>6. \A j \in Nat : j * StepOf(s) = 0 - j * d
    BY <1>2
  <1>7. Hit(s, n) = {p \in 0..(n - 1) : Within(s, n, p) /\ \E j \in 0..n : p = from + j * StepOf(s)}
    BY DEF Hit
  <1>. HIDE DEF a, e, d, from
  <1>8. ASSUME NEW p \in Hit(s, n)  PROVE p \in Downward(a, e, d)
    <2>1. PICK j \in 0..n : p = from + j * StepOf(s)
      BY <1>7
    <2>2. /\ p \in 0..(n - 1) /\ p > e /\ j \in Nat
          /\ j * StepOf(s) = 0 - j * d /\ Times(j, d) = j * d /\ Times(j, d) \in Nat
      BY <1>4, <1>5, <1>6, <1>7, <2>1
    <2>3. p = from - Times(j, d)
      BY <1>3, <2>1, <2>2
    <2>4. a = from
      BY <1>3, <2>2, <2>3
    <2>. QED
      BY <2>2, <2>3, <2>4 DEF Downward
  <1>9. ASSUME NEW p \in Downward(a, e, d)  PROVE p \in Hit(s, n)
    <2>1. p \in Int /\ p > e
      BY DEF Downward
    <2>2. PICK j \in Nat : p = a - Times(j, d)
      BY DEF Downward
    <2>3. Times(j, d) \in Nat /\ j <= Times(j, d) /\ Times(j, d) = j * d /\ j * StepOf(s) = 0 - j * d
      BY <1>5, <1>6
    <2>4. a = from /\ p \in 0..(n - 1) /\ j \in 0..n
      <3>1. p >= 0 /\ p <= a
        BY <1>2, <1>4, <2>1, <2>2, <2>3
      <3>2. a = from /\ a <= n - 1
        BY <1>3, <2>1, <3>1
      <3>3. p \in 0..(n - 1)
        BY <1>2, <2>1, <3>1, <3>2
      <3>4. j <= a
        BY <1>2, <2>2, <2>3, <3>1
      <3>. QED
        BY <1>2, <3>2, <3>3, <3>4
    <2>5. p = from + j * StepOf(s)
      BY <1>3, <2>2, <2>3, <2>4
    <2>. QED
      BY <1>4, <1>7, <2>1, <2>4, <2>5
  <1>. QED
    BY <1>8, <1>9 DEF a, e, d

\* The position of step k of a bound slice.
SliceAt(b, k) == b.start + (k - 1) * b.step

LEMMA SliceLeads ==
  ASSUME NEW s, Parts(s), NEW n \in Nat, NEW b, b = BindSlice(AddIndex(s), n)
  PROVE  /\ SliceSteps(b) \in Nat
         /\ \A k \in 1..SliceSteps(b) : SliceAt(b, k) \in 0..(n - 1)
         /\ SlicePositions(s, n) = [k \in 1..SliceSteps(b) |-> SliceAt(b, k)]
  <1>. DEFINE a == BoundStart(s, n)
              e == BoundStop(s, n)
              m == SliceSteps(b)
              S == Hit(s, n)
  <1>1. /\ a \in Int /\ e \in Int /\ StepOf(s) \in Int /\ StepOf(s) # 0
        /\ b.start = a /\ b.stop = e /\ b.step = StepOf(s)
    BY BindSliceIs
  <1>2. S \in SUBSET (0..(n - 1)) /\ S \in SUBSET Int
    BY DEF Hit
  <1>3. CASE StepOf(s) > 0
    <2>. DEFINE d == StepOf(s)
                f == [k \in 1..m |-> a + Times(k - 1, d)]
    <2>1. d \in Nat \ {0}
      BY <1>1, <1>3
    <2>2. m = StepsBetween(a, e, d)
      BY <1>1, <1>3 DEF SliceSteps, StepsBetween
    <2>3. m \in Nat
      BY <1>1, <2>1, <2>2, StepsAre
    <2>4. S = Upward(a, e, d)
      BY <1>3, HitUp
    <2>. HIDE DEF a, e, m, S, d
    <2>5. Enumerates(f, m, S)
      BY <1>1, <2>1, <2>2, <2>4, UpwardInOrder
    <2>6. Ascending(S) = f
      BY <1>2, <2>3, <2>5, AscendingIs
    <2>7. \A k \in 1..m : SliceAt(b, k) = f[k]
      BY <1>1 DEF SliceAt, Times, d
    <2>8. f \in [1..m -> S]
      BY <2>5 DEF Enumerates
    <2>9. SlicePositions(s, n) = f
      BY <1>3, <2>6, SlicePositionsIs DEF S
    <2>10. f = [k \in 1..m |-> SliceAt(b, k)]
      BY <2>7, <2>8
    <2>. QED
      BY <1>2, <2>3, <2>7, <2>8, <2>9, <2>10 DEF m
  <1>4. CASE StepOf(s) < 0
    <2>. DEFINE d == 0 - StepOf(s)
                g == [k \in 1..m |-> a - Times(m - k, d)]
    <2>1. d \in Nat \ {0}
      BY <1>1, <1>4
    <2>2. m = StepsBetween(0 - a, 0 - e, d)
      <3>1. m = IF e < a THEN (a - e - 1) \div d + 1 ELSE 0
        BY <1>1, <1>4 DEF SliceSteps
      <3>2. (0 - a < 0 - e <=> e < a) /\ (0 - e) - (0 - a) - 1 = a - e - 1
        BY <1>1
      <3>. QED
        BY <3>1, <3>2 DEF StepsBetween
    <2>3. 0 - a \in Int /\ 0 - e \in Int
      BY <1>1
    <2>4. m \in Nat
      BY <2>1, <2>2, <2>3, StepsAre
    <2>5. S = Downward(a, e, d)
      BY <1>4, HitDown
    <2>. HIDE DEF a, e, m, S, d
    <2>6. Enumerates(g, m, S)
      BY <1>1, <2>1, <2>2, <2>5, DownwardInOrder
    <2>7. Ascending(S) = g
      BY <1>2, <2>4, <2>6, AscendingIs
    <2>8. Len(g) = m /\ g \in [1..m -> S]
      BY <2>4, <2>6, LenIs DEF Enumerates
    <2>9. ASSUME NEW k \in 1..m
          PROVE  SliceAt(b, k) = g[m - k + 1] /\ m - k + 1 \in 1..m
      <3>1. m - k + 1 \in 1..m /\ m - (m - k + 1) = k - 1 /\ k - 1 \in Nat
        BY <2>4
      <3>2. g[m - k + 1] = a - Times(k - 1, d)
        BY <3>1
      <3>3. (k - 1) * StepOf(s) = 0 - Times(k - 1, d) /\ Times(k - 1, d) \in Int
        BY <1>1, <3>1 DEF Times, d
      <3>. QED
        BY <1>1, <3>1, <3>2, <3>3 DEF SliceAt
    <2>. HIDE DEF g
    <2>10. Reverse(g) = [k \in 1..m |-> g[m - k + 1]]
      BY <2>8 DEF Reverse
    <2>11. SlicePositions(s, n) = Reverse(g)
      <3>1. ~(StepOf(s) > 0)
        BY <1>1, <1>4
      <3>. QED
        BY <2>7, <3>1, SlicePositionsIs DEF S
    <2>12. Reverse(g) = [k \in 1..m |-> SliceAt(b, k)]
      BY <2>9, <2>10
    <2>13. \A k \in 1..m : SliceAt(b, k) \in 0..(n - 1)
      BY <1>2, <2>8, <2>9
    <2>. QED
      BY <2>4, <2>11, <2>12, <2>13 DEF m
  <1>. QED
    BY <1>1, <1>3, <1>4

\* Nothing refused, the loop over a list runs to its end.
LEMMA AllGood ==
  ASSUME NEW it, NEW ix, ix.kind = "list", ix.list \in Seq(Int), ~(Good(it, ix) < Len(ix.list))
  PROVE  Good(it, ix) = Len(ix.list) /\ \A j \in DOMAIN ix.list : InBounds(it, ix.list[j])
  <1>. DEFINE n == Len(ix.list)
              bad == {j \in DOMAIN ix.list : ~InBounds(it, ix.list[j])}
              S == bad \cup {n + 1}
  <1>1. n \in Nat /\ DOMAIN ix.list = 1..n
    OBVIOUS
  <1>2. Good(it, ix) = Min(S) - 1
    BY DEF Good
  <1>. HIDE DEF n
  <1>3. S \in SUBSET Nat /\ S # {} /\ \A j \in bad : j <= n
    BY <1>1
  <1>4. Min(S) \in S /\ \A j \in S : Min(S) <= j
    <2>. HIDE DEF S
    <2>1. \E x \in S : \A y \in S : x <= y
      BY <1>3, LeastOf
    <2>. QED
      BY <2>1 DEF Min
  <1>5. ~(Min(S) - 1 < n)
    BY <1>2 DEF n
  <1>6. Min(S) = n + 1 /\ bad = {}
    <2>. DEFINE z == Min(S)
    <2>1. z \in Nat /\ \A j \in S : z <= j
      BY <1>3, <1>4
    <2>2. z >= n + 1
      BY <1>1, <1>2, <1>5, <2>1
    <2>3. z = n + 1
      <3>1. n + 1 \in S
        OBVIOUS
      <3>2. z <= n + 1
        BY <2>1, <3>1
      <3>. HIDE DEF z, S
      <3>. QED
        BY <1>1, <2>1, <2>2, <3>2
    <2>4. \A j \in bad : z <= j /\ j \in Nat /\ j <= n
      BY <1>3, <2>1
    <2>. HIDE DEF z, bad
    <2>5. bad = {}
      BY <1>1, <2>3, <2>4
    <2>. QED
      BY <2>3, <2>5 DEF z
  <1>. QED
    BY <1>1, <1>2, <1>6 DEF n

-----------------------------------------------------------------------------
(* The smallest of some numbers.                                           *)

LEMMA MinIn ==
  ASSUME NEW S \in SUBSET Nat, S # {}
  PROVE  Min(S) \in S
  BY LeastOf DEF Min

\* Of finitely many numbers one is the smallest.
LEMMA SmallestOne ==
  ASSUME NEW n \in Nat, NEW S \in SUBSET (1..n), S # {}, NEW f, \A i \in S : f[i] \in Int
  PROVE  {i \in S : \A j \in S : f[i] <= f[j]} # {}
  <1>. DEFINE Least(k, i) == i \in S /\ i <= k /\ \A j \in S : j <= k => f[i] <= f[j]
              Done == {k \in 0..n : (\E i \in S : i <= k) => \E i \in S : Least(k, i)}
  <1>1. 0 \in Done
    OBVIOUS
  <1>2. ASSUME NEW k \in 1..n, k - 1 \in Done  PROVE k \in Done
    <2>. SUFFICES ASSUME \E i \in S : i <= k  PROVE \E i \in S : Least(k, i)
      OBVIOUS
    <2>0. \A j \in S : j <= k <=> j = k \/ j <= k - 1
      OBVIOUS
    <2>1. CASE \E i \in S : i <= k - 1
      <3>1. PICK i \in S : Least(k - 1, i)
        BY <1>2, <2>1
      <3>2. i <= k /\ f[i] \in Int /\ \A j \in S : j <= k - 1 => f[i] <= f[j]
        BY <3>1
      <3>3. CASE k \in S /\ f[k] < f[i]
        <4>1. f[k] \in Int
          BY <3>3
        <4>2. ASSUME NEW j \in S, j <= k  PROVE f[k] <= f[j]
          <5>1. CASE j = k
            BY <4>1, <5>1
          <5>2. CASE j <= k - 1
            <6>1. f[i] <= f[j] /\ f[j] \in Int
              BY <3>2, <5>2
            <6>. QED
              BY <3>2, <3>3, <4>1, <6>1
          <5>. QED
            BY <2>0, <4>2, <5>1, <5>2
        <4>3. Least(k, k)
          BY <3>3, <4>2
        <4>. QED
          BY <3>3, <4>3
      <3>4. CASE ~(k \in S /\ f[k] < f[i])
        <4>1. ASSUME NEW j \in S, j <= k  PROVE f[i] <= f[j]
          <5>1. CASE j = k
            <6>1. f[j] \in Int /\ ~(f[j] < f[i])
              BY <3>4, <5>1
            <6>. QED
              BY <3>2, <6>1
          <5>2. CASE j <= k - 1
            BY <3>2, <5>2
          <5>. QED
            BY <2>0, <4>1, <5>1, <5>2
        <4>2. Least(k, i)
          BY <3>2, <4>1
        <4>. QED
          BY <4>2
      <3>. QED
        BY <3>3, <3>4
    <2>2. CASE ~\E i \in S : i <= k - 1
      <3>1. k \in S /\ f[k] \in Int /\ \A j \in S : j <= k => j = k
        BY <2>0, <2>2
      <3>2. Least(k, k)
        BY <3>1
      <3>. QED
        BY <3>1, <3>2
    <2>. QED
      BY <2>1, <2>2
  <1>3. Done = 0..n
    <2>1. Done \in SUBSET (0..n)
      OBVIOUS
    <2>. HIDE DEF Done
    <2>. QED
      BY <1>1, <1>2, <2>1, UpTo
  <1>4. n \in Done /\ \A j \in S : j <= n
    <2>. HIDE DEF Done
    <2>. QED
      BY <1>3
  <1>5. PICK i \in S : Least(n, i)
    BY <1>4
  <1>6. \A j \in S : f[i] <= f[j]
    BY <1>4, <1>5
  <1>. QED
    BY <1>6

-----------------------------------------------------------------------------
(* Arrays in one block, in C or in Fortran order.                          *)

\* The sum of the first k terms of f.
Upfront(f, k) == SumFunction([i \in 1..k |-> f[i]])

LEMMA UpfrontStep ==
  ASSUME NEW n \in Nat, NEW f, \A i \in 1..n : f[i] \in Int
  PROVE  /\ Upfront(f, 0) = 0
         /\ \A k \in 1..n : Upfront(f, k - 1) \in Int /\ Upfront(f, k) = f[k] + Upfront(f, k - 1)
  <1>1. ASSUME NEW k \in 0..n
        PROVE  LET g == [i \in 1..k |-> f[i]] IN Summable(g) /\ SumFunction(g) \in Int
    <2>. DEFINE g == [i \in 1..k |-> f[i]]
    <2>1. \A i \in 1..k : i \in 1..n
      OBVIOUS
    <2>2. DOMAIN g = 1..k /\ \A i \in 1..k : g[i] = f[i]
      OBVIOUS
    <2>3. IsFiniteSet(1..k)
      BY FS_Interval
    <2>. HIDE DEF g
    <2>4. Summable(g)
      BY <2>1, <2>2, <2>3 DEF Summable
    <2>5. SumFunction(g) \in Int
      BY <2>4, SumType
    <2>. QED
      BY <2>4, <2>5 DEF g
  <1>2. Upfront(f, 0) = 0
    <2>. DEFINE g == [i \in 1..0 |-> f[i]]
    <2>1. DOMAIN g = {} /\ 0 \in 0..n
      OBVIOUS
    <2>2. Summable(g)
      BY <1>1, <2>1
    <2>. HIDE DEF g
    <2>3. SumFunction(g) = 0
      BY <2>1, <2>2, SumType
    <2>. QED
      BY <2>3 DEF Upfront, g
  <1>3. ASSUME NEW k \in 1..n
        PROVE  Upfront(f, k - 1) \in Int /\ Upfront(f, k) = f[k] + Upfront(f, k - 1)
    <2>. DEFINE g == [i \in 1..k |-> f[i]]
                h == [i \in 1..(k - 1) |-> f[i]]
    <2>1. k \in 0..n /\ k - 1 \in 0..n /\ k \in 1..k /\ 1..(k - 1) = (1..k) \ {k}
      OBVIOUS
    <2>2. Summable(g) /\ SumFunction(h) \in Int
      BY <1>1, <2>1
    <2>3. DOMAIN h = DOMAIN g \ {k} /\ k \in DOMAIN g /\ g[k] = f[k]
      BY <2>1
    <2>4. \A y \in DOMAIN h : h[y] = g[y]
      BY <2>1
    <2>. HIDE DEF g, h
    <2>5. SumFunction(g) = g[k] + SumFunction(h)
      BY <2>2, <2>3, <2>4, SumSplit, Zenon
    <2>. QED
      BY <2>2, <2>3, <2>5 DEF Upfront, g, h
  <1>. QED
    BY <1>2, <1>3

\* How many elements one step along axis i skips in Fortran order.
Ahead(dims, i) == Product(SubSeq(dims, 1, i - 1))

LEMMA AheadStep ==
  ASSUME NEW dims \in Seq(Nat)
  PROVE  /\ Ahead(dims, 1) = 1 /\ Ahead(dims, Len(dims) + 1) = Product(dims)
         /\ \A i \in 1..Len(dims) : Ahead(dims, i) \in Int
                                    /\ Ahead(dims, i + 1) = Ahead(dims, i) * dims[i]
  <1>1. Ahead(dims, 1) = 1
    <2>1. SubSeq(dims, 1, 1 - 1) = <<>>
      OBVIOUS
    <2>. QED
      BY <2>1, ProductEmpty DEF Ahead
  <1>2. Ahead(dims, Len(dims) + 1) = Product(dims)
    <2>1. (Len(dims) + 1) - 1 = Len(dims) /\ 0 + 1 = 1
      OBVIOUS
    <2>. QED
      BY <2>1, BelowStep DEF Ahead, Below
  <1>3. ASSUME NEW i \in 1..Len(dims)
        PROVE  Ahead(dims, i) \in Int /\ Ahead(dims, i + 1) = Ahead(dims, i) * dims[i]
    <2>1. 1 \in 1..(Len(dims) + 1) /\ i \in 1..Len(dims) /\ (i + 1) - 1 = i
      OBVIOUS
    <2>. QED
      BY <2>1, SlabLast DEF Ahead
  <1>. QED
    BY <1>1, <1>2, <1>3

LEMMA AheadType ==
  ASSUME NEW dims \in Seq(Nat), Product(dims) # 0
  PROVE  \A i \in 1..(Len(dims) + 1) : Ahead(dims, i) \in Nat \ {0}
  <1>. DEFINE n == Len(dims)
              Holding == {i \in 0..n : Ahead(dims, i + 1) \in Nat \ {0}}
  <1>0. n \in Nat
    OBVIOUS
  <1>1. 0 \in Holding
    <2>1. 0 + 1 = 1 /\ 0 \in 0..n
      BY <1>0
    <2>. QED
      BY <2>1, AheadStep
  <1>2. ASSUME NEW i \in 1..n, i - 1 \in Holding  PROVE i \in Holding
    <2>. DEFINE x == Ahead(dims, i)
                y == dims[i]
    <2>1. (i - 1) + 1 = i /\ i \in 0..n
      OBVIOUS
    <2>2. x \in Nat \ {0}
      BY <1>2, <2>1
    <2>3. y \in Nat \ {0}
      BY NoEmptyAxis
    <2>4. Ahead(dims, i + 1) = x * y
      BY AheadStep
    <2>. HIDE DEF x, y
    <2>5. x * y \in Nat \ {0}
      BY <2>2, <2>3
    <2>. QED
      BY <2>1, <2>4, <2>5
  <1>3. Holding = 0..n
    <2>1. Holding \in SUBSET (0..n)
      OBVIOUS
    <2>. HIDE DEF Holding, n
    <2>. QED
      BY <1>0, <1>1, <1>2, <2>1, UpTo
  <1>4. ASSUME NEW i \in 1..(n + 1)  PROVE Ahead(dims, i) \in Nat \ {0}
    <2>1. i - 1 \in 0..n /\ (i - 1) + 1 = i
      BY <1>0
    <2>2. i - 1 \in Holding
      <3>. HIDE DEF Holding
      <3>. QED
        BY <1>3, <2>1
    <2>. QED
      BY <2>1, <2>2
  <1>. QED
    BY <1>4

LEMMA Slabs ==
  ASSUME NEW a \in Nat \ {0}, NEW len \in Nat \ {0}
  PROVE  /\ a * len \in Nat \ {0}
         /\ \A r \in 0..(a - 1) : \A j \in 0..(len - 1) : j * a + r \in 0..(a * len - 1)
         /\ \A q \in 0..(a * len - 1) :
              q % a \in 0..(a - 1) /\ q \div a \in 0..(len - 1) /\ q = (q \div a) * a + (q % a)
  <1>1. a * len = len * a /\ a * len \in Nat \ {0}
    OBVIOUS
  <1>2. ASSUME NEW r \in 0..(a - 1), NEW j \in 0..(len - 1)  PROVE j * a + r \in 0..(a * len - 1)
    <2>1. j \in Nat /\ j < len
      OBVIOUS
    <2>. DEFINE x == j * a
                y == len * a
    <2>2. x \in Nat /\ y \in Nat /\ x + a <= y
      BY <2>1, TimesLess
    <2>. HIDE DEF x, y
    <2>3. x + r \in 0..(y - 1)
      BY <2>2
    <2>. QED
      BY <1>1, <2>3 DEF x, y
  <1>3. ASSUME NEW q \in 0..(a * len - 1)
        PROVE  q % a \in 0..(a - 1) /\ q \div a \in 0..(len - 1) /\ q = (q \div a) * a + (q % a)
    <2>1. q \in Nat
      OBVIOUS
    <2>2. q \div a \in Int /\ q % a \in 0..(a - 1) /\ q = a * (q \div a) + (q % a)
      BY <2>1, DivIs
    <2>3. q \in 0..(len * a - 1)
      BY <1>1
    <2>4. q \div a \in 0..(len - 1)
      BY <2>1, <2>3, DigitStep
    <2>. DEFINE d == q \div a
                e == q % a
    <2>5. q = a * d + e /\ d \in Int /\ a \in Int
      BY <2>2
    <2>. HIDE DEF d, e
    <2>6. a * d = d * a
      BY <2>5
    <2>. QED
      BY <2>2, <2>4, <2>5, <2>6 DEF d, e
  <1>. QED
    BY <1>1, <1>2, <1>3

\* The place of coordinates c in Fortran order.
Leaps(dims, c) == [i \in 1..Len(dims) |-> c[i] * Ahead(dims, i)]

FPlace(dims, c) == SumFunction(Leaps(dims, c))

LEMMA LeapsTerms ==
  ASSUME NEW dims \in Seq(Nat), Product(dims) # 0, NEW c \in Coordinates(dims)
  PROVE  \A i \in 1..Len(dims) : /\ Leaps(dims, c)[i] = c[i] * Ahead(dims, i)
                                 /\ Leaps(dims, c)[i] \in Int /\ c[i] \in 0..(dims[i] - 1)
  <1>. SUFFICES ASSUME NEW i \in 1..Len(dims)
                PROVE  /\ Leaps(dims, c)[i] = c[i] * Ahead(dims, i)
                       /\ Leaps(dims, c)[i] \in Int /\ c[i] \in 0..(dims[i] - 1)
    OBVIOUS
  <1>. DEFINE x == c[i]
              y == Ahead(dims, i)
  <1>1. Leaps(dims, c)[i] = x * y
    BY DEF Leaps
  <1>2. x \in Nat /\ x < dims[i] /\ dims[i] \in Nat
    BY DEF Coordinates
  <1>3. y \in Nat
    <2>1. i \in 1..(Len(dims) + 1)
      OBVIOUS
    <2>. QED
      BY <2>1, AheadType
  <1>. HIDE DEF x, y
  <1>4. x * y \in Int
    BY <1>2, <1>3
  <1>. QED
    BY <1>1, <1>2, <1>4 DEF x, y

\* The places of an array's elements in Fortran order are 0, 1, 2 and so on.
LEMMA FPlaces ==
  ASSUME NEW dims \in Seq(Nat), Product(dims) # 0
  PROVE  /\ \A c \in Coordinates(dims) : FPlace(dims, c) \in 0..(Product(dims) - 1)
         /\ \A q \in 0..(Product(dims) - 1) : \E c \in Coordinates(dims) : FPlace(dims, c) = q
  <1>. DEFINE n == Len(dims)
              L(c) == Leaps(dims, c)
              A(i) == Ahead(dims, i)
              Up(c, k) == Upfront(L(c), k)
              In(k) == \A c \in Coordinates(dims) : Up(c, k) \in 0..(A(k + 1) - 1)
              Onto(k) == \A q \in 0..(A(k + 1) - 1) : \E c \in Coordinates(dims) : Up(c, k) = q
              Holding == {k \in 0..n : In(k) /\ Onto(k)}
  <1>0. n \in Nat /\ \A i \in 1..n : dims[i] \in Nat \ {0}
    BY NoEmptyAxis
  <1>1. /\ A(1) = 1 /\ A(n + 1) = Product(dims)
        /\ (\A i \in 1..(n + 1) : A(i) \in Nat \ {0})
        /\ \A i \in 1..n : A(i + 1) = A(i) * dims[i]
    BY AheadStep, AheadType
  <1>2. ASSUME NEW c \in Coordinates(dims)
        PROVE  /\ Up(c, 0) = 0
               /\ \A k \in 1..n : Up(c, k) = c[k] * A(k) + Up(c, k - 1) /\ c[k] \in 0..(dims[k] - 1)
    <2>1. \A i \in 1..n : L(c)[i] = c[i] * A(i) /\ L(c)[i] \in Int /\ c[i] \in 0..(dims[i] - 1)
      BY LeapsTerms
    <2>. HIDE DEF L, A
    <2>2. \A i \in 1..n : L(c)[i] \in Int
      BY <2>1
    <2>. HIDE DEF n
    <2>3. Up(c, 0) = 0 /\ \A k \in 1..n : Up(c, k) = L(c)[k] + Up(c, k - 1)
      BY <1>0, <2>2, UpfrontStep
    <2>. QED
      BY <2>1, <2>3
  <1>3. ASSUME NEW c \in Coordinates(dims), NEW d \in Coordinates(dims), NEW k \in 0..n,
               \A i \in 1..k : c[i] = d[i]
        PROVE  Up(c, k) = Up(d, k)
    <2>1. \A i \in 1..k : L(c)[i] = L(d)[i]
      BY <1>3 DEF Leaps
    <2>. HIDE DEF L
    <2>. QED
      BY <2>1 DEF Upfront
  <1>4. 0 \in Holding
    <2>1. 0 \in 0..n /\ A(0 + 1) - 1 = 0
      BY <1>0, <1>1
    <2>2. \E c \in Coordinates(dims) : TRUE
      <3>. DEFINE c == [i \in 1..n |-> 0]
      <3>1. c \in Coordinates(dims)
        BY <1>0 DEF Coordinates
      <3>. QED
        BY <3>1
    <2>3. In(0)
      <3>. HIDE DEF Up, A
      <3>. QED
        BY <1>2, <2>1
    <2>4. Onto(0)
      <3>. HIDE DEF Up, A
      <3>. QED
        BY <1>2, <2>1, <2>2
    <2>. QED
      BY <2>1, <2>3, <2>4
  <1>. HIDE DEF Up, A, L
  <1>5. ASSUME NEW k \in 1..n, k - 1 \in Holding  PROVE k \in Holding
    <2>. DEFINE a == A(k)
                len == dims[k]
                j == k - 1
    <2>1. /\ a \in Nat \ {0} /\ len \in Nat \ {0} /\ A(k + 1) = a * len /\ k \in 0..n
          /\ j \in 0..n /\ A(j + 1) = a
      BY <1>0, <1>1
    <2>2. /\ \A r \in 0..(a - 1) : \A h \in 0..(len - 1) : h * a + r \in 0..(a * len - 1)
          /\ \A q \in 0..(a * len - 1) :
               q % a \in 0..(a - 1) /\ q \div a \in 0..(len - 1) /\ q = (q \div a) * a + (q % a)
      BY <2>1, Slabs
    <2>3. ASSUME NEW c \in Coordinates(dims)
          PROVE  Up(c, k) = c[k] * a + Up(c, j) /\ c[k] \in 0..(len - 1)
      BY <1>2
    <2>4. \A c \in Coordinates(dims) : Up(c, j) \in 0..(a - 1)
      BY <1>5, <2>1
    <2>5. \A q \in 0..(a - 1) : \E c \in Coordinates(dims) : Up(c, j) = q
      BY <1>5, <2>1
    <2>6. In(k)
      <3>1. ASSUME NEW c \in Coordinates(dims)  PROVE Up(c, k) \in 0..(A(k + 1) - 1)
        <4>1. c[k] * a + Up(c, j) \in 0..(a * len - 1)
          <5>. HIDE DEF a, len, j
          <5>. QED
            BY <2>2, <2>3, <2>4
        <4>. HIDE DEF j
        <4>. QED
          BY <2>1, <2>3, <4>1
      <3>. QED
        BY <3>1
    <2>7. Onto(k)
      <3>. SUFFICES ASSUME NEW q \in 0..(a * len - 1)
                    PROVE  \E c \in Coordinates(dims) : Up(c, k) = q
        BY <2>1
      <3>. DEFINE h == q \div a
                  r == q % a
      <3>1. h \in 0..(len - 1) /\ r \in 0..(a - 1) /\ q = h * a + r
        BY <2>2
      <3>. HIDE DEF h, r
      <3>2. PICK c \in Coordinates(dims) : Up(c, j) = r
        BY <2>5, <3>1
      <3>. DEFINE d == [c EXCEPT ![k] = h]
      <3>3. d \in Coordinates(dims) /\ d[k] = h /\ \A i \in 1..j : d[i] = c[i]
        <4>1. c \in [1..n -> Nat] /\ \A i \in 1..n : c[i] < dims[i]
          BY DEF Coordinates
        <4>2. h \in Nat /\ h < dims[k]
          BY <1>0, <3>1
        <4>3. d \in [1..n -> Nat]
          BY <4>1, <4>2
        <4>4. ASSUME NEW i \in 1..n  PROVE d[i] < dims[i]
          BY <4>1, <4>2
        <4>5. d[k] = h /\ \A i \in 1..j : d[i] = c[i]
          <5>1. k \in DOMAIN c /\ \A i \in 1..j : i \in DOMAIN c /\ i # k
            BY <4>1
          <5>. QED
            BY <5>1
        <4>. QED
          BY <4>3, <4>4, <4>5 DEF Coordinates
      <3>. HIDE DEF d, j
      <3>4. Up(d, j) = Up(c, j)
        BY <1>3, <2>1, <3>3
      <3>5. Up(d, k) = h * a + r
        BY <2>3, <3>2, <3>3, <3>4
      <3>. QED
        BY <3>1, <3>3, <3>5
    <2>. QED
      BY <2>1, <2>6, <2>7
  <1>6. n \in Holding
    <2>1. Holding \in SUBSET (0..n) /\ n \in 0..n
      BY <1>0
    <2>. HIDE DEF Holding, n
    <2>2. Holding = 0..n
      BY <1>0, <1>4, <1>5, <2>1, UpTo
    <2>. QED
      BY <2>1, <2>2
  <1>7. ASSUME NEW c \in Coordinates(dims)  PROVE FPlace(dims, c) = Up(c, n)
    <2>1. Leaps(dims, c) = [i \in 1..n |-> Leaps(dims, c)[i]]
      BY DEF Leaps
    <2>. QED
      BY <2>1 DEF FPlace, Up, Upfront, L
  <1>8. In(n) /\ Onto(n)
    BY <1>6
  <1>. HIDE DEF n
  <1>9. \A c \in Coordinates(dims) : FPlace(dims, c) \in 0..(Product(dims) - 1)
    BY <1>1, <1>7, <1>8
  <1>10. ASSUME NEW q \in 0..(Product(dims) - 1)  PROVE \E c \in Coordinates(dims) : FPlace(dims, c) = q
    <2>1. PICK c \in Coordinates(dims) : Up(c, n) = q
      BY <1>1, <1>8
    <2>. QED
      BY <1>7, <2>1
  <1>. QED
    BY <1>9, <1>10

\* A contiguous array of one axis.
LEMMA OneAxis ==
  ASSUME NEW a, IsArray(a), Product(a.dims) # 0, NEW c \in Coordinates(a.dims), Len(a.dims) = 1,
         a.dims[1] = 1 \/ a.strides[1] = 1
  PROVE  c[1] * a.strides[1] = c[1] * 1
  <1>1. c[1] \in Nat /\ c[1] < a.dims[1] /\ a.strides[1] \in Int
    <2>1. 1 \in 1..Len(a.dims)
      OBVIOUS
    <2>2. a.strides[1] \in Int
      <3>1. a.strides \in Seq(Int) /\ Len(a.strides) = 1
        BY DEF IsArray
      <3>. HIDE DEF IsArray
      <3>. QED
        BY <3>1
    <2>. QED
      BY <2>1, <2>2 DEF Coordinates
  <1>. DEFINE x == c[1]
              y == a.strides[1]
              z == a.dims[1]
  <1>2. x \in Nat /\ x < z /\ y \in Int /\ (z = 1 \/ y = 1)
    BY <1>1
  <1>. HIDE DEF x, y, z
  <1>3. CASE y = 1
    BY <1>3 DEF x, y
  <1>4. CASE z = 1
    <2>1. x = 0
      BY <1>2, <1>4
    <2>2. 0 * y = 0 /\ 0 * 1 = 0
      BY <1>2
    <2>. QED
      BY <2>1, <2>2 DEF x, y
  <1>. QED
    BY <1>2, <1>3, <1>4
=============================================================================
