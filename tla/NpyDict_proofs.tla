--------------------------- MODULE NpyDict_proofs ---------------------------
(***************************************************************************)
(* Proofs about NpyDict, for any tables, keys, hash function and ratios:   *)
(* a rehash always finds a number of buckets; every pair is found in its   *)
(* bucket; every block has one owner; tables implement maps; the count     *)
(* follows the pairs through every operation and every rehash; an          *)
(* iteration yields every pair once; the types.                            *)
(***************************************************************************)
EXTENDS NpyDict, WellFoundedInduction, FiniteSetTheorems, TLAPS

-----------------------------------------------------------------------------
(* The search of calculateIdealNumOfBuckets ends before it doubles.        *)

Fits(n) == n % 2 = 1 /\ isProbablePrime(n)

\* No odd prime below 50 divides n.
Coprime(n) ==
  /\ n % 2 = 1
  /\ n % 3 # 0 /\ n % 5 # 0 /\ n % 7 # 0 /\ n % 11 # 0 /\ n % 13 # 0 /\ n % 17 # 0 /\ n % 19 # 0
  /\ n % 23 # 0 /\ n % 29 # 0 /\ n % 31 # 0 /\ n % 37 # 0 /\ n % 41 # 0 /\ n % 43 # 0 /\ n % 47 # 0

\* Numbers without such a divisor, each less than twice the one before, up to
\* the product of those primes and 2.
Steps ==
  {53, 107, 211, 421, 839, 1669, 3331, 6661, 13313, 26627, 53239, 106453, 212903, 425801,
   851603, 1703203, 3406399, 6812797, 13625593, 27251179, 54502351, 109004689, 218009371,
   436018733, 872037461, 1744074907, 3488149813, 6976299623, 13952599247, 27905198491,
   55810396981, 111620793961, 223241587913, 446483175811, 892966351621, 1785932703239,
   3571865406479, 7143730812949, 14287461625897, 28574923251793, 57149846503583, 114299693007167,
   228599386014331, 457198772028659, 914397544057313, 1828795088114627, 3657590176229243,
   7315180352458487, 14630360704916969, 29260721409833939, 58521442819667879, 117042885639335759,
   234085771278671519, 468171542557343039, 936343085114686079}

Product == 614889782588491410

LEMMA CoprimeFits == \A n \in Nat : Coprime(n) => Fits(n)
  <1>. SUFFICES ASSUME NEW n \in Nat, Coprime(n), NEW i \in 3..50, i % 2 = 1, n % i = 0
                PROVE  FALSE
    BY DEF Fits, Coprime, isProbablePrime
  <1>1. i \in {3, 5, 7, 9, 11, 13, 15, 17, 19, 21, 23, 25, 27, 29, 31, 33, 35, 37, 39, 41, 43, 45, 47, 49}
    OBVIOUS
  <1>. QED
    BY <1>1, SMTT(30) DEF Coprime

LEMMA StepsCoprime == \A n \in Steps : Coprime(n)
  BY SMTT(30) DEF Steps, Coprime

LEMMA ProductCoprime == \A k \in Nat : Coprime(Product * k + 1)
  BY SMTT(60) DEF Product, Coprime

\* Between a number and its double there is one without a small divisor.
LEMMA FitsBelowDouble == \A low \in Nat : low >= 5 => \E n \in low..(2 * low) : Fits(n)
  <1>. SUFFICES ASSUME NEW low \in Nat, low >= 5  PROVE \E n \in low..(2 * low) : Fits(n)
    OBVIOUS
  <1>1. Fits(5) /\ Fits(7) /\ Fits(13) /\ Fits(23) /\ Fits(43)
    BY SMTT(30) DEF Fits, isProbablePrime
  <1>2. CASE low <= 43
    BY <1>1, <1>2
  <1>3. CASE low > 43 /\ low <= 936343085114686079
    <2>1. \E n \in Steps : low <= n /\ n <= 2 * low
      BY <1>3, SMTT(30) DEF Steps
    <2>. Steps \subseteq Nat
      BY DEF Steps
    <2>. QED
      BY <2>1, StepsCoprime, CoprimeFits
  <1>4. CASE low > 936343085114686079
    <2>. DEFINE k == (low \div 614889782588491410) + 1
    <2>1. k \in Nat /\ low <= 614889782588491410 * k + 1 /\ 614889782588491410 * k + 1 <= 2 * low
      BY <1>4, SMTT(30)
    <2>2. Coprime(Product * k + 1)
      BY <2>1, ProductCoprime
    <2>. QED
      BY <2>1, <2>2, CoprimeFits DEF Product
  <1>. QED
    BY <1>2, <1>3, <1>4

LEMMA IdealIsPositive ==
  ASSUME NEW T, T.numOfElements \in Int
  PROVE  calculateIdealNumOfBuckets(T) \in Nat \ {0}
  <1>. DEFINE q == (100 * T.numOfElements) \div IdealRatio
              low == IF q < 5 THEN 5 ELSE q + 1 - (q % 2)
              Good == {n \in low..(2 * low) : Fits(n)}
  <1>1. q \in Int
    BY DictAssumption
  <1>2. low \in Nat /\ low >= 5
    BY <1>1
  <1>. HIDE DEF low
  <1>3. PICK n \in Good : \A m \in Good : ~(<<m, n>> \in OpToRel(<, Nat))
    <2>1. Good # {}
      BY <1>2, FitsBelowDouble
    <2>2. Good \subseteq Nat
      BY <1>2
    <2>. HIDE DEF Good
    <2>. QED
      BY <2>1, <2>2, NatLessThanWellFounded, WFMin, Zenon
  <1>4. n \in low..(2 * low) /\ Fits(n) /\ \A m \in low..(n - 1) : ~Fits(m)
    <2>1. ASSUME NEW m \in low..(n - 1), Fits(m)  PROVE FALSE
      <3>0. n \in low..(2 * low)
        BY <1>3
      <3>1. m \in low..(2 * low) /\ m \in Nat /\ n \in Nat /\ m < n
        BY <1>2, <2>1, <3>0
      <3>1a. m \in Good
        BY <2>1, <3>1
      <3>2. <<m, n>> \in OpToRel(<, Nat)
        BY <3>1 DEF OpToRel
      <3>. QED
        BY <1>3, <3>1a, <3>2
    <2>. QED
      BY <1>3, <2>1
  <1>5. \E x \in low..(2 * low) : Fits(x) /\ \A m \in low..(x - 1) : ~Fits(m)
    BY <1>4
  <1>6. calculateIdealNumOfBuckets(T) =
          CHOOSE x \in low..(2 * low) : Fits(x) /\ \A m \in low..(x - 1) : ~Fits(m)
    BY DEF calculateIdealNumOfBuckets, low, Fits
  <1>. QED
    BY <1>2, <1>5, <1>6

-----------------------------------------------------------------------------
(* A table as a value: what the operators on it keep.                      *)

Arrays == UNION {[0..(n - 1) -> SUBSET Pair] : n \in Nat \ {0}}

Shape(T) ==
  /\ T \in [numOfBuckets : Nat \ {0}, numOfElements : Int, bucketArray : Arrays]
  /\ T.bucketArray \in [0..(T.numOfBuckets - 1) -> SUBSET Pair]

\* Every pair is in the bucket of its key's hash, and no two have the same key.
Hashed(T) ==
  /\ \A i \in DOMAIN T.bucketArray : \A p \in T.bucketArray[i] : i = BucketOf(T, NameOf[p.key])
  /\ \A p, q \in Pairs(T) : NameOf[p.key] = NameOf[q.key] => p = q

Sound(T) == Shape(T) /\ Hashed(T)

LEMMA BucketType ==
  ASSUME NEW T, Shape(T), NEW n \in Name
  PROVE  BucketOf(T, n) \in DOMAIN T.bucketArray
  <1>1. HashOf[n] \in Nat /\ T.numOfBuckets \in Nat \ {0}
    BY DictAssumption DEF Shape
  <1>2. HashOf[n] % T.numOfBuckets \in 0..(T.numOfBuckets - 1)
    BY <1>1
  <1>. QED
    BY <1>2 DEF Shape, BucketOf

LEMMA PairsType == ASSUME NEW T, Shape(T)  PROVE Pairs(T) \subseteq Pair
  BY DEF Shape, Pairs

LEMMA PairName == ASSUME NEW p \in Pair  PROVE NameOf[p.key] \in Name /\ p.key \in KeyPtr /\ p.value \in ValPtr
  BY DictAssumption DEF Pair

\* The pair with a name is in the bucket of the name.
LEMMA MatchesPairs ==
  ASSUME NEW T, Sound(T), NEW n \in Name
  PROVE  Matches(T, n) = {p \in Pairs(T) : NameOf[p.key] = n}
  <1>1. BucketOf(T, n) \in DOMAIN T.bucketArray
    BY BucketType DEF Sound
  <1>2. ASSUME NEW p \in Matches(T, n)  PROVE p \in Pairs(T) /\ NameOf[p.key] = n
    BY <1>1 DEF Matches, Pairs
  <1>3. ASSUME NEW p \in Pairs(T), NameOf[p.key] = n  PROVE p \in Matches(T, n)
    <2>1. PICK i \in DOMAIN T.bucketArray : p \in T.bucketArray[i]
      BY DEF Pairs
    <2>2. i = BucketOf(T, n)
      BY <1>3, <2>1 DEF Sound, Hashed
    <2>. QED
      BY <1>3, <2>1, <2>2 DEF Matches
  <1>. QED
    BY <1>2, <1>3

LEMMA FindIs ==
  ASSUME NEW T, Sound(T), NEW n \in Name, ContainsKey(T, n)
  PROVE  /\ Find(T, n) \in Pairs(T) /\ Find(T, n) \in Pair
         /\ NameOf[Find(T, n).key] = n
         /\ \A p \in Pairs(T) : NameOf[p.key] = n => p = Find(T, n)
  <1>1. Find(T, n) \in Matches(T, n)
    BY DEF ContainsKey, Find
  <1>2. Find(T, n) \in Pairs(T) /\ NameOf[Find(T, n).key] = n
    BY <1>1, MatchesPairs
  <1>. QED
    BY <1>2, PairsType DEF Sound, Hashed

LEMMA NotContained ==
  ASSUME NEW T, Sound(T), NEW n \in Name, ~ContainsKey(T, n)
  PROVE  \A p \in Pairs(T) : NameOf[p.key] # n
  BY MatchesPairs DEF ContainsKey

LEMMA LinkIs ==
  ASSUME NEW T, Sound(T), NEW p \in Pair, \A q \in Pairs(T) : NameOf[q.key] # NameOf[p.key]
  PROVE  Sound(Link(T, p)) /\ Pairs(Link(T, p)) = Pairs(T) \cup {p}
  <1>. DEFINE b == BucketOf(T, NameOf[p.key])
              L == Link(T, p)
  <1>1. b \in DOMAIN T.bucketArray
    BY BucketType, PairName DEF Sound
  <1>2. /\ L.numOfBuckets = T.numOfBuckets /\ L.numOfElements = T.numOfElements
        /\ L.bucketArray = [T.bucketArray EXCEPT ![b] = @ \cup {p}]
    BY DEF Link, Sound, Shape
  <1>3. Shape(L)
    BY DEF Link, Sound, Shape, Arrays
  <1>4. Pairs(L) = Pairs(T) \cup {p}
    BY <1>1, <1>2 DEF Pairs, Sound, Shape
  <1>5. \A n : BucketOf(L, n) = BucketOf(T, n)
    BY <1>2 DEF BucketOf
  <1>. HIDE DEF L
  <1>6. \A i \in DOMAIN L.bucketArray : \A q \in L.bucketArray[i] : i = BucketOf(L, NameOf[q.key])
    BY <1>1, <1>2, <1>5 DEF Sound, Shape, Hashed
  <1>7. \A q, r \in Pairs(L) : NameOf[q.key] = NameOf[r.key] => q = r
    BY <1>4 DEF Sound, Hashed
  <1>. QED
    BY <1>3, <1>4, <1>6, <1>7 DEF L, Sound, Hashed

LEMMA UnlinkIs ==
  ASSUME NEW T, Sound(T), NEW p \in Pairs(T)
  PROVE  Sound(Unlink(T, p)) /\ Pairs(Unlink(T, p)) = Pairs(T) \ {p}
  <1>. DEFINE b == BucketOf(T, NameOf[p.key])
              U == Unlink(T, p)
  <1>1. b \in DOMAIN T.bucketArray
    BY BucketType, PairName, PairsType DEF Sound
  <1>2. /\ U.numOfBuckets = T.numOfBuckets /\ U.numOfElements = T.numOfElements
        /\ U.bucketArray = [T.bucketArray EXCEPT ![b] = @ \ {p}]
    BY DEF Unlink, Sound, Shape
  <1>3. Shape(U)
    BY DEF Unlink, Sound, Shape, Arrays
  <1>4. \A i \in DOMAIN T.bucketArray : p \in T.bucketArray[i] => i = b
    BY DEF Sound, Hashed
  <1>5. Pairs(U) = Pairs(T) \ {p}
    BY <1>1, <1>2, <1>4 DEF Pairs, Sound, Shape
  <1>6. \A n : BucketOf(U, n) = BucketOf(T, n)
    BY <1>2 DEF BucketOf
  <1>. HIDE DEF U
  <1>7. \A i \in DOMAIN U.bucketArray : \A q \in U.bucketArray[i] : i = BucketOf(U, NameOf[q.key])
    BY <1>1, <1>2, <1>6 DEF Sound, Shape, Hashed
  <1>8. \A q, r \in Pairs(U) : NameOf[q.key] = NameOf[r.key] => q = r
    BY <1>5 DEF Sound, Hashed
  <1>. QED
    BY <1>3, <1>5, <1>7, <1>8 DEF U, Sound, Hashed

LEMMA ResizedIs ==
  ASSUME NEW T, Sound(T), NEW d \in Int
  PROVE  Sound(Resized(T, d)) /\ Pairs(Resized(T, d)) = Pairs(T)
  <1>. DEFINE R == Resized(T, d)
  <1>1. R.numOfBuckets = T.numOfBuckets /\ R.bucketArray = T.bucketArray
    BY DEF Resized, Sound, Shape
  <1>2. Shape(R)
    BY DEF Resized, Sound, Shape, Arrays
  <1>3. Pairs(R) = Pairs(T) /\ \A n : BucketOf(R, n) = BucketOf(T, n)
    BY <1>1 DEF Pairs, BucketOf
  <1>. HIDE DEF R
  <1>4. Hashed(R)
    BY <1>1, <1>3 DEF Sound, Hashed
  <1>. QED
    BY <1>2, <1>3, <1>4 DEF R, Sound

\* However many buckets there are after it, a rehash keeps the pairs.
LEMMA RehashedIs ==
  ASSUME NEW T, Sound(T), NEW n \in Nat \ {0}
  PROVE  Sound(Rehashed(T, n)) /\ Pairs(Rehashed(T, n)) = Pairs(T)
  <1>. DEFINE R == Rehashed(T, n)
              A == [i \in 0..(n - 1) |-> {p \in Pairs(T) : HashOf[NameOf[p.key]] % n = i}]
  <1>1. Pairs(T) \subseteq Pair
    BY PairsType DEF Sound
  <1>2. R.numOfBuckets = n /\ R.numOfElements = T.numOfElements /\ R.bucketArray = A
    BY DEF Rehashed, Sound, Shape
  <1>3. Shape(R)
    <2>1. A \in [0..(n - 1) -> SUBSET Pair]
      BY <1>1
    <2>2. A \in Arrays
      BY <2>1 DEF Arrays
    <2>3. R \in [numOfBuckets : Nat \ {0}, numOfElements : Int, bucketArray : Arrays]
      BY <2>2 DEF Rehashed, Sound, Shape
    <2>. QED
      BY <1>2, <2>1, <2>3 DEF Shape
  <1>4. \A p \in Pairs(T) : HashOf[NameOf[p.key]] % n \in 0..(n - 1)
    BY <1>1, PairName, DictAssumption
  <1>5. Pairs(R) = Pairs(T)
    BY <1>2, <1>4 DEF Pairs
  <1>. HIDE DEF R
  <1>6. Hashed(R)
    BY <1>2, <1>5 DEF Sound, Hashed, BucketOf
  <1>. QED
    BY <1>3, <1>5, <1>6 DEF R, Sound

LEMMA RehashIs ==
  ASSUME NEW T, Sound(T), NEW n \in Nat, NEW R \in Rehash(T, n)
  PROVE  Sound(R) /\ Pairs(R) = Pairs(T)
  <1>. DEFINE m == IF n = 0 THEN calculateIdealNumOfBuckets(T) ELSE n
  <1>1. m \in Nat \ {0}
    BY IdealIsPositive DEF Sound, Shape
  <1>2. R = T \/ R = Rehashed(T, m)
    BY DEF Rehash
  <1>. QED
    BY <1>1, <1>2, RehashedIs

LEMMA EmptyIs ==
  ASSUME NEW n \in Nat \ {0}
  PROVE  Sound(EmptyTable(n)) /\ Pairs(EmptyTable(n)) = {}
  <1>1. Shape(EmptyTable(n))
    BY DEF EmptyTable, Shape, Arrays
  <1>2. Pairs(EmptyTable(n)) = {}
    BY DEF EmptyTable, Pairs
  <1>. QED
    BY <1>1, <1>2 DEF Sound, Hashed, EmptyTable

-----------------------------------------------------------------------------
(* What each operation makes of the pairs of the tables.                   *)

TabInv ==
  /\ tab = [t \in Table |-> tab[t]]
  /\ \A t \in Table : tab[t] = NoTable \/ Sound(tab[t])

\* Table t, and no other, becomes a sound one with the pairs S.
Becomes(t, S) ==
  /\ tab' = [tab EXCEPT ![t] = tab'[t]]
  /\ Sound(tab'[t])
  /\ Pairs(tab'[t]) = S

LEMMA NoTableIs == Pairs(NoTable) = {} /\ ~Sound(NoTable)
  BY DEF NoTable, Pairs, Sound, Shape

LEMMA StoreBecomes ==
  ASSUME TabInv, NEW t \in Table, NEW R, Sound(R), Store(t, R), NEW S, Pairs(R) = S
  PROVE  Becomes(t, S)
  <1>1. tab' = [tab EXCEPT ![t] = R] /\ tab'[t] = R
    BY DEF Store, TabInv
  <1>. QED
    BY <1>1 DEF Becomes

LEMMA BecomesKeeps ==
  ASSUME TabInv, NEW t \in Table, NEW S, Becomes(t, S)
  PROVE  /\ TabInv'
         /\ \A u \in Table : u # t => tab'[u] = tab[u]
  BY DEF TabInv, Becomes

LEMMA PutReplaceIs ==
  ASSUME TabInv, NEW t \in Table, NEW k \in KeyPtr, NEW v \in ValPtr, PutReplace(t, k, v)
  PROVE  \E p \in Pairs(tab[t]) :
           /\ p = Find(tab[t], NameOf[k]) /\ NameOf[p.key] = NameOf[k]
           /\ Becomes(t, (Pairs(tab[t]) \ {p}) \cup {[key |-> k, value |-> v]})
  <1>. DEFINE T == tab[t]
              p == Find(T, NameOf[k])
              U == Unlink(T, p)
              new == [key |-> k, value |-> v]
  <1>1. Sound(T) /\ ContainsKey(T, NameOf[k]) /\ NameOf[k] \in Name
    BY DictAssumption DEF PutReplace, Modifiable, TabInv
  <1>2. /\ p \in Pairs(T) /\ NameOf[p.key] = NameOf[k]
        /\ \A q \in Pairs(T) : NameOf[q.key] = NameOf[k] => q = p
    BY <1>1, FindIs
  <1>3. Sound(U) /\ Pairs(U) = Pairs(T) \ {p}
    BY <1>1, <1>2, UnlinkIs
  <1>4. new \in Pair /\ new.key = k
    BY DEF Pair
  <1>5. \A q \in Pairs(U) : NameOf[q.key] # NameOf[new.key]
    BY <1>2, <1>3, <1>4
  <1>6. Sound(Link(U, new)) /\ Pairs(Link(U, new)) = Pairs(U) \cup {new}
    BY <1>3, <1>4, <1>5, LinkIs
  <1>7. Store(t, Link(U, new))
    BY DEF PutReplace
  <1>8. Becomes(t, (Pairs(T) \ {p}) \cup {new})
    BY <1>3, <1>6, <1>7, StoreBecomes
  <1>. QED
    BY <1>2, <1>8

LEMMA PutNewIs ==
  ASSUME TabInv, NEW t \in Table, NEW k \in KeyPtr, NEW v \in ValPtr, PutNew(t, k, v)
  PROVE  /\ tab[t] # NoTable
         /\ \A q \in Pairs(tab[t]) : NameOf[q.key] # NameOf[k]
         /\ Becomes(t, Pairs(tab[t]) \cup {[key |-> k, value |-> v]})
  <1>. DEFINE new == [key |-> k, value |-> v]
              L == Link(tab[t], new)
              T == Resized(L, 1)
  <1>1. Sound(tab[t]) /\ ~ContainsKey(tab[t], NameOf[k]) /\ NameOf[k] \in Name
    BY DictAssumption DEF PutNew, Modifiable, TabInv
  <1>2. new \in Pair /\ new.key = k
    BY DEF Pair
  <1>3. \A q \in Pairs(tab[t]) : NameOf[q.key] # NameOf[k]
    BY <1>1, NotContained
  <1>4. Sound(L) /\ Pairs(L) = Pairs(tab[t]) \cup {new}
    BY <1>1, <1>2, <1>3, LinkIs
  <1>5. Sound(T) /\ Pairs(T) = Pairs(L)
    BY <1>4, ResizedIs
  <1>6. PICK R \in IF Crowded(T) THEN Rehash(T, 0) ELSE {T} : Store(t, R)
    BY DEF PutNew
  <1>7. Sound(R) /\ Pairs(R) = Pairs(T)
    BY <1>5, <1>6, RehashIs
  <1>8. Becomes(t, Pairs(tab[t]) \cup {new})
    BY <1>4, <1>5, <1>6, <1>7, StoreBecomes
  <1>. QED
    BY <1>3, <1>8 DEF PutNew, Modifiable

\* Rekey: p changes its key; a pair that had the new key is gone.
RekeyMerges(t, k, p) ==
  \E q \in Pairs(tab[t]) \ {p} :
    /\ NameOf[q.key] = NameOf[k]
    /\ Becomes(t, (Pairs(tab[t]) \ {p, q}) \cup {[key |-> k, value |-> p.value]})
    /\ heap' = (heap \ {p.key, q.key, q.value}) \cup {k}
    /\ merges[t] < MaxMerges /\ merges' = [merges EXCEPT ![t] = @ + 1]
RekeyMoves(t, k, p) ==
  /\ \A q \in Pairs(tab[t]) \ {p} : NameOf[q.key] # NameOf[k]
  /\ Becomes(t, (Pairs(tab[t]) \ {p}) \cup {[key |-> k, value |-> p.value]})
  /\ heap' = (heap \ {p.key}) \cup {k}
  /\ UNCHANGED merges

LEMMA RekeyIs ==
  ASSUME TabInv, NEW t \in Table, NEW old \in Name, NEW k \in KeyPtr, Rekey(t, old, k)
  PROVE  \E p \in Pairs(tab[t]) :
           /\ NameOf[p.key] = old
           /\ RekeyMerges(t, k, p) \/ RekeyMoves(t, k, p)
  <1>. DEFINE p == Find(tab[t], old)
              T == Unlink(tab[t], p)
              q == Find(T, NameOf[k])
              new == [key |-> k, value |-> p.value]
  <1>1. Sound(tab[t]) /\ ContainsKey(tab[t], old) /\ NameOf[k] \in Name
    BY DictAssumption DEF Rekey, Modifiable, TabInv
  <1>2. p \in Pairs(tab[t]) /\ p \in Pair /\ NameOf[p.key] = old
    BY <1>1, FindIs
  <1>3. Sound(T) /\ Pairs(T) = Pairs(tab[t]) \ {p}
    BY <1>1, <1>2, UnlinkIs
  <1>4. new \in Pair /\ new.key = k
    BY <1>2 DEF Pair
  <1>5. CASE ContainsKey(T, NameOf[k])
    <2>1. /\ q \in Pairs(T) /\ NameOf[q.key] = NameOf[k]
          /\ \A r \in Pairs(T) : NameOf[r.key] = NameOf[k] => r = q
      BY <1>1, <1>3, <1>5, FindIs
    <2>2. Sound(Unlink(T, q)) /\ Pairs(Unlink(T, q)) = Pairs(T) \ {q}
      BY <1>3, <2>1, UnlinkIs
    <2>3. Sound(Link(Unlink(T, q), new)) /\ Pairs(Link(Unlink(T, q), new)) = (Pairs(T) \ {q}) \cup {new}
      <3>1. \A r \in Pairs(Unlink(T, q)) : NameOf[r.key] # NameOf[new.key]
        BY <1>4, <2>1, <2>2
      <3>. QED
        BY <1>4, <2>2, <3>1, LinkIs
    <2>4. /\ Store(t, Link(Unlink(T, q), new)) /\ heap' = (heap \ {p.key, q.key, q.value}) \cup {k}
          /\ merges[t] < MaxMerges /\ merges' = [merges EXCEPT ![t] = @ + 1]
      BY <1>5 DEF Rekey
    <2>5. (Pairs(T) \ {q}) \cup {new} = (Pairs(tab[t]) \ {p, q}) \cup {new}
      BY <1>3
    <2>6. Becomes(t, (Pairs(tab[t]) \ {p, q}) \cup {new})
      BY <2>3, <2>4, <2>5, StoreBecomes
    <2>. QED
      BY <1>2, <1>3, <2>1, <2>4, <2>6 DEF RekeyMerges
  <1>6. CASE ~ContainsKey(T, NameOf[k])
    <2>1. \A r \in Pairs(T) : NameOf[r.key] # NameOf[k]
      BY <1>1, <1>3, <1>6, NotContained
    <2>2. Sound(Link(T, new)) /\ Pairs(Link(T, new)) = Pairs(T) \cup {new}
      BY <1>3, <1>4, <2>1, LinkIs
    <2>3. Store(t, Link(T, new)) /\ heap' = (heap \ {p.key}) \cup {k} /\ UNCHANGED merges
      BY <1>6 DEF Rekey
    <2>4. Becomes(t, (Pairs(tab[t]) \ {p}) \cup {new})
      BY <1>3, <2>2, <2>3, StoreBecomes
    <2>. QED
      BY <1>2, <1>3, <2>1, <2>3, <2>4 DEF RekeyMoves
  <1>. QED
    BY <1>5, <1>6

LEMMA ForceValueIs ==
  ASSUME TabInv, NEW t \in Table, NEW n \in Name, NEW v \in ValPtr, ForceValue(t, n, v)
  PROVE  \E p \in Pairs(tab[t]) :
           /\ p = Find(tab[t], n) /\ NameOf[p.key] = n
           /\ Becomes(t, (Pairs(tab[t]) \ {p}) \cup {[key |-> p.key, value |-> v]})
  <1>. DEFINE T == tab[t]
              p == Find(T, n)
              U == Unlink(T, p)
              new == [p EXCEPT !.value = v]
  <1>1. Sound(T) /\ ContainsKey(T, n)
    BY DEF ForceValue, TabInv
  <1>2. /\ p \in Pairs(T) /\ p \in Pair /\ NameOf[p.key] = n
        /\ \A q \in Pairs(T) : NameOf[q.key] = n => q = p
    BY <1>1, FindIs
  <1>3. Sound(U) /\ Pairs(U) = Pairs(T) \ {p}
    BY <1>1, <1>2, UnlinkIs
  <1>4. new \in Pair /\ new.key = p.key /\ new = [key |-> p.key, value |-> v]
    BY <1>2 DEF Pair
  <1>5. Sound(Link(U, new)) /\ Pairs(Link(U, new)) = Pairs(U) \cup {new}
    <2>1. \A q \in Pairs(U) : NameOf[q.key] # NameOf[new.key]
      BY <1>2, <1>3, <1>4
    <2>. QED
      BY <1>3, <1>4, <2>1, LinkIs
  <1>6. tab' = [tab EXCEPT ![t] = Link(U, new)] /\ tab'[t] = Link(U, new)
    BY DEF ForceValue, TabInv
  <1>7. Becomes(t, (Pairs(T) \ {p}) \cup {[key |-> p.key, value |-> v]})
    BY <1>3, <1>4, <1>5, <1>6 DEF Becomes
  <1>. QED
    BY <1>2, <1>7

LEMMA RemoveIs ==
  ASSUME TabInv, NEW t \in Table, NEW n \in Name, Remove(t, n)
  PROVE  \E p \in Pairs(tab[t]) :
           /\ p = Find(tab[t], n) /\ NameOf[p.key] = n
           /\ Becomes(t, Pairs(tab[t]) \ {p})
  <1>. DEFINE p == Find(tab[t], n)
              U == Unlink(tab[t], p)
              T == Resized(U, -1)
  <1>1. Sound(tab[t]) /\ ContainsKey(tab[t], n)
    BY DEF Remove, Modifiable, TabInv
  <1>2. p \in Pairs(tab[t]) /\ NameOf[p.key] = n
    BY <1>1, FindIs
  <1>3. Sound(U) /\ Pairs(U) = Pairs(tab[t]) \ {p}
    BY <1>1, <1>2, UnlinkIs
  <1>4. Sound(T) /\ Pairs(T) = Pairs(U)
    BY <1>3, ResizedIs
  <1>5. PICK R \in IF Sparse(T) THEN Rehash(T, 0) ELSE {T} : Store(t, R)
    BY DEF Remove
  <1>6. Sound(R) /\ Pairs(R) = Pairs(T)
    BY <1>4, <1>5, RehashIs
  <1>7. Becomes(t, Pairs(tab[t]) \ {p})
    BY <1>3, <1>4, <1>5, <1>6, StoreBecomes
  <1>. QED
    BY <1>2, <1>7

LEMMA RemoveAllIs ==
  ASSUME TabInv, NEW t \in Table, RemoveAll(t)
  PROVE  tab[t] # NoTable /\ Becomes(t, {})
  <1>1. Sound(tab[t])
    BY DEF RemoveAll, Modifiable, TabInv
  <1>2. tab[t].numOfBuckets \in Nat \ {0}
    BY <1>1 DEF Sound, Shape
  <1>3. PICK R \in Rehash(EmptyTable(tab[t].numOfBuckets), 5) : Store(t, R)
    BY DEF RemoveAll
  <1>4. Sound(R) /\ Pairs(R) = {}
    BY <1>2, <1>3, EmptyIs, RehashIs
  <1>. QED
    BY <1>3, <1>4, StoreBecomes DEF RemoveAll, Modifiable

LEMMA CreateIs ==
  ASSUME TabInv, NEW t \in Table, NEW n \in InitialBuckets, CreateTable(t, n)
  PROVE  tab[t] = NoTable /\ Becomes(t, {})
  <1>1. Sound(EmptyTable(n)) /\ Pairs(EmptyTable(n)) = {}
    BY EmptyIs, DictAssumption
  <1>2. tab' = [tab EXCEPT ![t] = EmptyTable(n)] /\ tab'[t] = EmptyTable(n)
    BY DEF CreateTable, TabInv
  <1>. QED
    BY <1>1, <1>2 DEF Becomes, CreateTable

LEMMA DestroyIs ==
  ASSUME TabInv, NEW t \in Table, Destroy(t)
  PROVE  tab[t] # NoTable /\ tab' = [tab EXCEPT ![t] = NoTable] /\ TabInv'
  BY DEF Destroy, Store, Modifiable, TabInv

\* What Copy chooses: fresh blocks with the contents of each pair's.
Copies(copy, S, h) ==
  /\ copy \in [S -> [key : KeyPtr \ h, value : ValPtr \ h]]
  /\ \A p, q \in S :
       /\ NameOf[copy[p].key] = NameOf[p.key]
       /\ DatumOf[copy[p].value] = DatumOf[p.value]
       /\ copy[p].key = copy[q].key \/ copy[p].value = copy[q].value => p = q

LEMMA CopyIs ==
  ASSUME TabInv, NEW t \in Table, NEW u \in Table, Copy(t, u)
  PROVE  /\ Sound(tab[t]) /\ tab[u] = NoTable
         /\ \E copy : /\ Copies(copy, Pairs(tab[t]), heap)
                      /\ Becomes(u, {copy[p] : p \in Pairs(tab[t])})
                      /\ heap' = heap \cup Blocks({copy[p] : p \in Pairs(tab[t])})
  <1>. DEFINE T == tab[t]
              S == Pairs(T)
  <1>1. Sound(T) /\ tab[u] = NoTable
    BY DEF Copy, TabInv
  <1>2. PICK copy \in [S -> [key : KeyPtr \ heap, value : ValPtr \ heap]] :
          /\ \A p, q \in DOMAIN copy :
               /\ NameOf[copy[p].key] = NameOf[p.key]
               /\ DatumOf[copy[p].value] = DatumOf[p.value]
               /\ copy[p].key = copy[q].key \/ copy[p].value = copy[q].value => p = q
          /\ tab' = [tab EXCEPT ![u] = [T EXCEPT !.bucketArray =
                       [i \in DOMAIN @ |-> {copy[p] : p \in @[i]}]]]
          /\ heap' = heap \cup Blocks({copy[p] : p \in DOMAIN copy})
    BY DEF Copy
  <1>3. Copies(copy, S, heap)
    BY <1>2 DEF Copies
  <1>. DEFINE A == [i \in DOMAIN T.bucketArray |-> {copy[p] : p \in T.bucketArray[i]}]
              R == [T EXCEPT !.bucketArray = A]
  <1>4. tab' = [tab EXCEPT ![u] = R] /\ tab'[u] = R
    BY <1>2 DEF TabInv
  <1>5. R.numOfBuckets = T.numOfBuckets /\ R.numOfElements = T.numOfElements /\ R.bucketArray = A
    BY <1>1 DEF Sound, Shape
  <1>6. \A i \in DOMAIN T.bucketArray : T.bucketArray[i] \subseteq S
    BY DEF Pairs
  <1>7. \A p \in S : copy[p] \in Pair /\ NameOf[copy[p].key] = NameOf[p.key]
    BY <1>3 DEF Copies, Pair
  <1>8. Shape(R)
    <2>1. A \in [0..(T.numOfBuckets - 1) -> SUBSET Pair]
      BY <1>1, <1>6, <1>7 DEF Sound, Shape
    <2>2. A \in Arrays
      BY <1>1, <2>1 DEF Arrays, Sound, Shape
    <2>. QED
      BY <1>1, <1>5, <2>1, <2>2 DEF Sound, Shape
  <1>9. Pairs(R) = {copy[p] : p \in S}
    <2>1. ASSUME NEW c \in Pairs(R)  PROVE c \in {copy[p] : p \in S}
      <3>1. PICK i \in DOMAIN R.bucketArray : c \in R.bucketArray[i]
        BY DEF Pairs
      <3>2. i \in DOMAIN A /\ c \in A[i]
        BY <1>5, <3>1
      <3>. QED
        BY <1>6, <3>2
    <2>2. ASSUME NEW p \in S  PROVE copy[p] \in Pairs(R)
      <3>1. PICK i \in DOMAIN T.bucketArray : p \in T.bucketArray[i]
        BY DEF Pairs
      <3>2. i \in DOMAIN A /\ copy[p] \in A[i]
        BY <3>1
      <3>. QED
        BY <1>5, <3>2 DEF Pairs
    <2>. HIDE DEF R, S
    <2>. QED
      BY <2>1, <2>2
  <1>10. \A n : BucketOf(R, n) = BucketOf(T, n)
    BY <1>5 DEF BucketOf
  <1>11. \A i \in DOMAIN A : \A c \in A[i] : i = BucketOf(R, NameOf[c.key])
    BY <1>1, <1>6, <1>7, <1>10 DEF Sound, Hashed
  <1>12. \A c, d \in {copy[p] : p \in S} : NameOf[c.key] = NameOf[d.key] => c = d
    BY <1>1, <1>7 DEF Sound, Hashed
  <1>. HIDE DEF R
  <1>13. Sound(R)
    BY <1>5, <1>8, <1>9, <1>11, <1>12 DEF Sound, Hashed
  <1>14. Becomes(u, {copy[p] : p \in S})
    BY <1>4, <1>9, <1>13 DEF Becomes
  <1>15. heap' = heap \cup Blocks({copy[p] : p \in S})
    BY <1>2
  <1>. QED
    BY <1>1, <1>3, <1>14, <1>15

\* Every table is always sound.
LEMMA TabStep == TabInv /\ [Next]_vars => TabInv'
  <1>. SUFFICES ASSUME TabInv, [Next]_vars  PROVE TabInv'
    OBVIOUS
  <1>1. CASE UNCHANGED vars
    BY <1>1 DEF vars, TabInv
  <1>2. ASSUME NEW t \in Table, NEW n \in InitialBuckets, CreateTable(t, n)  PROVE TabInv'
    BY <1>2, CreateIs, BecomesKeeps
  <1>3. ASSUME NEW t \in Table, Destroy(t)  PROVE TabInv'
    BY <1>3, DestroyIs
  <1>4. ASSUME NEW t \in Table, RemoveAll(t)  PROVE TabInv'
    BY <1>4, RemoveAllIs, BecomesKeeps
  <1>5. ASSUME NEW t \in Table, IterInit(t)  PROVE TabInv'
    BY <1>5 DEF IterInit, TabInv
  <1>6. ASSUME NEW t \in Table, NEW u \in Table, Copy(t, u)  PROVE TabInv'
    BY <1>6, CopyIs, BecomesKeeps
  <1>7. ASSUME NEW t \in Table, NEW k \in KeyPtr, NEW v \in ValPtr, PutReplace(t, k, v)  PROVE TabInv'
    BY <1>7, PutReplaceIs, BecomesKeeps
  <1>8. ASSUME NEW t \in Table, NEW k \in KeyPtr, NEW v \in ValPtr, PutNew(t, k, v)  PROVE TabInv'
    BY <1>8, PutNewIs, BecomesKeeps
  <1>9. ASSUME NEW t \in Table, NEW n \in Name, NEW k \in KeyPtr, Rekey(t, n, k)  PROVE TabInv'
    <2>1. PICK p \in Pairs(tab[t]) : RekeyMerges(t, k, p) \/ RekeyMoves(t, k, p)
      BY <1>9, RekeyIs
    <2>2. \E S : Becomes(t, S)
      BY <2>1 DEF RekeyMerges, RekeyMoves
    <2>. QED
      BY <2>2, BecomesKeeps
  <1>10. ASSUME NEW t \in Table, NEW n \in Name, NEW v \in ValPtr, ForceValue(t, n, v)  PROVE TabInv'
    BY <1>10, ForceValueIs, BecomesKeeps, ZenonT(20)
  <1>11. ASSUME NEW t \in Table, NEW n \in Name, Remove(t, n)  PROVE TabInv'
    BY <1>11, RemoveIs, BecomesKeeps
  <1>12. ASSUME NEW v \in ValPtr, FreeLoose(v)  PROVE TabInv'
    BY <1>12 DEF FreeLoose, TabInv
  <1>13. CASE IterNext
    BY <1>13 DEF IterNext, TabInv
  <1>. QED
    BY <1>1, <1>2, <1>3, <1>4, <1>5, <1>6, <1>7, <1>8, <1>9, <1>10, <1>11, <1>12, <1>13 DEF Next

LEMMA TabInit == Init => TabInv
  BY DEF Init, TabInv

\* Whatever the keys, the hash function and the thresholds, and through every
\* rehash, every pair of every table sits in the bucket where NpyDict_Get looks
\* for its key, and no other pair has that key (npy_dict.c, NpyDict_Rehash,
\* NpyDict_Put, NpyDict_Rekey).
THEOREM LookupsComplete == Spec => []GetComplete
  <1>1. TabInv => GetComplete
    BY DEF TabInv, GetComplete, Live, Sound, Hashed
  <1>. QED
    BY <1>1, TabInit, TabStep, PTL DEF Spec

-----------------------------------------------------------------------------
(* Every block has one owner.                                              *)

\* h is what the pairs pr[t] of the tables and the loose values l occupy, and
\* no block is in two places.
Own(pr, h, l) ==
  /\ \A t \in Table : pr[t] \subseteq Pair
  /\ l \subseteq ValPtr
  /\ \A x : x \in h <=> x \in l \/ \E t \in Table : x \in Blocks(pr[t])
  /\ \A t, u \in Table : \A p \in pr[t], q \in pr[u] :
       p.key = q.key \/ p.value = q.value => t = u /\ p = q
  /\ \A t \in Table : \A p \in pr[t] : p.value \notin l

PairsOf == [t \in Table |-> Pairs(tab[t])]

OwnInv == Own(PairsOf, heap, loose)

\* The pairs S can take the place of those of a table: each block of S is fresh
\* or the table's, and S does not use one twice.
Replaces(S, old, h) ==
  /\ S \subseteq Pair
  /\ \A p, q \in S : p.key = q.key \/ p.value = q.value => p = q
  /\ \A p \in S : p.key \notin h \/ \E q \in old : q.key = p.key
  /\ \A p \in S : p.value \notin h \/ \E q \in old : q.value = p.value

LEMMA OwnReplaces ==
  ASSUME NEW pr, NEW h, NEW l, Own(pr, h, l), NEW t \in Table, NEW S, Replaces(S, pr[t], h),
         NEW out, out \subseteq {p.value : p \in pr[t]}, \A p \in S : p.value \notin out,
         NEW pr2, \A u \in Table : pr2[u] = IF u = t THEN S ELSE pr[u],
         NEW h2, h2 = (h \ Blocks(pr[t])) \cup Blocks(S) \cup out
  PROVE  Own(pr2, h2, l \cup out)
  <1>. USE DictAssumption
  <1>1. \A u \in Table : pr2[u] \subseteq Pair
    BY DEF Own, Replaces
  <1>2. l \cup out \subseteq ValPtr
    BY DEF Own, Pair
  <1>3. \A u \in Table : u # t => \A p \in pr[u] : \A q \in S : p.key # q.key /\ p.value # q.value
    <2>. SUFFICES ASSUME NEW u \in Table, u # t, NEW p \in pr[u], NEW q \in S
                  PROVE  p.key # q.key /\ p.value # q.value
      OBVIOUS
    <2>1. p.key \in h /\ p.value \in h
      BY DEF Own, Blocks
    <2>. QED
      BY <2>1 DEF Own, Replaces
  <1>4. \A p \in S : p.value \notin l
    <2>. SUFFICES ASSUME NEW p \in S  PROVE p.value \notin l
      OBVIOUS
    <2>1. CASE p.value \notin h
      BY <2>1 DEF Own
    <2>2. CASE \E q \in pr[t] : q.value = p.value
      BY <2>2 DEF Own
    <2>. QED
      BY <2>1, <2>2 DEF Replaces
  <1>5. \A u, w \in Table : \A p \in pr2[u], q \in pr2[w] :
          p.key = q.key \/ p.value = q.value => u = w /\ p = q
    BY <1>3 DEF Own, Replaces
  <1>6. \A u \in Table : \A p \in pr2[u] : p.value \notin l \cup out
    <2>. SUFFICES ASSUME NEW u \in Table, NEW p \in pr2[u]  PROVE p.value \notin l \cup out
      OBVIOUS
    <2>1. CASE u = t
      BY <1>4, <2>1
    <2>2. CASE u # t
      BY <2>2 DEF Own
    <2>. QED
      BY <2>1, <2>2
  <1>7. \A u \in Table : u # t => \A x \in Blocks(pr[u]) : x \in h /\ x \notin Blocks(pr[t])
    <2>. SUFFICES ASSUME NEW u \in Table, u # t, NEW p \in pr[u], NEW x, x = p.key \/ x = p.value
                  PROVE  x \in h /\ x \notin Blocks(pr[t])
      BY DEF Blocks
    <2>1. x \in h
      BY DEF Own, Blocks
    <2>2. ASSUME NEW q \in pr[t]  PROVE x # q.key /\ x # q.value
      <3>1. p \in Pair /\ q \in Pair
        BY DEF Own
      <3>. QED
        BY <3>1 DEF Own, Pair
    <2>. QED
      BY <2>1, <2>2 DEF Blocks
  <1>8. \A x \in l : x \in h /\ x \notin Blocks(pr[t])
    BY DEF Own, Blocks, Pair
  <1>9. \A x : x \in h2 <=> x \in l \cup out \/ \E u \in Table : x \in Blocks(pr2[u])
    <2>1. ASSUME NEW x, x \in h2  PROVE x \in l \cup out \/ \E u \in Table : x \in Blocks(pr2[u])
      <3>1. CASE x \in Blocks(S)
        BY <3>1
      <3>2. CASE x \in out
        BY <3>2
      <3>3. CASE x \in h /\ x \notin Blocks(pr[t])
        BY <3>3 DEF Own
      <3>. QED
        BY <2>1, <3>1, <3>2, <3>3
    <2>2. ASSUME NEW x, x \in l \cup out \/ \E u \in Table : x \in Blocks(pr2[u])  PROVE x \in h2
      BY <1>7, <1>8, <2>2
    <2>. QED
      BY <2>1, <2>2
  <1>. QED
    BY <1>1, <1>2, <1>5, <1>6, <1>9 DEF Own

\* The pairs of the tables after a step that changes one of them.
LEMMA PairsOfNext ==
  ASSUME TabInv, NEW t \in Table, NEW S, Becomes(t, S)
  PROVE  \A u \in Table : PairsOf'[u] = IF u = t THEN S ELSE PairsOf[u]
  BY BecomesKeeps DEF Becomes, PairsOf

\* OwnReplaces for a step.
LEMMA OwnStepBy ==
  ASSUME TabInv, OwnInv, NEW t \in Table, NEW S, Becomes(t, S), Replaces(S, Pairs(tab[t]), heap),
         NEW out, out \subseteq {p.value : p \in Pairs(tab[t])}, \A p \in S : p.value \notin out,
         loose' = loose \cup out,
         heap' = (heap \ Blocks(Pairs(tab[t]))) \cup Blocks(S) \cup out
  PROVE  OwnInv'
  <1>1. PairsOf[t] = Pairs(tab[t])
    BY DEF PairsOf
  <1>2. \A u \in Table : PairsOf'[u] = IF u = t THEN S ELSE PairsOf[u]
    BY PairsOfNext
  <1>3. Own(PairsOf', heap', loose \cup out)
    <2>1. Own(PairsOf, heap, loose) /\ Replaces(S, PairsOf[t], heap)
          /\ out \subseteq {p.value : p \in PairsOf[t]}
          /\ heap' = (heap \ Blocks(PairsOf[t])) \cup Blocks(S) \cup out
      BY <1>1 DEF OwnInv
    <2>. QED
      BY <1>2, <2>1, OwnReplaces
  <1>. QED
    BY <1>3 DEF OwnInv

LEMMA OwnStepKeeps ==
  ASSUME TabInv, OwnInv, NEW t \in Table, NEW S, Becomes(t, S), Replaces(S, Pairs(tab[t]), heap),
         loose' = loose, heap' = (heap \ Blocks(Pairs(tab[t]))) \cup Blocks(S)
  PROVE  OwnInv'
  <1>. DEFINE out == {}
  <1>1. out \subseteq {p.value : p \in Pairs(tab[t])} /\ \A p \in S : p.value \notin out
    OBVIOUS
  <1>2. loose' = loose \cup out /\ heap' = (heap \ Blocks(Pairs(tab[t]))) \cup Blocks(S) \cup out
    OBVIOUS
  <1>. HIDE DEF out
  <1>. QED
    BY <1>1, <1>2, OwnStepBy

\* What the ownership of the blocks says of one table.
LEMMA OwnTable ==
  ASSUME OwnInv, NEW t \in Table
  PROVE  /\ Pairs(tab[t]) \subseteq Pair
         /\ Blocks(Pairs(tab[t])) \subseteq heap
         /\ \A p, q \in Pairs(tab[t]) : p.key = q.key \/ p.value = q.value => p = q
         /\ \A p \in Pairs(tab[t]) : p.key \in KeyPtr /\ p.value \in ValPtr
  <1>1. PairsOf[t] = Pairs(tab[t])
    BY DEF PairsOf
  <1>. QED
    BY <1>1 DEF OwnInv, Own, Pair

LEMMA BlocksWith == ASSUME NEW S, NEW q  PROVE Blocks(S \cup {q}) = Blocks(S) \cup {q.key, q.value}
  BY DEF Blocks

LEMMA BlocksWithout ==
  ASSUME OwnInv, NEW t \in Table, NEW p \in Pairs(tab[t])
  PROVE  Blocks(Pairs(tab[t]) \ {p}) = Blocks(Pairs(tab[t])) \ {p.key, p.value}
  <1>. DEFINE P == Pairs(tab[t])
  <1>1. \A q \in P : q # p => {q.key, q.value} \cap {p.key, p.value} = {}
    BY OwnTable, DictAssumption
  <1>2. \A x : x \in Blocks(P \ {p}) <=> x \in Blocks(P) /\ x # p.key /\ x # p.value
    BY <1>1 DEF Blocks
  <1>. QED
    BY <1>2

LEMMA BlocksWithoutTwo ==
  ASSUME OwnInv, NEW t \in Table, NEW p \in Pairs(tab[t]), NEW q \in Pairs(tab[t])
  PROVE  Blocks(Pairs(tab[t]) \ {p, q}) = Blocks(Pairs(tab[t])) \ {p.key, p.value, q.key, q.value}
  <1>. DEFINE P == Pairs(tab[t])
  <1>1. \A r \in P : r # p /\ r # q => {r.key, r.value} \cap {p.key, p.value, q.key, q.value} = {}
    BY OwnTable, DictAssumption
  <1>2. \A x : x \in Blocks(P \ {p, q}) <=>
                 x \in Blocks(P) /\ x # p.key /\ x # p.value /\ x # q.key /\ x # q.value
    BY <1>1 DEF Blocks
  <1>. QED
    BY <1>2

LEMMA OwnPutReplace ==
  ASSUME TabInv, OwnInv, NEW t \in Table, NEW k \in KeyPtr, NEW v \in ValPtr, PutReplace(t, k, v)
  PROVE  OwnInv'
  <1>. DEFINE P == Pairs(tab[t])
              new == [key |-> k, value |-> v]
  <1>1. PICK p \in P : /\ p = Find(tab[t], NameOf[k])
                       /\ Becomes(t, (P \ {p}) \cup {new})
    BY PutReplaceIs
  <1>2. /\ k = p.key \/ k \notin heap
        /\ v = p.value \/ v \notin heap
        /\ heap' = (heap \ {p.key, p.value}) \cup {k, v} /\ loose' = loose
    BY <1>1 DEF PutReplace
  <1>. DEFINE S == (P \ {p}) \cup {new}
  <1>3. new \in Pair /\ new.key = k /\ new.value = v
    BY DEF Pair
  <1>4. \A q \in P : q.key \in heap /\ q.value \in heap
    BY OwnTable DEF Blocks
  <1>5. Replaces(S, P, heap)
    BY <1>1, <1>2, <1>3, <1>4, OwnTable DEF Replaces
  <1>6. Blocks(S) = (Blocks(P) \ {p.key, p.value}) \cup {k, v}
    <2>1. Blocks(S) = Blocks(P \ {p}) \cup {new.key, new.value}
      BY BlocksWith
    <2>2. Blocks(P \ {p}) = Blocks(P) \ {p.key, p.value}
      BY BlocksWithout
    <2>. QED
      BY <1>3, <2>1, <2>2
  <1>7. heap' = (heap \ Blocks(P)) \cup Blocks(S)
    BY <1>2, <1>6, OwnTable DEF Blocks
  <1>. QED
    BY <1>1, <1>2, <1>5, <1>7, OwnStepKeeps

LEMMA OwnPutNew ==
  ASSUME TabInv, OwnInv, NEW t \in Table, NEW k \in KeyPtr, NEW v \in ValPtr, PutNew(t, k, v)
  PROVE  OwnInv'
  <1>. DEFINE P == Pairs(tab[t])
              new == [key |-> k, value |-> v]
              S == P \cup {new}
  <1>1. Becomes(t, S)
    BY PutNewIs
  <1>2. k \notin heap /\ v \notin heap /\ heap' = heap \cup {k, v} /\ loose' = loose
    BY DEF PutNew
  <1>3. new \in Pair /\ new.key = k /\ new.value = v
    BY DEF Pair
  <1>4. \A q \in P : q.key \in heap /\ q.value \in heap
    BY OwnTable DEF Blocks
  <1>5. Replaces(S, P, heap)
    BY <1>2, <1>3, <1>4, OwnTable DEF Replaces
  <1>6. heap' = (heap \ Blocks(P)) \cup Blocks(S)
    BY <1>2, <1>3, BlocksWith, OwnTable
  <1>. QED
    BY <1>1, <1>2, <1>5, <1>6, OwnStepKeeps

LEMMA OwnRekey ==
  ASSUME TabInv, OwnInv, NEW t \in Table, NEW n \in Name, NEW k \in KeyPtr, Rekey(t, n, k)
  PROVE  OwnInv'
  <1>. DEFINE P == Pairs(tab[t])
  <1>1. k \notin heap /\ loose' = loose
    BY DEF Rekey
  <1>2. PICK p \in P : RekeyMerges(t, k, p) \/ RekeyMoves(t, k, p)
    BY RekeyIs
  <1>. DEFINE new == [key |-> k, value |-> p.value]
  <1>3. new \in Pair /\ new.key = k /\ new.value = p.value
    BY OwnTable DEF Pair
  <1>4. \A q \in P : q.key \in heap /\ q.value \in heap /\ q.key \in KeyPtr /\ q.value \in ValPtr
    BY OwnTable DEF Blocks
  <1>5. CASE RekeyMerges(t, k, p)
    <2>1. PICK q \in P \ {p} : /\ Becomes(t, (P \ {p, q}) \cup {new})
                               /\ heap' = (heap \ {p.key, q.key, q.value}) \cup {k}
      BY <1>5 DEF RekeyMerges
    <2>. DEFINE S == (P \ {p, q}) \cup {new}
    <2>2. Replaces(S, P, heap)
      BY <1>1, <1>3, <1>4, OwnTable DEF Replaces
    <2>3. Blocks(S) = (Blocks(P) \ {p.key, p.value, q.key, q.value}) \cup {k, p.value}
      <3>1. Blocks(S) = Blocks(P \ {p, q}) \cup {new.key, new.value}
        BY BlocksWith
      <3>2. Blocks(P \ {p, q}) = Blocks(P) \ {p.key, p.value, q.key, q.value}
        BY BlocksWithoutTwo
      <3>. QED
        BY <1>3, <3>1, <3>2
    <2>4. p.value # p.key /\ p.value # q.key /\ p.value # q.value
      BY <1>4, OwnTable, DictAssumption
    <2>5. heap' = (heap \ Blocks(P)) \cup Blocks(S)
      BY <1>4, <2>1, <2>3, <2>4, OwnTable DEF Blocks
    <2>. QED
      BY <1>1, <2>1, <2>2, <2>5, OwnStepKeeps
  <1>6. CASE RekeyMoves(t, k, p)
    <2>. DEFINE S == (P \ {p}) \cup {new}
    <2>1. Becomes(t, S) /\ heap' = (heap \ {p.key}) \cup {k}
      BY <1>6 DEF RekeyMoves
    <2>2. Replaces(S, P, heap)
      BY <1>1, <1>3, <1>4, OwnTable DEF Replaces
    <2>3. Blocks(S) = (Blocks(P) \ {p.key, p.value}) \cup {k, p.value}
      <3>1. Blocks(S) = Blocks(P \ {p}) \cup {new.key, new.value}
        BY BlocksWith
      <3>2. Blocks(P \ {p}) = Blocks(P) \ {p.key, p.value}
        BY BlocksWithout
      <3>. QED
        BY <1>3, <3>1, <3>2
    <2>4. p.value # p.key
      BY <1>4, DictAssumption
    <2>5. heap' = (heap \ Blocks(P)) \cup Blocks(S)
      BY <1>4, <2>1, <2>3, <2>4, OwnTable DEF Blocks
    <2>. QED
      BY <1>1, <2>1, <2>2, <2>5, OwnStepKeeps
  <1>. QED
    BY <1>2, <1>5, <1>6

LEMMA OwnForceValue ==
  ASSUME TabInv, OwnInv, NEW t \in Table, NEW n \in Name, NEW v \in ValPtr, ForceValue(t, n, v)
  PROVE  OwnInv'
  <1>. DEFINE P == Pairs(tab[t])
  <1>1. PICK p \in P : /\ p = Find(tab[t], n)
                       /\ Becomes(t, (P \ {p}) \cup {[key |-> p.key, value |-> v]})
    BY ForceValueIs
  <1>2. v \notin heap /\ heap' = heap \cup {v} /\ loose' = loose \cup {p.value}
    BY <1>1 DEF ForceValue
  <1>. DEFINE new == [key |-> p.key, value |-> v]
              S == (P \ {p}) \cup {new}
  <1>3. new \in Pair /\ new.key = p.key /\ new.value = v
    BY OwnTable DEF Pair
  <1>4. \A q \in P : q.key \in heap /\ q.value \in heap /\ q.key \in KeyPtr /\ q.value \in ValPtr
    BY OwnTable DEF Blocks
  <1>5. Replaces(S, P, heap)
    BY <1>2, <1>3, <1>4, OwnTable DEF Replaces
  <1>6. Blocks(S) = (Blocks(P) \ {p.key, p.value}) \cup {p.key, v}
    <2>1. Blocks(S) = Blocks(P \ {p}) \cup {new.key, new.value}
      BY BlocksWith
    <2>2. Blocks(P \ {p}) = Blocks(P) \ {p.key, p.value}
      BY BlocksWithout
    <2>. QED
      BY <1>3, <2>1, <2>2
  <1>7. heap' = (heap \ Blocks(P)) \cup Blocks(S) \cup {p.value}
    BY <1>2, <1>4, <1>6, OwnTable, SMTT(20) DEF Blocks
  <1>8. {p.value} \subseteq {q.value : q \in P} /\ \A q \in S : q.value \notin {p.value}
    BY <1>2, <1>3, <1>4, OwnTable
  <1>. QED
    BY <1>1, <1>2, <1>5, <1>7, <1>8, OwnStepBy

LEMMA OwnRemove ==
  ASSUME TabInv, OwnInv, NEW t \in Table, NEW n \in Name, Remove(t, n)
  PROVE  OwnInv'
  <1>. DEFINE P == Pairs(tab[t])
  <1>1. PICK p \in P : p = Find(tab[t], n) /\ Becomes(t, P \ {p})
    BY RemoveIs
  <1>2. heap' = heap \ {p.key, p.value} /\ loose' = loose
    BY <1>1 DEF Remove
  <1>3. Replaces(P \ {p}, P, heap)
    BY OwnTable DEF Replaces
  <1>4. heap' = (heap \ Blocks(P)) \cup Blocks(P \ {p})
    BY <1>2, BlocksWithout, OwnTable DEF Blocks
  <1>. QED
    BY <1>1, <1>2, <1>3, <1>4, OwnStepKeeps

LEMMA OwnEmptied ==
  ASSUME TabInv, OwnInv, NEW t \in Table, Becomes(t, {}),
         heap' = heap \ Blocks(Pairs(tab[t])), loose' = loose
  PROVE  OwnInv'
  <1>1. Replaces({}, Pairs(tab[t]), heap) /\ Blocks({}) = {}
    BY DEF Replaces, Blocks
  <1>. QED
    BY <1>1, OwnStepKeeps

LEMMA OwnDestroy ==
  ASSUME TabInv, OwnInv, NEW t \in Table, Destroy(t)
  PROVE  OwnInv'
  <1>1. PairsOf[t] = Pairs(tab[t])
    BY DEF PairsOf
  <1>2. \A u \in Table : PairsOf'[u] = IF u = t THEN {} ELSE PairsOf[u]
    BY DestroyIs, NoTableIs DEF PairsOf, TabInv
  <1>3. Replaces({}, Pairs(tab[t]), heap) /\ Blocks({}) = {}
    BY DEF Replaces, Blocks
  <1>4. heap' = (heap \ Blocks(PairsOf[t])) \cup Blocks({}) \cup {} /\ loose' = loose \cup {}
    BY <1>1, <1>3 DEF Destroy
  <1>. DEFINE out == {}
  <1>5. /\ out \subseteq {p.value : p \in PairsOf[t]} /\ \A p \in {} : p.value \notin out
        /\ heap' = (heap \ Blocks(PairsOf[t])) \cup Blocks({}) \cup out
        /\ loose' = loose \cup out
    BY <1>4
  <1>. HIDE DEF out
  <1>6. Own(PairsOf, heap, loose) /\ Replaces({}, PairsOf[t], heap)
    BY <1>1, <1>3 DEF OwnInv
  <1>7. Own(PairsOf', heap', loose \cup out)
    BY <1>2, <1>5, <1>6, OwnReplaces
  <1>. QED
    BY <1>5, <1>7 DEF OwnInv

LEMMA OwnCopy ==
  ASSUME TabInv, OwnInv, NEW t \in Table, NEW u \in Table, Copy(t, u)
  PROVE  OwnInv'
  <1>. DEFINE P == Pairs(tab[t])
  <1>1. PICK copy : /\ Copies(copy, P, heap)
                    /\ Becomes(u, {copy[p] : p \in P})
                    /\ heap' = heap \cup Blocks({copy[p] : p \in P})
    BY CopyIs
  <1>. DEFINE S == {copy[p] : p \in P}
  <1>2. Pairs(tab[u]) = {} /\ Blocks({}) = {}
    BY CopyIs, NoTableIs DEF Blocks
  <1>3. \A p \in P : copy[p] \in Pair /\ copy[p].key \notin heap /\ copy[p].value \notin heap
    BY <1>1 DEF Copies, Pair
  <1>4. \A c, d \in S : c.key = d.key \/ c.value = d.value => c = d
    BY <1>1 DEF Copies
  <1>5. Replaces(S, Pairs(tab[u]), heap)
    BY <1>3, <1>4 DEF Replaces
  <1>6. heap' = (heap \ Blocks(Pairs(tab[u]))) \cup Blocks(S) /\ loose' = loose
    BY <1>1, <1>2 DEF Copy
  <1>. QED
    BY <1>1, <1>5, <1>6, OwnStepKeeps

LEMMA OwnStep == TabInv /\ OwnInv /\ [Next]_vars => OwnInv'
  <1>. SUFFICES ASSUME TabInv, OwnInv, [Next]_vars  PROVE OwnInv'
    OBVIOUS
  <1>1. CASE UNCHANGED vars
    BY <1>1 DEF vars, OwnInv, PairsOf
  <1>2. ASSUME NEW t \in Table, NEW n \in InitialBuckets, CreateTable(t, n)  PROVE OwnInv'
    <2>1. Becomes(t, {}) /\ Pairs(tab[t]) = {} /\ Blocks({}) = {}
      BY <1>2, CreateIs, NoTableIs DEF Blocks
    <2>. QED
      BY <1>2, <2>1, OwnEmptied DEF CreateTable
  <1>3. ASSUME NEW t \in Table, Destroy(t)  PROVE OwnInv'
    BY <1>3, OwnDestroy
  <1>4. ASSUME NEW t \in Table, RemoveAll(t)  PROVE OwnInv'
    BY <1>4, RemoveAllIs, OwnEmptied DEF RemoveAll
  <1>5. ASSUME NEW t \in Table, IterInit(t)  PROVE OwnInv'
    BY <1>5 DEF IterInit, OwnInv, PairsOf
  <1>6. ASSUME NEW t \in Table, NEW u \in Table, Copy(t, u)  PROVE OwnInv'
    BY <1>6, OwnCopy
  <1>7. ASSUME NEW t \in Table, NEW k \in KeyPtr, NEW v \in ValPtr, PutReplace(t, k, v)  PROVE OwnInv'
    BY <1>7, OwnPutReplace
  <1>8. ASSUME NEW t \in Table, NEW k \in KeyPtr, NEW v \in ValPtr, PutNew(t, k, v)  PROVE OwnInv'
    BY <1>8, OwnPutNew
  <1>9. ASSUME NEW t \in Table, NEW n \in Name, NEW k \in KeyPtr, Rekey(t, n, k)  PROVE OwnInv'
    BY <1>9, OwnRekey
  <1>10. ASSUME NEW t \in Table, NEW n \in Name, NEW v \in ValPtr, ForceValue(t, n, v)  PROVE OwnInv'
    BY <1>10, OwnForceValue
  <1>11. ASSUME NEW t \in Table, NEW n \in Name, Remove(t, n)  PROVE OwnInv'
    BY <1>11, OwnRemove
  <1>12. ASSUME NEW v \in ValPtr, FreeLoose(v)  PROVE OwnInv'
    <2>1. PairsOf' = PairsOf /\ loose' = loose \ {v} /\ heap' = heap \ {v} /\ v \in loose
      BY <1>12 DEF FreeLoose, PairsOf
    <2>2. \A t \in Table : v \notin Blocks(PairsOf[t])
      BY <2>1, DictAssumption DEF OwnInv, Own, Blocks, Pair
    <2>3. Own(PairsOf, heap \ {v}, loose \ {v})
      BY <2>1, <2>2 DEF OwnInv, Own
    <2>. QED
      BY <2>1, <2>3 DEF OwnInv
  <1>13. CASE IterNext
    BY <1>13 DEF IterNext, OwnInv, PairsOf
  <1>. QED
    BY <1>1, <1>2, <1>3, <1>4, <1>5, <1>6, <1>7, <1>8, <1>9, <1>10, <1>11, <1>12, <1>13 DEF Next

LEMMA OwnInit == Init => OwnInv
  <1>. SUFFICES ASSUME Init  PROVE OwnInv
    OBVIOUS
  <1>1. \A t \in Table : PairsOf[t] = {}
    BY NoTableIs DEF Init, PairsOf
  <1>. QED
    BY <1>1 DEF Init, OwnInv, Own, Blocks

\* Every key and value that was allocated and not freed is in exactly one place,
\* a table's pair or the caller's hands after NpyDict_ForceValue, and nothing
\* freed is still referred to: no history of calls leaks or frees twice.
THEOREM BlocksOwnedOnce == Spec => []OwnedOnce
  <1>1. TabInv /\ OwnInv => OwnedOnce
    <2>. SUFFICES ASSUME TabInv, OwnInv  PROVE OwnedOnce
      OBVIOUS
    <2>1. \A t \in Table : PairsOf[t] = Pairs(tab[t]) /\ (t \notin Live => Pairs(tab[t]) = {})
      BY NoTableIs DEF PairsOf, Live
    <2>2. Live \subseteq Table
      BY DEF Live
    <2>3. \A x : x \in heap <=> x \in loose \cup UNION {Blocks(Pairs(tab[t])) : t \in Live}
      BY <2>1, <2>2 DEF OwnInv, Own, Blocks
    <2>. QED
      BY <2>1, <2>2, <2>3 DEF OwnedOnce, OwnInv, Own
  <1>. QED
    BY <1>1, TabInit, OwnInit, TabStep, OwnStep, PTL DEF Spec

-----------------------------------------------------------------------------
(* Tables implement maps.                                                  *)

\* The map that table T stands for, and the variable of NpyMap.
AsMap(T) == [n \in Name |-> Get(T, n)]
MapOf == [t \in Table |-> IF tab[t] = NoTable THEN NoMap ELSE AsMap(tab[t])]

LEMMA GetIs ==
  ASSUME NEW T, Sound(T), NEW p \in Pairs(T), NEW n \in Name, NameOf[p.key] = n
  PROVE  Get(T, n) = DatumOf[p.value] /\ Get(T, n) \in Datum /\ Get(T, n) # NoDatum
  <1>1. ContainsKey(T, n)
    BY MatchesPairs DEF ContainsKey
  <1>2. Find(T, n) = p /\ p \in Pair
    BY <1>1, FindIs
  <1>. QED
    BY <1>1, <1>2, DictAssumption DEF Get, Pair

LEMMA GetNone ==
  ASSUME NEW T, Sound(T), NEW n \in Name, \A p \in Pairs(T) : NameOf[p.key] # n
  PROVE  Get(T, n) = NoDatum
  BY MatchesPairs DEF ContainsKey, Get

\* What is stored under other names does not matter.
LEMMA GetSame ==
  ASSUME NEW T, Sound(T), NEW R, Sound(R), NEW n \in Name,
         {p \in Pairs(T) : NameOf[p.key] = n} = {p \in Pairs(R) : NameOf[p.key] = n}
  PROVE  Get(T, n) = Get(R, n)
  <1>. DEFINE A == {p \in Pairs(T) : NameOf[p.key] = n}
              B == {p \in Pairs(R) : NameOf[p.key] = n}
  <1>0. Matches(T, n) = A /\ Matches(R, n) = B /\ A = B
    BY MatchesPairs
  <1>. HIDE DEF A, B
  <1>1. Matches(T, n) = Matches(R, n)
    BY <1>0
  <1>2. Find(T, n) = Find(R, n)
    BY <1>1 DEF Find
  <1>. QED
    BY <1>1, <1>2 DEF ContainsKey, Get

LEMMA AsMapType == ASSUME NEW T, Sound(T)  PROVE AsMap(T) \in [Name -> Datum \cup {NoDatum}] /\ AsMap(T) # NoMap
  <1>1. \A n \in Name : Get(T, n) \in Datum \cup {NoDatum}
    <2>. SUFFICES ASSUME NEW n \in Name  PROVE Get(T, n) \in Datum \cup {NoDatum}
      OBVIOUS
    <2>1. CASE \E p \in Pairs(T) : NameOf[p.key] = n
      BY <2>1, GetIs
    <2>2. CASE \A p \in Pairs(T) : NameOf[p.key] # n
      BY <2>2, GetNone
    <2>. QED
      BY <2>1, <2>2
  <1>. QED
    BY <1>1, DictAssumption DEF AsMap

LEMMA MapOfNext ==
  ASSUME TabInv, NEW t \in Table, NEW S, Becomes(t, S)
  PROVE  /\ MapOf' = [MapOf EXCEPT ![t] = AsMap(tab'[t])]
         /\ tab[t] # NoTable => MapOf[t] = AsMap(tab[t]) /\ MapOf[t] # NoMap
         /\ tab[t] = NoTable => MapOf[t] = NoMap
  <1>1. tab'[t] # NoTable
    BY NoTableIs DEF Becomes
  <1>2. \A u \in Table : u # t => tab'[u] = tab[u]
    BY BecomesKeeps
  <1>3. MapOf' = [MapOf EXCEPT ![t] = AsMap(tab'[t])]
    BY <1>1, <1>2 DEF MapOf
  <1>4. tab[t] # NoTable => AsMap(tab[t]) # NoMap
    BY AsMapType DEF TabInv
  <1>. QED
    BY <1>3, <1>4 DEF MapOf

\* Giving name n the value d is Put of the map.
LEMMA MapPut ==
  ASSUME TabInv, NEW t \in Table, tab[t] # NoTable, NEW S, Becomes(t, S), NEW n \in Name, NEW d \in Datum,
         Get(tab'[t], n) = d, \A m \in Name \ {n} : Get(tab'[t], m) = Get(tab[t], m)
  PROVE  Map!Next
  <1>1. MapOf[t] = AsMap(tab[t]) /\ MapOf[t] # NoMap /\ MapOf' = [MapOf EXCEPT ![t] = AsMap(tab'[t])]
    BY MapOfNext
  <1>2. AsMap(tab'[t]) = [AsMap(tab[t]) EXCEPT ![n] = d]
    BY DEF AsMap
  <1>3. MapOf' = [MapOf EXCEPT ![t] = [MapOf[t] EXCEPT ![n] = d]]
    BY <1>1, <1>2
  <1>4. MapOf' = [MapOf EXCEPT ![t][n] = d]
    BY <1>3 DEF MapOf
  <1>5. Map!Put(t, n, d)
    BY <1>1, <1>4 DEF Map!Put, Map!Live, MapOf, AsMap
  <1>. QED
    BY <1>5 DEF Map!Next

\* A table keeps what it has under the names that a step does not touch.
LEMMA GetKept ==
  ASSUME TabInv, NEW t \in Table, tab[t] # NoTable, NEW S, Becomes(t, S), NEW n \in Name,
         \A p \in Pairs(tab[t]) : NameOf[p.key] = n => p \in S,
         \A p \in S : NameOf[p.key] = n => p \in Pairs(tab[t])
  PROVE  Get(tab'[t], n) = Get(tab[t], n)
  <1>1. Sound(tab[t]) /\ Sound(tab'[t]) /\ Pairs(tab'[t]) = S
    BY DEF TabInv, Becomes
  <1>2. {p \in Pairs(tab[t]) : NameOf[p.key] = n} = {p \in S : NameOf[p.key] = n}
    OBVIOUS
  <1>. QED
    BY <1>1, <1>2, GetSame

LEMMA GetNew ==
  ASSUME TabInv, NEW t \in Table, NEW S, Becomes(t, S), NEW p \in S
  PROVE  Get(tab'[t], NameOf[p.key]) = DatumOf[p.value]
  <1>1. Sound(tab'[t]) /\ Pairs(tab'[t]) = S
    BY DEF Becomes
  <1>2. p \in Pair
    BY <1>1, PairsType DEF Sound
  <1>. QED
    BY <1>1, <1>2, GetIs, PairName

LEMMA GetGone ==
  ASSUME TabInv, NEW t \in Table, NEW S, Becomes(t, S), NEW n \in Name, \A p \in S : NameOf[p.key] # n
  PROVE  Get(tab'[t], n) = NoDatum
  BY GetNone DEF Becomes

LEMMA MapPutReplace ==
  ASSUME TabInv, NEW t \in Table, NEW k \in KeyPtr, NEW v \in ValPtr, PutReplace(t, k, v)
  PROVE  Map!Next
  <1>. DEFINE P == Pairs(tab[t])
              new == [key |-> k, value |-> v]
  <1>1. PICK p \in P : NameOf[p.key] = NameOf[k] /\ Becomes(t, (P \ {p}) \cup {new})
    BY PutReplaceIs
  <1>2. tab[t] # NoTable /\ NameOf[k] \in Name /\ DatumOf[v] \in Datum
    BY DictAssumption DEF PutReplace, Modifiable
  <1>3. Get(tab'[t], NameOf[k]) = DatumOf[v]
    <2>1. new \in (P \ {p}) \cup {new} /\ new.key = k /\ new.value = v
      OBVIOUS
    <2>. QED
      BY <1>1, <2>1, GetNew
  <1>4. ASSUME NEW m \in Name \ {NameOf[k]}  PROVE Get(tab'[t], m) = Get(tab[t], m)
    BY <1>1, <1>2, GetKept
  <1>. QED
    BY <1>1, <1>2, <1>3, <1>4, MapPut

LEMMA MapPutNew ==
  ASSUME TabInv, NEW t \in Table, NEW k \in KeyPtr, NEW v \in ValPtr, PutNew(t, k, v)
  PROVE  Map!Next
  <1>. DEFINE P == Pairs(tab[t])
              new == [key |-> k, value |-> v]
  <1>1. tab[t] # NoTable /\ Becomes(t, P \cup {new})
    BY PutNewIs
  <1>2. NameOf[k] \in Name /\ DatumOf[v] \in Datum
    BY DictAssumption
  <1>3. Get(tab'[t], NameOf[k]) = DatumOf[v]
    <2>1. new \in P \cup {new} /\ new.key = k /\ new.value = v
      OBVIOUS
    <2>. QED
      BY <1>1, <2>1, GetNew
  <1>4. ASSUME NEW m \in Name \ {NameOf[k]}  PROVE Get(tab'[t], m) = Get(tab[t], m)
    BY <1>1, GetKept
  <1>. QED
    BY <1>1, <1>2, <1>3, <1>4, MapPut

LEMMA MapForceValue ==
  ASSUME TabInv, NEW t \in Table, NEW n \in Name, NEW v \in ValPtr, ForceValue(t, n, v)
  PROVE  Map!Next
  <1>. DEFINE P == Pairs(tab[t])
  <1>1. PICK p \in P : NameOf[p.key] = n /\ Becomes(t, (P \ {p}) \cup {[key |-> p.key, value |-> v]})
    BY ForceValueIs
  <1>. DEFINE new == [key |-> p.key, value |-> v]
  <1>2. tab[t] # NoTable /\ DatumOf[v] \in Datum
    BY DictAssumption DEF ForceValue
  <1>3. Get(tab'[t], n) = DatumOf[v]
    <2>1. new \in (P \ {p}) \cup {new} /\ new.key = p.key /\ new.value = v
      OBVIOUS
    <2>. QED
      BY <1>1, <2>1, GetNew
  <1>4. ASSUME NEW m \in Name \ {n}  PROVE Get(tab'[t], m) = Get(tab[t], m)
    BY <1>1, <1>2, GetKept
  <1>. QED
    BY <1>1, <1>2, <1>3, <1>4, MapPut

LEMMA MapRemove ==
  ASSUME TabInv, NEW t \in Table, NEW n \in Name, Remove(t, n)
  PROVE  Map!Next
  <1>. DEFINE P == Pairs(tab[t])
  <1>1. PICK p \in P : p = Find(tab[t], n) /\ NameOf[p.key] = n /\ Becomes(t, P \ {p})
    BY RemoveIs
  <1>2. tab[t] # NoTable /\ Sound(tab[t])
    BY DEF Remove, Modifiable, TabInv
  <1>3. Get(tab'[t], n) = NoDatum
    <2>1. \A q \in P \ {p} : NameOf[q.key] # n
      BY <1>1, <1>2 DEF Sound, Hashed
    <2>. QED
      BY <1>1, <2>1, GetGone
  <1>4. ASSUME NEW m \in Name \ {n}  PROVE Get(tab'[t], m) = Get(tab[t], m)
    BY <1>1, <1>2, GetKept
  <1>5. MapOf[t] = AsMap(tab[t]) /\ MapOf[t] # NoMap /\ MapOf' = [MapOf EXCEPT ![t] = AsMap(tab'[t])]
    BY <1>1, <1>2, MapOfNext
  <1>6. AsMap(tab'[t]) = [AsMap(tab[t]) EXCEPT ![n] = NoDatum]
    BY <1>3, <1>4 DEF AsMap
  <1>7. MapOf' = [MapOf EXCEPT ![t][n] = NoDatum]
    BY <1>5, <1>6 DEF MapOf
  <1>8. Map!Remove(t, n)
    BY <1>5, <1>7 DEF Map!Remove, Map!Live, MapOf, AsMap
  <1>. QED
    BY <1>8 DEF Map!Next

LEMMA MapRekey ==
  ASSUME TabInv, NEW t \in Table, NEW old \in Name, NEW k \in KeyPtr, Rekey(t, old, k)
  PROVE  Map!Next
  <1>. DEFINE P == Pairs(tab[t])
              nn == NameOf[k]
  <1>1. PICK p \in P : NameOf[p.key] = old /\ (RekeyMerges(t, k, p) \/ RekeyMoves(t, k, p))
    BY RekeyIs
  <1>. DEFINE new == [key |-> k, value |-> p.value]
  <1>2. tab[t] # NoTable /\ Sound(tab[t]) /\ nn \in Name
    BY DictAssumption DEF Rekey, Modifiable, TabInv
  <1>3. \A q \in P : NameOf[q.key] = old => q = p
    BY <1>1, <1>2 DEF Sound, Hashed
  \* What is left of the old pairs: all of those with other names.
  <1>4. PICK Rest \in SUBSET P :
          /\ Becomes(t, Rest \cup {new})
          /\ \A q \in P : q \in Rest <=> NameOf[q.key] # old /\ NameOf[q.key] # nn
    <2>1. CASE RekeyMerges(t, k, p)
      <3>1. PICK q \in P \ {p} : NameOf[q.key] = nn /\ Becomes(t, (P \ {p, q}) \cup {new})
        BY <2>1 DEF RekeyMerges
      <3>2. \A r \in P : NameOf[r.key] = nn => r = q
        BY <1>2, <3>1 DEF Sound, Hashed
      <3>3. P \ {p, q} \in SUBSET P
        OBVIOUS
      <3>4. ASSUME NEW r \in P
            PROVE  r \in P \ {p, q} <=> NameOf[r.key] # old /\ NameOf[r.key] # nn
        BY <1>1, <1>3, <3>1, <3>2
      <3>. QED
        BY <3>1, <3>3, <3>4
    <2>2. CASE RekeyMoves(t, k, p)
      <3>1. /\ \A q \in P \ {p} : NameOf[q.key] # nn
            /\ Becomes(t, (P \ {p}) \cup {new})
        BY <2>2 DEF RekeyMoves
      <3>. QED
        BY <1>1, <1>3, <3>1
    <2>. QED
      BY <1>1, <2>1, <2>2
  <1>5. new \in Rest \cup {new} /\ new.key = k /\ new.value = p.value
    OBVIOUS
  <1>6. Get(tab'[t], nn) = DatumOf[p.value]
    BY <1>4, <1>5, GetNew
  <1>7. old # nn => Get(tab'[t], old) = NoDatum
    BY <1>4, <1>5, GetGone
  <1>8. ASSUME NEW m \in Name, m # old, m # nn  PROVE Get(tab'[t], m) = Get(tab[t], m)
    BY <1>2, <1>4, <1>5, <1>8, GetKept
  <1>9. Get(tab[t], old) = DatumOf[p.value] /\ Get(tab[t], old) # NoDatum
    BY <1>1, <1>2, GetIs
  <1>10. MapOf[t] = AsMap(tab[t]) /\ MapOf[t] # NoMap /\ MapOf' = [MapOf EXCEPT ![t] = AsMap(tab'[t])]
    BY <1>2, <1>4, MapOfNext
  <1>11. AsMap(tab'[t]) = [[AsMap(tab[t]) EXCEPT ![old] = NoDatum] EXCEPT ![nn] = AsMap(tab[t])[old]]
    BY <1>6, <1>7, <1>8, <1>9 DEF AsMap
  <1>12. MapOf' = [MapOf EXCEPT ![t] = [[MapOf[t] EXCEPT ![old] = NoDatum] EXCEPT ![nn] = MapOf[t][old]]]
    BY <1>10, <1>11
  <1>13. MapOf[t][old] # NoDatum
    BY <1>9, <1>10 DEF AsMap
  <1>14. Map!Rekey(t, old, nn)
    BY <1>10, <1>12, <1>13 DEF Map!Rekey, Map!Live, MapOf, AsMap
  <1>. QED
    BY <1>2, <1>14 DEF Map!Next

\* A table without pairs is the empty map.
LEMMA MapEmptied ==
  ASSUME TabInv, NEW t \in Table, Becomes(t, {})
  PROVE  MapOf' = [MapOf EXCEPT ![t] = Map!Empty]
  <1>1. \A n \in Name : Get(tab'[t], n) = NoDatum
    <2>. SUFFICES ASSUME NEW n \in Name  PROVE Get(tab'[t], n) = NoDatum
      OBVIOUS
    <2>1. \A p \in {} : NameOf[p.key] # n
      OBVIOUS
    <2>. QED
      BY <2>1, GetGone
  <1>2. AsMap(tab'[t]) = Map!Empty
    BY <1>1 DEF AsMap, Map!Empty
  <1>. QED
    BY <1>2, MapOfNext

LEMMA MapCreate ==
  ASSUME TabInv, NEW t \in Table, NEW n \in InitialBuckets, CreateTable(t, n)
  PROVE  Map!Next
  <1>1. tab[t] = NoTable /\ Becomes(t, {})
    BY CreateIs
  <1>2. MapOf[t] = NoMap
    BY <1>1 DEF MapOf
  <1>3. Map!Create(t)
    BY <1>1, <1>2, MapEmptied DEF Map!Create, Map!Live, MapOf, AsMap
  <1>. QED
    BY <1>3 DEF Map!Next

LEMMA MapRemoveAll ==
  ASSUME TabInv, NEW t \in Table, RemoveAll(t)
  PROVE  Map!Next
  <1>1. tab[t] # NoTable /\ Becomes(t, {})
    BY RemoveAllIs
  <1>2. MapOf[t] # NoMap
    BY <1>1, MapOfNext
  <1>3. Map!RemoveAll(t)
    BY <1>1, <1>2, MapEmptied DEF Map!RemoveAll, Map!Live, MapOf, AsMap
  <1>. QED
    BY <1>3 DEF Map!Next

LEMMA MapDestroy ==
  ASSUME TabInv, NEW t \in Table, Destroy(t)
  PROVE  Map!Next
  <1>1. tab[t] # NoTable /\ tab' = [tab EXCEPT ![t] = NoTable]
    BY DestroyIs
  <1>2. Sound(tab[t])
    BY <1>1 DEF TabInv
  <1>3. MapOf[t] # NoMap
    BY <1>1, <1>2, AsMapType DEF MapOf
  <1>4. \A u \in Table : tab'[u] = IF u = t THEN NoTable ELSE tab[u]
    BY <1>1 DEF TabInv
  <1>5. MapOf' = [MapOf EXCEPT ![t] = NoMap]
    BY <1>4 DEF MapOf
  <1>6. Map!Destroy(t)
    BY <1>3, <1>5 DEF Map!Destroy, Map!Live, MapOf, AsMap
  <1>. QED
    BY <1>6 DEF Map!Next

LEMMA MapCopy ==
  ASSUME TabInv, NEW t \in Table, NEW u \in Table, Copy(t, u)
  PROVE  Map!Next
  <1>. DEFINE S == Pairs(tab[t])
  <1>1. Sound(tab[t]) /\ tab[u] = NoTable
    BY CopyIs
  <1>2. PICK copy : Copies(copy, S, heap) /\ Becomes(u, {copy[p] : p \in S})
    BY CopyIs, SMTT(20)
  <1>3. \A n \in Name : Get(tab'[u], n) = Get(tab[t], n)
    <2>. SUFFICES ASSUME NEW n \in Name  PROVE Get(tab'[u], n) = Get(tab[t], n)
      OBVIOUS
    <2>1. CASE \E p \in S : NameOf[p.key] = n
      <3>1. PICK p \in S : NameOf[p.key] = n
        BY <2>1
      <3>2. Get(tab[t], n) = DatumOf[p.value]
        BY <1>1, <3>1, GetIs
      <3>3. NameOf[copy[p].key] = n /\ DatumOf[copy[p].value] = DatumOf[p.value]
        BY <1>2, <3>1 DEF Copies
      <3>4. copy[p] \in {copy[q] : q \in S}
        OBVIOUS
      <3>5. Get(tab'[u], NameOf[copy[p].key]) = DatumOf[copy[p].value]
        BY <1>2, <3>4, GetNew
      <3>. QED
        BY <3>2, <3>3, <3>5
    <2>2. CASE \A p \in S : NameOf[p.key] # n
      <3>1. Get(tab[t], n) = NoDatum
        BY <1>1, <2>2, GetNone
      <3>2. \A c \in {copy[q] : q \in S} : NameOf[c.key] # n
        BY <1>2, <2>2 DEF Copies
      <3>. QED
        BY <1>2, <3>1, <3>2, GetGone
    <2>. QED
      BY <2>1, <2>2
  <1>4. tab[t] # NoTable /\ t # u
    BY <1>1, NoTableIs
  <1>5. MapOf[t] = AsMap(tab[t]) /\ AsMap(tab[t]) # NoMap /\ MapOf[u] = NoMap
    BY <1>1, <1>4, AsMapType DEF MapOf
  <1>6. AsMap(tab'[u]) = AsMap(tab[t])
    BY <1>3 DEF AsMap
  <1>7. MapOf' = [MapOf EXCEPT ![u] = MapOf[t]]
    BY <1>2, <1>5, <1>6, MapOfNext
  <1>8. Map!Copy(t, u)
    BY <1>5, <1>7 DEF Map!Copy, Map!Live, MapOf, AsMap
  <1>. QED
    BY <1>8 DEF Map!Next

LEMMA MapStep == TabInv /\ [Next]_vars => Map!Next \/ MapOf' = MapOf
  <1>. SUFFICES ASSUME TabInv, [Next]_vars  PROVE Map!Next \/ MapOf' = MapOf
    OBVIOUS
  <1>1. tab' = tab => MapOf' = MapOf
    BY DEF MapOf
  <1>2. CASE UNCHANGED vars
    BY <1>1, <1>2 DEF vars
  <1>3. CASE \E t \in Table, n \in InitialBuckets : CreateTable(t, n)
    BY <1>3, MapCreate
  <1>4. CASE \E t \in Table : Destroy(t) \/ RemoveAll(t)
    BY <1>4, MapDestroy, MapRemoveAll
  <1>5. CASE \E t \in Table : IterInit(t)
    BY <1>1, <1>5 DEF IterInit
  <1>6. CASE \E t \in Table, u \in Table : Copy(t, u)
    BY <1>6, MapCopy
  <1>7. CASE \E t \in Table, k \in KeyPtr, v \in ValPtr : PutReplace(t, k, v) \/ PutNew(t, k, v)
    BY <1>7, MapPutReplace, MapPutNew
  <1>8. CASE \E t \in Table, n \in Name, k \in KeyPtr : Rekey(t, n, k)
    BY <1>8, MapRekey
  <1>9. CASE \E t \in Table, n \in Name, v \in ValPtr : ForceValue(t, n, v)
    BY <1>9, MapForceValue
  <1>10. CASE \E t \in Table, n \in Name : Remove(t, n)
    BY <1>10, MapRemove
  <1>11. CASE \E v \in ValPtr : FreeLoose(v)
    BY <1>1, <1>11 DEF FreeLoose
  <1>12. CASE IterNext
    BY <1>1, <1>12 DEF IterNext
  <1>. QED
    BY <1>2, <1>3, <1>4, <1>5, <1>6, <1>7, <1>8, <1>9, <1>10, <1>11, <1>12 DEF Next

\* Whatever the keys, the hash function and the thresholds, every operation of
\* npy_dict.c does to the map of names to values what NpyMap says of it, and a
\* rehash, a collision or the allocation of a block never shows in that map.
THEOREM TablesImplementMaps == Spec => ImplementsMap
  <1>1. Init => Map!Init
    BY DEF Init, Map!Init
  <1>2. TabInv /\ [Next]_vars => [Map!Next]_MapOf
    BY MapStep
  <1>. QED
    BY <1>1, <1>2, TabInit, TabStep, PTL DEF Spec, ImplementsMap, Map!Spec, MapOf, AsMap

-----------------------------------------------------------------------------
(* The count of a table as a value.                                        *)

LEMMA LinkSize ==
  ASSUME NEW T, Shape(T), NEW p \in Pair
  PROVE  /\ Shape(Link(T, p)) /\ Link(T, p).numOfElements = T.numOfElements
         /\ Shape(Unlink(T, p)) /\ Unlink(T, p).numOfElements = T.numOfElements
         /\ Link(T, p).numOfBuckets = T.numOfBuckets /\ Unlink(T, p).numOfBuckets = T.numOfBuckets
  <1>1. Shape(Link(T, p)) /\ Link(T, p).numOfElements = T.numOfElements /\ Link(T, p).numOfBuckets = T.numOfBuckets
    BY DEF Link, Shape, Arrays
  <1>2. Shape(Unlink(T, p)) /\ Unlink(T, p).numOfElements = T.numOfElements /\ Unlink(T, p).numOfBuckets = T.numOfBuckets
    BY DEF Unlink, Shape, Arrays
  <1>. QED
    BY <1>1, <1>2

LEMMA ResizedSize ==
  ASSUME NEW T, Shape(T), NEW d \in Int
  PROVE  Shape(Resized(T, d)) /\ Resized(T, d).numOfElements = T.numOfElements + d
  BY DEF Resized, Shape, Arrays

LEMMA RehashSize ==
  ASSUME NEW T, Shape(T), NEW n, NEW R \in Rehash(T, n)
  PROVE  R.numOfElements = T.numOfElements
  <1>. DEFINE m == IF n = 0 THEN calculateIdealNumOfBuckets(T) ELSE n
  <1>1. R = T \/ R = Rehashed(T, m)
    BY DEF Rehash
  <1>2. Rehashed(T, m).numOfElements = T.numOfElements
    BY DEF Rehashed, Shape
  <1>. QED
    BY <1>1, <1>2

\* What an operation makes of the count of the table it stores.
LEMMA StoredSize ==
  ASSUME TabInv, NEW t \in Table, NEW R, Store(t, R)
  PROVE  tab'[t] = R
  BY DEF Store, TabInv

LEMMA PutReplaceSize ==
  ASSUME TabInv, NEW t \in Table, NEW k \in KeyPtr, NEW v \in ValPtr, PutReplace(t, k, v)
  PROVE  tab'[t].numOfElements = tab[t].numOfElements
  <1>. DEFINE T == tab[t]
              p == Find(T, NameOf[k])
              new == [key |-> k, value |-> v]
  <1>1. Sound(T) /\ Shape(T) /\ ContainsKey(T, NameOf[k]) /\ NameOf[k] \in Name
    BY DictAssumption DEF PutReplace, Modifiable, TabInv, Sound
  <1>2. p \in Pair /\ new \in Pair
    BY <1>1, FindIs DEF Pair
  <1>3. tab'[t] = Link(Unlink(T, p), new)
    BY StoredSize DEF PutReplace
  <1>4. Shape(Unlink(T, p)) /\ Unlink(T, p).numOfElements = T.numOfElements
    BY <1>1, <1>2, LinkSize
  <1>. HIDE DEF p, new
  <1>. QED
    BY <1>2, <1>3, <1>4, LinkSize, ZenonT(20)

LEMMA PutNewSize ==
  ASSUME TabInv, NEW t \in Table, NEW k \in KeyPtr, NEW v \in ValPtr, PutNew(t, k, v)
  PROVE  tab'[t].numOfElements = tab[t].numOfElements + 1
  <1>. DEFINE L == Link(tab[t], [key |-> k, value |-> v])
              T == Resized(L, 1)
  <1>1. Shape(tab[t]) /\ [key |-> k, value |-> v] \in Pair
    BY DEF PutNew, Modifiable, TabInv, Sound, Pair
  <1>2. Shape(L) /\ L.numOfElements = tab[t].numOfElements
    BY <1>1, LinkSize
  <1>3. Shape(T) /\ T.numOfElements = tab[t].numOfElements + 1
    BY <1>2, ResizedSize
  <1>4. PICK R \in IF Crowded(T) THEN Rehash(T, 0) ELSE {T} : Store(t, R)
    BY DEF PutNew
  <1>. HIDE DEF T
  <1>5. R.numOfElements = T.numOfElements
    BY <1>3, <1>4, RehashSize
  <1>. QED
    BY <1>3, <1>4, <1>5, StoredSize

LEMMA RekeySize ==
  ASSUME TabInv, NEW t \in Table, NEW old \in Name, NEW k \in KeyPtr, Rekey(t, old, k)
  PROVE  tab'[t].numOfElements = tab[t].numOfElements
  <1>. DEFINE p == Find(tab[t], old)
              T == Unlink(tab[t], p)
              q == Find(T, NameOf[k])
              new == [key |-> k, value |-> p.value]
  <1>1. Sound(tab[t]) /\ Shape(tab[t]) /\ ContainsKey(tab[t], old) /\ NameOf[k] \in Name
    BY DictAssumption DEF Rekey, Modifiable, TabInv, Sound
  <1>2. p \in Pairs(tab[t]) /\ p \in Pair
    BY <1>1, FindIs
  <1>3. new \in Pair
    BY <1>2 DEF Pair
  <1>4. Sound(T) /\ Shape(T) /\ T.numOfElements = tab[t].numOfElements
    BY <1>1, <1>2, UnlinkIs, LinkSize
  <1>5. CASE ContainsKey(T, NameOf[k])
    <2>1. q \in Pair
      BY <1>1, <1>4, <1>5, FindIs
    <2>2. tab'[t] = Link(Unlink(T, q), new)
      BY <1>5, StoredSize DEF Rekey
    <2>. HIDE DEF T, q, new
    <2>. QED
      BY <1>3, <1>4, <2>1, <2>2, LinkSize
  <1>6. CASE ~ContainsKey(T, NameOf[k])
    <2>1. tab'[t] = Link(T, new)
      BY <1>6, StoredSize DEF Rekey
    <2>. HIDE DEF T, new
    <2>. QED
      BY <1>3, <1>4, <2>1, LinkSize
  <1>. QED
    BY <1>5, <1>6

LEMMA ForceValueSize ==
  ASSUME TabInv, NEW t \in Table, NEW n \in Name, NEW v \in ValPtr, ForceValue(t, n, v)
  PROVE  /\ tab'[t].numOfElements = tab[t].numOfElements
         /\ tab'[t].numOfBuckets = tab[t].numOfBuckets
  <1>. DEFINE T == tab[t]
              p == Find(T, n)
              new == [p EXCEPT !.value = v]
  <1>1. Sound(T) /\ Shape(T) /\ ContainsKey(T, n)
    BY DEF ForceValue, TabInv, Sound
  <1>2. p \in Pair /\ new \in Pair
    BY <1>1, FindIs DEF Pair
  <1>3. tab'[t] = Link(Unlink(T, p), new)
    BY DEF ForceValue, TabInv
  <1>4. Shape(Unlink(T, p)) /\ Unlink(T, p).numOfElements = T.numOfElements /\ Unlink(T, p).numOfBuckets = T.numOfBuckets
    BY <1>1, <1>2, LinkSize
  <1>. HIDE DEF p, new
  <1>. QED
    BY <1>2, <1>3, <1>4, LinkSize, SMTT(20)

LEMMA RemoveSize ==
  ASSUME TabInv, NEW t \in Table, NEW n \in Name, Remove(t, n)
  PROVE  tab'[t].numOfElements = tab[t].numOfElements - 1
  <1>. DEFINE p == Find(tab[t], n)
              U == Unlink(tab[t], p)
              T == Resized(U, -1)
  <1>1. Sound(tab[t]) /\ Shape(tab[t]) /\ ContainsKey(tab[t], n)
    BY DEF Remove, Modifiable, TabInv, Sound
  <1>2. p \in Pair
    BY <1>1, FindIs
  <1>3. Shape(U) /\ U.numOfElements = tab[t].numOfElements
    BY <1>1, <1>2, LinkSize
  <1>4. Shape(T) /\ T.numOfElements = tab[t].numOfElements - 1
    <2>1. Shape(T) /\ T.numOfElements = U.numOfElements + (-1)
      BY <1>3, ResizedSize
    <2>. QED
      BY <1>1, <1>3, <2>1 DEF Shape
  <1>5. PICK R \in IF Sparse(T) THEN Rehash(T, 0) ELSE {T} : Store(t, R)
    BY DEF Remove
  <1>. HIDE DEF T
  <1>6. R.numOfElements = T.numOfElements
    BY <1>4, <1>5, RehashSize
  <1>. QED
    BY <1>4, <1>5, <1>6, StoredSize

LEMMA RemoveAllSize ==
  ASSUME TabInv, NEW t \in Table, RemoveAll(t)
  PROVE  tab'[t].numOfElements = 0
  <1>. DEFINE E == EmptyTable(tab[t].numOfBuckets)
  <1>1. Shape(E) /\ E.numOfElements = 0
    <2>1. tab[t].numOfBuckets \in Nat \ {0}
      BY DEF RemoveAll, Modifiable, TabInv, Sound, Shape
    <2>2. Sound(E)
      BY <2>1, EmptyIs
    <2>. QED
      BY <2>2 DEF Sound, EmptyTable
  <1>2. PICK R \in Rehash(E, 5) : Store(t, R)
    BY DEF RemoveAll
  <1>. HIDE DEF E
  <1>. QED
    BY <1>1, <1>2, RehashSize, StoredSize

LEMMA CreateSize ==
  ASSUME TabInv, NEW t \in Table, NEW n \in InitialBuckets, CreateTable(t, n)
  PROVE  tab'[t].numOfElements = 0
  BY DEF CreateTable, TabInv, EmptyTable

LEMMA CopySize ==
  ASSUME TabInv, NEW t \in Table, NEW u \in Table, Copy(t, u)
  PROVE  tab'[u].numOfElements = tab[t].numOfElements
  <1>1. Shape(tab[t])
    BY DEF Copy, TabInv, Sound
  <1>2. \E A : tab'[u] = [tab[t] EXCEPT !.bucketArray = A]
    BY ZenonT(20) DEF Copy, TabInv
  <1>. QED
    BY <1>1, <1>2 DEF Shape

-----------------------------------------------------------------------------
(* The number of pairs.                                                    *)

LEMMA CardMore ==
  ASSUME NEW S, IsFiniteSet(S), NEW x, x \notin S, NEW T, T = S \cup {x}
  PROVE  IsFiniteSet(T) /\ Cardinality(T) = Cardinality(S) + 1
  BY FS_AddElement

LEMMA CardLess ==
  ASSUME NEW S, IsFiniteSet(S), NEW x \in S, NEW T, T = S \ {x}
  PROVE  IsFiniteSet(T) /\ Cardinality(T) = Cardinality(S) - 1
  BY FS_RemoveElement

\* A pair takes the place of another.
LEMMA CardSwap ==
  ASSUME NEW S, IsFiniteSet(S), NEW p \in S, NEW x, x \notin S \ {p}, NEW T, T = (S \ {p}) \cup {x}
  PROVE  IsFiniteSet(T) /\ Cardinality(T) = Cardinality(S)
  <1>. DEFINE R == S \ {p}
  <1>1. IsFiniteSet(R) /\ Cardinality(R) = Cardinality(S) - 1
    BY CardLess
  <1>. HIDE DEF R
  <1>2. IsFiniteSet(T) /\ Cardinality(T) = Cardinality(R) + 1
    BY <1>1, CardMore DEF R
  <1>3. Cardinality(S) \in Nat
    BY FS_CardinalityType
  <1>. QED
    BY <1>1, <1>2, <1>3

LEMMA CardImage ==
  ASSUME NEW S, IsFiniteSet(S), NEW f, \A p, q \in S : f[p] = f[q] => p = q
  PROVE  IsFiniteSet({f[p] : p \in S}) /\ Cardinality({f[p] : p \in S}) = Cardinality(S)
  <1>. DEFINE T == {f[p] : p \in S}
              g == [p \in S |-> f[p]]
  <1>1. g \in Bijection(S, T)
    BY DEF Bijection, Injection, Surjection, IsInjective
  <1>2. ExistsBijection(S, T)
    BY <1>1 DEF ExistsBijection
  <1>. QED
    BY <1>2, FS_Bijection

CountInv ==
  /\ merges \in [Table -> 0..MaxMerges]
  /\ \A t \in Table : IsFiniteSet(Pairs(tab[t]))
  /\ SizeCounted

LEMMA CountOf ==
  ASSUME CountInv, NEW t \in Table, tab[t] # NoTable
  PROVE  /\ tab[t].numOfElements = Cardinality(Pairs(tab[t])) + merges[t]
         /\ Cardinality(Pairs(tab[t])) \in Nat /\ IsFiniteSet(Pairs(tab[t])) /\ merges[t] \in Nat
  <1>1. merges[t] \in Nat /\ IsFiniteSet(Pairs(tab[t]))
    BY DictAssumption DEF CountInv
  <1>. QED
    BY <1>1, FS_CardinalityType DEF CountInv, SizeCounted, Live

\* A step on one table that leaves the count right.
LEMMA CountBecomes ==
  ASSUME TabInv, CountInv, NEW t \in Table, NEW S, Becomes(t, S), IsFiniteSet(S),
         tab'[t].numOfElements = Cardinality(S) + merges'[t],
         NEW m \in 0..MaxMerges, merges' = [merges EXCEPT ![t] = m]
  PROVE  CountInv'
  <1>1. \A u \in Table : u # t => tab'[u] = tab[u] /\ merges'[u] = merges[u]
    BY BecomesKeeps
  <1>2. Pairs(tab'[t]) = S
    BY DEF Becomes
  <1>3. \A u \in Table : IsFiniteSet(Pairs(tab'[u]))
    BY <1>1, <1>2 DEF CountInv
  <1>4. SizeCounted'
    BY <1>1, <1>2 DEF CountInv, SizeCounted, Live
  <1>. QED
    BY <1>3, <1>4 DEF CountInv

\* The same when the operation does not look at merges.
LEMMA CountBecomesSame ==
  ASSUME TabInv, CountInv, NEW t \in Table, NEW S, Becomes(t, S), IsFiniteSet(S),
         tab'[t].numOfElements = Cardinality(S) + merges[t], UNCHANGED merges
  PROVE  CountInv'
  <1>1. merges[t] \in 0..MaxMerges /\ merges' = [merges EXCEPT ![t] = merges[t]]
    BY DEF CountInv
  <1>. QED
    BY <1>1, CountBecomes

\* A pair that takes the place of p under p's name is not in the table twice.
LEMMA SwapInTable ==
  ASSUME NEW T, Sound(T), IsFiniteSet(Pairs(T)), NEW p \in Pairs(T), NEW x, NameOf[x.key] = NameOf[p.key],
         NEW S, S = (Pairs(T) \ {p}) \cup {x}
  PROVE  IsFiniteSet(S) /\ Cardinality(S) = Cardinality(Pairs(T))
  <1>1. x \notin Pairs(T) \ {p}
    BY DEF Sound, Hashed
  <1>. QED
    BY <1>1, CardSwap

LEMMA CountPutReplace ==
  ASSUME TabInv, CountInv, NEW t \in Table, NEW k \in KeyPtr, NEW v \in ValPtr, PutReplace(t, k, v)
  PROVE  CountInv'
  <1>. DEFINE P == Pairs(tab[t])
              new == [key |-> k, value |-> v]
  <1>1. PICK p \in P : NameOf[p.key] = NameOf[k] /\ Becomes(t, (P \ {p}) \cup {new})
    BY PutReplaceIs
  <1>. DEFINE S == (P \ {p}) \cup {new}
  <1>2. tab[t] # NoTable /\ Sound(tab[t]) /\ UNCHANGED merges
    BY DEF PutReplace, Modifiable, TabInv
  <1>3. new.key = k /\ IsFiniteSet(P)
    BY DEF CountInv
  <1>4. IsFiniteSet(S) /\ Cardinality(S) = Cardinality(P)
    <2>. HIDE DEF new
    <2>. QED
      BY <1>1, <1>2, <1>3, SwapInTable
  <1>. HIDE DEF S
  <1>5. tab'[t].numOfElements = Cardinality(S) + merges[t]
    BY <1>2, <1>4, CountOf, PutReplaceSize
  <1>. QED
    BY <1>1, <1>2, <1>4, <1>5, CountBecomesSame DEF S

LEMMA CountPutNew ==
  ASSUME TabInv, CountInv, NEW t \in Table, NEW k \in KeyPtr, NEW v \in ValPtr, PutNew(t, k, v)
  PROVE  CountInv'
  <1>. DEFINE P == Pairs(tab[t])
              new == [key |-> k, value |-> v]
              S == P \cup {new}
  <1>1. tab[t] # NoTable /\ Becomes(t, S) /\ \A q \in P : NameOf[q.key] # NameOf[k]
    BY PutNewIs
  <1>2. new \notin P /\ IsFiniteSet(P) /\ UNCHANGED merges
    <2>1. new.key = k
      OBVIOUS
    <2>. HIDE DEF new
    <2>. QED
      BY <1>1, <2>1 DEF CountInv, PutNew
  <1>3. IsFiniteSet(S) /\ Cardinality(S) = Cardinality(P) + 1
    BY <1>2, CardMore
  <1>. HIDE DEF S
  <1>4. tab'[t].numOfElements = Cardinality(S) + merges[t]
    BY <1>1, <1>3, CountOf, PutNewSize
  <1>. QED
    BY <1>1, <1>2, <1>3, <1>4, CountBecomesSame

\* The one operation that miscounts, as often as merges says.
LEMMA CountRekey ==
  ASSUME TabInv, CountInv, NEW t \in Table, NEW old \in Name, NEW k \in KeyPtr, Rekey(t, old, k)
  PROVE  CountInv'
  <1>. DEFINE P == Pairs(tab[t])
  <1>1. PICK p \in P : NameOf[p.key] = old /\ (RekeyMerges(t, k, p) \/ RekeyMoves(t, k, p))
    BY RekeyIs
  <1>. DEFINE new == [key |-> k, value |-> p.value]
  <1>2. tab[t] # NoTable /\ Sound(tab[t]) /\ IsFiniteSet(P) /\ new.key = k
    BY DEF Rekey, Modifiable, TabInv, CountInv
  <1>3. /\ tab'[t].numOfElements = Cardinality(P) + merges[t]
        /\ Cardinality(P) \in Nat /\ merges[t] \in Nat /\ merges[t] \in 0..MaxMerges
    BY <1>2, CountOf, RekeySize DEF CountInv
  <1>. HIDE DEF new
  <1>4. CASE RekeyMerges(t, k, p)
    <2>1. PICK q \in P \ {p} : /\ NameOf[q.key] = NameOf[k]
                               /\ Becomes(t, (P \ {p, q}) \cup {new})
                               /\ merges[t] < MaxMerges /\ merges' = [merges EXCEPT ![t] = merges[t] + 1]
      BY <1>4 DEF RekeyMerges, new
    <2>. DEFINE R == P \ {p}
                S == (P \ {p, q}) \cup {new}
    <2>2. IsFiniteSet(R) /\ Cardinality(R) = Cardinality(P) - 1
      BY <1>2, CardLess
    <2>3. \A r \in R : NameOf[r.key] = NameOf[k] => r = q
      BY <1>2, <2>1 DEF Sound, Hashed
    <2>4. S = (R \ {q}) \cup {new} /\ new \notin R \ {q} /\ q \in R
      BY <1>2, <2>1, <2>3
    <2>. HIDE DEF R, S
    <2>5. IsFiniteSet(S) /\ Cardinality(S) = Cardinality(R)
      BY <2>2, <2>4, CardSwap
    <2>6. merges'[t] = merges[t] + 1 /\ merges[t] + 1 \in 0..MaxMerges
      BY <1>3, <2>1, DictAssumption DEF CountInv
    <2>7. tab'[t].numOfElements = Cardinality(S) + merges'[t]
      BY <1>3, <2>2, <2>5, <2>6
    <2>. QED
      BY <2>1, <2>5, <2>6, <2>7, CountBecomes DEF S
  <1>5. CASE RekeyMoves(t, k, p)
    <2>. DEFINE S == (P \ {p}) \cup {new}
    <2>1. /\ \A q \in P \ {p} : NameOf[q.key] # NameOf[k]
          /\ Becomes(t, S) /\ UNCHANGED merges
      BY <1>5 DEF RekeyMoves, new
    <2>2. new \notin P \ {p}
      BY <1>2, <2>1
    <2>3. IsFiniteSet(S) /\ Cardinality(S) = Cardinality(P)
      BY <1>2, <2>2, CardSwap
    <2>. HIDE DEF S
    <2>. QED
      BY <1>3, <2>1, <2>3, CountBecomesSame
  <1>. QED
    BY <1>1, <1>4, <1>5

LEMMA CountForceValue ==
  ASSUME TabInv, CountInv, NEW t \in Table, NEW n \in Name, NEW v \in ValPtr, ForceValue(t, n, v)
  PROVE  CountInv'
  <1>. DEFINE P == Pairs(tab[t])
  <1>1. PICK p \in P : Becomes(t, (P \ {p}) \cup {[key |-> p.key, value |-> v]})
    BY ForceValueIs
  <1>. DEFINE new == [key |-> p.key, value |-> v]
              S == (P \ {p}) \cup {new}
  <1>2. tab[t] # NoTable /\ Sound(tab[t]) /\ UNCHANGED merges
    BY DEF ForceValue, TabInv
  <1>3. NameOf[new.key] = NameOf[p.key] /\ IsFiniteSet(P)
    BY DEF CountInv
  <1>4. IsFiniteSet(S) /\ Cardinality(S) = Cardinality(P)
    BY <1>1, <1>2, <1>3, SwapInTable
  <1>. HIDE DEF S
  <1>5. tab'[t].numOfElements = Cardinality(S) + merges[t]
    BY <1>2, <1>4, CountOf, ForceValueSize
  <1>. QED
    BY <1>1, <1>2, <1>4, <1>5, CountBecomesSame DEF S

LEMMA CountRemove ==
  ASSUME TabInv, CountInv, NEW t \in Table, NEW n \in Name, Remove(t, n)
  PROVE  CountInv'
  <1>. DEFINE P == Pairs(tab[t])
  <1>1. PICK p \in P : Becomes(t, P \ {p})
    BY RemoveIs
  <1>. DEFINE S == P \ {p}
  <1>2. tab[t] # NoTable /\ UNCHANGED merges /\ IsFiniteSet(P)
    BY DEF Remove, Modifiable, CountInv
  <1>3. IsFiniteSet(S) /\ Cardinality(S) = Cardinality(P) - 1
    BY <1>2, CardLess
  <1>. HIDE DEF S
  <1>4. tab'[t].numOfElements = Cardinality(S) + merges[t]
    BY <1>2, <1>3, CountOf, RemoveSize
  <1>. QED
    BY <1>1, <1>2, <1>3, <1>4, CountBecomesSame DEF S

LEMMA CountEmptied ==
  ASSUME TabInv, CountInv, NEW t \in Table, Becomes(t, {}), tab'[t].numOfElements = 0,
         merges' = [merges EXCEPT ![t] = 0]
  PROVE  CountInv'
  <1>1. IsFiniteSet({}) /\ Cardinality({}) = 0 /\ 0 \in 0..MaxMerges /\ merges'[t] = 0
    BY FS_EmptySet, DictAssumption DEF CountInv
  <1>2. tab'[t].numOfElements = Cardinality({}) + merges'[t]
    BY <1>1
  <1>. QED
    BY <1>1, <1>2, CountBecomes

LEMMA CountDestroy ==
  ASSUME TabInv, CountInv, NEW t \in Table, Destroy(t)
  PROVE  CountInv'
  <1>1. tab' = [tab EXCEPT ![t] = NoTable] /\ merges' = [merges EXCEPT ![t] = 0]
    BY DestroyIs DEF Destroy
  <1>2. merges' \in [Table -> 0..MaxMerges]
    BY <1>1, DictAssumption DEF CountInv
  <1>3. \A u \in Table : IF u = t THEN tab'[u] = NoTable ELSE tab'[u] = tab[u] /\ merges'[u] = merges[u]
    BY <1>1 DEF TabInv, CountInv
  <1>4. IsFiniteSet(Pairs(NoTable))
    BY NoTableIs, FS_EmptySet
  <1>5. SizeCounted'
    BY <1>3 DEF CountInv, SizeCounted, Live
  <1>6. \A u \in Table : IsFiniteSet(Pairs(tab'[u]))
    BY <1>3, <1>4 DEF CountInv
  <1>. QED
    BY <1>2, <1>5, <1>6 DEF CountInv

LEMMA CountCopy ==
  ASSUME TabInv, CountInv, NEW t \in Table, NEW u \in Table, Copy(t, u)
  PROVE  CountInv'
  <1>. DEFINE P == Pairs(tab[t])
  <1>1. PICK copy : /\ Copies(copy, P, heap)
                    /\ Becomes(u, {copy[p] : p \in P})
                    /\ heap' = heap \cup Blocks({copy[p] : p \in P})
    BY CopyIs
  <1>. DEFINE S == {copy[p] : p \in P}
  <1>2. tab[t] # NoTable /\ merges' = [merges EXCEPT ![u] = merges[t]] /\ IsFiniteSet(P)
    BY DEF Copy, CountInv
  <1>3. \A p, q \in P : copy[p] = copy[q] => p = q
    BY <1>1 DEF Copies
  <1>4. IsFiniteSet(S) /\ Cardinality(S) = Cardinality(P)
    BY <1>2, <1>3, CardImage
  <1>. HIDE DEF S
  <1>5. merges[t] \in 0..MaxMerges /\ merges'[u] = merges[t]
    BY <1>2 DEF CountInv
  <1>6. tab'[u].numOfElements = Cardinality(S) + merges'[u]
    BY <1>2, <1>4, <1>5, CountOf, CopySize
  <1>. QED
    BY <1>1, <1>2, <1>4, <1>5, <1>6, CountBecomes DEF S

LEMMA CountInit == Init => CountInv
  <1>. SUFFICES ASSUME Init  PROVE CountInv
    OBVIOUS
  <1>1. \A t \in Table : tab[t] = NoTable
    BY DEF Init
  <1>2. IsFiniteSet(Pairs(NoTable))
    BY NoTableIs, FS_EmptySet
  <1>3. merges \in [Table -> 0..MaxMerges]
    BY DictAssumption DEF Init
  <1>. QED
    BY <1>1, <1>2, <1>3 DEF CountInv, SizeCounted, Live

LEMMA CountStep == TabInv /\ CountInv /\ [Next]_vars => CountInv'
  <1>. SUFFICES ASSUME TabInv, CountInv, [Next]_vars  PROVE CountInv'
    OBVIOUS
  <1>1. CASE UNCHANGED <<tab, merges>>
    BY <1>1 DEF CountInv, SizeCounted, Live
  <1>2. ASSUME NEW t \in Table, NEW n \in InitialBuckets, CreateTable(t, n)  PROVE CountInv'
    BY <1>2, CreateIs, CreateSize, CountEmptied DEF CreateTable
  <1>3. ASSUME NEW t \in Table, Destroy(t) \/ RemoveAll(t)  PROVE CountInv'
    BY <1>3, CountDestroy, RemoveAllIs, RemoveAllSize, CountEmptied DEF RemoveAll
  <1>4. ASSUME NEW t \in Table, NEW u \in Table, Copy(t, u)  PROVE CountInv'
    BY <1>4, CountCopy
  <1>5. ASSUME NEW t \in Table, NEW k \in KeyPtr, NEW v \in ValPtr, PutReplace(t, k, v) \/ PutNew(t, k, v)  PROVE CountInv'
    BY <1>5, CountPutReplace, CountPutNew
  <1>6. ASSUME NEW t \in Table, NEW n \in Name, NEW k \in KeyPtr, Rekey(t, n, k)  PROVE CountInv'
    BY <1>6, CountRekey
  <1>7. ASSUME NEW t \in Table, NEW n \in Name, NEW v \in ValPtr, ForceValue(t, n, v)  PROVE CountInv'
    BY <1>7, CountForceValue
  <1>8. ASSUME NEW t \in Table, NEW n \in Name, Remove(t, n)  PROVE CountInv'
    BY <1>8, CountRemove
  <1>9. (\E t \in Table : IterInit(t)) \/ IterNext \/ (\E v \in ValPtr : FreeLoose(v)) \/ UNCHANGED vars => UNCHANGED <<tab, merges>>
    BY DEF IterInit, IterNext, FreeLoose, vars
  <1>. QED
    BY <1>1, <1>2, <1>3, <1>4, <1>5, <1>6, <1>7, <1>8, <1>9 DEF Next

-----------------------------------------------------------------------------
(* The iterator.                                                           *)

NameOfPair(p) == NameOf[p.key]

\* What an iterator on the table T remembers: it has yielded the pairs of the
\* buckets up to its own, except the rest of that one.
IteratorAt(T, it) ==
  /\ it.bucket \in -1..(T.numOfBuckets - 1)
  /\ it.rest \subseteq Pairs(T)
  /\ \A p \in it.rest : BucketOf(T, NameOfPair(p)) = it.bucket
  /\ \A p \in Pairs(T) :
       NameOfPair(p) \in it.visited <=> BucketOf(T, NameOfPair(p)) <= it.bucket /\ p \notin it.rest
  /\ \A m \in it.visited : \E p \in Pairs(T) : NameOfPair(p) = m
  /\ it.ended => it.rest = {} /\ it.bucket = T.numOfBuckets - 1

IterType ==
  [table : Table \cup {NoTable}, bucket : Int, rest : SUBSET Pair, visited : SUBSET Name,
   yielded : Nat, ended : BOOLEAN]

IterInv ==
  /\ iter \in IterType
  /\ IsFiniteSet(iter.visited) /\ iter.yielded = Cardinality(iter.visited)
  /\ IF iter.table = NoTable THEN iter.ended
     ELSE tab[iter.table] # NoTable /\ IteratorAt(tab[iter.table], iter)

\* The bucket of a pair, in a sound table.
LEMMA BucketFacts ==
  ASSUME NEW T, Sound(T)
  PROVE  /\ DOMAIN T.bucketArray = 0..(T.numOfBuckets - 1) /\ T.numOfBuckets \in Nat \ {0}
         /\ \A p \in Pairs(T) : /\ p \in Pair /\ NameOfPair(p) \in Name
                                /\ BucketOf(T, NameOfPair(p)) \in 0..(T.numOfBuckets - 1)
                                /\ p \in T.bucketArray[BucketOf(T, NameOfPair(p))]
         /\ \A j \in 0..(T.numOfBuckets - 1) : \A p \in T.bucketArray[j] :
              p \in Pairs(T) /\ BucketOf(T, NameOfPair(p)) = j
         /\ \A p, q \in Pairs(T) : NameOfPair(p) = NameOfPair(q) => p = q
  <1>1. DOMAIN T.bucketArray = 0..(T.numOfBuckets - 1) /\ T.numOfBuckets \in Nat \ {0}
    BY DEF Sound, Shape
  <1>2. ASSUME NEW p \in Pairs(T)
        PROVE  /\ p \in Pair /\ NameOfPair(p) \in Name
               /\ BucketOf(T, NameOfPair(p)) \in 0..(T.numOfBuckets - 1)
               /\ p \in T.bucketArray[BucketOf(T, NameOfPair(p))]
    <2>1. p \in Pair /\ NameOfPair(p) \in Name
      BY PairsType, PairName DEF Sound, NameOfPair
    <2>2. PICK i \in DOMAIN T.bucketArray : p \in T.bucketArray[i]
      BY DEF Pairs
    <2>3. i = BucketOf(T, NameOfPair(p))
      BY <2>2 DEF Sound, Hashed, NameOfPair
    <2>. QED
      BY <1>1, <2>1, <2>2, <2>3
  <1>3. \A j \in 0..(T.numOfBuckets - 1) : \A p \in T.bucketArray[j] :
          p \in Pairs(T) /\ BucketOf(T, NameOfPair(p)) = j
    BY <1>1 DEF Sound, Hashed, Pairs, NameOfPair
  <1>4. \A p, q \in Pairs(T) : NameOfPair(p) = NameOfPair(q) => p = q
    BY DEF Sound, Hashed, NameOfPair
  <1>. QED
    BY <1>1, <1>2, <1>3, <1>4

\* A step that returns pair p of the bucket that the iterator is then in.
LEMMA YieldIs ==
  ASSUME IterInv, NEW b, NEW rest, NEW p, Yield(b, rest, p)
  PROVE  /\ iter'.table = iter.table /\ iter'.bucket = b /\ iter'.rest = rest \ {p}
         /\ iter'.visited = iter.visited \cup {NameOfPair(p)}
         /\ iter'.yielded = iter.yielded + 1 /\ iter'.ended = iter.ended
         /\ iter' = [table |-> iter.table, bucket |-> b, rest |-> rest \ {p},
                     visited |-> iter.visited \cup {NameOfPair(p)},
                     yielded |-> iter.yielded + 1, ended |-> iter.ended]
  BY DEF IterInv, IterType, Yield, NameOfPair

LEMMA IterYields ==
  ASSUME TabInv, IterInv, UNCHANGED tab, ~iter.ended, NEW b \in Int, NEW rest, NEW p \in rest,
         Yield(b, rest, p),
         \/ b = iter.bucket /\ rest = iter.rest
         \/ /\ iter.rest = {} /\ rest = tab[iter.table].bucketArray[b]
            /\ b \in 0..(tab[iter.table].numOfBuckets - 1) /\ b > iter.bucket
            /\ \A i \in 0..(b - 1) : i > iter.bucket => tab[iter.table].bucketArray[i] = {}
  PROVE  IterInv'
  <1>. DEFINE T == tab[iter.table]
  <1>1. iter.table \in Table /\ T # NoTable /\ IteratorAt(T, iter)
    BY DEF IterInv, IterType
  <1>2. Sound(T)
    BY <1>1 DEF TabInv
  <1>3. iter.table # NoTable
    BY <1>1, DictAssumption
  <1>. HIDE DEF T
  <1>4. /\ rest \subseteq Pairs(T) /\ \A q \in rest : BucketOf(T, NameOfPair(q)) = b
        /\ b \in -1..(T.numOfBuckets - 1)
    BY <1>1, <1>2, BucketFacts DEF T, IteratorAt
  <1>5. p \in Pairs(T) /\ p \in Pair /\ NameOfPair(p) \in Name
    BY <1>2, <1>4, BucketFacts
  <1>6. NameOfPair(p) \notin iter.visited
    BY <1>1, <1>2, <1>4, <1>5, BucketFacts DEF T, IteratorAt
  <1>7. ASSUME NEW q \in Pairs(T)
        PROVE  NameOfPair(q) \in iter.visited \cup {NameOfPair(p)}
               <=> BucketOf(T, NameOfPair(q)) <= b /\ q \notin rest \ {p}
    <2>. DEFINE h == BucketOf(T, NameOfPair(q))
    <2>1. /\ h \in 0..(T.numOfBuckets - 1) /\ q \in T.bucketArray[h]
          /\ (NameOfPair(q) = NameOfPair(p) <=> q = p)
          /\ (NameOfPair(q) \in iter.visited <=> h <= iter.bucket /\ q \notin iter.rest)
          /\ iter.bucket \in -1..(T.numOfBuckets - 1)
      BY <1>1, <1>2, <1>5, BucketFacts DEF IteratorAt
    <2>2. q \in rest => h = b
      BY <1>4
    <2>3. BucketOf(T, NameOfPair(p)) = b
      BY <1>4
    <2>. HIDE DEF h
    <2>4. CASE q = p
      BY <2>3, <2>4 DEF h
    <2>5. CASE q # p /\ b = iter.bucket /\ rest = iter.rest
      BY <2>1, <2>5 DEF h
    <2>6. CASE /\ q # p /\ iter.rest = {} /\ rest = T.bucketArray[b] /\ b > iter.bucket
               /\ \A i \in 0..(b - 1) : i > iter.bucket => T.bucketArray[i] = {}
      <3>1. h <= b /\ h > iter.bucket => h = b
        BY <2>1, <2>6
      <3>2. h = b => q \in rest
        BY <2>1, <2>6
      <3>3. NameOfPair(q) \in iter.visited <=> h <= iter.bucket
        BY <2>1, <2>6
      <3>4. h <= b /\ q \notin rest <=> h <= iter.bucket
        BY <3>1, <3>2, <2>1, <2>2, <2>6
      <3>. QED
        BY <2>1, <2>6, <3>3, <3>4 DEF h
    <2>. QED
      BY <2>4, <2>5, <2>6 DEF T
  <1>8. \A m \in iter.visited \cup {NameOfPair(p)} : \E q \in Pairs(T) : NameOfPair(q) = m
    BY <1>1, <1>5 DEF IteratorAt
  <1>9. IteratorAt(T, iter')
    BY <1>4, <1>7, <1>8, YieldIs DEF IteratorAt
  <1>10. /\ IsFiniteSet(iter'.visited) /\ iter'.yielded = Cardinality(iter'.visited)
         /\ iter'.yielded \in Nat
    <2>1. IsFiniteSet(iter.visited) /\ iter.yielded = Cardinality(iter.visited) /\ iter.yielded \in Nat
      BY DEF IterInv, IterType
    <2>. QED
      BY <1>6, <2>1, CardMore, YieldIs
  <1>11. iter' \in IterType
    <2>1. rest \ {p} \in SUBSET Pair
      BY <1>2, <1>4, BucketFacts
    <2>. QED
      BY <1>5, <1>10, <2>1, YieldIs DEF IterInv, IterType
  <1>. QED
    BY <1>1, <1>3, <1>9, <1>10, <1>11, YieldIs DEF T, IterInv

LEMMA IterEnds ==
  ASSUME TabInv, IterInv, UNCHANGED tab, ~iter.ended, iter.rest = {},
         \A j \in 0..(tab[iter.table].numOfBuckets - 1) :
           j > iter.bucket => tab[iter.table].bucketArray[j] = {},
         iter' = [iter EXCEPT !.bucket = tab[iter.table].numOfBuckets - 1, !.ended = TRUE]
  PROVE  IterInv'
  <1>. DEFINE T == tab[iter.table]
  <1>1. iter.table \in Table /\ T # NoTable /\ IteratorAt(T, iter)
    BY DEF IterInv, IterType
  <1>2. Sound(T)
    BY <1>1 DEF TabInv
  <1>. HIDE DEF T
  <1>3. T.numOfBuckets - 1 \in Int /\ T.numOfBuckets - 1 \in -1..(T.numOfBuckets - 1)
    BY <1>2, BucketFacts
  <1>4. /\ iter' \in IterType /\ iter'.table = iter.table /\ iter'.bucket = T.numOfBuckets - 1
        /\ iter'.rest = {} /\ iter'.visited = iter.visited /\ iter'.yielded = iter.yielded /\ iter'.ended
    BY <1>3 DEF IterInv, IterType, T
  <1>5. \A q \in Pairs(T) : NameOfPair(q) \in iter.visited /\ BucketOf(T, NameOfPair(q)) <= T.numOfBuckets - 1
    <2>. TAKE q \in Pairs(T)
    <2>. DEFINE h == BucketOf(T, NameOfPair(q))
    <2>1. h \in 0..(T.numOfBuckets - 1) /\ q \in T.bucketArray[h] /\ T.numOfBuckets \in Nat
      BY <1>2, BucketFacts
    <2>2. iter.bucket \in Int /\ (NameOfPair(q) \in iter.visited <=> h <= iter.bucket /\ q \notin iter.rest)
      BY <1>1 DEF IteratorAt
    <2>. HIDE DEF h
    <2>3. h <= iter.bucket
      BY <2>1, <2>2 DEF T
    <2>. QED
      BY <2>1, <2>2, <2>3 DEF h
  <1>6. IteratorAt(T, iter')
    BY <1>1, <1>3, <1>4, <1>5 DEF IteratorAt
  <1>. QED
    BY <1>1, <1>4, <1>6 DEF IterInv, T

LEMMA IterNextKeeps ==
  ASSUME TabInv, IterInv, IterNext
  PROVE  IterInv'
  <1>. DEFINE T == tab[iter.table]
              later == {j \in 0..(T.numOfBuckets - 1) : j > iter.bucket /\ T.bucketArray[j] # {}}
  <1>1. ~iter.ended /\ UNCHANGED tab
    BY DEF IterNext
  <1>2. iter.bucket \in Int
    BY DEF IterInv, IterType
  <1>3. CASE \E p \in iter.rest : Yield(iter.bucket, iter.rest, p)
    BY <1>1, <1>2, <1>3, IterYields
  <1>4. CASE /\ iter.rest = {} /\ later # {}
             /\ \E j \in later : /\ \A i \in later : j <= i
                                 /\ \E p \in T.bucketArray[j] : Yield(j, T.bucketArray[j], p)
    <2>1. PICK j \in later : /\ \A i \in later : j <= i
                             /\ \E p \in T.bucketArray[j] : Yield(j, T.bucketArray[j], p)
      BY <1>4
    <2>2. PICK p \in T.bucketArray[j] : Yield(j, T.bucketArray[j], p)
      BY <2>1
    <2>3. T.numOfBuckets \in Nat
      BY <1>1, BucketFacts DEF TabInv, IterInv, IterType
    <2>4. j \in 0..(T.numOfBuckets - 1) /\ j > iter.bucket /\ j \in Int
      BY <2>3
    <2>5. \A i \in 0..(j - 1) : i > iter.bucket => T.bucketArray[i] = {}
      <3>. SUFFICES ASSUME NEW i \in 0..(j - 1), i > iter.bucket, T.bucketArray[i] # {}  PROVE FALSE
        OBVIOUS
      <3>1. i \in later
        BY <2>3, <2>4
      <3>. QED
        BY <2>1, <2>4, <3>1
    <2>. QED
      BY <1>1, <1>4, <2>2, <2>4, <2>5, IterYields
  <1>5. CASE /\ iter.rest = {} /\ later = {}
             /\ iter' = [iter EXCEPT !.bucket = T.numOfBuckets - 1, !.ended = TRUE]
    BY <1>1, <1>5, IterEnds
  <1>. QED
    BY <1>3, <1>4, <1>5 DEF IterNext

\* Without an iterator there is nothing to say.
LEMMA NoIterIs ==
  ASSUME iter' = NoIter
  PROVE  IterInv'
  <1>1. /\ iter' \in IterType /\ iter'.table = NoTable /\ iter'.ended
        /\ iter'.visited = {} /\ iter'.yielded = 0
    BY DEF NoIter, IterType
  <1>. QED
    BY <1>1, FS_EmptySet DEF IterInv

\* A step on other tables than the iterator's.
LEMMA IterElsewhere ==
  ASSUME IterInv, UNCHANGED iter, iter.table # NoTable => tab'[iter.table] = tab[iter.table]
  PROVE  IterInv'
  BY DEF IterInv, IteratorAt

LEMMA IterStored ==
  ASSUME TabInv, IterInv, NEW t \in Table, NEW R, Store(t, R)
  PROVE  IterInv'
  <1>1. CASE iter.table = t
    BY <1>1, NoIterIs DEF Store
  <1>2. CASE iter.table # t
    <2>1. iter.table # NoTable => iter.table \in Table
      BY DEF IterInv, IterType
    <2>2. UNCHANGED iter /\ (iter.table # NoTable => tab'[iter.table] = tab[iter.table])
      BY <1>2, <2>1 DEF Store, TabInv
    <2>. QED
      BY <2>2, IterElsewhere
  <1>. QED
    BY <1>1, <1>2

\* A table that there was not cannot be the iterator's.
LEMMA IterCreated ==
  ASSUME TabInv, IterInv, NEW t \in Table, tab[t] = NoTable, NEW R, tab' = [tab EXCEPT ![t] = R],
         UNCHANGED iter
  PROVE  IterInv'
  <1>1. iter.table # NoTable => iter.table \in Table /\ iter.table # t
    BY DEF IterInv, IterType
  <1>2. iter.table # NoTable => tab'[iter.table] = tab[iter.table]
    BY <1>1 DEF TabInv
  <1>. QED
    BY <1>2, IterElsewhere

LEMMA IterInitKeeps ==
  ASSUME TabInv, NEW t \in Table, IterInit(t)
  PROVE  IterInv'
  <1>. DEFINE T == tab[t]
  <1>1. T # NoTable /\ Sound(T) /\ tab' = tab /\ t # NoTable
    BY DictAssumption DEF IterInit, TabInv
  <1>2. /\ iter' \in IterType /\ iter'.table = t /\ iter'.bucket = -1 /\ iter'.rest = {}
        /\ iter'.visited = {} /\ iter'.yielded = 0 /\ ~iter'.ended
    <2>1. iter' = [table |-> t, bucket |-> -1, rest |-> {}, visited |-> {}, yielded |-> 0, ended |-> FALSE]
      BY DEF IterInit, NoIter
    <2>. QED
      BY <2>1 DEF IterType
  <1>. HIDE DEF T
  <1>3. -1 \in -1..(T.numOfBuckets - 1)
    BY <1>1, BucketFacts
  <1>4. \A p \in Pairs(T) : ~(BucketOf(T, NameOfPair(p)) <= -1)
    BY <1>1, BucketFacts
  <1>5. IteratorAt(T, iter')
    BY <1>2, <1>3, <1>4 DEF IteratorAt
  <1>. QED
    BY <1>1, <1>2, <1>5, FS_EmptySet DEF IterInv, T

\* The one change of a table under an iterator: a pair gets another value, in
\* the table and in what the iterator has before it.
LEMMA IterForceValue ==
  ASSUME TabInv, IterInv, NEW t \in Table, NEW n \in Name, NEW v \in ValPtr, ForceValue(t, n, v)
  PROVE  IterInv'
  <1>. DEFINE T == tab[t]
              P == Pairs(T)
  <1>1. PICK p \in P : p = Find(T, n) /\ Becomes(t, (P \ {p}) \cup {[key |-> p.key, value |-> v]})
    BY ForceValueIs
  <1>. DEFINE R == tab'[t]
              new == [key |-> p.key, value |-> v]
  <1>2. T # NoTable /\ Sound(T) /\ Sound(R) /\ Pairs(R) = (P \ {p}) \cup {new} /\ R # NoTable
    BY <1>1, NoTableIs DEF ForceValue, TabInv, Becomes
  <1>3. \A m \in Name : BucketOf(R, m) = BucketOf(T, m)
    BY ForceValueSize DEF BucketOf
  <1>4. R.numOfBuckets = T.numOfBuckets
    BY ForceValueSize
  <1>5. p \in Pair /\ new \in Pair /\ NameOfPair(new) = NameOfPair(p) /\ [p EXCEPT !.value = v] = new
    BY <1>2, BucketFacts DEF NameOfPair, Pair
  <1>6. CASE iter.table # t
    <2>1. iter.table # NoTable => iter.table \in Table
      BY DEF IterInv, IterType
    <2>2. UNCHANGED iter /\ (iter.table # NoTable => tab'[iter.table] = tab[iter.table])
      BY <1>6, <2>1 DEF ForceValue, TabInv
    <2>. QED
      BY <2>2, IterElsewhere
  <1>7. CASE iter.table = t
    <2>. DEFINE rest == IF p \in iter.rest THEN (iter.rest \ {p}) \cup {new} ELSE iter.rest
    <2>1. IteratorAt(T, iter) /\ t # NoTable
      BY <1>7, DictAssumption DEF IterInv
    <2>2. /\ iter'.table = t /\ iter'.bucket = iter.bucket /\ iter'.rest = rest
          /\ iter'.visited = iter.visited /\ iter'.yielded = iter.yielded /\ iter'.ended = iter.ended
          /\ iter' \in IterType
      BY <1>1, <1>5, <1>7 DEF ForceValue, IterInv, IterType
    <2>. HIDE DEF T, R, new
    <2>3. P \subseteq Pair /\ \A q \in P : NameOfPair(q) \in Name
      BY <1>2, BucketFacts
    <2>4. \A q \in P : NameOfPair(q) = NameOfPair(new) => q = p
      BY <1>2, <1>5, BucketFacts
    <2>5. new \in P => new = p
      BY <2>4
    <2>6. iter.rest \subseteq P
      BY <2>1 DEF IteratorAt
    <2>7. rest \subseteq Pairs(R)
      BY <1>2, <2>6
    <2>8. \A q \in P \ {p} : q \in rest <=> q \in iter.rest
      BY <2>5, <2>6
    <2>9. new \in rest <=> p \in iter.rest
      BY <2>5, <2>6
    <2>. HIDE DEF rest
    <2>10. \A q \in Pairs(R) :
             NameOfPair(q) \in iter.visited <=> BucketOf(R, NameOfPair(q)) <= iter.bucket /\ q \notin rest
      <3>1. \A q \in P : NameOfPair(q) \in iter.visited <=> BucketOf(T, NameOfPair(q)) <= iter.bucket /\ q \notin iter.rest
        BY <2>1 DEF IteratorAt
      <3>2. ASSUME NEW q \in P \ {p}
            PROVE  NameOfPair(q) \in iter.visited <=> BucketOf(R, NameOfPair(q)) <= iter.bucket /\ q \notin rest
        BY <1>3, <2>3, <2>8, <3>1
      <3>3. NameOfPair(new) \in iter.visited <=> BucketOf(R, NameOfPair(new)) <= iter.bucket /\ new \notin rest
        BY <1>3, <1>5, <2>3, <2>9, <3>1
      <3>. QED
        BY <1>2, <3>2, <3>3
    <2>11. \A q \in rest : BucketOf(R, NameOfPair(q)) = iter.bucket
      <3>1. \A q \in iter.rest : BucketOf(R, NameOfPair(q)) = iter.bucket
        BY <1>3, <2>1, <2>3, <2>6 DEF IteratorAt
      <3>. QED
        BY <1>5, <3>1 DEF rest
    <2>12. \A m \in iter.visited : \E q \in Pairs(R) : NameOfPair(q) = m
      BY <1>2, <1>5, <2>1 DEF IteratorAt
    <2>13. iter.ended => rest = {}
      BY <2>1 DEF IteratorAt, rest
    <2>14. IteratorAt(R, iter')
      BY <1>4, <2>1, <2>2, <2>7, <2>10, <2>11, <2>12, <2>13 DEF IteratorAt
    <2>. QED
      BY <1>2, <2>1, <2>2, <2>14 DEF IterInv, R
  <1>. QED
    BY <1>6, <1>7

LEMMA IterStart == Init => IterInv
  <1>1. NoIter \in IterType /\ NoIter.table = NoTable /\ NoIter.ended /\ NoIter.visited = {} /\ NoIter.yielded = 0
    BY DEF NoIter, IterType
  <1>. QED
    BY <1>1, FS_EmptySet DEF Init, IterInv

LEMMA IterStep == TabInv /\ IterInv /\ [Next]_vars => IterInv'
  <1>. SUFFICES ASSUME TabInv, IterInv, [Next]_vars  PROVE IterInv'
    OBVIOUS
  <1>1. CASE UNCHANGED <<tab, iter>>
    BY <1>1, IterElsewhere
  <1>2. ASSUME NEW t \in Table, NEW n \in InitialBuckets, CreateTable(t, n)  PROVE IterInv'
    BY <1>2, IterCreated DEF CreateTable
  <1>3. ASSUME NEW t \in Table, Destroy(t) \/ RemoveAll(t)  PROVE IterInv'
    BY <1>3, IterStored DEF Destroy, RemoveAll
  <1>4. ASSUME NEW t \in Table, NEW u \in Table, Copy(t, u)  PROVE IterInv'
    <2>1. tab[u] = NoTable /\ UNCHANGED iter /\ \E R : tab' = [tab EXCEPT ![u] = R]
      BY <1>4 DEF Copy
    <2>. QED
      BY <2>1, IterCreated
  <1>5. ASSUME NEW t \in Table, NEW k \in KeyPtr, NEW v \in ValPtr, PutReplace(t, k, v) \/ PutNew(t, k, v)  PROVE IterInv'
    <2>1. \E R : Store(t, R)
      BY <1>5 DEF PutReplace, PutNew
    <2>. QED
      BY <2>1, IterStored
  <1>6. ASSUME NEW t \in Table, NEW n \in Name, NEW k \in KeyPtr, Rekey(t, n, k)  PROVE IterInv'
    <2>1. \E R : Store(t, R)
      BY <1>6 DEF Rekey
    <2>. QED
      BY <2>1, IterStored
  <1>7. ASSUME NEW t \in Table, NEW n \in Name, NEW v \in ValPtr, ForceValue(t, n, v)  PROVE IterInv'
    BY <1>7, IterForceValue
  <1>8. ASSUME NEW t \in Table, NEW n \in Name, Remove(t, n)  PROVE IterInv'
    <2>1. \E R : Store(t, R)
      BY <1>8 DEF Remove
    <2>. QED
      BY <2>1, IterStored
  <1>9. ASSUME NEW t \in Table, IterInit(t)  PROVE IterInv'
    BY <1>9, IterInitKeeps
  <1>10. (\E v \in ValPtr : FreeLoose(v)) \/ UNCHANGED vars => UNCHANGED <<tab, iter>>
    BY DEF FreeLoose, vars
  <1>. QED
    BY <1>1, <1>2, <1>3, <1>4, <1>5, <1>6, <1>7, <1>8, <1>9, <1>10, IterNextKeeps DEF Next

\* What Spec keeps: the shape of the tables, one owner for each block, the
\* count, and the iterator.
DictInv == TabInv /\ OwnInv /\ CountInv /\ IterInv

LEMMA DictStart == Init => DictInv
  BY TabInit, OwnInit, CountInit, IterStart DEF DictInv

LEMMA DictStep == DictInv /\ [Next]_vars => DictInv'
  BY TabStep, OwnStep, CountStep, IterStep DEF DictInv

LEMMA DictTypes == DictInv => TypeOK
  <1>. SUFFICES ASSUME DictInv  PROVE TypeOK
    OBVIOUS
  <1>. USE DEF DictInv
  <1>1. DOMAIN tab = Table
    BY DEF TabInv
  <1>2. ASSUME NEW t \in Table, tab[t] # NoTable  PROVE TableOK(tab[t])
    <2>1. Shape(tab[t]) /\ tab[t].numOfElements \in Nat
      BY <1>2, CountOf DEF TabInv, Sound
    <2>. QED
      BY <2>1 DEF Shape, TableOK
  <1>3. heap \subseteq KeyPtr \cup ValPtr /\ loose \subseteq ValPtr /\ merges \in [Table -> 0..MaxMerges]
    <2>1. \A t \in Table : Pairs(tab[t]) \subseteq Pair
      BY PairsType, NoTableIs DEF TabInv, Sound
    <2>. QED
      BY <2>1 DEF OwnInv, Own, PairsOf, Blocks, Pair, CountInv
  <1>4. /\ iter.table \in Table \cup {NoTable}
        /\ iter.bucket \in Int /\ iter.rest \subseteq Pair
        /\ iter.visited \subseteq Name /\ iter.yielded \in Nat /\ iter.ended \in BOOLEAN
    BY DEF IterInv, IterType
  <1>. QED
    BY <1>1, <1>2, <1>3, <1>4 DEF TypeOK

LEMMA DictCounts == DictInv => NothingHidden
  <1>. SUFFICES ASSUME DictInv  PROVE NothingHidden
    OBVIOUS
  <1>. USE DEF DictInv
  <1>1. GetComplete
    BY DEF TabInv, GetComplete, Live, Sound, Hashed
  <1>2. SizeCounted
    BY DEF CountInv
  <1>3. iter.yielded = Cardinality(iter.visited)
    BY DEF IterInv
  <1>4. ASSUME iter.table # NoTable, iter.ended
        PROVE  iter.visited = {NameOf[p.key] : p \in Pairs(tab[iter.table])}
    <2>. DEFINE T == tab[iter.table]
    <2>1. iter.table \in Table /\ T # NoTable /\ IteratorAt(T, iter)
      BY <1>4 DEF IterInv, IterType
    <2>2. Sound(T)
      BY <2>1 DEF TabInv
    <2>. HIDE DEF T
    <2>3. \A p \in Pairs(T) : NameOfPair(p) \in iter.visited
      <3>. TAKE p \in Pairs(T)
      <3>1. BucketOf(T, NameOfPair(p)) <= T.numOfBuckets - 1
        BY <2>2, BucketFacts
      <3>. QED
        BY <1>4, <2>1, <3>1 DEF IteratorAt
    <2>4. \A m \in iter.visited : \E p \in Pairs(T) : NameOfPair(p) = m
      BY <2>1 DEF IteratorAt
    <2>. QED
      BY <2>3, <2>4 DEF T, NameOfPair
  <1>. QED
    BY <1>1, <1>2, <1>3, <1>4 DEF NothingHidden, IterComplete

\* The types of the tables, of the blocks, of the counts and of the iterator
\* hold in every reachable state: no removal takes numOfElements below zero.
THEOREM DictTypeCorrect == Spec => []TypeOK
  BY DictStart, DictStep, DictTypes, PTL DEF Spec

\* Whatever the hash function and the thresholds, an entry is found by
\* NpyDict_Get, is returned once by NpyDict_IterNext between NpyDict_IterInit and
\* the end, across values exchanged under the iterator, and is counted in
\* numOfElements, which is ahead by one for every Rekey onto a key in use
\* (npy_dict.c, NpyDict_Rehash, NpyDict_Rekey, NpyDict_IterNext).
THEOREM EntriesNeverHidden == Spec => []NothingHidden
  BY DictStart, DictStep, DictCounts, PTL DEF Spec
=============================================================================
