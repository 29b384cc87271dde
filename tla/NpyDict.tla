------------------------------ MODULE NpyDict -------------------------------
(***************************************************************************)
(* The chained hash table of libndarray (npy_dict.c): fields of a          *)
(* structured dtype, user loops of a ufunc.  Keys and values are heap      *)
(* pointers the table owns: it frees a key or value when it is replaced,   *)
(* removed or destroyed with the table.  A bucket is a set of pairs: the   *)
(* order of a chain decides nothing but the order of iteration.            *)
(***************************************************************************)
EXTENDS Integers, FiniteSets

CONSTANTS
  Table,            \* table slots
  Name, Datum,      \* what a key and a value pointer point to
  KeyPtr, ValPtr,   \* the heap blocks that keys and values can occupy
  NameOf, DatumOf,  \* their contents
  HashOf,           \* hashFunction, of each name
  InitialBuckets,   \* the numOfBuckets that callers of CreateTable pass
  IdealRatio, LowerThreshold, UpperThreshold,   \* in hundredths
  NoDatum,          \* what a name without a value has
  NoMap,            \* what an absent table is as a map
  MaxMerges         \* bound: Rekey calls onto an existing key, per table

\* A NULL table: it has no buckets.
NoTable == [numOfBuckets |-> 0, numOfElements |-> 0, bucketArray |-> [i \in {} |-> {}]]

ASSUME DictAssumption ==
  /\ NameOf \in [KeyPtr -> Name]
  /\ DatumOf \in [ValPtr -> Datum]
  /\ HashOf \in [Name -> Nat]
  /\ InitialBuckets \subseteq Nat \ {0}
  /\ IdealRatio \in Nat \ {0} /\ LowerThreshold \in Nat /\ UpperThreshold \in Nat
  /\ MaxMerges \in Nat
  /\ NoDatum \notin Datum
  /\ NoTable \notin Table
  /\ NoMap \notin [Name -> Datum \cup {NoDatum}]
  /\ KeyPtr \cap ValPtr = {}

ASSUME RatioAssumption ==
  /\ LowerThreshold < IdealRatio
  /\ UpperThreshold = 0 \/ UpperThreshold > IdealRatio

VARIABLES
  tab,      \* NoTable, or the table's struct
  heap,     \* allocated key and value blocks
  loose,    \* values taken out by ForceValue, which the caller now owns
  merges,   \* history: Rekey calls that found the new key in the table
  iter      \* one NpyDict_Iter

vars == <<tab, heap, loose, merges, iter>>

Pair == [key : KeyPtr, value : ValPtr]

-----------------------------------------------------------------------------
(* The table as a value.                                                   *)

Pairs(T) == UNION {T.bucketArray[i] : i \in DOMAIN T.bucketArray}
BucketOf(T, n) == HashOf[n] % T.numOfBuckets
Matches(T, n) == {p \in T.bucketArray[BucketOf(T, n)] : NameOf[p.key] = n}
ContainsKey(T, n) == Matches(T, n) # {}
Find(T, n) == CHOOSE p \in Matches(T, n) : TRUE
Get(T, n) == IF ContainsKey(T, n) THEN DatumOf[Find(T, n).value] ELSE NoDatum

Link(T, p)   == [T EXCEPT !.bucketArray[BucketOf(T, NameOf[p.key])] = @ \cup {p}]
Unlink(T, p) == [T EXCEPT !.bucketArray[BucketOf(T, NameOf[p.key])] = @ \ {p}]

\* Mutant: only removals are counted.
ResizedDown(T, d) == [T EXCEPT !.numOfElements = IF d > 0 THEN @ ELSE @ + d]

Resized(T, d) == [T EXCEPT !.numOfElements = @ + d]

EmptyTable(n) ==
  [numOfBuckets |-> n, numOfElements |-> 0, bucketArray |-> [i \in 0..(n - 1) |-> {}]]

isProbablePrime(n) == \A i \in {j \in 3..50 : j % 2 = 1} : n = i \/ n % i # 0

\* The first odd number from q on (5 at least) that looks prime.
calculateIdealNumOfBuckets(T) ==
  LET q == (100 * T.numOfElements) \div IdealRatio
      low == IF q < 5 THEN 5 ELSE q + 1 - (q % 2)
      Fits(n) == n % 2 = 1 /\ isProbablePrime(n)
  IN  CHOOSE n \in low..(2 * low) : Fits(n) /\ \A m \in low..(n - 1) : ~Fits(m)

\* Mutant: pairs move to the new array without being hashed again.
RehashedStale(T, n) ==
  [T EXCEPT !.numOfBuckets = n,
            !.bucketArray = [i \in 0..(n - 1) |->
               UNION {T.bucketArray[j] : j \in {j \in DOMAIN T.bucketArray : j % n = i}}]]

Rehashed(T, n) ==
  [T EXCEPT !.numOfBuckets = n,
            !.bucketArray = [i \in 0..(n - 1) |->
               {p \in Pairs(T) : HashOf[NameOf[p.key]] % n = i}]]

\* The tables that NpyDict_Rehash can leave: it gives up if malloc fails.
Rehash(T, numOfBuckets) ==
  LET n == IF numOfBuckets = 0 THEN calculateIdealNumOfBuckets(T) ELSE numOfBuckets
  IN  IF n = T.numOfBuckets THEN {T} ELSE {T, Rehashed(T, n)}

Crowded(T) ==
  /\ UpperThreshold > IdealRatio
  /\ 100 * T.numOfElements > UpperThreshold * T.numOfBuckets
Sparse(T) ==
  /\ LowerThreshold > 0
  /\ 100 * T.numOfElements < LowerThreshold * T.numOfBuckets

-----------------------------------------------------------------------------
NoIter == [table |-> NoTable, bucket |-> -1, rest |-> {}, visited |-> {},
           yielded |-> 0, ended |-> TRUE]

Init ==
  /\ tab = [t \in Table |-> NoTable]
  /\ heap = {}
  /\ loose = {}
  /\ merges = [t \in Table |-> 0]
  /\ iter = NoIter

\* The caller may change the structure of t: "modifying the hash table without
\* re-initializing the iterator is a bad idea".
Modifiable(t) == tab[t] # NoTable /\ (iter.table = t => iter.ended)

\* Table t becomes T, and an iterator that ended on it is forgotten.
Store(t, T) ==
  /\ tab' = [tab EXCEPT ![t] = T]
  /\ iter' = IF iter.table = t THEN NoIter ELSE iter

CreateTable(t, n) ==
  /\ tab[t] = NoTable
  /\ tab' = [tab EXCEPT ![t] = EmptyTable(n)]
  /\ merges' = [merges EXCEPT ![t] = 0]
  /\ UNCHANGED <<heap, loose, iter>>

Blocks(S) == {p.key : p \in S} \cup {p.value : p \in S}

Destroy(t) ==
  /\ Modifiable(t)
  /\ Store(t, NoTable)
  /\ heap' = heap \ Blocks(Pairs(tab[t]))
  /\ merges' = [merges EXCEPT ![t] = 0]
  /\ UNCHANGED loose

\* Mutant: the copy shares the values of the original.
CopyShallow(t, u) ==
  /\ tab[t] # NoTable /\ tab[u] = NoTable
  /\ \E ck \in [{p.key : p \in Pairs(tab[t])} -> KeyPtr \ heap] :
       /\ \A k, l \in DOMAIN ck : NameOf[ck[k]] = NameOf[k] /\ (ck[k] = ck[l] => k = l)
       /\ tab' = [tab EXCEPT ![u] = [tab[t] EXCEPT !.bucketArray =
                    [i \in DOMAIN @ |-> {[p EXCEPT !.key = ck[p.key]] : p \in @[i]}]]]
       /\ heap' = heap \cup {ck[k] : k \in DOMAIN ck}
  /\ merges' = [merges EXCEPT ![u] = merges[t]]
  /\ UNCHANGED <<loose, iter>>

\* A deep copy: copyKey and copyValue allocate.
Copy(t, u) ==
  /\ tab[t] # NoTable /\ tab[u] = NoTable
  /\ \E copy \in [Pairs(tab[t]) -> [key : KeyPtr \ heap, value : ValPtr \ heap]] :
       /\ \A p, q \in DOMAIN copy :
            /\ NameOf[copy[p].key] = NameOf[p.key]
            /\ DatumOf[copy[p].value] = DatumOf[p.value]
            /\ copy[p].key = copy[q].key \/ copy[p].value = copy[q].value => p = q
       /\ tab' = [tab EXCEPT ![u] = [tab[t] EXCEPT !.bucketArray =
                    [i \in DOMAIN @ |-> {copy[p] : p \in @[i]}]]]
       /\ heap' = heap \cup Blocks({copy[p] : p \in DOMAIN copy})
  /\ merges' = [merges EXCEPT ![u] = merges[t]]
  /\ UNCHANGED <<loose, iter>>

\* NpyDict_Put of a key the table has: the old key and value are freed, unless
\* they are the same pointers.
PutReplace(t, k, v) ==
  LET T == tab[t]
      p == Find(T, NameOf[k])
  IN  /\ Modifiable(t)
      /\ ContainsKey(T, NameOf[k])
      /\ k = p.key \/ k \notin heap
      /\ v = p.value \/ v \notin heap
      /\ Store(t, Link(Unlink(T, p), [key |-> k, value |-> v]))
      /\ heap' = (heap \ {p.key, p.value}) \cup {k, v}
      /\ UNCHANGED <<loose, merges>>

\* NpyDict_Put of a new key.
PutNew(t, k, v) ==
  LET T == Resized(Link(tab[t], [key |-> k, value |-> v]), 1)
  IN  /\ Modifiable(t)
      /\ ~ContainsKey(tab[t], NameOf[k])
      /\ {k, v} \cap heap = {}
      /\ \E R \in IF Crowded(T) THEN Rehash(T, 0) ELSE {T} : Store(t, R)
      /\ heap' = heap \cup {k, v}
      /\ UNCHANGED <<loose, merges>>

\* Mutant: the pair is not searched for under its new key before it is linked.
RekeyBlind(t, old, k) ==
  LET p == Find(tab[t], old)
  IN  /\ Modifiable(t)
      /\ ContainsKey(tab[t], old)
      /\ k \notin heap
      /\ Store(t, Link(Unlink(tab[t], p), [p EXCEPT !.key = k]))
      /\ heap' = (heap \ {p.key}) \cup {k}
      /\ UNCHANGED <<loose, merges>>

\* NpyDict_Rekey(old, k): the pair leaves its bucket; if the new key is in the
\* table already, that pair takes the value over.  numOfElements is not touched.
Rekey(t, old, k) ==
  LET p == Find(tab[t], old)
      T == Unlink(tab[t], p)
      new == NameOf[k]
      q == Find(T, new)
  IN  /\ Modifiable(t)
      /\ ContainsKey(tab[t], old)
      /\ k \notin heap
      /\ IF ContainsKey(T, new)
           THEN /\ merges[t] < MaxMerges
                /\ Store(t, Link(Unlink(T, q), [key |-> k, value |-> p.value]))
                /\ heap' = (heap \ {p.key, q.key, q.value}) \cup {k}
                /\ merges' = [merges EXCEPT ![t] = @ + 1]
           ELSE /\ Store(t, Link(T, [key |-> k, value |-> p.value]))
                /\ heap' = (heap \ {p.key}) \cup {k}
                /\ UNCHANGED merges
      /\ UNCHANGED loose

\* NpyDict_ForceValue: the old value is not freed, the caller keeps it (the
\* sorted list of user loops, whose head the table holds).
ForceValue(t, n, v) ==
  LET p == Find(tab[t], n)
  IN  /\ tab[t] # NoTable
      /\ ContainsKey(tab[t], n)
      /\ v \notin heap
      /\ tab' = [tab EXCEPT ![t] = Link(Unlink(tab[t], p), [p EXCEPT !.value = v])]
      /\ iter' = IF iter.table = t /\ p \in iter.rest
                   THEN [iter EXCEPT !.rest = (@ \ {p}) \cup {[p EXCEPT !.value = v]}]
                   ELSE iter
      /\ heap' = heap \cup {v}
      /\ loose' = loose \cup {p.value}
      /\ UNCHANGED merges

\* The caller frees a value it took out.
FreeLoose(v) ==
  /\ v \in loose
  /\ loose' = loose \ {v}
  /\ heap' = heap \ {v}
  /\ UNCHANGED <<tab, merges, iter>>

Remove(t, n) ==
  LET p == Find(tab[t], n)
      T == Resized(Unlink(tab[t], p), -1)
  IN  /\ Modifiable(t)
      /\ ContainsKey(tab[t], n)
      /\ \E R \in IF Sparse(T) THEN Rehash(T, 0) ELSE {T} : Store(t, R)
      /\ heap' = heap \ {p.key, p.value}
      /\ UNCHANGED <<loose, merges>>

RemoveAll(t) ==
  /\ Modifiable(t)
  /\ \E R \in Rehash(EmptyTable(tab[t].numOfBuckets), 5) : Store(t, R)
  /\ heap' = heap \ Blocks(Pairs(tab[t]))
  /\ merges' = [merges EXCEPT ![t] = 0]
  /\ UNCHANGED loose

IterInit(t) ==
  /\ tab[t] # NoTable
  /\ iter' = [NoIter EXCEPT !.table = t, !.ended = FALSE]
  /\ UNCHANGED <<tab, heap, loose, merges>>

\* The iterator stands on pair p of bucket b, with rest behind it.
Yield(b, rest, p) ==
  iter' = [iter EXCEPT !.bucket = b, !.rest = rest \ {p},
                       !.visited = @ \cup {NameOf[p.key]}, !.yielded = @ + 1]

\* NpyDict_IterNext: the rest of this bucket, else the next bucket that holds a
\* pair, else the end.
IterNext ==
  LET T == tab[iter.table]
      later == {j \in 0..(T.numOfBuckets - 1) : j > iter.bucket /\ T.bucketArray[j] # {}}
  IN  /\ ~iter.ended
      /\ \/ \E p \in iter.rest : Yield(iter.bucket, iter.rest, p)
         \/ /\ iter.rest = {} /\ later # {}
            /\ \E j \in later : /\ \A i \in later : j <= i
                                /\ \E p \in T.bucketArray[j] : Yield(j, T.bucketArray[j], p)
         \/ /\ iter.rest = {} /\ later = {}
            /\ iter' = [iter EXCEPT !.bucket = T.numOfBuckets - 1, !.ended = TRUE]
      /\ UNCHANGED <<tab, heap, loose, merges>>

Next ==
  \/ \E t \in Table :
       \/ \E n \in InitialBuckets : CreateTable(t, n)
       \/ Destroy(t) \/ RemoveAll(t) \/ IterInit(t)
       \/ \E u \in Table : Copy(t, u)
       \/ \E k \in KeyPtr, v \in ValPtr : PutReplace(t, k, v) \/ PutNew(t, k, v)
       \/ \E n \in Name, k \in KeyPtr : Rekey(t, n, k)
       \/ \E n \in Name, v \in ValPtr : ForceValue(t, n, v)
       \/ \E n \in Name : Remove(t, n)
  \/ \E v \in ValPtr : FreeLoose(v)
  \/ IterNext

Spec == Init /\ [][Next]_vars

-----------------------------------------------------------------------------
(* Properties.                                                             *)

TableOK(T) ==
  /\ DOMAIN T = {"numOfBuckets", "numOfElements", "bucketArray"}
  /\ T.numOfBuckets \in Nat \ {0}
  /\ T.numOfElements \in Nat
  /\ T.bucketArray \in [0..(T.numOfBuckets - 1) -> SUBSET Pair]

TypeOK ==
  /\ DOMAIN tab = Table
  /\ \A t \in Table : tab[t] = NoTable \/ TableOK(tab[t])
  /\ heap \subseteq KeyPtr \cup ValPtr
  /\ loose \subseteq ValPtr
  /\ merges \in [Table -> 0..MaxMerges]
  /\ iter.table \in Table \cup {NoTable}
  /\ iter.bucket \in Int /\ iter.rest \subseteq Pair
  /\ iter.visited \subseteq Name /\ iter.yielded \in Nat /\ iter.ended \in BOOLEAN

Live == {t \in Table : tab[t] # NoTable}

\* A lookup looks in one bucket only: every pair must sit in the bucket of its
\* key's hash, under the modulus of the moment, and no two pairs may have the
\* same key, or one of them hides the other.
GetComplete ==
  \A t \in Live :
    /\ \A i \in DOMAIN tab[t].bucketArray, p \in Pairs(tab[t]) :
         p \in tab[t].bucketArray[i] => i = BucketOf(tab[t], NameOf[p.key])
    /\ \A p, q \in Pairs(tab[t]) : NameOf[p.key] = NameOf[q.key] => p = q

\* Every allocated key and value has exactly one owner, and nothing freed is
\* still in a table: no leak, no double free.
OwnedOnce ==
  /\ heap = loose \cup UNION {Blocks(Pairs(tab[t])) : t \in Live}
  /\ \A t, u \in Live : \A p \in Pairs(tab[t]), q \in Pairs(tab[u]) :
       p.key = q.key \/ p.value = q.value => t = u /\ p = q
  /\ \A t \in Live : \A p \in Pairs(tab[t]) : p.value \notin loose

\* numOfElements is the number of pairs, plus one for every Rekey that merged
\* two pairs: no other operation miscounts.
SizeCounted ==
  \A t \in Live : tab[t].numOfElements = Cardinality(Pairs(tab[t])) + merges[t]

\* An iteration that reached the end returned every pair, each once.
IterComplete ==
  iter.table # NoTable =>
    /\ iter.yielded = Cardinality(iter.visited)
    /\ iter.ended => iter.visited = {NameOf[p.key] : p \in Pairs(tab[iter.table])}

\* What is in a table is found by a lookup and by an iteration, and is counted:
\* the next rehash depends on the count.
NothingHidden == GetComplete /\ IterComplete /\ SizeCounted

\* Tables implement maps: what Get returns is what the last Put, Rekey or
\* ForceValue left, across collisions and rehashes.
Map == INSTANCE NpyMap WITH
  map <- [t \in Table |-> IF tab[t] = NoTable THEN NoMap
                          ELSE [n \in Name |-> Get(tab[t], n)]]
ImplementsMap == Map!Spec

\* NpyDict_Size "returns the number of key/value pairs that are present"
\* (npy_dict.c:645-646).
SizeExact ==
  \A t \in Live : tab[t].numOfElements = Cardinality(Pairs(tab[t]))

=============================================================================
