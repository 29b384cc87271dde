------------------------------- MODULE NpyMap -------------------------------
(***************************************************************************)
(* What the dictionary of libndarray promises its users (the DESCRIPTION   *)
(* blocks of npy_dict.c): each table is a map from names to values, and    *)
(* tables share nothing.                                                   *)
(***************************************************************************)
CONSTANTS Table, Name, Datum, NoMap, NoDatum

VARIABLE map   \* NoMap, or the value of every name

Empty == [n \in Name |-> NoDatum]

Init == map = [t \in Table |-> NoMap]

Live(t) == map[t] # NoMap

Create(t)    == ~Live(t) /\ map' = [map EXCEPT ![t] = Empty]
Destroy(t)   == Live(t) /\ map' = [map EXCEPT ![t] = NoMap]
RemoveAll(t) == Live(t) /\ map' = [map EXCEPT ![t] = Empty]
Copy(t, u)   == Live(t) /\ ~Live(u) /\ map' = [map EXCEPT ![u] = map[t]]

Put(t, n, d) == Live(t) /\ map' = [map EXCEPT ![t][n] = d]
Remove(t, n) == Live(t) /\ map' = [map EXCEPT ![t][n] = NoDatum]

\* "This is the same as get/remove/put".
Rekey(t, old, new) ==
  /\ Live(t)
  /\ map[t][old] # NoDatum
  /\ map' = [map EXCEPT ![t] = [[@ EXCEPT ![old] = NoDatum] EXCEPT ![new] = map[t][old]]]

Next ==
  \E t \in Table :
    \/ Create(t) \/ Destroy(t) \/ RemoveAll(t)
    \/ \E u \in Table : Copy(t, u)
    \/ \E n \in Name :
         \/ \E d \in Datum : Put(t, n, d)
         \/ Remove(t, n)
         \/ \E new \in Name : Rekey(t, n, new)

Spec == Init /\ [][Next]_map

=============================================================================
