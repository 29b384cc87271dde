----------------------------- MODULE MCNpyDict ------------------------------
(* NpyDict with two tables and two names that share some buckets. *)
EXTENDS NpyDict, TLC

CONSTANTS a, b, a1, a2, b1, b2, v1, v2, w1, x, y, t, u

MCTable == {t, u}
MCName == {a, b}
MCKeyPtr == {a1, a2, b1, b2}
MCNameOf == a1 :> a @@ a2 :> a @@ b1 :> b @@ b2 :> b
MCDatum == {x, y}
MCValPtr == {v1, v2, w1}
MCDatumOf == v1 :> x @@ v2 :> x @@ w1 :> y

\* The names collide in 7 buckets and in one, but not in 5.
MCHashOf == a :> 0 @@ b :> 7

Symmetry == Permutations(MCTable) \cup Permutations({a1, a2})
              \cup Permutations({b1, b2}) \cup Permutations({v1, v2})

=============================================================================
