----------------------------- MODULE MCRefLocks -----------------------------
(* RefLocks on two or three threads and two arrays. *)
EXTENDS RefLocks, TLC

Symmetry == Permutations(Thread) \cup Permutations(Handle)

=============================================================================
