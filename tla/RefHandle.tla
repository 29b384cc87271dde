------------------------------ MODULE RefHandle ------------------------------
(***************************************************************************)
(* What Npy_INCREF and Npy_DECREF promise (npy_api.h:379-389): the count   *)
(* and the handle in nob_interface change in one step.  The handle is      *)
(* strong while the count is positive and weak while it is zero, and a     *)
(* step that does not move the count to or from zero leaves it alone.      *)
(***************************************************************************)
EXTENDS Naturals

CONSTANTS Arr, Handle

VARIABLES
  count,   \* references to each array
  iface,   \* its nob_interface
  kind     \* what each slot of the handle table is

vars == <<count, iface, kind>>

Init ==
  /\ count \in [Arr -> Nat]
  /\ iface \in [Arr -> Handle]
  /\ \A x, y \in Arr : iface[x] = iface[y] => x = y
  /\ kind = [h \in Handle |->
               IF \E x \in Arr : iface[x] = h /\ count[x] > 0 THEN "strong"
               ELSE IF \E x \in Arr : iface[x] = h THEN "weak" ELSE "free"]

Switch(x, k) ==
  \E h \in Handle :
    /\ kind[h] = "free"
    /\ kind'  = [kind EXCEPT ![h] = k, ![iface[x]] = "free"]
    /\ iface' = [iface EXCEPT ![x] = h]

Incref(x) ==
  /\ count' = [count EXCEPT ![x] = @ + 1]
  /\ IF count[x] = 0 THEN Switch(x, "strong") ELSE UNCHANGED <<iface, kind>>

Decref(x) ==
  /\ count[x] > 0
  /\ count' = [count EXCEPT ![x] = @ - 1]
  /\ IF count[x] = 1 THEN Switch(x, "weak") ELSE UNCHANGED <<iface, kind>>

Next == \E x \in Arr : Incref(x) \/ Decref(x)

Spec == Init /\ [][Next]_vars

=============================================================================
