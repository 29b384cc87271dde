---------------------------- MODULE UpdateIfCopy ----------------------------
(***************************************************************************)
(* Output arrays that are not well-behaved are computed in a temporary     *)
(* copy with the UPDATEIFCOPY flag: the copy's base_arr is the output      *)
(* array, which is locked (not WRITEABLE) until the copy's contents are    *)
(* written back, by NpyArray_ForceUpdate or when the copy is deallocated.  *)
(*                                                                         *)
(* Under the managed interface every copy has a wrapper, so dropping the   *)
(* last core reference only makes it garbage (module ObjectLife): the      *)
(* deallocation, and with it the write-back, happens on the finalizer      *)
(* thread.  One user thread and the finalizer thread.                      *)
(***************************************************************************)
EXTENDS Naturals, FiniteSets

CONSTANTS
  Array,     \* arrays that own their data
  Copy,      \* addresses for UPDATEIFCOPY copies; freed ones are used again
  Value,     \* contents of an array
  Kinds,     \* the operations with an output array that the user calls
  NoArray, NoCopy

ASSUME UICAssumption ==
  /\ Kinds \subseteq {"put", "putmask", "choose", "argmax", "take"}
  /\ NoArray \notin Array /\ NoCopy \notin Copy
  /\ Value # {}

VARIABLES
  writeable,   \* NPY_WRITEABLE of each array
  wanted,      \* history: what the user last set it to
  abandoned,   \* history: arrays whose lock nobody is left to release
  content,     \* the data of each array
  cstate,      \* who keeps each copy
  cbase,       \* its base_arr
  cflag,       \* its NPY_UPDATEIFCOPY
  cval,        \* its data
  wrote,       \* history: how often it was written back
  failed,      \* history: its operation ended in an error
  op           \* the operation in progress

arrVars  == <<writeable, wanted, abandoned, content>>
copyVars == <<cstate, cbase, cflag, cval, wrote, failed>>
vars == <<arrVars, copyVars, op>>

Idle(v) == [step |-> "idle", kind |-> "none", out |-> NoArray, copy |-> NoCopy, result |-> v]
AnyValue == CHOOSE v \in Value : TRUE

TypeOK ==
  /\ writeable \in [Array -> BOOLEAN]
  /\ wanted \in [Array -> BOOLEAN]
  /\ abandoned \subseteq Array
  /\ content \in [Array -> Value]
  /\ cstate \in [Copy -> {"unused", "native", "held", "garbage", "unlocked", "leaked"}]
  /\ cbase \in [Copy -> Array \cup {NoArray}]
  /\ cflag \in [Copy -> BOOLEAN]
  /\ cval \in [Copy -> Value]
  /\ wrote \in [Copy -> Nat]
  /\ failed \in [Copy -> BOOLEAN]
  /\ op \in [step : {"idle", "check", "run", "returned"}, kind : Kinds \cup {"none"},
             out : Array \cup {NoArray}, copy : Copy \cup {NoCopy}, result : Value]

Init ==
  /\ writeable = [a \in Array |-> TRUE]
  /\ wanted = [a \in Array |-> TRUE]
  /\ abandoned = {}
  /\ content \in [Array -> Value]
  /\ cstate = [c \in Copy |-> "unused"]
  /\ cbase = [c \in Copy |-> NoArray]
  /\ cflag = [c \in Copy |-> FALSE]
  /\ cval = [c \in Copy |-> AnyValue]
  /\ wrote = [c \in Copy |-> 0]
  /\ failed = [c \in Copy |-> FALSE]
  /\ op = Idle(AnyValue)

-----------------------------------------------------------------------------
(* The user's own accesses, between operations.                            *)

\* a[...] = v
Write(a, v) ==
  /\ op.step = "idle"
  /\ writeable[a]
  /\ content' = [content EXCEPT ![a] = v]
  /\ UNCHANGED <<writeable, wanted, abandoned, copyVars, op>>

\* a.setflags(write=b): an array that owns its data may always be unlocked.
SetWriteable(a, b) ==
  /\ op.step = "idle"
  /\ writeable' = [writeable EXCEPT ![a] = b]
  /\ wanted' = [wanted EXCEPT ![a] = b]
  /\ abandoned' = abandoned \ {a}
  /\ UNCHANGED <<content, copyVars, op>>

\* Copy c of a, with the flag; a is locked.
MakeCopy(c, a, keeper) ==
  /\ cstate[c] = "unused"
  /\ cstate' = [cstate EXCEPT ![c] = keeper]
  /\ cbase' = [cbase EXCEPT ![c] = a]
  /\ cflag' = [cflag EXCEPT ![c] = TRUE]
  /\ cval' = [cval EXCEPT ![c] = content[a]]
  /\ writeable' = [writeable EXCEPT ![a] = FALSE]

\* NpyArray_FlatView of a non-contiguous array (flatiter.__array__): locks a
\* without looking at its flags.
FlatView(a, c) ==
  /\ op.step = "idle"
  /\ MakeCopy(c, a, "held")
  /\ UNCHANGED <<wanted, abandoned, content, wrote, failed, op>>

WriteCopy(c, v) ==
  /\ op.step = "idle"
  /\ cstate[c] = "held"
  /\ cval' = [cval EXCEPT ![c] = v]
  /\ UNCHANGED <<arrVars, cstate, cbase, cflag, wrote, failed, op>>

DropCopy(c) ==
  /\ op.step = "idle"
  /\ cstate[c] = "held"
  /\ cstate' = [cstate EXCEPT ![c] = "garbage"]
  /\ UNCHANGED <<arrVars, cbase, cflag, cval, wrote, failed, op>>

\* Mutant: no test that the copy still has a base.
ClearUnguarded(c) ==
  /\ op.step = "idle"
  /\ cstate[c] = "held"
  /\ writeable' = [writeable EXCEPT ![cbase[c]] = FALSE]
  /\ abandoned' = abandoned \cup {cbase[c]}
  /\ cbase' = [cbase EXCEPT ![c] = NoArray]
  /\ UNCHANGED <<wanted, content, cstate, cflag, cval, wrote, failed, op>>

\* c.setflags(uic=False): drops the base and keeps it locked; the flags read
\* before are written back after, so that the flag itself stays set.
ClearUpdateIfCopy(c) ==
  /\ op.step = "idle"
  /\ cstate[c] = "held" /\ cbase[c] # NoArray
  /\ writeable' = [writeable EXCEPT ![cbase[c]] = FALSE]
  /\ abandoned' = abandoned \cup {cbase[c]}
  /\ cbase' = [cbase EXCEPT ![c] = NoArray]
  /\ UNCHANGED <<wanted, content, cstate, cflag, cval, wrote, failed, op>>

-----------------------------------------------------------------------------
(* An operation that computes result r for output array a.                 *)

\* No copy is needed, and the data is written in place: put and putmask of a
\* contiguous array do not look at its flags.
InPlace(k, a, r) ==
  /\ op.step = "idle"
  /\ k \in {"put", "putmask"} \/ writeable[a]
  /\ content' = [content EXCEPT ![a] = r]
  /\ op' = [step |-> "returned", kind |-> k, out |-> a, copy |-> NoCopy, result |-> r]
  /\ UNCHANGED <<writeable, wanted, abandoned, copyVars>>

\* NpyArray_PutTo in place, stopped by an index out of range: the values it has
\* stored stay.
InPlaceFails(a, v) ==
  /\ op.step = "idle"
  /\ "put" \in Kinds
  /\ content' = [content EXCEPT ![a] = v]
  /\ UNCHANGED <<writeable, wanted, abandoned, copyVars, op>>

\* NpyArray_FromArray(a, NPY_CARRAY | NPY_UPDATEIFCOPY) needs a copy: "cannot
\* copy back to a read-only array" unless a is writeable...  put and putmask then
\* dereference a NULL copy, which ItemSelection models as Crashed; it has no step
\* here.
Check(k, a, r) ==
  /\ op.step = "idle"
  /\ writeable[a]
  /\ op' = [step |-> "check", kind |-> k, out |-> a, copy |-> NoCopy, result |-> r]
  /\ UNCHANGED <<arrVars, copyVars>>

\* ... then copies and locks it.
Lock(c) ==
  /\ op.step = "check"
  /\ MakeCopy(c, op.out, "native")
  /\ op' = [op EXCEPT !.step = "run", !.copy = c]
  /\ UNCHANGED <<wanted, abandoned, content, wrote, failed>>

\* Success: NpyArray_ForceUpdate writes the copy back and detaches it, then the
\* last core reference to it is dropped.
FinishForced ==
  /\ op.step = "run"
  /\ op.kind \in {"put", "putmask", "choose", "argmax"}
  /\ LET c == op.copy
     IN  /\ content' = [content EXCEPT ![cbase[c]] = op.result]
         /\ writeable' = [writeable EXCEPT ![cbase[c]] = TRUE]
         /\ cstate' = [cstate EXCEPT ![c] = "garbage"]
         /\ cflag' = [cflag EXCEPT ![c] = FALSE]
         /\ cbase' = [cbase EXCEPT ![c] = NoArray]
         /\ cval' = [cval EXCEPT ![c] = op.result]
         /\ wrote' = [wrote EXCEPT ![c] = @ + 1]
  /\ op' = [op EXCEPT !.step = "returned"]
  /\ UNCHANGED <<wanted, abandoned, failed>>

\* NpyArray_TakeFrom only drops its reference: the finalizer will write back.
FinishTake ==
  /\ op.step = "run"
  /\ op.kind = "take"
  /\ cstate' = [cstate EXCEPT ![op.copy] = "garbage"]
  /\ cval' = [cval EXCEPT ![op.copy] = op.result]
  /\ op' = [op EXCEPT !.step = "returned"]
  /\ UNCHANGED <<arrVars, cbase, cflag, wrote, failed>>

\* NpyArray_PutMask returns early when there are no values: the copy is leaked.
PutMaskNothing ==
  /\ op.step = "run"
  /\ op.kind = "putmask"
  /\ cstate' = [cstate EXCEPT ![op.copy] = "leaked"]
  /\ abandoned' = abandoned \cup {op.out}
  /\ op' = Idle(op.result)
  /\ UNCHANGED <<writeable, wanted, content, cbase, cflag, cval, wrote, failed>>

\* Mutant: the error path only drops the reference.
FailDecref(v) ==
  /\ op.step = "run"
  /\ op.kind # "argmax"
  /\ cstate' = [cstate EXCEPT ![op.copy] = "garbage"]
  /\ cval' = [cval EXCEPT ![op.copy] = v]
  /\ failed' = [failed EXCEPT ![op.copy] = TRUE]
  /\ op' = Idle(op.result)
  /\ UNCHANGED <<arrVars, cbase, cflag, wrote>>

\* Mutant: the error path discards the copy but leaves the array locked.
FailLocked(v) ==
  /\ op.step = "run"
  /\ op.kind # "argmax"
  /\ cstate' = [cstate EXCEPT ![op.copy] = "garbage"]
  /\ cflag' = [cflag EXCEPT ![op.copy] = FALSE]
  /\ cval' = [cval EXCEPT ![op.copy] = v]
  /\ failed' = [failed EXCEPT ![op.copy] = TRUE]
  /\ op' = Idle(op.result)
  /\ UNCHANGED <<arrVars, cbase, wrote>>

\* An error half way, with v in the copy: NpyArray_XDECREF_ERR unlocks the
\* array and clears the flag, so that the copy is never written back.
Fail(v) ==
  /\ op.step = "run"
  /\ op.kind # "argmax"
  /\ writeable' = [writeable EXCEPT ![cbase[op.copy]] = TRUE]
  /\ cstate' = [cstate EXCEPT ![op.copy] = "garbage"]
  /\ cflag' = [cflag EXCEPT ![op.copy] = FALSE]
  /\ cval' = [cval EXCEPT ![op.copy] = v]
  /\ failed' = [failed EXCEPT ![op.copy] = TRUE]
  /\ op' = Idle(op.result)
  /\ UNCHANGED <<wanted, abandoned, content, cbase, wrote>>

Return ==
  /\ op.step = "returned"
  /\ op' = Idle(op.result)
  /\ UNCHANGED <<arrVars, copyVars>>

-----------------------------------------------------------------------------
(* NpyArray_dealloc of a copy, on the finalizer thread.                     *)

\* base_arr->flags |= NPY_WRITEABLE...
FinalizeUnlock(c) ==
  /\ \A d \in Copy : cstate[d] # "unlocked"
  /\ cstate[c] = "garbage" /\ cbase[c] # NoArray /\ cflag[c]
  /\ writeable' = [writeable EXCEPT ![cbase[c]] = TRUE]
  /\ cstate' = [cstate EXCEPT ![c] = "unlocked"]
  /\ UNCHANGED <<wanted, abandoned, content, cbase, cflag, cval, wrote, failed, op>>

Free(c) ==
  /\ cstate' = [cstate EXCEPT ![c] = "unused"]
  /\ cbase' = [cbase EXCEPT ![c] = NoArray]
  /\ cflag' = [cflag EXCEPT ![c] = FALSE]
  /\ cval' = [cval EXCEPT ![c] = AnyValue]
  /\ wrote' = [wrote EXCEPT ![c] = 0]
  /\ failed' = [failed EXCEPT ![c] = FALSE]

\* ... CopyAnyInto(base_arr, self), whose error, if the array was made read-only
\* in between, is cleared...
FinalizeCopy(c) ==
  /\ cstate[c] = "unlocked"
  /\ IF writeable[cbase[c]]
       THEN /\ content' = [content EXCEPT ![cbase[c]] = cval[c]]
            /\ wrote' = [wrote EXCEPT ![c] = @ + 1]
       ELSE UNCHANGED <<content, wrote>>
  /\ cflag' = [cflag EXCEPT ![c] = FALSE]
  /\ cbase' = [cbase EXCEPT ![c] = NoArray]
  /\ cstate' = [cstate EXCEPT ![c] = "garbage"]
  /\ UNCHANGED <<writeable, wanted, abandoned, cval, failed, op>>

\* ... and the memory is freed.
FinalizeFree(c) ==
  /\ cstate[c] = "garbage" /\ (cbase[c] = NoArray \/ ~cflag[c])
  /\ Free(c)
  /\ UNCHANGED <<arrVars, op>>

-----------------------------------------------------------------------------
OpStep ==
  \/ \E c \in Copy : Lock(c)
  \/ FinishForced \/ FinishTake \/ PutMaskNothing
  \/ \E v \in Value : Fail(v)
  \/ Return

Finalizer(c) == FinalizeUnlock(c) \/ FinalizeCopy(c) \/ FinalizeFree(c)

Next ==
  \/ \E a \in Array :
       \/ \E v \in Value : Write(a, v)
       \/ \E b \in BOOLEAN : SetWriteable(a, b)
       \/ \E c \in Copy : FlatView(a, c)
       \/ \E k \in Kinds, r \in Value : InPlace(k, a, r) \/ Check(k, a, r)
       \/ \E v \in Value : InPlaceFails(a, v)
  \/ \E c \in Copy :
       \/ \E v \in Value : WriteCopy(c, v)
       \/ DropCopy(c) \/ ClearUpdateIfCopy(c)
       \/ Finalizer(c)
  \/ OpStep

Spec == Init /\ [][Next]_vars

\* Operations end, and garbage copies are found and finalized: the finalizer
\* thread's queue is first in, first out, so none is passed over for ever.
FairSpec == Spec /\ WF_vars(OpStep) /\ \A c \in Copy : SF_vars(Finalizer(c))

-----------------------------------------------------------------------------
(* Properties.                                                             *)

\* A copy is written back at most once, and one whose operation failed never:
\* an error leaves the output array unchanged, now and when the garbage
\* collector gets to the copy (item_selection's "so the input array is not
\* changed before the error is called", npy_item_selection.c:73-77).
WriteBackOnce == \A c \in Copy : wrote[c] <= (IF failed[c] THEN 0 ELSE 1)

\* An array that is read-only against its user's wish is locked by a copy that
\* will unlock it: no error path, no second view and no finalization forgets
\* the lock, except the two places that abandon it.
LockHasHolder ==
  \A a \in Array : wanted[a] /\ ~writeable[a] /\ a \notin abandoned =>
    \E c \in Copy : cbase[c] = a /\ cflag[c] /\ cstate[c] \in {"native", "held", "garbage"}

\* Once the user holds no flat views, a locked array becomes writeable again.
Stuck(a) == wanted[a] /\ ~writeable[a] /\ a \notin abandoned
NothingHeld == \A c \in Copy : cstate[c] # "held"
EventuallyUnlocked == <>[]NothingHeld => \A a \in Array : []<>~Stuck(a)

\* When an operation returns its output array, the array holds the result
\* ("Ensure that 'take' honours output parameter", test_regression.py:538-544).
ResultInOut == op.step = "returned" => content[op.out] = op.result

=============================================================================
