------------------------------ MODULE FreshIDs ------------------------------
(***************************************************************************)
(* What every id generator of LeetCode/ promises: a call that succeeds     *)
(* returns an id no call has returned before, to whichever caller.  Which  *)
(* id is left open, and so is whether ids are skipped.                     *)
(***************************************************************************)
EXTENDS Sequences, Functions

CONSTANT Callers
VARIABLE got   \* the ids each caller has been given, oldest first

Given == UNION {Range(got[c]) : c \in Callers}

Init == got = [c \in Callers |-> <<>>]

Give(c) ==
  \E id \in Given' \ Given : got' = [got EXCEPT ![c] = Append(@, id)]

Next == \E c \in Callers : Give(c)

Spec == Init /\ [][Next]_got
=============================================================================
