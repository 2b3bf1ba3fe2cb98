------------------------------- MODULE IDPool -------------------------------
(***************************************************************************)
(* What the generators of LeetCode/pureStorageDesignFinal.go that work in  *)
(* batches have in common: their callers and AtomicIDSource.               *)
(***************************************************************************)
EXTENDS Integers, Sequences, SequencesExt

CONSTANTS
  Callers,
  CallsOf,    \* bound: how often each calls GetOneID
  batch,
  MaxFaults   \* bound on the failures of the source

ASSUME PoolAssumption ==
  CallsOf \in [Callers -> Nat] /\ batch \in Nat \ {0} /\ MaxFaults \in Nat

\* AtomicIDSource.GetIDs, with next the first id not handed out: a contiguous
\* range.
GetIDs(next) == [i \in 1 .. batch |-> next + i - 1]
=============================================================================
