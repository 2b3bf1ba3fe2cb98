---------------------------- MODULE UIDGenBlock ----------------------------
(***************************************************************************)
(* The block generators of LeetCode/psDesign.go: every generator takes     *)
(* blocks of numbers from a global sequence and hands them out one by one. *)
(* NextID looks under the generator's mutex whether its block is used up,  *)
(* and adds to the atomic number after it has released the mutex.          *)
(***************************************************************************)
EXTENDS Integers

CONSTANTS
  Generators,
  Threads,   \* goroutines that call NextID
  GenOf,     \* the generator each of them uses
  CallsOf,   \* bound: how often each calls NextID
  blkSize

ASSUME GeneratorAssumption ==
  /\ GenOf \in [Threads -> Generators]
  /\ CallsOf \in [Threads -> Nat]
  /\ blkSize \in Nat \ {0}

VARIABLES
  currSeq,  \* the first number no block contains
  created,  \* the generators createUIDGenBlock has returned
  seqno,    \* the number each generator has handed out last
  endSeq,   \* the last number of its block
  pc,       \* each thread; "allocate" holds the generator's mutex
  made,     \* how many calls each thread has made
  issued    \* history: the id each call returned
vars == <<currSeq, created, seqno, endSeq, pc, made, issued>>

Init ==
  /\ currSeq = 0 /\ created = {}
  /\ seqno = [g \in Generators |-> 0] /\ endSeq = [g \in Generators |-> 0]
  /\ pc = [t \in Threads |-> "idle"]
  /\ made = [t \in Threads |-> 0] /\ issued = {}

\* Forgetting to move the global sequence on.
TakeSameBlock(g) ==
  /\ seqno' = [seqno EXCEPT ![g] = currSeq]
  /\ endSeq' = [endSeq EXCEPT ![g] = currSeq + blkSize]
  /\ UNCHANGED currSeq

\* allocateBlock, under globalLock.
TakeBlock(g) ==
  /\ seqno' = [seqno EXCEPT ![g] = currSeq]
  /\ endSeq' = [endSeq EXCEPT ![g] = currSeq + blkSize]
  /\ currSeq' = currSeq + blkSize

Create(g) ==
  /\ g \notin created
  /\ created' = created \union {g}
  /\ TakeBlock(g)
  /\ UNCHANGED <<pc, made, issued>>
-----------------------------------------------------------------------------
(* NextID                                                                  *)

\* A comparison that lets one number too many out of the block.
ExhaustedLate(g) == seqno[g] = endSeq[g] + 1

Exhausted(g) == seqno[g] = endSeq[g]

\* The critical section, unless a block has to be allocated.
Check(t) ==
  /\ pc[t] = "idle" /\ made[t] < CallsOf[t]
  /\ GenOf[t] \in created
  /\ \A u \in Threads : GenOf[u] = GenOf[t] => pc[u] # "allocate"
  /\ pc' = [pc EXCEPT ![t] = IF Exhausted(GenOf[t]) THEN "allocate" ELSE "add"]
  /\ UNCHANGED <<currSeq, created, seqno, endSeq, made, issued>>

\* The rest of it; other threads may add to the number until here.
Allocate(t) ==
  /\ pc[t] = "allocate"
  /\ TakeBlock(GenOf[t])
  /\ pc' = [pc EXCEPT ![t] = "add"]
  /\ UNCHANGED <<created, made, issued>>

Add(t) ==
  /\ pc[t] = "add"
  /\ seqno' = [seqno EXCEPT ![GenOf[t]] = @ + 1]
  /\ issued' = issued \union
       {[caller |-> t, call |-> made[t], id |-> seqno[GenOf[t]] + 1]}
  /\ made' = [made EXCEPT ![t] = @ + 1]
  /\ pc' = [pc EXCEPT ![t] = "idle"]
  /\ UNCHANGED <<currSeq, created, endSeq>>
-----------------------------------------------------------------------------
Next ==
  \/ \E g \in Generators : Create(g)
  \/ \E t \in Threads : Check(t) \/ Allocate(t) \/ Add(t)

Spec == Init /\ [][Next]_vars
-----------------------------------------------------------------------------
\* A thread is about to add only while the generator's block lasts: what the
\* check found is still so.
CheckStillHolds ==
  \A t \in Threads : pc[t] = "add" => seqno[GenOf[t]] < endSeq[GenOf[t]]

\* No two calls, of whatever generators, return the same id (psDesign.go:24:
\* "Block Uniq Genrator").
UniqueIDs == \A x, y \in issued : x.id = y.id => x = y

TypeOK ==
  /\ currSeq \in Nat /\ created \subseteq Generators
  /\ seqno \in [Generators -> Nat] /\ endSeq \in [Generators -> Nat]
  /\ \A g \in Generators : endSeq[g] <= currSeq
  /\ pc \in [Threads -> {"idle", "allocate", "add"}]
  /\ made \in [Threads -> Nat]
  /\ issued \subseteq [caller : Threads, call : Nat, id : Nat]
=============================================================================
