--------------------------- MODULE BlockGenerator ---------------------------
(***************************************************************************)
(* BlockGenerator of LeetCode/pureStorageDesign3.go: as UIDGenBlock, but a *)
(* single generator that goes on to the block behind its own.  Nothing but *)
(* an Add between another call's look at next and its Store can make it    *)
(* hand out a number again, not even a next beyond its block.              *)
(***************************************************************************)
EXTENDS Integers

CONSTANTS
  Callers,          \* calls of NextID
  start, blockSize

BlockConstants == start \in Nat /\ blockSize \in Nat \ {0}

VARIABLES
  next, end,
  pc,         \* each call; "store" and "move" hold gen.mu
  ids,        \* history: what each call has returned
  overtaken   \* history: an Add came in between a look and its Store
vars == <<next, end, pc, ids, overtaken>>

Init ==
  /\ next = start /\ end = start + blockSize
  /\ pc = [c \in Callers |-> "begin"]
  /\ ids = [c \in Callers |-> start]
  /\ overtaken = FALSE

At(c, here, there) == pc[c] = here /\ pc' = [pc EXCEPT ![c] = there]

\* The critical section, unless a block has to be allocated.
Look(c) ==
  /\ At(c, "begin", IF next = end THEN "store" ELSE "add")
  /\ \A d \in Callers : pc[d] \notin {"store", "move"}
  /\ UNCHANGED <<next, end, ids, overtaken>>

\* Moving the end before the new start is stored.
StoreMoved(c) ==
  /\ At(c, "store", "move")
  /\ next' = end + blockSize
  /\ UNCHANGED <<end, ids, overtaken>>

\* allocateBlock stores next atomically and then, still under the mutex, moves
\* the end.
Store(c) ==
  /\ At(c, "store", "move")
  /\ next' = end
  /\ UNCHANGED <<end, ids, overtaken>>

Move(c) ==
  /\ At(c, "move", "add")
  /\ end' = end + blockSize
  /\ UNCHANGED <<next, ids, overtaken>>

Add(c) ==
  /\ At(c, "add", "returned")
  /\ next' = next + 1
  /\ ids' = [ids EXCEPT ![c] = next + 1]
  /\ overtaken' = (overtaken \/ \E d \in Callers : pc[d] = "store")
  /\ UNCHANGED end

Next == \E c \in Callers : Look(c) \/ Store(c) \/ Move(c) \/ Add(c)

Spec == Init /\ [][Next]_vars
-----------------------------------------------------------------------------
Returned == {c \in Callers : pc[c] = "returned"}

Repeated == \E c, d \in Returned : c # d /\ ids[c] = ids[d]

\* However many callers there are, the numbers come one after the other, each
\* once and none left out, up to the first Add that comes in between another
\* call's look and its Store; and then one does come twice, by the time that
\* the calls have returned.
RepeatsIffOvertaken ==
  /\ ~overtaken => ~Repeated /\ \A n \in start + 1 .. next : \E c \in Returned : ids[c] = n
  /\ overtaken /\ Returned = Callers => Repeated
=============================================================================
