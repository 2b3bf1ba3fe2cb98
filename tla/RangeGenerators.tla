--------------------------- MODULE RangeGenerators --------------------------
(***************************************************************************)
(* The generators of LeetCode/pureStorageDesignFinal.go that take one step *)
(* under a mutex or on an atomic number per call:                          *)
(*   "naive"    NaiveGenerator draws until it finds an unused number       *)
(*   "counter"  AtomicCounterGenerator                                     *)
(*   "range"    LocalRangeGenerators on one GlobalRangeAllocator           *)
(* The first two have a single generator for all callers.                  *)
(***************************************************************************)
EXTENDS Integers, Sequences

CONSTANTS
  Callers,
  CallsOf,         \* bound: how often each calls GetOneID
  Machines, On,    \* the machine whose generator each caller uses
  chunk,
  Pool             \* what rng.Uint64 can draw

VARIABLES
  kind,
  next,       \* of the counter or the allocator: the first number not taken
  used,
  from, end,  \* of each machine: the rest of its range
  shut,       \* the generators that have been closed
  calls, got  \* history: the calls made, and the ids they returned
vars == <<kind, next, used, from, end, shut, calls, got>>

Init ==
  /\ kind \in {"naive", "counter", "range"}
  /\ next = 0 /\ used = {} /\ shut = {}
  /\ from = [m \in Machines |-> 0] /\ end = [m \in Machines |-> 0]
  /\ calls = [c \in Callers |-> 0] /\ got = [c \in Callers |-> <<>>]
-----------------------------------------------------------------------------
Closed(c) == IF kind = "naive" THEN shut # {} ELSE On[c] \in shut

Return(c, id) ==
  /\ calls[c] < CallsOf[c]
  /\ calls' = [calls EXCEPT ![c] = @ + 1]
  /\ got' = [got EXCEPT ![c] = Append(@, id)]

\* Drawing a number that has been used changes nothing.
Draw(c) ==
  /\ kind = "naive" /\ ~Closed(c)
  /\ \E id \in Pool \ used : Return(c, id) /\ used' = used \union {id}
  /\ UNCHANGED <<kind, next, from, end, shut>>

Count(c) ==
  /\ kind = "counter"
  /\ Return(c, next)
  /\ next' = next + 1
  /\ UNCHANGED <<kind, used, from, end, shut>>

\* Taking the last number of a range to belong to the machine and the next range.
UsedUpLate(m) == from[m] = end[m] + 1

UsedUp(m) == from[m] = end[m]

FromRange(c) ==
  LET m == On[c] IN
  /\ kind = "range" /\ ~Closed(c)
  /\ \/ /\ UsedUp(m)
        /\ Return(c, next)
        /\ from' = [from EXCEPT ![m] = next + 1]
        /\ end' = [end EXCEPT ![m] = next + chunk]
        /\ next' = next + chunk
     \/ /\ ~UsedUp(m)
        /\ Return(c, from[m])
        /\ from' = [from EXCEPT ![m] = @ + 1]
        /\ UNCHANGED <<end, next>>
  /\ UNCHANGED <<kind, used, shut>>

\* A call on a closed generator fails.
Fail(c) ==
  /\ Closed(c) /\ calls[c] < CallsOf[c]
  /\ calls' = [calls EXCEPT ![c] = @ + 1]
  /\ UNCHANGED <<kind, next, used, from, end, shut, got>>

\* The counter cannot be closed.
Close(m) ==
  /\ kind # "counter" /\ shut' = shut \union {m}
  /\ UNCHANGED <<kind, next, used, from, end, calls, got>>

Next ==
  \/ \E c \in Callers : Draw(c) \/ Count(c) \/ FromRange(c) \/ Fail(c)
  \/ \E m \in Machines : Close(m)

Spec == Init /\ [][Next]_vars
-----------------------------------------------------------------------------
TypeOK ==
  /\ kind \in {"naive", "counter", "range"}
  /\ next \in Nat /\ used \subseteq Pool /\ shut \subseteq Machines
  /\ from \in [Machines -> Nat] /\ end \in [Machines -> 0 .. next]
  /\ \A m \in Machines : from[m] <= end[m]
  /\ calls \in [Callers -> Nat] /\ got \in [Callers -> Seq(Nat)]
=============================================================================
