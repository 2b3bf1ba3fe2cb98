---------------------------- MODULE DoubleBuffer ----------------------------
(***************************************************************************)
(* DoubleBufferGenerator of LeetCode/pureStorageDesignFinal.go.  Callers   *)
(* take ids from the active buffer; a goroutine of its own fills the       *)
(* standby buffer once the active one is nearly used up.  Each section     *)
(* under the mutex is one action.                                          *)
(***************************************************************************)
EXTENDS IDPool, FiniteSets

VARIABLES
  next,       \* of the source: the first id it has not handed out
  faults,
  active, standby, filling, closed,
  fetching,   \* how many goroutines are about to ask the source
  filled,     \* what those that have asked bring; empty if the source failed
  pc,
  calls, got  \* history: the calls made, and the ids they returned
vars == <<next, faults, active, standby, filling, closed, fetching, filled,
          pc, calls, got>>

Init ==
  /\ next = 0 /\ faults = 0
  /\ active = <<>> /\ standby = <<>> /\ filling = FALSE /\ closed = FALSE
  /\ fetching = 0 /\ filled = {}
  /\ pc = [c \in Callers |-> "idle"]
  /\ calls = [c \in Callers |-> 0] /\ got = [c \in Callers |-> <<>>]
-----------------------------------------------------------------------------
(* GetOneID                                                                *)

Call(c) ==
  /\ pc[c] = "idle" /\ calls[c] < CallsOf[c]
  /\ calls' = [calls EXCEPT ![c] = @ + 1]
  /\ pc' = [pc EXCEPT ![c] = "get"]
  /\ UNCHANGED <<next, faults, active, standby, filling, closed, fetching, filled, got>>

Fail(c) ==
  /\ pc[c] = "get" /\ closed
  /\ pc' = [pc EXCEPT ![c] = "idle"]
  /\ UNCHANGED <<next, faults, active, standby, filling, closed, fetching, filled,
                 calls, got>>

StartFill(wanted) ==
  IF wanted /\ ~filling THEN filling' = TRUE /\ fetching' = fetching + 1
                        ELSE UNCHANGED <<filling, fetching>>

\* The buffer is small now and there is no other.
Prefetch == Len(active) - 1 <= batch \div 4 /\ standby = <<>>

Take(c) ==
  /\ pc[c] = "get" /\ ~closed /\ active # <<>>
  /\ got' = [got EXCEPT ![c] = Append(@, Last(active))]
  /\ active' = Front(active)
  /\ StartFill(Prefetch)
  /\ pc' = [pc EXCEPT ![c] = "idle"]
  /\ UNCHANGED <<next, faults, standby, closed, filled, calls>>

\* swapLocked; then the loop starts again.
Swap(c) ==
  /\ pc[c] = "get" /\ ~closed /\ active = <<>> /\ standby # <<>>
  /\ active' = standby /\ standby' = active
  /\ UNCHANGED <<next, faults, filling, closed, fetching, filled, pc, calls, got>>

Wait(c) ==
  /\ pc[c] = "get" /\ ~closed /\ active = <<>> /\ standby = <<>>
  /\ StartFill(TRUE)
  /\ pc' = [pc EXCEPT ![c] = "waiting"]
  /\ UNCHANGED <<next, faults, active, standby, closed, filled, calls, got>>
-----------------------------------------------------------------------------
(* fillStandbyAsync                                                        *)

Fetch ==
  /\ fetching > 0 /\ fetching' = fetching - 1
  /\ \/ /\ filled' = filled \union {GetIDs(next)}
        /\ next' = next + batch
        /\ UNCHANGED faults
     \/ /\ faults < MaxFaults /\ faults' = faults + 1
        /\ filled' = filled \union {<<>>}
        /\ UNCHANGED next
  /\ UNCHANGED <<active, standby, filling, closed, pc, calls, got>>

\* Broadcast.
WakeAll == pc' = [c \in Callers |-> IF pc[c] = "waiting" THEN "get" ELSE pc[c]]

\* A fill that fails and wakes nobody up.
StoreQuietly ==
  \E ids \in filled :
    /\ filled' = filled \ {ids}
    /\ filling' = FALSE
    /\ standby' = IF ids # <<>> /\ ~closed THEN ids ELSE standby
    /\ IF ids = <<>> THEN UNCHANGED pc ELSE WakeAll
    /\ UNCHANGED <<next, faults, active, closed, fetching, calls, got>>

Store ==
  \E ids \in filled :
    /\ filled' = filled \ {ids}
    /\ filling' = FALSE
    /\ standby' = IF ids # <<>> /\ ~closed THEN ids ELSE standby
    /\ WakeAll
    /\ UNCHANGED <<next, faults, active, closed, fetching, calls, got>>
-----------------------------------------------------------------------------
\* Closing again changes nothing.
Close ==
  /\ ~closed
  /\ closed' = TRUE /\ active' = <<>> /\ standby' = <<>>
  /\ WakeAll
  /\ UNCHANGED <<next, faults, filling, fetching, filled, calls, got>>

Step(c) == Fail(c) \/ Take(c) \/ Swap(c) \/ Wait(c)
Fill == Fetch \/ Store

Next == Close \/ Fill \/ \E c \in Callers : Call(c) \/ Step(c)

Spec == Init /\ [][Next]_vars
-----------------------------------------------------------------------------
\* At most one goroutine fills, and the buffer it is going to replace is empty.
OneFills ==
  fetching > 0 \/ filled # {} =>
    filling /\ standby = <<>> /\ fetching + Cardinality(filled) = 1

\* While the generator is open, every id the source has handed out is with a
\* caller, in a buffer or on its way there.
NoIDSkipped ==
  ~closed => 0 .. next - 1 =
    Range(active) \union Range(standby) \union (UNION {Range(ids) : ids \in filled})
      \union (UNION {Range(got[c]) : c \in Callers})

TypeOK ==
  /\ next \in Nat /\ faults \in 0 .. MaxFaults
  /\ {active, standby} \subseteq Seq(Nat) /\ {filling, closed} \subseteq BOOLEAN
  /\ fetching \in Nat /\ filled \subseteq Seq(Nat)
  /\ pc \in [Callers -> {"idle", "get", "waiting"}]
  /\ calls \in [Callers -> Nat] /\ got \in [Callers -> Seq(Nat)]
=============================================================================
