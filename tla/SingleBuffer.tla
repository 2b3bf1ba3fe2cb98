---------------------------- MODULE SingleBuffer ----------------------------
(***************************************************************************)
(* SingleBufferGenerator of LeetCode/pureStorageDesignFinal.go.  Callers   *)
(* take ids from a buffer; one that finds it empty fetches the next batch  *)
(* outside the mutex while the others wait on the condition.  Each section *)
(* under the mutex is one action.                                          *)
(***************************************************************************)
EXTENDS IDPool

VARIABLES
  next,         \* of the source: the first id it has not handed out
  faults,
  buffer, refilling, closed,
  pc, fetched,  \* of each caller; fetched is empty if the source failed
  calls, got    \* history: the calls made, and the ids they returned
vars == <<next, faults, buffer, refilling, closed, pc, fetched, calls, got>>

Init ==
  /\ next = 0 /\ faults = 0
  /\ buffer = <<>> /\ refilling = FALSE /\ closed = FALSE
  /\ pc = [c \in Callers |-> "idle"]
  /\ fetched = [c \in Callers |-> <<>>]
  /\ calls = [c \in Callers |-> 0] /\ got = [c \in Callers |-> <<>>]
-----------------------------------------------------------------------------
\* Broadcast, to those that wait in p.
WakeAll(p) == [d \in Callers |-> IF p[d] = "waiting" THEN "get" ELSE p[d]]

Call(c) ==
  /\ pc[c] = "idle" /\ calls[c] < CallsOf[c]
  /\ calls' = [calls EXCEPT ![c] = @ + 1]
  /\ pc' = [pc EXCEPT ![c] = "get"]
  /\ UNCHANGED <<next, faults, buffer, refilling, closed, fetched, got>>

Fail(c) ==
  /\ pc[c] = "get" /\ closed
  /\ pc' = [pc EXCEPT ![c] = "idle"]
  /\ UNCHANGED <<next, faults, buffer, refilling, closed, fetched, calls, got>>

Take(c) ==
  /\ pc[c] = "get" /\ ~closed /\ buffer # <<>>
  /\ got' = [got EXCEPT ![c] = Append(@, Last(buffer))]
  /\ buffer' = Front(buffer)
  /\ pc' = [pc EXCEPT ![c] = "idle"]
  /\ UNCHANGED <<next, faults, refilling, closed, fetched, calls>>

\* A refill that does not look whether another is under way.
MayAlwaysRefill == TRUE

NobodyRefills == ~refilling

StartRefill(c) ==
  /\ pc[c] = "get" /\ ~closed /\ buffer = <<>> /\ NobodyRefills
  /\ refilling' = TRUE
  /\ pc' = [pc EXCEPT ![c] = "fetch"]
  /\ UNCHANGED <<next, faults, buffer, closed, fetched, calls, got>>

Wait(c) ==
  /\ pc[c] = "get" /\ ~closed /\ buffer = <<>> /\ ~NobodyRefills
  /\ pc' = [pc EXCEPT ![c] = "waiting"]
  /\ UNCHANGED <<next, faults, buffer, refilling, closed, fetched, calls, got>>

\* source.GetIDs, outside the mutex.
Fetch(c) ==
  /\ pc[c] = "fetch"
  /\ \/ /\ fetched' = [fetched EXCEPT ![c] = GetIDs(next)]
        /\ next' = next + batch
        /\ UNCHANGED faults
     \/ faults < MaxFaults /\ faults' = faults + 1 /\ UNCHANGED <<next, fetched>>
  /\ pc' = [pc EXCEPT ![c] = "store"]
  /\ UNCHANGED <<buffer, refilling, closed, calls, got>>

\* refill reports the error of the source, or that the generator is closed.
CanStore(c) == fetched[c] # <<>> /\ ~closed

\* The rest of refill and of refillAndRetry.
Store(c) ==
  /\ pc[c] = "store"
  /\ refilling' = FALSE
  /\ buffer' = IF CanStore(c) THEN fetched[c] ELSE buffer
  /\ fetched' = [fetched EXCEPT ![c] = <<>>]
  /\ pc' = WakeAll([pc EXCEPT ![c] = IF CanStore(c) THEN "get" ELSE "idle"])
  /\ UNCHANGED <<next, faults, closed, calls, got>>

Close ==
  /\ ~closed
  /\ closed' = TRUE /\ buffer' = <<>>
  /\ pc' = WakeAll(pc)
  /\ UNCHANGED <<next, faults, refilling, fetched, calls, got>>
-----------------------------------------------------------------------------
Step(c) ==
  Fail(c) \/ Take(c) \/ StartRefill(c) \/ Wait(c) \/ Fetch(c) \/ Store(c)

Next == Close \/ \E c \in Callers : Call(c) \/ Step(c)

Spec == Init /\ [][Next]_vars
-----------------------------------------------------------------------------
\* Only one caller refills, and it finds the buffer as empty as it left it.
OneRefills ==
  \A c \in Callers : pc[c] \in {"fetch", "store"} =>
    /\ refilling /\ buffer = <<>>
    /\ \A d \in Callers : pc[d] \in {"fetch", "store"} => c = d

\* While the generator is open, every id the source has handed out is with a
\* caller, in the buffer or on its way there.
NoIDSkipped ==
  ~closed => 0 .. next - 1 =
    Range(buffer) \union UNION {Range(got[c]) \union Range(fetched[c]) : c \in Callers}

TypeOK ==
  /\ next \in Nat /\ faults \in 0 .. MaxFaults
  /\ buffer \in Seq(Nat) /\ {refilling, closed} \subseteq BOOLEAN
  /\ pc \in [Callers -> {"idle", "get", "fetch", "store", "waiting"}]
  /\ fetched \in [Callers -> Seq(Nat)]
  /\ calls \in [Callers -> Nat] /\ got \in [Callers -> Seq(Nat)]
=============================================================================
