--------------------------- MODULE WorkerGenerator --------------------------
(***************************************************************************)
(* WorkerGenerator of LeetCode/pureStorageDesignFinal.go.  A producer      *)
(* fetches batches into a bounded channel until it is cancelled; callers   *)
(* take ids from the current batch and, when it is used up, receive the    *)
(* next one outside the mutex.  Each section under the mutex is one action.*)
(***************************************************************************)
EXTENDS IDPool

CONSTANT queueCapacity

VARIABLES
  next,       \* of the source: the first id it has not handed out
  faults,
  queue, current, closed, cancelled,
  producer, produced,   \* the producer and the batch it has in hand
  closer,     \* the first caller of Close; later ones return at once
  pc, received,         \* of each caller; the batch it has received
  calls, got  \* history: the calls made, and the ids they returned
vars == <<next, faults, queue, current, closed, cancelled, producer, produced,
          closer, pc, received, calls, got>>

Init ==
  /\ next = 0 /\ faults = 0
  /\ queue = <<>> /\ current = <<>> /\ closed = FALSE /\ cancelled = FALSE
  /\ producer = "fetch" /\ produced = <<>>
  /\ closer = "none"
  /\ pc = [c \in Callers |-> "idle"] /\ received = [c \in Callers |-> <<>>]
  /\ calls = [c \in Callers |-> 0] /\ got = [c \in Callers |-> <<>>]
-----------------------------------------------------------------------------
(* producer                                                                *)

Fetch ==
  /\ producer = "fetch"
  /\ \/ /\ produced' = GetIDs(next)
        /\ next' = next + batch
        /\ producer' = "send"
        /\ UNCHANGED faults
     \/ /\ faults < MaxFaults /\ faults' = faults + 1
        /\ producer' = "gone"
        /\ UNCHANGED <<next, produced>>
  /\ UNCHANGED <<queue, current, closed, cancelled, closer, pc, received, calls, got>>

Send ==
  /\ producer = "send" /\ Len(queue) < queueCapacity
  /\ queue' = Append(queue, produced)
  /\ produced' = <<>> /\ producer' = "fetch"
  /\ UNCHANGED <<next, faults, current, closed, cancelled, closer, pc, received, calls, got>>

Stops == cancelled

Stop ==
  /\ producer = "send" /\ Stops
  /\ producer' = "gone" /\ produced' = <<>>
  /\ UNCHANGED <<next, faults, queue, current, closed, cancelled, closer, pc,
                 received, calls, got>>
-----------------------------------------------------------------------------
(* GetOneID                                                                *)

Goto(c, where) == pc' = [pc EXCEPT ![c] = where]

Call(c) ==
  /\ pc[c] = "idle" /\ calls[c] < CallsOf[c]
  /\ calls' = [calls EXCEPT ![c] = @ + 1]
  /\ Goto(c, "get")
  /\ UNCHANGED <<next, faults, queue, current, closed, cancelled, producer, produced,
                 closer, received, got>>

\* At the top of the loop, or with a batch that comes too late.
Fail(c) ==
  /\ pc[c] \in {"get", "install"} /\ closed
  /\ Goto(c, "idle") /\ received' = [received EXCEPT ![c] = <<>>]
  /\ UNCHANGED <<next, faults, queue, current, closed, cancelled, producer, produced,
                 closer, calls, got>>

Take(c) ==
  /\ pc[c] = "get" /\ ~closed
  /\ \/ /\ current # <<>>
        /\ got' = [got EXCEPT ![c] = Append(@, Last(current))]
        /\ current' = Front(current)
        /\ Goto(c, "idle")
     \/ /\ current = <<>>
        /\ Goto(c, "select")
        /\ UNCHANGED <<current, got>>
  /\ UNCHANGED <<next, faults, queue, closed, cancelled, producer, produced, closer,
                 received, calls>>

\* Looking at the head of the channel without taking it.
KeepQueue == UNCHANGED queue

DropHead == queue' = Tail(queue)

Receive(c) ==
  /\ pc[c] = "select" /\ queue # <<>>
  /\ received' = [received EXCEPT ![c] = Head(queue)]
  /\ DropHead
  /\ Goto(c, "install")
  /\ UNCHANGED <<next, faults, current, closed, cancelled, producer, produced, closer,
                 calls, got>>

\* 50 milliseconds have passed.
Timeout(c) ==
  /\ pc[c] = "select"
  /\ Goto(c, "get")
  /\ UNCHANGED <<next, faults, queue, current, closed, cancelled, producer, produced,
                 closer, received, calls, got>>

\* What is left of the batch another caller has installed meanwhile is lost.
Install(c) ==
  /\ pc[c] = "install" /\ ~closed
  /\ current' = received[c] /\ received' = [received EXCEPT ![c] = <<>>]
  /\ Goto(c, "get")
  /\ UNCHANGED <<next, faults, queue, closed, cancelled, producer, produced, closer,
                 calls, got>>
-----------------------------------------------------------------------------
(* Close                                                                   *)

Close ==
  /\ closer = "none" /\ closer' = "closing"
  /\ closed' = TRUE /\ current' = <<>>
  /\ UNCHANGED <<next, faults, queue, cancelled, producer, produced, pc, received, calls, got>>

Cancel ==
  /\ closer = "closing" /\ closer' = "waiting"
  /\ cancelled' = TRUE
  /\ UNCHANGED <<next, faults, queue, current, closed, producer, produced, pc, received,
                 calls, got>>

\* A Close that does not wait for the producer.
JoinedAtOnce ==
  /\ closer = "waiting"
  /\ closer' = "closed"
  /\ UNCHANGED <<next, faults, queue, current, closed, cancelled, producer, produced, pc,
                 received, calls, got>>

\* wg.Wait.
Joined ==
  /\ closer = "waiting" /\ producer = "gone"
  /\ closer' = "closed"
  /\ UNCHANGED <<next, faults, queue, current, closed, cancelled, producer, produced, pc,
                 received, calls, got>>
-----------------------------------------------------------------------------
Produce == Fetch \/ Send \/ Stop
Shutdown == Cancel \/ Joined
Step(c) == Fail(c) \/ Take(c) \/ Receive(c) \/ Timeout(c) \/ Install(c)

Next == Close \/ Produce \/ Shutdown \/ \E c \in Callers : Call(c) \/ Step(c)

Spec == Init /\ [][Next]_vars
-----------------------------------------------------------------------------
TypeOK ==
  /\ next \in Nat /\ faults \in 0 .. MaxFaults
  /\ queue \in Seq(Seq(Nat)) /\ Len(queue) <= queueCapacity /\ current \in Seq(Nat)
  /\ {closed, cancelled} \subseteq BOOLEAN
  /\ producer \in {"fetch", "send", "gone"} /\ produced \in Seq(Nat)
  /\ closer \in {"none", "closing", "waiting", "closed"}
  /\ pc \in [Callers -> {"idle", "get", "select", "install"}]
  /\ received \in [Callers -> Seq(Nat)]
  /\ calls \in [Callers -> Nat] /\ got \in [Callers -> Seq(Nat)]
=============================================================================
