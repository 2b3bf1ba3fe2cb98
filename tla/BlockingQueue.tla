--------------------------- MODULE BlockingQueue ----------------------------
(***************************************************************************)
(* LeetCode/1188: a bounded queue whose Enqueue and Dequeue wait on one    *)
(* condition variable.  Each section under the mutex is one action; Size   *)
(* changes nothing.                                                        *)
(***************************************************************************)
EXTENDS Integers, Sequences

CONSTANTS
  Producers, Consumers,
  CallsOf,   \* bound: how often each calls Enqueue or Dequeue
  n          \* the capacity

VARIABLES
  q,
  pc, calls,
  put, taken   \* history: what went in and came out, oldest first
vars == <<q, pc, calls, put, taken>>

Threads == Producers \union Consumers

Init ==
  /\ q = <<>>
  /\ pc = [t \in Threads |-> "idle"] /\ calls = [t \in Threads |-> 0]
  /\ put = <<>> /\ taken = <<>>
-----------------------------------------------------------------------------
Call(t) ==
  /\ pc[t] = "idle" /\ calls[t] < CallsOf[t]
  /\ calls' = [calls EXCEPT ![t] = @ + 1]
  /\ pc' = [pc EXCEPT ![t] = "called"]
  /\ UNCHANGED <<q, put, taken>>

Full == Len(q) = n
Waits(t) == IF t \in Producers THEN Full ELSE q = <<>>

Wait(t) ==
  /\ pc[t] \in {"called", "woken"} /\ Waits(t)
  /\ pc' = [pc EXCEPT ![t] = "waiting"]
  /\ UNCHANGED <<q, calls, put, taken>>

\* Signal, which wakes one waiter of either kind.
Signal(t) ==
  LET out == [pc EXCEPT ![t] = "idle"] IN
  \/ \E u \in Threads : out[u] = "waiting" /\ pc' = [out EXCEPT ![u] = "woken"]
  \/ (\A u \in Threads : out[u] # "waiting") /\ pc' = out

\* Broadcast, and the end of thread t's call.
Broadcast(t) ==
  pc' = [u \in Threads |-> IF u = t THEN "idle"
                           ELSE IF pc[u] = "waiting" THEN "woken" ELSE pc[u]]

\* A call's element is known by its caller and number.
Enqueue(t) ==
  /\ t \in Producers /\ pc[t] \in {"called", "woken"} /\ ~Waits(t)
  /\ q' = Append(q, <<t, calls[t]>>) /\ put' = Append(put, <<t, calls[t]>>)
  /\ Broadcast(t)
  /\ UNCHANGED <<calls, taken>>

\* Taking the element that came last.
TakeLast ==
  /\ taken' = Append(taken, q[Len(q)])
  /\ q' = SubSeq(q, 1, Len(q) - 1)

TakeFirst ==
  /\ taken' = Append(taken, Head(q))
  /\ q' = Tail(q)

Dequeue(t) ==
  /\ t \in Consumers /\ pc[t] \in {"called", "woken"} /\ ~Waits(t)
  /\ TakeFirst
  /\ Broadcast(t)
  /\ UNCHANGED <<calls, put>>

Step(t) == Wait(t) \/ Enqueue(t) \/ Dequeue(t)
Next == \E t \in Threads : Call(t) \/ Step(t)

Spec == Init /\ [][Next]_vars
-----------------------------------------------------------------------------
\* What comes out is what went in, in that order, and the queue holds the rest
\* (1188/main.go:17: dequeue "Returns the element at the front of the queue").
FirstInFirstOut == put = taken \o q

\* A thread waits only as long as it has to: with both kinds of waiters on one
\* condition, no wakeup goes to the wrong one alone.
NoLostWakeup == \A t \in Threads : pc[t] = "waiting" => Waits(t)

TypeOK ==
  /\ q \in Seq(Producers \X Nat) /\ Len(q) <= n
  /\ pc \in [Threads -> {"idle", "called", "waiting", "woken"}]
  /\ calls \in [Threads -> Nat]
  /\ {put, taken} \subseteq Seq(Producers \X Nat)
=============================================================================
