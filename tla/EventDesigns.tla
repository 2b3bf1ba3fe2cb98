---------------------------- MODULE EventDesigns ----------------------------
(***************************************************************************)
(* The one-shot events that LeetCode/purestorage_ques.go writes down in    *)
(* pseudo-code for several threads:                                        *)
(*   "mutex"  a flag and a list behind a mutex                             *)
(*   "fast"   registration looks at the flag before it takes the mutex     *)
(*   "cas"    flag and list are one word, changed by compare-and-swap      *)
(* Nothing is read or written outside the critical sections but for the    *)
(* first look, and one in the middle of a critical section sees what it    *)
(* would see at its end: so each of them is one action.  A callback stands *)
(* for the thread that registers it.  No two lists of callbacks are the    *)
(* same object: a swap succeeds only if nothing has changed.               *)
(***************************************************************************)
EXTENDS Naturals

CONSTANTS Callbacks, Firers

VARIABLES
  kind, pc, fired, callbacks,
  seen,     \* what each thread has loaded
  pending,  \* callbacks each fire has detached and not run yet
  runs
vars == <<kind, pc, fired, callbacks, seen, pending, runs>>

Threads == Callbacks \union Firers
State == <<fired, callbacks>>

\* The threads that look before they decide.
Lookers == IF kind = "cas" THEN Threads ELSE IF kind = "fast" THEN Callbacks ELSE {}

Init ==
  /\ kind \in {"mutex", "fast", "cas"}
  /\ pc = [t \in Threads |-> IF t \in Lookers THEN "look" ELSE "decide"]
  /\ fired = FALSE /\ callbacks = {}
  /\ seen = [t \in Threads |-> State]
  /\ pending = [f \in Firers |-> {}]
  /\ runs = [c \in Callbacks |-> 0]

To(t, there) == pc' = [pc EXCEPT ![t] = there]

\* What is left to do for a thread that finds the event fired.
WhenFired(t) == IF t \in Callbacks THEN "execute" ELSE "returned"

Look(t) ==
  /\ pc[t] = "look"
  /\ seen' = [seen EXCEPT ![t] = State]
  /\ To(t, IF fired THEN WhenFired(t) ELSE "decide")
  /\ UNCHANGED <<kind, fired, callbacks, pending, runs>>

\* An atomic flag beside a concurrent queue, with nothing to coordinate them.
UncoordinatedSwap(t) == TRUE

Swaps(t) == kind = "cas" => seen[t] = State

\* What a thread decides from: its copy, or what the mutex protects.
Known(t) == IF kind = "cas" THEN seen[t] ELSE State

Retry(t) ==
  /\ pc[t] = "decide" /\ ~Swaps(t)
  /\ To(t, "look")
  /\ UNCHANGED <<kind, fired, callbacks, seen, pending, runs>>

FindFired(t) ==
  /\ pc[t] = "decide" /\ Known(t)[1]
  /\ To(t, WhenFired(t))
  /\ UNCHANGED <<kind, fired, callbacks, seen, pending, runs>>

\* Registering what was looked at and not what is there now.
EnqueueUnchecked(c) ==
  /\ pc[c] = "decide" /\ Swaps(c)
  /\ callbacks' = Known(c)[2] \union {c}
  /\ To(c, "returned")
  /\ UNCHANGED <<kind, fired, seen, pending, runs>>

Enqueue(c) ==
  /\ pc[c] = "decide" /\ Swaps(c) /\ ~Known(c)[1]
  /\ callbacks' = Known(c)[2] \union {c}
  /\ To(c, "returned")
  /\ UNCHANGED <<kind, fired, seen, pending, runs>>

Fire(f) ==
  /\ pc[f] = "decide" /\ Swaps(f) /\ ~Known(f)[1]
  /\ fired' = TRUE
  /\ pending' = [pending EXCEPT ![f] = Known(f)[2]] /\ callbacks' = {}
  /\ To(f, "execute")
  /\ UNCHANGED <<kind, seen, runs>>
-----------------------------------------------------------------------------
RunOwn(c) ==
  /\ pc[c] = "execute"
  /\ runs' = [runs EXCEPT ![c] = @ + 1]
  /\ To(c, "returned")
  /\ UNCHANGED <<kind, fired, callbacks, seen, pending>>

RunPending(f) ==
  /\ pc[f] = "execute"
  /\ \E c \in pending[f] :
       /\ pending' = [pending EXCEPT ![f] = @ \ {c}]
       /\ runs' = [runs EXCEPT ![c] = @ + 1]
  /\ UNCHANGED <<kind, pc, fired, callbacks, seen>>

FireReturn(f) ==
  /\ pc[f] = "execute" /\ pending[f] = {}
  /\ To(f, "returned")
  /\ UNCHANGED <<kind, fired, callbacks, seen, pending, runs>>

Step(t) ==
  \/ Look(t) \/ Retry(t) \/ FindFired(t)
  \/ t \in Callbacks /\ (Enqueue(t) \/ RunOwn(t))
  \/ t \in Firers /\ (Fire(t) \/ RunPending(t) \/ FireReturn(t))

Next == \E t \in Threads : Step(t)
-----------------------------------------------------------------------------
Held(c) == c \in callbacks \/ \E f \in Firers : c \in pending[f]

statusOf ==
  [c \in Callbacks |->
     IF (fired /\ Held(c)) \/ pc[c] = "execute" THEN "due"
     ELSE IF runs[c] > 0 THEN "done" ELSE IF Held(c) THEN "waiting" ELSE "idle"]
=============================================================================
