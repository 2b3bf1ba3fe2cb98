------------------------ MODULE SingleThreadedEvent ------------------------
(***************************************************************************)
(* SingleThreadedEvent of LeetCode/pureStorage5.go, and the solution for   *)
(* one thread in LeetCode/purestorage_ques.go.  Callbacks run in the stack *)
(* of the call that runs them, where they may call the event again.        *)
(***************************************************************************)
EXTENDS Sequences, SequencesExt

CONSTANT Callbacks

VARIABLES
  fired,      \* e.fired
  callbacks,  \* e.callbacks
  stack,      \* calls that run callbacks, innermost last: what each has left to
              \* run, the callback it is running first
  runs        \* how often a callback has run
vars == <<fired, callbacks, stack, runs>>

Init ==
  /\ fired = FALSE /\ callbacks = << >> /\ stack = << >>
  /\ runs = [c \in Callbacks |-> 0]

OnStack(c) == \E i \in DOMAIN stack : c \in ToSet(stack[i])
New(c) == c \notin ToSet(callbacks) /\ ~OnStack(c) /\ runs[c] = 0

Call(list) == stack' = IF list = << >> THEN stack ELSE Append(stack, list)

\* Registering without a look at the flag.
RegisterAlways(c) ==
  /\ New(c)
  /\ callbacks' = Append(callbacks, c)
  /\ UNCHANGED <<fired, stack, runs>>

\* By whoever has control: main, or the callback that runs.
RegisterCallback(c) ==
  /\ New(c)
  /\ Call(IF fired THEN <<c>> ELSE << >>)
  /\ callbacks' = IF fired THEN callbacks ELSE Append(callbacks, c)
  /\ UNCHANGED <<fired, runs>>

\* A later Fire returns at once, also one by a callback of the first.
Fire ==
  /\ fired' = TRUE
  /\ Call(IF fired THEN << >> ELSE callbacks)
  /\ callbacks' = IF fired THEN callbacks ELSE << >>
  /\ UNCHANGED runs

\* The innermost callback returns, and its caller runs the next or returns.
Return ==
  /\ stack # << >>
  /\ LET top == Last(stack)
         left == Front(stack) IN
       /\ runs' = [runs EXCEPT ![Head(top)] = @ + 1]
       /\ stack' = IF Len(top) = 1 THEN left ELSE Append(left, Tail(top))
  /\ UNCHANGED <<fired, callbacks>>

Next == Fire \/ Return \/ \E c \in Callbacks : RegisterCallback(c)
-----------------------------------------------------------------------------
statusOf ==
  [c \in Callbacks |-> IF OnStack(c) THEN "due"
                       ELSE IF runs[c] > 0 THEN "done"
                       ELSE IF c \in ToSet(callbacks) THEN "waiting" ELSE "idle"]
=============================================================================
