------------------------ MODULE MultiThreadedEvent -------------------------
(***************************************************************************)
(* MultiThreadedEvent of LeetCode/pureStorage5.go: RegisterCallback looks  *)
(* at the atomic flag first without and then with the mutex, Fire stores   *)
(* the flag and detaches the callbacks under the mutex, and the executor   *)
(* runs every callback in a goroutine of its own.                          *)
(*                                                                         *)
(* A callback stands for the goroutine that registers it.                  *)
(***************************************************************************)
EXTENDS Naturals

CONSTANTS
  Callbacks,  \* the calls of RegisterCallback
  Firers,     \* the calls of Fire
  Nobody      \* the mutex is free

ASSUME EventAssumption ==
  Callbacks \intersect Firers = {} /\ Nobody \notin Callbacks \union Firers

VARIABLES
  pc,         \* where each call is
  fired,      \* e.fired
  mutex,      \* e.mutex: who holds it
  callbacks,  \* e.callbacks
  pending,    \* the callbacks each Fire has detached and not started yet
  tasks,      \* goroutines started for a callback that have not run yet
  runs        \* how often a callback has run
vars == <<pc, fired, mutex, callbacks, pending, tasks, runs>>

Calls == Callbacks \union Firers

Init ==
  /\ pc = [t \in Calls |-> "begin"]
  /\ fired = FALSE /\ mutex = Nobody /\ callbacks = {}
  /\ pending = [f \in Firers |-> {}]
  /\ tasks = [c \in Callbacks |-> 0] /\ runs = [c \in Callbacks |-> 0]

At(t, here, there) == pc[t] = here /\ pc' = [pc EXCEPT ![t] = there]
-----------------------------------------------------------------------------
(* RegisterCallback                                                        *)

\* The fast path, or the decision to take the slow one.
RegisterLoad(c) ==
  /\ At(c, "begin", IF fired THEN "execute" ELSE "lock")
  /\ UNCHANGED <<fired, mutex, callbacks, pending, tasks, runs>>

Lock(t) ==
  /\ At(t, "lock", "locked")
  /\ mutex = Nobody /\ mutex' = t
  /\ UNCHANGED <<fired, callbacks, pending, tasks, runs>>

\* A slow path without the second check.
RegisterUnchecked(c) ==
  /\ At(c, "locked", "returned")
  /\ callbacks' = callbacks \union {c}
  /\ mutex' = Nobody
  /\ UNCHANGED <<fired, pending, tasks, runs>>

\* The second check and the append, up to the unlock.
RegisterStore(c) ==
  /\ At(c, "locked", IF fired THEN "execute" ELSE "returned")
  /\ callbacks' = IF fired THEN callbacks ELSE callbacks \union {c}
  /\ mutex' = Nobody
  /\ UNCHANGED <<fired, pending, tasks, runs>>

RegisterExecute(c) ==
  /\ At(c, "execute", "returned")
  /\ tasks' = [tasks EXCEPT ![c] = @ + 1]
  /\ UNCHANGED <<fired, mutex, callbacks, pending, runs>>
-----------------------------------------------------------------------------
(* Fire.  The flag is stored before the callbacks are detached, and the    *)
(* fast path of RegisterCallback may look in between.                      *)

FireBegin(f) ==
  /\ At(f, "begin", "lock")
  /\ UNCHANGED <<fired, mutex, callbacks, pending, tasks, runs>>

\* An early return that forgets to unlock.
FireAgainLocked(f) ==
  /\ At(f, "locked", "returned") /\ fired
  /\ UNCHANGED <<fired, mutex, callbacks, pending, tasks, runs>>

FireAgain(f) ==
  /\ At(f, "locked", "returned") /\ fired
  /\ mutex' = Nobody
  /\ UNCHANGED <<fired, callbacks, pending, tasks, runs>>

FireStore(f) ==
  /\ At(f, "locked", "detach") /\ ~fired
  /\ fired' = TRUE
  /\ UNCHANGED <<mutex, callbacks, pending, tasks, runs>>

\* A Fire that leaves its callbacks in the list.
FireCopy(f) ==
  /\ At(f, "detach", "execute")
  /\ pending' = [pending EXCEPT ![f] = callbacks]
  /\ mutex' = Nobody
  /\ UNCHANGED <<fired, callbacks, tasks, runs>>

\* A Fire that clears the list before it takes it.
FireClearFirst(f) ==
  /\ At(f, "detach", "execute")
  /\ callbacks' = {}
  /\ mutex' = Nobody
  /\ UNCHANGED <<fired, pending, tasks, runs>>

FireDetach(f) ==
  /\ At(f, "detach", "execute")
  /\ pending' = [pending EXCEPT ![f] = callbacks]
  /\ callbacks' = {}
  /\ mutex' = Nobody
  /\ UNCHANGED <<fired, tasks, runs>>

\* The list is walked in order; the goroutines are not, so the order is left
\* open here.
FireExecute(f) ==
  /\ pc[f] = "execute"
  /\ \E c \in pending[f] :
       /\ pending' = [pending EXCEPT ![f] = @ \ {c}]
       /\ tasks' = [tasks EXCEPT ![c] = @ + 1]
  /\ UNCHANGED <<pc, fired, mutex, callbacks, runs>>

\* A Fire that waits for the callbacks.
FireReturnAfterRuns(f) ==
  /\ At(f, "execute", "returned") /\ pending[f] = {}
  /\ \A c \in Callbacks : tasks[c] = 0
  /\ UNCHANGED <<fired, mutex, callbacks, pending, tasks, runs>>

FireReturn(f) ==
  /\ At(f, "execute", "returned") /\ pending[f] = {}
  /\ UNCHANGED <<fired, mutex, callbacks, pending, tasks, runs>>
-----------------------------------------------------------------------------
\* A goroutine of the executor runs its callback.
Run(c) ==
  /\ tasks[c] > 0
  /\ tasks' = [tasks EXCEPT ![c] = @ - 1]
  /\ runs' = [runs EXCEPT ![c] = @ + 1]
  /\ UNCHANGED <<pc, fired, mutex, callbacks, pending>>

Register(c) ==
  RegisterLoad(c) \/ Lock(c) \/ RegisterStore(c) \/ RegisterExecute(c)

Fire(f) ==
  \/ FireBegin(f) \/ Lock(f) \/ FireAgain(f) \/ FireStore(f)
  \/ FireDetach(f) \/ FireExecute(f) \/ FireReturn(f)

Next ==
  \/ \E c \in Callbacks : Register(c) \/ Run(c)
  \/ \E f \in Firers : Fire(f)

Spec == Init /\ [][Next]_vars
-----------------------------------------------------------------------------
TypeOK ==
  /\ pc \in [Calls -> {"begin", "lock", "locked", "detach", "execute",
                       "returned"}]
  /\ fired \in BOOLEAN
  /\ mutex \in {Nobody} \union {t \in Calls : pc[t] \in {"locked", "detach"}}
  /\ callbacks \subseteq Callbacks
  /\ pending \in [Firers -> SUBSET Callbacks]
  /\ tasks \in [Callbacks -> Nat] /\ runs \in [Callbacks -> Nat]

\* c waits to be started, in the list or with a Fire.
Held(c) == c \in callbacks \/ \E f \in Firers : c \in pending[f]

\* purestorage_ques.go:628: "A callback must be either in the callback list or
\* be selected for immediate execution, but never lost between those two
\* states" - nor selected twice: a registered callback is in the list, or with
\* one Fire, or it has been started exactly once.
OnePlace ==
  \A c \in Callbacks :
    /\ tasks[c] + runs[c] = IF pc[c] = "returned" /\ ~Held(c) THEN 1 ELSE 0
    /\ Held(c) => pc[c] = "returned"
    /\ \A f \in Firers : c \in pending[f] =>
         c \notin callbacks /\ \A g \in Firers : c \in pending[g] => f = g

\* Nobody waits in the list of an event that has fired, once the Fire that did
\* it has released the mutex.
NoStragglers == fired /\ mutex = Nobody => callbacks = {}

\* A call returns whatever the callbacks do, however long they take
\* (simulateSlowCallbacks: "SLOW CALLBACK DOES NOT HOLD EVENT LOCK").
CallsReturn == \A t \in Calls : <>(pc[t] = "returned")

\* A callback is due once the event has fired and someone has yet to run it.
Due(c) == (fired /\ Held(c)) \/ pc[c] = "execute" \/ tasks[c] > 0

statusOf ==
  [c \in Callbacks |-> IF runs[c] > 0 THEN "done"
                       ELSE IF Due(c) THEN "due"
                       ELSE IF Held(c) THEN "waiting" ELSE "idle"]

Event == INSTANCE OneShot WITH status <- statusOf

\* Every register, fire and run of the code is one of the abstract event.
ImplementsOneShot == Event!Spec
=============================================================================
