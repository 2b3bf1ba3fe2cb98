-------------------------- MODULE EventSimulation --------------------------
(***************************************************************************)
(* simulateMultiThreaded of LeetCode/pureStorage5.go: main starts          *)
(* goroutines that register callbacks and fire the event, and waits with   *)
(* one WaitGroup for the goroutines and then with another for the          *)
(* callbacks.  The sleeps only make some orders likely and none certain.   *)
(***************************************************************************)
EXTENDS MultiThreadedEvent, Sequences, SequencesExt

CONSTANT Later  \* the callbacks that one goroutine registers, in this order

ASSUME LaterAssumption == Later \in Seq(Callbacks) /\ IsInjective(Later)

VARIABLES
  working,     \* the goroutines registrationWG still counts
  added,       \* the callbacks for which callbackWG.Add has been called
  callbackWG,  \* its counter
  main         \* what main waits for, "done" after both
simVars == <<vars, working, added, callbackWG, main>>

\* A goroutine goes by its last call.
Goroutines == Calls \ ToSet(IF Later = << >> THEN Later ELSE Front(Later))

SimInit ==
  /\ Init
  /\ working = Goroutines
  /\ added = {} /\ callbackWG = 0
  /\ main = "goroutines"

\* The goroutine of c has come to c.
Turn(c) ==
  \A i \in DOMAIN Later : (i > 1 /\ Later[i] = c) => pc[Later[i - 1]] = "returned"

Add(c) ==
  /\ Turn(c) /\ c \notin added
  /\ added' = added \union {c} /\ callbackWG' = callbackWG + 1
  /\ UNCHANGED <<vars, working, main>>

Call(t) ==
  /\ (t \in added /\ Register(t)) \/ (t \in Firers /\ Fire(t))
  /\ UNCHANGED <<working, added, callbackWG, main>>

Done(t) ==
  /\ t \in working /\ pc[t] = "returned"
  /\ working' = working \ {t}
  /\ UNCHANGED <<vars, added, callbackWG, main>>

\* The callback runs, and its deferred callbackWG.Done.
RunCallback(c) ==
  /\ Run(c)
  /\ callbackWG' = callbackWG - 1
  /\ UNCHANGED <<working, added, main>>

\* Waiting for the callbacks alone.
NoWait ==
  /\ main = "goroutines" /\ main' = "callbacks"
  /\ UNCHANGED <<vars, working, added, callbackWG>>

WaitGoroutines ==
  /\ main = "goroutines" /\ working = {} /\ main' = "callbacks"
  /\ UNCHANGED <<vars, working, added, callbackWG>>

WaitCallbacks ==
  /\ main = "callbacks" /\ callbackWG = 0 /\ main' = "done"
  /\ UNCHANGED <<vars, working, added, callbackWG>>

Goroutine(t) == (t \in Callbacks /\ Add(t)) \/ Call(t) \/ Done(t)

SimNext ==
  \/ \E t \in Calls : Goroutine(t)
  \/ \E c \in Callbacks : RunCallback(c)
  \/ WaitGoroutines \/ WaitCallbacks

\* As long as a goroutine or main can go on, one of them does.  That is enough,
\* since each makes finitely many steps.  Nothing is said of when a callback
\* runs, or whether it ever does.
FairSimulation ==
  /\ SimInit /\ [][SimNext]_simVars
  /\ WF_simVars((\E t \in Calls : Goroutine(t)) \/ WaitGoroutines \/ WaitCallbacks)
-----------------------------------------------------------------------------
\* Provided that the callbacks are scheduled, main sees the end, and by then
\* each callback has run, once: callbackWG is not waited for while an Add may
\* still come, and nobody who was counted is forgotten by the event.
CallbacksAwaited ==
  (\A c \in Callbacks : WF_simVars(RunCallback(c)))
    => /\ <>(main = "done")
       /\ [](main = "done" => \A c \in Callbacks : runs[c] = 1)
=============================================================================
