---------------------------- MODULE MultiThread ----------------------------
(***************************************************************************)
(* MultiThread of LeetCode/purestorage_final.go, the event whose executor  *)
(* runs a callback in the goroutine that calls it.  It differs from        *)
(* MultiThreadedEvent in evtfire, which looks at the flag before it takes  *)
(* the mutex and never again: two calls may both detach.                   *)
(*                                                                         *)
(* A callback stands for the goroutine that registers it.                  *)
(***************************************************************************)
EXTENDS Naturals

CONSTANTS
  Callbacks,  \* the calls of regcb
  Firers,     \* the calls of evtfire
  Nobody      \* the mutex is free

ASSUME ThreadAssumption ==
  Callbacks \intersect Firers = {} /\ Nobody \notin Callbacks \union Firers

VARIABLES
  pc,         \* where each call is
  fired,      \* t.fired
  mu,         \* t.mu: who holds it
  cbs,        \* t.cbs
  waitingcb,  \* what each evtfire has detached and not run yet
  runs        \* how often a callback has run
vars == <<pc, fired, mu, cbs, waitingcb, runs>>

Calls == Callbacks \union Firers

Init ==
  /\ pc = [t \in Calls |-> "begin"]
  /\ fired = FALSE /\ mu = Nobody /\ cbs = {}
  /\ waitingcb = [f \in Firers |-> {}]
  /\ runs = [c \in Callbacks |-> 0]

At(t, here, there) == pc[t] = here /\ pc' = [pc EXCEPT ![t] = there]

Lock(t) ==
  /\ At(t, "lock", "locked")
  /\ mu = Nobody /\ mu' = t
  /\ UNCHANGED <<fired, cbs, waitingcb, runs>>
-----------------------------------------------------------------------------
(* regcb                                                                   *)

RegLoad(c) ==
  /\ At(c, "begin", IF fired THEN "execute" ELSE "lock")
  /\ UNCHANGED <<fired, mu, cbs, waitingcb, runs>>

\* Registering without the second look at the flag.
RegUnchecked(c) ==
  /\ At(c, "locked", "returned")
  /\ cbs' = cbs \union {c}
  /\ mu' = Nobody
  /\ UNCHANGED <<fired, waitingcb, runs>>

RegStore(c) ==
  /\ At(c, "locked", IF fired THEN "execute" ELSE "returned")
  /\ cbs' = IF fired THEN cbs ELSE cbs \union {c}
  /\ mu' = Nobody
  /\ UNCHANGED <<fired, waitingcb, runs>>

RegExecute(c) ==
  /\ At(c, "execute", "returned")
  /\ runs' = [runs EXCEPT ![c] = @ + 1]
  /\ UNCHANGED <<fired, mu, cbs, waitingcb>>
-----------------------------------------------------------------------------
(* evtfire                                                                 *)

FireLoad(f) ==
  /\ At(f, "begin", IF fired THEN "returned" ELSE "lock")
  /\ UNCHANGED <<fired, mu, cbs, waitingcb, runs>>

FireStore(f) ==
  /\ At(f, "locked", "detach")
  /\ fired' = TRUE
  /\ UNCHANGED <<mu, cbs, waitingcb, runs>>

FireDetach(f) ==
  /\ At(f, "detach", "execute")
  /\ waitingcb' = [waitingcb EXCEPT ![f] = cbs]
  /\ cbs' = {}
  /\ mu' = Nobody
  /\ UNCHANGED <<fired, runs>>

FireExecute(f) ==
  /\ pc[f] = "execute"
  /\ \E c \in waitingcb[f] :
       /\ waitingcb' = [waitingcb EXCEPT ![f] = @ \ {c}]
       /\ runs' = [runs EXCEPT ![c] = @ + 1]
  /\ UNCHANGED <<pc, fired, mu, cbs>>

FireReturn(f) ==
  /\ At(f, "execute", "returned")
  /\ waitingcb[f] = {}
  /\ UNCHANGED <<fired, mu, cbs, waitingcb, runs>>
-----------------------------------------------------------------------------
regcb(c) ==
  \/ RegLoad(c) \/ Lock(c) \/ RegStore(c) \/ RegExecute(c)
evtfire(f) ==
  \/ FireLoad(f) \/ Lock(f) \/ FireStore(f)
  \/ FireDetach(f) \/ FireExecute(f) \/ FireReturn(f)

Next ==
  \/ \E c \in Callbacks : regcb(c)
  \/ \E f \in Firers : evtfire(f)
-----------------------------------------------------------------------------
Held(c) == c \in cbs \/ \E f \in Firers : c \in waitingcb[f]

statusOf ==
  [c \in Callbacks |->
     IF (fired /\ Held(c)) \/ pc[c] = "execute" THEN "due"
     ELSE IF runs[c] > 0 THEN "done" ELSE IF Held(c) THEN "waiting" ELSE "idle"]
=============================================================================
