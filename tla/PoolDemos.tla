------------------------------ MODULE PoolDemos -----------------------------
(***************************************************************************)
(* LeetCode/pureStorageDesignFinal.go as a whole: its main runs one        *)
(* demonstration after another, each with a generator and a source of its  *)
(* own.  A behaviour runs one of them, with more callers of Close than the *)
(* demonstrations have; the variables of the others keep their values.     *)
(***************************************************************************)
EXTENDS IDPool

CONSTANTS
  workerCalls, doubleBatch,   \* CallsOf and batch of these two
  queueCapacity,
  Machines, On, chunk, Pool   \* see RangeGenerators

ASSUME DemoAssumption ==
  /\ workerCalls \in [Callers -> Nat] /\ doubleBatch \in Nat \ {0}
  /\ queueCapacity \in Nat \ {0}
  /\ On \in [Callers -> Machines] /\ chunk \in Nat \ {0} /\ Pool \subseteq Nat

VARIABLES
  demo,
  next, faults, closed, pc, calls, got,          \* what the generators share
  buffer, refilling, fetched,                    \* SingleBuffer
  active, standby, filling, fetching, filled,    \* DoubleBuffer
  queue, current, cancelled, producer, produced, closer, received,
                                                 \* WorkerGenerator
  kind, used, from, end, shut                    \* RangeGenerators

Single == INSTANCE SingleBuffer
Double == INSTANCE DoubleBuffer WITH batch <- doubleBatch
Worker == INSTANCE WorkerGenerator WITH CallsOf <- workerCalls
Ranges == INSTANCE RangeGenerators

poolVars == <<next, faults, closed, pc, calls, got>>
singleVars == <<buffer, refilling, fetched>>
doubleVars == <<active, standby, filling, fetching, filled>>
workerVars == <<queue, current, cancelled, producer, produced, closer, received>>
rangeVars == <<kind, used, from, end, shut>>
vars == <<demo, poolVars, singleVars, doubleVars, workerVars, rangeVars>>

NotSingle == UNCHANGED <<demo, doubleVars, workerVars, rangeVars>>
NotDouble == UNCHANGED <<demo, singleVars, workerVars, rangeVars>>
NotWorker == UNCHANGED <<demo, singleVars, doubleVars, rangeVars>>
NotRanges ==
  UNCHANGED <<demo, faults, closed, pc, singleVars, doubleVars, workerVars>>

Init ==
  /\ Single!Init /\ Double!Init /\ Worker!Init /\ Ranges!Init
  /\ demo \in {"single", "double", "worker", "ranges"}
  /\ demo # "ranges" => kind = "naive"
-----------------------------------------------------------------------------
SingleStep(c) == demo = "single" /\ Single!Step(c) /\ NotSingle
DoubleStep(c) == demo = "double" /\ Double!Step(c) /\ NotDouble
DoubleFill == demo = "double" /\ Double!Fill /\ NotDouble
WorkerStep(c) == demo = "worker" /\ Worker!Step(c) /\ NotWorker
WorkerReceive(c) == demo = "worker" /\ Worker!Receive(c) /\ NotWorker
WorkerProduce == demo = "worker" /\ Worker!Produce /\ NotWorker
WorkerShutdown == demo = "worker" /\ Worker!Shutdown /\ NotWorker

Next ==
  \/ demo = "single" /\ Single!Next /\ NotSingle
  \/ demo = "double" /\ Double!Next /\ NotDouble
  \/ demo = "worker" /\ Worker!Next /\ NotWorker
  \/ demo = "ranges" /\ Ranges!Next /\ NotRanges

\* Goroutines run on.  A caller in the select of WorkerGenerator takes a batch
\* that is there rather than wait for the timer to expire again and again.
FairSpec ==
  /\ Init /\ [][Next]_vars
  /\ \A c \in Callers :
       /\ WF_vars(SingleStep(c)) /\ WF_vars(DoubleStep(c)) /\ WF_vars(WorkerStep(c))
       /\ SF_vars(WorkerReceive(c))
  /\ WF_vars(DoubleFill) /\ WF_vars(WorkerProduce) /\ WF_vars(WorkerShutdown)
-----------------------------------------------------------------------------
\* No generator returns an id twice, neither to one caller nor to two, however
\* fetching, refilling and closing interleave.
Fresh == INSTANCE FreshIDs
ImplementsFreshIDs == Fresh!Spec

\* Only one goroutine at a time fetches for a buffer and it finds the buffer as
\* empty as it left it, so that, while a buffering generator is open, no batch
\* is dropped or overwritten.  (The queueing one may drop part of a batch.)
FillsApart ==
  /\ demo = "single" => Single!OneRefills /\ Single!NoIDSkipped
  /\ demo = "double" => Double!OneFills /\ Double!NoIDSkipped

\* Every call returns: a waiter is woken whether the fill succeeds, fails or
\* comes after Close, and WorkerGenerator's Close ends a producer that waits at
\* a full queue.  Only calls that need a producer whose source has failed go on
\* polling.
CallsReturn ==
  /\ \A c \in Callers :
       pc[c] # "idle" ~> pc[c] = "idle" \/ (demo = "worker" /\ producer = "gone" /\ ~closed)
  /\ closer # "none" ~> closer = "closed"

\* When WorkerGenerator's Close has returned the source is asked no more.
QuietAfterClose == [][closer = "closed" => next' = next]_vars

TypeOK ==
  /\ demo = "single" => Single!TypeOK
  /\ demo = "double" => Double!TypeOK
  /\ demo = "worker" => Worker!TypeOK
  /\ demo = "ranges" => Ranges!TypeOK
=============================================================================
