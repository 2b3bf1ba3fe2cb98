---------------------------- MODULE MonitorDemos ----------------------------
(***************************************************************************)
(* The programs of LeetCode/ whose goroutines meet under a mutex with a    *)
(* condition variable.  They have nothing in common but that: a behaviour  *)
(* is one of a program chosen at the start, and the variables of the other *)
(* programs keep their values.                                             *)
(***************************************************************************)
EXTENDS PriorityLock, Sequences

CONSTANTS
  Hs, Os,                                        \* H2O
  Producers, Consumers, queueCalls, capacity,    \* BlockingQueue
  length                                         \* FizzBuzz

ASSUME DemoAssumption ==
  /\ Hs \intersect Os = {} /\ Producers \intersect Consumers = {}
  /\ queueCalls \in [Producers \union Consumers -> Nat]
  /\ {capacity, length} \subseteq Nat \ {0}

VARIABLES
  demo,
  hCount, oCount, hpc, atoms,        \* H2O
  q, qpc, qcalls, put, taken,        \* BlockingQueue
  i, holder, fpc, printed            \* FizzBuzz

Water == INSTANCE H2O WITH pc <- hpc, printed <- atoms
Queue == INSTANCE BlockingQueue WITH
  pc <- qpc, calls <- qcalls, CallsOf <- queueCalls, n <- capacity
Fizz == INSTANCE FizzBuzz WITH pc <- fpc, n <- length

hVars == <<hCount, oCount, hpc, atoms>>
qVars == <<q, qpc, qcalls, put, taken>>
fVars == <<i, holder, fpc, printed>>
allVars == <<demo, vars, hVars, qVars, fVars>>

NotLock == UNCHANGED <<demo, hVars, qVars, fVars>>
NotWater == UNCHANGED <<demo, vars, qVars, fVars>>
NotQueue == UNCHANGED <<demo, vars, hVars, fVars>>
NotFizz == UNCHANGED <<demo, vars, hVars, qVars>>

DemosInit ==
  /\ Init /\ Water!Init /\ Queue!Init /\ Fizz!Init
  /\ demo \in {"lock", "water", "queue", "fizz"}
  /\ demo # "lock" => kind = "flag"
-----------------------------------------------------------------------------
LockStep ==
  /\ demo = "lock" /\ NotLock
  /\ (\E u \in Users : StepUser(u)) \/ (\E e \in Events : StepEvent(e))
WaterStep == demo = "water" /\ Water!Next /\ NotWater
QueueStep == demo = "queue" /\ Queue!Next /\ NotQueue
FizzStep == demo = "fizz" /\ Fizz!Next /\ NotFizz

DemosNext ==
  \/ demo = "lock" /\ Next /\ NotLock
  \/ WaterStep \/ QueueStep \/ FizzStep

\* The program goes on while any of its goroutines can: sleeps end, mutexes are
\* handed over.  As calls are bounded no goroutine can be passed over for ever,
\* and nothing has to be assumed of each of them.
FairSpec ==
  /\ DemosInit /\ [][DemosNext]_allVars
  /\ WF_allVars(LockStep) /\ WF_allVars(WaterStep) /\ WF_allVars(FizzStep)
-----------------------------------------------------------------------------
\* Nobody sleeps who could go on: no broadcast is missing.
NoLostWakeup == Water!NoLostWakeup /\ Queue!NoLostWakeup

\* What comes out is what went in: the log of 1117 falls into molecules, 1188 is
\* a queue, and the log of 1195 is the series.
RightOrder == Water!WholeMolecules /\ Queue!FirstInFirstOut /\ Fizz!SeriesInOrder

\* Every request of a lock is served and every event over some day, except the
\* one the flag forgets and those of a lock that is entangled for good, and 1117
\* and 1195 print everything there is to print, given atoms that match.
RequestsServed ==
  /\ \A t \in Goroutines : pc[t] # "idle" ~> pc[t] = "idle" \/ Forgotten(t) \/ Entangled
  /\ (demo = "water" /\ Cardinality(Hs) = 2 * Cardinality(Os)) ~>
       (\A a \in Hs \union Os : hpc[a] = "done")
  /\ demo = "fizz" ~> Len(printed) = length

\* The type invariants, and the lock's counts of its readers.
AllTypesOK == TypeOK /\ ReadersCounted /\ Water!TypeOK /\ Queue!TypeOK /\ Fizz!TypeOK
=============================================================================
