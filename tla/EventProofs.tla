---------------------------- MODULE EventProofs ----------------------------
(***************************************************************************)
(* Proofs about the one-shot events.  Of MultiThreadedEvent: the mutex     *)
(* excludes, no callback is lost or started twice, and every step is a     *)
(* step of OneShot.  Of the five others, which EventDemos runs: every step *)
(* is a step of OneShot, for any number of callbacks and of calls that     *)
(* fire.  A variable of MultiThreadedEvent stands for those of the others  *)
(* that mean the same.                                                     *)
(***************************************************************************)
EXTENDS MultiThreadedEvent, SequenceTheorems, TLAPS

VARIABLES
  queue, stack,  \* SingleThreadedEvent: the list and the calls that run callbacks
  kind, seen     \* EventDesigns

Thread == INSTANCE MultiThread WITH mu <- mutex, cbs <- callbacks, waitingcb <- pending
Single == INSTANCE SingleThreadedEvent WITH callbacks <- queue
Design == INSTANCE EventDesigns

ThreadNow == Thread!statusOf
SingleNow == Single!statusOf
DesignNow == Design!statusOf

ThreadEvent == INSTANCE OneShot WITH status <- ThreadNow
SingleEvent == INSTANCE OneShot WITH status <- SingleNow
DesignEvent == INSTANCE OneShot WITH status <- DesignNow

\* The mutex is with the one call inside its critical section, only a Fire
\* that has stored the flag detaches, and a Fire holds callbacks only while it
\* starts them.
LockInv ==
  /\ \A t \in Calls : pc[t] \in {"locked", "detach"} => mutex = t
  /\ \A c \in Callbacks : pc[c] # "detach"
  /\ \A f \in Firers : pc[f] \in {"detach", "execute"} => fired
  /\ \A f \in Firers : pc[f] # "execute" => pending[f] = {}

\* The list of an event that has fired is empty unless the Fire that did it is
\* about to detach it.
ListInv == fired /\ (\A f \in Firers : pc[f] # "detach") => callbacks = {}

IInv == TypeOK /\ LockInv /\ ListInv /\ OnePlace

\* One call of RegisterCallback and one of Fire are different threads.
LEMMA CallFacts ==
  /\ \A c \in Callbacks : c \in Calls /\ c \notin Firers
  /\ \A f \in Firers : f \in Calls /\ f \notin Callbacks
  /\ Nobody \notin Calls
  BY EventAssumption DEF Calls

\* The steps of the two calls, told apart by what they change.
LEMMA NextCases ==
  ASSUME [Next]_vars
  PROVE  \/ \E c \in Callbacks : RegisterLoad(c)
         \/ \E t \in Calls : Lock(t)
         \/ \E c \in Callbacks : RegisterStore(c)
         \/ \E c \in Callbacks : RegisterExecute(c)
         \/ \E c \in Callbacks : Run(c)
         \/ \E f \in Firers : FireBegin(f)
         \/ \E f \in Firers : FireAgain(f)
         \/ \E f \in Firers : FireStore(f)
         \/ \E f \in Firers : FireDetach(f)
         \/ \E f \in Firers : FireExecute(f)
         \/ \E f \in Firers : FireReturn(f)
         \/ UNCHANGED vars
  BY CallFacts DEF Next, Register, Fire

\* Types are kept.
LEMMA TypeStep == TypeOK /\ [Next]_vars => TypeOK'
<1> SUFFICES ASSUME TypeOK, [Next]_vars PROVE TypeOK'
  OBVIOUS
<1> USE CallFacts DEF TypeOK, At
<1>1. ASSUME NEW c \in Callbacks, RegisterLoad(c) PROVE TypeOK'
  BY <1>1 DEF RegisterLoad
<1>2. ASSUME NEW t \in Calls, Lock(t) PROVE TypeOK'
  BY <1>2 DEF Lock
<1>3. ASSUME NEW c \in Callbacks, RegisterStore(c) PROVE TypeOK'
  BY <1>3 DEF RegisterStore
<1>4. ASSUME NEW c \in Callbacks, RegisterExecute(c) PROVE TypeOK'
  BY <1>4 DEF RegisterExecute
<1>5. ASSUME NEW c \in Callbacks, Run(c) PROVE TypeOK'
  BY <1>5 DEF Run
<1>6. ASSUME NEW f \in Firers, FireBegin(f) PROVE TypeOK'
  BY <1>6 DEF FireBegin
<1>7. ASSUME NEW f \in Firers, FireAgain(f) PROVE TypeOK'
  BY <1>7 DEF FireAgain
<1>8. ASSUME NEW f \in Firers, FireStore(f) PROVE TypeOK'
  BY <1>8 DEF FireStore
<1>9. ASSUME NEW f \in Firers, FireDetach(f) PROVE TypeOK'
  BY <1>9 DEF FireDetach
<1>10. ASSUME NEW f \in Firers, FireExecute(f) PROVE TypeOK'
  BY <1>10 DEF FireExecute
<1>11. ASSUME NEW f \in Firers, FireReturn(f) PROVE TypeOK'
  BY <1>11 DEF FireReturn
<1>12. CASE UNCHANGED vars
  BY <1>12 DEF vars
<1> QED
  BY <1>1, <1>2, <1>3, <1>4, <1>5, <1>6, <1>7, <1>8, <1>9, <1>10, <1>11,
     <1>12, NextCases

\* What holds of the mutex and of the calls of Fire is kept.
LEMMA LockStep == TypeOK /\ LockInv /\ [Next]_vars => LockInv'
<1> SUFFICES ASSUME TypeOK, LockInv, [Next]_vars PROVE LockInv'
  OBVIOUS
<1> USE CallFacts DEF TypeOK, LockInv, At
<1>1. ASSUME NEW c \in Callbacks, RegisterLoad(c) PROVE LockInv'
  BY <1>1 DEF RegisterLoad
<1>2. ASSUME NEW t \in Calls, Lock(t) PROVE LockInv'
  BY <1>2 DEF Lock
<1>3. ASSUME NEW c \in Callbacks, RegisterStore(c) PROVE LockInv'
  BY <1>3 DEF RegisterStore
<1>4. ASSUME NEW c \in Callbacks, RegisterExecute(c) PROVE LockInv'
  BY <1>4 DEF RegisterExecute
<1>5. ASSUME NEW c \in Callbacks, Run(c) PROVE LockInv'
  BY <1>5 DEF Run
<1>6. ASSUME NEW f \in Firers, FireBegin(f) PROVE LockInv'
  BY <1>6 DEF FireBegin
<1>7. ASSUME NEW f \in Firers, FireAgain(f) PROVE LockInv'
  BY <1>7 DEF FireAgain
<1>8. ASSUME NEW f \in Firers, FireStore(f) PROVE LockInv'
  BY <1>8 DEF FireStore
<1>9. ASSUME NEW f \in Firers, FireDetach(f) PROVE LockInv'
  BY <1>9 DEF FireDetach
<1>10. ASSUME NEW f \in Firers, FireExecute(f) PROVE LockInv'
  BY <1>10 DEF FireExecute
<1>11. ASSUME NEW f \in Firers, FireReturn(f) PROVE LockInv'
  BY <1>11 DEF FireReturn
<1>12. CASE UNCHANGED vars
  BY <1>12 DEF vars
<1> QED
  BY <1>1, <1>2, <1>3, <1>4, <1>5, <1>6, <1>7, <1>8, <1>9, <1>10, <1>11,
     <1>12, NextCases

\* Nothing gets into the list of an event that has fired.
LEMMA ListStep == TypeOK /\ LockInv /\ ListInv /\ [Next]_vars => ListInv'
<1> SUFFICES ASSUME TypeOK, LockInv, ListInv, [Next]_vars PROVE ListInv'
  OBVIOUS
<1> USE CallFacts DEF TypeOK, LockInv, ListInv, At
<1>1. ASSUME NEW c \in Callbacks, RegisterStore(c) PROVE ListInv'
  BY <1>1 DEF RegisterStore
<1>2. ASSUME NEW f \in Firers, FireStore(f) PROVE ListInv'
  BY <1>2 DEF FireStore
<1>3. ASSUME NEW f \in Firers, FireDetach(f) PROVE ListInv'
  BY <1>3 DEF FireDetach
<1>4. ASSUME /\ UNCHANGED <<fired, callbacks>>
             /\ \A f \in Firers : pc[f] = "detach" => pc'[f] = "detach"
      PROVE  ListInv'
  BY <1>4
<1>5. ASSUME NEW c \in Callbacks,
             RegisterLoad(c) \/ RegisterExecute(c) \/ Run(c)
      PROVE  /\ UNCHANGED <<fired, callbacks>>
             /\ \A f \in Firers : pc[f] = "detach" => pc'[f] = "detach"
  BY <1>5 DEF RegisterLoad, RegisterExecute, Run
<1>6. ASSUME NEW f \in Firers,
             FireBegin(f) \/ FireAgain(f) \/ FireExecute(f) \/ FireReturn(f)
      PROVE  /\ UNCHANGED <<fired, callbacks>>
             /\ \A g \in Firers : pc[g] = "detach" => pc'[g] = "detach"
  BY <1>6 DEF FireBegin, FireAgain, FireExecute, FireReturn
<1>7. ASSUME NEW t \in Calls, Lock(t)
      PROVE  /\ UNCHANGED <<fired, callbacks>>
             /\ \A g \in Firers : pc[g] = "detach" => pc'[g] = "detach"
  BY <1>7 DEF Lock
<1>8. CASE UNCHANGED vars
  BY <1>8 DEF vars
<1> QED
  BY <1>1, <1>2, <1>3, <1>4, <1>5, <1>6, <1>7, <1>8, NextCases

\* A callback that has been registered is in one place.
LEMMA PlaceStep ==
  TypeOK /\ LockInv /\ OnePlace /\ [Next]_vars => OnePlace'
<1> SUFFICES ASSUME TypeOK, LockInv, OnePlace, [Next]_vars PROVE OnePlace'
  OBVIOUS
<1> USE CallFacts DEF TypeOK, LockInv, OnePlace, Held, At
<1>1. ASSUME NEW c \in Callbacks, RegisterLoad(c) PROVE OnePlace'
  BY <1>1 DEF RegisterLoad
<1>2. ASSUME NEW t \in Calls, Lock(t) PROVE OnePlace'
  BY <1>2 DEF Lock
<1>3. ASSUME NEW c \in Callbacks, RegisterStore(c) PROVE OnePlace'
  BY <1>3 DEF RegisterStore
<1>4. ASSUME NEW c \in Callbacks, RegisterExecute(c) PROVE OnePlace'
  BY <1>4 DEF RegisterExecute
<1>5. ASSUME NEW c \in Callbacks, Run(c) PROVE OnePlace'
  BY <1>5 DEF Run
<1>6. ASSUME NEW f \in Firers, FireBegin(f) PROVE OnePlace'
  BY <1>6 DEF FireBegin
<1>7. ASSUME NEW f \in Firers, FireAgain(f) PROVE OnePlace'
  BY <1>7 DEF FireAgain
<1>8. ASSUME NEW f \in Firers, FireStore(f) PROVE OnePlace'
  BY <1>8 DEF FireStore
<1>9. ASSUME NEW f \in Firers, FireDetach(f) PROVE OnePlace'
  BY <1>9 DEF FireDetach
<1>10. ASSUME NEW f \in Firers, FireExecute(f) PROVE OnePlace'
  BY <1>10 DEF FireExecute
<1>11. ASSUME NEW f \in Firers, FireReturn(f) PROVE OnePlace'
  BY <1>11 DEF FireReturn
<1>12. CASE UNCHANGED vars
  BY <1>12 DEF vars
<1> QED
  BY <1>1, <1>2, <1>3, <1>4, <1>5, <1>6, <1>7, <1>8, <1>9, <1>10, <1>11,
     <1>12, NextCases

\* The inductive invariant holds of every behaviour of the event.
THEOREM Invariance == Spec => []IInv
<1>1. ASSUME Init PROVE IInv
  <2>1. fired \in BOOLEAN /\ ListInv
    BY <1>1, Zenon DEF Init, ListInv
  <2>2. TypeOK
    BY <1>1, <2>1, CallFacts DEF Init, TypeOK
  <2>3. LockInv
    BY <1>1, CallFacts DEF Init, LockInv
  <2>4. OnePlace
    <3>1. /\ \A c \in Callbacks : /\ tasks[c] = 0 /\ runs[c] = 0
                                 /\ pc[c] = "begin" /\ c \notin callbacks
          /\ \A f \in Firers : pending[f] = {}
      BY <1>1, CallFacts DEF Init
    <3>2. ASSUME NEW c \in Callbacks
          PROVE  tasks[c] + runs[c] =
                   IF pc[c] = "returned" /\ ~Held(c) THEN 1 ELSE 0
      <4>1. tasks[c] + runs[c] = 0 /\ pc[c] # "returned"
        BY <3>1
      <4> QED
        BY <4>1, Zenon
    <3>3. \A c \in Callbacks : ~Held(c)
      BY <3>1 DEF Held
    <3> QED
      BY <3>1, <3>2, <3>3, Zenon DEF OnePlace
  <2> QED
    BY <2>1, <2>2, <2>3, <2>4 DEF IInv
<1>2. IInv /\ [Next]_vars => IInv'
  BY TypeStep, LockStep, ListStep, PlaceStep DEF IInv
<1> QED
  BY <1>1, <1>2, PTL DEF Spec

\* Types, and that only a call in its critical section holds the mutex.
THEOREM TypeCorrect == Spec => []TypeOK
BY Invariance, PTL DEF IInv

\* A registered callback is in the list, or with one Fire, or was started once.
THEOREM NoCallbackLost == Spec => []OnePlace
BY Invariance, PTL DEF IInv

\* After a Fire has released the mutex nobody is left in the list.
THEOREM NobodyStraggles == Spec => []NoStragglers
<1>1. IInv => NoStragglers
  BY CallFacts DEF IInv, LockInv, ListInv, NoStragglers
<1> QED
  BY <1>1, Invariance, PTL
-----------------------------------------------------------------------------
(* Every step is a step of OneShot                                         *)

\* The status of one callback changes and the others keep theirs.
LEMMA StatusChange ==
  ASSUME NEW c \in Callbacks, NEW v,
         statusOf'[c] = v,
         \A x \in Callbacks \ {c} : statusOf'[x] = statusOf[x]
  PROVE  statusOf' = [statusOf EXCEPT ![c] = v]
<1>1. /\ statusOf = [x \in Callbacks |-> statusOf[x]]
      /\ statusOf' = [x \in Callbacks |-> statusOf'[x]]
  BY DEF statusOf
<1> QED
  BY <1>1

\* The flag is the abstract one; a store of the flag turns every waiting
\* callback due, wherever it is kept.
THEOREM RefinesOneShot == Spec => ImplementsOneShot
<1>1. Init => Event!Init
  BY CallFacts DEF Init, Event!Init, statusOf, Due, Held
<1>2. IInv /\ IInv' /\ [Next]_vars => [Event!Next]_(Event!vars)
  <2> SUFFICES ASSUME IInv, IInv', [Next]_vars
               PROVE  [Event!Next]_(Event!vars)
    OBVIOUS
  <2> DEFINE Same == fired' = fired /\ statusOf' = statusOf
  <2>0. Same => [Event!Next]_(Event!vars)
    BY DEF Event!vars
  <2> USE CallFacts
      DEF IInv, TypeOK, LockInv, OnePlace, Held, Due, statusOf, At
  <2>1. ASSUME NEW c \in Callbacks, RegisterLoad(c)
        PROVE  [Event!Next]_(Event!vars)
    <3>1. CASE ~fired
      BY <2>0, <2>1, <3>1 DEF RegisterLoad
    <3>2. CASE fired
      <4>1. statusOf[c] = "idle" /\ fired' = fired
        BY <2>1 DEF RegisterLoad
      <4>2. /\ statusOf'[c] = "due"
            /\ \A x \in Callbacks \ {c} : statusOf'[x] = statusOf[x]
        BY <2>1, <3>2 DEF RegisterLoad
      <4>3. statusOf' = [statusOf EXCEPT ![c] = "due"]
        <5> HIDE DEF statusOf
        <5> QED
          BY <4>2, StatusChange
      <4>4. Event!Register(c)
        <5> HIDE DEF statusOf
        <5> QED
          BY <3>2, <4>1, <4>3 DEF Event!Register
      <4> QED
        BY <4>4 DEF Event!Next
    <3> QED
      BY <3>1, <3>2
  <2>2. ASSUME NEW t \in Calls, Lock(t) PROVE Same
    BY <2>2 DEF Lock
  <2>3. ASSUME NEW c \in Callbacks, RegisterStore(c)
        PROVE  [Event!Next]_(Event!vars)
    <3>1. statusOf[c] = "idle" /\ fired' = fired
      BY <2>3 DEF RegisterStore
    <3>2. PICK v : v = IF fired THEN "due" ELSE "waiting"
      OBVIOUS
    <3>3. /\ statusOf'[c] = v
          /\ \A x \in Callbacks \ {c} : statusOf'[x] = statusOf[x]
      BY <2>3, <3>2 DEF RegisterStore
    <3>4. statusOf' = [statusOf EXCEPT ![c] = v]
      <4> HIDE DEF statusOf
      <4> QED
        BY <3>3, StatusChange
    <3>5. Event!Register(c)
      BY <3>1, <3>2, <3>4 DEF Event!Register
    <3> QED
      BY <3>5 DEF Event!Next
  <2>4. ASSUME NEW c \in Callbacks, RegisterExecute(c) PROVE Same
    BY <2>4 DEF RegisterExecute
  <2>5. ASSUME NEW c \in Callbacks, Run(c)
        PROVE  [Event!Next]_(Event!vars)
    <3>1. statusOf[c] = "due" /\ fired' = fired
      BY <2>5 DEF Run
    <3>2. /\ statusOf'[c] = "done"
          /\ \A x \in Callbacks \ {c} : statusOf'[x] = statusOf[x]
      BY <2>5 DEF Run
    <3>3. statusOf' = [statusOf EXCEPT ![c] = "done"]
      <4> HIDE DEF statusOf
      <4> QED
        BY <3>2, StatusChange
    <3>4. Event!Run(c)
      <4> HIDE DEF statusOf
      <4> QED
        BY <3>1, <3>3 DEF Event!Run
    <3> QED
      BY <3>4 DEF Event!Next
  <2>6. ASSUME NEW f \in Firers, FireBegin(f) PROVE Same
    BY <2>6 DEF FireBegin
  <2>7. ASSUME NEW f \in Firers, FireAgain(f) PROVE Same
    BY <2>7 DEF FireAgain
  <2>8. ASSUME NEW f \in Firers, FireStore(f)
        PROVE  [Event!Next]_(Event!vars)
    BY <2>8 DEF FireStore, Event!Next, Event!Fire
  <2>9. ASSUME NEW f \in Firers, FireDetach(f) PROVE Same
    BY <2>9 DEF FireDetach
  <2>10. ASSUME NEW f \in Firers, FireExecute(f) PROVE Same
    <3>1. PICK c \in pending[f] :
            /\ pending' = [pending EXCEPT ![f] = @ \ {c}]
            /\ tasks' = [tasks EXCEPT ![c] = @ + 1]
            /\ UNCHANGED <<pc, fired, mutex, callbacks, runs>>
      BY <2>10 DEF FireExecute
    <3>2. c \in Callbacks /\ fired
      BY <2>10, <3>1 DEF FireExecute
    <3>3. statusOf'[c] = statusOf[c]
      BY <3>1, <3>2
    <3>4. \A x \in Callbacks \ {c} : statusOf'[x] = statusOf[x]
      BY <3>1, <3>2
    <3> QED
      BY <3>1, <3>3, <3>4
  <2>11. ASSUME NEW f \in Firers, FireReturn(f) PROVE Same
    BY <2>11 DEF FireReturn
  <2>12. CASE UNCHANGED vars
    BY <2>12 DEF vars, Event!vars
  <2> QED
    BY <2>0, <2>1, <2>2, <2>3, <2>4, <2>5, <2>6, <2>7, <2>8, <2>9, <2>10,
       <2>11, <2>12, NextCases
<1> QED
  BY <1>1, <1>2, Invariance, PTL DEF Spec, Event!Spec, ImplementsOneShot
-----------------------------------------------------------------------------
(* The steps of OneShot, from s to z, the status of each callback in one   *)
(* of the other programs before and after                                  *)

Stutter(s, z) == fired' = fired /\ z = s
Registers(s, z, c) ==
  /\ fired' = fired /\ s[c] = "idle"
  /\ z[c] = IF fired THEN "due" ELSE "waiting"
  /\ \A x \in Callbacks \ {c} : z[x] = s[x]
Runs(s, z, c) ==
  /\ fired' = fired /\ s[c] = "due" /\ z[c] = "done"
  /\ \A x \in Callbacks \ {c} : z[x] = s[x]
Fires(s, z) ==
  /\ fired' = TRUE
  /\ \A x \in Callbacks : z[x] = IF s[x] = "waiting" THEN "due" ELSE s[x]

AbstractStep(s, z) ==
  \/ Stutter(s, z) \/ Fires(s, z)
  \/ \E c \in Callbacks : Registers(s, z, c) \/ Runs(s, z, c)

\* What changes as described changes as OneShot writes it.
LEMMA AbstractSteps ==
  ASSUME NEW s, NEW z, s = [c \in Callbacks |-> s[c]], z = [c \in Callbacks |-> z[c]],
         AbstractStep(s, z)
  PROVE  \/ fired' = fired /\ z = s
         \/ /\ fired' = TRUE
            /\ z = [c \in Callbacks |-> IF s[c] = "waiting" THEN "due" ELSE s[c]]
         \/ \E c \in Callbacks :
              /\ fired' = fired
              /\ \/ /\ s[c] = "idle"
                    /\ z = [s EXCEPT ![c] = IF fired THEN "due" ELSE "waiting"]
                 \/ s[c] = "due" /\ z = [s EXCEPT ![c] = "done"]
<1>1. CASE Stutter(s, z)
  BY <1>1 DEF Stutter
<1>2. CASE Fires(s, z)
  <2>1. z = [c \in Callbacks |-> IF s[c] = "waiting" THEN "due" ELSE s[c]]
    BY <1>2 DEF Fires
  <2> QED
    BY <1>2, <2>1 DEF Fires
<1>3. ASSUME NEW c \in Callbacks, Registers(s, z, c)
      PROVE  z = [s EXCEPT ![c] = IF fired THEN "due" ELSE "waiting"]
  BY <1>3 DEF Registers
<1>4. ASSUME NEW c \in Callbacks, Runs(s, z, c) PROVE z = [s EXCEPT ![c] = "done"]
  BY <1>4 DEF Runs
<1> QED
  BY <1>1, <1>2, <1>3, <1>4 DEF AbstractStep, Registers, Runs

\* A step of each program, seen from OneShot.
ThreadStep == AbstractStep(ThreadNow, ThreadNow')
SingleStep == AbstractStep(SingleNow, SingleNow')
DesignStep == AbstractStep(DesignNow, DesignNow')

\* What changes so in Thread is a step of OneShot.
LEMMA ThreadStepIsAbstract ==
  ASSUME ThreadStep PROVE [ThreadEvent!Next]_(ThreadEvent!vars)
<1>1. /\ ThreadNow = [c \in Callbacks |-> ThreadNow[c]]
      /\ ThreadNow' = [c \in Callbacks |-> ThreadNow'[c]]
  BY DEF ThreadNow, Thread!statusOf
<1>2. \/ fired' = fired /\ ThreadNow' = ThreadNow
      \/ /\ fired' = TRUE
         /\ ThreadNow' = [c \in Callbacks |->
                           IF ThreadNow[c] = "waiting" THEN "due" ELSE ThreadNow[c]]
      \/ \E c \in Callbacks :
           /\ fired' = fired
           /\ \/ /\ ThreadNow[c] = "idle"
                 /\ ThreadNow' = [ThreadNow EXCEPT
                                   ![c] = IF fired THEN "due" ELSE "waiting"]
              \/ ThreadNow[c] = "due" /\ ThreadNow' = [ThreadNow EXCEPT ![c] = "done"]
  BY <1>1, AbstractSteps, Zenon DEF ThreadStep
<1> QED
  BY <1>2
  DEF ThreadEvent!vars, ThreadEvent!Next, ThreadEvent!Fire, ThreadEvent!Register,
      ThreadEvent!Run

\* What changes so in Single is a step of OneShot.
LEMMA SingleStepIsAbstract ==
  ASSUME SingleStep PROVE [SingleEvent!Next]_(SingleEvent!vars)
<1>1. /\ SingleNow = [c \in Callbacks |-> SingleNow[c]]
      /\ SingleNow' = [c \in Callbacks |-> SingleNow'[c]]
  BY DEF SingleNow, Single!statusOf
<1>2. \/ fired' = fired /\ SingleNow' = SingleNow
      \/ /\ fired' = TRUE
         /\ SingleNow' = [c \in Callbacks |->
                           IF SingleNow[c] = "waiting" THEN "due" ELSE SingleNow[c]]
      \/ \E c \in Callbacks :
           /\ fired' = fired
           /\ \/ /\ SingleNow[c] = "idle"
                 /\ SingleNow' = [SingleNow EXCEPT
                                   ![c] = IF fired THEN "due" ELSE "waiting"]
              \/ SingleNow[c] = "due" /\ SingleNow' = [SingleNow EXCEPT ![c] = "done"]
  BY <1>1, AbstractSteps, Zenon DEF SingleStep
<1> QED
  BY <1>2
  DEF SingleEvent!vars, SingleEvent!Next, SingleEvent!Fire, SingleEvent!Register,
      SingleEvent!Run

\* What changes so in Design is a step of OneShot.
LEMMA DesignStepIsAbstract ==
  ASSUME DesignStep PROVE [DesignEvent!Next]_(DesignEvent!vars)
<1>1. /\ DesignNow = [c \in Callbacks |-> DesignNow[c]]
      /\ DesignNow' = [c \in Callbacks |-> DesignNow'[c]]
  BY DEF DesignNow, Design!statusOf
<1>2. \/ fired' = fired /\ DesignNow' = DesignNow
      \/ /\ fired' = TRUE
         /\ DesignNow' = [c \in Callbacks |->
                           IF DesignNow[c] = "waiting" THEN "due" ELSE DesignNow[c]]
      \/ \E c \in Callbacks :
           /\ fired' = fired
           /\ \/ /\ DesignNow[c] = "idle"
                 /\ DesignNow' = [DesignNow EXCEPT
                                   ![c] = IF fired THEN "due" ELSE "waiting"]
              \/ DesignNow[c] = "due" /\ DesignNow' = [DesignNow EXCEPT ![c] = "done"]
  BY <1>1, AbstractSteps, Zenon DEF DesignStep
<1> QED
  BY <1>2
  DEF DesignEvent!vars, DesignEvent!Next, DesignEvent!Fire, DesignEvent!Register,
      DesignEvent!Run
-----------------------------------------------------------------------------
(* The synchronous event                                                   *)

\* A callback is in the list or with one evtfire, and has not run, or nowhere;
\* an evtfire has callbacks only while it runs them, after the flag was set.
ThreadInv ==
  /\ fired \in BOOLEAN /\ runs \in [Callbacks -> Nat]
  /\ pc \in [Calls -> {"begin", "lock", "locked", "detach", "execute", "returned"}]
  /\ callbacks \subseteq Callbacks /\ pending \in [Firers -> SUBSET Callbacks]
  /\ \A f \in Firers : pc[f] \in {"detach", "execute"} => fired
  /\ \A f \in Firers : pending[f] # {} => pc[f] = "execute"
  /\ \A c \in Callbacks :
       /\ pc[c] # "returned" => runs[c] = 0
       /\ Thread!Held(c) => pc[c] = "returned" /\ runs[c] = 0
       /\ \A f \in Firers : c \in pending[f] =>
            c \notin callbacks /\ \A g \in Firers : c \in pending[g] => f = g

\* The calls of each program are those of MultiThreadedEvent.
LEMMA SameCalls == Thread!Calls = Calls /\ Design!Threads = Calls
  BY DEF Thread!Calls, Design!Threads, Calls

\* A step of the synchronous event keeps ThreadInv and is one of the abstract event.
LEMMA ThreadStepInv ==
  ASSUME ThreadInv, Thread!Next
  PROVE  ThreadInv' /\ ThreadStep
<1> USE CallFacts, SameCalls DEF ThreadInv, Thread!Held, Thread!At
<1>0. ThreadNow = Thread!statusOf /\ ThreadNow' = Thread!statusOf'
  BY DEF ThreadNow
<1>1. ASSUME NEW c \in Callbacks, Thread!RegLoad(c) PROVE ThreadInv' /\ ThreadStep
  <2>1. ThreadInv'
    BY <1>1 DEF Thread!RegLoad
  <2>2. CASE fired
    <3>1. Registers(ThreadNow, ThreadNow', c)
      BY <1>0, <1>1, <2>2 DEF Thread!RegLoad, Registers, Thread!statusOf
    <3> QED
      BY <2>1, <3>1 DEF ThreadStep, AbstractStep
  <2>3. CASE ~fired
    <3>1. Stutter(ThreadNow, ThreadNow')
      BY <1>0, <1>1, <2>3 DEF Thread!RegLoad, Stutter, Thread!statusOf
    <3> QED
      BY <2>1, <3>1 DEF ThreadStep, AbstractStep
  <2> QED
    BY <2>2, <2>3
<1>2. ASSUME NEW t \in Calls, Thread!Lock(t) PROVE ThreadInv' /\ ThreadStep
  <2>1. ThreadInv'
    BY <1>2 DEF Thread!Lock
  <2>2. Stutter(ThreadNow, ThreadNow')
    BY <1>0, <1>2 DEF Thread!Lock, Stutter, Thread!statusOf
  <2> QED
    BY <2>1, <2>2 DEF ThreadStep, AbstractStep
<1>3. ASSUME NEW c \in Callbacks, Thread!RegStore(c) PROVE ThreadInv' /\ ThreadStep
  <2>1. ThreadInv'
    BY <1>3 DEF Thread!RegStore
  <2>2. Registers(ThreadNow, ThreadNow', c)
    BY <1>0, <1>3 DEF Thread!RegStore, Registers, Thread!statusOf
  <2> QED
    BY <2>1, <2>2 DEF ThreadStep, AbstractStep
<1>4. ASSUME NEW c \in Callbacks, Thread!RegExecute(c) PROVE ThreadInv' /\ ThreadStep
  <2>1. ThreadInv'
    BY <1>4 DEF Thread!RegExecute
  <2>2. Runs(ThreadNow, ThreadNow', c)
    BY <1>0, <1>4 DEF Thread!RegExecute, Runs, Thread!statusOf
  <2> QED
    BY <2>1, <2>2 DEF ThreadStep, AbstractStep
<1>5. ASSUME NEW f \in Firers, Thread!FireLoad(f) \/ Thread!FireReturn(f)
      PROVE  ThreadInv' /\ ThreadStep
  <2>1. ThreadInv'
    BY <1>5 DEF Thread!FireLoad, Thread!FireReturn
  <2>2. Stutter(ThreadNow, ThreadNow')
    BY <1>0, <1>5 DEF Thread!FireLoad, Thread!FireReturn, Stutter, Thread!statusOf
  <2> QED
    BY <2>1, <2>2 DEF ThreadStep, AbstractStep
<1>6. ASSUME NEW f \in Firers, Thread!FireStore(f) PROVE ThreadInv' /\ ThreadStep
  <2>1. ThreadInv'
    BY <1>6 DEF Thread!FireStore
  <2>2. Fires(ThreadNow, ThreadNow')
    BY <1>0, <1>6 DEF Thread!FireStore, Fires, Thread!statusOf
  <2> QED
    BY <2>1, <2>2 DEF ThreadStep, AbstractStep
<1>7. ASSUME NEW f \in Firers, Thread!FireDetach(f) PROVE ThreadInv' /\ ThreadStep
  <2>1. ThreadInv'
    BY <1>7 DEF Thread!FireDetach
  <2>2. Stutter(ThreadNow, ThreadNow')
    BY <1>0, <1>7 DEF Thread!FireDetach, Stutter, Thread!statusOf
  <2> QED
    BY <2>1, <2>2 DEF ThreadStep, AbstractStep
<1>8. ASSUME NEW f \in Firers, Thread!FireExecute(f) PROVE ThreadInv' /\ ThreadStep
  <2>1. ThreadInv'
    BY <1>8 DEF Thread!FireExecute
  <2>2. PICK c \in pending[f] :
          /\ pending' = [pending EXCEPT ![f] = @ \ {c}]
          /\ runs' = [runs EXCEPT ![c] = @ + 1]
    BY <1>8 DEF Thread!FireExecute
  <2>3. Runs(ThreadNow, ThreadNow', c)
    BY <1>0, <1>8, <2>2 DEF Thread!FireExecute, Runs, Thread!statusOf
  <2> QED
    BY <2>1, <2>2, <2>3 DEF ThreadStep, AbstractStep
<1> QED
  BY <1>1, <1>2, <1>3, <1>4, <1>5, <1>6, <1>7, <1>8
  DEF Thread!Next, Thread!regcb, Thread!evtfire
-----------------------------------------------------------------------------
(* The designs in pseudo-code                                              *)

\* As in the synchronous event; and what a thread has seen fired has fired.
DesignInv ==
  /\ fired \in BOOLEAN /\ runs \in [Callbacks -> Nat]
  /\ kind \in {"mutex", "fast", "cas"}
  /\ pc \in [Design!Threads -> {"look", "decide", "execute", "returned"}]
  /\ callbacks \subseteq Callbacks /\ pending \in [Firers -> SUBSET Callbacks]
  /\ seen \in [Design!Threads -> BOOLEAN \X SUBSET Callbacks]
  /\ \A t \in Design!Threads : seen[t][1] => fired
  /\ \A f \in Firers : pc[f] = "execute" => fired
  /\ \A f \in Firers : pending[f] # {} => pc[f] = "execute"
  /\ \A c \in Callbacks :
       /\ pc[c] # "returned" => runs[c] = 0
       /\ Design!Held(c) => pc[c] = "returned" /\ runs[c] = 0
       /\ \A f \in Firers : c \in pending[f] =>
            c \notin callbacks /\ \A g \in Firers : c \in pending[g] => f = g

\* A thread that may decide decides from what is there.
LEMMA KnownIsState ==
  ASSUME NEW t \in Design!Threads, Design!Swaps(t)
  PROVE  Design!Known(t) = <<fired, callbacks>>
  BY DEF Design!Swaps, Design!Known, Design!State

\* A step of a design keeps DesignInv and is one of the abstract event.
LEMMA DesignStepInv ==
  ASSUME DesignInv, NEW t \in Calls, Design!Step(t)
  PROVE  DesignInv' /\ DesignStep
<1> USE CallFacts, SameCalls DEF DesignInv, Design!Held, Design!To
<1>0. DesignNow = Design!statusOf /\ DesignNow' = Design!statusOf' /\ t \in Design!Threads
  BY DEF DesignNow
<1>1. CASE Design!Look(t)
  <2>1. <<fired, callbacks>> \in BOOLEAN \X SUBSET Callbacks
    OBVIOUS
  <2>2. DesignInv'
    BY <1>0, <1>1, <2>1 DEF Design!Look, Design!WhenFired, Design!State
  <2>3. CASE fired /\ t \in Callbacks
    <3>1. Registers(DesignNow, DesignNow', t)
      BY <1>0, <1>1, <2>3
      DEF Design!Look, Design!WhenFired, Registers, Design!statusOf
    <3> QED
      BY <2>2, <2>3, <3>1 DEF DesignStep, AbstractStep
  <2>4. CASE ~(fired /\ t \in Callbacks)
    <3>1. Stutter(DesignNow, DesignNow')
      BY <1>0, <1>1, <2>4
      DEF Design!Look, Design!WhenFired, Stutter, Design!statusOf
    <3> QED
      BY <2>2, <3>1 DEF DesignStep, AbstractStep
  <2> QED
    BY <2>3, <2>4
<1>2. CASE Design!Retry(t)
  <2>1. DesignInv'
    BY <1>0, <1>2 DEF Design!Retry
  <2>2. Stutter(DesignNow, DesignNow')
    BY <1>0, <1>2 DEF Design!Retry, Stutter, Design!statusOf
  <2> QED
    BY <2>1, <2>2 DEF DesignStep, AbstractStep
<1>3. CASE Design!FindFired(t)
  <2>1. fired
    BY <1>0, <1>3 DEF Design!FindFired, Design!Known, Design!State
  <2>2. DesignInv'
    BY <1>0, <1>3, <2>1 DEF Design!FindFired, Design!WhenFired
  <2>3. CASE t \in Callbacks
    <3>1. Registers(DesignNow, DesignNow', t)
      BY <1>0, <1>3, <2>1, <2>3
      DEF Design!FindFired, Design!WhenFired, Registers, Design!statusOf
    <3> QED
      BY <2>2, <2>3, <3>1 DEF DesignStep, AbstractStep
  <2>4. CASE t \notin Callbacks
    <3>1. Stutter(DesignNow, DesignNow')
      BY <1>0, <1>3, <2>4
      DEF Design!FindFired, Design!WhenFired, Stutter, Design!statusOf
    <3> QED
      BY <2>2, <3>1 DEF DesignStep, AbstractStep
  <2> QED
    BY <2>3, <2>4
<1>4. ASSUME t \in Callbacks, Design!Enqueue(t) PROVE DesignInv' /\ DesignStep
  <2>1. /\ ~fired /\ callbacks' = callbacks \union {t} /\ pc[t] = "decide"
        /\ pc' = [pc EXCEPT ![t] = "returned"]
        /\ UNCHANGED <<kind, fired, seen, pending, runs>>
    BY <1>0, <1>4, KnownIsState DEF Design!Enqueue
  <2>2. DesignInv'
    BY <1>0, <1>4, <2>1
  <2>3. Registers(DesignNow, DesignNow', t)
    BY <1>0, <1>4, <2>1 DEF Registers, Design!statusOf
  <2> QED
    BY <1>4, <2>2, <2>3 DEF DesignStep, AbstractStep
<1>5. ASSUME t \in Callbacks, Design!RunOwn(t) PROVE DesignInv' /\ DesignStep
  <2>1. DesignInv'
    BY <1>0, <1>5 DEF Design!RunOwn
  <2>2. Runs(DesignNow, DesignNow', t)
    BY <1>0, <1>5 DEF Design!RunOwn, Runs, Design!statusOf
  <2> QED
    BY <1>5, <2>1, <2>2 DEF DesignStep, AbstractStep
<1>6. ASSUME t \in Firers, Design!Fire(t) PROVE DesignInv' /\ DesignStep
  <2>1. /\ ~fired /\ fired' = TRUE /\ callbacks' = {} /\ pc[t] = "decide"
        /\ pending' = [pending EXCEPT ![t] = callbacks]
        /\ pc' = [pc EXCEPT ![t] = "execute"]
        /\ UNCHANGED <<kind, seen, runs>>
    <3>1. Design!Known(t) = <<fired, callbacks>>
      BY <1>0, <1>6, KnownIsState DEF Design!Fire
    <3>2. ~Design!Known(t)[1] /\ Design!Known(t)[2] = callbacks
      BY <1>6, <3>1 DEF Design!Fire
    <3> HIDE DEF DesignInv
    <3> QED
      BY <1>6, <3>1, <3>2 DEF Design!Fire
  <2>2. DesignInv'
    BY <1>0, <1>6, <2>1
  <2>3. Fires(DesignNow, DesignNow')
    BY <1>0, <1>6, <2>1 DEF Fires, Design!statusOf
  <2> QED
    BY <2>2, <2>3 DEF DesignStep, AbstractStep
<1>7. ASSUME t \in Firers, Design!RunPending(t) PROVE DesignInv' /\ DesignStep
  <2>1. DesignInv'
    BY <1>0, <1>7 DEF Design!RunPending
  <2>2. PICK c \in pending[t] :
          /\ pending' = [pending EXCEPT ![t] = @ \ {c}]
          /\ runs' = [runs EXCEPT ![c] = @ + 1]
    BY <1>7 DEF Design!RunPending
  <2>3. Runs(DesignNow, DesignNow', c)
    BY <1>0, <1>7, <2>2 DEF Design!RunPending, Runs, Design!statusOf
  <2> QED
    BY <1>7, <2>1, <2>2, <2>3 DEF DesignStep, AbstractStep
<1>8. ASSUME t \in Firers, Design!FireReturn(t) PROVE DesignInv' /\ DesignStep
  <2>1. DesignInv'
    BY <1>0, <1>8 DEF Design!FireReturn
  <2>2. Stutter(DesignNow, DesignNow')
    BY <1>0, <1>8 DEF Design!FireReturn, Stutter, Design!statusOf
  <2> QED
    BY <2>1, <2>2 DEF DesignStep, AbstractStep
<1> QED
  BY <1>1, <1>2, <1>3, <1>4, <1>5, <1>6, <1>7, <1>8 DEF Design!Step
-----------------------------------------------------------------------------
(* The event for one thread                                                *)

\* Callback c is the one at j in the call at i of the stack.
Placed(c, i, j) == i \in 1 .. Len(stack) /\ j \in 1 .. Len(stack[i]) /\ stack[i][j] = c

\* The list and the stack hold a callback once, and the list empties when the
\* event fires, before which no call runs queue.
SingleInv ==
  /\ fired \in BOOLEAN /\ runs \in [Callbacks -> Nat]
  /\ queue \in Seq(Callbacks) /\ stack \in Seq(Seq(Callbacks))
  /\ IF fired THEN queue = <<>> ELSE stack = <<>>
  /\ \A i \in 1 .. Len(stack) : Len(stack[i]) > 0
  /\ \A i, j \in 1 .. Len(queue) : queue[i] = queue[j] => i = j
  /\ \A i \in 1 .. Len(queue) : runs[queue[i]] = 0
  /\ \A c \in Callbacks, i, j, k, l \in Nat :
       Placed(c, i, j) /\ Placed(c, k, l) => i = k /\ j = l

\* The queue in a list, and in a list of lists, in terms of places.
LEMMA ListPlaces ==
  ASSUME NEW c, NEW list \in Seq(Callbacks)
  PROVE  c \in Single!ToSet(list) <=> \E i \in 1 .. Len(list) : list[i] = c
  BY DEF Single!ToSet

\* A callback is in one of the lists if it has a place.
LEMMA StackPlaces ==
  ASSUME NEW c, NEW lists \in Seq(Seq(Callbacks))
  PROVE  (\E i \in DOMAIN lists : c \in Single!ToSet(lists[i]))
           <=> \E i, j \in Nat : /\ i \in 1 .. Len(lists) /\ j \in 1 .. Len(lists[i])
                              /\ lists[i][j] = c
<1>1. \A i \in 1 .. Len(lists) : lists[i] \in Seq(Callbacks)
  OBVIOUS
<1>2. DOMAIN lists = 1 .. Len(lists)
  OBVIOUS
<1>3. \A i \in 1 .. Len(lists) :
        c \in Single!ToSet(lists[i]) <=> \E j \in 1 .. Len(lists[i]) : lists[i][j] = c
  BY <1>1, ListPlaces
<1>4. /\ \A i \in 1 .. Len(lists) : i \in Nat
      /\ \A i \in 1 .. Len(lists) : \A j \in 1 .. Len(lists[i]) : j \in Nat
  BY <1>1
<1> QED
  BY <1>2, <1>3, <1>4

\* The status of a callback, in terms of places.
LEMMA SingleStatus ==
  ASSUME stack \in Seq(Seq(Callbacks)), queue \in Seq(Callbacks)
  PROVE  \A c \in Callbacks :
           Single!statusOf[c] =
             IF \E i, j \in Nat : Placed(c, i, j) THEN "due"
             ELSE IF runs[c] > 0 THEN "done"
             ELSE IF \E i \in 1 .. Len(queue) : queue[i] = c
                  THEN "waiting" ELSE "idle"
<1> SUFFICES ASSUME NEW c \in Callbacks
             PROVE  Single!statusOf[c] =
                      IF \E i, j \in Nat : Placed(c, i, j) THEN "due"
                      ELSE IF runs[c] > 0 THEN "done"
                      ELSE IF \E i \in 1 .. Len(queue) : queue[i] = c
                           THEN "waiting" ELSE "idle"
  OBVIOUS
<1>1. Single!OnStack(c) <=> \E i, j \in Nat : Placed(c, i, j)
  BY StackPlaces DEF Single!OnStack, Placed
<1>2. c \in Single!ToSet(queue)
        <=> \E i \in 1 .. Len(queue) : queue[i] = c
  BY ListPlaces
<1> QED
  BY <1>1, <1>2 DEF Single!statusOf

\* The same of the next state.
LEMMA SingleStatusNext ==
  ASSUME stack' \in Seq(Seq(Callbacks)), queue' \in Seq(Callbacks)
  PROVE  \A c \in Callbacks :
           Single!statusOf'[c] =
             IF \E i, j \in Nat : Placed(c, i, j)' THEN "due"
             ELSE IF runs'[c] > 0 THEN "done"
             ELSE IF \E i \in 1 .. Len(queue') : queue'[i] = c
                  THEN "waiting" ELSE "idle"
<1> SUFFICES ASSUME NEW c \in Callbacks
             PROVE  Single!statusOf'[c] =
                      IF \E i, j \in Nat : Placed(c, i, j)' THEN "due"
                      ELSE IF runs'[c] > 0 THEN "done"
                      ELSE IF \E i \in 1 .. Len(queue') : queue'[i] = c
                           THEN "waiting" ELSE "idle"
  OBVIOUS
<1>1. Single!OnStack(c)' <=> \E i, j \in Nat : Placed(c, i, j)'
  BY StackPlaces DEF Single!OnStack, Placed
<1>2. c \in Single!ToSet(queue')
        <=> \E i \in 1 .. Len(queue') : queue'[i] = c
  BY ListPlaces
<1> QED
  BY <1>1, <1>2 DEF Single!statusOf

\* A call that runs a list puts its queue on the stack.
LEMMA PushPlaces ==
  ASSUME stack \in Seq(Seq(Callbacks)), NEW list \in Seq(Callbacks),
         stack' = Append(stack, list)
  PROVE  /\ stack' \in Seq(Seq(Callbacks)) /\ Len(stack') = Len(stack) + 1
         /\ stack'[Len(stack) + 1] = list
         /\ \A i \in 1 .. Len(stack) : stack'[i] = stack[i]
         /\ \A c \in Callbacks, i, j \in Nat : Placed(c, i, j)' <=>
              \/ Placed(c, i, j)
              \/ i = Len(stack) + 1 /\ j \in 1 .. Len(list) /\ list[j] = c
<1>1. /\ stack' \in Seq(Seq(Callbacks)) /\ Len(stack') = Len(stack) + 1
      /\ stack'[Len(stack) + 1] = list /\ Len(stack) \in Nat
      /\ \A i \in 1 .. Len(stack) : stack'[i] = stack[i]
  OBVIOUS
<1>2. ASSUME NEW c \in Callbacks, NEW i \in Nat, NEW j \in Nat
      PROVE  Placed(c, i, j)' <=>
               \/ Placed(c, i, j)
               \/ i = Len(stack) + 1 /\ j \in 1 .. Len(list) /\ list[j] = c
  <2>1. CASE i = Len(stack) + 1
    BY <1>1, <2>1 DEF Placed
  <2>2. CASE i \in 1 .. Len(stack)
    BY <1>1, <2>2 DEF Placed
  <2>3. CASE i \notin 1 .. Len(stack) + 1
    BY <1>1, <2>3 DEF Placed
  <2> QED
    BY <1>1, <2>1, <2>2, <2>3
<1> QED
  BY <1>1, <1>2

\* A return takes the first callback of the innermost call off the stack.
LEMMA PopPlaces ==
  ASSUME SingleInv, Single!Return
  PROVE  LET n == Len(stack)
             c == stack[n][1]
             moved(i, j) == IF i = n THEN j + 1 ELSE j
         IN
         /\ stack' \in Seq(Seq(Callbacks)) /\ c \in Callbacks
         /\ n \in Nat /\ Placed(c, n, 1)
         /\ runs' = [runs EXCEPT ![c] = @ + 1]
         /\ \A i \in 1 .. Len(stack') : Len(stack'[i]) > 0
         /\ \A x \in Callbacks, i, j \in Nat :
              Placed(x, i, j)' <=> j > 0 /\ Placed(x, i, moved(i, j))
<1> DEFINE n == Len(stack)
           top == stack[n]
           c == top[1]
           left == SubSeq(stack, 1, n - 1)
<1>1. stack \in Seq(Seq(Callbacks)) /\ stack # <<>>
      /\ \A i \in 1 .. n : Len(stack[i]) > 0
  BY DEF SingleInv, Single!Return
<1>2. n \in Nat \ {0} /\ n \in 1 .. n
  BY <1>1
<1>3. top \in Seq(Callbacks) /\ Len(top) \in Nat \ {0}
  <2>1. top \in Seq(Callbacks) /\ Len(top) > 0
    BY <1>1, <1>2
  <2> QED
    BY <2>1
<1>4. c \in Callbacks /\ Placed(c, n, 1)
  BY <1>2, <1>3 DEF Placed
<1>5. /\ left \in Seq(Seq(Callbacks)) /\ Len(left) = n - 1
      /\ \A i \in 1 .. n - 1 : left[i] = stack[i]
  <2> DEFINE l == n - 1
  <2>1. l \in Nat /\ \A i \in 1 .. l : stack[i] \in Seq(Callbacks)
    BY <1>1, <1>2
  <2> HIDE DEF l
  <2>2. /\ SubSeq(stack, 1, l) \in Seq(Seq(Callbacks))
        /\ Len(SubSeq(stack, 1, l)) = l
        /\ \A i \in 1 .. l : SubSeq(stack, 1, l)[i] = stack[i]
    BY <2>1, SubSeqProperties
  <2> QED
    BY <2>2 DEF l
<1>6. /\ runs' = [runs EXCEPT ![c] = @ + 1]
      /\ stack' = IF Len(top) = 1 THEN left ELSE Append(left, Tail(top))
  <2>1. Head(top) = c
    BY <1>3
  <2>2. /\ runs' = [runs EXCEPT ![Head(top)] = @ + 1]
        /\ stack' = IF Len(top) = 1 THEN left ELSE Append(left, Tail(top))
    BY DEF Single!Return, Single!Last, Single!Front
  <2> QED
    BY <2>1, <2>2
<1>7. CASE Len(top) = 1
  <2>1. stack' = left
    BY <1>6, <1>7
  <2>2. ASSUME NEW x \in Callbacks, NEW i \in Nat, NEW j \in Nat
        PROVE  Placed(x, i, j)' <=> j > 0 /\ Placed(x, i, IF i = n THEN j + 1 ELSE j)
    <3> HIDE DEF left
    <3>1. CASE i = n
      BY <1>2, <1>5, <1>7, <2>1, <3>1 DEF Placed
    <3>2. CASE i # n
      <4>1. i \in 1 .. n <=> i \in 1 .. n - 1
        BY <1>2, <3>2
      <4>2. j \in 1 .. Len(stack[i]) => j > 0
        OBVIOUS
      <4> QED
        BY <1>2, <1>5, <2>1, <3>2, <4>1, <4>2 DEF Placed
    <3> QED
      BY <3>1, <3>2
  <2>3. \A i \in 1 .. Len(stack') : Len(stack'[i]) > 0
    <3> SUFFICES ASSUME NEW i \in 1 .. Len(stack') PROVE Len(stack'[i]) > 0
      OBVIOUS
    <3> HIDE DEF left
    <3>1. i \in 1 .. n - 1 /\ i \in 1 .. n
      BY <1>2, <1>5, <2>1
    <3>2. stack'[i] = stack[i]
      BY <1>5, <2>1, <3>1
    <3> QED
      BY <1>1, <3>1, <3>2
  <2> HIDE DEF left
  <2> QED
    BY <1>2, <1>4, <1>5, <1>6, <2>1, <2>2, <2>3
<1>8. CASE Len(top) > 1 /\ Len(top) # 1
  <2> DEFINE rest == Tail(top)
  <2>1. /\ rest \in Seq(Callbacks) /\ Len(rest) = Len(top) - 1
        /\ \A j \in 1 .. Len(top) - 1 : rest[j] = top[j + 1]
        /\ Len(rest) > 0
    <3>1. top # <<>>
      BY <1>3
    <3>2. /\ rest \in Seq(Callbacks) /\ Len(rest) = Len(top) - 1
          /\ \A j \in 1 .. Len(rest) : rest[j] = top[j + 1]
      BY <1>3, <3>1, HeadTailProperties
    <3> DEFINE m == Len(top)
    <3>3. m \in Nat /\ m > 1
      BY <1>3, <1>8
    <3> HIDE DEF rest, m
    <3>4. Len(rest) = m - 1 /\ \A j \in 1 .. Len(rest) : rest[j] = top[j + 1]
      BY <3>2 DEF m
    <3>5. Len(rest) > 0 /\ \A j \in 1 .. m - 1 : rest[j] = top[j + 1]
      BY <3>3, <3>4
    <3> QED
      BY <3>2, <3>5 DEF m
  <2>2. stack' = Append(left, rest)
    BY <1>6, <1>8
  <2> HIDE DEF left, rest
  <2>3. /\ stack' \in Seq(Seq(Callbacks)) /\ Len(stack') = n
        /\ stack'[n] = rest /\ \A i \in 1 .. n - 1 : stack'[i] = stack[i]
    <3>1. /\ stack' \in Seq(Seq(Callbacks)) /\ Len(stack') = n
          /\ stack'[n] = rest
      BY <1>2, <1>5, <2>1, <2>2
    <3>2. \A i \in 1 .. n - 1 : stack'[i] = left[i]
      BY <1>2, <1>5, <2>1, <2>2
    <3> QED
      BY <1>5, <3>1, <3>2
  <2>4. ASSUME NEW x \in Callbacks, NEW i \in Nat, NEW j \in Nat
        PROVE  Placed(x, i, j)' <=> j > 0 /\ Placed(x, i, IF i = n THEN j + 1 ELSE j)
    <3>1. CASE i = n
      <4>1. Placed(x, i, j)' <=> j \in 1 .. Len(top) - 1 /\ rest[j] = x
        BY <1>2, <2>1, <2>3, <3>1 DEF Placed
      <4>2. Placed(x, i, j + 1) <=> j + 1 \in 1 .. Len(top) /\ top[j + 1] = x
        BY <1>2, <3>1 DEF Placed
      <4>3. j \in 1 .. Len(top) - 1 <=> j > 0 /\ j + 1 \in 1 .. Len(top)
        BY <1>3
      <4> QED
        BY <2>1, <3>1, <4>1, <4>2, <4>3
    <3>2. CASE i # n
      <4>1. i \in 1 .. n <=> i \in 1 .. n - 1
        BY <1>2, <3>2
      <4>2. j \in 1 .. Len(stack[i]) => j > 0
        OBVIOUS
      <4> QED
        BY <1>2, <2>3, <3>2, <4>1, <4>2 DEF Placed
    <3> QED
      BY <3>1, <3>2
  <2>5. \A i \in 1 .. Len(stack') : Len(stack'[i]) > 0
    <3> SUFFICES ASSUME NEW i \in 1 .. Len(stack') PROVE Len(stack'[i]) > 0
      OBVIOUS
    <3>1. i = n \/ (i \in 1 .. n - 1 /\ i \in 1 .. n)
      BY <1>2, <2>3
    <3>2. CASE i = n
      BY <2>1, <2>3, <3>2
    <3>3. CASE i \in 1 .. n - 1 /\ i \in 1 .. n
      <4>1. stack'[i] = stack[i]
        BY <2>3, <3>3
      <4> QED
        BY <1>1, <3>3, <4>1
    <3> QED
      BY <3>1, <3>2, <3>3
  <2> QED
    BY <1>2, <1>4, <1>6, <2>3, <2>4, <2>5
<1>9. Len(top) = 1 \/ (Len(top) > 1 /\ Len(top) # 1)
  <2>1. \A m \in Nat \ {0} : m = 1 \/ (m > 1 /\ m # 1)
    OBVIOUS
  <2> QED
    BY <1>3, <2>1
<1> QED
  BY <1>7, <1>8, <1>9

\* The conjunct of SingleInv about the stack.
OncePlaced ==
  \A c \in Callbacks, i, j, k, l \in Nat :
    Placed(c, i, j) /\ Placed(c, k, l) => i = k /\ j = l

\* A step of the event for one thread keeps SingleInv and is abstract.
LEMMA SingleStepInv ==
  ASSUME SingleInv, Single!Next
  PROVE  SingleInv' /\ SingleStep
<1>0. /\ SingleNow = Single!statusOf /\ SingleNow' = Single!statusOf'
      /\ stack \in Seq(Seq(Callbacks)) /\ queue \in Seq(Callbacks)
      /\ fired \in BOOLEAN /\ runs \in [Callbacks -> Nat] /\ Len(queue) \in Nat
  BY DEF SingleNow, SingleInv
<1>1. \A c \in Callbacks :
        SingleNow[c] = IF \E i, j \in Nat : Placed(c, i, j) THEN "due"
                       ELSE IF runs[c] > 0 THEN "done"
                       ELSE IF \E i \in 1 .. Len(queue) : queue[i] = c
                            THEN "waiting" ELSE "idle"
  BY <1>0, SingleStatus
<1>2. ASSUME stack' \in Seq(Seq(Callbacks)), queue' \in Seq(Callbacks)
      PROVE  \A c \in Callbacks :
               SingleNow'[c] = IF \E i, j \in Nat : Placed(c, i, j)' THEN "due"
                               ELSE IF runs'[c] > 0 THEN "done"
                               ELSE IF \E i \in 1 .. Len(queue') : queue'[i] = c
                                    THEN "waiting" ELSE "idle"
  BY <1>0, <1>2, SingleStatusNext
<1>3. OncePlaced
  BY DEF SingleInv, OncePlaced
<1>4. ASSUME NEW c \in Callbacks, Single!RegisterCallback(c)
      PROVE  SingleInv' /\ SingleStep
  <2>1. /\ ~(\E i, j \in Nat : Placed(c, i, j)) /\ runs[c] = 0
        /\ \A i \in 1 .. Len(queue) : queue[i] # c
    <3>1. ~Single!OnStack(c) /\ c \notin Single!ToSet(queue) /\ runs[c] = 0
      BY <1>4 DEF Single!RegisterCallback, Single!New
    <3>2. Single!OnStack(c) <=> \E i, j \in Nat : Placed(c, i, j)
      BY <1>0, StackPlaces DEF Single!OnStack, Placed
    <3> QED
      BY <1>0, <3>1, <3>2, ListPlaces
  <2>2. SingleNow[c] = "idle" /\ fired' = fired /\ runs' = runs
    BY <1>1, <1>4, <2>1 DEF Single!RegisterCallback
  <2>3. CASE fired
    <3>1. queue' = queue /\ stack' = Append(stack, <<c>>) /\ queue = <<>>
      BY <1>4, <2>3 DEF Single!RegisterCallback, Single!Call, SingleInv
    <3>2. /\ stack' \in Seq(Seq(Callbacks)) /\ Len(stack') = Len(stack) + 1
          /\ stack'[Len(stack) + 1] = <<c>> /\ Len(stack) \in Nat
          /\ \A i \in 1 .. Len(stack) : stack'[i] = stack[i]
          /\ \A x \in Callbacks, i, j \in Nat : Placed(x, i, j)' <=>
               Placed(x, i, j) \/ (i = Len(stack) + 1 /\ j = 1 /\ x = c)
      <4> DEFINE list == <<c>>
      <4>1. list \in Seq(Callbacks) /\ Len(list) = 1 /\ list[1] = c
        OBVIOUS
      <4>2. stack' = Append(stack, list) /\ Len(stack) \in Nat
        BY <1>0, <3>1
      <4>3. list = <<c>>
        OBVIOUS
      <4> HIDE DEF list
      <4>4. /\ stack' \in Seq(Seq(Callbacks)) /\ Len(stack') = Len(stack) + 1
            /\ stack'[Len(stack) + 1] = list
            /\ \A i \in 1 .. Len(stack) : stack'[i] = stack[i]
            /\ \A x \in Callbacks, i, j \in Nat : Placed(x, i, j)' <=>
                 \/ Placed(x, i, j)
                 \/ i = Len(stack) + 1 /\ j \in 1 .. Len(list) /\ list[j] = x
        BY <1>0, <4>1, <4>2, PushPlaces
      <4>5. ASSUME NEW x \in Callbacks, NEW j \in Nat
            PROVE  j \in 1 .. Len(list) /\ list[j] = x <=> j = 1 /\ x = c
        BY <4>1
      <4>6. \A x \in Callbacks, i, j \in Nat : Placed(x, i, j)' <=>
              Placed(x, i, j) \/ (i = Len(stack) + 1 /\ j = 1 /\ x = c)
        <5> SUFFICES ASSUME NEW x \in Callbacks, NEW i \in Nat, NEW j \in Nat
                     PROVE  Placed(x, i, j)' <=>
                       Placed(x, i, j) \/ (i = Len(stack) + 1 /\ j = 1 /\ x = c)
          OBVIOUS
        <5>1. Placed(x, i, j)' <=>
                \/ Placed(x, i, j)
                \/ i = Len(stack) + 1 /\ j \in 1 .. Len(list) /\ list[j] = x
          BY <4>4
        <5>2. j \in 1 .. Len(list) /\ list[j] = x <=> j = 1 /\ x = c
          BY <4>5
        <5> QED
          BY <5>1, <5>2, Zenon
      <4> QED
        BY <4>2, <4>3, <4>4, <4>6, Zenon
    <3>3. OncePlaced'
      BY <1>3, <2>1, <3>2 DEF OncePlaced
    <3>4. \A i \in 1 .. Len(stack') : Len(stack'[i]) > 0
      <4>1. \A i \in 1 .. Len(stack) : Len(stack[i]) > 0
        BY DEF SingleInv
      <4>2. Len(<<c>>) > 0
        OBVIOUS
      <4> SUFFICES ASSUME NEW i \in 1 .. Len(stack') PROVE Len(stack'[i]) > 0
        OBVIOUS
      <4>3. i \in 1 .. Len(stack) \/ i = Len(stack) + 1
        BY <3>2
      <4>4. CASE i \in 1 .. Len(stack)
        <5>1. stack'[i] = stack[i]
          BY <3>2, <4>4
        <5> QED
          BY <4>1, <4>4, <5>1
      <4>5. CASE i = Len(stack) + 1
        <5>1. stack'[i] = <<c>>
          BY <3>2, <4>5, Zenon
        <5> QED
          BY <4>2, <5>1, Zenon
      <4> QED
        BY <4>3, <4>4, <4>5
    <3>5. SingleInv'
      BY <1>0, <2>2, <2>3, <3>1, <3>2, <3>3, <3>4 DEF SingleInv, OncePlaced
    <3>6. /\ SingleNow'[c] = "due"
          /\ \A x \in Callbacks \ {c} : SingleNow'[x] = SingleNow[x]
      <4>1. \E i, j \in Nat : Placed(c, i, j)'
        BY <3>2
      <4>2. \A x \in Callbacks \ {c} :
              (\E i, j \in Nat : Placed(x, i, j)') <=> \E i, j \in Nat : Placed(x, i, j)
        BY <3>2
      <4> QED
        BY <1>0, <1>1, <1>2, <2>2, <3>1, <3>2, <4>1, <4>2
    <3> QED
      BY <2>2, <2>3, <3>5, <3>6 DEF SingleStep, AbstractStep, Registers
  <2>4. CASE ~fired
    <3>1. queue' = Append(queue, c) /\ stack' = stack /\ stack = <<>>
      BY <1>4, <2>4 DEF Single!RegisterCallback, Single!Call, SingleInv
    <3>2. /\ queue' \in Seq(Callbacks) /\ Len(queue') = Len(queue) + 1
          /\ queue'[Len(queue) + 1] = c
          /\ \A i \in 1 .. Len(queue) : queue'[i] = queue[i]
      BY <1>0, <3>1
    <3>3. \A x \in Callbacks, i, j \in Nat : Placed(x, i, j)' <=> Placed(x, i, j)
      BY <3>1 DEF Placed
    <3>4. \A i, j \in 1 .. Len(queue') : queue'[i] = queue'[j] => i = j
      <4>1. \A i, j \in 1 .. Len(queue) : queue[i] = queue[j] => i = j
        BY DEF SingleInv
      <4>2. \A i \in 1 .. Len(queue') :
              i \in 1 .. Len(queue) \/ i = Len(queue) + 1
        BY <1>0, <3>2
      <4> SUFFICES ASSUME NEW i \in 1 .. Len(queue'), NEW j \in 1 .. Len(queue'),
                          queue'[i] = queue'[j]
                   PROVE  i = j
        OBVIOUS
      <4>3. CASE i \in 1 .. Len(queue) /\ j \in 1 .. Len(queue)
        BY <3>2, <4>1, <4>3, Zenon
      <4>4. CASE i \in 1 .. Len(queue) /\ j = Len(queue) + 1
        BY <2>1, <3>2, <4>4, Zenon
      <4>5. CASE i = Len(queue) + 1 /\ j \in 1 .. Len(queue)
        BY <2>1, <3>2, <4>5, Zenon
      <4>6. CASE i = Len(queue) + 1 /\ j = Len(queue) + 1
        BY <4>6
      <4> QED
        BY <4>2, <4>3, <4>4, <4>5, <4>6
    <3>5. \A i \in 1 .. Len(queue') : runs'[queue'[i]] = 0
      <4>1. \A i \in 1 .. Len(queue) : runs[queue[i]] = 0
        BY DEF SingleInv
      <4> SUFFICES ASSUME NEW i \in 1 .. Len(queue')
                   PROVE  runs'[queue'[i]] = 0
        OBVIOUS
      <4>2. i \in 1 .. Len(queue) \/ i = Len(queue) + 1
        BY <1>0, <3>2
      <4>3. CASE i \in 1 .. Len(queue)
        BY <2>2, <3>2, <4>1, <4>3, Zenon
      <4>4. CASE i = Len(queue) + 1
        BY <2>1, <2>2, <3>2, <4>4, Zenon
      <4> QED
        BY <4>2, <4>3, <4>4
    <3>6. SingleInv'
      <4>1. OncePlaced' /\ \A i \in 1 .. Len(stack') : Len(stack'[i]) > 0
        BY <1>3, <3>1, <3>3 DEF OncePlaced, SingleInv
      <4> QED
        BY <1>0, <2>2, <2>4, <3>1, <3>2, <3>4, <3>5, <4>1 DEF SingleInv, OncePlaced
    <3>7. /\ SingleNow'[c] = "waiting"
          /\ \A x \in Callbacks \ {c} : SingleNow'[x] = SingleNow[x]
      <4>1. \A x \in Callbacks :
              (\E i \in 1 .. Len(queue') : queue'[i] = x)
                <=> x = c \/ \E i \in 1 .. Len(queue) : queue[i] = x
        <5>1. Len(queue) + 1 \in 1 .. Len(queue')
          BY <1>0, <3>2
        <5>2. \A i \in 1 .. Len(queue') :
                i \in 1 .. Len(queue) \/ i = Len(queue) + 1
          BY <1>0, <3>2
        <5>3. \A i \in 1 .. Len(queue) : i \in 1 .. Len(queue')
          BY <1>0, <3>2
        <5> QED
          BY <3>2, <5>1, <5>2, <5>3
      <4>2. \A x \in Callbacks :
              (\E i, j \in Nat : Placed(x, i, j)') <=> \E i, j \in Nat : Placed(x, i, j)
        BY <3>3
      <4>3. stack' \in Seq(Seq(Callbacks))
        BY <1>0, <3>1
      <4>4. \A x \in Callbacks :
              SingleNow'[x] = IF \E i, j \in Nat : Placed(x, i, j)' THEN "due"
                              ELSE IF runs'[x] > 0 THEN "done"
                              ELSE IF \E i \in 1 .. Len(queue') : queue'[i] = x
                                   THEN "waiting" ELSE "idle"
        BY <1>2, <3>2, <4>3, Zenon
      <4>5. SingleNow'[c] = "waiting"
        <5>1. ~(runs[c] > 0)
          BY <2>1
        <5> QED
          BY <2>1, <2>2, <4>1, <4>2, <4>4, <5>1, Zenon
      <4>6. ASSUME NEW x \in Callbacks \ {c} PROVE SingleNow'[x] = SingleNow[x]
        <5>1. SingleNow[x] = IF \E i, j \in Nat : Placed(x, i, j) THEN "due"
                             ELSE IF runs[x] > 0 THEN "done"
                             ELSE IF \E i \in 1 .. Len(queue) : queue[i] = x
                                  THEN "waiting" ELSE "idle"
          BY <1>1
        <5>2. x \in Callbacks /\ x # c
          OBVIOUS
        <5> QED
          BY <2>2, <4>1, <4>2, <4>4, <5>1, <5>2, Zenon
      <4> QED
        BY <4>5, <4>6
    <3> QED
      BY <2>2, <2>4, <3>6, <3>7 DEF SingleStep, AbstractStep, Registers
  <2> QED
    BY <1>0, <2>3, <2>4
<1>5. CASE Single!Return
  <2>1. PICK n \in Nat, c \in Callbacks :
        /\ stack' \in Seq(Seq(Callbacks)) /\ Placed(c, n, 1)
        /\ runs' = [runs EXCEPT ![c] = @ + 1]
        /\ \A i \in 1 .. Len(stack') : Len(stack'[i]) > 0
        /\ \A x \in Callbacks, i, j \in Nat :
             Placed(x, i, j)' <=> j > 0 /\ Placed(x, i, IF i = n THEN j + 1 ELSE j)
    BY <1>5, PopPlaces
  <2>2. fired' = fired /\ queue' = queue /\ stack # <<>>
    BY <1>5 DEF Single!Return
  <2>3. fired /\ queue = <<>>
    BY <2>2 DEF SingleInv
  <2>4. runs' \in [Callbacks -> Nat] /\ runs'[c] > 0
        /\ \A x \in Callbacks \ {c} : runs'[x] = runs[x]
    BY <1>0, <2>1
  <2>5. OncePlaced'
    <3> SUFFICES ASSUME NEW x \in Callbacks, NEW i \in Nat, NEW j \in Nat,
                        NEW k \in Nat, NEW l \in Nat, Placed(x, i, j)', Placed(x, k, l)'
                 PROVE  i = k /\ j = l
      BY DEF OncePlaced
    <3> DEFINE moved(a, b) == IF a = n THEN b + 1 ELSE b
    <3>1. Placed(x, i, moved(i, j)) /\ Placed(x, k, moved(k, l))
      BY <2>1
    <3>2. moved(i, j) \in Nat /\ moved(k, l) \in Nat
      OBVIOUS
    <3>3. i = k /\ moved(i, j) = moved(k, l)
      <4> HIDE DEF moved
      <4> QED
        BY <1>3, <3>1, <3>2 DEF OncePlaced
    <3> QED
      BY <3>3
  <2>6. SingleInv'
    <3>1. /\ queue' = <<>> /\ queue' \in Seq(Callbacks) /\ Len(queue') = 0
          /\ fired' = TRUE
      BY <1>0, <2>2, <2>3
    <3>2. \A i \in 1 .. Len(queue') : FALSE
      BY <3>1
    <3> QED
      BY <2>1, <2>4, <2>5, <3>1, <3>2 DEF SingleInv, OncePlaced
  <2>7. ~ \E i, j \in Nat : Placed(c, i, j)'
    <3> SUFFICES ASSUME NEW i \in Nat, NEW j \in Nat, Placed(c, i, j)' PROVE FALSE
      OBVIOUS
    <3> DEFINE k == IF i = n THEN j + 1 ELSE j
    <3>1. j > 0 /\ Placed(c, i, k)
      BY <2>1, Zenon
    <3>2. k \in Nat
      OBVIOUS
    <3>3. i = n /\ k = 1
      <4> HIDE DEF k
      <4> QED
        BY <1>3, <2>1, <3>1, <3>2 DEF OncePlaced
    <3> QED
      BY <3>1, <3>3
  <2>8. ASSUME NEW x \in Callbacks \ {c}
        PROVE  (\E i, j \in Nat : Placed(x, i, j)') <=> \E i, j \in Nat : Placed(x, i, j)
    <3>1. ASSUME NEW i \in Nat, NEW j \in Nat, Placed(x, i, j)
          PROVE  \E k, l \in Nat : Placed(x, k, l)'
      <4>1. j > 0
        BY <3>1 DEF Placed
      <4>2. CASE i # n
        BY <2>1, <3>1, <4>1, <4>2
      <4>3. CASE i = n
        <5>1. j # 1
          BY <2>1, <3>1, <4>3 DEF Placed
        <5>2. j - 1 \in Nat /\ j - 1 > 0 /\ (j - 1) + 1 = j
          BY <4>1, <5>1
        <5>3. Placed(x, i, j - 1)'
          BY <2>1, <3>1, <4>3, <5>2
        <5> QED
          BY <5>2, <5>3
      <4> QED
        BY <4>2, <4>3
    <3>2. ASSUME NEW i \in Nat, NEW j \in Nat, Placed(x, i, j)'
          PROVE  \E k, l \in Nat : Placed(x, k, l)
      BY <2>1, <3>2
    <3> QED
      BY <3>1, <3>2
  <2>9. Runs(SingleNow, SingleNow', c)
    <3>1. SingleNow[c] = "due"
      BY <1>1, <2>1
    <3>2. SingleNow'[c] = "done"
      <4>1. queue' \in Seq(Callbacks) /\ Len(queue') = 0
        BY <1>0, <2>2, <2>3
      <4>2. \A i \in 1 .. Len(queue') : FALSE
        BY <4>1
      <4>3. SingleNow'[c] = IF \E i, j \in Nat : Placed(c, i, j)' THEN "due"
                            ELSE IF runs'[c] > 0 THEN "done"
                            ELSE IF \E i \in 1 .. Len(queue') : queue'[i] = c
                                 THEN "waiting" ELSE "idle"
        BY <1>2, <2>1, <4>1, Zenon
      <4> QED
        BY <2>4, <2>7, <4>3, Zenon
    <3>3. \A x \in Callbacks \ {c} : SingleNow'[x] = SingleNow[x]
      BY <1>0, <1>1, <1>2, <2>1, <2>2, <2>4, <2>8
    <3> QED
      BY <2>2, <3>1, <3>2, <3>3 DEF Runs
  <2> QED
    BY <2>1, <2>6, <2>9 DEF SingleStep, AbstractStep
<1>6. CASE Single!Fire
  <2>1. fired' = TRUE /\ runs' = runs
    BY <1>6 DEF Single!Fire
  <2>2. CASE fired
    <3>1. queue' = queue /\ stack' = stack /\ fired' = fired
      BY <1>0, <1>6, <2>2 DEF Single!Fire, Single!Call
    <3>2. SingleInv'
      BY <2>1, <3>1 DEF SingleInv, Placed
    <3>3. Stutter(SingleNow, SingleNow')
      BY <1>0, <2>1, <3>1 DEF Stutter, Single!statusOf, Single!OnStack, Single!ToSet
    <3> QED
      BY <3>2, <3>3 DEF SingleStep, AbstractStep
  <2>3. CASE ~fired
    <3>1. queue' = <<>> /\ stack = <<>>
          /\ stack' = IF queue = <<>> THEN stack ELSE Append(stack, queue)
      BY <1>6, <2>3 DEF Single!Fire, Single!Call, SingleInv
    <3>2. /\ queue' \in Seq(Callbacks) /\ Len(queue') = 0
          /\ Len(stack) = 0 /\ \A x \in Callbacks, i, j \in Nat : ~Placed(x, i, j)
      BY <3>1 DEF Placed
    <3>3. /\ stack' \in Seq(Seq(Callbacks))
          /\ \A i \in 1 .. Len(stack') : Len(stack'[i]) > 0
          /\ \A x \in Callbacks, i, j \in Nat :
               Placed(x, i, j)' <=> i = 1 /\ j \in 1 .. Len(queue) /\ queue[j] = x
      <4>1. CASE queue = <<>>
        <5>1. stack' = stack /\ Len(queue) = 0 /\ Len(stack') = 0
          BY <3>1, <3>2, <4>1
        <5>2. \A x \in Callbacks, i, j \in Nat : ~Placed(x, i, j)'
          BY <3>1, <5>1 DEF Placed
        <5>3. \A j \in 1 .. Len(queue) : FALSE
          BY <5>1
        <5> QED
          BY <1>0, <5>1, <5>2, <5>3
      <4>2. CASE queue # <<>>
        <5>1. stack' = Append(stack, queue)
          BY <3>1, <4>2
        <5>2. Len(queue) > 0
          <6>1. Len(queue) # 0
            BY <1>0, <4>2, EmptySeq
          <6> QED
            BY <1>0, <6>1
        <5>3. /\ stack' \in Seq(Seq(Callbacks)) /\ Len(stack') = Len(stack) + 1
              /\ stack'[Len(stack) + 1] = queue
              /\ \A x \in Callbacks, i, j \in Nat : Placed(x, i, j)' <=>
                   \/ Placed(x, i, j)
                   \/ /\ i = Len(stack) + 1
                      /\ j \in 1 .. Len(queue) /\ queue[j] = x
          BY <1>0, <5>1, PushPlaces
        <5>4. Len(stack') = 1 /\ stack'[1] = queue /\ \A i \in 1 .. 1 : i = 1
          BY <3>2, <5>3
        <5> QED
          BY <3>2, <5>2, <5>3, <5>4
      <4> QED
        BY <4>1, <4>2
    <3>4. OncePlaced'
      <4>1. \A i, j \in 1 .. Len(queue) : queue[i] = queue[j] => i = j
        BY DEF SingleInv
      <4> QED
        BY <3>3, <4>1 DEF OncePlaced
    <3>5. SingleInv'
      <4>1. \A i \in 1 .. Len(queue') : FALSE
        BY <3>2
      <4> QED
        BY <1>0, <2>1, <3>1, <3>2, <3>3, <3>4, <4>1 DEF SingleInv, OncePlaced
    <3>6. ASSUME NEW x \in Callbacks
          PROVE  SingleNow'[x] = IF SingleNow[x] = "waiting" THEN "due" ELSE SingleNow[x]
      <4>1. (\E i, j \in Nat : Placed(x, i, j)')
              <=> \E j \in 1 .. Len(queue) : queue[j] = x
        <5>1. \A j \in 1 .. Len(queue) : j \in Nat
          BY <1>0
        <5> QED
          BY <3>3, <5>1
      <4>2. ~ \E j \in 1 .. Len(queue') : queue'[j] = x
        BY <3>2
      <4>3. (\E j \in 1 .. Len(queue) : queue[j] = x) => runs[x] = 0
        BY DEF SingleInv
      <4>4. ~ \E i, j \in Nat : Placed(x, i, j)
        BY <3>2
      <4>5. SingleNow'[x] = IF \E i, j \in Nat : Placed(x, i, j)' THEN "due"
                            ELSE IF runs'[x] > 0 THEN "done"
                            ELSE IF \E i \in 1 .. Len(queue') : queue'[i] = x
                                 THEN "waiting" ELSE "idle"
        BY <1>2, <3>2, <3>3
      <4>6. SingleNow[x] = IF \E i, j \in Nat : Placed(x, i, j) THEN "due"
                           ELSE IF runs[x] > 0 THEN "done"
                           ELSE IF \E i \in 1 .. Len(queue) : queue[i] = x
                                THEN "waiting" ELSE "idle"
        BY <1>1
      <4>7. runs[x] = 0 => ~(runs[x] > 0)
        OBVIOUS
      <4> QED
        BY <2>1, <4>1, <4>2, <4>3, <4>4, <4>5, <4>6, <4>7, Zenon
    <3> QED
      BY <2>1, <3>5, <3>6 DEF SingleStep, AbstractStep, Fires
  <2> QED
    BY <2>2, <2>3
<1> QED
  BY <1>4, <1>5, <1>6 DEF Single!Next
-----------------------------------------------------------------------------
(* Theorems                                                                *)

\* The synchronous event is a one-shot event: each of its steps is one of OneShot
\* or changes nothing of it, though two calls of evtfire may both detach.
THEOREM MultiThreadRefinesOneShot ==
  Thread!Init /\ [][Thread!Next]_(Thread!vars) => ThreadEvent!Spec
<1>1. ASSUME Thread!Init PROVE ThreadInv /\ ThreadEvent!Init
  <2> USE CallFacts, SameCalls, <1>1 DEF Thread!Init
  <2>1. \A c \in Callbacks : ~Thread!Held(c)
    BY DEF Thread!Held
  <2>2. ThreadInv
    BY <2>1 DEF ThreadInv
  <2>3. ThreadNow = [c \in Callbacks |-> "idle"]
    BY <2>1 DEF ThreadNow, Thread!statusOf
  <2> QED
    BY <2>2, <2>3 DEF ThreadEvent!Init
<1>2. ASSUME ThreadInv, [Thread!Next]_(Thread!vars)
      PROVE  ThreadInv' /\ [ThreadEvent!Next]_(ThreadEvent!vars)
  <2>1. CASE Thread!Next
    BY <1>2, <2>1, ThreadStepInv, ThreadStepIsAbstract
  <2>2. CASE UNCHANGED Thread!vars
    <3>1. ThreadInv'
      BY <1>2, <2>2 DEF ThreadInv, Thread!vars, Thread!Held
    <3>2. ThreadNow' = ThreadNow /\ fired' = fired
      BY <2>2 DEF ThreadNow, Thread!statusOf, Thread!vars, Thread!Held
    <3> QED
      BY <3>1, <3>2 DEF ThreadEvent!vars
  <2> QED
    BY <1>2, <2>1, <2>2
<1> QED
  BY <1>1, <1>2, PTL DEF ThreadEvent!Spec

\* So is each design in pseudo-code, though a compare-and-swap is repeated and
\* though two threads fire.
THEOREM DesignsRefineOneShot ==
  Design!Init /\ [][Design!Next]_(Design!vars) => DesignEvent!Spec
<1>1. ASSUME Design!Init PROVE DesignInv /\ DesignEvent!Init
  <2> USE CallFacts, SameCalls, <1>1 DEF Design!Init, Design!State
  <2>1. \A c \in Callbacks : ~Design!Held(c)
    BY DEF Design!Held
  <2>2. DesignInv
    BY <2>1 DEF DesignInv
  <2>3. DesignNow = [c \in Callbacks |-> "idle"]
    BY <2>1 DEF DesignNow, Design!statusOf
  <2> QED
    BY <2>2, <2>3 DEF DesignEvent!Init
<1>2. ASSUME DesignInv, [Design!Next]_(Design!vars)
      PROVE  DesignInv' /\ [DesignEvent!Next]_(DesignEvent!vars)
  <2>1. CASE Design!Next
    <3>1. PICK t \in Calls : Design!Step(t)
      BY <2>1, SameCalls DEF Design!Next
    <3> QED
      BY <1>2, <3>1, DesignStepInv, DesignStepIsAbstract
  <2>2. CASE UNCHANGED Design!vars
    <3>1. DesignInv'
      BY <1>2, <2>2 DEF DesignInv, Design!vars, Design!Held
    <3>2. DesignNow' = DesignNow /\ fired' = fired
      BY <2>2 DEF DesignNow, Design!statusOf, Design!vars, Design!Held
    <3> QED
      BY <3>1, <3>2 DEF DesignEvent!vars
  <2> QED
    BY <1>2, <2>1, <2>2
<1> QED
  BY <1>1, <1>2, PTL DEF DesignEvent!Spec

\* So is the event for one thread, though callbacks call it while it runs them.
THEOREM SingleThreadedRefinesOneShot ==
  Single!Init /\ [][Single!Next]_(Single!vars) => SingleEvent!Spec
<1>1. ASSUME Single!Init PROVE SingleInv /\ SingleEvent!Init
  <2>0. fired = FALSE /\ runs = [c \in Callbacks |-> 0]
    BY <1>1 DEF Single!Init
  <2>1. queue = <<>> /\ stack = <<>> /\ Len(queue) = 0 /\ Len(stack) = 0
    BY <1>1 DEF Single!Init
  <2>2. stack \in Seq(Seq(Callbacks)) /\ queue \in Seq(Callbacks)
    BY <2>1
  <2>3. \A c \in Callbacks, i, j \in Nat : ~Placed(c, i, j)
    BY <2>1 DEF Placed
  <2>4. SingleInv
    <3>1. /\ \A i \in 1 .. Len(queue) : FALSE
          /\ \A i \in 1 .. Len(stack) : FALSE
      BY <2>1
    <3> QED
      BY <2>0, <2>1, <2>2, <2>3, <3>1 DEF SingleInv
  <2>5. ASSUME NEW c \in Callbacks PROVE SingleNow[c] = "idle"
    <3>1. ~ \E i \in 1 .. Len(queue) : queue[i] = c
      BY <2>1
    <3>2. ~(runs[c] > 0)
      BY <2>0
    <3>3. ~ \E i, j \in Nat : Placed(c, i, j)
      BY <2>3
    <3>4. SingleNow[c] = IF \E i, j \in Nat : Placed(c, i, j) THEN "due"
                         ELSE IF runs[c] > 0 THEN "done"
                         ELSE IF \E i \in 1 .. Len(queue) : queue[i] = c
                              THEN "waiting" ELSE "idle"
      BY <2>2, SingleStatus, Zenon DEF SingleNow
    <3> QED
      BY <3>1, <3>2, <3>3, <3>4, Zenon
  <2>6. SingleNow = [c \in Callbacks |-> SingleNow[c]]
    BY DEF SingleNow, Single!statusOf
  <2> QED
    BY <2>0, <2>4, <2>5, <2>6 DEF SingleEvent!Init
<1>2. ASSUME SingleInv, [Single!Next]_(Single!vars)
      PROVE  SingleInv' /\ [SingleEvent!Next]_(SingleEvent!vars)
  <2>1. CASE Single!Next
    BY <1>2, <2>1, SingleStepInv, SingleStepIsAbstract
  <2>2. CASE UNCHANGED Single!vars
    <3>1. SingleInv'
      BY <1>2, <2>2 DEF SingleInv, Single!vars, Placed
    <3>2. SingleNow' = SingleNow /\ fired' = fired
      BY <2>2 DEF SingleNow, Single!statusOf, Single!vars, Single!OnStack, Single!ToSet
    <3> QED
      BY <3>1, <3>2 DEF SingleEvent!vars
  <2> QED
    BY <1>2, <2>1, <2>2
<1> QED
  BY <1>1, <1>2, PTL DEF SingleEvent!Spec
=============================================================================
