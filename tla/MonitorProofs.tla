---------------------------- MODULE MonitorProofs ---------------------------
(***************************************************************************)
(* Proofs about MonitorDemos: the water molecules, the blocking queue and  *)
(* the fizz buzz series come out right, and no goroutine sleeps that could *)
(* go on, for any number of goroutines, any capacity and any length; each  *)
(* lock keeps its counts and keeps callbacks and events apart.             *)
(***************************************************************************)
EXTENDS MonitorDemos, FiniteSetTheorems, SequenceTheorems, TLAPS

-----------------------------------------------------------------------------
(* Counting calls within calls                                             *)

\* The pairs of a goroutine and a number up to its height.
Below(S, height) == UNION {{s} \X (1 .. height[s]) : s \in S}

\* What is in it, without the union.
LEMMA BelowMember ==
  ASSUME NEW S, NEW height
  PROVE  \A x : x \in Below(S, height)
                <=> \E s \in S : \E k \in 1 .. height[s] : x = <<s, k>>
  BY DEF Below

\* Of finitely many goroutines there are finitely many pairs.
LEMMA BelowFinite ==
  ASSUME NEW S, IsFiniteSet(S), NEW height, \A s \in S : height[s] \in 0 .. 3
  PROVE  /\ IsFiniteSet(Below(S, height))
         /\ Cardinality(Below(S, height)) \in Nat
<1>1. IsFiniteSet(1 .. 3)
  <2>1. 1 \in Int /\ 3 \in Int
    OBVIOUS
  <2> QED
    BY <2>1, FS_Interval, Zenon
<1>2. IsFiniteSet(S \X (1 .. 3))
  BY <1>1, FS_Product
<1>3. \A x \in Below(S, height) : x \in S \X (1 .. 3)
  BY BelowMember
<1>4. IsFiniteSet(Below(S, height))
  BY <1>2, <1>3, FS_Subset
<1> QED
  BY <1>4, FS_CardinalityType

\* One more call of one goroutine is one more pair.
LEMMA BelowGrows ==
  ASSUME NEW S, IsFiniteSet(S), NEW g, NEW h, NEW s \in S,
         \A r \in S : g[r] \in 0 .. 3, \A r \in S \ {s} : h[r] = g[r],
         h[s] = g[s] + 1
  PROVE  Cardinality(Below(S, h)) = Cardinality(Below(S, g)) + 1
<1>1. <<s, h[s]>> \notin Below(S, g)
  BY BelowMember
<1>2. Below(S, h) = Below(S, g) \union {<<s, h[s]>>}
  <2>1. ASSUME NEW x \in Below(S, h)
        PROVE  x \in Below(S, g) \union {<<s, h[s]>>}
    <3>1. PICK r \in S : \E k \in 1 .. h[r] : x = <<r, k>>
      BY BelowMember
    <3> PICK k \in 1 .. h[r] : x = <<r, k>>
      BY <3>1
    <3>2. CASE r = s /\ k = h[s]
      BY <3>1, <3>2
    <3>3. CASE ~(r = s /\ k = h[s])
      <4>1. k \in 1 .. g[r]
        BY <3>1, <3>3
      <4> QED
        BY <3>1, <4>1, BelowMember
    <3> QED
      BY <3>2, <3>3
  <2>2. ASSUME NEW x \in Below(S, g) PROVE x \in Below(S, h)
    <3>1. PICK r \in S : \E k \in 1 .. g[r] : x = <<r, k>>
      BY BelowMember
    <3> PICK k \in 1 .. g[r] : x = <<r, k>>
      BY <3>1
    <3>2. k \in 1 .. h[r]
      OBVIOUS
    <3> QED
      BY <3>1, <3>2, BelowMember
  <2>3. <<s, h[s]>> \in Below(S, h)
    <3>1. h[s] \in 1 .. h[s]
      OBVIOUS
    <3> QED
      BY <3>1, BelowMember
  <2> QED
    BY <2>1, <2>2, <2>3
<1>3. IsFiniteSet(Below(S, g))
  BY BelowFinite
<1> QED
  BY <1>1, <1>2, <1>3, FS_AddElement

\* Heights that do not change leave the pairs as they are.
LEMMA BelowSame ==
  ASSUME NEW S, NEW g, NEW h, \A r \in S : h[r] = g[r]
  PROVE  Below(S, h) = Below(S, g)
  BY DEF Below

\* Nobody is in when there is no pair.
LEMMA BelowEmpty ==
  ASSUME NEW S, IsFiniteSet(S), NEW height, \A s \in S : height[s] \in 0 .. 3
  PROVE  Cardinality(Below(S, height)) = 0 <=> \A s \in S : height[s] = 0
<1>1. IsFiniteSet(Below(S, height))
  BY BelowFinite
<1>2. Cardinality(Below(S, height)) = 0 <=> Below(S, height) = {}
  BY <1>1, FS_EmptySet
<1>3. ASSUME NEW s \in S, height[s] # 0 PROVE <<s, 1>> \in Below(S, height)
  <2>1. 1 \in 1 .. height[s]
    BY <1>3
  <2> QED
    BY <2>1, BelowMember
<1>4. ASSUME \A s \in S : height[s] = 0 PROVE Below(S, height) = {}
  <2>1. \A s \in S : 1 .. height[s] = {}
    BY <1>4
  <2> QED
    BY <2>1, BelowMember
<1> QED
  BY <1>2, <1>3, <1>4
-----------------------------------------------------------------------------
(* The inductive invariant of the locks                                    *)

\* A call that has entered its id and is not in yet.
Pending(u) == IF pc[u] \in {"waiting", "woken"} THEN 1 ELSE 0

\* The calls idmap has been told of.
Weight == [u \in Users |-> depth[u] + Pending(u)]
Sharing(x) == {u \in Users : IdOf[u] = x}

\* Events that have called Lock and not yet Unlock.
Active == {e \in Events : pc[e] \in {"waiting", "woken", "running"}}

Shape ==
  /\ kind \in {"rwmutex", "flag", "goid", "count"} /\ writerWaiting \in BOOLEAN
  /\ writerCount \in Int /\ readerCount \in Int
  /\ idmap \in [Ids -> Int]
  /\ pc \in [Goroutines -> {"idle", "called", "waiting", "woken", "running"}]
  /\ depth \in [Users -> 0 .. 2] /\ calls \in [Goroutines -> Nat]

\* A user is in at least once while it runs, at most once while it calls again,
\* and calls again under the locks with ids only.
UserInv ==
  \A u \in Users :
    /\ pc[u] = "running" => depth[u] > 0
    /\ pc[u] = "idle" => depth[u] = 0
    /\ pc[u] # "running" => depth[u] <= 1
    /\ kind \in {"rwmutex", "flag"} /\ pc[u] # "running" => depth[u] = 0
    /\ kind = "rwmutex" => pc[u] # "woken"

\* The counting lock counts its events, and sync.RWMutex has one at a time.
EventInv ==
  /\ writerCount = IF kind = "count" THEN Cardinality(Active) ELSE 0
  /\ kind = "rwmutex" => /\ Active # {} => writerWaiting
                         /\ \A d, e \in Active : d = e

ReaderInv == readerCount = Cardinality(Below(Users, depth))

\* idmap holds the calls under each id.
IdInv ==
  kind = "count" =>
    /\ \A x \in Ids : idmap[x] = Cardinality(Below(Sharing(x), Weight))
    /\ \A u \in Users : ~Shared(u) => idmap[IdOf[u]] = Weight[u]

\* While an event runs no user is in, but for one that shares its id under the
\* counting lock, and no other event runs, but under the counting lock.
ApartInv ==
  \A e \in Events : Running(e) =>
    /\ \A u \in Users : depth[u] > 0 => kind = "count" /\ Shared(u)
    /\ \A d \in Events : Running(d) => d = e \/ kind = "count"

IInv == Shape /\ UserInv /\ EventInv /\ ReaderInv /\ IdInv /\ ApartInv
-----------------------------------------------------------------------------
(* Types and program counters                                              *)

\* What the assumption on the constants says of users, events and ids.
LEMMA ConstantFacts ==
  /\ IsFiniteSet(Users) /\ IsFiniteSet(Events)
  /\ \A u \in Users : /\ u \in Goroutines /\ u \notin Events
                      /\ u \in Ids /\ IdOf[u] \in Ids /\ Id(u) \in Ids
  /\ \A e \in Events : e \in Goroutines /\ e \notin Users
  BY LockAssumption DEF Goroutines, Ids, Id

\* Types are kept.
LEMMA ShapeStep == Shape /\ UserInv /\ [Next]_vars => Shape'
<1> SUFFICES ASSUME Shape, UserInv, [Next]_vars PROVE Shape'
  OBVIOUS
<1> USE ConstantFacts DEF Shape, UserInv, Goroutines, AddId
<1>1. ASSUME NEW t \in Goroutines, Call(t) PROVE Shape'
  BY <1>1 DEF Call
<1>2. ASSUME NEW u \in Users, Nest(u) PROVE Shape'
  BY <1>2 DEF Nest
<1>3. ASSUME NEW u \in Users, RLock(u) PROVE Shape'
  BY <1>3 DEF RLock, Admit
<1>4. ASSUME NEW u \in Users, RLockWoken(u) PROVE Shape'
  BY <1>4 DEF RLockWoken, Admit
<1>5. ASSUME NEW u \in Users, RUnlock(u) PROVE Shape'
  BY <1>5 DEF RUnlock, Broadcast, Running
<1>6. ASSUME NEW e \in Events, Lock(e) PROVE Shape'
  <2>1. writerWaiting' \in BOOLEAN
    BY <1>6, Zenon DEF Lock
  <2>2. writerCount' \in Int
    BY <1>6 DEF Lock
  <2> QED
    BY <1>6, <2>1, <2>2 DEF Lock, Enter
<1>7. ASSUME NEW e \in Events, LockWoken(e) PROVE Shape'
  BY <1>7 DEF LockWoken, Enter
<1>8. ASSUME NEW e \in Events, Unlock(e) PROVE Shape'
  <2>1. writerWaiting' \in BOOLEAN
    BY <1>8, Zenon DEF Unlock
  <2>2. writerCount' \in Int
    BY <1>8 DEF Unlock
  <2>3. pc' \in [Goroutines -> {"idle", "called", "waiting", "woken", "running"}]
    BY <1>8 DEF Unlock, Broadcast
  <2> QED
    BY <1>8, <2>1, <2>2, <2>3 DEF Unlock
<1>9. ASSUME NEW e \in Events, RWUnlock(e) PROVE Shape'
  <2>1. writerWaiting' \in BOOLEAN
    BY <1>9, Zenon DEF RWUnlock
  <2>2. Cardinality({u \in Users : pc[u] = "waiting"}) \in Nat
    <3>1. {u \in Users : pc[u] = "waiting"} \in SUBSET Users
      OBVIOUS
    <3> QED
      BY <3>1, ConstantFacts, FS_Subset, FS_CardinalityType, Zenon
  <2>3. readerCount' \in Int
    BY <1>9, <2>2 DEF RWUnlock
  <2>4. /\ pc' \in [Goroutines -> {"idle", "called", "waiting", "woken", "running"}]
        /\ depth' \in [Users -> 0 .. 2]
    BY <1>9 DEF RWUnlock
  <2> QED
    BY <1>9, <2>1, <2>3, <2>4 DEF RWUnlock
<1>10. CASE UNCHANGED vars
  BY <1>10 DEF vars
<1> QED
  BY <1>1, <1>2, <1>3, <1>4, <1>5, <1>6, <1>7, <1>8, <1>9, <1>10 DEF Next, StepUser, StepEvent

\* What holds of the users is kept.
LEMMA UserStep == Shape /\ UserInv /\ [Next]_vars => UserInv'
<1> SUFFICES ASSUME Shape, UserInv, [Next]_vars PROVE UserInv'
  OBVIOUS
<1> USE ConstantFacts DEF Shape, UserInv
<1>1. ASSUME NEW t \in Goroutines, Call(t) PROVE UserInv'
  BY <1>1 DEF Call
<1>2. ASSUME NEW u \in Users, Nest(u) PROVE UserInv'
  BY <1>2 DEF Nest
<1>3. ASSUME NEW u \in Users, RLock(u) PROVE UserInv'
  BY <1>3 DEF RLock, Admit
<1>4. ASSUME NEW u \in Users, RLockWoken(u) PROVE UserInv'
  BY <1>4 DEF RLockWoken, Admit
<1>5. ASSUME NEW u \in Users, RUnlock(u) PROVE UserInv'
  BY <1>5 DEF RUnlock, Broadcast, Running
<1>6. ASSUME NEW e \in Events, Lock(e) PROVE UserInv'
  BY <1>6 DEF Lock, Enter
<1>7. ASSUME NEW e \in Events, LockWoken(e) PROVE UserInv'
  BY <1>7 DEF LockWoken, Enter
<1>8. ASSUME NEW e \in Events, Unlock(e) PROVE UserInv'
  BY <1>8 DEF Unlock, Broadcast, Running
<1>9. ASSUME NEW e \in Events, RWUnlock(e) PROVE UserInv'
  BY <1>9 DEF RWUnlock, Running
<1>10. CASE UNCHANGED vars
  BY <1>10 DEF vars
<1> QED
  BY <1>1, <1>2, <1>3, <1>4, <1>5, <1>6, <1>7, <1>8, <1>9, <1>10 DEF Next, StepUser, StepEvent
-----------------------------------------------------------------------------
(* Events                                                                  *)

\* The events that have called Lock can be counted.
LEMMA ActiveFinite == IsFiniteSet(Active) /\ Cardinality(Active) \in Nat
<1>1. Active \in SUBSET Events
  BY DEF Active
<1>2. IsFiniteSet(Active)
  BY <1>1, ConstantFacts, FS_Subset
<1> QED
  BY <1>2, FS_CardinalityType

\* Only Lock and Unlock change who is active.
LEMMA ActiveSteps ==
  ASSUME Shape, [Next]_vars
  PROVE  \/ UNCHANGED <<kind, writerWaiting, writerCount, Active>>
         \/ \E e \in Events \ Active :
              Lock(e) /\ Active' = Active \union {e}
         \/ \E e \in Active :
              (Unlock(e) \/ RWUnlock(e)) /\ Active' = Active \ {e}
<1> USE ConstantFacts DEF Shape, Active
<1>1. ASSUME NEW t \in Goroutines, Call(t)
      PROVE  UNCHANGED <<kind, writerWaiting, writerCount, Active>>
  BY <1>1 DEF Call
<1>2. ASSUME NEW u \in Users, Nest(u) \/ RLock(u) \/ RLockWoken(u)
      PROVE  UNCHANGED <<kind, writerWaiting, writerCount, Active>>
  <2>1. \A e \in Events : pc'[e] = pc[e]
    BY <1>2 DEF Nest, RLock, RLockWoken, Admit
  <2>2. Active' = Active
    BY <2>1
  <2> QED
    BY <1>2, <2>2 DEF Nest, RLock, RLockWoken
<1>3. ASSUME NEW u \in Users, RUnlock(u)
      PROVE  UNCHANGED <<kind, writerWaiting, writerCount, Active>>
  <2>1. \A e \in Events : pc'[e] = pc[e] \/ (pc[e] = "waiting" /\ pc'[e] = "woken")
    BY <1>3 DEF RUnlock, Broadcast
  <2>2. Active' = Active
    BY <2>1
  <2> QED
    BY <1>3, <2>2 DEF RUnlock
<1>4. ASSUME NEW e \in Events, Lock(e)
      PROVE  e \notin Active /\ Active' = Active \union {e}
  BY <1>4 DEF Lock, Enter
<1>5. ASSUME NEW e \in Events, LockWoken(e)
      PROVE  UNCHANGED <<kind, writerWaiting, writerCount, Active>>
  BY <1>5 DEF LockWoken, Enter
<1>6. ASSUME NEW e \in Events, Unlock(e)
      PROVE  e \in Active /\ Active' = Active \ {e}
  <2>1. pc'[e] = "idle" /\ pc[e] = "running"
    BY <1>6 DEF Unlock, Broadcast, Running
  <2>2. \A d \in Events \ {e} :
          pc'[d] = pc[d] \/ (pc[d] = "waiting" /\ pc'[d] = "woken")
    BY <1>6 DEF Unlock, Broadcast
  <2> QED
    BY <2>1, <2>2
<1>7. ASSUME NEW e \in Events, RWUnlock(e)
      PROVE  e \in Active /\ Active' = Active \ {e}
  <2>1. pc'[e] = "idle" /\ pc[e] = "running"
    BY <1>7 DEF RWUnlock, Running
  <2>2. \A d \in Events \ {e} : pc'[d] = pc[d]
    BY <1>7 DEF RWUnlock
  <2> QED
    BY <2>1, <2>2
<1>8. CASE UNCHANGED vars
  BY <1>8 DEF vars
<1> HIDE DEF Active
<1> QED
  BY <1>1, <1>2, <1>3, <1>4, <1>5, <1>6, <1>7, <1>8
  DEF Next, StepUser, StepEvent

\* What holds of the events is kept.
LEMMA EventStep == Shape /\ EventInv /\ [Next]_vars => EventInv'
<1> SUFFICES ASSUME Shape, EventInv, [Next]_vars PROVE EventInv'
  OBVIOUS
<1>1. CASE UNCHANGED <<kind, writerWaiting, writerCount, Active>>
  BY <1>1 DEF EventInv
<1>2. ASSUME NEW e \in Events \ Active, Lock(e), Active' = Active \union {e}
      PROVE  EventInv'
  <2>1. Cardinality(Active') = Cardinality(Active) + 1
    BY <1>2, ActiveFinite, FS_AddElement
  <2>2. writerCount' = IF kind = "count" THEN Cardinality(Active') ELSE 0
    BY <1>2, <2>1 DEF Lock, EventInv
  <2>3. kind = "rwmutex" => writerWaiting' /\ Active = {}
    BY <1>2 DEF Lock, EventInv
  <2> QED
    BY <1>2, <2>2, <2>3 DEF Lock, EventInv
<1>3. ASSUME NEW e \in Active, Unlock(e) \/ RWUnlock(e), Active' = Active \ {e}
      PROVE  EventInv'
  <2>1. Cardinality(Active') = Cardinality(Active) - 1
    BY <1>3, ActiveFinite, FS_RemoveElement
  <2>2. writerCount' = IF kind = "count" THEN Cardinality(Active') ELSE 0
    BY <1>3, <2>1 DEF Unlock, RWUnlock, EventInv
  <2>3. kind' = kind
    BY <1>3 DEF Unlock, RWUnlock
  <2>4. kind = "rwmutex" => Active' = {}
    BY <1>3 DEF EventInv
  <2> QED
    BY <2>2, <2>3, <2>4 DEF EventInv
<1> QED
  BY <1>1, <1>2, <1>3, ActiveSteps
-----------------------------------------------------------------------------
(* Readers                                                                 *)

\* How deep calls of a user nest is a height as Below takes it.
LEMMA DepthIsHeight ==
  ASSUME Shape
  PROVE  /\ \A u \in Users : depth[u] \in 0 .. 3
         /\ Cardinality(Below(Users, depth)) \in Nat
<1>1. \A u \in Users : depth[u] \in 0 .. 3
  BY DEF Shape
<1> QED
  BY <1>1, BelowFinite, ConstantFacts

\* readerCount remains the number of users' calls that are in.
LEMMA ReaderStep ==
  Shape /\ UserInv /\ ReaderInv /\ [Next]_vars => ReaderInv'
<1> SUFFICES ASSUME Shape, UserInv, ReaderInv, [Next]_vars PROVE ReaderInv'
  OBVIOUS
<1> USE ConstantFacts, DepthIsHeight
<1>1. ASSUME UNCHANGED <<depth, readerCount>> PROVE ReaderInv'
  BY <1>1 DEF ReaderInv
<1>2. ASSUME NEW u \in Users, Admit(u) PROVE ReaderInv'
  <2>1. depth'[u] = depth[u] + 1 /\ \A v \in Users \ {u} : depth'[v] = depth[v]
    BY <1>2 DEF Admit, Shape
  <2>2. Cardinality(Below(Users, depth')) = Cardinality(Below(Users, depth)) + 1
    BY <2>1, BelowGrows
  <2> QED
    BY <1>2, <2>2 DEF Admit, ReaderInv
<1>3. ASSUME NEW u \in Users, RUnlock(u) PROVE ReaderInv'
  <2>1. /\ depth[u] = depth'[u] + 1 /\ \A v \in Users \ {u} : depth[v] = depth'[v]
        /\ \A v \in Users : depth'[v] \in 0 .. 3
    BY <1>3 DEF RUnlock, Running, Shape, UserInv
  <2>2. Cardinality(Below(Users, depth)) = Cardinality(Below(Users, depth')) + 1
    BY <2>1, BelowGrows
  <2>3. Cardinality(Below(Users, depth')) \in Nat
    BY <2>1, BelowFinite
  <2> QED
    BY <1>3, <2>2, <2>3 DEF RUnlock, ReaderInv
<1>4. ASSUME NEW e \in Events, RWUnlock(e) PROVE ReaderInv'
  <2> DEFINE admitted == {u \in Users : pc[u] = "waiting"}
  <2>1. /\ \A u \in admitted : depth[u] = 0 /\ depth'[u] = 1
        /\ \A u \in Users \ admitted : depth'[u] = depth[u]
    BY <1>4 DEF RWUnlock, UserInv
  <2>2. Below(Users, depth') = Below(Users, depth) \union (admitted \X {1})
    <3>1. ASSUME NEW x \in Below(Users, depth')
          PROVE  x \in Below(Users, depth) \union (admitted \X {1})
      <4>1. PICK u \in Users : \E k \in 1 .. depth'[u] : x = <<u, k>>
        BY BelowMember
      <4> PICK k \in 1 .. depth'[u] : x = <<u, k>>
        BY <4>1
      <4>2. CASE u \in admitted
        BY <2>1, <4>2
      <4>3. CASE u \notin admitted
        BY <2>1, <4>3, BelowMember
      <4> QED
        BY <4>2, <4>3
    <3>2. ASSUME NEW x \in Below(Users, depth) PROVE x \in Below(Users, depth')
      <4>1. PICK u \in Users : \E k \in 1 .. depth[u] : x = <<u, k>>
        BY BelowMember
      <4> PICK k \in 1 .. depth[u] : x = <<u, k>>
        BY <4>1
      <4>2. depth'[u] = depth[u]
        BY <2>1
      <4> QED
        BY <4>2, BelowMember
    <3>3. ASSUME NEW u \in admitted PROVE <<u, 1>> \in Below(Users, depth')
      <4>1. 1 \in 1 .. depth'[u] /\ u \in Users
        BY <2>1
      <4> QED
        BY <4>1, BelowMember
    <3> QED
      BY <3>1, <3>2, <3>3
  <2>3. Below(Users, depth) \cap (admitted \X {1}) = {}
    <3> SUFFICES ASSUME NEW x \in Below(Users, depth), x \in admitted \X {1}
                 PROVE  FALSE
      OBVIOUS
    <3>1. PICK u \in Users : \E k \in 1 .. depth[u] : x = <<u, k>>
      BY BelowMember
    <3> QED
      BY <2>1, <3>1
  <2>4. IsFiniteSet(admitted) /\ Cardinality(admitted) \in Nat
    <3>1. admitted \in SUBSET Users
      OBVIOUS
    <3> HIDE DEF admitted
    <3> QED
      BY <3>1, FS_Subset, FS_CardinalityType
  <2>5. /\ IsFiniteSet(admitted \X {1})
        /\ Cardinality(admitted \X {1}) = Cardinality(admitted)
    <3> HIDE DEF admitted
    <3>1. IsFiniteSet({1}) /\ Cardinality({1}) = 1
      BY FS_Singleton
    <3>2. Cardinality(admitted \X {1}) = Cardinality(admitted) * Cardinality({1})
      BY <2>4, <3>1, FS_Product, Zenon
    <3>3. IsFiniteSet(admitted \X {1})
      BY <2>4, <3>1, FS_Product, Zenon
    <3> QED
      BY <2>4, <3>1, <3>2, <3>3
  <2>6. IsFiniteSet(Below(Users, depth))
    BY BelowFinite
  <2>7. Cardinality(Below(Users, depth'))
        = Cardinality(Below(Users, depth)) + Cardinality(admitted)
    <3> HIDE DEF admitted
    <3>1. Cardinality(Below(Users, depth) \cap (admitted \X {1})) = 0
      BY <2>3, FS_EmptySet
    <3>2. Cardinality(Below(Users, depth) \union (admitted \X {1}))
          = Cardinality(Below(Users, depth)) + Cardinality(admitted \X {1})
            - Cardinality(Below(Users, depth) \cap (admitted \X {1}))
      BY <2>5, <2>6, FS_Union, Zenon
    <3> QED
      BY <2>2, <2>4, <2>5, <3>1, <3>2
  <2> QED
    BY <1>4, <2>7 DEF RWUnlock, ReaderInv
<1>5. ASSUME NEW t \in Goroutines, Call(t) PROVE ReaderInv'
  BY <1>1, <1>5 DEF Call
<1>6. ASSUME NEW u \in Users, Nest(u) \/ RLock(u) \/ RLockWoken(u)
      PROVE  ReaderInv'
  BY <1>1, <1>2, <1>6 DEF Nest, RLock, RLockWoken
<1>7. ASSUME NEW e \in Events, Lock(e) \/ LockWoken(e) \/ Unlock(e)
      PROVE  ReaderInv'
  BY <1>1, <1>7 DEF Lock, LockWoken, Unlock
<1>8. CASE UNCHANGED vars
  BY <1>1, <1>8 DEF vars
<1> QED
  BY <1>3, <1>4, <1>5, <1>6, <1>7, <1>8 DEF Next, StepUser, StepEvent
-----------------------------------------------------------------------------
(* Ids                                                                     *)

\* The calls idmap has been told of can be counted, by id too.
LEMMA WeightFacts ==
  ASSUME Shape
  PROVE  /\ \A u \in Users : Weight[u] = depth[u] + Pending(u)
         /\ \A u \in Users : Weight[u] \in 0 .. 3
         /\ \A x \in Ids : /\ IsFiniteSet(Sharing(x))
                           /\ \A u \in Sharing(x) : Weight[u] \in 0 .. 3
                           /\ Cardinality(Below(Sharing(x), Weight)) \in Nat
<1>1. \A u \in Users : Weight[u] = depth[u] + Pending(u)
  BY DEF Weight
<1>2. \A u \in Users : Weight[u] \in 0 .. 3
  BY DEF Weight, Pending, Shape
<1>3. ASSUME NEW x \in Ids
      PROVE  IsFiniteSet(Sharing(x)) /\ \A u \in Sharing(x) : Weight[u] \in 0 .. 3
  <2>1. Sharing(x) \in SUBSET Users
    BY DEF Sharing
  <2> QED
    BY <1>2, <2>1, FS_Subset, ConstantFacts
<1> QED
  BY <1>1, <1>2, <1>3, BelowFinite

\* One call more is told of under an id.
LEMMA IdUp ==
  ASSUME Shape, Shape', IdInv, UNCHANGED kind, NEW u \in Users,
         kind = "count" =>
           /\ idmap' = [idmap EXCEPT ![IdOf[u]] = @ + 1]
           /\ Weight'[u] = Weight[u] + 1
           /\ \A v \in Users \ {u} : Weight'[v] = Weight[v]
  PROVE  IdInv'
<1> SUFFICES ASSUME kind = "count"
             PROVE  /\ \A x \in Ids :
                         idmap'[x] = Cardinality(Below(Sharing(x), Weight'))
                    /\ \A v \in Users : ~Shared(v) => idmap'[IdOf[v]] = Weight'[v]
  BY DEF IdInv
<1>0. idmap \in [Ids -> Int] /\ IdOf[u] \in Ids
  BY ConstantFacts DEF Shape
<1>1. ASSUME NEW x \in Ids
      PROVE  idmap'[x] = Cardinality(Below(Sharing(x), Weight'))
  <2>1. CASE IdOf[u] = x
    <3>1. u \in Sharing(x) /\ \A v \in Sharing(x) \ {u} : Weight'[v] = Weight[v]
      BY <2>1 DEF Sharing
    <3>2. Cardinality(Below(Sharing(x), Weight'))
          = Cardinality(Below(Sharing(x), Weight)) + 1
      BY <3>1, WeightFacts, BelowGrows
    <3> QED
      BY <1>0, <2>1, <3>2 DEF IdInv
  <2>2. CASE IdOf[u] # x
    <3>1. \A v \in Sharing(x) : Weight'[v] = Weight[v]
      BY <2>2 DEF Sharing
    <3>2. Below(Sharing(x), Weight') = Below(Sharing(x), Weight)
      BY <3>1, BelowSame
    <3> QED
      BY <1>0, <2>2, <3>2 DEF IdInv
  <2> QED
    BY <2>1, <2>2
<1>2. ASSUME NEW v \in Users, ~Shared(v) PROVE idmap'[IdOf[v]] = Weight'[v]
  <2>1. CASE v = u
    BY <1>0, <1>2, <2>1 DEF IdInv
  <2>2. CASE v # u
    <3>1. IdOf[v] # IdOf[u]
      BY <1>2, <2>2 DEF Shared
    <3> QED
      BY <1>0, <1>2, <2>2, <3>1, ConstantFacts DEF IdInv
  <2> QED
    BY <2>1, <2>2
<1> QED
  BY <1>1, <1>2

\* One call less is told of under an id.
LEMMA IdDown ==
  ASSUME Shape, Shape', IdInv, UNCHANGED kind, NEW u \in Users,
         kind = "count" =>
           /\ idmap' = [idmap EXCEPT ![IdOf[u]] = @ - 1]
           /\ Weight[u] = Weight'[u] + 1
           /\ \A v \in Users \ {u} : Weight'[v] = Weight[v]
  PROVE  IdInv'
<1> SUFFICES ASSUME kind = "count"
             PROVE  /\ \A x \in Ids :
                         idmap'[x] = Cardinality(Below(Sharing(x), Weight'))
                    /\ \A v \in Users : ~Shared(v) => idmap'[IdOf[v]] = Weight'[v]
  BY DEF IdInv
<1>0. idmap \in [Ids -> Int] /\ IdOf[u] \in Ids
  BY ConstantFacts DEF Shape
<1>1. ASSUME NEW x \in Ids
      PROVE  idmap'[x] = Cardinality(Below(Sharing(x), Weight'))
  <2>1. CASE IdOf[u] = x
    <3>1. u \in Sharing(x) /\ \A v \in Sharing(x) \ {u} : Weight[v] = Weight'[v]
      BY <2>1 DEF Sharing
    <3>2. /\ \A v \in Sharing(x) : Weight'[v] \in 0 .. 3
          /\ Cardinality(Below(Sharing(x), Weight')) \in Nat
          /\ IsFiniteSet(Sharing(x))
      <4>1. \A v \in Users : Weight'[v] \in 0 .. 3
        BY DEF Weight, Pending, Shape
      <4>2. IsFiniteSet(Sharing(x)) /\ \A v \in Sharing(x) : v \in Users
        BY WeightFacts DEF Sharing
      <4> QED
        BY <4>1, <4>2, BelowFinite
    <3>3. Cardinality(Below(Sharing(x), Weight))
          = Cardinality(Below(Sharing(x), Weight')) + 1
      BY <3>1, <3>2, BelowGrows
    <3> QED
      BY <1>0, <2>1, <3>2, <3>3 DEF IdInv
  <2>2. CASE IdOf[u] # x
    <3>1. \A v \in Sharing(x) : Weight'[v] = Weight[v]
      BY <2>2 DEF Sharing
    <3>2. Below(Sharing(x), Weight') = Below(Sharing(x), Weight)
      BY <3>1, BelowSame
    <3> QED
      BY <1>0, <2>2, <3>2 DEF IdInv
  <2> QED
    BY <2>1, <2>2
<1>2. ASSUME NEW v \in Users, ~Shared(v) PROVE idmap'[IdOf[v]] = Weight'[v]
  <2>0. \A w \in Users : Weight'[w] \in 0 .. 3
    BY DEF Weight, Pending, Shape
  <2>1. CASE v = u
    BY <1>0, <1>2, <2>0, <2>1 DEF IdInv
  <2>2. CASE v # u
    <3>1. IdOf[v] # IdOf[u]
      BY <1>2, <2>2 DEF Shared
    <3> QED
      BY <1>0, <1>2, <2>2, <3>1, ConstantFacts DEF IdInv
  <2> QED
    BY <2>1, <2>2
<1> QED
  BY <1>1, <1>2

\* idmap keeps counting the calls of each id.
LEMMA IdStep == Shape /\ UserInv /\ IdInv /\ [Next]_vars => IdInv'
<1> SUFFICES ASSUME Shape, UserInv, IdInv, [Next]_vars PROVE IdInv'
  OBVIOUS
<1> USE ConstantFacts
<1>0. Shape'
  BY ShapeStep
<1>1. ASSUME UNCHANGED kind,
             kind = "count" => /\ UNCHANGED idmap
                               /\ \A u \in Users : Weight'[u] = Weight[u]
      PROVE  IdInv'
  <2>1. ASSUME kind = "count", NEW x \in Ids
        PROVE  Below(Sharing(x), Weight') = Below(Sharing(x), Weight)
    <3>1. \A v \in Sharing(x) : Weight'[v] = Weight[v]
      BY <1>1, <2>1 DEF Sharing
    <3> QED
      BY <3>1, BelowSame
  <2> QED
    BY <1>1, <2>1 DEF IdInv
<1>2. ASSUME NEW t \in Goroutines, Call(t) PROVE IdInv'
  <2>1. \A u \in Users : Weight'[u] = Weight[u]
    BY <1>2 DEF Call, Weight, Pending, Shape
  <2> QED
    BY <1>1, <1>2, <2>1 DEF Call
<1>3. ASSUME NEW u \in Users, Nest(u) PROVE IdInv'
  <2>1. \A v \in Users : Weight'[v] = Weight[v]
    BY <1>3 DEF Nest, Running, Weight, Pending, Shape
  <2> QED
    BY <1>1, <1>3, <2>1 DEF Nest
<1>4. ASSUME NEW u \in Users, RLock(u) PROVE IdInv'
  <2>1. kind = "count" => idmap' = [idmap EXCEPT ![IdOf[u]] = @ + 1]
    BY <1>4 DEF RLock, AddId, Counts, Id
  <2>2. Weight'[u] = Weight[u] + 1 /\ \A v \in Users \ {u} : Weight'[v] = Weight[v]
    BY <1>4 DEF RLock, Admit, Weight, Pending, Shape
  <2> QED
    BY <1>0, <1>4, <2>1, <2>2, IdUp DEF RLock
<1>5. ASSUME NEW u \in Users, RLockWoken(u) PROVE IdInv'
  <2>1. \A v \in Users : Weight'[v] = Weight[v]
    BY <1>5 DEF RLockWoken, Admit, Weight, Pending, Shape
  <2> QED
    BY <1>1, <1>5, <2>1 DEF RLockWoken
<1>6. ASSUME NEW u \in Users, RUnlock(u) PROVE IdInv'
  <2>1. kind = "count" => idmap' = [idmap EXCEPT ![IdOf[u]] = @ - 1]
    BY <1>6 DEF RUnlock, AddId, Counts, Id, Shape
  <2>2. /\ Pending(u)' = 0 /\ Pending(u) = 0 /\ depth[u] = depth'[u] + 1
        /\ \A v \in Users \ {u} : Pending(v)' = Pending(v) /\ depth'[v] = depth[v]
    BY <1>6 DEF RUnlock, Broadcast, Running, Pending, Shape, UserInv
  <2>3. Weight[u] = Weight'[u] + 1 /\ \A v \in Users \ {u} : Weight'[v] = Weight[v]
    BY <1>0, <2>2 DEF Weight, Shape
  <2> QED
    BY <1>0, <1>6, <2>1, <2>3, IdDown DEF RUnlock
<1>7. ASSUME NEW e \in Events, Lock(e) \/ LockWoken(e) PROVE IdInv'
  <2>1. \A v \in Users : Weight'[v] = Weight[v]
    BY <1>7 DEF Lock, LockWoken, Enter, Weight, Pending, Shape
  <2> QED
    BY <1>1, <1>7, <2>1 DEF Lock, LockWoken
<1>8. ASSUME NEW e \in Events, Unlock(e) PROVE IdInv'
  <2>1. \A v \in Users : Pending(v)' = Pending(v) /\ depth'[v] = depth[v]
    BY <1>8 DEF Unlock, Broadcast, Pending, Shape
  <2>2. \A v \in Users : Weight'[v] = Weight[v]
    BY <2>1 DEF Weight
  <2> QED
    BY <1>1, <1>8, <2>2 DEF Unlock
<1>9. ASSUME NEW e \in Events, RWUnlock(e) PROVE IdInv'
  BY <1>1, <1>9 DEF RWUnlock
<1>10. CASE UNCHANGED vars
  BY <1>1, <1>10 DEF vars, Weight, Pending
<1> QED
  BY <1>2, <1>3, <1>4, <1>5, <1>6, <1>7, <1>8, <1>9, <1>10
  DEF Next, StepUser, StepEvent
-----------------------------------------------------------------------------
(* Callbacks and events                                                    *)

\* The count of readers is 0 only when nobody is in.
LEMMA NobodyIn ==
  ASSUME Shape, ReaderInv, NoReaders PROVE \A u \in Users : depth[u] = 0
  BY DepthIsHeight, ConstantFacts, BelowEmpty DEF ReaderInv, NoReaders

\* An event that has called one of the two locks makes newcomers wait.
LEMMA EventsShow ==
  ASSUME Shape, EventInv, NEW e \in Active, kind \in {"rwmutex", "count"}
  PROVE  WriterFirst
<1>1. CASE kind = "count"
  <2>1. Cardinality(Active) # 0
    BY ActiveFinite, FS_EmptySet
  <2> QED
    BY <1>1, <2>1, ActiveFinite DEF EventInv, WriterFirst
<1>2. CASE kind = "rwmutex"
  BY <1>2 DEF EventInv, WriterFirst
<1> QED
  BY <1>1, <1>2

\* Under the counting lock only a user that is in is known, or one that shares
\* its id.
LEMMA KnownIsIn ==
  ASSUME Shape, IdInv, kind = "count", NEW u \in Users, pc[u] = "called",
         Known(u), ~Shared(u)
  PROVE  depth[u] > 0
<1>1. idmap[IdOf[u]] > 0 /\ idmap[IdOf[u]] = Weight[u]
  BY DEF Known, Id, IdInv
<1>2. Weight[u] = depth[u]
  BY DEF Weight, Pending, Shape
<1> QED
  BY <1>1, <1>2

Apart(e) ==
  /\ \A u \in Users : depth[u] > 0 => kind = "count" /\ Shared(u)
  /\ \A d \in Events : Running(d) => d = e \/ kind = "count"

\* Users and events remain apart.
LEMMA ApartStep == IInv /\ [Next]_vars => ApartInv'
<1> SUFFICES ASSUME IInv, [Next]_vars, NEW e \in Events, Running(e)'
             PROVE  Apart(e)'
  BY DEF ApartInv, Apart
<1> USE ConstantFacts
<1>0. Shape /\ UserInv /\ EventInv /\ ReaderInv /\ IdInv
  BY DEF IInv
\* Steps after which no user is in that was not, and no event runs that did not.
<1>1. ASSUME \A u \in Users : depth'[u] > 0 => depth[u] > 0,
             \A d \in Events : Running(d)' => Running(d), UNCHANGED kind
      PROVE  Apart(e)'
  BY <1>1 DEF IInv, ApartInv, Apart
\* Nobody enters under sync.RWMutex or the counting lock, and nobody gets mu of
\* the other two.
<1>2. ASSUME NEW u \in Users, RLock(u) \/ RLockWoken(u), Running(e)
      PROVE  depth'[u] > 0 => depth[u] > 0 \/ (kind = "count" /\ Shared(u))
  <2>1. e \in Active
    BY <1>2 DEF Active, Running
  <2>2. kind \in {"rwmutex", "count"}
    BY <1>0, <1>2 DEF RLock, RLockWoken, MuFree, Shape
  <2>3. WriterFirst
    BY <1>0, <2>1, <2>2, EventsShow
  <2>4. depth'[u] # depth[u] => RLock(u) /\ Known(u)
    BY <1>2, <2>3 DEF RLock, RLockWoken, MayPass
  <2>5. Known(u) => kind = "count"
    BY <2>2 DEF Known
  <2> QED
    BY <1>0, <2>4, <2>5, KnownIsIn DEF RLock, Shape
<1>3. ASSUME NEW u \in Users, RLock(u) \/ RLockWoken(u) PROVE Apart(e)'
  <2>1. /\ \A d \in Events : pc'[d] = pc[d]
        /\ \A v \in Users \ {u} : depth'[v] = depth[v]
        /\ UNCHANGED kind
    BY <1>0, <1>3 DEF RLock, RLockWoken, Admit, Shape
  <2>2. Running(e)
    BY <2>1 DEF Running
  <2>3. Apart(e)
    BY <2>2 DEF IInv, ApartInv, Apart
  <2>4. depth'[u] > 0 => depth[u] > 0 \/ (kind = "count" /\ Shared(u))
    BY <1>2, <1>3, <2>2
  <2> QED
    BY <2>1, <2>3, <2>4 DEF Apart, Running
<1>4. ASSUME NEW u \in Users, RUnlock(u) PROVE Apart(e)'
  <2>1. \A d \in Events : Running(d)' => Running(d)
    BY <1>0, <1>4 DEF RUnlock, Broadcast, Running, Shape
  <2>2. \A v \in Users : depth'[v] > 0 => depth[v] > 0
    BY <1>0, <1>4 DEF RUnlock, Shape
  <2> QED
    BY <1>1, <1>4, <2>1, <2>2 DEF RUnlock
<1>5. ASSUME NEW t \in Goroutines, Call(t) PROVE Apart(e)'
  BY <1>0, <1>1, <1>5 DEF Call, Running, Shape
<1>6. ASSUME NEW u \in Users, Nest(u) PROVE Apart(e)'
  BY <1>0, <1>1, <1>6 DEF Nest, Running, Shape
\* Of two events that run, one has entered while the other ran.
<1>7. ASSUME NEW d \in Events, Lock(d) \/ LockWoken(d) PROVE Apart(e)'
  <2>1. /\ \A f \in Events \ {d} : pc'[f] = pc[f]
        /\ UNCHANGED <<kind, depth>>
        /\ Running(d)' => NoReaders
        /\ ~Running(d)
    BY <1>0, <1>7 DEF Lock, LockWoken, Enter, Running, Shape
  <2>2. CASE Running(d)'
    <3>1. \A u \in Users : depth'[u] = 0
      BY <1>0, <2>1, <2>2, NobodyIn
    <3>2. ASSUME NEW f \in Events, Running(f), f # d PROVE kind = "count"
      <4>1. f \in Active
        BY <3>2 DEF Active, Running
      <4>2. kind \notin {"flag", "goid"}
        BY <1>7, <3>2 DEF Lock, LockWoken, MuFree
      <4>3. kind = "rwmutex" => writerWaiting /\ (d \in Active => d = f)
        BY <1>0, <4>1 DEF EventInv
      <4>4. LockWoken(d) => d \in Active
        BY DEF LockWoken, Active
      <4>5. kind # "rwmutex"
        BY <1>7, <3>2, <4>3, <4>4 DEF Lock
      <4> QED
        BY <1>0, <4>2, <4>5 DEF Shape
    <3>3. \A f \in Events : Running(f)' => f = d \/ Running(f)
      BY <2>1 DEF Running
    <3> QED
      BY <2>1, <3>1, <3>2, <3>3 DEF Apart
  <2>3. CASE ~Running(d)'
    <3>1. \A f \in Events : Running(f)' => Running(f)
      BY <2>1, <2>3 DEF Running
    <3> QED
      BY <1>1, <2>1, <3>1
  <2> QED
    BY <2>2, <2>3
<1>8. ASSUME NEW d \in Events, Unlock(d) PROVE Apart(e)'
  <2>1. \A f \in Events : Running(f)' => Running(f)
    BY <1>0, <1>8 DEF Unlock, Broadcast, Running, Shape
  <2> QED
    BY <1>1, <1>8, <2>1 DEF Unlock
\* The one event under sync.RWMutex is over.
<1>9. ASSUME NEW d \in Events, RWUnlock(d) PROVE Apart(e)'
  <2>1. e # d /\ Running(e)
    BY <1>9 DEF RWUnlock, Running
  <2>2. e \in Active /\ d \in Active /\ kind = "rwmutex"
    BY <1>9, <2>1 DEF RWUnlock, Running, Active
  <2> QED
    BY <1>0, <2>1, <2>2 DEF EventInv
<1>10. CASE UNCHANGED vars
  BY <1>1, <1>10 DEF vars, Running
<1> QED
  BY <1>3, <1>4, <1>5, <1>6, <1>7, <1>8, <1>9, <1>10
  DEF Next, StepUser, StepEvent
-----------------------------------------------------------------------------
(* The locks' invariant                                                    *)

\* At the start nobody is in, and every count is 0.
LEMMA InitInv == Init => IInv
<1> SUFFICES ASSUME Init PROVE IInv
  OBVIOUS
<1> USE ConstantFacts DEF Init
<1>1. Shape
  <2>1. writerWaiting \in BOOLEAN
    BY Zenon
  <2>2. /\ idmap \in [Ids -> Int]
        /\ pc \in [Goroutines -> {"idle", "called", "waiting", "woken", "running"}]
        /\ depth \in [Users -> 0 .. 2] /\ calls \in [Goroutines -> Nat]
    OBVIOUS
  <2> QED
    BY <2>1, <2>2 DEF Shape
<1>2. UserInv
  BY DEF UserInv
<1>3. EventInv
  <2>1. Active = {}
    BY DEF Active
  <2> QED
    BY <2>1, FS_EmptySet DEF EventInv
<1>4. ReaderInv
  BY <1>1, DepthIsHeight, BelowEmpty DEF ReaderInv
<1>5. IdInv
  <2>1. \A u \in Users : Weight[u] = 0
    BY DEF Weight, Pending
  <2>2. ASSUME NEW x \in Ids PROVE Cardinality(Below(Sharing(x), Weight)) = 0
    <3>1. \A u \in Sharing(x) : Weight[u] = 0
      BY <2>1 DEF Sharing
    <3> QED
      BY <1>1, <3>1, WeightFacts, BelowEmpty
  <2> QED
    BY <2>1, <2>2 DEF IdInv
<1>6. ApartInv
  BY DEF ApartInv, Running
<1> QED
  BY <1>1, <1>2, <1>3, <1>4, <1>5, <1>6 DEF IInv

\* The parts of the invariant together are inductive.
LEMMA InvStep == IInv /\ [Next]_vars => IInv'
  BY ShapeStep, UserStep, EventStep, ReaderStep, IdStep, ApartStep DEF IInv

\* The invariant gives the properties of a state.
LEMMA InvImplies == IInv => TypeOK /\ ReadersCounted /\ KeptApart
<1> SUFFICES ASSUME IInv PROVE TypeOK /\ ReadersCounted /\ KeptApart
  OBVIOUS
<1> USE ConstantFacts
<1>0. Shape /\ UserInv /\ EventInv /\ ReaderInv /\ IdInv
  BY DEF IInv
<1>1. writerCount \in 0 .. Cardinality(Events)
  <2>1. Active \in SUBSET Events
    BY DEF Active
  <2>2. Cardinality(Active) <= Cardinality(Events)
    BY <2>1, FS_Subset
  <2>3. Cardinality(Events) \in Nat
    BY FS_CardinalityType
  <2> QED
    BY <1>0, <2>2, <2>3, ActiveFinite DEF EventInv
<1>2. TypeOK
  BY <1>0, <1>1, DepthIsHeight DEF TypeOK, Shape, ReaderInv
<1>3. Entries = Below(Users, depth)
  BY DEF Entries, Below
<1>4. ASSUME kind = "count", NEW u \in Users, depth[u] > 0
      PROVE  idmap[IdOf[u]] > 0
  <2>1. u \in Sharing(IdOf[u]) /\ Weight[u] # 0
    BY <1>0, <1>4 DEF Sharing, Weight, Pending, Shape
  <2>2. Cardinality(Below(Sharing(IdOf[u]), Weight)) # 0
    BY <1>0, <2>1, WeightFacts, BelowEmpty
  <2> QED
    BY <1>0, <1>4, <2>2, WeightFacts DEF IdInv
<1>5. ASSUME kind = "count", NEW u \in Users, ~Shared(u)
      PROVE  idmap[IdOf[u]] - depth[u] \in {0, 1}
  BY <1>0, <1>5 DEF IdInv, Weight, Pending, Shape
<1>6. ReadersCounted
  BY <1>0, <1>3, <1>4, <1>5 DEF ReadersCounted, ReaderInv
<1>7. KeptApart
  BY <1>0 DEF KeptApart, IInv, ApartInv, UserInv, Running
<1> QED
  BY <1>2, <1>6, <1>7

\* No callback enters the counting lock while an event waits, but for a user
\* that is in or shares its id.
GoesFirst ==
  \A u \in Users, e \in Events :
    kind = "count" /\ pc[e] = "waiting" /\ depth[u] = 0 /\ depth'[u] = 1 => Shared(u)

\* A step that admits a user follows the counting lock's priority.
LEMMA GoFirstStep == IInv /\ [Next]_vars => GoesFirst
<1> SUFFICES ASSUME IInv, [Next]_vars, NEW u \in Users, NEW e \in Events,
                    kind = "count", pc[e] = "waiting",
                    depth[u] = 0, depth'[u] = 1, ~Shared(u)
             PROVE  FALSE
  BY DEF GoesFirst
<1> USE ConstantFacts
<1>0. Shape /\ EventInv /\ IdInv
  BY DEF IInv
<1>1. WriterFirst
  <2>1. e \in Active
    BY DEF Active
  <2> QED
    BY <1>0, <2>1, EventsShow
<1>2. ASSUME NEW v \in Users, RLock(v) PROVE FALSE
  <2>1. v = u /\ Known(u) /\ pc[u] = "called"
    BY <1>0, <1>1, <1>2 DEF RLock, Admit, Shape
  <2> QED
    BY <1>0, <2>1, KnownIsIn
<1>3. ASSUME NEW v \in Users, RLockWoken(v) PROVE FALSE
  BY <1>0, <1>1, <1>3 DEF RLockWoken, MayPass
<1>4. ASSUME NEW v \in Users, RUnlock(v) PROVE FALSE
  BY <1>0, <1>4 DEF RUnlock, Shape
<1>5. ASSUME depth' = depth PROVE FALSE
  BY <1>5
<1>6. ASSUME NEW d \in Events, RWUnlock(d) PROVE FALSE
  BY <1>6 DEF RWUnlock
<1> QED
  BY <1>2, <1>3, <1>4, <1>5, <1>6
  DEF Next, StepUser, StepEvent, Call, Nest, Lock, LockWoken, Unlock, vars
-----------------------------------------------------------------------------
(* Water                                                                   *)

Atoms == Hs \union Os

\* The one oxygen among the atoms from one number of the log to another.
OneOxygen(from, to) ==
  \E j \in from .. to :
    /\ atoms[j] = "O"
    /\ \A l \in from .. to : atoms[l] = "O" => l = j
NoOxygen(from, to) == \A l \in from .. to : atoms[l] # "O"

\* The log is g molecules and what has bonded since, which is not a molecule.
WaterLog ==
  \E g \in Nat :
    /\ Len(atoms) = 3 * g + hCount + oCount /\ hCount + oCount <= 2
    /\ \A k \in 0 .. g - 1 : OneOxygen(3 * k + 1, 3 * k + 3)
    /\ oCount = 0 => NoOxygen(3 * g + 1, Len(atoms))
    /\ oCount = 1 => OneOxygen(3 * g + 1, Len(atoms))

WaterInv == Water!TypeOK /\ WaterLog /\ Water!NoLostWakeup

\* At the start the log is no molecule and no rest.
LEMMA WaterInit == Water!Init => WaterInv
<1> SUFFICES ASSUME Water!Init PROVE WaterInv
  OBVIOUS
<1> USE DEF Water!Init
<1>1. WaterLog
  <2>1. /\ Len(atoms) = 3 * 0 + hCount + oCount /\ hCount + oCount <= 2
        /\ \A k \in 0 .. 0 - 1 : OneOxygen(3 * k + 1, 3 * k + 3)
        /\ NoOxygen(3 * 0 + 1, Len(atoms)) /\ oCount = 0
    BY DEF NoOxygen
  <2> QED
    BY <2>1 DEF WaterLog
<1>2. Water!TypeOK
  BY DEF Water!TypeOK
<1>3. Water!NoLostWakeup
  BY DEF Water!NoLostWakeup
<1> QED
  BY <1>1, <1>2, <1>3 DEF WaterInv

\* What a bond appends, and to what.
LEMMA BondEffect ==
  ASSUME WaterInv, NEW a \in Atoms, Water!Bond(a)
  PROVE  \E h \in 0 .. 2, o \in 0 .. 1 :
           /\ \/ h = hCount + 1 /\ o = oCount /\ a \in Hs /\ atoms' = Append(atoms, "H")
              \/ h = hCount /\ o = oCount + 1 /\ a \in Os /\ atoms' = Append(atoms, "O")
           /\ \/ /\ h = 2 /\ o = 1 /\ hCount' = 0 /\ oCount' = 0
                 /\ \A b \in Atoms : hpc'[b] # "waiting"
              \/ /\ h + o <= 2 /\ hCount' = h /\ oCount' = o
                 /\ \A b \in Atoms : hpc'[b] = "waiting" => hpc[b] = "waiting"
           /\ hpc' \in [Atoms -> {"called", "waiting", "woken", "done"}]
<1> USE DemoAssumption DEF Atoms
<1>0. /\ hCount \in 0 .. 2 /\ oCount \in 0 .. 1 /\ hCount + oCount <= 2
      /\ hpc \in [Atoms -> {"called", "waiting", "woken", "done"}]
  BY DEF WaterInv, WaterLog, Water!TypeOK
<1> DEFINE h == IF a \in Hs THEN hCount + 1 ELSE hCount
           o == IF a \in Os THEN oCount + 1 ELSE oCount
<1>1. h \in 0 .. 2 /\ o \in 0 .. 1
  BY <1>0 DEF Water!Bond, Water!Waits, Water!HydrogenWaits, Water!OxygenWaits
<1>2. \/ h = hCount + 1 /\ o = oCount /\ a \in Hs /\ atoms' = Append(atoms, "H")
      \/ h = hCount /\ o = oCount + 1 /\ a \in Os /\ atoms' = Append(atoms, "O")
  BY DEF Water!Bond
<1>3. /\ \/ /\ h = 2 /\ o = 1 /\ hCount' = 0 /\ oCount' = 0
            /\ \A b \in Atoms : hpc'[b] # "waiting"
         \/ /\ h + o <= 2 /\ hCount' = h /\ oCount' = o
            /\ \A b \in Atoms : hpc'[b] = "waiting" => hpc[b] = "waiting"
      /\ hpc' \in [Atoms -> {"called", "waiting", "woken", "done"}]
  <2>1. CASE h >= 2 /\ o >= 1
    BY <1>0, <1>1, <2>1 DEF Water!Bond
  <2>2. CASE ~(h >= 2 /\ o >= 1)
    BY <1>0, <1>1, <2>2 DEF Water!Bond
  <2> QED
    BY <2>1, <2>2
<1> QED
  BY <1>1, <1>2, <1>3

\* A log that is longer by one keeps its groups.
LEMMA LogGrows ==
  ASSUME atoms \in Seq({"H", "O"}), NEW x \in {"H", "O"},
         atoms' = Append(atoms, x)
  PROVE  /\ Len(atoms) \in Nat /\ Len(atoms') = Len(atoms) + 1
         /\ atoms' \in Seq({"H", "O"})
         /\ atoms'[Len(atoms')] = x
         /\ \A l \in 1 .. Len(atoms) : atoms'[l] = atoms[l]
         /\ \A from \in 1 .. Len(atoms) + 1, to \in 0 .. Len(atoms) :
              /\ OneOxygen(from, to) => OneOxygen(from, to)'
              /\ NoOxygen(from, to) => NoOxygen(from, to)'
<1>1. /\ Len(atoms) \in Nat /\ Len(atoms') = Len(atoms) + 1
      /\ atoms' \in Seq({"H", "O"})
      /\ atoms'[Len(atoms')] = x
      /\ \A l \in 1 .. Len(atoms) : atoms'[l] = atoms[l]
  OBVIOUS
<1>2. ASSUME NEW from \in 1 .. Len(atoms) + 1, NEW to \in 0 .. Len(atoms)
      PROVE  \A l \in from .. to : l \in 1 .. Len(atoms)
  BY <1>1
<1>3. ASSUME NEW from \in 1 .. Len(atoms) + 1, NEW to \in 0 .. Len(atoms),
             NoOxygen(from, to)
      PROVE  NoOxygen(from, to)'
  BY <1>1, <1>2, <1>3 DEF NoOxygen
<1>4. ASSUME NEW from \in 1 .. Len(atoms) + 1, NEW to \in 0 .. Len(atoms),
             OneOxygen(from, to)
      PROVE  OneOxygen(from, to)'
  <2>1. \A l \in from .. to : atoms'[l] = atoms[l]
    BY <1>1, <1>2
  <2> QED
    BY <1>4, <2>1 DEF OneOxygen
<1> QED
  BY <1>1, <1>3, <1>4

\* A bond keeps the shape of the log: it completes a molecule or adds to the rest.
LEMMA LogStep ==
  ASSUME WaterInv, NEW a \in Atoms, Water!Bond(a)
  PROVE  WaterLog'
<1> PICK h \in 0 .. 2, o \in 0 .. 1 :
      /\ \/ h = hCount + 1 /\ o = oCount /\ a \in Hs /\ atoms' = Append(atoms, "H")
         \/ h = hCount /\ o = oCount + 1 /\ a \in Os /\ atoms' = Append(atoms, "O")
      /\ \/ h = 2 /\ o = 1 /\ hCount' = 0 /\ oCount' = 0
         \/ h + o <= 2 /\ hCount' = h /\ oCount' = o
  BY BondEffect
<1> PICK g \in Nat :
      /\ Len(atoms) = 3 * g + hCount + oCount /\ hCount + oCount <= 2
      /\ \A k \in 0 .. g - 1 : OneOxygen(3 * k + 1, 3 * k + 3)
      /\ oCount = 0 => NoOxygen(3 * g + 1, Len(atoms))
      /\ oCount = 1 => OneOxygen(3 * g + 1, Len(atoms))
  BY DEF WaterInv, WaterLog
<1>0. atoms \in Seq({"H", "O"}) /\ hCount \in 0 .. 2 /\ oCount \in 0 .. 1
  BY DEF WaterInv, Water!TypeOK
<1>1. PICK x \in {"H", "O"} :
        /\ atoms' = Append(atoms, x)
        /\ x = "H" => h = hCount + 1 /\ o = oCount
        /\ x = "O" => h = hCount /\ o = oCount + 1
  OBVIOUS
<1> PICK n : n = Len(atoms)
  OBVIOUS
<1>2. /\ n \in Nat /\ Len(atoms') = n + 1 /\ atoms'[n + 1] = x
      /\ \A l \in 1 .. n : atoms'[l] = atoms[l]
      /\ \A from \in 1 .. n + 1, to \in 0 .. n :
           /\ OneOxygen(from, to) => OneOxygen(from, to)'
           /\ NoOxygen(from, to) => NoOxygen(from, to)'
  BY <1>0, <1>1, LogGrows
<1>3. \A k \in 0 .. g - 1 : OneOxygen(3 * k + 1, 3 * k + 3)'
  <2> SUFFICES ASSUME NEW k \in 0 .. g - 1 PROVE OneOxygen(3 * k + 1, 3 * k + 3)'
    OBVIOUS
  <2>1. 3 * k + 1 \in 1 .. n + 1 /\ 3 * k + 3 \in 0 .. n
    BY <1>0
  <2>2. OneOxygen(3 * k + 1, 3 * k + 3)
    OBVIOUS
  <2> QED
    BY <1>2, <2>1, <2>2
\* The atoms that have bonded since the last molecule, and the new one.
<1>4. 3 * g + 1 \in 1 .. n + 1 /\ n \in 0 .. n
  BY <1>0, <1>2
<1>5. o = 0 => NoOxygen(3 * g + 1, n + 1)'
  <2> SUFFICES ASSUME o = 0 PROVE NoOxygen(3 * g + 1, n + 1)'
    OBVIOUS
  <2>1. oCount = 0 /\ x = "H"
    BY <1>0, <1>1
  <2>2. NoOxygen(3 * g + 1, n)'
    BY <1>2, <1>4, <2>1
  <2> QED
    BY <1>2, <2>1, <2>2 DEF NoOxygen
<1>6. o = 1 => OneOxygen(3 * g + 1, n + 1)'
  <2> SUFFICES ASSUME o = 1 PROVE OneOxygen(3 * g + 1, n + 1)'
    OBVIOUS
  <2>1. CASE x = "H"
    <3>1. OneOxygen(3 * g + 1, n)'
      BY <1>1, <1>2, <1>4, <2>1
    <3> QED
      BY <1>2, <2>1, <3>1, SMTT(30) DEF OneOxygen
  <2>2. CASE x = "O"
    <3>1. NoOxygen(3 * g + 1, n)'
      BY <1>0, <1>1, <1>2, <1>4, <2>2
    <3>2. n + 1 \in 3 * g + 1 .. n + 1
      BY <1>4
    <3> QED
      BY <1>2, <2>2, <3>1, <3>2 DEF OneOxygen, NoOxygen
  <2> QED
    BY <2>1, <2>2
<1>7. CASE h = 2 /\ o = 1 /\ hCount' = 0 /\ oCount' = 0
  <2>1. Len(atoms') = 3 * (g + 1) + hCount' + oCount' /\ n + 1 = 3 * g + 3
    BY <1>0, <1>1, <1>2, <1>7
  <2>2. ASSUME NEW k \in 0 .. (g + 1) - 1
        PROVE  OneOxygen(3 * k + 1, 3 * k + 3)'
    <3>1. CASE k \in 0 .. g - 1
      BY <1>3, <3>1
    <3>2. CASE k = g
      <4>1. OneOxygen(3 * g + 1, 3 * g + 3)'
        BY <1>6, <1>7, <2>1
      <4> QED
        BY <3>2, <4>1
    <3> QED
      BY <3>1, <3>2
  <2>3. NoOxygen(3 * (g + 1) + 1, Len(atoms))'
    BY <1>7, <2>1 DEF NoOxygen
  <2>4. g + 1 \in Nat
    OBVIOUS
  <2> QED
    BY <1>7, <2>1, <2>2, <2>3, <2>4 DEF WaterLog
<1>8. CASE h + o <= 2 /\ hCount' = h /\ oCount' = o
  <2>1. Len(atoms') = 3 * g + hCount' + oCount'
    BY <1>0, <1>1, <1>2, <1>8
  <2>2. /\ oCount' = 0 => NoOxygen(3 * g + 1, Len(atoms))'
        /\ oCount' = 1 => OneOxygen(3 * g + 1, Len(atoms))'
    BY <1>2, <1>5, <1>6, <1>8 DEF NoOxygen, OneOxygen
  <2> QED
    BY <1>3, <1>8, <2>1, <2>2 DEF WaterLog
<1> QED
  BY <1>7, <1>8

\* A step of 1117 keeps its invariant.
LEMMA WaterStepInv == WaterInv /\ [Water!Next]_hVars => WaterInv'
<1> SUFFICES ASSUME WaterInv, [Water!Next]_hVars PROVE WaterInv'
  OBVIOUS
<1> USE DemoAssumption
<1>1. CASE UNCHANGED hVars
  <2>1. WaterLog'
    BY <1>1 DEF hVars, WaterInv, WaterLog, OneOxygen, NoOxygen
  <2>2. Water!TypeOK'
    BY <1>1 DEF hVars, WaterInv, Water!TypeOK
  <2>3. Water!NoLostWakeup'
    BY <1>1 DEF hVars, WaterInv, Water!NoLostWakeup, Water!Waits
  <2> QED
    BY <2>1, <2>2, <2>3 DEF WaterInv
<1>2. ASSUME NEW a \in Atoms, Water!Wait(a) PROVE WaterInv'
  <2>1. UNCHANGED <<hCount, oCount, atoms>>
    BY <1>2 DEF Water!Wait
  <2>2. WaterLog'
    BY <2>1 DEF WaterInv, WaterLog, OneOxygen, NoOxygen
  <2>3. hpc' = [hpc EXCEPT ![a] = "waiting"] /\ Water!Waits(a)
    BY <1>2 DEF Water!Wait
  <2>4. Water!TypeOK'
    BY <2>1, <2>3 DEF WaterInv, Water!TypeOK, Atoms
  <2>5. Water!NoLostWakeup'
    BY <2>1, <2>3 DEF WaterInv, Water!TypeOK, Water!NoLostWakeup, Water!Waits
  <2> QED
    BY <2>2, <2>4, <2>5 DEF WaterInv
<1>3. ASSUME NEW a \in Atoms, Water!Bond(a) PROVE WaterInv'
  <2>1. PICK h \in 0 .. 2, o \in 0 .. 1 :
          /\ \/ h = hCount + 1 /\ o = oCount /\ a \in Hs /\ atoms' = Append(atoms, "H")
             \/ h = hCount /\ o = oCount + 1 /\ a \in Os /\ atoms' = Append(atoms, "O")
          /\ \/ /\ h = 2 /\ o = 1 /\ hCount' = 0 /\ oCount' = 0
                /\ \A b \in Atoms : hpc'[b] # "waiting"
             \/ /\ h + o <= 2 /\ hCount' = h /\ oCount' = o
                /\ \A b \in Atoms : hpc'[b] = "waiting" => hpc[b] = "waiting"
          /\ hpc' \in [Atoms -> {"called", "waiting", "woken", "done"}]
    BY <1>3, BondEffect
  <2>2. atoms \in Seq({"H", "O"}) /\ hCount \in 0 .. 2 /\ oCount \in 0 .. 1
    BY DEF WaterInv, Water!TypeOK
  <2>3. Water!TypeOK'
    <3>1. atoms' \in Seq({"H", "O"})
      BY <2>1, <2>2
    <3>2. hCount' \in 0 .. 2 /\ oCount' \in 0 .. 1
      BY <2>1
    <3> QED
      BY <2>1, <3>1, <3>2 DEF Water!TypeOK, Atoms
  <2>4. ASSUME NEW b \in Atoms, hpc'[b] = "waiting" PROVE Water!Waits(b)'
    <3>1. /\ h + o <= 2 /\ hCount' = h /\ oCount' = o /\ hpc[b] = "waiting"
      BY <2>1, <2>4
    <3>2. Water!Waits(b)
      BY <3>1 DEF WaterInv, Water!NoLostWakeup, Atoms
    <3>3. ~Water!Waits(a)
      BY <1>3 DEF Water!Bond
    <3> QED
      BY <2>1, <2>2, <3>1, <3>2, <3>3
      DEF Water!Waits, Water!HydrogenWaits, Water!OxygenWaits, Atoms
  <2>5. Water!NoLostWakeup'
    BY <2>4 DEF Water!NoLostWakeup, Atoms
  <2> QED
    BY <1>3, <2>3, <2>5, LogStep DEF WaterInv
<1> QED
  BY <1>1, <1>2, <1>3 DEF Water!Next, Water!Step, Atoms

\* The log falls into molecules.
LEMMA WaterOrder == WaterInv => Water!WholeMolecules
<1> SUFFICES ASSUME WaterInv, NEW k \in 0 .. Len(atoms) \div 3
             PROVE  /\ \A r, s \in Water!Oxygens(3 * k + 1, 3 * k + 3) : r = s
                    /\ 3 * k + 3 <= Len(atoms)
                         => Water!Oxygens(3 * k + 1, 3 * k + 3) # {}
  BY DEF Water!WholeMolecules
<1> PICK g \in Nat :
      /\ Len(atoms) = 3 * g + hCount + oCount /\ hCount + oCount <= 2
      /\ \A m \in 0 .. g - 1 : OneOxygen(3 * m + 1, 3 * m + 3)
      /\ oCount = 0 => NoOxygen(3 * g + 1, Len(atoms))
      /\ oCount = 1 => OneOxygen(3 * g + 1, Len(atoms))
  BY DEF WaterInv, WaterLog
<1>0. Len(atoms) \in Nat /\ hCount \in 0 .. 2 /\ oCount \in 0 .. 1
  BY DEF WaterInv, Water!TypeOK
<1>1. k \in 0 .. g - 1 \/ k = g
  BY <1>0
<1>2. CASE k \in 0 .. g - 1
  <2>1. OneOxygen(3 * k + 1, 3 * k + 3) /\ 3 * k + 3 <= Len(atoms)
    BY <1>0, <1>2
  <2> QED
    BY <1>0, <2>1 DEF Water!Oxygens, OneOxygen
<1>3. CASE k = g
  <2>1. 3 * k + 3 > Len(atoms)
    BY <1>0, <1>3
  <2>2. \A l \in Water!Oxygens(3 * k + 1, 3 * k + 3) :
          l \in 3 * g + 1 .. Len(atoms) /\ atoms[l] = "O"
    BY <1>0, <1>3 DEF Water!Oxygens
  <2>3. NoOxygen(3 * g + 1, Len(atoms)) \/ OneOxygen(3 * g + 1, Len(atoms))
    BY <1>0
  <2> QED
    BY <1>0, <2>1, <2>2, <2>3 DEF NoOxygen, OneOxygen
<1> QED
  BY <1>1, <1>2, <1>3
-----------------------------------------------------------------------------
(* Queue                                                                   *)

QueueInv == Queue!TypeOK /\ Queue!FirstInFirstOut /\ Queue!NoLostWakeup

Elements == Producers \X Nat

\* At the start nothing has gone in and nothing has come out.
LEMMA QueueInit == Queue!Init => QueueInv
<1> SUFFICES ASSUME Queue!Init PROVE QueueInv
  OBVIOUS
<1>1. Queue!TypeOK
  BY DemoAssumption DEF Queue!Init, Queue!TypeOK
<1>2. Queue!FirstInFirstOut
  BY DEF Queue!Init, Queue!FirstInFirstOut
<1>3. Queue!NoLostWakeup
  BY DEF Queue!Init, Queue!NoLostWakeup
<1> QED
  BY <1>1, <1>2, <1>3 DEF QueueInv

\* What goes in last comes out last, and what comes out was first.
LEMMA AppendToConcat ==
  ASSUME NEW s \in Seq(Elements), NEW t \in Seq(Elements), NEW e \in Elements
  PROVE  Append(s \o t, e) = s \o Append(t, e)
<1>1. s \o t \in Seq(Elements) /\ Append(t, e) \in Seq(Elements)
  BY ConcatProperties
<1> DEFINE a == Append(s \o t, e)
           b == s \o Append(t, e)
<1>2. a \in Seq(Elements) /\ b \in Seq(Elements)
  BY <1>1, ConcatProperties
<1>3. Len(a) = Len(b)
  BY <1>1, ConcatProperties
<1>4. ASSUME NEW l \in 1 .. Len(a) PROVE a[l] = b[l]
  BY <1>1, ConcatProperties
<1>5. a = b
  <2> HIDE DEF a, b
  <2> QED
    BY <1>2, <1>3, <1>4, SeqEqual
<1> QED
  BY <1>5

\* What is taken off the front of one list and put at the end of another.
LEMMA HeadMoves ==
  ASSUME NEW s \in Seq(Elements), NEW t \in Seq(Elements), t # <<>>
  PROVE  /\ Head(t) \in Elements /\ Tail(t) \in Seq(Elements)
         /\ Len(Tail(t)) = Len(t) - 1
         /\ s \o t = Append(s, Head(t)) \o Tail(t)
<1>1. /\ Head(t) \in Elements /\ Tail(t) \in Seq(Elements)
      /\ Len(Tail(t)) = Len(t) - 1
      /\ \A l \in 1 .. Len(Tail(t)) : Tail(t)[l] = t[l + 1]
  BY HeadTailProperties
<1>2. Head(t) = t[1] /\ Len(t) \in Nat \ {0}
  OBVIOUS
<1> DEFINE u == Append(s, Head(t))
           a == s \o t
           b == u \o Tail(t)
<1>3. u \in Seq(Elements) /\ Len(u) = Len(s) + 1
  BY <1>1
<1>4. a \in Seq(Elements) /\ Len(a) = Len(s) + Len(t)
  BY ConcatProperties
<1>5. b \in Seq(Elements) /\ Len(b) = Len(s) + Len(t)
  <2>1. Tail(t) \in Seq(Elements)
    BY <1>1
  <2>2. b \in Seq(Elements) /\ Len(b) = Len(u) + Len(Tail(t))
    <3> HIDE DEF u
    <3> QED
      BY <1>3, <2>1, ConcatProperties
  <2> QED
    BY <1>1, <1>2, <1>3, <2>2
<1>6. ASSUME NEW l \in 1 .. Len(a) PROVE a[l] = b[l]
  <2>1. a[l] = IF l <= Len(s) THEN s[l] ELSE t[l - Len(s)]
    BY <1>4, ConcatProperties
  <2>2. b[l] = IF l <= Len(u) THEN u[l] ELSE Tail(t)[l - Len(u)]
    <3>1. Tail(t) \in Seq(Elements) /\ l \in 1 .. Len(u) + Len(Tail(t))
      BY <1>1, <1>2, <1>3, <1>4
    <3> HIDE DEF u
    <3> QED
      BY <1>3, <3>1, ConcatProperties
  <2>3. CASE l <= Len(s)
    BY <1>3, <2>1, <2>2, <2>3
  <2>4. CASE l = Len(s) + 1
    BY <1>2, <1>3, <2>1, <2>2, <2>4
  <2>5. CASE l > Len(s) + 1
    <3>1. l - Len(u) \in 1 .. Len(Tail(t))
      BY <1>1, <1>2, <1>3, <1>4, <2>5
    <3>2. Tail(t)[l - Len(u)] = t[l - Len(s)]
      BY <1>1, <1>3, <3>1
    <3> QED
      BY <1>3, <2>1, <2>2, <2>5, <3>2
  <2> QED
    BY <1>4, <2>3, <2>4, <2>5
<1>7. a = b
  <2> HIDE DEF a, b
  <2> QED
    BY <1>4, <1>5, <1>6, SeqEqual
<1> QED
  BY <1>1, <1>7

\* A step of 1188 keeps its invariant.
LEMMA QueueStepInv == QueueInv /\ [Queue!Next]_qVars => QueueInv'
<1> SUFFICES ASSUME QueueInv, [Queue!Next]_qVars PROVE QueueInv'
  OBVIOUS
<1> USE DemoAssumption
<1>0. /\ q \in Seq(Elements) /\ Len(q) \in Nat /\ Len(q) <= capacity
      /\ put \in Seq(Elements) /\ taken \in Seq(Elements)
      /\ qpc \in [Queue!Threads -> {"idle", "called", "waiting", "woken"}]
      /\ qcalls \in [Queue!Threads -> Nat] /\ capacity \in Nat
      /\ put = taken \o q
  BY DEF QueueInv, Queue!TypeOK, Queue!FirstInFirstOut, Elements
<1>1. CASE UNCHANGED qVars
  BY <1>1
  DEF qVars, QueueInv, Queue!TypeOK, Queue!FirstInFirstOut,
      Queue!NoLostWakeup, Queue!Waits, Queue!Full
<1>2. ASSUME NEW t \in Queue!Threads, Queue!Call(t) \/ Queue!Wait(t)
      PROVE  QueueInv'
  <2>1. UNCHANGED <<q, put, taken>>
    BY <1>2 DEF Queue!Call, Queue!Wait
  <2>2. Queue!TypeOK'
    <3>1. /\ qpc' \in [Queue!Threads -> {"idle", "called", "waiting", "woken"}]
          /\ qcalls' \in [Queue!Threads -> Nat]
      <4>1. CASE Queue!Call(t)
        BY <1>0, <4>1 DEF Queue!Call
      <4>2. CASE Queue!Wait(t)
        BY <1>0, <4>2 DEF Queue!Wait
      <4> QED
        BY <1>2, <4>1, <4>2
    <3> QED
      BY <1>0, <2>1, <3>1 DEF Queue!TypeOK, Elements
  <2>3. ASSUME NEW u \in Queue!Threads, qpc'[u] = "waiting"
        PROVE  Queue!Waits(u)'
    <3>1. Queue!Waits(u)' = Queue!Waits(u)
      BY <2>1 DEF Queue!Waits, Queue!Full
    <3>2. CASE qpc[u] = "waiting"
      BY <3>1, <3>2 DEF QueueInv, Queue!NoLostWakeup
    <3>3. CASE qpc[u] # "waiting"
      <4>1. u = t /\ Queue!Wait(t)
        BY <1>0, <1>2, <2>3, <3>3 DEF Queue!Call, Queue!Wait
      <4> QED
        BY <3>1, <4>1 DEF Queue!Wait
    <3> QED
      BY <3>2, <3>3
  <2>4. Queue!NoLostWakeup'
    BY <2>3 DEF Queue!NoLostWakeup
  <2> QED
    BY <1>0, <2>1, <2>2, <2>4 DEF QueueInv, Queue!FirstInFirstOut
\* A broadcast leaves nobody waiting.
<1>3. ASSUME NEW t \in Queue!Threads, Queue!Broadcast(t)
      PROVE  /\ qpc' \in [Queue!Threads -> {"idle", "called", "waiting", "woken"}]
             /\ Queue!NoLostWakeup'
  BY <1>0, <1>3 DEF Queue!Broadcast, Queue!NoLostWakeup
<1>4. ASSUME NEW t \in Queue!Threads, Queue!Enqueue(t) PROVE QueueInv'
  <2> DEFINE e == <<t, qcalls[t]>>
  <2>1. e \in Elements
    BY <1>0, <1>4 DEF Queue!Enqueue, Elements
  <2>2. q' = Append(q, e) /\ put' = Append(put, e) /\ taken' = taken
    BY <1>4 DEF Queue!Enqueue
  <2>3. put' = taken' \o q'
    <3> HIDE DEF e
    <3> QED
      BY <1>0, <2>1, <2>2, AppendToConcat
  <2>4. Len(q) < capacity
    BY <1>0, <1>4 DEF Queue!Enqueue, Queue!Waits, Queue!Full
  <2>5. q' \in Seq(Elements) /\ Len(q') <= capacity /\ put' \in Seq(Elements)
    <3> HIDE DEF e
    <3> QED
      BY <1>0, <2>1, <2>2, <2>4
  <2>6. /\ qpc' \in [Queue!Threads -> {"idle", "called", "waiting", "woken"}]
        /\ Queue!NoLostWakeup' /\ UNCHANGED qcalls
    BY <1>3, <1>4 DEF Queue!Enqueue
  <2>7. Queue!TypeOK'
    <3> HIDE DEF e
    <3> QED
      BY <1>0, <2>2, <2>5, <2>6 DEF Queue!TypeOK, Elements
  <2> QED
    BY <2>3, <2>6, <2>7 DEF QueueInv, Queue!FirstInFirstOut
<1>5. ASSUME NEW t \in Queue!Threads, Queue!Dequeue(t) PROVE QueueInv'
  <2>1. q # <<>>
    BY <1>5 DEF Queue!Dequeue, Queue!Waits
  <2>2. taken' = Append(taken, Head(q)) /\ q' = Tail(q) /\ put' = put
    BY <1>5 DEF Queue!Dequeue, Queue!TakeFirst
  <2>3. /\ Head(q) \in Elements /\ Tail(q) \in Seq(Elements)
        /\ Len(Tail(q)) = Len(q) - 1
        /\ taken \o q = Append(taken, Head(q)) \o Tail(q)
    BY <1>0, <2>1, HeadMoves
  <2>4. put' = taken' \o q'
    BY <1>0, <2>2, <2>3
  <2>5. q' \in Seq(Elements) /\ Len(q') <= capacity /\ taken' \in Seq(Elements)
    BY <1>0, <2>2, <2>3
  <2>6. /\ qpc' \in [Queue!Threads -> {"idle", "called", "waiting", "woken"}]
        /\ Queue!NoLostWakeup' /\ UNCHANGED qcalls
    BY <1>3, <1>5 DEF Queue!Dequeue
  <2>7. Queue!TypeOK'
    BY <1>0, <2>2, <2>5, <2>6 DEF Queue!TypeOK, Elements
  <2> QED
    BY <2>4, <2>6, <2>7 DEF QueueInv, Queue!FirstInFirstOut
<1> QED
  BY <1>1, <1>2, <1>4, <1>5 DEF Queue!Next, Queue!Step
-----------------------------------------------------------------------------
(* Fizz buzz                                                               *)

\* The number is that of the log's next entry, only the goroutine with the
\* mutex prints, and the one that has printed the last number keeps it.
FizzInv ==
  /\ Fizz!TypeOK /\ i = Len(printed) + 1
  /\ holder = Fizz!Nobody => i <= length
  /\ \A p \in Fizz!Printers :
       /\ fpc[p] = "locked" => holder = p /\ i <= length
       /\ fpc[p] = "done" => holder = p /\ i = length + 1
  /\ \A k \in 1 .. Len(printed) : printed[k] = Fizz!Token(k)

\* The goroutines' conditions are those of the series.
LEMMA MineIsToken ==
  ASSUME NEW p \in Fizz!Printers, NEW k \in Nat, Fizz!Mine(p, k)
  PROVE  p = Fizz!Token(k)
<1>1. /\ k % 15 = 0 <=> k % 3 = 0 /\ k % 5 = 0
  OBVIOUS
<1> QED
  BY <1>1 DEF Fizz!Mine, Fizz!Token, Fizz!Printers

\* At the start nothing is printed and nobody has the mutex.
LEMMA FizzInit == Fizz!Init => FizzInv
  BY DemoAssumption DEF Fizz!Init, FizzInv, Fizz!TypeOK, Fizz!Printers, Fizz!Nobody

\* A step of 1195 keeps its invariant.
LEMMA FizzStepInv == FizzInv /\ [Fizz!Next]_fVars => FizzInv'
<1> SUFFICES ASSUME FizzInv, [Fizz!Next]_fVars PROVE FizzInv'
  OBVIOUS
<1> USE DemoAssumption
<1>0. /\ printed \in Seq(Fizz!Printers) /\ i \in 1 .. length + 1
      /\ length \in Nat \ {0} /\ Fizz!Nobody \notin Fizz!Printers
      /\ fpc \in [Fizz!Printers -> {"called", "locked", "waiting", "woken", "done"}]
      /\ holder \in Fizz!Printers \union {Fizz!Nobody}
  BY DEF FizzInv, Fizz!TypeOK, Fizz!Printers, Fizz!Nobody
<1>1. CASE UNCHANGED fVars
  BY <1>1 DEF fVars, FizzInv, Fizz!TypeOK
<1>2. ASSUME NEW p \in Fizz!Printers, Fizz!Lock(p) PROVE FizzInv'
  BY <1>0, <1>2 DEF Fizz!Lock, FizzInv, Fizz!TypeOK
<1>3. ASSUME NEW p \in Fizz!Printers, Fizz!Wait(p) PROVE FizzInv'
  BY <1>0, <1>3 DEF Fizz!Wait, FizzInv, Fizz!TypeOK
<1>4. ASSUME NEW p \in Fizz!Printers, Fizz!PrintNext(p) PROVE FizzInv'
  <2>1. /\ printed' = Append(printed, p) /\ i' = i + 1 /\ holder' = holder
        /\ fpc[p] = "locked" /\ holder = p /\ i <= length /\ p = Fizz!Token(i)
        /\ i = Len(printed) + 1
    BY <1>0, <1>4, MineIsToken DEF Fizz!PrintNext, FizzInv
  <2>2. /\ Len(printed') = Len(printed) + 1 /\ printed' \in Seq(Fizz!Printers)
        /\ \A k \in 1 .. Len(printed) : printed'[k] = printed[k]
        /\ printed'[Len(printed) + 1] = p
    BY <1>0, <2>1
  <2>3. \A k \in 1 .. Len(printed') : printed'[k] = Fizz!Token(k)
    BY <1>0, <2>1, <2>2 DEF FizzInv
  <2>4. /\ fpc' \in [Fizz!Printers -> {"called", "locked", "waiting", "woken", "done"}]
        /\ \A r \in Fizz!Printers \ {p} : fpc'[r] \notin {"locked", "done"}
        /\ i = length => fpc'[p] = "done"
        /\ i # length => fpc'[p] = "locked"
    BY <1>0, <1>4, <2>1 DEF Fizz!PrintNext, FizzInv
  <2>5. \A r \in Fizz!Printers :
          /\ fpc'[r] = "locked" => holder' = r /\ i' <= length
          /\ fpc'[r] = "done" => holder' = r /\ i' = length + 1
    BY <1>0, <2>1, <2>4
  <2>6. Fizz!TypeOK'
    BY <1>0, <2>1, <2>2, <2>4 DEF Fizz!TypeOK
  <2> QED
    BY <1>0, <2>1, <2>2, <2>3, <2>5, <2>6 DEF FizzInv
<1> QED
  BY <1>1, <1>2, <1>3, <1>4 DEF Fizz!Next, Fizz!Step
-----------------------------------------------------------------------------
(* Theorems                                                                *)

\* A step is one of the chosen program, and stutters in the others.
LEMMA StepsApart ==
  [DemosNext]_allVars =>
    [Next]_vars /\ [Water!Next]_hVars /\ [Queue!Next]_qVars /\ [Fizz!Next]_fVars
  BY DEF DemosNext, WaterStep, QueueStep, FizzStep, NotLock, NotWater,
         NotQueue, NotFizz, allVars

AllInv == IInv /\ WaterInv /\ QueueInv /\ FizzInv

\* Whichever program runs, the invariants of all of them hold.
LEMMA AllInvariance == DemosInit /\ [][DemosNext]_allVars => []AllInv
<1>1. DemosInit => AllInv
  BY InitInv, WaterInit, QueueInit, FizzInit DEF DemosInit, AllInv
<1>2. AllInv /\ [DemosNext]_allVars => AllInv'
  BY StepsApart, InvStep, WaterStepInv, QueueStepInv, FizzStepInv DEF AllInv
<1> QED
  BY <1>1, <1>2, PTL

\* Whichever program runs, its variables keep their types, its counters their
\* bounds, and the locks count their readers.
THEOREM TypesCorrect == FairSpec => []AllTypesOK
<1>1. AllInv => AllTypesOK
  BY InvImplies DEF AllInv, AllTypesOK, WaterInv, QueueInv, FizzInv
<1> QED
  BY <1>1, AllInvariance, PTL DEF FairSpec

\* Each of the four locks keeps callbacks and events apart.
THEOREM CallbacksAndEventsApart == FairSpec => []KeptApart
<1>1. AllInv => KeptApart
  BY InvImplies DEF AllInv
<1> QED
  BY <1>1, AllInvariance, PTL DEF FairSpec

\* No atom and no thread of the queue sleeps that could go on.
THEOREM NobodyOversleeps == FairSpec => []NoLostWakeup
<1>1. AllInv => NoLostWakeup
  BY DEF AllInv, NoLostWakeup, WaterInv, QueueInv
<1> QED
  BY <1>1, AllInvariance, PTL DEF FairSpec

\* The log of 1117 falls into molecules, 1188 is first in first out, and the log
\* of 1195 is the series.
THEOREM EverythingInOrder == FairSpec => []RightOrder
<1>1. FizzInv => Fizz!SeriesInOrder
  BY DemoAssumption DEF FizzInv, Fizz!TypeOK, Fizz!SeriesInOrder
<1>2. AllInv => RightOrder
  BY <1>1, WaterOrder DEF AllInv, RightOrder, QueueInv
<1> QED
  BY <1>2, AllInvariance, PTL DEF FairSpec

\* The counting lock makes new callbacks wait for an event that waits.
THEOREM WaitingEventsGoFirst == FairSpec => EventsGoFirst
<1>1. AllInv /\ [DemosNext]_allVars => [GoesFirst]_vars
  BY StepsApart, GoFirstStep DEF AllInv
<1> QED
  BY <1>1, AllInvariance, PTL DEF FairSpec, EventsGoFirst, GoesFirst
=============================================================================
