---------------------------- MODULE CacheProofs ----------------------------
(***************************************************************************)
(* Proofs about Cache: its type invariant, that the expiry never loses     *)
(* sight of an entry, and that a live entry disappears by del alone.       *)
(***************************************************************************)
EXTENDS Cache, SequenceTheorems, TLAPS

-----------------------------------------------------------------------------
(* Type correctness                                                        *)

\* Init and every operation of the cache keep every variable in its type, and
\* the update channel within its capacity.
THEOREM TypeCorrect == Spec => []TypeOK
<1>1. ASSUME Init PROVE TypeOK
  <2> USE <1>1, CacheAssumption DEF Init
  <2>1. now \in Instants /\ back \in 0 .. MaxRewind /\ sets \in 0 .. MaxSets
    BY DEF Instants
  <2>4. ticked \in BOOLEAN /\ setter \in {Idle} \union Busy
    BY Zenon
  <2>2. /\ entries \in [Keys -> Instants \union {NoTTL, Absent}]
        /\ keyList \in [Keys -> Instants \union {Absent}]
        /\ expirers \in [Keys \X Wakeups -> Nat]
        /\ stranded \subseteq Keys \X Instants
    OBVIOUS
  <2>3. /\ updateChan \in Seq(Event) /\ Len(updateChan) <= ChanCap
        /\ inHand \in Seq(Event) /\ Len(inHand) <= 1
    OBVIOUS
  <2> QED
    BY <2>1, <2>2, <2>3, <2>4 DEF TypeOK
<1>2. TypeOK /\ [Next]_vars => TypeOK'
  <2> SUFFICES ASSUME TypeOK, [Next]_vars PROVE TypeOK'
    OBVIOUS
  <2> USE CacheAssumption DEF TypeOK, Instants, Wakeups, Idle, Busy, NoTTL
  <2>1. CASE UNCHANGED vars
    BY <2>1 DEF vars
  <2>2. ASSUME NEW k \in Keys, NEW ttl \in TTLs, SetForever(k, ttl)
        PROVE  TypeOK'
    BY <2>2 DEF SetForever
  <2>3. ASSUME NEW k \in Keys, NEW ttl \in TTLs, SetBegin(k, ttl)
        PROVE  TypeOK'
    BY <2>3 DEF SetBegin
  <2>4. CASE SetSend
    <3>1. setter \in Busy
      BY <2>4 DEF SetSend
    <3>4. setter' \in Busy
      BY <2>4, <3>1 DEF SetSend
    <3>2. [key |-> setter.key, expAt |-> setter.expt] \in Event
      BY <3>1 DEF Event
    <3>3. updateChan' \in Seq(Event) /\ Len(updateChan') <= ChanCap
      BY <2>4, <3>2 DEF SetSend
    <3> QED
      BY <2>4, <3>3, <3>4 DEF SetSend
  <2>5. CASE SetStore
    BY <2>5 DEF SetStore
  <2>6. ASSUME NEW k \in Keys, Get(k) PROVE TypeOK'
    BY <2>6 DEF Get
  <2>7. ASSUME NEW k \in Keys, Del(k) PROVE TypeOK'
    BY <2>7 DEF Del
  <2>8. ASSUME NEW k \in Keys, NEW t \in Wakeups, ExpireKey(k, t)
        PROVE  TypeOK'
    BY <2>8 DEF ExpireKey
  <2>9. CASE Receive
    BY <2>9 DEF Receive
  <2>10. CASE Record
    <3>1. inHand[1] \in Event
      BY <2>10 DEF Record
    <3>2. keyList' \in [Keys -> Instants \union {Absent}]
      BY <2>10, <3>1 DEF Record, Event
    <3>3. inHand' \in Seq(Event) /\ Len(inHand') <= 1
      BY <2>10 DEF Record
    <3> QED
      BY <2>10, <3>2, <3>3 DEF Record
  <2>11. CASE CheckExpiry
    <3>1. keyList' \in [Keys -> Instants \union {Absent}]
      BY <2>11 DEF CheckExpiry
    <3>2. expirers' \in [Keys \X Wakeups -> Nat]
      BY <2>11 DEF CheckExpiry
    <3> QED
      BY <2>11, <3>1, <3>2 DEF CheckExpiry
  <2>12. CASE Pass
    BY <2>12 DEF Pass
  <2>13. ASSUME NEW d \in 1 .. MaxRewind, Rewind(d) PROVE TypeOK'
    BY <2>13 DEF Rewind
  <2> QED
    BY <2>1, <2>2, <2>3, <2>4, <2>5, <2>6, <2>7, <2>8, <2>9, <2>10, <2>11,
       <2>12, <2>13 DEF Next, GetTTL
<1> QED
  BY <1>1, <1>2, PTL DEF Spec
-----------------------------------------------------------------------------
(* A live entry disappears by del alone                                    *)

\* Of the steps that take an entry away, get and expireKey look at the expiry
\* of the entry that is there now, whatever they were started for.
THEOREM LiveEntriesAreKept == Spec => LiveEntryKept
<1> DEFINE Kept == \A k \in Keys :
             /\ entries[k] # Absent /\ entries'[k] = Absent
             /\ ~Del(k)
             => entries[k] # NoTTL /\ entries[k] <= now
<1>1. TypeOK /\ [Next]_vars => [Kept]_vars
  <2> SUFFICES ASSUME TypeOK, Next, NEW k \in Keys,
                      entries[k] # Absent, entries'[k] = Absent, ~Del(k)
               PROVE  entries[k] # NoTTL /\ entries[k] <= now
    OBVIOUS
  <2> USE CacheAssumption DEF TypeOK, Instants, NoTTL
  <2>1. ASSUME NEW x \in Keys, NEW ttl \in TTLs, SetForever(x, ttl)
        PROVE  FALSE
    BY <2>1 DEF SetForever
  <2>2. ASSUME NEW x \in Keys, Get(x)
        PROVE  Stale(k)
    BY <2>2 DEF Get
  <2>3. ASSUME NEW x \in Keys, Del(x)
        PROVE  FALSE
    BY <2>3 DEF Del
  <2>4. ASSUME NEW x \in Keys, NEW t \in Wakeups, ExpireKey(x, t)
        PROVE  Expired(k)
    BY <2>4 DEF ExpireKey
  <2>5. CASE SetStore
    BY <2>5 DEF SetStore, Idle, Busy
  <2>6. ASSUME \/ \E x \in Keys, ttl \in TTLs : SetBegin(x, ttl)
               \/ SetSend \/ Receive \/ Record \/ CheckExpiry \/ Pass
               \/ \E d \in 1 .. MaxRewind : Rewind(d)
        PROVE  FALSE
    BY <2>6
    DEF SetBegin, SetSend, Receive, Record, CheckExpiry, Pass, Rewind
  <2>7. Stale(k) \/ Expired(k) => entries[k] # NoTTL /\ entries[k] <= now
    BY DEF Stale, Expired
  <2> QED
    BY <2>1, <2>2, <2>3, <2>4, <2>5, <2>6, <2>7 DEF Next, GetTTL
<1> QED
  BY <1>1, TypeCorrect, PTL DEF Spec, LiveEntryKept
-----------------------------------------------------------------------------
(* No entry is forgotten                                                   *)

\* Between the send and the store the new expiry is tracked already.
StoreTracked ==
  setter.stage = "store" => Tracked(setter.key, setter.expt)

\* What is pending is a list of events.
LEMMA PendingType == TypeOK => Pending \in Seq(Event)
  BY DEF TypeOK, Pending

\* Sending appends to what is pending.
LEMMA PendingOnSend ==
  ASSUME TypeOK, SetSend
  PROVE  /\ [key |-> setter.key, expAt |-> setter.expt] \in Event
         /\ Pending' = Append(Pending,
                              [key |-> setter.key, expAt |-> setter.expt])
<1> DEFINE e == [key |-> setter.key, expAt |-> setter.expt]
<1>1. setter \in Busy
  BY DEF TypeOK, SetSend, Idle
<1>2. e \in Event
  BY <1>1 DEF Busy, Event
<1>3. inHand \in Seq(Event) /\ updateChan \in Seq(Event)
  BY DEF TypeOK
<1>4. inHand \o Append(updateChan, e) = Append(inHand \o updateChan, e)
  BY <1>2, <1>3
<1> QED
  BY <1>2, <1>4 DEF SetSend, Pending

\* Taking an event from the channel changes nothing of what is pending.
LEMMA PendingOnReceive ==
  ASSUME TypeOK, Receive
  PROVE  Pending' = Pending
<1>1. updateChan \in Seq(Event) /\ updateChan # << >> /\ inHand = << >>
  BY DEF TypeOK, Receive
<1>2. <<Head(updateChan)>> \o Tail(updateChan) = << >> \o updateChan
  BY <1>1
<1> QED
  BY <1>1, <1>2 DEF Receive, Pending

\* Recording takes the oldest pending event.
LEMMA PendingOnRecord ==
  ASSUME TypeOK, Record
  PROVE  /\ Pending \in Seq(Event) /\ Pending # << >>
         /\ inHand[1] = Head(Pending)
         /\ Pending' = Tail(Pending)
<1>1. /\ inHand \in Seq(Event) /\ updateChan \in Seq(Event)
      /\ inHand # << >> /\ Len(inHand) <= 1
  BY DEF TypeOK, Record
<1>2. Len(inHand) = 1 /\ Len(updateChan) \in Nat
  <2>1. Len(inHand) \in Nat \ {0} /\ Len(updateChan) \in Nat
    BY <1>1, EmptySeq, LenProperties, Zenon
  <2>2. \A n \in Nat \ {0} : n <= 1 => n = 1
    OBVIOUS
  <2> QED
    BY <1>1, <2>1, <2>2, Zenon
<1>3. /\ Pending \in Seq(Event) /\ Len(Pending) = 1 + Len(updateChan)
      /\ \A i \in 1 .. 1 + Len(updateChan) :
           Pending[i] = IF i <= 1 THEN inHand[i] ELSE updateChan[i - 1]
  <2>1. /\ Pending \in Seq(Event)
        /\ Len(Pending) = Len(inHand) + Len(updateChan)
        /\ \A i \in 1 .. Len(inHand) + Len(updateChan) :
             Pending[i] = IF i <= Len(inHand) THEN inHand[i]
                          ELSE updateChan[i - Len(inHand)]
    BY <1>1, ConcatProperties, Zenon DEF Pending
  <2> QED
    BY <1>2, <2>1
<1>4. Pending # << >>
  BY <1>2, <1>3, EmptySeq
<1>5. inHand[1] = Head(Pending)
  BY <1>2, <1>3, <1>4
<1>6. Tail(Pending) = updateChan
  <2>1. /\ Tail(Pending) \in Seq(Event)
        /\ Len(Tail(Pending)) = Len(updateChan)
        /\ \A i \in 1 .. Len(updateChan) : Tail(Pending)[i] = Pending[i + 1]
    BY <1>2, <1>3, <1>4, HeadTailProperties
  <2>2. \A i \in 1 .. Len(updateChan) : Tail(Pending)[i] = updateChan[i]
    BY <1>2, <1>3, <2>1
  <2> QED
    BY <1>1, <2>1, <2>2, SeqEqual
<1>7. Pending' = updateChan
  BY <1>1, ConcatEmptySeq DEF Record, Pending
<1> QED
  BY <1>3, <1>4, <1>5, <1>6, <1>7

\* What is tracked stays tracked while an event is recorded.
LEMMA TrackedOnRecord ==
  ASSUME TypeOK, Record, NEW k \in Keys, NEW t \in Instants, Tracked(k, t)
  PROVE  Tracked(k, t)'
<1> DEFINE h == Head(Pending)
<1>1. /\ Pending \in Seq(Event) /\ Pending # << >>
      /\ inHand[1] = h /\ Pending' = Tail(Pending)
  BY PendingOnRecord
<1>2. /\ DOMAIN Pending = 1 .. Len(Pending) /\ Len(Pending) \in Nat
      /\ DOMAIN Pending' = 1 .. Len(Pending) - 1
      /\ \A i \in DOMAIN Pending' : Pending'[i] = Pending[i + 1]
      /\ h = Pending[1] /\ 1 \in DOMAIN Pending /\ h \in Event
  BY <1>1
<1>3. /\ keyList' = [keyList EXCEPT ![h.key] = h.expAt]
      /\ keyList \in [Keys -> Instants \union {Absent}]
      /\ h.key \in Keys
  BY <1>1, <1>2 DEF Record, TypeOK, Event
<1>4. CASE expirers[<<k, t + back>>] > 0 \/ <<k, t>> \in stranded
  BY <1>4 DEF Record, Tracked
<1>5. CASE NonePending(k) /\ keyList[k] = t
  <2>1. h.key # k
    BY <1>2, <1>5 DEF NonePending
  <2>2. keyList'[k] = t
    BY <1>3, <1>5, <2>1
  <2>3. NonePending(k)'
    BY <1>2, <1>5 DEF NonePending
  <2> QED
    BY <2>2, <2>3 DEF Tracked
<1>6. CASE LastPending(k, t)
  <2>1. PICK i \in DOMAIN Pending :
          /\ Pending[i] = [key |-> k, expAt |-> t]
          /\ \A j \in DOMAIN Pending : j > i => Pending[j].key # k
    BY <1>6 DEF LastPending
  <2>2. CASE i = 1
    <3>1. keyList'[k] = t
      BY <1>2, <1>3, <2>1, <2>2
    <3>2. NonePending(k)'
      BY <1>2, <2>1, <2>2 DEF NonePending
    <3> QED
      BY <3>1, <3>2 DEF Tracked
  <2>3. CASE i # 1
    <3>1. i - 1 \in DOMAIN Pending' /\ Pending'[i - 1] = Pending[i]
      BY <1>2, <2>1, <2>3
    <3>2. \A j \in DOMAIN Pending' : j > i - 1 => Pending'[j].key # k
      BY <1>2, <2>1
    <3>3. LastPending(k, t)'
      BY <2>1, <3>1, <3>2 DEF LastPending
    <3> QED
      BY <3>3 DEF Tracked
  <2> QED
    BY <2>2, <2>3
<1> QED
  BY <1>4, <1>5, <1>6 DEF Tracked

\* Sending an event for k0 tracks k0, and leaves the other keys as they are.
LEMMA TrackedOnSend ==
  ASSUME TypeOK, SetSend
  PROVE  /\ Tracked(setter.key, setter.expt)'
         /\ \A k \in Keys, t \in Instants :
              k # setter.key /\ Tracked(k, t) => Tracked(k, t)'
<1> DEFINE e == [key |-> setter.key, expAt |-> setter.expt]
           n == Len(Pending) + 1
<1>1. e \in Event /\ Pending \in Seq(Event) /\ Pending' = Append(Pending, e)
  BY PendingOnSend, PendingType
<1>2. /\ DOMAIN Pending = 1 .. Len(Pending) /\ Len(Pending) \in Nat
      /\ DOMAIN Pending' = 1 .. n
      /\ \A i \in DOMAIN Pending : Pending'[i] = Pending[i]
      /\ Pending'[n] = e
  BY <1>1
<1>3. /\ setter'.key = setter.key /\ setter'.expt = setter.expt
      /\ UNCHANGED <<keyList, expirers, back, stranded>>
  <2>1. setter \in Busy
    BY DEF TypeOK, SetSend, Idle
  <2> QED
    BY <2>1 DEF SetSend, Busy
<1>4. LastPending(setter.key, setter.expt)'
  <2> HIDE DEF n
  <2>1. n \in DOMAIN Pending' /\ \A j \in DOMAIN Pending' : ~(j > n)
    BY <1>2 DEF n
  <2> QED
    BY <1>2, <1>3, <2>1 DEF LastPending
<1>5. ASSUME NEW k \in Keys, NEW t \in Instants,
             k # setter.key, Tracked(k, t)
      PROVE  Tracked(k, t)'
  <2>1. NonePending(k) => NonePending(k)'
    BY <1>2, <1>5 DEF NonePending
  <2>2. LastPending(k, t) => LastPending(k, t)'
    BY <1>2, <1>5 DEF LastPending
  <2> QED
    BY <1>3, <1>5, <2>1, <2>2 DEF Tracked
<1> QED
  BY <1>3, <1>4, <1>5 DEF Tracked

\* What the scan takes out of keyList is with a goroutine that wakes when the
\* wall clock shows the expiry.
LEMMA TrackedOnScan ==
  ASSUME TypeOK, CheckExpiry, NEW k \in Keys, NEW t \in Instants, Tracked(k, t)
  PROVE  Tracked(k, t)'
<1>1. Pending' = Pending
  BY DEF CheckExpiry, Pending
<1> DEFINE u == t + back
<1>5. u \in Wakeups /\ UNCHANGED <<back, stranded>>
  BY CacheAssumption DEF CheckExpiry, TypeOK, Instants, Wakeups
<1>2. keyList[k] = t =>
        expirers'[<<k, u>>] = IF Due(k) THEN expirers[<<k, u>>] + 1
                              ELSE expirers[<<k, u>>]
  BY <1>5 DEF CheckExpiry
<1>6. expirers'[<<k, u>>] >= expirers[<<k, u>>]
  BY <1>5 DEF CheckExpiry, TypeOK
<1>3. expirers[<<k, u>>] \in Nat /\ expirers'[<<k, u>>] \in Nat
  BY <1>5 DEF TypeOK, CheckExpiry
<1>4. keyList'[k] = IF Due(k) THEN Absent ELSE keyList[k]
  BY DEF CheckExpiry
<1> QED
  BY <1>1, <1>2, <1>3, <1>4, <1>5, <1>6 DEF Tracked, LastPending, NonePending

\* A step that leaves the expiry's own state alone loses nothing.
LEMMA TrackedFrame ==
  ASSUME Pending' = Pending, UNCHANGED <<keyList, expirers, back, stranded>>
  PROVE  \A k \in Keys, t \in Instants : Tracked(k, t) => Tracked(k, t)'
  BY DEF Tracked, LastPending, NonePending

\* Initially there is no entry, and every operation of the callers and of the
\* background keeps every entry with a TTL known to the expiry.
THEOREM NoKeyIsForgotten == Spec => []NoKeyForgotten
<1>1. Init => NoKeyForgotten /\ StoreTracked
  BY CacheAssumption
  DEF Init, NoKeyForgotten, StoreTracked, Instants, Idle
<1>2. TypeOK /\ TypeOK' /\ NoKeyForgotten /\ StoreTracked /\ [Next]_vars
        => NoKeyForgotten' /\ StoreTracked'
  <2> SUFFICES ASSUME TypeOK, TypeOK', NoKeyForgotten, StoreTracked,
                      [Next]_vars
               PROVE  NoKeyForgotten' /\ StoreTracked'
    OBVIOUS
  <2> DEFINE Frame == /\ Pending' = Pending
                      /\ UNCHANGED <<keyList, expirers, back, stranded>>
             Lost == \A k \in Keys : entries'[k] \in Instants
                                       => entries'[k] = entries[k]
             Kept == \A k \in Keys, t \in Instants :
                       Tracked(k, t) => Tracked(k, t)'
  <2>1. ASSUME Kept, Lost, setter' = setter
        PROVE  NoKeyForgotten' /\ StoreTracked'
    <3>1. NoKeyForgotten'
      BY <2>1 DEF NoKeyForgotten, Storing
    <3>2. StoreTracked'
      BY <2>1 DEF StoreTracked, TypeOK, Idle, Busy
    <3> QED
      BY <3>1, <3>2
  <2>2. CASE UNCHANGED vars
    <3>1. Frame
      BY <2>2 DEF vars, Pending
    <3>2. Kept
      BY <3>1, TrackedFrame
    <3>3. Lost /\ setter' = setter
      BY <2>2 DEF vars
    <3> QED
      BY <2>1, <3>2, <3>3
  <2>3. ASSUME NEW k \in Keys, NEW ttl \in TTLs, SetForever(k, ttl)
        PROVE  NoKeyForgotten' /\ StoreTracked'
    <3>1. Frame
      BY <2>3 DEF SetForever, Pending
    <3>2. Kept
      BY <3>1, TrackedFrame
    <3>3. Lost /\ setter' = setter
      BY <2>3 DEF SetForever, TypeOK, NoTTL, Instants
    <3> QED
      BY <2>1, <3>2, <3>3
  <2>4. ASSUME NEW k \in Keys, NEW ttl \in TTLs, SetBegin(k, ttl)
        PROVE  NoKeyForgotten' /\ StoreTracked'
    <3>1. Frame
      BY <2>4 DEF SetBegin, Pending
    <3>2. Kept
      BY <3>1, TrackedFrame
    <3>3. setter'.stage = "send" /\ setter.stage = "idle"
      BY <2>4 DEF SetBegin, Idle
    <3> QED
      BY <2>4, <3>2, <3>3
      DEF SetBegin, NoKeyForgotten, StoreTracked, Storing
  <2>5. CASE SetSend
    <3>1. /\ Tracked(setter.key, setter.expt)'
          /\ \A k \in Keys, t \in Instants :
               k # setter.key /\ Tracked(k, t) => Tracked(k, t)'
      BY <2>5, TrackedOnSend
    <3>2. /\ entries' = entries
          /\ setter.stage = "send" /\ setter'.stage = "store"
          /\ setter'.key = setter.key /\ setter'.expt = setter.expt
      BY <2>5 DEF SetSend, TypeOK, Idle, Busy
    <3>3. StoreTracked'
      BY <3>1 DEF StoreTracked
    <3>4. NoKeyForgotten'
      BY <3>1, <3>2 DEF NoKeyForgotten, Storing
    <3> QED
      BY <3>3, <3>4
  <2>6. CASE SetStore
    <3>1. Frame
      BY <2>6 DEF SetStore, Pending
    <3>2. Kept
      BY <3>1, TrackedFrame
    <3>3. /\ setter.stage = "store" /\ setter' = Idle
          /\ setter.key \in Keys /\ setter.expt \in Instants
          /\ entries' = [entries EXCEPT ![setter.key] = setter.expt]
      BY <2>6 DEF SetStore, TypeOK, Idle, Busy
    <3>4. PICK k0 \in Keys, t0 \in Instants :
            setter.key = k0 /\ setter.expt = t0
      BY <3>3
    <3>5. Tracked(k0, t0)'
      BY <3>2, <3>3, <3>4 DEF StoreTracked
    <3>6. ASSUME NEW k \in Keys, entries'[k] \in Instants
          PROVE  Tracked(k, entries[k])'
      <4>1. CASE k = k0
        BY <3>3, <3>4, <3>5, <4>1 DEF TypeOK
      <4>2. CASE k # k0
        BY <3>2, <3>3, <3>4, <3>6, <4>2 DEF NoKeyForgotten, Storing, TypeOK
      <4> QED
        BY <4>1, <4>2
    <3>7. StoreTracked'
      BY <3>3 DEF StoreTracked, Idle
    <3> QED
      BY <3>6, <3>7 DEF NoKeyForgotten
  <2>7. ASSUME NEW k \in Keys, Get(k) \/ Del(k)
        PROVE  NoKeyForgotten' /\ StoreTracked'
    <3>1. Frame
      BY <2>7 DEF Get, Del, Pending
    <3>2. Kept
      BY <3>1, TrackedFrame
    <3>3. Lost /\ setter' = setter
      BY <2>7, CacheAssumption DEF Get, Del, TypeOK, Instants
    <3> QED
      BY <2>1, <3>2, <3>3
  <2>8. ASSUME NEW x \in Keys, NEW t \in Wakeups, ExpireKey(x, t)
        PROVE  NoKeyForgotten' /\ StoreTracked'
    <3>1. Pending' = Pending /\ UNCHANGED <<keyList, back, stranded>>
      BY <2>8 DEF ExpireKey, Pending
    <3>2. setter = Idle /\ setter' = Idle
      BY <2>8 DEF ExpireKey
    <3>3. ASSUME NEW k \in Keys, entries'[k] \in Instants
          PROVE  entries'[k] = entries[k] /\ <<k, entries[k] + back>> # <<x, t>>
      BY <2>8, <3>3, CacheAssumption
      DEF ExpireKey, Expired, TypeOK, Instants
    <3>4. \A k \in Keys, u \in Wakeups :
            <<k, u>> # <<x, t>> => expirers'[<<k, u>>] = expirers[<<k, u>>]
      BY <2>8 DEF ExpireKey, TypeOK
    <3>5. \A k \in Keys, u \in Instants :
            <<k, u + back>> # <<x, t>> /\ Tracked(k, u) => Tracked(k, u)'
      <4>1. \A u \in Instants : u + back \in Wakeups
        BY CacheAssumption DEF TypeOK, Instants, Wakeups
      <4> QED
        BY <3>1, <3>4, <4>1 DEF Tracked, LastPending, NonePending
    <3>6. NoKeyForgotten'
      BY <3>2, <3>3, <3>5 DEF NoKeyForgotten, Storing, Idle
    <3>7. StoreTracked'
      BY <3>2 DEF StoreTracked, Idle
    <3> QED
      BY <3>6, <3>7
  <2>9. CASE Receive
    <3>1. Frame
      BY <2>9, PendingOnReceive DEF Receive
    <3>2. Kept
      BY <3>1, TrackedFrame
    <3>3. Lost /\ setter' = setter
      BY <2>9 DEF Receive
    <3> QED
      BY <2>1, <3>2, <3>3
  <2>10. CASE Record
    <3>1. Kept
      BY <2>10, TrackedOnRecord
    <3>2. Lost /\ setter' = setter
      BY <2>10 DEF Record
    <3> QED
      BY <2>1, <3>1, <3>2
  <2>11. CASE CheckExpiry
    <3>1. Kept
      BY <2>11, TrackedOnScan
    <3>2. Lost /\ setter' = setter
      BY <2>11 DEF CheckExpiry
    <3> QED
      BY <2>1, <3>1, <3>2
  <2>12. CASE Pass
    <3>1. Frame
      BY <2>12 DEF Pass, Pending
    <3>2. Kept
      BY <3>1, TrackedFrame
    <3>3. Lost /\ setter' = setter
      BY <2>12 DEF Pass
    <3> QED
      BY <2>1, <3>2, <3>3
  <2>13. ASSUME NEW d \in 1 .. MaxRewind, Rewind(d)
         PROVE  NoKeyForgotten' /\ StoreTracked'
    <3>1. /\ Pending' = Pending /\ UNCHANGED <<keyList, expirers>>
          /\ back = 0 /\ stranded \subseteq Keys \X Instants
          /\ stranded' = stranded \union
                           {e \in Keys \X Instants : expirers[e] > 0}
      BY <2>13 DEF Rewind, Pending, TypeOK
    <3>2. ASSUME NEW k \in Keys, NEW t \in Instants, Tracked(k, t)
          PROVE  Tracked(k, t)'
      <4>1. t + back = t
        BY <3>1 DEF Instants
      <4>2. CASE expirers[<<k, t>>] > 0
        BY <3>1, <4>2 DEF Tracked
      <4>3. CASE ~(expirers[<<k, t>>] > 0)
        BY <3>1, <3>2, <4>1, <4>3 DEF Tracked, LastPending, NonePending
      <4> QED
        BY <4>2, <4>3
    <3>3. Lost /\ setter' = setter
      BY <2>13 DEF Rewind
    <3> QED
      BY <2>1, <3>2, <3>3
  <2> QED
    BY <2>2, <2>3, <2>4, <2>5, <2>6, <2>7, <2>8, <2>9, <2>10, <2>11, <2>12,
       <2>13
    DEF Next, GetTTL
<1> QED
  BY <1>1, <1>2, TypeCorrect, PTL DEF Spec
=============================================================================
