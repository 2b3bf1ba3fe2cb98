------------------------- MODULE RateLimiterProofs -------------------------
(***************************************************************************)
(* Proofs about RateLimiter: types, the two bounds on what a bucket lets   *)
(* through, one open bucket per client, and that no call panics when every *)
(* thread has a client of its own, as in main.                             *)
(***************************************************************************)
EXTENDS RateLimiter, TLAPS

\* Every operation keeps every variable in its type, and the tokens of a bucket
\* between nothing and its capacity.
THEOREM TypeCorrect == Spec => []TypeOK
<1>1. ASSUME Init PROVE TypeOK
  <2> USE <1>1 DEF Init
  <2>1. /\ pc \in [Threads -> {"get", "allow", "remove", "done"}]
        /\ handle \in [Threads -> Threads \union {NoBucket}]
        /\ \A t \in Threads : pc[t] \in {"allow", "remove"} => handle[t] \in Threads
        /\ clients \in [Clients -> Threads \union {NoBucket}]
    OBVIOUS
  <2>2. /\ left \in [Threads -> 0 .. Calls]
        /\ counter \in [Threads -> 0 .. InitToken]
        /\ ticks \in [Threads -> 0 .. MaxTicks]
        /\ granted \in [Threads -> Nat] /\ burst \in [Threads -> Nat]
    BY LimiterAssumption
  <2>3. /\ closed \subseteq Threads /\ running \subseteq Threads
        /\ ticked \subseteq running /\ panicked \in BOOLEAN
    BY Zenon
  <2> QED
    BY <2>1, <2>2, <2>3 DEF TypeOK
<1>2. TypeOK /\ [Next]_vars => TypeOK'
  <2> SUFFICES ASSUME TypeOK, [Next]_vars PROVE TypeOK'
    OBVIOUS
  <2> USE LimiterAssumption DEF TypeOK, threadVars, history, Step
  <2>1. CASE UNCHANGED vars
    BY <2>1 DEF vars
  <2>2. ASSUME NEW t \in Threads, GetBucket(t) PROVE TypeOK'
    BY <2>2 DEF GetBucket
  <2>3. ASSUME NEW t \in Threads, Allow(t) PROVE TypeOK'
    BY <2>3 DEF Allow, Allows
  <2>4. ASSUME NEW t \in Threads, CallsDone(t) PROVE TypeOK'
    BY <2>4 DEF CallsDone
  <2>5. ASSUME NEW t \in Threads, RemoveClient(t) PROVE TypeOK'
    <3>1. /\ pc' \in [Threads -> {"get", "allow", "remove", "done"}]
          /\ \A u \in Threads : pc'[u] \in {"allow", "remove"} => handle'[u] \in Threads
          /\ UNCHANGED <<handle, left, counter, running, ticked, ticks,
                         granted, burst>>
      BY <2>5 DEF RemoveClient
    <3>2. /\ clients' \in [Clients -> Threads \union {NoBucket}]
          /\ closed' \subseteq Threads
      BY <2>5 DEF RemoveClient
    <3>3. panicked' \in BOOLEAN
      BY <2>5, Zenon DEF RemoveClient
    <3> QED
      BY <3>1, <3>2, <3>3
  <2>6. ASSUME NEW t \in Threads, CloseBucket(t) PROVE TypeOK'
    <3>1. /\ pc' \in [Threads -> {"get", "allow", "remove", "done"}]
          /\ \A u \in Threads : pc'[u] \in {"allow", "remove"} => handle'[u] \in Threads
          /\ UNCHANGED <<handle, left, clients, counter, running, ticked, ticks,
                         granted, burst>>
      BY <2>6 DEF CloseBucket
    <3>2. closed' \subseteq Threads /\ panicked' \in BOOLEAN
      BY <2>6 DEF CloseBucket
    <3> QED
      BY <3>1, <3>2
  <2>7. ASSUME NEW b \in Threads, Tick(b) PROVE TypeOK'
    BY <2>7 DEF Tick
  <2>8. ASSUME NEW b \in Threads, Refill(b) PROVE TypeOK'
    BY <2>8 DEF Refill, Refilled
  <2>9. ASSUME NEW b \in Threads, Stop(b) PROVE TypeOK'
    BY <2>9 DEF Stop
  <2> QED
    BY <2>1, <2>2, <2>3, <2>4, <2>5, <2>6, <2>7, <2>8, <2>9 DEF Next, Thread
<1> QED
  BY <1>1, <1>2, PTL DEF Spec
-----------------------------------------------------------------------------
(* What a bucket lets through                                              *)

\* The tokens of a bucket, those it gave away and the refill a waiting tick
\* will bring never exceed what the periods have brought.
RateInv ==
  \A b \in Threads :
    granted[b] + counter[b] + (IF b \in ticked THEN RefilToken ELSE 0)
      <= InitToken + ticks[b] * RefilToken

\* Allowing moves a token from the bucket to the burst; a refill starts a
\* burst with at most a full bucket.
BurstInv == \A b \in Threads : burst[b] + counter[b] <= InitToken

\* One more tick is one more refill.
LEMMA MoreTicks ==
  ASSUME NEW n \in Nat, NEW r \in Nat
  PROVE  n * r \in Nat /\ (n + 1) * r = n * r + r
  OBVIOUS

\* Whatever the interleaving of the threads, the ticker and the refills, a
\* bucket keeps to its rate.
THEOREM RateIsBounded == Spec => []RateBound
<1>1. Init => RateInv
  <2> SUFFICES ASSUME Init, NEW b \in Threads
               PROVE  granted[b] + counter[b]
                        + (IF b \in ticked THEN RefilToken ELSE 0)
                          <= InitToken + ticks[b] * RefilToken
    BY DEF RateInv
  <2>1. /\ granted[b] = 0 /\ counter[b] = InitToken /\ ticks[b] = 0
        /\ b \notin ticked
    BY DEF Init
  <2>2. 0 * RefilToken = 0
    BY LimiterAssumption
  <2> QED
    BY <2>1, <2>2, LimiterAssumption
<1>2. TypeOK /\ RateInv /\ [Next]_vars => RateInv'
  <2> SUFFICES ASSUME TypeOK, RateInv, [Next]_vars, NEW x \in Threads
               PROVE  (granted[x] + counter[x]
                        + (IF x \in ticked THEN RefilToken ELSE 0)
                          <= InitToken + ticks[x] * RefilToken)'
    BY DEF RateInv
  <2> DEFINE Due == ticks[x] * RefilToken
             Load == granted[x] + counter[x]
                       + (IF x \in ticked THEN RefilToken ELSE 0)
  <2>1. Due \in Nat /\ Load <= InitToken + Due
    BY LimiterAssumption, MoreTicks DEF TypeOK, RateInv
  <2>2. CASE UNCHANGED <<granted, counter, ticked, ticks>>
    BY <2>1, <2>2
  <2>3. ASSUME NEW t \in Threads, Allow(t) PROVE Load' <= InitToken + Due'
    <3>1. Due' = Due /\ ticked' = ticked
      BY <2>3 DEF Allow
    <3>2. granted'[x] + counter'[x] = granted[x] + counter[x]
      BY <2>3 DEF Allow, TypeOK, Step
    <3> QED
      BY <2>1, <3>1, <3>2, LimiterAssumption DEF TypeOK
  <2>4. ASSUME NEW b \in Threads, Tick(b) PROVE Load' <= InitToken + Due'
    <3>1. granted' = granted /\ counter' = counter
      BY <2>4 DEF Tick
    <3>2. CASE b = x
      <4>1. Due' = Due + RefilToken
        BY <2>4, <3>2, MoreTicks, LimiterAssumption DEF Tick, TypeOK
      <4>2. x \in ticked'
        BY <2>4, <3>2 DEF Tick
      <4> HIDE DEF Due
      <4> QED
        BY <2>1, <3>1, <4>1, <4>2, LimiterAssumption DEF TypeOK
    <3>3. CASE b # x
      <4>1. Due' = Due /\ (x \in ticked' <=> x \in ticked)
        BY <2>4, <3>3 DEF Tick, TypeOK
      <4> QED
        BY <2>1, <3>1, <4>1
    <3> QED
      BY <3>2, <3>3
  <2>5. ASSUME NEW b \in Threads, Refill(b) PROVE Load' <= InitToken + Due'
    <3>1. Due' = Due /\ granted' = granted
      BY <2>5 DEF Refill
    <3>2. /\ counter'[x] \in Nat
          /\ counter'[x] + (IF x \in ticked' THEN RefilToken ELSE 0)
               <= counter[x] + (IF x \in ticked THEN RefilToken ELSE 0)
      BY <2>5, LimiterAssumption DEF Refill, Refilled, TypeOK
    <3> HIDE DEF Due
    <3> QED
      BY <2>1, <3>1, <3>2, LimiterAssumption DEF TypeOK
  <2>6. ASSUME NEW b \in Threads, Stop(b) PROVE Load' <= InitToken + Due'
    <3>1. UNCHANGED <<granted, counter, ticks>> /\ ticked' \subseteq ticked
      BY <2>6 DEF Stop, history
    <3> HIDE DEF Due
    <3>2. Due' = Due
      BY <3>1 DEF Due
    <3> QED
      BY <2>1, <3>1, <3>2, LimiterAssumption DEF TypeOK
  <2>7. ASSUME \E t \in Threads :
                 GetBucket(t) \/ CallsDone(t) \/ RemoveClient(t) \/ CloseBucket(t)
        PROVE  UNCHANGED <<granted, counter, ticked, ticks>>
    BY <2>7 DEF GetBucket, CallsDone, RemoveClient, CloseBucket, history
  <2> QED
    BY <2>2, <2>3, <2>4, <2>5, <2>6, <2>7 DEF Next, Thread, vars
<1>3. TypeOK /\ RateInv => RateBound
  <2> SUFFICES ASSUME TypeOK, RateInv, NEW b \in Threads
               PROVE  granted[b] <= InitToken + ticks[b] * RefilToken
    BY DEF RateBound
  <2>1. ticks[b] * RefilToken \in Nat
    BY MoreTicks, LimiterAssumption DEF TypeOK
  <2> QED
    BY <2>1, LimiterAssumption DEF TypeOK, RateInv
<1> QED
  BY <1>1, <1>2, <1>3, TypeCorrect, PTL DEF Spec

\* A bucket never lets more through between two refills than it can hold.
THEOREM BurstIsBounded == Spec => []BurstBound
<1>1. Init => BurstInv
  <2> SUFFICES ASSUME Init, NEW b \in Threads
               PROVE  burst[b] + counter[b] <= InitToken
    BY DEF BurstInv
  <2>1. burst[b] = 0 /\ counter[b] = InitToken
    BY DEF Init
  <2> QED
    BY <2>1, LimiterAssumption
<1>2. TypeOK /\ BurstInv /\ [Next]_vars => BurstInv'
  <2> SUFFICES ASSUME TypeOK, BurstInv, [Next]_vars, NEW x \in Threads
               PROVE  (burst[x] + counter[x] <= InitToken)'
    BY DEF BurstInv
  <2> USE DEF BurstInv
  <2>1. CASE UNCHANGED <<burst, counter>>
    BY <2>1
  <2>2. ASSUME NEW t \in Threads, Allow(t)
        PROVE  (burst[x] + counter[x] <= InitToken)'
    BY <2>2 DEF Allow, TypeOK, Step
  <2>3. ASSUME NEW b \in Threads, Refill(b)
        PROVE  (burst[x] + counter[x] <= InitToken)'
    BY <2>3, LimiterAssumption DEF Refill, Refilled, TypeOK
  <2>4. ASSUME NEW t \in Threads,
               GetBucket(t) \/ CallsDone(t) \/ RemoveClient(t)
                 \/ CloseBucket(t) \/ Tick(t) \/ Stop(t)
        PROVE  UNCHANGED <<burst, counter>>
    BY <2>4 DEF GetBucket, CallsDone, RemoveClient, CloseBucket, Tick, Stop, history
  <2> QED
    BY <2>1, <2>2, <2>3, <2>4 DEF Next, Thread, vars
<1>3. TypeOK /\ BurstInv => BurstBound
  <2> SUFFICES ASSUME TypeOK, BurstInv, NEW b \in Threads
               PROVE  burst[b] <= InitToken
    BY DEF BurstBound
  <2>1. /\ burst[b] \in Nat /\ counter[b] \in 0 .. InitToken
        /\ burst[b] + counter[b] <= InitToken
    BY DEF TypeOK, BurstInv
  <2> QED
    BY <2>1, LimiterAssumption
<1> QED
  BY <1>1, <1>2, <1>3, TypeCorrect, PTL DEF Spec
-----------------------------------------------------------------------------
(* The map of clients and the buckets                                      *)

\* The map holds the open buckets, and besides them only what a holder has
\* closed, each under its own client; a thread that has not asked yet has
\* created none.
MapInv ==
  /\ \A b \in running \ closed : clients[ClientOf[b]] = b
  /\ \A c \in Clients : clients[c] # NoBucket =>
       /\ clients[c] \in running \ closed \/ ClosedByHolder(clients[c])
       /\ ClientOf[clients[c]] = c
       /\ pc[clients[c]] # "get"
  /\ \A t \in Threads :
       /\ pc[t] = "get" => t \notin running \union closed
       /\ handle[t] # NoBucket => pc[handle[t]] # "get"

\* A holder that has closed its bucket stays one.
LEMMA StaysClosed ==
  ASSUME TypeOK, [Next]_vars, NEW b, ClosedByHolder(b)
  PROVE  ClosedByHolder(b)'
<1>1. ASSUME NEW t \in Threads, pc[t] = "done"
      PROVE  pc'[t] = "done" /\ handle'[t] = handle[t]
  <2> USE <1>1 DEF TypeOK, Step
  <2>1. ASSUME NEW u \in Threads, Thread(u)
        PROVE  pc'[t] = "done" /\ handle'[t] = handle[t]
    BY <2>1 DEF Thread, GetBucket, Allow, CallsDone, RemoveClient, CloseBucket
  <2>2. ASSUME NEW c \in Threads, Tick(c) \/ Refill(c) \/ Stop(c)
        PROVE  UNCHANGED <<pc, handle>>
    BY <2>2 DEF Tick, Refill, Stop, threadVars
  <2> QED
    BY <2>1, <2>2 DEF Next, vars
<1> QED
  BY <1>1, LimiterAssumption DEF ClosedByHolder

\* Two threads never create a bucket each for one client, and a bucket is
\* never handed out without its refill goroutine, unless its holder closed it.
THEOREM MapIsConsistent == Spec => []MapMatchesBuckets
<1>1. Init => MapInv
  BY DEF Init, MapInv
<1>2. TypeOK /\ MapInv /\ [Next]_vars => MapInv'
  <2> SUFFICES ASSUME TypeOK, MapInv, [Next]_vars PROVE MapInv'
    OBVIOUS
  <2>1. \A b : ClosedByHolder(b) => ClosedByHolder(b)'
    BY StaysClosed
  <2> USE LimiterAssumption, <2>1 DEF TypeOK, MapInv, Step
  <2>2. CASE UNCHANGED <<pc, handle, clients, closed, running>>
    BY <2>2
  <2>3. ASSUME NEW t \in Threads, GetBucket(t) PROVE MapInv'
    <3> DEFINE b == handle'[t]
    <3>1. /\ pc' = [pc EXCEPT ![t] = "allow"] /\ pc[t] = "get"
          /\ handle' = [handle EXCEPT ![t] = b] /\ closed' = closed
      BY <2>3 DEF GetBucket
    <3>2. CASE clients[ClientOf[t]] = NoBucket
      <4>1. /\ clients' = [clients EXCEPT ![ClientOf[t]] = t]
            /\ running' = running \union {t} /\ b = t
        BY <2>3, <3>2 DEF GetBucket
      <4>2. \A x \in (running \ closed)' : clients'[ClientOf[x]] = x
        BY <3>1, <3>2, <4>1
      <4>3. ASSUME NEW c \in Clients, clients'[c] # NoBucket
            PROVE  /\ \/ clients'[c] \in (running \ closed)'
                      \/ ClosedByHolder(clients[c])'
                   /\ ClientOf[clients'[c]] = c
                   /\ pc'[clients'[c]] # "get"
        BY <3>1, <3>2, <4>1, <4>3
      <4>4. \A u \in Threads :
              /\ pc'[u] = "get" => u \notin (running \union closed)'
              /\ handle'[u] # NoBucket => pc'[handle'[u]] # "get"
        BY <3>1, <4>1
      <4> QED
        BY <4>2, <4>3, <4>4
    <3>3. CASE clients[ClientOf[t]] # NoBucket
      <4>1. clients' = clients /\ running' = running /\ b = clients[ClientOf[t]]
        BY <2>3, <3>3 DEF GetBucket
      <4> QED
        BY <3>1, <3>3, <4>1
    <3> QED
      BY <3>2, <3>3
  <2>4. ASSUME NEW t \in Threads, CallsDone(t) PROVE MapInv'
    BY <2>4 DEF CallsDone
  <2>5. ASSUME NEW t \in Threads, RemoveClient(t) PROVE MapInv'
    <3> DEFINE b == clients[ClientOf[t]]
    <3>1. /\ pc' = [pc EXCEPT ![t] = "done"]
          /\ running' = running /\ handle' = handle
      BY <2>5 DEF RemoveClient
    <3>2. CASE b = NoBucket \/ b \in closed
      BY <2>5, <3>1, <3>2 DEF RemoveClient
    <3>3. CASE b # NoBucket /\ b \notin closed
      <4>1. /\ closed' = closed \union {b}
            /\ clients' = [clients EXCEPT ![ClientOf[t]] = NoBucket]
        BY <2>5, <3>3 DEF RemoveClient
      <4>2. ClientOf[b] = ClientOf[t] /\ pc[b] # "get" /\ b \in Threads
        BY <3>3
      <4> QED
        BY <3>1, <3>3, <4>1, <4>2
    <3> QED
      BY <3>2, <3>3
  <2>6. ASSUME NEW t \in Threads, CloseBucket(t) PROVE MapInv'
    <3> DEFINE b == handle[t]
    <3>1. /\ pc' = [pc EXCEPT ![t] = "done"] /\ closed' = closed \union {b}
          /\ running' = running /\ handle' = handle /\ clients' = clients
          /\ t \in Closers /\ b \in Threads /\ pc[b] # "get"
      BY <2>6 DEF CloseBucket
    <3>2. ClosedByHolder(b)'
      BY <3>1 DEF ClosedByHolder
    <3> QED
      BY <3>1, <3>2
  <2>7. ASSUME NEW b \in Threads, Stop(b) PROVE MapInv'
    BY <2>7 DEF Stop, threadVars
  <2>8. ASSUME NEW b \in Threads, Allow(b) \/ Tick(b) \/ Refill(b)
        PROVE  UNCHANGED <<pc, handle, clients, closed, running>>
    BY <2>8 DEF Allow, Tick, Refill, threadVars
  <2> QED
    BY <2>2, <2>3, <2>4, <2>5, <2>6, <2>7, <2>8 DEF Next, Thread, vars
<1>3. TypeOK /\ MapInv => MapMatchesBuckets
  BY LimiterAssumption DEF TypeOK, MapInv, MapMatchesBuckets
<1> QED
  BY <1>1, <1>2, <1>3, TypeCorrect, PTL DEF Spec
-----------------------------------------------------------------------------
(* No panic while every thread has a client of its own                     *)

OwnClients == \A t, u \in Threads : ClientOf[t] = ClientOf[u] => t = u

\* A thread finds its own open bucket in the map until it removes it.
OwnInv ==
  /\ ~panicked
  /\ \A t \in Threads :
       /\ pc[t] = "get" => t \notin closed /\ clients[ClientOf[t]] = NoBucket
       /\ pc[t] \in {"allow", "remove"} =>
            t \notin closed /\ clients[ClientOf[t]] = t /\ handle[t] = t

\* main gives every goroutine its own client, and then RemoveClient finds an
\* open bucket: no close of nil and no second close, also by a holder.
THEOREM NoPanicWithOwnClients == OwnClients /\ Spec => []NoPanic
<1> SUFFICES ASSUME OwnClients PROVE Spec => []NoPanic
  OBVIOUS
<1>1. Init => OwnInv
  BY LimiterAssumption DEF Init, OwnInv
<1>2. TypeOK /\ OwnInv /\ [Next]_vars => OwnInv'
  <2> SUFFICES ASSUME TypeOK, OwnInv, [Next]_vars PROVE OwnInv'
    OBVIOUS
  <2> USE LimiterAssumption DEF TypeOK, OwnInv, OwnClients, Step
  <2>1. CASE UNCHANGED <<pc, handle, clients, closed, panicked>>
    BY <2>1
  <2>2. ASSUME NEW t \in Threads, GetBucket(t) PROVE OwnInv'
    <3>1. /\ clients' = [clients EXCEPT ![ClientOf[t]] = t]
          /\ pc' = [pc EXCEPT ![t] = "allow"]
          /\ handle' = [handle EXCEPT ![t] = t]
          /\ closed' = closed /\ panicked' = panicked
      BY <2>2 DEF GetBucket, history
    <3> QED
      BY <2>2, <3>1 DEF GetBucket
  <2>3. ASSUME NEW t \in Threads, CallsDone(t) PROVE OwnInv'
    BY <2>3 DEF CallsDone
  <2>4. ASSUME NEW t \in Threads, RemoveClient(t) PROVE OwnInv'
    <3>1. /\ closed' = closed \union {t}
          /\ clients' = [clients EXCEPT ![ClientOf[t]] = NoBucket]
          /\ pc' = [pc EXCEPT ![t] = "done"] /\ panicked' = panicked
          /\ handle' = handle
      BY <2>4 DEF RemoveClient
    <3> QED
      BY <3>1
  <2>5. ASSUME NEW t \in Threads, CloseBucket(t) PROVE OwnInv'
    <3>1. /\ closed' = closed \union {t} /\ ~panicked'
          /\ pc' = [pc EXCEPT ![t] = "done"] /\ UNCHANGED <<handle, clients>>
      BY <2>5 DEF CloseBucket
    <3> QED
      BY <3>1
  <2>6. ASSUME NEW b \in Threads, Allow(b) \/ Tick(b) \/ Refill(b) \/ Stop(b)
        PROVE  UNCHANGED <<pc, handle, clients, closed, panicked>>
    BY <2>6 DEF Allow, Tick, Refill, Stop, threadVars
  <2> QED
    BY <2>1, <2>2, <2>3, <2>4, <2>5, <2>6 DEF Next, Thread, vars
<1>3. OwnInv => NoPanic
  BY DEF OwnInv, NoPanic
<1> QED
  BY <1>1, <1>2, <1>3, TypeCorrect, PTL DEF Spec
=============================================================================
