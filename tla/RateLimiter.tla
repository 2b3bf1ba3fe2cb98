---------------------------- MODULE RateLimiter ----------------------------
(***************************************************************************)
(* The token-bucket rate limiter of ratelimiter/main.go: threads that run  *)
(* testBucket, the map of client buckets they share behind rl.m, and one   *)
(* refill goroutine per bucket, which a closed channel tells to stop.      *)
(*                                                                         *)
(* A thread asks for a bucket once, so the bucket it may create is named   *)
(* after the thread.  Every critical section of rl.m and of tb.m is one    *)
(* action.                                                                 *)
(***************************************************************************)
EXTENDS Integers

CONSTANTS
  Threads,     \* goroutines running testBucket, and names of the buckets
  Clients,
  ClientOf,    \* the client each thread works for
  Closers,     \* threads that end as those of main_test.go do: not with
               \* RemoveClient, but by closing their bucket
  InitToken,   \* tokens of a new bucket, and the most it holds
  RefilToken,  \* tokens added per period
  Calls,       \* how often a thread calls allow
  MaxTicks,    \* bound: periods that pass in the life of a bucket
  NoBucket     \* a nil Bucket

ASSUME LimiterAssumption ==
  /\ ClientOf \in [Threads -> Clients] /\ Closers \subseteq Threads
  /\ InitToken \in Nat /\ RefilToken \in Nat
  /\ Calls \in Nat /\ MaxTicks \in Nat
  /\ NoBucket \notin Threads

VARIABLES
  pc, handle, left,  \* each thread: where it is, its bucket, its calls to go
  clients,           \* rl.clients
  counter,           \* tb.counter of each bucket
  closed,            \* buckets whose closeChan is closed
  running,           \* buckets whose refill goroutine runs
  ticked,            \* buckets with a tick waiting in the ticker's channel
  panicked,          \* a panic ended the program
  ticks,             \* history: periods since the bucket was created
  granted,           \* history: calls a bucket has allowed
  burst              \* history: calls it has allowed since its last refill
threadVars == <<pc, handle, left>>
history == <<ticks, granted, burst>>
vars == <<pc, handle, left, clients, counter, closed, running, ticked,
          panicked, ticks, granted, burst>>

Init ==
  /\ pc = [t \in Threads |-> "get"]
  /\ handle = [t \in Threads |-> NoBucket]
  /\ left = [t \in Threads |-> Calls]
  /\ clients = [c \in Clients |-> NoBucket]
  /\ counter = [b \in Threads |-> InitToken]
  /\ closed = {} /\ running = {} /\ ticked = {}
  /\ panicked = FALSE
  /\ ticks = [b \in Threads |-> 0]
  /\ granted = [b \in Threads |-> 0]
  /\ burst = [b \in Threads |-> 0]
-----------------------------------------------------------------------------
(* testBucket: GetBucket, Calls times allow, RemoveClient                  *)

Step(t, from) == ~panicked /\ pc[t] = from

\* A GetBucket that creates a bucket and does not keep it in the map.
GetBucketUnregistered(t) ==
  /\ Step(t, "get")
  /\ running' = running \union {t}
  /\ handle' = [handle EXCEPT ![t] = t]
  /\ pc' = [pc EXCEPT ![t] = "allow"]
  /\ UNCHANGED <<left, clients, counter, closed, ticked, panicked, history>>

GetBucket(t) ==
  /\ Step(t, "get")
  /\ LET c == ClientOf[t]
         b == IF clients[c] = NoBucket THEN t ELSE clients[c]
     IN  /\ clients' = [clients EXCEPT ![c] = b]
         /\ running' = IF clients[c] = NoBucket THEN running \union {t}
                       ELSE running
         /\ handle' = [handle EXCEPT ![t] = b]
  /\ pc' = [pc EXCEPT ![t] = "allow"]
  /\ UNCHANGED <<left, counter, closed, ticked, panicked, history>>

\* An allow that takes a token without looking whether there is one.
AllowsAnything(b) == TRUE

\* What allow answers.
Allows(b) == counter[b] > 0

Allow(t) ==
  /\ Step(t, "allow") /\ left[t] > 0
  /\ left' = [left EXCEPT ![t] = @ - 1]
  /\ LET b == handle[t]
         n == IF Allows(b) THEN 1 ELSE 0
     IN  /\ counter' = [counter EXCEPT ![b] = @ - n]
         /\ granted' = [granted EXCEPT ![b] = @ + n]
         /\ burst' = [burst EXCEPT ![b] = @ + n]
  /\ UNCHANGED <<pc, handle, clients, closed, running, ticked, panicked,
                 ticks>>

CallsDone(t) ==
  /\ Step(t, "allow") /\ left[t] = 0
  /\ pc' = [pc EXCEPT ![t] = "remove"]
  /\ UNCHANGED <<handle, left, clients, counter, closed, running, ticked,
                 panicked, history>>

\* A RemoveClient that deletes the entry and does not close the bucket.
RemoveClientLeavesOpen(t) ==
  /\ Step(t, "remove")
  /\ clients' = [clients EXCEPT ![ClientOf[t]] = NoBucket]
  /\ pc' = [pc EXCEPT ![t] = "done"]
  /\ UNCHANGED <<handle, left, counter, closed, running, ticked, panicked,
                 history>>

\* A RemoveClient that closes the bucket and leaves it in the map.
RemoveClientKeepsEntry(t) ==
  /\ Step(t, "remove")
  /\ closed' = closed \union ({clients[ClientOf[t]]} \ {NoBucket})
  /\ pc' = [pc EXCEPT ![t] = "done"]
  /\ UNCHANGED <<handle, left, clients, counter, running, ticked, panicked,
                 history>>

\* Calling close on a nil Bucket and closing a closed channel both panic.
RemoveClient(t) ==
  /\ Step(t, "remove") /\ t \notin Closers
  /\ LET b == clients[ClientOf[t]]
     IN  IF b = NoBucket \/ b \in closed
         THEN panicked' = TRUE /\ UNCHANGED <<clients, closed>>
         ELSE /\ closed' = closed \union {b}
              /\ clients' = [clients EXCEPT ![ClientOf[t]] = NoBucket]
              /\ UNCHANGED panicked
  /\ pc' = [pc EXCEPT ![t] = "done"]
  /\ UNCHANGED <<handle, left, counter, running, ticked, history>>

\* The bucket stays in the map.
CloseBucket(t) ==
  /\ Step(t, "remove") /\ t \in Closers
  /\ panicked' = (handle[t] \in closed)
  /\ closed' = closed \union {handle[t]}
  /\ pc' = [pc EXCEPT ![t] = "done"]
  /\ UNCHANGED <<handle, left, clients, counter, running, ticked, history>>
-----------------------------------------------------------------------------
(* refill: the goroutine of one bucket                                     *)

\* A period passes; the ticker drops a tick nobody took.
Tick(b) ==
  /\ ~panicked /\ b \in running /\ ticks[b] < MaxTicks
  /\ ticks' = [ticks EXCEPT ![b] = @ + 1]
  /\ ticked' = ticked \union {b}
  /\ UNCHANGED <<threadVars, clients, counter, closed, running, panicked,
                 granted, burst>>

\* A refill without the clamp.
RefilledUnclamped(b) == counter[b] + RefilToken

Refilled(b) == IF counter[b] + RefilToken > InitToken THEN InitToken
               ELSE counter[b] + RefilToken

Refill(b) ==
  /\ ~panicked /\ b \in running /\ b \in ticked
  /\ ticked' = ticked \ {b}
  /\ counter' = [counter EXCEPT ![b] = Refilled(b)]
  /\ burst' = [burst EXCEPT ![b] = 0]
  /\ UNCHANGED <<threadVars, clients, closed, running, panicked, ticks,
                 granted>>

\* select chooses either branch while a tick waits and closeChan is closed.
Stop(b) ==
  /\ ~panicked /\ b \in running /\ b \in closed
  /\ running' = running \ {b}
  /\ ticked' = ticked \ {b}
  /\ UNCHANGED <<threadVars, clients, counter, closed, panicked, history>>
-----------------------------------------------------------------------------
Thread(t) ==
  \/ GetBucket(t) \/ Allow(t) \/ CallsDone(t)
  \/ RemoveClient(t) \/ CloseBucket(t)

Next ==
  \/ \E t \in Threads : Thread(t)
  \/ \E b \in Threads : Tick(b) \/ Refill(b) \/ Stop(b)

\* A goroutine that can run eventually does; select, which chooses at random,
\* does not take the ticker's branch for ever.
Fairness ==
  \A t \in Threads : WF_vars(Thread(t)) /\ WF_vars(Refill(t)) /\ WF_vars(Stop(t))

Spec == Init /\ [][Next]_vars
FairSpec == Spec /\ Fairness
-----------------------------------------------------------------------------
TypeOK ==
  /\ pc \in [Threads -> {"get", "allow", "remove", "done"}]
  /\ handle \in [Threads -> Threads \union {NoBucket}]
  /\ \A t \in Threads : pc[t] \in {"allow", "remove"} => handle[t] \in Threads
  /\ left \in [Threads -> 0 .. Calls]
  /\ clients \in [Clients -> Threads \union {NoBucket}]
  /\ counter \in [Threads -> 0 .. InitToken]
  /\ closed \subseteq Threads /\ running \subseteq Threads
  /\ ticked \subseteq running
  /\ panicked \in BOOLEAN
  /\ ticks \in [Threads -> 0 .. MaxTicks]
  /\ granted \in [Threads -> Nat] /\ burst \in [Threads -> Nat]

\* However many threads share a bucket and however late the refills come, in n
\* periods it allows at most InitToken + n * RefilToken calls.
RateBound ==
  \A b \in Threads : granted[b] <= InitToken + ticks[b] * RefilToken

\* Between two refills a bucket allows at most InitToken calls, even when they
\* follow an idle time (main_test.go:60-75).
BurstBound == \A b \in Threads : burst[b] <= InitToken

\* Threads of one client that ask concurrently share one bucket: there are
\* never two open ones for a client (main_test.go:119-147).  The bucket that
\* GetBucket hands out is open and its refill goroutine runs, unless its holder
\* has closed it: the limiter does not notice, and goes on handing it out.
ClosedByHolder(b) == \E t \in Closers : pc[t] = "done" /\ handle[t] = b
MapMatchesBuckets ==
  /\ \A a, b \in running \ closed : ClientOf[a] = ClientOf[b] => a = b
  /\ \A c \in Clients : clients[c] # NoBucket =>
       clients[c] \in running \ closed \/ ClosedByHolder(clients[c])

\* main_test.go:200: "concurrent access does not cause a race or panic".
NoPanic == ~panicked

\* Closing a bucket ends its refill goroutine (main_test.go:207): when main's
\* threads are done none is left behind.
NoGoroutineLeak ==
  (\A t \in Threads : pc[t] = "done") ~> (running = {} \/ panicked)
=============================================================================
