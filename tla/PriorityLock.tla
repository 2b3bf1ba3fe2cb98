---------------------------- MODULE PriorityLock ----------------------------
(***************************************************************************)
(* The reader-writer locks by which regCb and execEvents of LeetCode/ keep *)
(* callbacks and events apart:                                             *)
(*   "rwmutex"  sync.RWMutex, in pureStorage.go                            *)
(*   "flag"     PriorityLock of pureStorage2.go                            *)
(*   "goid"     PriorityLock of pureStorage3.go, with a map of goroutines   *)
(*   "count"    PriorityLock of pureStorage4.go                            *)
(* Each section under mu is one action.  An event under "flag" or "goid"   *)
(* keeps mu until its Unlock.  pureStorage3.go is modelled as if it        *)
(* compiled: with a GoID in package runtime that getgoid returns, and      *)
(* idmap where line 60 has idmao.                                          *)
(***************************************************************************)
EXTENDS Integers, FiniteSets

CONSTANTS
  Users, Events,  \* goroutines in regCb and in execEvents
  IdOf,           \* the id each user passes on to the counting lock
  Nesting,        \* users whose callback calls regCb again
  CallsOf         \* bound: how often each calls

ASSUME LockAssumption ==
  /\ IsFiniteSet(Users) /\ IsFiniteSet(Events)
  /\ Users \intersect Events = {} /\ Nesting \subseteq Users
  /\ DOMAIN IdOf = Users
  /\ CallsOf \in [Users \union Events -> Nat]

Goroutines == Users \union Events
Ids == Users \union {IdOf[u] : u \in Users}

VARIABLES
  kind,
  writerWaiting,  \* "rwmutex": an event has or waits for the lock
  writerCount, readerCount, idmap,
  pc,             \* "woken" has been in cond.Wait and wants mu
  depth,          \* how many calls of regCb each user is in
  calls
vars == <<kind, writerWaiting, writerCount, readerCount, idmap, pc, depth, calls>>

Init ==
  /\ kind \in {"rwmutex", "flag", "goid", "count"}
  /\ writerWaiting = FALSE /\ writerCount = 0 /\ readerCount = 0
  /\ idmap = [i \in Ids |-> 0]
  /\ pc = [t \in Goroutines |-> "idle"]
  /\ depth = [u \in Users |-> 0]
  /\ calls = [t \in Goroutines |-> 0]
-----------------------------------------------------------------------------
Running(t) == pc[t] = "running"

\* mu can be taken.
MuFree == kind \in {"flag", "goid"} => ~\E e \in Events : Running(e)

\* To all that wait; sync.RWMutex wakes the event only.
Broadcast(p) ==
  [t \in Goroutines |->
     IF p[t] = "waiting" /\ (kind = "rwmutex" => t \in Events) THEN "woken" ELSE p[t]]

Call(t) ==
  /\ pc[t] = "idle" /\ calls[t] < CallsOf[t]
  /\ calls' = [calls EXCEPT ![t] = @ + 1]
  /\ pc' = [pc EXCEPT ![t] = "called"]
  /\ UNCHANGED <<kind, writerWaiting, writerCount, readerCount, idmap, depth>>

\* A callback calls regCb, as those of the locks with ids do.
Nest(u) ==
  /\ kind \in {"goid", "count"} /\ u \in Nesting /\ Running(u) /\ depth[u] = 1
  /\ calls[u] < CallsOf[u]
  /\ calls' = [calls EXCEPT ![u] = @ + 1]
  /\ pc' = [pc EXCEPT ![u] = "called"]
  /\ UNCHANGED <<kind, writerWaiting, writerCount, readerCount, idmap, depth>>
-----------------------------------------------------------------------------
(* RLock and RUnlock                                                       *)

\* A comparison that overlooks the first of the events.
WriterFirstLate == IF kind = "count" THEN writerCount > 1 ELSE writerWaiting

WriterFirst == IF kind = "count" THEN writerCount > 0 ELSE writerWaiting

Id(u) == IF kind = "goid" THEN u ELSE IdOf[u]

\* Without the way round for an id that is in the map.
KnownNever(u) == FALSE

Known(u) == kind \in {"goid", "count"} /\ idmap[Id(u)] > 0

\* An RUnlock that leaves the id in the map.
CountsOnly(u, n) == kind = "count" /\ n > 0

\* "goid" enters an id only if it is there, and so never.
Counts(u, n) == kind = "count" \/ (kind = "goid" /\ (n > 0 => Known(u)))

\* An id that is not in the map counts 0, and the first RUnlock makes it -1.
AddId(u, n) == idmap' = IF Counts(u, n) THEN [idmap EXCEPT ![Id(u)] = @ + n] ELSE idmap

Admit(u) ==
  /\ readerCount' = readerCount + 1
  /\ depth' = [depth EXCEPT ![u] = @ + 1]
  /\ pc' = [pc EXCEPT ![u] = "running"]

RLock(u) ==
  /\ pc[u] = "called" /\ MuFree
  /\ AddId(u, 1)
  /\ \/ (Known(u) \/ ~WriterFirst) /\ Admit(u)
     \/ /\ ~Known(u) /\ WriterFirst
        /\ pc' = [pc EXCEPT ![u] = "waiting"]
        /\ UNCHANGED <<readerCount, depth>>
  /\ UNCHANGED <<kind, writerWaiting, writerCount, calls>>

\* Waking up without looking again.
MayAlwaysPass == TRUE

MayPass == ~WriterFirst

\* The loop around cond.Wait; users of a sync.RWMutex do not come here.
RLockWoken(u) ==
  /\ pc[u] = "woken" /\ MuFree
  /\ \/ MayPass /\ Admit(u)
     \/ ~MayPass /\ pc' = [pc EXCEPT ![u] = "waiting"] /\ UNCHANGED <<readerCount, depth>>
  /\ UNCHANGED <<kind, writerWaiting, writerCount, idmap, calls>>

RUnlock(u) ==
  LET left == [pc EXCEPT ![u] = IF depth[u] = 1 THEN "idle" ELSE "running"] IN
  /\ Running(u) /\ MuFree
  /\ AddId(u, -1)
  /\ readerCount' = readerCount - 1
  /\ depth' = [depth EXCEPT ![u] = @ - 1]
  /\ pc' = IF readerCount = 1 /\ WriterFirst THEN Broadcast(left) ELSE left
  /\ UNCHANGED <<kind, writerWaiting, writerCount, calls>>
-----------------------------------------------------------------------------
(* Lock and Unlock                                                         *)

NoReaders == readerCount = 0

Enter(e) == pc' = [pc EXCEPT ![e] = IF NoReaders THEN "running" ELSE "waiting"]

\* sync.RWMutex lets one writer at a time get as far as waiting.
Lock(e) ==
  /\ pc[e] = "called" /\ MuFree
  /\ kind = "rwmutex" => ~writerWaiting
  /\ Enter(e)
  /\ \/ kind = "count" /\ writerCount' = writerCount + 1 /\ UNCHANGED writerWaiting
     \/ kind # "count" /\ writerWaiting' = TRUE /\ UNCHANGED writerCount
  /\ UNCHANGED <<kind, readerCount, idmap, depth, calls>>

LockWoken(e) ==
  /\ pc[e] = "woken" /\ MuFree
  /\ Enter(e)
  /\ UNCHANGED <<kind, writerWaiting, writerCount, readerCount, idmap, depth, calls>>

Unlock(e) ==
  LET gone == [pc EXCEPT ![e] = "idle"] IN
  /\ kind # "rwmutex" /\ Running(e)
  /\ pc' = Broadcast(gone)
  /\ \/ kind = "count" /\ writerCount' = writerCount - 1 /\ UNCHANGED writerWaiting
     \/ kind # "count" /\ writerWaiting' = FALSE /\ UNCHANGED writerCount
  /\ UNCHANGED <<kind, readerCount, idmap, depth, calls>>

\* sync.RWMutex lets all users in that wait, before the next event.
RWUnlock(e) ==
  LET admitted == {u \in Users : pc[u] = "waiting"} IN
  /\ kind = "rwmutex" /\ Running(e)
  /\ writerWaiting' = FALSE
  /\ readerCount' = readerCount + Cardinality(admitted)
  /\ depth' = [u \in Users |-> IF u \in admitted THEN 1 ELSE depth[u]]
  /\ pc' = [t \in Goroutines |-> IF t = e THEN "idle"
                                 ELSE IF t \in admitted THEN "running" ELSE pc[t]]
  /\ UNCHANGED <<kind, writerCount, idmap, calls>>
-----------------------------------------------------------------------------
StepUser(u) == RLock(u) \/ RLockWoken(u) \/ RUnlock(u)
StepEvent(e) == Lock(e) \/ LockWoken(e) \/ Unlock(e) \/ RWUnlock(e)

Next ==
  \/ \E t \in Goroutines : Call(t)
  \/ \E u \in Users : Nest(u) \/ StepUser(u)
  \/ \E e \in Events : StepEvent(e)

Spec == Init /\ [][Next]_vars
-----------------------------------------------------------------------------
\* No callback runs during an event (pureStorage.go:6: requests made during the
\* event "should wait till the event completes") and no event during another.
\* But the counting lock releases mu before its event starts, so that its events
\* overlap; and it lets a user past an event under an id another user waits with.
Shared(u) == \E v \in Users \ {u} : IdOf[v] = IdOf[u]
KeptApart ==
  \A e \in Events : Running(e) =>
    /\ \A u \in Users : Running(u) => kind = "count" /\ Shared(u)
    /\ \A d \in Events : Running(d) => d = e \/ kind = "count"

\* While an event waits for the counting lock no callback starts, unless its
\* user has the lock already or waits for it under the same id.
EventsGoFirst ==
  [][\A u \in Users, e \in Events :
       kind = "count" /\ pc[e] = "waiting" /\ depth[u] = 0 /\ depth'[u] = 1 => Shared(u)]_vars

\* The flag forgets an event: when another one's Unlock has reset it, a user may
\* come in first, and that one's RUnlock wakes nobody.
Forgotten(t) ==
  kind \in {"flag", "goid"} /\ t \in Events /\ pc[t] = "waiting" /\ ~writerWaiting

\* pureStorage3.go takes a callback that calls regCb again for a new one: it waits
\* for the event that waits for it.
Entangled ==
  /\ kind = "goid"
  /\ \E u \in Users, e \in Events : depth[u] = 1 /\ pc[u] = "waiting" /\ pc[e] = "waiting"

\* readerCount and idmap agree with who is in.
Entries == UNION {{u} \X (1 .. depth[u]) : u \in Users}
ReadersCounted ==
  /\ readerCount = Cardinality(Entries)
  /\ kind = "count" => \A u \in Users :
       /\ depth[u] > 0 => idmap[IdOf[u]] > 0
       /\ ~Shared(u) => idmap[IdOf[u]] - depth[u] \in {0, 1}

TypeOK ==
  /\ kind \in {"rwmutex", "flag", "goid", "count"} /\ writerWaiting \in BOOLEAN
  /\ writerCount \in 0 .. Cardinality(Events) /\ readerCount \in Nat
  /\ idmap \in [Ids -> Int]
  /\ pc \in [Goroutines -> {"idle", "called", "waiting", "woken", "running"}]
  /\ depth \in [Users -> 0 .. 2] /\ calls \in [Goroutines -> Nat]
=============================================================================
