------------------------------- MODULE Cache -------------------------------
(***************************************************************************)
(* The expiring cache of cachemgr/main.go: a map of entries behind the     *)
(* mutex c.m, and a CacheExpiry that learns of every entry with a time to  *)
(* live through a bounded channel and removes it in the background.        *)
(*                                                                         *)
(* An entry is abstracted to its expiry instant, because no operation ever *)
(* looks at the value it carries.  One unit of time stands for any number  *)
(* of milliseconds.  Expiries are instants of the wall clock, which may be *)
(* set back; tickers and sleeps follow the monotonic one.                  *)
(***************************************************************************)
EXTENDS Integers, Sequences

CONSTANTS
  Keys,           \* the keys the callers use
  TTLs,           \* the times to live they pass to set
  CheckDuration,  \* period of the expiry scan
  ChanCap,        \* capacity of updateChan
  Horizon,        \* bound: the last instant of the clock
  MaxRewind,      \* bound: how far the wall clock may be set back, once
  MaxSets,        \* bound: how many times set is called
  Absent          \* no entry under the key

ASSUME CacheAssumption ==
  /\ CheckDuration \in Nat \ {0} /\ ChanCap \in Nat \ {0}
  /\ Horizon \in Nat /\ MaxRewind \in Nat /\ MaxSets \in Nat
  /\ TTLs \subseteq Int
  /\ Absent \notin Int

VARIABLES
  now,         \* the wall clock
  back,        \* how far it has been set back: now + back is monotonic
  ticked,      \* a tick waits in the ticker's channel of one place
  entries,     \* c.entries: the expiry of each key
  setter,      \* the caller inside set with a TTL; it holds c.m
  sets,        \* calls of set so far
  updateChan,  \* the buffered channel of update events
  inHand,      \* the event RecvUpdateEvt took and has not recorded yet
  keyList,     \* ce.keyList
  expirers,    \* how many goroutines sleep for a key until a monotonic instant
  stranded     \* history: the <<key, expiry>> that goroutines were sleeping
               \* for when the clock was set back; they will wake too early
vars == <<now, back, ticked, entries, setter, sets, updateChan, inHand,
          keyList, expirers, stranded>>

Instants == 0 .. Horizon
Wakeups == 0 .. Horizon + MaxRewind
NoTTL == -1
Event == [key : Keys, expAt : Instants]
Idle == [stage |-> "idle"]
Busy == [stage : {"send", "store"}, key : Keys, expt : Instants]

Init ==
  /\ now = 0 /\ back = 0 /\ ticked = FALSE /\ sets = 0
  /\ entries = [k \in Keys |-> Absent]
  /\ keyList = [k \in Keys |-> Absent]
  /\ setter = Idle
  /\ updateChan = << >> /\ inHand = << >>
  /\ expirers = [e \in Keys \X Wakeups |-> 0]
  /\ stranded = {}
-----------------------------------------------------------------------------
(* set.  A call without a TTL is one critical section; a call with one     *)
(* holds c.m from SetBegin to SetStore and may block on updateChan.        *)

SetForever(k, ttl) ==
  /\ setter = Idle /\ sets < MaxSets /\ ttl <= 0
  /\ entries' = [entries EXCEPT ![k] = NoTTL]
  /\ sets' = sets + 1
  /\ UNCHANGED <<now, back, ticked, setter, updateChan, inHand, keyList,
                 expirers, stranded>>

SetBegin(k, ttl) ==
  /\ setter = Idle /\ sets < MaxSets /\ ttl > 0
  /\ now + ttl <= Horizon
  /\ setter' = [stage |-> "send", key |-> k, expt |-> now + ttl]
  /\ sets' = sets + 1
  /\ UNCHANGED <<now, back, ticked, entries, updateChan, inHand, keyList,
                 expirers, stranded>>

\* What a change that never blocks the caller would do: drop the event when
\* the channel is full.
SetSendOrDrop ==
  /\ setter.stage = "send"
  /\ updateChan' = IF Len(updateChan) < ChanCap
                   THEN Append(updateChan,
                               [key |-> setter.key, expAt |-> setter.expt])
                   ELSE updateChan
  /\ setter' = [setter EXCEPT !.stage = "store"]
  /\ UNCHANGED <<now, back, ticked, entries, sets, inHand, keyList, expirers,
                 stranded>>

\* A channel that never fills.
SetSendUnbounded ==
  /\ setter.stage = "send"
  /\ updateChan' = Append(updateChan,
                          [key |-> setter.key, expAt |-> setter.expt])
  /\ setter' = [setter EXCEPT !.stage = "store"]
  /\ UNCHANGED <<now, back, ticked, entries, sets, inHand, keyList, expirers,
                 stranded>>

SetSend ==
  /\ setter.stage = "send"
  /\ Len(updateChan) < ChanCap
  /\ updateChan' = Append(updateChan,
                          [key |-> setter.key, expAt |-> setter.expt])
  /\ setter' = [setter EXCEPT !.stage = "store"]
  /\ UNCHANGED <<now, back, ticked, entries, sets, inHand, keyList, expirers,
                 stranded>>

SetStore ==
  /\ setter.stage = "store"
  /\ entries' = [entries EXCEPT ![setter.key] = setter.expt]
  /\ setter' = Idle
  /\ UNCHANGED <<now, back, ticked, sets, updateChan, inHand, keyList,
                 expirers, stranded>>
-----------------------------------------------------------------------------
(* get, getttl and del: one critical section of c.m each.                  *)

Stale(k) == entries[k] \in Instants /\ entries[k] < now
Hit(k) == entries[k] # Absent /\ ~Stale(k)

Get(k) ==
  /\ setter = Idle
  /\ entries' = IF Stale(k) THEN [entries EXCEPT ![k] = Absent] ELSE entries
  /\ UNCHANGED <<now, back, ticked, setter, sets, updateChan, inHand, keyList,
                 expirers, stranded>>

GetTTL(k) == Get(k)

Del(k) ==
  /\ setter = Idle
  /\ entries' = [entries EXCEPT ![k] = Absent]
  /\ UNCHANGED <<now, back, ticked, setter, sets, updateChan, inHand, keyList,
                 expirers, stranded>>
-----------------------------------------------------------------------------
(* The background: RecvUpdateEvt, checkExpiry and the goroutines it starts *)

\* An expirer that trusts its wake-up instead of reading the entry again.
ExpiredUnchecked(k) == entries[k] \in Instants

Expired(k) == entries[k] \in Instants /\ entries[k] <= now

\* A goroutine sleeping until t by the monotonic clock wakes and calls
\* expireKey(k), which asks the wall clock.
ExpireKey(k, t) ==
  /\ expirers[<<k, t>>] > 0 /\ now + back >= t
  /\ setter = Idle
  /\ expirers' = [expirers EXCEPT ![<<k, t>>] = @ - 1]
  /\ entries' = IF Expired(k) THEN [entries EXCEPT ![k] = Absent] ELSE entries
  /\ UNCHANGED <<now, back, ticked, setter, sets, updateChan, inHand, keyList,
                 stranded>>

\* A receiver that needs the cache's mutex to make progress.
ReceiveUnderCacheLock ==
  /\ inHand = << >> /\ updateChan # << >>
  /\ setter = Idle
  /\ inHand' = <<Head(updateChan)>>
  /\ updateChan' = Tail(updateChan)
  /\ UNCHANGED <<now, back, ticked, entries, setter, sets, keyList, expirers,
                 stranded>>

Receive ==
  /\ inHand = << >> /\ updateChan # << >>
  /\ inHand' = <<Head(updateChan)>>
  /\ updateChan' = Tail(updateChan)
  /\ UNCHANGED <<now, back, ticked, entries, setter, sets, keyList, expirers,
                 stranded>>

Record ==
  /\ inHand # << >>
  /\ keyList' = [keyList EXCEPT ![inHand[1].key] = inHand[1].expAt]
  /\ inHand' = << >>
  /\ UNCHANGED <<now, back, ticked, entries, setter, sets, updateChan,
                 expirers, stranded>>

\* A scan that leaves alone what it is too late for.
DueAhead(k) == keyList[k] # Absent /\ keyList[k] - now \in 1 .. CheckDuration - 1

\* The scan hands k to a sleeping goroutine: its expiry comes before the
\* scan after the next one could see it.
Due(k) == keyList[k] # Absent /\ keyList[k] - now < CheckDuration

CheckExpiry ==
  /\ ticked
  /\ ticked' = FALSE
  /\ keyList' = [k \in Keys |-> IF Due(k) THEN Absent ELSE keyList[k]]
  /\ expirers' = [e \in Keys \X Wakeups |->
                    IF Due(e[1]) /\ keyList[e[1]] + back = e[2]
                    THEN expirers[e] + 1 ELSE expirers[e]]
  /\ UNCHANGED <<now, back, entries, setter, sets, updateChan, inHand,
                 stranded>>

\* Time passes; the ticker drops a tick nobody took.  At the horizon the
\* clock stands still and the ticker goes on.
Pass ==
  /\ now' = IF now < Horizon THEN now + 1 ELSE now
  /\ ticked' = \/ ticked \/ now' = Horizon
               \/ (now' + back) % CheckDuration = 0
  /\ UNCHANGED <<back, entries, setter, sets, updateChan, inHand, keyList,
                 expirers, stranded>>
\* The wall clock is set back, once.
Rewind(d) ==
  /\ back = 0 /\ d <= now
  /\ now' = now - d /\ back' = d
  /\ stranded' = stranded \union {e \in Keys \X Instants : expirers[e] > 0}
  /\ UNCHANGED <<ticked, entries, setter, sets, updateChan, inHand, keyList,
                 expirers>>
-----------------------------------------------------------------------------
Next ==
  \/ \E k \in Keys, ttl \in TTLs : SetForever(k, ttl) \/ SetBegin(k, ttl)
  \/ SetSend \/ SetStore
  \/ \E k \in Keys : Get(k) \/ GetTTL(k) \/ Del(k)
  \/ \E k \in Keys, t \in Wakeups : ExpireKey(k, t)
  \/ Receive \/ Record \/ CheckExpiry \/ Pass
  \/ \E d \in 1 .. MaxRewind : Rewind(d)

\* Callers come and go as they like; a goroutine that can run eventually
\* does, and one that keeps asking for c.m eventually gets it.
Fairness ==
  /\ WF_vars(SetSend) /\ WF_vars(SetStore)
  /\ WF_vars(Receive) /\ WF_vars(Record)
  /\ WF_vars(CheckExpiry) /\ WF_vars(Pass)
  /\ SF_vars(\E k \in Keys, t \in Wakeups : ExpireKey(k, t))

Spec == Init /\ [][Next]_vars
FairSpec == Spec /\ Fairness
-----------------------------------------------------------------------------
TypeOK ==
  /\ now \in Instants /\ back \in 0 .. MaxRewind
  /\ ticked \in BOOLEAN /\ sets \in 0 .. MaxSets
  /\ entries \in [Keys -> Instants \union {NoTTL, Absent}]
  /\ setter \in {Idle} \union Busy
  /\ updateChan \in Seq(Event) /\ Len(updateChan) <= ChanCap
  /\ inHand \in Seq(Event) /\ Len(inHand) <= 1
  /\ keyList \in [Keys -> Instants \union {Absent}]
  /\ expirers \in [Keys \X Wakeups -> Nat]
  /\ stranded \subseteq Keys \X Instants

\* The events that were sent and are not in keyList yet, oldest first.
Pending == inHand \o updateChan

NonePending(k) == \A i \in DOMAIN Pending : Pending[i].key # k
LastPending(k, t) ==
  \E i \in DOMAIN Pending :
    /\ Pending[i] = [key |-> k, expAt |-> t]
    /\ \A j \in DOMAIN Pending : j > i => Pending[j].key # k

\* Some part of CacheExpiry will come to k when the wall clock shows t, or
\* would have, if that clock had not been set back.
Tracked(k, t) ==
  \/ LastPending(k, t)
  \/ NonePending(k) /\ keyList[k] = t
  \/ expirers[<<k, t + back>>] > 0
  \/ <<k, t>> \in stranded

Storing(k) == setter.stage = "store" /\ setter.key = k

\* Every entry with a TTL is known to the expiry under its own expiry
\* instant, wherever that knowledge is at the moment: in the channel, in the
\* receiver's hand, in keyList or with a goroutine that will wake in time.
\* Excepted are an entry that is being overwritten, as its successor's event
\* is already out, and one whose goroutine was asleep when the wall clock was
\* set back: it wakes before the expiry and nobody comes again.
NoKeyForgotten ==
  \A k \in Keys :
    entries[k] \in Instants /\ ~Storing(k) => Tracked(k, entries[k])

\* A step that makes an entry disappear is a del, or comes after the entry's
\* own expiry: an expirer that slept for an older set of the same key leaves
\* a newer entry alone.
LiveEntryKept ==
  [][\A k \in Keys :
       /\ entries[k] # Absent /\ entries'[k] = Absent
       /\ ~Del(k)
       => entries[k] # NoTTL /\ entries[k] <= now]_vars

\* An entry that reaches its expiry is removed or replaced without anyone
\* calling get: the scan and the sleeping goroutine see to it, also after the
\* wall clock was set back, unless the goroutine was already asleep then.
ExpiredKeysRemoved ==
  \A k \in Keys, t \in Instants :
    (entries[k] = t /\ now >= t) ~> (entries[k] # t \/ <<k, t>> \in stranded)

\* A caller that blocks on the full channel while it holds the cache's mutex
\* is let go: the receiver never needs that mutex.
SetReturns == (setter # Idle) ~> (setter = Idle)

\* main_test.go:12-17: once the time to live has passed, get finds nothing.
GetMissesAfterTTL ==
  \A k \in Keys : entries[k] \in Instants /\ entries[k] <= now => ~Hit(k)
=============================================================================
