# TLA+ specifications of GolangMachineCoding

The repository is a collection of small Go programs: an expiring cache, a
token-bucket rate limiter, designs of one-shot events, reader-writer locks and
id generators, classic synchronisation exercises and channel patterns. What
they have in common is that they are concurrent, and that their tests and
`main` functions run each of them along one or two schedules. The modules here
model the programs action by action; TLC checks them on small instances in
every interleaving, and TLAPS proves the central invariants for all instances.

## 1. Inventory

`LC/` stands for `src/LeetCode/`.

| Component | State | Operations | What is hard about it |
|---|---|---|---|
| **Expiring cache**, `cachemgr/main.go` | map of entries behind `c.m`; a channel of update events; `keyList` of the expiry goroutine; one sleeping goroutine for each key that is about to expire; two clocks, as expiries are instants of the wall clock and sleeps are not | `set`, `get`, `getttl`, `del`, `expireKey`, `RecvUpdateEvt`, `CheckExpiry` | `set` sends on a bounded channel while it holds the mutex; the event is out before the entry is stored; goroutines sleep for entries that have been replaced, and by a clock that does not follow the wall clock when it is set back |
| **Rate limiter**, `ratelimiter/main.go` | map from client to bucket behind `rl.m`; counter of each bucket behind `tb.m`; a refill goroutine for each bucket | `GetBucket`, `RemoveClient`, `allow`, `refill`, `close` | removal races with use and with refills; a holder may close its bucket without telling the limiter; goroutines must not leak |
| **One-shot event**, `LC/pureStorage5.go` (asynchronous executor, and one for a single thread), `LC/purestorage_final.go` (synchronous) | atomic flag, list of callbacks behind a mutex; two WaitGroups of the simulation | `RegisterCallback`/`regcb`, `Fire`/`evtfire`, `simulateMultiThreaded` | double-checked flag; a callback must not get lost between the list and immediate execution, nor be run twice; callbacks may call the event; a WaitGroup must not be waited for while an `Add` may come |
| **Event designs**, `LC/purestorage_ques.go` (prose with pseudo-code) | flag and list, behind a mutex or in one word | `RegisterCallback`, `Fire` in three versions | the first look without the mutex; compare-and-swap of flag and list together |
| **Priority locks**, `LC/pureStorage.go` (`sync.RWMutex`), `LC/pureStorage2.go` (flag), `LC/pureStorage3.go` (flag and goroutine ids), `LC/pureStorage4.go` (counts and ids) | mutex and condition; readers, waiting writers, ids of readers | `RLock`, `RUnlock`, `Lock`, `Unlock` around `regCb` and `execEvents` | lost wakeups, reentrance, exclusion by counts when the mutex is given up |
| **Timestamp ids**, `LC/psDesign.go`, `pureStorageDesign.go`, `pureStorageDesign2.go` | last millisecond and number in it, behind a mutex or in one atomic word | `NextID`/`nextId`, `waitNextMS` | clock set back, number overflow, compare-and-swap loops |
| **Block ids**, `LC/psDesign.go`, `pureStorageDesign3.go` | global sequence; the block of each generator | `createUIDGenBlock`, `NextID`, `allocateBlock` | check and addition are two steps; the new block's start is stored over an addition that came in between |
| **Buffered ids**, `LC/pureStorageDesignFinal.go` (single buffer, double buffer, worker) | source of ids, buffers, bounded queue, condition, context | `GetOneID`, `refill`, `fillStandbyAsync`, `producer`, `Close` | fetching outside the mutex, failing source, `Close` at any moment |
| **One-step ids**, same file | counter, ranges of machines, set of used numbers | `GetOneID`, `GetIDs` | none: each call is one critical section |
| **Monitors**, `LC/1117`, `1188`, `1195` | counters or a queue, mutex and one condition | `Hydrogen`, `Oxygen`; `Enqueue`, `Dequeue`; four printers | one condition for several kinds of waiters |
| **Turn-taking printers**, `LC/1114`, `1115`, `1116` | unbuffered channels, wait group | one goroutine for each part of the output | the last hand-over; wait group against print |
| **Channel patterns**, `pattern/*` | channels, context, wait groups | pipelines, fan-in and fan-out, tee, bridge, cancellation | who closes what and when; goroutines left behind |
| `pattern/boundedQueue`, tests | | | not modelled, see section 8 |

The programs do not call one another: they are separate `main` packages. Within
a program the components interact through shared memory under a mutex, through
channels, and by starting goroutines. The interactions worth composing are
those of the cache with its expiry goroutines (one module, because they share
the channel and the mutex), of a bucket with the limiter's map, and of the
buffering generators with their source.

What makes each of them correct:

* cache: the expiry never loses sight of an entry with a TTL; a live entry goes
  by `del` alone; an expired one goes without anyone calling `get`; `set` is
  never stuck on the full channel;
* limiter: a bucket keeps to its rate and burst; a client has one open bucket;
  a bucket handed out is refilled; every refill goroutine ends;
* event: a registered callback is in exactly one place until it is started,
  and is started once; calls return whatever the callbacks do;
* locks: callbacks and events exclude one another, events go first, everybody
  is served;
* ids: no id twice, whatever the clock, the source and `Close` do; calls return;
* monitors and channels: the right output in the right order, nobody asleep who
  could go on, no goroutine left behind, no panic.

The places where each of these could break are listed with their lines in
`PROJECT.json` under `hazards`.

## 2. Modules

| Module | Models | Correspondence |
|---|---|---|
| `Cache` | `cachemgr/main.go` | an entry is its expiry instant, as no operation looks at the value. `set` with a TTL is three actions (take `c.m`, send, store) because it may block in between; `updateChan`, `inHand`, `keyList` and `expirers` are the four places an expiry can be; `Pass` moves both clocks and `Rewind` sets the wall clock back: `now` is what `time.Now().UnixMilli()` shows and `now + back` what tickers and sleeps go by |
| `RateLimiter`, `MCRateLimiter` | `ratelimiter/main.go` | one action for each critical section of `rl.m` and `tb.m`; a bucket is named after the thread that would create it; `ticked` is the ticker's channel of one place; a thread of `Closers` ends by closing its bucket, as the tests do, and the others by `RemoveClient` |
| `OneShot` | abstract | what a one-shot event promises: waiting, due, done |
| `MultiThreadedEvent` | `pureStorage5.go` | the fast path's load, the lock, the second check, the two halves of `Fire`; an executor goroutine is an element of `tasks` |
| `EventSimulation`, `MCEventSimulation` | `simulateMultiThreaded` | main, the goroutines it starts and the WaitGroups, around the actions of `MultiThreadedEvent` |
| `SingleThreadedEvent` | the event for one thread, in `pureStorage5.go` and `purestorage_ques.go` | a stack of calls, each with the callbacks it has left to run, because a callback may register and fire |
| `MultiThread` | `purestorage_final.go` | as `MultiThreadedEvent`, but a call runs its callbacks itself, and `evtfire` has no second check |
| `EventDesigns` | three designs of `purestorage_ques.go` | a critical section or a compare-and-swap is one action; the looks before it are others |
| `EventDemos` | all events but `MultiThreadedEvent` | a behaviour runs one of them |
| `UIDGenBlock`, `MCUIDGenBlock` | `psDesign.go` | `Check` under the mutex, `Allocate` under the mutex, `Add` after it |
| `BlockGenerator` | `pureStorageDesign3.go` | `Look`, `Store` and `Move` are the three accesses under the mutex, since `Add` does not take it and may come in between |
| `BlockDemos`, `MCBlockDemos` | both block generators | a behaviour runs one of them |
| `FreshIDs` | abstract | a successful call returns an id that has not been returned before |
| `Snowflake`, `MCSnowflake` | four timestamp generators | `kind` tells which; for the atomic ones the two reads and the swap are steps, in the order each has them |
| `IDPool` | `AtomicIDSource` | the source of the buffers, which may fail; it holds what the three buffered generators share |
| `SingleBuffer`, `DoubleBuffer`, `WorkerGenerator`, `RangeGenerators` | the generators of `pureStorageDesignFinal.go` | one action for each critical section, one for each call of the source outside it |
| `PoolDemos`, `MCPoolDemos` | that file as a whole | a behaviour runs one of the generators; each is an `INSTANCE` over shared variables |
| `PriorityLock` | the four locks | a section under `mu` is an action; "waiting" is in `cond.Wait`, "woken" has left it and wants `mu` |
| `H2O`, `BlockingQueue`, `FizzBuzz` | `LC/1117`, `1188`, `1195` | likewise; FizzBuzz keeps `holder`, because its mutex outlives a call |
| `MonitorDemos`, `MCMonitorDemos` | the monitors together | a behaviour runs one of them |
| `ChannelNetwork` | goroutines and unbuffered channels | one set of actions (emit, transfer, end of input, handle, check, abandon, end) for goroutines described by records; `NetworkAssumption` says what the descriptions are, and `Unlimited` stands for "until the channel is closed" |
| `ChannelPatterns` | twelve programs of `pattern/`, three of `LC/` | each program is a function from goroutines to descriptions; those that the code writes for any number of workers, jobs, values or rounds (`Pipeline`, `FanIn`, `FanOut`, `WorkerPool`, `FooBar`, `ZeroEvenOdd`) take them as parameters |
| `CacheProofs`, `RateLimiterProofs`, `EventProofs`, `BlockProofs`, `SnowflakeProofs`, `PoolProofs`, `MonitorProofs`, `ChannelProofs` | | the theorems of section 6; each extends the module it is about, for the compositions the demonstration as a whole |

Two abstract specifications are implemented by several programs: `OneShot` by
every event and `FreshIDs` by three timestamp generators and by every generator
of `pureStorageDesignFinal.go`. The refinement mappings are `statusOf` (in each
of the event modules) and `got`, the ids each caller has been given.

Data are abstract throughout: payloads, texts and log formats are left out, a
time unit is any number of milliseconds, an id of a timestamp generator is a
number composed of its fields with constants for their widths.

## 3. Runs

| Run | Question | Instance |
|---|---|---|
| `cache` | does the expiry keep up with sets, in every order, and with a wall clock that is set back? | 2 keys, 3 sets, TTL none or 2, scan period 2, channel of 1, clock to 4, set back by 1 |
| `cache_boundary` | does `get` miss as soon as the TTL has passed, as `main_test.go` expects? **No**: in that very millisecond it hits | 1 key, 1 set |
| `ratelimiter` | do the bounds of a bucket and of the map hold while a client is removed, or its bucket closed? | 3 threads, 2 for one client of which one closes, 2 tokens, 2 ticks |
| `ratelimiter_remove` | is concurrent use free of panics, as `main_test.go` says? **No**: the second `RemoveClient` of a client closes a nil bucket | 2 threads, 1 client |
| `event` | is every step one of the abstract event? do calls return even if no callback does? does `main` wait for all callbacks, and no longer? | 4 registrations, 2 of them by one goroutine, 2 calls of `Fire` |
| `multithread` | do the other events implement `OneShot` with its fairness: the synchronous one, where two calls of `evtfire` may both detach, the single-threaded one, the designs? | 3 callbacks, 2 calls of `Fire` |
| `block_safe` | are ids unique when a shared generator stays in its first block, as in `main`, and others have one caller? when does `BlockGenerator` repeat a number? | 4 threads, 3 generators, blocks of 2; 6 calls of `BlockGenerator` |
| `block_shared` | are they unique when callers share a generator across a block's end? **No** | 3 threads, 1 generator |
| `snowflake` | are timestamp ids unique, and do calls return, when the clock is set back? | 2 machines, 3 callers, numbers of one bit |
| `pools` | are buffered ids unique and complete, do calls and `Close` return? | 3 callers, batches of 2 and 4, queue of 1, one failure |
| `monitors` | exclusion, priority, wakeups, order and progress of the monitors | 3 users (two with one id, one that nests), 2 events; 4 hydrogen and 2 oxygen; 2 producers and 2 consumers; numbers to 16 |
| `channels` | right logs, no panic, no goroutine left behind | 15 programs with 2 to 4 values each |

The three runs that end in a violation are the disagreements between code and
documentation that the modelling met; `PROJECT.json` quotes the lines under
`findings`.

### Bounds, and why they are enough

* `cache`: three sets of two keys are needed for an older event of a key to
  wait in the channel, another in the receiver's hand and a third to replace
  the entry; four instants hold two scan periods and the TTL. A channel of one
  place is full after one event, so that `set` blocks. The clock is set back
  once, by one: an expirer that was asleep then wakes one before the expiry, and
  a scan that comes later works with the clock that is behind.
* `ratelimiter`: two threads for one client is the smallest case in which a
  bucket is shared and removed under another's feet; the third has its own.
  One of the two closes the bucket while the other uses or
  removes it. Two ticks suffice to refill beyond the capacity.
* `event`, `multithread`: the hazards involve one registration and one or two
  calls of `Fire`; the third callback lets one be early, one late and one in
  between, and the fourth gives a goroutine of the simulation two callbacks to
  register, with two calls of `Add`, between which others can come.
* `block_*`: blocks of two with five calls go through three blocks. With six
  concurrent calls of `BlockGenerator` the first overtaking can happen at the
  end of any of three blocks, and calls remain to return what it does.
* `snowflake`: one bit for the number makes it overflow on the third id of a
  millisecond; the machines differ in the bit next to it, so that an overflow
  would make the id of the other machine. The clock is set back once, by any
  amount; past `MaxClock` it goes on only while a generator is ahead of it.
* `pools`: a batch is used up by two calls, so that three callers with five
  calls meet two refills, and the failure can come in any of them.
* `monitors`: for the flag's lost wakeup two events and one user are needed,
  for the id maps two users of one id and one who nests. Sixteen numbers hold
  the first "fizzbuzz" and the one after it.
* `channels`: two or three values reach every branch of the programs (for 1116
  four, because of its two kinds of numbers).

Deadlock is checked in the two cache runs only, where ticks and scans go on
after the clock has reached its bound. The other programs end, and their
specifications bound the calls, so that a state without successors is the
normal end. There
`CallsReturn`, `RequestsServed` and `EverybodyEnds` say what must not be left
undone.

## 4. Fairness

* Goroutines are scheduled: weak fairness of the steps a goroutine can take by
  itself. Go's scheduler is preemptive, so no goroutine that can run is passed
  over for ever.
* A mutex is handed on: strong fairness of the step that takes it, where calls
  can compete for ever (`Cache` for `expireKey`, `Snowflake`).
  `sync.Mutex` gives itself to a goroutine that has waited for a millisecond.
* A `select` chooses at random among ready cases: strong fairness of receiving
  in `WorkerGenerator`, which competes with a timer.
* `PriorityLock`, the monitors, the events and the channel programs have finite
  behaviours, so weak fairness of the program as a whole is enough: something
  happens as long as anything can. In the single-threaded event only `Return`
  is fair: nobody has to register or fire.
* Nothing is assumed of callbacks in `event`: `CallsReturn` holds without.
  That `main` comes to its end, and not before every callback has run
  (`CallbacksAwaited`), has the executor's fairness as its hypothesis.
* Callers of the cache and of `BlockGenerator` owe nothing; neither does the
  clock that is set back.

## 5. Exceptions the properties state

Some programs do not do all one could wish for. Where no text of the
repository promises it, the property says exactly what is excepted, and holds
of everything else:

* An entry of the cache whose expirer was asleep when the wall clock was set
  back stays until the next `get` (`stranded` in `NoKeyForgotten` and
  `ExpiredKeysRemoved`): that goroutine comes too early, and it comes once.
* The limiter goes on handing out a bucket that its holder has closed
  (`ClosedByHolder` in `MapMatchesBuckets`), which is refilled no more.
* `BlockGenerator` repeats a number if and only if an `Add` comes in between
  another call's look at `next` and its `Store` (`RepeatsIffOvertaken`); its
  comment calls its thread safety "Atomic/local", and its `main` is sequential.
* `UniqueGenerator.waitNextMS` (`LC/pureStorageDesign.go:72`) loops while the
  time is *not earlier* than the full millisecond, and so returns only when the
  clock is set back; `CallsReturn` and `UniqueUntilRewound` except that.
* The two flag locks forget an event when another event's `Unlock` resets the
  flag and a user comes in first (`RequestsServed`, `Forgotten`). The `main` of
  `pureStorage2.go` starts one event only.
* `pureStorage3.go` never enters a goroutine's first `RLock` in its id map, so
  that a callback that calls `regCb` waits for the event that waits for it
  (`Entangled`).
* The counting lock lets events overlap, as its `Lock` gives `mu` up, and lets a
  user past an event under an id that another user waits with (`KeptApart`).
* `WorkerGenerator` drops the rest of a batch when two callers install one each
  (`FillsApart` is about the two buffers only), and its calls go on polling
  when the producer has given up (`CallsReturn`).
* `pattern/orDone` may close `done` twice and leave its producer behind;
  `pattern/firstResponder` may send on the channel `main` has closed
  (`EverybodyEnds`).
* 1116 may end before its last number is printed (`LogsFollowResults`), and
  1195 returns with its mutex held once everything is printed.

## 6. Proofs

| Theorem | States | Rests on |
|---|---|---|
| `CacheProofs!TypeCorrect` | types, and the channel within its capacity | `CacheAssumption` |
| `CacheProofs!NoKeyIsForgotten` | `NoKeyForgotten` | with `StoreTracked`: the expiry a caller is about to store is already tracked. `NoKeyForgotten` alone is not inductive, since `SetStore` makes an entry of what has only been sent. When the clock is set back, what the sleeping goroutines tracked moves to `stranded` |
| `CacheProofs!LiveEntriesAreKept` | `LiveEntryKept` | type invariant, by cases on the step |
| `RateLimiterProofs!TypeCorrect` | types; the counter within 0..InitToken | `LimiterAssumption` |
| `RateLimiterProofs!RateIsBounded` | `RateBound` | `RateInv`: what is granted, in the bucket and in a waiting tick together is at most the initial tokens and those of the periods that have passed |
| `RateLimiterProofs!BurstIsBounded` | `BurstBound` | `BurstInv`: the burst and the counter together are at most a full bucket |
| `RateLimiterProofs!MapIsConsistent` | `MapMatchesBuckets` | `MapInv`: every open bucket is registered, and what is registered is open or closed by its holder; `StaysClosed`: a holder is done once it has closed |
| `RateLimiterProofs!NoPanicWithOwnClients` | `NoPanic`, if every thread has its own client, as in `main` | `OwnInv`: a thread's bucket is registered until it removes it |
| `EventProofs!TypeCorrect`, `NoCallbackLost`, `NobodyStraggles` | `TypeOK`, `OnePlace`, `NoStragglers` | `IInv`: with `LockInv` (who is inside holds the mutex, who detaches has fired) and `ListInv` (the list of a fired event is empty unless someone is about to detach it) |
| `EventProofs!RefinesOneShot` | `ImplementsOneShot` | `IInv`, by cases on the step: register, fire, run or a stutter |
| `EventProofs!MultiThreadRefinesOneShot`, `DesignsRefineOneShot`, `SingleThreadedRefinesOneShot` | the safety part of `ImplementsOneShot` for the other five events | `ThreadInv` and `DesignInv`: as `IInv`, and what a thread has seen fired has fired; `SingleInv`: a callback has one place, in the list or in one call of the stack, and there is no call on the stack before the event fires |
| `BlockProofs!TypeCorrect` | `TypeOK` of `UIDGenBlock`; no block beyond the sequence | `GeneratorAssumption` |
| `BlockProofs!SafelyUsedIDsAreUnique`, `SafelyUsedCheckHolds` | `UniqueIDs` and `CheckStillHolds`, under `SafeUse` | `FreeInv`: what is left of a block overlaps no other block and contains no id issued; `CountInv`: a generator whose first block is enough has handed out as many numbers as it was called |
| `BlockProofs!RepeatsWhenOvertaken` | `RepeatsIffOvertaken` | `InStep`: up to the first overtaking, the numbers returned are those up to `next`. `Doomed`: from then on a number has come twice, or `next` is, or will be set, right before a number that was returned while somebody is still to add to it. `Mutex` gives that nobody else moves the block meanwhile |
| `SnowflakeProofs!TypeCorrect` | `TypeOK` | `LockInv`: one caller of a generator holds its mutex, it waits for a time the generator has stored, and an exchange would move the word on |
| `SnowflakeProofs!UniqueGeneratorIsUnique` | `UniqueUntilRewound` | `PastInv`: every id was made of a time and a number that its generator has reached or passed. `DistinctInv`, what is to be shown, is not inductive without: a new id differs from the others because it lies ahead |
| `SnowflakeProofs!GeneratorsAdvance` | `StateAdvances` | `LockInv`, by cases on the step |
| `SnowflakeProofs!RefinesFreshIDs` | `ImplementsFreshIDs` | the same invariant, in which the generators other than `UniqueGenerator` are never rewound |
| `PoolProofs!TypesCorrect` | `TypeOK` of all four demonstrations | `IInv` |
| `PoolProofs!OneFetchesAtATime` | `FillsApart`: one goroutine fetches, finds room, and no id is skipped | `SingleInv` and `DoubleInv`, with `Covers` |
| `PoolProofs!RefinesFreshIDs` | `ImplementsFreshIDs` | `Stock` for the buffers and the queue, `RangesInv` for the others |
| `PoolProofs!SourceQuietAfterClose` | `QuietAfterClose` | `WorkerControl`: when `Close` has returned the producer has gone |
| `MonitorProofs!TypesCorrect` | `AllTypesOK`, with `ReadersCounted` of the locks | `ReaderInv`, `IdInv`, `EventInv`: the counts are the sizes of sets of calls; `StepsApart`: a step of one monitor changes no other |
| `MonitorProofs!CallbacksAndEventsApart` | `KeptApart` | `ApartInv`, which says it of users too that are in but sleep in a nested call |
| `MonitorProofs!WaitingEventsGoFirst` | `EventsGoFirst` | `EventInv` (an event that waits is counted) and `IdInv` (an id the lock knows is that of a call) |
| `MonitorProofs!NobodyOversleeps` | `NoLostWakeup` of 1117 and 1188 | it is inductive with the types, as every change is followed by a `Broadcast` |
| `ChannelProofs!TypesCorrect` | `TypeOK` of `ChannelNetwork`, for every network | `Types`: besides, who receives has nothing in hand, and what is still open is among the channels of the description |
| `ChannelProofs!DisciplinedNeverPanics` | no send on a closed channel and no second close, in every network that is `Disciplined` | `NetworkInv`: what is still to be sent goes to channels of the description (`OutsInv`); a channel is closed only if its closer has ended, and who has ended had waited for whom it awaits (`CloseInv`) |
| `ChannelProofs!NothingIsLeftBehind` | in such a network, while nothing is cancelled, who has ended has sent everything and has had everything | `ReceivedInv`: a channel is given up only when it is closed |
| `ChannelProofs!SourcesAndSinksDeliver`, `FanInDelivers`, `FanOutDelivers`, `WorkerPoolDelivers` | `LogsFollowResults` for any workers, consumers and lists of different values | `DeliveryInv`: every value is in one place, ahead of its source, in hand of a sink or in the log (`OnePlace`) |
| `ChannelProofs!PipelineDelivers` | `LogsFollowResults` of `pipeline`, for any list of numbers | `PipelineCounts`: a stage has had what the one before it has passed on; `PipelineHands`: what it has in hand is the number of that count |
| `ChannelProofs!FooBarAlternates` | `LogsFollowResults` of 1115 and no panic, for every n | `FooBarTurn`: the turn is at one place, which determines the counts and the length of the log |
| `ChannelProofs!ZeroEvenOddPrints` | `LogsFollowResults` of 1116 and no panic, for every n | `ZeroTurn`, likewise, and that a closed channel means that the last number for it has been taken |
| `MonitorProofs!EverythingInOrder` | `RightOrder` | `WaterLog`: the log is whole molecules and what has bonded since, as `hCount` and `oCount` say; `FirstInFirstOut`: what has come out followed by the queue is what has gone in; `FizzInv`: the numbers printed are those before the next |

Each proof has the shape Init => Inv, Inv and a step => Inv', Inv => property,
with one step for each action; each action property and refinement takes
Inv and a step to the property's step. The assumptions are those named in the
modules that declare the constants: kinds and ranges of the constants, nothing
about their size. TLC evaluates them in every run. Some theorems have a
hypothesis besides, and there it says what the code needs: `NoPanicWithOwnClients`
(a client for each thread, as in `main`), those of `ChannelProofs`, which are
explained below, and the two under `SafeUse`, which says
of every generator of `psDesign.go` that it has one caller (`Alone`) or that all
calls to it together fit into its first block (`OneBlock`). That is how `main`
uses them, and how the run `block_safe` does; `block_shared` shows that the
hypothesis cannot be dropped.

Seven arguments carry most of the weight.

* **Ids in stock** (`PoolProofs`). The ids a generator has fetched and not yet
  given are a family of sequences, indexed by the places they can be in: the
  buffer and each caller's hands, active and standby buffer and the goroutine
  that fills, the worker's queue, producer and callers. `Stock` says that no id
  is in it twice, has been given, or is still to come from the source; `Covers`
  that none is missing. Three lemmas on each tell what becomes of them when a
  batch is fetched, when batches change places or get lost, and when one id is
  taken from the front or the end; the step of a generator is then one of those
  three, and its mapping of places is all that is left to give. `Covers` does
  not survive `Close`, nor two callers of the worker who install a batch each,
  and is not claimed there; `Stock` survives both.
* **Time and number** (`SnowflakeProofs`). `IDInjective` shows that the fields
  of an id are recovered from it for every width, if the number has not
  overrun its field; `AheadIsFresh` that an id made of what lies ahead of the
  generator's state is nobody's yet. What remains for each step is that it
  issues from ahead of the state (`StepCases`).
* **Counting** (`MonitorProofs`, `BlockProofs`). `readerCount`, `idmap` and
  `writerCount` are kept by incrementing and decrementing. The invariants say
  that they are cardinalities of sets of calls, which grow and shrink by one
  element (`BelowGrows`); from a count of zero it then follows that nobody is
  in. The number a generator of `psDesign.go` has reached within its first
  block is likewise the count of the calls to it.
* **Overtaking** (`BlockProofs`): `Doomed` states what makes a repetition
  inevitable once an `Add` has come between a look and a `Store`.
* **Places** (`EventProofs`). What `SingleThreadedEvent` has still to run
  is a stack of lists. `Placed` speaks of positions in it, two lemmas say which
  positions a call adds (`PushPlaces`) and what a return takes away
  (`PopPlaces`), and the status of a callback is stated in these terms
  (`SingleStatus`). A callback that calls `Fire` or registers another while the
  walk goes on then adds a position, and moves none.

* **Who closes** (`ChannelProofs`). `Disciplined` is read off the descriptions:
  each channel has one goroutine that closes it, and whoever else sends on it is
  awaited by that one. Eleven of the fifteen programs are; `orDone` and
  `firstResponder` are not, and may panic; nor are 1115 and 1116, where channels
  are closed by those who received on them. There it takes the turn to see that
  nobody is left to send (`FooBarNoPanic`, `ZeroNoPanic`).
* **Where the values are** (`ChannelProofs`). With several senders or receivers
  the order of the log is open, and the argument is that no value is ever at two
  places or at none; that main's end means a full log then follows from
  `NothingIsLeftBehind`. With one path from source to log it is the counts
  that say which value each goroutine is at.

The theorems on patterns speak of a constant `Programs` that has, under the
name of the pattern, its family with any parameters, as `Patterns` has it with
those of the run, and of a `Results` that lists what there is to log. The
values of `fanIn`, `fanOut` and `workerPool` are assumed different from one
another, so that a repetition would show, as they are in the code, whose texts
name task and worker and whose jobs are numbered; names of workers differ from
those of the other goroutines; there is at least one worker or consumer to
receive; and `Unlimited` is more than there are values, which makes "until the
channel is closed" mean that.

Only model-checked, and why:

* liveness (`CallsReturn`, `RequestsServed`, `ExpiredKeysRemoved`, `SetReturns`,
  `NoGoroutineLeak`, `CallbacksAwaited`, `EverybodyEnds`): it needs fairness and
  ENABLED, which are beyond the prover;
* that what is due gets run, in `ImplementsOneShot` of `EventDemos`: it is the
  fairness of `OneShot`. That every step is one of `OneShot` is proved;
* `LogsFollowResults` of the other patterns. `dynamicSelectDisable`, 1114,
  `bridge` and `tee` are fixed programs with a value or two, which TLC decides.
  `pipelineWithCancel`, `orDone`, `fanInCancelation`, `doneSignal` and
  `firstResponder` cancel, and promise only a prefix or a part of the results;
  `DisciplinedNeverPanics` covers those of them that cannot panic.

## 7. Plan

Done first, because they are the programs with tests and the richest
concurrency: the cache, the limiter and the events; then the id generators;
then locks, monitors and channels. Of the safety properties, those of the cache,
the limiter, the events, all id generators, the locks and the monitors are
proved, and of the channel programs those that the code writes for any number of
workers, values or rounds. What is left:

1. networks that cancel: what is logged is a part of the results, whoever the
   cancellation stops;
2. numbers of 64 bits where they wrap (block sequences, `AtomicIDSource`).

## 8. Not modelled

* `LC/purestorage_ques.go` is prose with pseudo-code, in a file that no compiler
  reads. Its designs for one thread and for several are modelled. The variant of
  its section 5, which catches what a callback throws and goes on with the next,
  takes the steps of `SingleThreadedEvent` whether a callback throws or returns.
  What it says in prose of worker pools, fair mutexes, chains of events and
  cancellation comes without enough of a program to translate.
* `LC/pureStorage3.go` does not compile (`runtime.GoID`, `idmao`). It is modelled
  as if `getgoid` returned the goroutine's id and the field were `idmap`.
* `pattern/boundedQueue` submits three jobs from one goroutine to a channel of
  two places, and so has one behaviour.
* `pattern/pipelineWithCancel` defines a stage `double` that nothing calls.
* The other simulations of `pureStorage5.go` print what happens; the schedules
  they try are among those of the runs `event` and `multithread`.
* Clocks that are set forward, and more than one setting back: a goroutine of the
  cache then wakes late, or is stranded as by the first.
* The contents of entries, messages and logs, and the exact texts printed.
* `main_test.go` of the cache and of the limiter: what they say of the programs
  is quoted where a property or a finding is about it.
