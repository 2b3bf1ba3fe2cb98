----------------------------- MODULE Snowflake ------------------------------
(***************************************************************************)
(* The generators whose ids are made of a millisecond, a data centre, a    *)
(* machine and a number within the millisecond:                            *)
(*   "lock"    UIDGenLock of LeetCode/psDesign.go                          *)
(*   "unique"  UniqueGenerator of LeetCode/pureStorageDesign.go            *)
(*   "atomic"  UIDGenAtomic of LeetCode/psDesign.go                        *)
(*   "state"   AtomicIDGenerator of LeetCode/pureStorageDesign2.go         *)
(* The first two work under a mutex, the others compare and swap a word    *)
(* that packs the millisecond and the number.  A behaviour has generators  *)
(* of one kind only.  Time is wall clock time since epoch: it runs on by   *)
(* itself, and is set back now and then.                                   *)
(***************************************************************************)
EXTENDS Integers, Sequences

CONSTANTS
  Kinds,
  Gens, Callers, GenOf,   \* every caller calls one generator
  dc, mac,                \* the data centre and machine of each generator
  MaxDc, MaxMac, maxseq,  \* the largest values their fields hold
  CallsOf,                \* bound: how often each caller calls
  MaxClock, MaxSkews      \* bounds on the clock and on how often it is set back

ASSUME SnowflakeAssumption ==
  /\ Kinds \subseteq {"lock", "unique", "atomic", "state"}
  /\ GenOf \in [Callers -> Gens] /\ CallsOf \in [Callers -> Nat]
  /\ {MaxDc, MaxMac, maxseq, MaxClock, MaxSkews} \subseteq Nat
  /\ dc \in [Gens -> 0 .. MaxDc] /\ mac \in [Gens -> 0 .. MaxMac]
  /\ \A g, h \in Gens : dc[g] = dc[h] /\ mac[g] = mac[h] => g = h

VARIABLES
  kind,
  clock, skews,
  last, seq,     \* of each generator; one atomic word if it has no mutex
  pc,
  now, old,      \* locals of a call: the time and the word it has read
  calls, got,    \* of each caller: its calls, and the ids they returned
  rewound        \* history: generators whose waitNextMS returned an earlier time
vars == <<kind, clock, skews, last, seq, pc, now, old, calls, got, rewound>>

Locking == kind \in {"lock", "unique"}
Nothing == <<0, 0>>   \* old, when it is not in use

Init ==
  /\ kind \in Kinds
  /\ clock = 1 /\ skews = 0
  /\ last = [g \in Gens |-> IF kind = "unique" THEN -1 ELSE 0]
  /\ seq = [g \in Gens |-> 0]
  /\ pc = [c \in Callers |-> "idle"]
  /\ now = [c \in Callers |-> 0] /\ old = [c \in Callers |-> Nothing]
  /\ calls = [c \in Callers |-> 0] /\ got = [c \in Callers |-> <<>>]
  /\ rewound = {}
-----------------------------------------------------------------------------
(* Time                                                                    *)

\* Time must run on as long as a generator is ahead of it; past MaxClock it
\* does so for no other reason.
Tick ==
  /\ clock < MaxClock \/ \E g \in Gens : clock <= last[g]
  /\ clock' = clock + 1
  /\ UNCHANGED <<kind, skews, last, seq, pc, now, old, calls, got, rewound>>

SetBack ==
  /\ skews < MaxSkews
  /\ \E t \in 1 .. (clock - 1) : clock' = t
  /\ skews' = skews + 1
  /\ UNCHANGED <<kind, last, seq, pc, now, old, calls, got, rewound>>
-----------------------------------------------------------------------------
(* Calls                                                                   *)

\* The shifts and bitwise ors: all fields fit, so that or is addition.
ID(g, t, s) ==
  ((t * (MaxDc + 1) + dc[g]) * (MaxMac + 1) + mac[g]) * (maxseq + 1) + s

Goto(c, where) == pc' = [pc EXCEPT ![c] = where]

Call(c) ==
  /\ pc[c] = "idle" /\ calls[c] < CallsOf[c]
  /\ calls' = [calls EXCEPT ![c] = @ + 1]
  /\ Goto(c, "called")
  /\ UNCHANGED <<kind, clock, skews, last, seq, now, old, got, rewound>>

\* Remember time t and number s, and return their id.
Issue(c, t, s) ==
  /\ last' = [last EXCEPT ![GenOf[c]] = t]
  /\ seq' = [seq EXCEPT ![GenOf[c]] = s]
  /\ got' = [got EXCEPT ![c] = Append(@, ID(GenOf[c], t, s))]
  /\ now' = [now EXCEPT ![c] = 0] /\ old' = [old EXCEPT ![c] = Nothing]
  /\ Goto(c, "idle")
-----------------------------------------------------------------------------
(* With a mutex, which callers at "locked" and "wait" hold                 *)

Enter(c) ==
  /\ Locking /\ pc[c] = "called"
  /\ \A d \in Callers : GenOf[d] = GenOf[c] => pc[d] \notin {"locked", "wait"}
  /\ Goto(c, "locked")
  /\ UNCHANGED <<kind, clock, skews, last, seq, now, old, calls, got, rewound>>

\* A full millisecond in which the number starts again without waiting.
FullNever(g) == FALSE

Full(g) == seq[g] = maxseq

\* The clock is behind the generator: the call returns -1.
Refuse(c) ==
  /\ Locking /\ pc[c] = "locked" /\ clock < last[GenOf[c]]
  /\ Goto(c, "idle")
  /\ UNCHANGED <<kind, clock, skews, last, seq, now, old, calls, got, rewound>>

Stamp(c) ==
  LET g == GenOf[c] IN
  /\ Locking /\ pc[c] = "locked"
  /\ \/ clock > last[g] /\ Issue(c, clock, 0)
     \/ clock = last[g] /\ ~Full(g) /\ Issue(c, clock, seq[g] + 1)
  /\ UNCHANGED <<kind, clock, skews, calls, rewound>>

\* UIDGenLock has counted beyond the last number before it waits.
StartWait(c) ==
  LET g == GenOf[c] IN
  /\ Locking /\ pc[c] = "locked" /\ clock = last[g] /\ Full(g)
  /\ seq' = [seq EXCEPT ![g] = IF kind = "lock" THEN @ + 1 ELSE @]
  /\ now' = [now EXCEPT ![c] = clock]
  /\ Goto(c, "wait")
  /\ UNCHANGED <<kind, clock, skews, last, old, calls, got, rewound>>

\* The loop of UniqueGenerator in UIDGenLock too.
WaitInverted(c) == clock < now[c]

\* waitNextMS: UIDGenLock's loops while the time is not later, that of
\* UniqueGenerator while the time is not earlier.
WaitOver(c) == IF kind = "lock" THEN clock > now[c] ELSE clock < now[c]

EndWait(c) ==
  /\ pc[c] = "wait" /\ WaitOver(c)
  /\ Issue(c, clock, 0)
  /\ rewound' = IF clock < now[c] THEN rewound \union {GenOf[c]} ELSE rewound
  /\ UNCHANGED <<kind, clock, skews, calls>>
-----------------------------------------------------------------------------
(* With an atomic word                                                     *)

Word(g) == <<last[g], seq[g]>>

\* The first read of an attempt: the word in UIDGenAtomic, the clock in
\* AtomicIDGenerator.
ReadFirst(c) ==
  /\ ~Locking /\ pc[c] = "called"
  /\ \/ kind = "atomic" /\ old' = [old EXCEPT ![c] = Word(GenOf[c])] /\ UNCHANGED now
     \/ kind = "state" /\ now' = [now EXCEPT ![c] = clock] /\ UNCHANGED old
  /\ Goto(c, "half")
  /\ UNCHANGED <<kind, clock, skews, last, seq, calls, got, rewound>>

\* Time t lets a call go on from word w; otherwise it starts again.
UsableBackwards(t, w) == t # w[1] \/ w[2] < maxseq

Usable(t, w) == t > w[1] \/ (t = w[1] /\ w[2] < maxseq)

\* The second read and what follows from the two.
ReadSecond(c) ==
  LET t == IF kind = "atomic" THEN clock ELSE now[c]
      w == IF kind = "atomic" THEN old[c] ELSE Word(GenOf[c])
  IN
  /\ pc[c] = "half"
  /\ \/ /\ Usable(t, w)
        /\ now' = [now EXCEPT ![c] = t] /\ old' = [old EXCEPT ![c] = w]
        /\ Goto(c, "swap")
     \/ /\ ~Usable(t, w)
        /\ now' = [now EXCEPT ![c] = 0] /\ old' = [old EXCEPT ![c] = Nothing]
        /\ Goto(c, "called")
  /\ UNCHANGED <<kind, clock, skews, last, seq, calls, got, rewound>>

\* A store that does not compare.
UnmovedAlways(c) == TRUE

Unmoved(c) == Word(GenOf[c]) = old[c]

\* CompareAndSwap.
Swap(c) ==
  /\ pc[c] = "swap"
  /\ \/ /\ Unmoved(c)
        /\ Issue(c, now[c], IF now[c] = old[c][1] THEN old[c][2] + 1 ELSE 0)
     \/ /\ ~Unmoved(c)
        /\ now' = [now EXCEPT ![c] = 0] /\ old' = [old EXCEPT ![c] = Nothing]
        /\ Goto(c, "called")
        /\ UNCHANGED <<last, seq, got>>
  /\ UNCHANGED <<kind, clock, skews, calls, rewound>>
-----------------------------------------------------------------------------
Step(c) ==
  \/ Enter(c) \/ Refuse(c) \/ Stamp(c) \/ StartWait(c) \/ EndWait(c)
  \/ ReadFirst(c) \/ ReadSecond(c) \/ Swap(c)

Next == Tick \/ SetBack \/ \E c \in Callers : Call(c) \/ Step(c)

Spec == Init /\ [][Next]_vars

\* Goroutines run on, time passes, and a goroutine that waits for a mutex gets
\* it: sync.Mutex hands over to the one that has waited for a millisecond.
FairSpec ==
  /\ Spec
  /\ WF_vars(Tick)
  /\ \A c \in Callers : WF_vars(Step(c)) /\ SF_vars(Enter(c))
-----------------------------------------------------------------------------
\* Every call returns, with an id or with -1, except that a call of
\* UniqueGenerator may be held up by one that is in waitNextMS.
HeldUp(c) ==
  kind = "unique" /\ \E d \in Callers : GenOf[d] = GenOf[c] /\ pc[d] = "wait"
CallsReturn ==
  \A c \in Callers : pc[c] # "idle" ~> pc[c] = "idle" \/ HeldUp(c)

\* Whatever the clock does, no id is returned twice, on one machine or on two:
\* three of the generators implement FreshIDs.
Fresh == INSTANCE FreshIDs WITH
  got <- IF kind = "unique" THEN [c \in Callers |-> <<>>] ELSE got
ImplementsFreshIDs == Fresh!Spec

\* The ids of UniqueGenerator are distinct until its waitNextMS has returned,
\* which it does with an earlier time only.
UniqueUntilRewound ==
  kind = "unique" =>
    \A c, d \in Callers : \A i \in 1 .. Len(got[c]), j \in 1 .. Len(got[d]) :
      got[c][i] = got[d][j] => (c = d /\ i = j) \/ GenOf[c] \in rewound

\* A generator never goes back to a time or a number it has left, even when
\* the clock does; so a word it compares with cannot have been left and
\* reached again.
StateAdvances ==
  [][\A g \in Gens :
       \/ last'[g] > last[g]
       \/ last'[g] = last[g] /\ seq'[g] >= seq[g]
       \/ g \in rewound']_vars

TypeOK ==
  /\ kind \in Kinds /\ clock \in Nat /\ skews \in 0 .. MaxSkews
  /\ last \in [Gens -> Int] /\ seq \in [Gens -> 0 .. maxseq + 1]
  /\ \A g \in Gens : seq[g] > maxseq => \E c \in Callers : GenOf[c] = g /\ pc[c] = "wait"
  /\ pc \in [Callers -> {"idle", "called", "locked", "wait", "half", "swap"}]
  /\ now \in [Callers -> Nat] /\ old \in [Callers -> Nat \X (0 .. maxseq)]
  /\ calls \in [Callers -> Nat] /\ \A c \in Callers : calls[c] <= CallsOf[c]
  /\ got \in [Callers -> Seq(Nat)] /\ rewound \subseteq Gens
=============================================================================
