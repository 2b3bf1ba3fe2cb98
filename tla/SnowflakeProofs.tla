--------------------------- MODULE SnowflakeProofs --------------------------
(***************************************************************************)
(* Proofs about Snowflake, for any number of generators and callers, any   *)
(* field sizes and any clock: the generators only move on, their ids are   *)
(* fresh, and UniqueGenerator's are until its clock has been set back in   *)
(* waitNextMS.                                                             *)
(***************************************************************************)
EXTENDS Snowflake, TLAPS

-----------------------------------------------------------------------------
(* Ids                                                                     *)

\* A number and a smaller remainder are recovered from their packing.
LEMMA Unpack ==
  ASSUME NEW B \in Nat, NEW a \in Nat, NEW b \in 0 .. B,
         NEW c \in Nat, NEW d \in 0 .. B,
         a * (B + 1) + b = c * (B + 1) + d
  PROVE  a = c /\ b = d
<1>1. ASSUME NEW m \in Nat, NEW n \in Nat, m < n
      PROVE  n * (B + 1) >= m * (B + 1) + (B + 1)
  <2>1. n - m - 1 \in Nat
    BY <1>1
  <2>2. (n - m - 1) * (B + 1) >= 0
    BY <2>1
  <2>3. (n - m - 1) * (B + 1) = n * (B + 1) - m * (B + 1) - (B + 1)
    BY <2>1
  <2> QED
    BY <2>2, <2>3
<1>2. a * (B + 1) \in Nat /\ c * (B + 1) \in Nat
  OBVIOUS
<1>3. ~(a < c)
  BY <1>1, <1>2
<1>4. ~(c < a)
  BY <1>1, <1>2
<1>5. a = c
  BY <1>3, <1>4
<1> QED
  BY <1>2, <1>5

\* A packing is a natural number.
LEMMA PackType ==
  ASSUME NEW B \in Nat, NEW a \in Nat, NEW b \in 0 .. B
  PROVE  a * (B + 1) + b \in Nat
  OBVIOUS

\* An id is a natural number.
LEMMA IDType ==
  ASSUME NEW g \in Gens, NEW t \in Nat, NEW s \in 0 .. maxseq
  PROVE  ID(g, t, s) \in Nat
<1> USE SnowflakeAssumption
<1>1. t * (MaxDc + 1) + dc[g] \in Nat
  BY PackType
<1>2. (t * (MaxDc + 1) + dc[g]) * (MaxMac + 1) + mac[g] \in Nat
  BY <1>1, PackType
<1> QED
  BY <1>2, PackType DEF ID

\* An id tells the generator, the time and the number it was made of.
LEMMA IDInjective ==
  ASSUME NEW g \in Gens, NEW t \in Nat, NEW s \in 0 .. maxseq,
         NEW h \in Gens, NEW u \in Nat, NEW r \in 0 .. maxseq,
         ID(g, t, s) = ID(h, u, r)
  PROVE  g = h /\ t = u /\ s = r
<1> USE SnowflakeAssumption
<1> DEFINE D(f, x) == x * (MaxDc + 1) + dc[f]
           M(f, x) == D(f, x) * (MaxMac + 1) + mac[f]
<1>0. /\ mac[g] \in 0 .. MaxMac /\ mac[h] \in 0 .. MaxMac /\ MaxMac \in Nat
      /\ dc[g] \in 0 .. MaxDc /\ dc[h] \in 0 .. MaxDc /\ MaxDc \in Nat
  OBVIOUS
<1>1. D(g, t) \in Nat /\ D(h, u) \in Nat
  BY PackType
<1>2. M(g, t) \in Nat /\ M(h, u) \in Nat
  <2> HIDE DEF D
  <2> QED
    BY <1>1, PackType
<1>3. M(g, t) = M(h, u) /\ s = r
  <2>1. M(g, t) * (maxseq + 1) + s = M(h, u) * (maxseq + 1) + r
    BY DEF ID
  <2> HIDE DEF M
  <2> QED
    BY <1>2, <2>1, Unpack
<1>4. D(g, t) = D(h, u) /\ mac[g] = mac[h]
  <2>1. D(g, t) * (MaxMac + 1) + mac[g] = D(h, u) * (MaxMac + 1) + mac[h]
    BY <1>3
  <2> HIDE DEF D
  <2> QED
    BY <1>0, <1>1, <2>1, Unpack
<1>5. t = u /\ dc[g] = dc[h]
  BY <1>0, <1>4, Unpack
<1> QED
  BY <1>3, <1>4, <1>5
-----------------------------------------------------------------------------
(* The inductive invariant                                                 *)

Holds(c) == pc[c] \in {"locked", "wait"}

\* Callers are where their kind of generator takes them, one of a generator's
\* callers holds its mutex, it waits for a time the generator has stored, and
\* an exchange would move the word it was prepared for on.
LockInv ==
  /\ \A c \in Callers : Holds(c) => Locking
  /\ \A c \in Callers : pc[c] \in {"half", "swap"} => ~Locking
  /\ \A c, d \in Callers :
       GenOf[c] = GenOf[d] /\ Holds(c) /\ Holds(d) => c = d
  /\ \A c \in Callers : pc[c] = "wait" => now[c] = last[GenOf[c]]
  /\ \A c \in Callers : pc[c] = "swap" => Usable(now[c], old[c])
  /\ kind # "unique" => last \in [Gens -> Nat] /\ rewound = {}

\* Time t and number s are not beyond what generator g has stored.
Reached(g, t, s) == t < last[g] \/ (t = last[g] /\ s <= seq[g])

\* Every id was made of a time and a number, which its generator has reached
\* unless waitNextMS has taken it back.
Made(c, i) ==
  \E t \in Nat, s \in 0 .. maxseq :
    /\ got[c][i] = ID(GenOf[c], t, s)
    /\ GenOf[c] \in rewound \/ Reached(GenOf[c], t, s)
PastInv == \A c \in Callers : \A i \in 1 .. Len(got[c]) : Made(c, i)

\* Ids are distinct, except those of a generator that has been taken back.
DistinctInv ==
  \A c, d \in Callers : \A i \in 1 .. Len(got[c]), j \in 1 .. Len(got[d]) :
    got[c][i] = got[d][j] => (c = d /\ i = j) \/ GenOf[c] \in rewound

IInv == TypeOK /\ LockInv /\ PastInv /\ DistinctInv
-----------------------------------------------------------------------------
(* Steps                                                                   *)

\* Of the assumption, what the steps need.
LEMMA ConstantTypes == GenOf \in [Callers -> Gens] /\ maxseq \in Nat
  BY SnowflakeAssumption

\* A number that may be issued has not overrun its field.
LEMMA NumberFits ==
  ASSUME TypeOK, LockInv, NEW c \in Callers,
         pc[c] = "locked" \/ ~Locking
  PROVE  seq[GenOf[c]] \in 0 .. maxseq
<1> DEFINE g == GenOf[c]
<1>1. g \in Gens /\ maxseq \in Nat /\ seq[g] \in 0 .. maxseq + 1
  BY SnowflakeAssumption DEF TypeOK
<1>2. ASSUME NEW d \in Callers, GenOf[d] = g, pc[d] = "wait" PROVE FALSE
  BY <1>2 DEF LockInv, Holds
<1>3. ~(seq[g] > maxseq)
  BY <1>1, <1>2 DEF TypeOK
<1> QED
  BY <1>1, <1>3

\* What a step does to the generators and to the ids returned: nothing but
\* count on, or the return of one id whose time and number lie ahead of its
\* generator's, or before them and then the generator counts as taken back.
Quiet ==
  /\ UNCHANGED <<kind, last, got, rewound>>
  /\ \A g \in Gens : seq'[g] >= seq[g]

Ahead(c, t, s) ==
  /\ ~Reached(GenOf[c], t, s)
  /\ UNCHANGED rewound

TakenBack(c, t, s) ==
  /\ kind = "unique"
  /\ rewound' = rewound \union {GenOf[c]}

\* A step returns an id, one its generator had not reached or after taking it
\* back, or it returns none.
LEMMA StepCases ==
  ASSUME TypeOK, LockInv, [Next]_vars
  PROVE  \/ Quiet
         \/ \E c \in Callers, t \in Nat, s \in 0 .. maxseq :
              /\ Issue(c, t, s)
              /\ UNCHANGED kind
              /\ Ahead(c, t, s) \/ TakenBack(c, t, s)
<1> USE ConstantTypes DEF TypeOK, LockInv
<1> DEFINE Returns ==
             \E c \in Callers, t \in Nat, s \in 0 .. maxseq :
               /\ Issue(c, t, s)
               /\ UNCHANGED kind
               /\ Ahead(c, t, s) \/ TakenBack(c, t, s)
<1>1. ASSUME UNCHANGED <<kind, last, seq, got, rewound>> PROVE Quiet
  BY <1>1 DEF Quiet
<1>2. CASE Tick \/ SetBack \/ UNCHANGED vars
  BY <1>1, <1>2 DEF Tick, SetBack, vars
<1>3. ASSUME NEW c \in Callers,
             Call(c) \/ Enter(c) \/ Refuse(c) \/ ReadFirst(c) \/ ReadSecond(c)
      PROVE  Quiet
  BY <1>1, <1>3 DEF Call, Enter, Refuse, ReadFirst, ReadSecond
<1>4. ASSUME NEW c \in Callers, Stamp(c) PROVE Returns
  <2> DEFINE g == GenOf[c]
  <2>1. seq[g] \in 0 .. maxseq /\ g \in Gens /\ maxseq \in Nat
    BY <1>4, NumberFits DEF Stamp
  <2>2. CASE clock > last[g] /\ Issue(c, clock, 0)
    <3>1. Ahead(c, clock, 0) /\ UNCHANGED kind
      BY <1>4, <2>1, <2>2 DEF Stamp, Ahead, Reached
    <3> QED
      BY <2>2, <3>1
  <2>3. CASE clock = last[g] /\ ~Full(g) /\ Issue(c, clock, seq[g] + 1)
    <3>1. Ahead(c, clock, seq[g] + 1) /\ UNCHANGED kind
      BY <1>4, <2>1, <2>3 DEF Stamp, Ahead, Reached
    <3>2. seq[g] + 1 \in 0 .. maxseq
      BY <2>1, <2>3 DEF Full
    <3> QED
      BY <2>3, <3>1, <3>2
  <2> QED
    BY <1>4, <2>2, <2>3 DEF Stamp
<1>5. ASSUME NEW c \in Callers, StartWait(c) PROVE Quiet
  <2>1. ASSUME NEW g \in Gens PROVE seq'[g] >= seq[g]
    <3>1. seq[g] \in Nat
      OBVIOUS
    <3>2. seq'[g] = seq[g] \/ seq'[g] = seq[g] + 1
      BY <1>5 DEF StartWait
    <3> QED
      BY <3>1, <3>2
  <2> QED
    BY <1>5, <2>1 DEF StartWait, Quiet
<1>6. ASSUME NEW c \in Callers, EndWait(c) PROVE Returns
  <2>1. now[c] = last[GenOf[c]] /\ Locking /\ Issue(c, clock, 0)
    BY <1>6 DEF EndWait, Holds
  <2>2. UNCHANGED kind
    BY <1>6 DEF EndWait
  <2>3. Ahead(c, clock, 0) \/ TakenBack(c, clock, 0)
    BY <1>6, <2>1
    DEF EndWait, WaitOver, Ahead, TakenBack, Reached, Locking
  <2> QED
    BY <2>1, <2>2, <2>3
<1>7. ASSUME NEW c \in Callers, Swap(c) PROVE Quiet \/ Returns
  <2>1. CASE Unmoved(c)
    <3> DEFINE s == IF now[c] = old[c][1] THEN old[c][2] + 1 ELSE 0
    <3>1. Issue(c, now[c], s) /\ UNCHANGED <<kind, rewound>>
      BY <1>7, <2>1 DEF Swap
    <3>2. /\ Usable(now[c], old[c]) /\ now[c] \in Nat
          /\ old[c] \in Nat \X (0 .. maxseq)
      BY <1>7 DEF Swap
    <3>3. old[c][1] = last[GenOf[c]] /\ old[c][2] = seq[GenOf[c]]
      BY <2>1 DEF Unmoved, Word
    <3>4. s \in 0 .. maxseq
      BY <3>2 DEF Usable
    <3>5. Ahead(c, now[c], s)
      BY <3>1, <3>2, <3>3 DEF Usable, Ahead, Reached
    <3> QED
      BY <3>1, <3>2, <3>4, <3>5
  <2>2. CASE ~Unmoved(c)
    BY <1>1, <1>7, <2>2 DEF Swap
  <2> QED
    BY <2>1, <2>2
<1> HIDE DEF TypeOK, LockInv
<1> QED
  BY <1>2, <1>3, <1>4, <1>5, <1>6, <1>7 DEF Next, Step
-----------------------------------------------------------------------------
(* Types and the mutex                                                     *)

\* What a return leaves of the types.
LEMMA IssueType ==
  ASSUME TypeOK, NEW c \in Callers, NEW t \in Nat, NEW s \in 0 .. maxseq,
         Issue(c, t, s)
  PROVE  /\ last' \in [Gens -> Int] /\ seq' \in [Gens -> 0 .. maxseq + 1]
         /\ seq'[GenOf[c]] <= maxseq
         /\ \A g \in Gens \ {GenOf[c]} : seq'[g] = seq[g] /\ last'[g] = last[g]
         /\ pc' = [pc EXCEPT ![c] = "idle"]
         /\ now' \in [Callers -> Nat] /\ old' \in [Callers -> Nat \X (0 .. maxseq)]
         /\ got' \in [Callers -> Seq(Nat)]
         /\ got' = [got EXCEPT ![c] = Append(@, ID(GenOf[c], t, s))]
<1>1. ID(GenOf[c], t, s) \in Nat /\ maxseq \in Nat /\ GenOf[c] \in Gens
  BY IDType, SnowflakeAssumption
<1>2. got \in [Callers -> Seq(Nat)]
  BY DEF TypeOK
<1>3. got' = [got EXCEPT ![c] = Append(@, ID(GenOf[c], t, s))]
  BY DEF Issue
<1>4. got' \in [Callers -> Seq(Nat)]
  BY <1>1, <1>2, <1>3
<1>5. s \in 0 .. maxseq + 1 /\ s <= maxseq /\ t \in Int /\ 0 \in Nat
  BY <1>1
<1>6. /\ last' \in [Gens -> Int] /\ seq' \in [Gens -> 0 .. maxseq + 1]
      /\ seq'[GenOf[c]] <= maxseq
      /\ \A g \in Gens \ {GenOf[c]} : seq'[g] = seq[g] /\ last'[g] = last[g]
  BY <1>1, <1>5 DEF TypeOK, Issue
<1>7. /\ pc' = [pc EXCEPT ![c] = "idle"]
      /\ now' \in [Callers -> Nat] /\ old' \in [Callers -> Nat \X (0 .. maxseq)]
  <2>1. now \in [Callers -> Nat] /\ old \in [Callers -> Nat \X (0 .. maxseq)]
    BY DEF TypeOK
  <2>2. /\ pc' = [pc EXCEPT ![c] = "idle"] /\ now' = [now EXCEPT ![c] = 0]
        /\ old' = [old EXCEPT ![c] = <<0, 0>>]
    BY DEF Issue, Goto, Nothing
  <2>3. <<0, 0>> \in Nat \X (0 .. maxseq)
    BY <1>1
  <2> QED
    BY <1>5, <2>1, <2>2, <2>3
<1> QED
  BY <1>3, <1>4, <1>6, <1>7

\* The conjunct of TypeOK about numbers one too large.
Overrun ==
  \A g \in Gens :
    seq[g] > maxseq => \E c \in Callers : GenOf[c] = g /\ pc[c] = "wait"

\* Issuing an id puts the sequence number back in range.
LEMMA OverrunAfterIssue ==
  ASSUME TypeOK, LockInv, NEW c \in Callers, NEW t \in Nat, NEW s \in 0 .. maxseq,
         Issue(c, t, s)
  PROVE  Overrun'
<1> SUFFICES ASSUME NEW g \in Gens, seq'[g] > maxseq
             PROVE  \E d \in Callers : GenOf[d] = g /\ pc'[d] = "wait"
  BY DEF Overrun
<1>1. /\ seq'[GenOf[c]] <= maxseq /\ seq' \in [Gens -> 0 .. maxseq + 1]
      /\ \A h \in Gens \ {GenOf[c]} : seq'[h] = seq[h]
      /\ pc' = [pc EXCEPT ![c] = "idle"]
  BY IssueType
<1>2. g # GenOf[c] /\ seq'[g] = seq[g]
  BY <1>1, SnowflakeAssumption
<1>3. PICK d \in Callers : GenOf[d] = g /\ pc[d] = "wait"
  BY <1>2 DEF TypeOK
<1>4. pc'[d] = "wait"
  BY <1>1, <1>2, <1>3 DEF TypeOK
<1> QED
  BY <1>3, <1>4

\* Types are kept.
LEMMA TypeStep == TypeOK /\ LockInv /\ [Next]_vars => TypeOK'
<1> SUFFICES ASSUME TypeOK, LockInv, [Next]_vars PROVE TypeOK'
  OBVIOUS
<1> USE ConstantTypes DEF TypeOK
<1>1. CASE UNCHANGED vars
  BY <1>1, SMTT(20) DEF vars
<1>2. CASE Tick \/ SetBack
  <2>1. clock' \in Nat /\ skews' \in 0 .. MaxSkews
    BY <1>2, SnowflakeAssumption DEF Tick, SetBack
  <2>2. UNCHANGED <<kind, last, seq, pc, now, old, calls, got, rewound>>
    BY <1>2 DEF Tick, SetBack
  <2>3. Overrun'
    BY <2>2 DEF Overrun
  <2> QED
    BY <2>1, <2>2, <2>3 DEF Overrun
<1>3. ASSUME NEW c \in Callers, Call(c) PROVE TypeOK'
  <2>1. calls' \in [Callers -> Nat] /\ \A d \in Callers : calls'[d] <= CallsOf[d]
    <3>1. calls \in [Callers -> Nat] /\ \A d \in Callers : calls[d] <= CallsOf[d]
      OBVIOUS
    <3>2. calls' = [calls EXCEPT ![c] = @ + 1] /\ calls[c] < CallsOf[c]
      BY <1>3 DEF Call
    <3>3. CallsOf[c] \in Nat
      BY SnowflakeAssumption
    <3> HIDE DEF TypeOK
    <3> QED
      BY <3>1, <3>2, <3>3
  <2>2. Overrun'
    BY <1>3 DEF Call, Goto, Overrun
  <2> QED
    BY <1>3, <2>1, <2>2 DEF Call, Goto, Overrun
<1>4. ASSUME NEW c \in Callers, Enter(c) \/ Refuse(c)
      PROVE  TypeOK'
  <2>1. PICK p \in {"locked", "idle"} : pc' = [pc EXCEPT ![c] = p]
    BY <1>4 DEF Enter, Refuse, Goto
  <2>2. /\ pc[c] # "wait"
        /\ UNCHANGED <<kind, clock, skews, last, seq, now, old, calls, got, rewound>>
    BY <1>4 DEF Enter, Refuse
  <2>3. Overrun'
    BY <2>1, <2>2 DEF Overrun
  <2> QED
    BY <2>1, <2>2, <2>3 DEF Overrun
<1>5. ASSUME NEW c \in Callers, NEW t \in Nat, NEW s \in 0 .. maxseq,
             Issue(c, t, s), UNCHANGED <<kind, clock, skews, calls>>,
             rewound' \subseteq Gens
      PROVE  TypeOK'
  <2>1. Overrun'
    BY <1>5, OverrunAfterIssue
  <2>2. /\ last' \in [Gens -> Int] /\ seq' \in [Gens -> 0 .. maxseq + 1]
        /\ pc' = [pc EXCEPT ![c] = "idle"]
        /\ now' \in [Callers -> Nat] /\ old' \in [Callers -> Nat \X (0 .. maxseq)]
        /\ got' \in [Callers -> Seq(Nat)]
    BY <1>5, IssueType
  <2> QED
    BY <1>5, <2>1, <2>2 DEF Overrun
<1>6. ASSUME NEW c \in Callers, Stamp(c) PROVE TypeOK'
  <2>1. seq[GenOf[c]] \in 0 .. maxseq /\ maxseq \in Nat
    BY <1>6, NumberFits DEF Stamp
  <2>2. PICK n \in {0, seq[GenOf[c]] + 1} :
          Issue(c, clock, n) /\ (n = 0 \/ ~Full(GenOf[c]))
    BY <1>6 DEF Stamp
  <2>3. n \in 0 .. maxseq
    BY <2>1, <2>2 DEF Full
  <2>4. UNCHANGED <<kind, clock, skews, calls, rewound>>
    BY <1>6 DEF Stamp
  <2> QED
    BY <1>5, <2>2, <2>3, <2>4
<1>7. ASSUME NEW c \in Callers, StartWait(c) PROVE TypeOK'
  <2> DEFINE g == GenOf[c]
  <2>1. seq[g] \in 0 .. maxseq /\ maxseq \in Nat /\ g \in Gens
    BY <1>7, NumberFits DEF StartWait
  <2>2. seq' \in [Gens -> 0 .. maxseq + 1]
    BY <1>7, <2>1 DEF StartWait
  <2>3. \A h \in Gens \ {g} : seq'[h] = seq[h]
    BY <1>7 DEF StartWait
  <2>4. pc' = [pc EXCEPT ![c] = "wait"] /\ pc[c] # "wait"
    BY <1>7 DEF StartWait, Goto
  <2>5. Overrun'
    BY <2>3, <2>4 DEF Overrun
  <2>6. now' \in [Callers -> Nat]
    BY <1>7 DEF StartWait
  <2> QED
    BY <1>7, <2>2, <2>4, <2>5, <2>6 DEF StartWait, Overrun
<1>8. ASSUME NEW c \in Callers, EndWait(c) PROVE TypeOK'
  <2>1. Issue(c, clock, 0) /\ 0 \in 0 .. maxseq
    BY <1>8 DEF EndWait
  <2>2. UNCHANGED <<kind, clock, skews, calls>> /\ rewound' \subseteq Gens
    BY <1>8 DEF EndWait
  <2> QED
    BY <1>5, <2>1, <2>2
<1>9. ASSUME ~Locking PROVE \A g \in Gens : seq[g] \in 0 .. maxseq
  <2> SUFFICES ASSUME NEW g \in Gens PROVE ~(seq[g] > maxseq)
    OBVIOUS
  <2>1. \A c \in Callers : pc[c] # "wait"
    BY <1>9 DEF LockInv, Holds
  <2> QED
    BY <2>1
<1>10. ASSUME NEW c \in Callers,
              ReadFirst(c) \/ ReadSecond(c) \/ (Swap(c) /\ ~Unmoved(c))
       PROVE  TypeOK'
  <2>1. UNCHANGED <<kind, clock, skews, last, seq, calls, got, rewound>>
    BY <1>10 DEF ReadFirst, ReadSecond, Swap
  <2>2. ~Locking /\ pc[c] # "wait"
    BY <1>10 DEF ReadFirst, ReadSecond, Swap, LockInv
  <2>3. Word(GenOf[c]) \in Nat \X (0 .. maxseq)
    BY <1>9, <2>2 DEF Word, LockInv, Locking
  <2>4. <<0, 0>> \in Nat \X (0 .. maxseq)
    OBVIOUS
  <2>5. PICK n \in Nat : now' = [now EXCEPT ![c] = n]
    BY <1>10 DEF ReadFirst, ReadSecond, Swap
  <2>6. PICK w \in Nat \X (0 .. maxseq) : old' = [old EXCEPT ![c] = w]
    <3>1. CASE ReadFirst(c)
      BY <2>3, <3>1 DEF ReadFirst
    <3>2. CASE ReadSecond(c)
      BY <2>3, <2>4, <3>2 DEF ReadSecond, Nothing
    <3>3. CASE Swap(c) /\ ~Unmoved(c)
      BY <2>4, <3>3 DEF Swap, Nothing
    <3> QED
      BY <1>10, <3>1, <3>2, <3>3
  <2>7. PICK p \in {"half", "swap", "called"} : pc' = [pc EXCEPT ![c] = p]
    BY <1>10 DEF ReadFirst, ReadSecond, Swap, Goto
  <2>8. Overrun'
    BY <2>1, <2>2, <2>7 DEF Overrun
  <2> QED
    BY <2>1, <2>5, <2>6, <2>7, <2>8 DEF Overrun
<1>11. ASSUME NEW c \in Callers, Swap(c), Unmoved(c) PROVE TypeOK'
  <2> DEFINE s == IF now[c] = old[c][1] THEN old[c][2] + 1 ELSE 0
  <2>1. Issue(c, now[c], s) /\ UNCHANGED <<kind, clock, skews, calls, rewound>>
    BY <1>11 DEF Swap
  <2>2. Usable(now[c], old[c]) /\ now[c] \in Nat /\ old[c] \in Nat \X (0 .. maxseq)
    BY <1>11 DEF Swap, LockInv
  <2>3. s \in 0 .. maxseq
    BY <2>2 DEF Usable
  <2>4. rewound' \subseteq Gens
    BY <2>1
  <2> HIDE DEF TypeOK, s
  <2> QED
    BY <1>5, <2>1, <2>2, <2>3, <2>4
<1> HIDE DEF TypeOK
<1> QED
  BY <1>1, <1>2, <1>3, <1>4, <1>6, <1>7, <1>8, <1>10, <1>11 DEF Next, Step

\* What holds of a generator's callers is kept.
LEMMA LockStep == TypeOK /\ LockInv /\ [Next]_vars => LockInv'
<1> SUFFICES ASSUME TypeOK, LockInv, [Next]_vars PROVE LockInv'
  OBVIOUS
<1> USE ConstantTypes DEF LockInv, Holds, Locking
<1>0. pc \in [Callers -> {"idle", "called", "locked", "wait", "half", "swap"}]
  BY DEF TypeOK
<1>1. CASE UNCHANGED vars
  BY <1>1 DEF vars, Usable
<1>2. CASE Tick \/ SetBack
  BY <1>2 DEF Tick, SetBack, Usable
<1>3. ASSUME NEW c \in Callers, Call(c) \/ Refuse(c) PROVE LockInv'
  <2>1. PICK p \in {"called", "idle"} : pc' = [pc EXCEPT ![c] = p]
    BY <1>3 DEF Call, Refuse, Goto
  <2>2. UNCHANGED <<kind, last, now, old, rewound>>
    BY <1>3 DEF Call, Refuse
  <2> QED
    BY <1>0, <2>1, <2>2 DEF Usable
<1>4. ASSUME NEW c \in Callers, Enter(c) PROVE LockInv'
  BY <1>0, <1>4 DEF Enter, Goto, Usable
<1>5. ASSUME NEW c \in Callers, StartWait(c) PROVE LockInv'
  <2>1. /\ pc' = [pc EXCEPT ![c] = "wait"] /\ now' = [now EXCEPT ![c] = clock]
        /\ Holds(c) /\ pc[c] = "locked" /\ clock = last[GenOf[c]]
        /\ UNCHANGED <<kind, last, old, rewound>>
    BY <1>5 DEF StartWait, Goto
  <2>2. \A d \in Callers : d # c => pc'[d] = pc[d] /\ now'[d] = now[d]
    BY <1>0, <2>1 DEF TypeOK
  <2>3. pc'[c] = "wait" /\ now'[c] = last'[GenOf[c]]
    BY <1>0, <2>1 DEF TypeOK
  <2>4. \A d \in Callers : pc'[d] = "wait" => now'[d] = last'[GenOf[d]]
    BY <2>1, <2>2, <2>3
  <2>5. \A d \in Callers : pc'[d] = "swap" => Usable(now'[d], old'[d])
    BY <2>1, <2>2, <2>3
  <2>6. \A d \in Callers : Holds(d)' => Holds(d)
    BY <2>1, <2>2
  <2> QED
    BY <2>1, <2>2, <2>3, <2>4, <2>5, <2>6
<1>6. ASSUME NEW c \in Callers, NEW t \in Nat, NEW s \in 0 .. maxseq,
             Issue(c, t, s), UNCHANGED kind,
             Holds(c) \/ ~Locking, kind # "unique" => UNCHANGED rewound
      PROVE  LockInv'
  <2>1. /\ last' = [last EXCEPT ![GenOf[c]] = t]
        /\ pc' = [pc EXCEPT ![c] = "idle"]
        /\ now' = [now EXCEPT ![c] = 0]
        /\ \A d \in Callers \ {c} : old'[d] = old[d]
    BY <1>6 DEF Issue, Goto, TypeOK
  <2>2. kind # "unique" => last' \in [Gens -> Nat]
    BY <2>1
  <2>3. \A d \in Callers : pc'[d] = "wait" => now'[d] = last'[GenOf[d]]
    BY <1>0, <1>6, <2>1 DEF TypeOK
  <2>4. \A d \in Callers : pc'[d] = "swap" => Usable(now'[d], old'[d])
    <3> SUFFICES ASSUME NEW d \in Callers, pc'[d] = "swap"
                 PROVE  Usable(now'[d], old'[d])
      OBVIOUS
    <3>1. d # c /\ pc[d] = "swap"
      BY <1>0, <2>1
    <3>2. now'[d] = now[d] /\ old'[d] = old[d]
      BY <2>1, <3>1 DEF TypeOK
    <3> QED
      BY <3>1, <3>2
  <2>5. \A d \in Callers : pc'[d] # "idle" => pc'[d] = pc[d]
    BY <1>0, <2>1
  <2> QED
    BY <1>6, <2>2, <2>3, <2>4, <2>5
<1>7. ASSUME NEW c \in Callers, Stamp(c) PROVE LockInv'
  <2>1. seq[GenOf[c]] \in 0 .. maxseq /\ maxseq \in Nat
    BY <1>7, NumberFits DEF Stamp
  <2>2. PICK n \in {0, seq[GenOf[c]] + 1} :
          Issue(c, clock, n) /\ (n = 0 \/ ~Full(GenOf[c]))
    BY <1>7 DEF Stamp
  <2>3. n \in 0 .. maxseq /\ clock \in Nat
    BY <2>1, <2>2 DEF Full, TypeOK
  <2>4. Holds(c) /\ UNCHANGED <<kind, rewound>>
    BY <1>7 DEF Stamp
  <2> HIDE DEF LockInv
  <2> QED
    BY <1>6, <2>2, <2>3, <2>4
<1>8. ASSUME NEW c \in Callers, EndWait(c) PROVE LockInv'
  <2>1. Issue(c, clock, 0) /\ 0 \in 0 .. maxseq /\ clock \in Nat
    BY <1>8 DEF EndWait, TypeOK
  <2>2. Holds(c) /\ UNCHANGED kind
    BY <1>8 DEF EndWait
  <2>3. kind # "unique" => UNCHANGED rewound
    BY <1>8, <2>1 DEF EndWait, WaitOver, TypeOK
  <2> HIDE DEF LockInv
  <2> QED
    BY <1>6, <2>1, <2>2, <2>3
<1>9. ASSUME NEW c \in Callers,
             ReadFirst(c) \/ ReadSecond(c) \/ (Swap(c) /\ ~Unmoved(c))
      PROVE  LockInv'
  <2>1. PICK p \in {"half", "swap", "called"} : pc' = [pc EXCEPT ![c] = p]
    BY <1>9 DEF ReadFirst, ReadSecond, Swap, Goto
  <2>2. UNCHANGED <<kind, last, rewound>> /\ ~Locking
    BY <1>9 DEF ReadFirst, ReadSecond, Swap
  <2>3. \A d \in Callers \ {c} : now'[d] = now[d] /\ old'[d] = old[d]
    BY <1>9 DEF ReadFirst, ReadSecond, Swap, TypeOK
  <2>4. pc'[c] = "swap" => Usable(now'[c], old'[c])
    BY <1>0, <1>9 DEF ReadFirst, ReadSecond, Swap, Goto, TypeOK
  <2>5. \A d \in Callers : pc'[d] = "swap" => Usable(now'[d], old'[d])
    BY <1>0, <2>1, <2>3, <2>4
  <2> QED
    BY <1>0, <2>1, <2>2, <2>5
<1>10. ASSUME NEW c \in Callers, Swap(c), Unmoved(c) PROVE LockInv'
  <2> DEFINE s == IF now[c] = old[c][1] THEN old[c][2] + 1 ELSE 0
  <2>1. Issue(c, now[c], s) /\ UNCHANGED <<kind, rewound>>
    BY <1>10 DEF Swap
  <2>2. Usable(now[c], old[c]) /\ now[c] \in Nat /\ old[c] \in Nat \X (0 .. maxseq)
    BY <1>10 DEF Swap, TypeOK
  <2>3. s \in 0 .. maxseq
    BY <2>2 DEF Usable
  <2>4. ~Locking
    BY <1>10 DEF Swap
  <2> HIDE DEF LockInv, s
  <2> QED
    BY <1>6, <2>1, <2>2, <2>3, <2>4
<1> HIDE DEF LockInv
<1> QED
  BY <1>1, <1>2, <1>3, <1>4, <1>5, <1>7, <1>8, <1>9, <1>10 DEF Next, Step
-----------------------------------------------------------------------------
(* Ids returned                                                            *)

\* The id of a time and a number that a generator has not reached was never
\* returned, unless the generator has been taken back.
LEMMA AheadIsFresh ==
  ASSUME IInv, NEW c \in Callers, NEW t \in Nat, NEW s \in 0 .. maxseq,
         ~Reached(GenOf[c], t, s), GenOf[c] \notin rewound,
         NEW d \in Callers, NEW i \in 1 .. Len(got[d])
  PROVE  got[d][i] # ID(GenOf[c], t, s)
<1> SUFFICES ASSUME got[d][i] = ID(GenOf[c], t, s) PROVE FALSE
  OBVIOUS
<1>1. PICK u \in Nat, r \in 0 .. maxseq :
        /\ got[d][i] = ID(GenOf[d], u, r)
        /\ GenOf[d] \in rewound \/ Reached(GenOf[d], u, r)
  BY DEF IInv, PastInv, Made
<1>2. GenOf[c] \in Gens /\ GenOf[d] \in Gens
  BY SnowflakeAssumption
<1>3. ID(GenOf[d], u, r) = ID(GenOf[c], t, s)
  BY <1>1
<1>4. GenOf[d] = GenOf[c] /\ u = t /\ r = s
  BY <1>2, <1>3, IDInjective
<1> QED
  BY <1>1, <1>4

\* What a return does to the ids of each caller.
LEMMA GotAfterIssue ==
  ASSUME TypeOK, NEW c \in Callers, NEW t \in Nat, NEW s \in 0 .. maxseq,
         Issue(c, t, s)
  PROVE  /\ \A d \in Callers \ {c} : got'[d] = got[d]
         /\ Len(got[c]) \in Nat /\ Len(got'[c]) = Len(got[c]) + 1
         /\ \A i \in 1 .. Len(got[c]) : got'[c][i] = got[c][i]
         /\ got'[c][Len(got'[c])] = ID(GenOf[c], t, s)
<1>1. got \in [Callers -> Seq(Nat)] /\ got[c] \in Seq(Nat)
  BY DEF TypeOK
<1>2. ID(GenOf[c], t, s) \in Nat
  BY IDType, SnowflakeAssumption
<1>3. got' = [got EXCEPT ![c] = Append(got[c], ID(GenOf[c], t, s))]
  BY DEF Issue
<1>4. got'[c] = Append(got[c], ID(GenOf[c], t, s))
  BY <1>1, <1>3
<1>5. \A d \in Callers \ {c} : got'[d] = got[d]
  BY <1>1, <1>3
<1> QED
  BY <1>1, <1>2, <1>4, <1>5

\* What a generator has reached stays reached while it counts on.
LEMMA StaysReached ==
  ASSUME TypeOK, LockInv, [Next]_vars, NEW g \in Gens, NEW t \in Nat,
         NEW s \in 0 .. maxseq, Reached(g, t, s), g \notin rewound'
  PROVE  Reached(g, t, s)'
<1> USE ConstantTypes
<1>0. seq[g] \in Int /\ seq'[g] \in Int /\ last[g] \in Int /\ last'[g] \in Int
  BY TypeStep DEF TypeOK
<1>1. CASE Quiet
  BY <1>0, <1>1 DEF Quiet, Reached
<1>2. ASSUME NEW c \in Callers, NEW u \in Nat, NEW r \in 0 .. maxseq,
             Issue(c, u, r), Ahead(c, u, r) \/ TakenBack(c, u, r)
      PROVE  Reached(g, t, s)'
  <2>1. CASE GenOf[c] # g
    <3>1. last'[g] = last[g] /\ seq'[g] = seq[g]
      BY <1>2, <2>1 DEF Issue, TypeOK
    <3> QED
      BY <3>1 DEF Reached
  <2>2. CASE GenOf[c] = g
    <3>1. ~Reached(g, u, r)
      BY <1>2, <2>2 DEF Ahead, TakenBack
    <3>2. last'[g] = u /\ seq'[g] = r
      BY <1>2, <2>2 DEF Issue, TypeOK
    <3> QED
      BY <1>0, <3>1, <3>2 DEF Reached
  <2> QED
    BY <2>1, <2>2
<1> QED
  BY <1>1, <1>2, StepCases

\* What has been returned remains an id of the caller's generator.
LEMMA PastStep == IInv /\ [Next]_vars => PastInv'
<1> SUFFICES ASSUME IInv, [Next]_vars,
                    NEW d \in Callers, NEW i \in 1 .. Len(got'[d])
             PROVE  Made(d, i)'
  BY DEF PastInv
<1> USE ConstantTypes
<1>0. TypeOK /\ LockInv /\ GenOf[d] \in Gens
  BY DEF IInv
<1>1. ASSUME i \in 1 .. Len(got[d]), got'[d][i] = got[d][i],
             rewound \subseteq rewound'
      PROVE  Made(d, i)'
  <2>1. PICK t \in Nat, s \in 0 .. maxseq :
          /\ got[d][i] = ID(GenOf[d], t, s)
          /\ GenOf[d] \in rewound \/ Reached(GenOf[d], t, s)
    BY <1>1 DEF IInv, PastInv, Made
  <2>2. GenOf[d] \in rewound' \/ Reached(GenOf[d], t, s)'
    BY <1>0, <1>1, <2>1, StaysReached
  <2> QED
    BY <1>1, <2>1, <2>2 DEF Made
<1>2. CASE Quiet
  BY <1>1, <1>2 DEF Quiet
<1>3. ASSUME NEW c \in Callers, NEW t \in Nat, NEW s \in 0 .. maxseq,
             Issue(c, t, s), Ahead(c, t, s) \/ TakenBack(c, t, s)
      PROVE  Made(d, i)'
  <2>1. /\ \A e \in Callers \ {c} : got'[e] = got[e]
        /\ Len(got[c]) \in Nat /\ Len(got'[c]) = Len(got[c]) + 1
        /\ \A j \in 1 .. Len(got[c]) : got'[c][j] = got[c][j]
        /\ got'[c][Len(got'[c])] = ID(GenOf[c], t, s)
    BY <1>0, <1>3, GotAfterIssue
  <2>2. rewound \subseteq rewound'
    BY <1>3 DEF Ahead, TakenBack
  <2>3. CASE d # c \/ i <= Len(got[c])
    BY <1>1, <2>1, <2>2, <2>3
  <2>4. CASE d = c /\ i = Len(got'[c])
    <3>1. Reached(GenOf[d], t, s)'
      BY <1>0, <1>3, <2>4 DEF Issue, Reached, TypeOK
    <3> QED
      BY <2>1, <2>4, <3>1 DEF Made
  <2> QED
    BY <2>1, <2>3, <2>4
<1> QED
  BY <1>0, <1>2, <1>3, StepCases

\* No id is returned twice, but by a generator that was taken back.
LEMMA DistinctStep == IInv /\ [Next]_vars => DistinctInv'
<1> SUFFICES ASSUME IInv, [Next]_vars PROVE DistinctInv'
  OBVIOUS
<1>0. TypeOK /\ LockInv /\ DistinctInv
  BY DEF IInv
<1>1. CASE Quiet
  BY <1>0, <1>1 DEF Quiet, DistinctInv
<1>2. ASSUME NEW c \in Callers, NEW t \in Nat, NEW s \in 0 .. maxseq,
             Issue(c, t, s), Ahead(c, t, s) \/ TakenBack(c, t, s)
      PROVE  DistinctInv'
  <2> DEFINE g == GenOf[c]
             n == Len(got[c])
  <2>1. /\ \A e \in Callers \ {c} : got'[e] = got[e]
        /\ n \in Nat /\ Len(got'[c]) = n + 1
        /\ \A j \in 1 .. n : got'[c][j] = got[c][j]
        /\ got'[c][n + 1] = ID(g, t, s)
    BY <1>0, <1>2, GotAfterIssue
  <2>2. g \notin rewound' => ~Reached(g, t, s) /\ g \notin rewound
    BY <1>2 DEF Ahead, TakenBack
  <2>3. rewound \subseteq rewound'
    BY <1>2 DEF Ahead, TakenBack
  <2>4. ASSUME g \notin rewound',
               NEW e \in Callers, NEW j \in 1 .. Len(got[e])
        PROVE  got[e][j] # ID(g, t, s)
    BY <1>2, <2>2, <2>4, AheadIsFresh
  \* An id of a generator that was taken back is of no other generator.
  <2>5. ASSUME NEW e \in Callers, NEW j \in 1 .. Len(got[e]),
               got[e][j] = ID(g, t, s)
        PROVE  GenOf[e] = g
    <3>1. PICK u \in Nat, r \in 0 .. maxseq : got[e][j] = ID(GenOf[e], u, r)
      BY DEF IInv, PastInv, Made
    <3>2. GenOf[e] \in Gens /\ g \in Gens /\ ID(GenOf[e], u, r) = ID(g, t, s)
      BY <2>5, <3>1, SnowflakeAssumption
    <3> QED
      BY <3>2, IDInjective
  <2> SUFFICES ASSUME NEW a \in Callers, NEW b \in Callers,
                      NEW i \in 1 .. Len(got'[a]), NEW j \in 1 .. Len(got'[b]),
                      got'[a][i] = got'[b][j], GenOf[a] \notin rewound'
               PROVE  a = b /\ i = j
    BY DEF DistinctInv
  <2> DEFINE New(e, k) == e = c /\ k = n + 1
  <2> HIDE DEF g, n
  <2>6. ASSUME NEW e \in Callers, NEW k \in 1 .. Len(got'[e]), ~New(e, k)
        PROVE  k \in 1 .. Len(got[e]) /\ got'[e][k] = got[e][k]
    BY <2>1, <2>6 DEF n
  <2>7. CASE New(a, i) /\ New(b, j)
    BY <2>7
  <2>8. CASE New(a, i) /\ ~New(b, j)
    BY <2>1, <2>4, <2>6, <2>8 DEF g
  <2>9. CASE ~New(a, i) /\ New(b, j)
    BY <2>1, <2>4, <2>5, <2>6, <2>9 DEF g
  <2>10. CASE ~New(a, i) /\ ~New(b, j)
    BY <1>0, <2>3, <2>6, <2>10 DEF DistinctInv
  <2> QED
    BY <2>7, <2>8, <2>9, <2>10
<1> QED
  BY <1>0, <1>1, <1>2, StepCases
-----------------------------------------------------------------------------
(* Theorems                                                                *)

\* The invariant holds of every behaviour.
THEOREM Invariance == Spec => []IInv
<1>1. Init => IInv
  <2> SUFFICES ASSUME Init PROVE IInv
    OBVIOUS
  <2>1. TypeOK
    BY SnowflakeAssumption DEF Init, TypeOK, Nothing
  <2>2. LockInv
    BY <2>1 DEF Init, LockInv, Holds, TypeOK
  <2>3. PastInv /\ DistinctInv
    BY DEF Init, PastInv, DistinctInv
  <2> QED
    BY <2>1, <2>2, <2>3 DEF IInv
<1>2. IInv /\ [Next]_vars => IInv'
  BY TypeStep, LockStep, PastStep, DistinctStep DEF IInv
<1> QED
  BY <1>1, <1>2, PTL DEF Spec

\* Numbers stay within their field except in a caller of UIDGenLock that waits.
THEOREM TypeCorrect == Spec => []TypeOK
  BY Invariance, PTL DEF IInv

\* UniqueGenerator returns distinct ids, on one machine and on several, until
\* its waitNextMS returns with an earlier time.
THEOREM UniqueGeneratorIsUnique == Spec => []UniqueUntilRewound
<1>1. IInv => UniqueUntilRewound
  BY DEF IInv, DistinctInv, UniqueUntilRewound
<1> QED
  BY <1>1, Invariance, PTL

\* No step of a call moves a generator back to a time or a number it has left,
\* even when the clock is set back, but for that one return of waitNextMS.
THEOREM GeneratorsAdvance == Spec => StateAdvances
<1> DEFINE Advance ==
             \A g \in Gens :
               \/ last'[g] > last[g]
               \/ last'[g] = last[g] /\ seq'[g] >= seq[g]
               \/ g \in rewound'
<1>1. IInv /\ IInv' /\ [Next]_vars => [Advance]_vars
  <2> SUFFICES ASSUME IInv, IInv', [Next]_vars, NEW g \in Gens
               PROVE  \/ last'[g] > last[g]
                      \/ last'[g] = last[g] /\ seq'[g] >= seq[g]
                      \/ g \in rewound'
    OBVIOUS
  <2>1. /\ last[g] \in Int /\ last'[g] \in Int
        /\ seq[g] \in Int /\ seq'[g] \in Int
    BY DEF IInv, TypeOK
  <2>2. CASE Quiet
    BY <2>1, <2>2 DEF Quiet
  <2>3. ASSUME NEW c \in Callers, NEW t \in Nat, NEW s \in 0 .. maxseq,
               Issue(c, t, s), Ahead(c, t, s) \/ TakenBack(c, t, s)
        PROVE  \/ last'[g] > last[g]
               \/ last'[g] = last[g] /\ seq'[g] >= seq[g]
               \/ g \in rewound'
    <3>1. CASE GenOf[c] # g
      <4>1. last'[g] = last[g] /\ seq'[g] = seq[g]
        BY <2>3, <3>1, IssueType DEF IInv
      <4> QED
        BY <2>1, <4>1
    <3>2. CASE GenOf[c] = g
      <4>1. last'[g] = t /\ seq'[g] = s
        BY <2>3, <3>2 DEF Issue, IInv, TypeOK
      <4>2. ~Reached(g, t, s) \/ g \in rewound'
        BY <2>3, <3>2 DEF Ahead, TakenBack
      <4> QED
        BY <2>1, <4>1, <4>2 DEF Reached
    <3> QED
      BY <3>1, <3>2
  <2> QED
    BY <2>2, <2>3, StepCases DEF IInv
<1> QED
  BY <1>1, Invariance, PTL DEF Spec, StateAdvances

\* Three of the generators implement FreshIDs, whatever the clock does: a step
\* that returns an id is a Give of FreshIDs, and every other step stutters.
THEOREM RefinesFreshIDs == Spec => ImplementsFreshIDs
<1> DEFINE given == IF kind = "unique" THEN [c \in Callers |-> <<>>] ELSE got
<1>1. Init => Fresh!Init
  BY DEF Init, Fresh!Init
<1>2. IInv /\ IInv' /\ [Next]_vars => [Fresh!Next]_given
  <2> SUFFICES ASSUME IInv, IInv', [Next]_vars PROVE [Fresh!Next]_given
    OBVIOUS
  <2>0. TypeOK /\ LockInv
    BY DEF IInv
  <2>1. CASE Quiet
    BY <2>1 DEF Quiet
  <2>2. ASSUME NEW c \in Callers, NEW t \in Nat, NEW s \in 0 .. maxseq,
               Issue(c, t, s), UNCHANGED kind,
               Ahead(c, t, s) \/ TakenBack(c, t, s)
        PROVE  [Fresh!Next]_given
    <3>1. CASE kind = "unique"
      BY <2>2, <3>1
    <3>2. CASE kind # "unique"
      <4> DEFINE id == ID(GenOf[c], t, s)
      <4>1. given = got /\ given' = got'
        BY <2>2, <3>2
      <4>2. /\ Len(got[c]) \in Nat /\ Len(got'[c]) = Len(got[c]) + 1
            /\ got'[c][Len(got'[c])] = id
        BY <2>0, <2>2, GotAfterIssue
      <4>3. got' = [got EXCEPT ![c] = Append(@, id)]
        BY <2>2 DEF Issue
      <4>4. id \in Fresh!Given'
        <5>1. Len(got'[c]) \in DOMAIN got'[c]
          BY <4>2 DEF IInv, TypeOK
        <5>2. id \in Fresh!Range(given'[c])
          BY <4>1, <4>2, <5>1 DEF Fresh!Range
        <5> QED
          BY <5>2 DEF Fresh!Given
      <4>5. id \notin Fresh!Given
        <5> SUFFICES ASSUME NEW d \in Callers, id \in Fresh!Range(given[d])
                     PROVE  FALSE
          BY DEF Fresh!Given
        <5>1. PICK i \in DOMAIN got[d] : id = got[d][i]
          BY <4>1 DEF Fresh!Range
        <5>2. i \in 1 .. Len(got[d])
          <6>1. got[d] \in Seq(Nat)
            BY <2>0 DEF TypeOK
          <6> QED
            BY <5>1, <6>1
        <5>3. ~Reached(GenOf[c], t, s) /\ GenOf[c] \notin rewound
          BY <2>0, <2>2, <3>2 DEF Ahead, TakenBack, LockInv
        <5> QED
          BY <2>2, <5>1, <5>2, <5>3, AheadIsFresh
      <4>6. Fresh!Give(c)
        BY <4>1, <4>3, <4>4, <4>5 DEF Fresh!Give
      <4> QED
        BY <4>6 DEF Fresh!Next
    <3> QED
      BY <3>1, <3>2
  <2> QED
    BY <2>0, <2>1, <2>2, StepCases
<1> QED
  BY <1>1, <1>2, Invariance, PTL DEF Spec, ImplementsFreshIDs, Fresh!Spec
=============================================================================
