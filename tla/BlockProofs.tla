---------------------------- MODULE BlockProofs ----------------------------
(***************************************************************************)
(* Proofs about the block generators: that the ids of UIDGenBlock are      *)
(* unique as long as a generator has one caller, or is asked for no more   *)
(* than its first block; and that the numbers of BlockGenerator repeat if  *)
(* and only if an Add comes in between another call's look at next and its *)
(* Store.                                                                  *)
(***************************************************************************)
EXTENDS BlockDemos, FiniteSetTheorems, TLAPS

\* A behaviour of either demonstration is one of both generators, one of which
\* does nothing.
LEMMA DemosAreBoth == DemosSpec => Spec /\ Block!Spec
<1>1. DemosInit => Init /\ Block!Init
  BY DEF DemosInit
<1>2. [DemosNext]_allVars => [Next]_vars /\ [Block!Next]_(Block!vars)
  BY DEF DemosNext, allVars, vars, blockVars, Block!vars
<1> QED
  BY <1>1, <1>2, PTL DEF DemosSpec, Spec, Block!Spec
-----------------------------------------------------------------------------
(* UIDGenBlock: types                                                      *)

\* Types, and that no block reaches beyond the global sequence.
LEMMA UIDTypes == Spec => []TypeOK
<1>1. Init => TypeOK
  BY GeneratorAssumption DEF Init, TypeOK
<1>2. TypeOK /\ [Next]_vars => TypeOK'
  <2> SUFFICES ASSUME TypeOK, [Next]_vars PROVE TypeOK'
    OBVIOUS
  <2> USE GeneratorAssumption DEF TypeOK
  <2>1. ASSUME NEW g \in Generators, Create(g) PROVE TypeOK'
    BY <2>1 DEF Create, TakeBlock
  <2>2. ASSUME NEW t \in Threads, Check(t) PROVE TypeOK'
    BY <2>2 DEF Check
  <2>3. ASSUME NEW t \in Threads, Allocate(t) PROVE TypeOK'
    BY <2>3 DEF Allocate, TakeBlock
  <2>4. ASSUME NEW t \in Threads, Add(t) PROVE TypeOK'
    <3>1. seqno[GenOf[t]] + 1 \in Nat /\ made[t] \in Nat
      OBVIOUS
    <3>2. issued' \subseteq [caller : Threads, call : Nat, id : Nat]
      BY <2>4, <3>1 DEF Add
    <3>3. seqno' \in [Generators -> Nat] /\ made' \in [Threads -> Nat]
      BY <2>4, <3>1 DEF Add
    <3> QED
      BY <2>4, <3>2, <3>3 DEF Add
  <2>5. CASE UNCHANGED vars
    BY <2>5 DEF vars
  <2> QED
    BY <2>1, <2>2, <2>3, <2>4, <2>5 DEF Next
<1> QED
  BY <1>1, <1>2, PTL DEF Spec

\* The types of UIDGenBlock, next to BlockGenerator.
THEOREM TypeCorrect == DemosSpec => []TypeOK
  BY UIDTypes, DemosAreBoth, PTL
-----------------------------------------------------------------------------
(* UIDGenBlock: one caller per generator, or no more than a block          *)

Calls == {x \in Threads \X Nat : x[2] < CallsOf[x[1]]}
CallsTo(g) == {x \in Calls : GenOf[x[1]] = g}
Made(g) == {x \in CallsTo(g) : x[2] < made[x[1]]}

\* A generator that has more callers than one is asked for a block at most.
Alone(g) == \A t, u \in Threads : GenOf[t] = g /\ GenOf[u] = g => t = u
OneBlock(g) == IsFiniteSet(CallsTo(g)) /\ Cardinality(CallsTo(g)) <= blkSize
SafeUse == \A g \in Generators : Alone(g) \/ OneBlock(g)

\* The numbers a generator still has to give are its own and nobody has got
\* one of them.
FreeInv ==
  /\ \A g \in Generators : seqno[g] <= endSeq[g]
  /\ \A g, h \in Generators : g # h =>
       endSeq[g] <= seqno[h] \/ endSeq[h] <= seqno[g] \/ seqno[g] = endSeq[g]
         \/ seqno[h] = endSeq[h]
  /\ \A x \in issued : x.id <= currSeq
  /\ \A x \in issued, g \in Generators : x.id <= seqno[g] \/ x.id > endSeq[g]
  /\ \A t \in Threads :
       /\ pc[t] # "idle" => GenOf[t] \in created
       /\ pc[t] = "allocate" => seqno[GenOf[t]] = endSeq[GenOf[t]]
       /\ \A u \in Threads :
            pc[t] = "allocate" /\ pc[u] = "allocate" /\ GenOf[t] = GenOf[u] => t = u

\* How often each thread has called, and how far a generator whose first block
\* is enough has got: nobody ever takes a second one.
CountInv ==
  /\ \A t \in Threads :
       /\ made[t] <= CallsOf[t] /\ (pc[t] # "idle" => made[t] < CallsOf[t])
       /\ GenOf[t] \notin created => made[t] = 0
  /\ \A g \in created : OneBlock(g) => seqno[g] = endSeq[g] - blkSize + Cardinality(Made(g))

RoomFor(t) ==
  made[t] < CallsOf[t] /\ GenOf[t] \in created /\ OneBlock(GenOf[t]) =>
    /\ seqno[GenOf[t]] < endSeq[GenOf[t]]
    /\ IsFiniteSet(Made(GenOf[t])) /\ <<t, made[t]>> \notin Made(GenOf[t])
Room == \A t \in Threads : RoomFor(t)

\* As long as a call is still to come, the first block is not used up.
LEMMA RoomLeft == TypeOK /\ CountInv => Room
<1> SUFFICES ASSUME TypeOK, CountInv, NEW t \in Threads, made[t] < CallsOf[t],
                    GenOf[t] \in created, OneBlock(GenOf[t])
             PROVE  /\ seqno[GenOf[t]] < endSeq[GenOf[t]]
                    /\ IsFiniteSet(Made(GenOf[t]))
                    /\ <<t, made[t]>> \notin Made(GenOf[t])
  BY DEF RoomFor, Room
<1> DEFINE g == GenOf[t]
           x == <<t, made[t]>>
<1>1. g \in Generators /\ made[t] \in Nat /\ blkSize \in Nat \ {0}
  BY GeneratorAssumption DEF TypeOK
<1>2. x \in CallsTo(g) /\ x \notin Made(g) /\ Made(g) \subseteq CallsTo(g)
  BY <1>1 DEF CallsTo, Calls, Made
<1>3. IsFiniteSet(CallsTo(g)) /\ Cardinality(CallsTo(g)) <= blkSize
  BY DEF OneBlock
<1>4. IsFiniteSet(Made(g)) /\ Cardinality(Made(g)) \in Nat
  BY <1>2, <1>3, FS_Subset, FS_CardinalityType
<1>5. Made(g) # CallsTo(g)
  BY <1>2
<1>6. Cardinality(Made(g)) < Cardinality(CallsTo(g))
  <2>1. Cardinality(CallsTo(g)) \in Nat /\ Cardinality(Made(g)) \in Nat
    BY <1>3, <1>4, FS_CardinalityType
  <2>2. /\ Cardinality(Made(g)) <= Cardinality(CallsTo(g))
        /\ Cardinality(CallsTo(g)) # Cardinality(Made(g))
    BY <1>2, <1>3, <1>5, FS_Subset
  <2> QED
    BY <2>1, <2>2
<1>7. Cardinality(CallsTo(g)) \in Nat
  BY <1>3, FS_CardinalityType
<1>8. seqno[g] = endSeq[g] - blkSize + Cardinality(Made(g))
  BY DEF CountInv
<1>9. seqno[g] \in Int /\ endSeq[g] \in Int
  BY <1>1 DEF TypeOK
<1> QED
  BY <1>1, <1>2, <1>3, <1>4, <1>6, <1>7, <1>8, <1>9

\* The same of the next state.
LEMMA RoomLeftAfter == TypeOK' /\ CountInv' => Room'
  BY RoomLeft, PTL

\* The calls are counted right by every step.
LEMMA CountStep ==
  ASSUME SafeUse, TypeOK, CountInv, FreeInv, CheckStillHolds, [Next]_vars
  PROVE  CountInv'
<1> USE GeneratorAssumption DEF TypeOK, CountInv
<1>1. ASSUME NEW g \in Generators, Create(g) PROVE CountInv'
  <2>1. /\ seqno'[g] = endSeq'[g] - blkSize /\ created' = created \union {g}
        /\ \A h \in Generators : h # g => seqno'[h] = seqno[h] /\ endSeq'[h] = endSeq[h]
        /\ UNCHANGED <<pc, made>> /\ g \notin created /\ endSeq'[g] \in Int
    BY <1>1 DEF Create, TakeBlock
  <2>2. \A h \in Generators : Made(h)' = Made(h)
    BY <2>1 DEF Made
  <2>3. Made(g) = {}
    BY <2>1 DEF Made, CallsTo, Calls
  <2>4. Cardinality(Made(g)) = 0
    BY <2>3, FS_EmptySet
  <2>5. seqno'[g] = endSeq'[g] - blkSize + Cardinality(Made(g)')
    BY <2>1, <2>2, <2>4
  <2>6. ASSUME NEW h \in created, h # g, OneBlock(h)
        PROVE  seqno'[h] = endSeq'[h] - blkSize + Cardinality(Made(h)')
    BY <2>1, <2>2, <2>6
  <2>7. \A h \in Generators : OneBlock(h)' = OneBlock(h)
    BY DEF OneBlock, CallsTo, Calls
  <2>8. \A h \in created' : OneBlock(h)' =>
          seqno'[h] = endSeq'[h] - blkSize + Cardinality(Made(h)')
    BY <2>1, <2>5, <2>6, <2>7
  <2> QED
    BY <2>1, <2>8
<1>2. ASSUME NEW t \in Threads, Check(t) PROVE CountInv'
  <2>1. UNCHANGED <<seqno, endSeq, created, made>> /\ made[t] < CallsOf[t]
    BY <1>2 DEF Check
  <2>2. \A h \in Generators : Made(h)' = Made(h) /\ OneBlock(h)' = OneBlock(h)
    BY <2>1 DEF Made, OneBlock, CallsTo, Calls
  <2>3. \A u \in Threads : pc'[u] # "idle" => u = t \/ pc[u] # "idle"
    BY <1>2 DEF Check
  <2> QED
    BY <2>1, <2>2, <2>3
<1>3. ASSUME NEW t \in Threads, Allocate(t) PROVE CountInv'
  <2>1. /\ UNCHANGED <<created, made>> /\ pc[t] = "allocate"
        /\ \A h \in Generators : h # GenOf[t] => seqno'[h] = seqno[h] /\ endSeq'[h] = endSeq[h]
        /\ \A u \in Threads : pc'[u] # "idle" => pc[u] # "idle"
    BY <1>3 DEF Allocate, TakeBlock
  <2>2. \A h \in Generators : Made(h)' = Made(h) /\ OneBlock(h)' = OneBlock(h)
    BY <2>1 DEF Made, OneBlock, CallsTo, Calls
  <2>3. ~OneBlock(GenOf[t])
    <3>1. made[t] < CallsOf[t] /\ GenOf[t] \in created
      BY <2>1 DEF FreeInv
    <3>2. ~(seqno[GenOf[t]] < endSeq[GenOf[t]])
      BY <2>1 DEF FreeInv
    <3> QED
      BY <3>1, <3>2, RoomLeft DEF Room, RoomFor
  <2> QED
    BY <2>1, <2>2, <2>3
<1>4. ASSUME NEW t \in Threads, Add(t) PROVE CountInv'
  <2> DEFINE g == GenOf[t]
  <2>1. /\ UNCHANGED <<endSeq, created>> /\ pc[t] = "add" /\ pc'[t] = "idle"
        /\ seqno'[g] = seqno[g] + 1 /\ made'[t] = made[t] + 1
        /\ \A h \in Generators : h # g => seqno'[h] = seqno[h]
        /\ \A u \in Threads : u # t => made'[u] = made[u] /\ pc'[u] = pc[u]
    BY <1>4 DEF Add
  <2>2. made[t] < CallsOf[t] /\ g \in created
    BY <2>1 DEF FreeInv
  <2>3. \A h \in Generators : OneBlock(h)' = OneBlock(h)
    BY DEF OneBlock, CallsTo, Calls
  <2>4. ASSUME NEW h \in Generators, h # g PROVE Made(h)' = Made(h)
    BY <2>1, <2>4 DEF Made, CallsTo, Calls
  <2>5. ASSUME OneBlock(g)
        PROVE  seqno'[g] = endSeq'[g] - blkSize + Cardinality(Made(g)')
    <3> DEFINE x == <<t, made[t]>>
    <3>1. Made(g)' = Made(g) \union {x}
      <4>1. x \in CallsTo(g)
        BY <2>2 DEF CallsTo, Calls
      <4>2. ASSUME NEW y \in CallsTo(g)
            PROVE  y[2] < made'[y[1]] <=> y[2] < made[y[1]] \/ y = x
        <5>1. y \in Threads \X Nat
          BY DEF CallsTo, Calls
        <5> QED
          BY <2>1, <5>1
      <4>3. CallsTo(g)' = CallsTo(g)
        BY DEF CallsTo, Calls
      <4> QED
        BY <4>1, <4>2, <4>3 DEF Made
    <3>2. IsFiniteSet(Made(g)) /\ x \notin Made(g)
      BY <2>2, <2>5, RoomLeft DEF Room, RoomFor
    <3>3. Cardinality(Made(g) \union {x}) = Cardinality(Made(g)) + 1
      BY <3>2, FS_AddElement
    <3>4. Cardinality(Made(g)) \in Nat
      BY <3>2, FS_CardinalityType
    <3>5. seqno[g] = endSeq[g] - blkSize + Cardinality(Made(g))
      BY <2>2, <2>5
    <3> QED
      BY <2>1, <3>1, <3>3, <3>4, <3>5
  <2>6. \A h \in created' : OneBlock(h)' =>
          seqno'[h] = endSeq'[h] - blkSize + Cardinality(Made(h)')
    BY <2>1, <2>3, <2>4, <2>5
  <2>7. \A u \in Threads :
          /\ made'[u] <= CallsOf[u] /\ (pc'[u] # "idle" => made'[u] < CallsOf[u])
          /\ GenOf[u] \notin created' => made'[u] = 0
    BY <2>1, <2>2
  <2> QED
    BY <2>6, <2>7
<1>5. CASE UNCHANGED vars
  <2>1. \A h \in Generators : Made(h)' = Made(h) /\ OneBlock(h)' = OneBlock(h)
    BY <1>5 DEF vars, Made, OneBlock, CallsTo, Calls
  <2> QED
    BY <1>5, <2>1 DEF vars
<1> QED
  BY <1>1, <1>2, <1>3, <1>4, <1>5 DEF Next

\* What the check found still holds after every step: another thread adds to
\* the same generator only if there is room for both.
LEMMA CheckStep ==
  ASSUME SafeUse, TypeOK, CountInv, FreeInv, CheckStillHolds, [Next]_vars,
         CountInv', TypeOK'
  PROVE  CheckStillHolds'
<1> SUFFICES ASSUME NEW u \in Threads, pc'[u] = "add"
             PROVE  seqno'[GenOf[u]] < endSeq'[GenOf[u]]
  BY DEF CheckStillHolds
<1> USE GeneratorAssumption DEF TypeOK
<1>1. ASSUME NEW g \in Generators, Create(g) PROVE seqno'[GenOf[u]] < endSeq'[GenOf[u]]
  BY <1>1 DEF Create, TakeBlock, CheckStillHolds
<1>2. ASSUME NEW t \in Threads, Check(t) PROVE seqno'[GenOf[u]] < endSeq'[GenOf[u]]
  BY <1>2 DEF Check, Exhausted, CheckStillHolds, FreeInv
<1>3. ASSUME NEW t \in Threads, Allocate(t) PROVE seqno'[GenOf[u]] < endSeq'[GenOf[u]]
  BY <1>3 DEF Allocate, TakeBlock, CheckStillHolds
<1>4. ASSUME NEW t \in Threads, Add(t) PROVE seqno'[GenOf[u]] < endSeq'[GenOf[u]]
  <2>1. u # t /\ pc[u] = "add" /\ UNCHANGED created
    BY <1>4 DEF Add
  <2>2. CASE GenOf[u] # GenOf[t]
    BY <1>4, <2>1, <2>2 DEF Add, CheckStillHolds
  <2>3. CASE GenOf[u] = GenOf[t]
    <3>1. OneBlock(GenOf[u])
      BY <2>1, <2>3 DEF SafeUse, Alone
    <3>2. OneBlock(GenOf[u])'
      BY <3>1 DEF OneBlock, CallsTo, Calls
    <3>3. made'[u] < CallsOf[u] /\ GenOf[u] \in created'
      BY <1>4, <2>1 DEF Add, CountInv, FreeInv
    <3> QED
      BY <3>2, <3>3, RoomLeftAfter DEF Room, RoomFor
  <2> QED
    BY <2>2, <2>3
<1>5. CASE UNCHANGED vars
  BY <1>5 DEF vars, CheckStillHolds
<1> QED
  BY <1>1, <1>2, <1>3, <1>4, <1>5 DEF Next

\* The numbers still to be given stay free.
LEMMA FreeStep ==
  ASSUME TypeOK, FreeInv, UniqueIDs, CheckStillHolds, [Next]_vars
  PROVE  FreeInv' /\ UniqueIDs'
<1> DEFINE Goal == FreeInv' /\ UniqueIDs'
<1> USE GeneratorAssumption DEF TypeOK, FreeInv, UniqueIDs, CheckStillHolds
<1>1. ASSUME NEW g \in Generators, Create(g) PROVE Goal
  BY <1>1 DEF Create, TakeBlock
<1>2. ASSUME NEW t \in Threads, Check(t) PROVE Goal
  BY <1>2 DEF Check, Exhausted
<1>3. ASSUME NEW t \in Threads, Allocate(t) PROVE Goal
  BY <1>3 DEF Allocate, TakeBlock
<1>4. ASSUME NEW t \in Threads, Add(t) PROVE Goal
  BY <1>4 DEF Add
<1>5. CASE UNCHANGED vars
  BY <1>5 DEF vars
<1> QED
  BY <1>1, <1>2, <1>3, <1>4, <1>5 DEF Next

\* If a generator that several threads share is asked for no more than its
\* first block, as in main, then no number is handed out twice, whichever
\* generators exist and whenever they take their blocks, and the check of
\* NextID still holds when the number is added.
LEMMA SafeUseIsUnique == SafeUse /\ Spec => [](UniqueIDs /\ CheckStillHolds)
<1> SUFFICES ASSUME SafeUse PROVE Spec => [](UniqueIDs /\ CheckStillHolds)
  OBVIOUS
<1> DEFINE Inv == FreeInv /\ CountInv /\ UniqueIDs /\ CheckStillHolds
<1>1. Init => Inv
  BY GeneratorAssumption DEF Init, FreeInv, CountInv, UniqueIDs, CheckStillHolds
<1>2. TypeOK /\ TypeOK' /\ Inv /\ [Next]_vars => Inv'
  BY CountStep, CheckStep, FreeStep
<1> QED
  BY <1>1, <1>2, UIDTypes, PTL DEF Spec

\* No two calls return the same id, if each generator has one caller or its
\* callers need no more than its first block.
THEOREM SafelyUsedIDsAreUnique == SafeUse /\ DemosSpec => []UniqueIDs
  BY SafeUseIsUnique, DemosAreBoth, PTL

\* Nor, then, is any thread's check out of date when it adds.
THEOREM SafelyUsedCheckHolds == SafeUse /\ DemosSpec => []CheckStillHolds
  BY SafeUseIsUnique, DemosAreBoth, PTL
-----------------------------------------------------------------------------
(* BlockGenerator                                                          *)

BlockTypes ==
  /\ next \in Int /\ end \in Int
  /\ bpc \in [Callers -> {"begin", "store", "move", "add", "returned"}]
  /\ ids \in [Callers -> Int]
  /\ overtaken \in BOOLEAN

Stale == \E c \in Callers : bpc[c] = "store" /\ next # end

Mutex ==
  \A c, d \in Callers :
    bpc[c] \in {"store", "move"} /\ bpc[d] \in {"store", "move"} => c = d

\* Before an Add comes in between, Store changes nothing, and the numbers
\* returned are those up to next.
InStep ==
  ~overtaken =>
    /\ ~Stale /\ ~Block!Repeated /\ start <= next
    /\ \A c \in Block!Returned : start < ids[c] /\ ids[c] <= next
    /\ \A n \in Int : start < n /\ n <= next => \E c \in Block!Returned : ids[c] = n

\* Afterwards a number has come twice, or it is about to: next will be, or has
\* been, set back to just before a number that has been returned, and somebody
\* is yet to add to it.
Doomed ==
  overtaken =>
    \/ Block!Repeated
    \/ \E d \in Callers, c \in Block!Returned : bpc[d] = "store" /\ ids[c] = end + 1
    \/ /\ ~Stale
       /\ \E d \in Callers, c \in Block!Returned :
            bpc[d] \in {"move", "add"} /\ ids[c] = next + 1

BlockInv == BlockTypes /\ Mutex /\ InStep /\ Doomed

\* What an Add does to the numbers that have been returned.
LEMMA AddReturns ==
  ASSUME BlockTypes, NEW c \in Callers, Block!Add(c)
  PROVE  /\ Block!Returned' = Block!Returned \union {c} /\ c \notin Block!Returned
         /\ ids'[c] = next + 1 /\ next' = next + 1 /\ end' = end
         /\ \A d \in Callers : d # c => ids'[d] = ids[d] /\ bpc'[d] = bpc[d]
  BY DEF BlockTypes, Block!Add, Block!At, Block!Returned

\* Nothing is wrong at the start.
LEMMA BlockStarts == Block!Init => BlockInv
<1> USE BlockAssumption DEF Block!BlockConstants
<1> SUFFICES ASSUME Block!Init PROVE BlockInv
  OBVIOUS
<1>1. BlockTypes
  <2>1. start \in Int /\ end \in Int
    BY DEF Block!Init
  <2>2. bpc \in [Callers -> {"begin", "store", "move", "add", "returned"}]
    BY DEF Block!Init
  <2>3. ids \in [Callers -> Int]
    BY <2>1 DEF Block!Init
  <2> QED
    BY <2>1, <2>2, <2>3 DEF Block!Init, BlockTypes
<1>2. Block!Returned = {} /\ ~overtaken /\ \A c \in Callers : bpc[c] = "begin"
  BY DEF Block!Init, Block!Returned
<1>3. InStep
  BY <1>2 DEF Block!Init, InStep, Stale, Block!Repeated
<1> QED
  BY <1>1, <1>2, <1>3 DEF BlockInv, Mutex, Doomed

\* The inductive step, one case for each section of NextID.
LEMMA BlockStep == BlockInv /\ [Block!Next]_blockVars => BlockInv'
<1> USE BlockAssumption DEF Block!BlockConstants
<1> SUFFICES ASSUME BlockInv, [Block!Next]_blockVars PROVE BlockInv'
  OBVIOUS
<1> USE DEF BlockInv
<1>1. ASSUME NEW c \in Callers, Block!Look(c) PROVE BlockInv'
  <2>1. BlockTypes' /\ Block!Returned' = Block!Returned /\ UNCHANGED <<next, end, ids, overtaken>>
    BY <1>1 DEF Block!Look, Block!At, BlockTypes, Block!Returned
  <2>2. Block!Repeated' <=> Block!Repeated
    BY <2>1 DEF Block!Repeated
  <2>3. Mutex'
    BY <1>1 DEF Block!Look, Block!At, BlockTypes, Mutex
  <2>4. ~Stale => ~Stale'
    BY <1>1 DEF Block!Look, Block!At, BlockTypes, Stale
  <2>5. InStep'
    BY <2>1, <2>2, <2>4 DEF InStep
  <2>6. \A d \in Callers : bpc[d] # "begin" => bpc'[d] = bpc[d]
    BY <1>1 DEF Block!Look, Block!At, BlockTypes
  <2>7. Doomed'
    BY <2>1, <2>2, <2>4, <2>6 DEF Doomed
  <2> QED
    BY <2>1, <2>3, <2>5, <2>7
<1>2. ASSUME NEW c \in Callers, Block!Store(c) PROVE BlockInv'
  <2>1. /\ BlockTypes' /\ Block!Returned' = Block!Returned /\ UNCHANGED <<end, ids, overtaken>>
        /\ next' = end /\ bpc[c] = "store" /\ bpc'[c] = "move"
        /\ \A d \in Callers : d # c => bpc'[d] = bpc[d]
    BY <1>2 DEF Block!Store, Block!At, BlockTypes, Block!Returned
  <2>2. Block!Repeated' <=> Block!Repeated
    BY <2>1 DEF Block!Repeated
  <2>3. Mutex'
    BY <2>1 DEF Mutex
  <2>4. ~Stale' /\ (~Stale => next = end)
    BY <2>1 DEF Stale
  <2>5. InStep'
    BY <2>1, <2>2, <2>4 DEF InStep
  <2>6. Doomed'
    BY <2>1, <2>2, <2>4 DEF Doomed
  <2> QED
    BY <2>1, <2>3, <2>5, <2>6
<1>3. ASSUME NEW c \in Callers, Block!Move(c) PROVE BlockInv'
  <2>1. /\ BlockTypes' /\ Block!Returned' = Block!Returned /\ UNCHANGED <<next, ids, overtaken>>
        /\ bpc[c] = "move" /\ bpc'[c] = "add"
        /\ \A d \in Callers : d # c => bpc'[d] = bpc[d]
    BY <1>3 DEF Block!Move, Block!At, BlockTypes, Block!Returned
  <2>2. Block!Repeated' <=> Block!Repeated
    BY <2>1 DEF Block!Repeated
  <2>3. Mutex' /\ ~Stale' /\ \A d \in Callers : bpc[d] # "store"
    BY <2>1 DEF Mutex, Stale
  <2>4. InStep'
    BY <2>1, <2>2, <2>3 DEF InStep
  <2>5. Doomed'
    BY <2>1, <2>2, <2>3 DEF Doomed
  <2> QED
    BY <2>1, <2>3, <2>4, <2>5
<1>4. ASSUME NEW c \in Callers, Block!Add(c) PROVE BlockInv'
  <2>1. BlockTypes' /\ Mutex' /\ bpc[c] = "add" /\ bpc'[c] = "returned"
    BY <1>4 DEF Block!Add, Block!At, BlockTypes, Mutex
  <2>2. overtaken' <=> overtaken \/ \E d \in Callers : bpc[d] = "store"
    BY <1>4 DEF Block!Add, BlockTypes
  <2>3. Block!Repeated => Block!Repeated'
    BY <1>4, AddReturns DEF Block!Repeated, Block!Returned
  <2>4. InStep'
    <3> SUFFICES ASSUME ~overtaken'
                 PROVE  /\ ~Stale' /\ ~Block!Repeated' /\ start <= next'
                        /\ \A d \in Block!Returned' : start < ids'[d] /\ ids'[d] <= next'
                        /\ \A n \in Int : start < n /\ n <= next' =>
                             \E d \in Block!Returned' : ids'[d] = n
      BY DEF InStep
    <3>1. ~Stale'
      BY <1>4, <2>1, <2>2, AddReturns DEF Stale
    <3>2. /\ ~Block!Repeated /\ start <= next
          /\ \A d \in Block!Returned : start < ids[d] /\ ids[d] <= next
          /\ \A n \in Int : start < n /\ n <= next => \E d \in Block!Returned : ids[d] = n
      BY <2>2 DEF InStep
    <3>3. \A d \in Block!Returned : d \in Callers /\ d # c /\ ids'[d] = ids[d]
      BY <1>4, AddReturns DEF Block!Returned
    <3>4. next \in Int /\ start <= next' /\ \A d \in Block!Returned : ids[d] \in Int
      BY <1>4, <3>2, AddReturns DEF BlockTypes, Block!Returned
    <3>5. ~Block!Repeated'
      BY <1>4, <3>2, <3>3, <3>4, AddReturns DEF Block!Repeated
    <3>6. \A d \in Block!Returned' : start < ids'[d] /\ ids'[d] <= next'
      BY <1>4, <3>2, <3>3, <3>4, AddReturns
    <3>7. ASSUME NEW n \in Int, start < n, n <= next'
          PROVE  \E d \in Block!Returned' : ids'[d] = n
      BY <1>4, <3>2, <3>3, <3>4, <3>7, AddReturns
    <3> QED
      BY <3>1, <3>4, <3>5, <3>6, <3>7
  <2>5. Doomed'
    <3>1. CASE ~overtaken
      BY <1>4, <2>1, <2>2, <3>1, AddReturns DEF InStep, Doomed, Stale, BlockTypes
    <3>2. CASE Block!Repeated
      BY <2>3, <3>2 DEF Doomed
    <3>3. ASSUME NEW d \in Callers, NEW e \in Block!Returned,
                 bpc[d] = "store", ids[e] = end + 1
          PROVE  Doomed'
      BY <1>4, <2>1, <3>3, AddReturns DEF Doomed, Block!Returned
    <3>4. ASSUME NEW e \in Block!Returned, ids[e] = next + 1
          PROVE  Block!Repeated'
      BY <1>4, <3>4, AddReturns DEF Block!Repeated, Block!Returned
    <3> QED
      BY <3>1, <3>2, <3>3, <3>4 DEF Doomed
  <2> QED
    BY <2>1, <2>4, <2>5
<1>5. CASE UNCHANGED blockVars
  BY <1>5 DEF blockVars, BlockTypes, Mutex, InStep, Doomed, Block!Returned, Block!Repeated, Stale
<1> QED
  BY <1>1, <1>2, <1>3, <1>4, <1>5 DEF Block!Next

\* What the invariant says of the numbers, in the words of the property.
LEMMA BlockImplies == BlockInv => Block!RepeatsIffOvertaken
<1> USE BlockAssumption DEF Block!BlockConstants
<1>1. ASSUME BlockInv, overtaken, Block!Returned = Callers PROVE Block!Repeated
  BY <1>1 DEF BlockInv, Doomed, Block!Returned
<1>2. ASSUME BlockInv, ~overtaken, NEW n \in start + 1 .. next
      PROVE  \E c \in Block!Returned : ids[c] = n
  BY <1>2 DEF BlockInv, InStep, BlockTypes
<1> QED
  BY <1>1, <1>2 DEF Block!RepeatsIffOvertaken, BlockInv, InStep

\* The numbers follow each other until two calls meet at the end of a block,
\* and then one of them is returned twice.
THEOREM RepeatsWhenOvertaken == DemosSpec => []RepeatsIffOvertaken
<1>1. Block!Spec => []Block!RepeatsIffOvertaken
  <2>1. Block!vars = blockVars
    BY DEF Block!vars, blockVars
  <2>2. BlockInv /\ [Block!Next]_(Block!vars) => BlockInv'
    BY <2>1, BlockStep DEF blockVars, Block!vars
  <2> QED
    BY <2>2, BlockStarts, BlockImplies, PTL DEF Block!Spec
<1> QED
  BY <1>1, DemosAreBoth, PTL DEF RepeatsIffOvertaken
=============================================================================
