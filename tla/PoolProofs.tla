----------------------------- MODULE PoolProofs -----------------------------
(***************************************************************************)
(* Proofs about PoolDemos: the types, that only one goroutine fetches for  *)
(* a buffer and no id is skipped, that no generator returns an id twice,   *)
(* and that a closed WorkerGenerator leaves the source alone; for any      *)
(* number of callers, any size of a batch and any number of failures.      *)
(***************************************************************************)
EXTENDS PoolDemos, SequenceTheorems, FiniteSetTheorems, TLAPS

-----------------------------------------------------------------------------
(* Ids in stock: h[p] is the batch, or what is left of it, at the place p. *)

\* No id is in stock twice, has been given, or is yet to come from the source.
Stock(h, G, n) ==
  /\ \A x \in G : x \in Nat /\ x < n
  /\ \A p \in DOMAIN h :
       /\ h[p] \in Seq(Nat)
       /\ \A i \in 1 .. Len(h[p]) : h[p][i] < n /\ h[p][i] \notin G
  /\ \A p, q \in DOMAIN h : \A i \in 1 .. Len(h[p]), j \in 1 .. Len(h[q]) :
       h[p][i] = h[q][j] => p = q /\ i = j

\* The source has handed out no id that is neither given nor in stock.
Covers(h, G, n) ==
  \A x \in Nat : x < n =>
    x \in G \/ \E p \in DOMAIN h : \E i \in 1 .. Len(h[p]) : h[p][i] = x

\* The ids in stock change places, and some of them are lost: what is at p now
\* was at m[p].
Moves(h, k, m) ==
  /\ \A p \in DOMAIN k : k[p] # <<>> => m[p] \in DOMAIN h /\ k[p] = h[m[p]]
  /\ \A p, q \in DOMAIN k : k[p] # <<>> /\ k[q] # <<>> /\ m[p] = m[q] => p = q

\* One batch goes from q to p, and others may be lost.
OneMoves(h, k, p, q) ==
  \A r \in DOMAIN k : k[r] # <<>> =>
    \/ r # p /\ r # q /\ r \in DOMAIN h /\ k[r] = h[r]
    \/ r = p /\ q \in DOMAIN h /\ k[r] = h[q]

\* What is in stock at q stays so.
Keeps(h, k) == \A q \in DOMAIN h : h[q] # <<>> => \E p \in DOMAIN k : k[p] = h[q]

\* Only the place p changes, and it may be new.
OnlyAt(h, k, p) ==
  p \in DOMAIN k /\ \A q \in DOMAIN k : q # p => q \in DOMAIN h /\ k[q] = h[q]

Batch(n, b) == [i \in 1 .. b |-> n + i - 1]

\* Ids that change places, or are lost, are still in stock once only.
LEMMA StockMoves ==
  ASSUME NEW h, NEW k, NEW m, NEW G, NEW n \in Nat, Stock(h, G, n), Moves(h, k, m)
  PROVE  Stock(k, G, n)
<1>1. ASSUME NEW p \in DOMAIN k, k[p] = <<>>
      PROVE  k[p] \in Seq(Nat) /\ 1 .. Len(k[p]) = {}
  BY <1>1
<1>2. ASSUME NEW p \in DOMAIN k, k[p] # <<>>
      PROVE  m[p] \in DOMAIN h /\ k[p] = h[m[p]]
  BY <1>2 DEF Moves
<1>3. ASSUME NEW p \in DOMAIN k
      PROVE  /\ k[p] \in Seq(Nat)
             /\ \A i \in 1 .. Len(k[p]) : k[p][i] < n /\ k[p][i] \notin G
  BY <1>1, <1>2 DEF Stock
<1>4. ASSUME NEW p \in DOMAIN k, NEW q \in DOMAIN k,
             NEW i \in 1 .. Len(k[p]), NEW j \in 1 .. Len(k[q]), k[p][i] = k[q][j]
      PROVE  p = q /\ i = j
  <2>1. k[p] # <<>> /\ k[q] # <<>>
    BY <1>1
  <2>2. m[p] = m[q] /\ i = j
    BY <1>2, <1>4, <2>1 DEF Stock
  <2> QED
    BY <2>1, <2>2 DEF Moves
<1> QED
  BY <1>3, <1>4 DEF Stock

\* The same if one batch goes from q to p and others are lost.
LEMMA StockMovesOne ==
  ASSUME NEW h, NEW k, NEW p, NEW q, NEW G, NEW n \in Nat, Stock(h, G, n),
         OneMoves(h, k, p, q)
  PROVE  Stock(k, G, n)
<1> DEFINE m == [r \in DOMAIN k |-> IF r = p THEN q ELSE r]
<1>1. ASSUME NEW r \in DOMAIN k, k[r] # <<>>
      PROVE  m[r] \in DOMAIN h /\ k[r] = h[m[r]] /\ (r = q => p = q)
  BY <1>1 DEF OneMoves
<1>2. ASSUME NEW r \in DOMAIN k, NEW s \in DOMAIN k, k[r] # <<>>, k[s] # <<>>, m[r] = m[s]
      PROVE  r = s
  BY <1>2, <1>1
<1>3. Moves(h, k, m)
  BY <1>1, <1>2 DEF Moves
<1> QED
  BY <1>3, StockMoves

\* The source's next batch is new.
LEMMA StockFetch ==
  ASSUME NEW h, NEW k, NEW p, NEW G, NEW n \in Nat, NEW b \in Nat,
         Stock(h, G, n), OnlyAt(h, k, p), k[p] = Batch(n, b)
  PROVE  Stock(k, G, n + b)
<1>1. /\ k[p] \in Seq(Nat) /\ Len(k[p]) = b
      /\ \A i \in 1 .. b : k[p][i] = n + i - 1
  BY DEF Batch
<1>2. ASSUME NEW q \in DOMAIN k, q # p
      PROVE  /\ q \in DOMAIN h /\ k[q] = h[q] /\ k[q] \in Seq(Nat)
             /\ \A i \in 1 .. Len(k[q]) :
                  k[q][i] \in Nat /\ k[q][i] < n /\ k[q][i] \notin G
  BY <1>2, ElementOfSeq DEF OnlyAt, Stock
<1>3. ASSUME NEW q \in DOMAIN k
      PROVE  /\ k[q] \in Seq(Nat)
             /\ \A i \in 1 .. Len(k[q]) : k[q][i] < n + b /\ k[q][i] \notin G
  <2>1. CASE q = p
    BY <1>1, <2>1 DEF Stock
  <2>2. CASE q # p
    BY <1>2, <2>2
  <2> QED
    BY <2>1, <2>2
<1>4. ASSUME NEW q \in DOMAIN k, NEW r \in DOMAIN k,
             NEW i \in 1 .. Len(k[q]), NEW j \in 1 .. Len(k[r]), k[q][i] = k[r][j]
      PROVE  q = r /\ i = j
  <2>1. CASE q = p /\ r = p
    BY <1>1, <1>4, <2>1
  <2>2. CASE q = p /\ r # p
    BY <1>1, <1>2, <1>4, <2>2
  <2>3. CASE q # p /\ r = p
    BY <1>1, <1>2, <1>4, <2>3
  <2>4. CASE q # p /\ r # p
    BY <1>2, <1>4, <2>4 DEF Stock
  <2> QED
    BY <2>1, <2>2, <2>3, <2>4
<1>5. \A x \in G : x \in Nat /\ x < n + b
  BY DEF Stock
<1> QED
  BY <1>3, <1>4, <1>5 DEF Stock

\* Taking the last id of a batch.
LEMMA FrontLast ==
  ASSUME NEW s \in Seq(Nat), s # <<>>
  PROVE  /\ Len(s) \in Nat \ {0} /\ Front(s) \in Seq(Nat)
         /\ Len(Front(s)) = Len(s) - 1
         /\ \A i \in 1 .. Len(s) - 1 : Front(s)[i] = s[i]
         /\ Last(s) = s[Len(s)] /\ Last(s) \in Nat
<1>1. Len(s) \in Nat \ {0}
  BY EmptySeq
<1>2. \A i \in 1 .. Len(s) - 1 : s[i] \in Nat
  BY <1>1
<1> DEFINE l == Len(s) - 1
<1>3. l \in Nat /\ (\A i \in 1 .. l : s[i] \in Nat)
  BY <1>1, <1>2
<1> HIDE DEF l
<1>4. /\ SubSeq(s, 1, l) \in Seq(Nat) /\ Len(SubSeq(s, 1, l)) = l
      /\ \A i \in 1 .. l : SubSeq(s, 1, l)[i] = s[i]
  BY <1>3, SubSeqProperties
<1> QED
  BY <1>1, <1>4 DEF Last, Front, l

\* An id that is taken was not given before, and is now.
LEMMA StockTake ==
  ASSUME NEW h, NEW k, NEW p \in DOMAIN h, NEW G, NEW n \in Nat,
         Stock(h, G, n), OnlyAt(h, k, p), h[p] # <<>>, k[p] = Front(h[p])
  PROVE  /\ Last(h[p]) \in Nat /\ Last(h[p]) < n /\ Last(h[p]) \notin G
         /\ Stock(k, G \union {Last(h[p])}, n)
<1> DEFINE id == Last(h[p])
<1>1. /\ Len(h[p]) \in Nat \ {0} /\ k[p] \in Seq(Nat) /\ Len(k[p]) = Len(h[p]) - 1
      /\ \A i \in 1 .. Len(h[p]) - 1 : k[p][i] = h[p][i]
      /\ id = h[p][Len(h[p])] /\ id \in Nat
  BY FrontLast DEF Stock
<1>2. id < n /\ id \notin G
  BY <1>1 DEF Stock
<1> HIDE DEF id
<1>3. ASSUME NEW q \in DOMAIN k
      PROVE  /\ q \in DOMAIN h /\ k[q] \in Seq(Nat) /\ Len(k[q]) <= Len(h[q])
             /\ Len(h[q]) \in Nat /\ Len(k[q]) \in Nat
             /\ \A i \in 1 .. Len(k[q]) : i \in 1 .. Len(h[q]) /\ k[q][i] = h[q][i]
             /\ q = p => Len(k[q]) < Len(h[q])
  <2>1. CASE q = p
    BY <1>1, <2>1
  <2>2. CASE q # p
    BY <2>2 DEF OnlyAt, Stock
  <2> QED
    BY <2>1, <2>2
<1>4. ASSUME NEW q \in DOMAIN k, NEW i \in 1 .. Len(k[q])
      PROVE  k[q][i] < n /\ k[q][i] \notin G /\ k[q][i] # id
  <2>1. k[q][i] = h[q][i] /\ i \in 1 .. Len(h[q])
    BY <1>3
  <2>2. k[q][i] = id => q = p /\ i = Len(h[p])
    BY <1>1, <1>3, <2>1, SMTT(30) DEF Stock
  <2> QED
    BY <1>3, <2>1, <2>2 DEF Stock
<1>5. ASSUME NEW q \in DOMAIN k, NEW r \in DOMAIN k,
             NEW i \in 1 .. Len(k[q]), NEW j \in 1 .. Len(k[r]), k[q][i] = k[r][j]
      PROVE  q = r /\ i = j
  BY <1>3, <1>5 DEF Stock
<1>6. \A x \in G \union {id} : x \in Nat /\ x < n
  BY <1>1, <1>2 DEF Stock
<1> QED
  BY <1>1, <1>2, <1>3, <1>4, <1>5, <1>6 DEF Stock, id

\* The same three steps skip no id, unless they lose one.
LEMMA CoversMoves ==
  ASSUME NEW h, NEW k, NEW G, NEW n, Covers(h, G, n), Keeps(h, k),
         \A p \in DOMAIN h : h[p] \in Seq(Nat)
  PROVE  Covers(k, G, n)
<1> SUFFICES ASSUME NEW x \in Nat, x < n, x \notin G
             PROVE  \E p \in DOMAIN k : \E i \in 1 .. Len(k[p]) : k[p][i] = x
  BY DEF Covers
<1>1. PICK q \in DOMAIN h : \E i \in 1 .. Len(h[q]) : h[q][i] = x
  BY DEF Covers
<1>2. h[q] # <<>>
  BY <1>1
<1> QED
  BY <1>1, <1>2 DEF Keeps

\* A batch that is fetched covers the ids that are new.
LEMMA CoversFetch ==
  ASSUME NEW h, NEW k, NEW p, NEW G, NEW n \in Nat, NEW b \in Nat,
         Covers(h, G, n), OnlyAt(h, k, p), DOMAIN h \subseteq DOMAIN k,
         p \in DOMAIN h => h[p] = <<>>, k[p] = Batch(n, b)
  PROVE  Covers(k, G, n + b)
<1> SUFFICES ASSUME NEW x \in Nat, x < n + b, x \notin G
             PROVE  \E q \in DOMAIN k : \E i \in 1 .. Len(k[q]) : k[q][i] = x
  BY DEF Covers
<1>1. CASE x < n
  <2>1. PICK q \in DOMAIN h : \E i \in 1 .. Len(h[q]) : h[q][i] = x
    BY <1>1 DEF Covers
  <2>2. q # p
    BY <2>1
  <2> QED
    BY <2>1, <2>2 DEF OnlyAt
<1>2. CASE x >= n
  <2>1. x - n + 1 \in 1 .. b /\ Len(k[p]) = b
    BY <1>2 DEF Batch
  <2>2. k[p][x - n + 1] = x
    BY <2>1 DEF Batch
  <2> QED
    BY <2>1, <2>2 DEF OnlyAt
<1> QED
  BY <1>1, <1>2

\* The id that is taken leaves the stock for those given out.
LEMMA CoversTake ==
  ASSUME NEW h, NEW k, NEW p \in DOMAIN h, NEW G, NEW n, Covers(h, G, n),
         OnlyAt(h, k, p), DOMAIN h \subseteq DOMAIN k,
         h[p] \in Seq(Nat), h[p] # <<>>, k[p] = Front(h[p])
  PROVE  Covers(k, G \union {Last(h[p])}, n)
<1> SUFFICES ASSUME NEW x \in Nat, x < n, x \notin G, x # Last(h[p])
             PROVE  \E q \in DOMAIN k : \E i \in 1 .. Len(k[q]) : k[q][i] = x
  BY DEF Covers
<1>1. PICK q \in DOMAIN h : \E i \in 1 .. Len(h[q]) : h[q][i] = x
  BY DEF Covers
<1>2. CASE q # p
  BY <1>1, <1>2 DEF OnlyAt
<1>3. CASE q = p
  <2>1. PICK i \in 1 .. Len(h[p]) : h[p][i] = x
    BY <1>1, <1>3
  <2>2. i \in 1 .. Len(k[p]) /\ k[p][i] = x
    <3>1. /\ Len(h[p]) \in Nat \ {0} /\ Len(k[p]) = Len(h[p]) - 1
          /\ \A j \in 1 .. Len(h[p]) - 1 : k[p][j] = h[p][j]
          /\ Last(h[p]) = h[p][Len(h[p])]
      BY FrontLast
    <3> QED
      BY <2>1, <3>1
  <2> QED
    BY <1>3, <2>2 DEF OnlyAt
<1> QED
  BY <1>2, <1>3
-----------------------------------------------------------------------------
(* Ids that have been given                                                *)

GotOK == got \in [Callers -> Seq(Nat)]
Given == {x \in Nat : \E c \in Callers : \E i \in 1 .. Len(got[c]) : got[c][i] = x}

\* The ids given are those of FreshIDs.
LEMMA GivenIsGiven == GotOK => Fresh!Given = Given
<1> SUFFICES ASSUME GotOK PROVE Fresh!Given = Given
  OBVIOUS
<1>1. ASSUME NEW c \in Callers
      PROVE  Fresh!Range(got[c]) = {got[c][i] : i \in 1 .. Len(got[c])}
  BY DEF GotOK, Fresh!Range
<1>2. ASSUME NEW c \in Callers, NEW i \in 1 .. Len(got[c]) PROVE got[c][i] \in Nat
  BY DEF GotOK
<1>3. ASSUME NEW x \in Fresh!Given PROVE x \in Given
  <2>1. PICK c \in Callers : x \in Fresh!Range(got[c])
    BY DEF Fresh!Given
  <2>2. PICK i \in 1 .. Len(got[c]) : x = got[c][i]
    BY <1>1, <2>1
  <2> QED
    BY <1>2, <2>2 DEF Given
<1>4. ASSUME NEW x \in Given PROVE x \in Fresh!Given
  <2>1. PICK c \in Callers : \E i \in 1 .. Len(got[c]) : got[c][i] = x
    BY DEF Given
  <2>2. x \in Fresh!Range(got[c])
    BY <1>1, <2>1
  <2> QED
    BY <2>2 DEF Fresh!Given
<1> QED
  BY <1>3, <1>4

\* A call that returns an id adds it to those given; it is a step of FreshIDs
\* if the id was not given before.
LEMMA Gives ==
  ASSUME GotOK, NEW c \in Callers, NEW id \in Nat,
         got' = [got EXCEPT ![c] = Append(@, id)]
  PROVE  GotOK' /\ Given' = Given \union {id} /\ (id \notin Given => Fresh!Next)
<1>1. /\ Len(got[c]) \in Nat /\ Len(got'[c]) = Len(got[c]) + 1
      /\ \A i \in 1 .. Len(got[c]) : got'[c][i] = got[c][i]
      /\ got'[c][Len(got'[c])] = id
      /\ \A d \in Callers : d # c => got'[d] = got[d]
      /\ GotOK'
  BY DEF GotOK
<1>2. ASSUME NEW x \in Given PROVE x \in Given'
  <2>1. PICK d \in Callers : \E i \in 1 .. Len(got[d]) : got[d][i] = x
    BY DEF Given
  <2>2. x \in Nat
    BY DEF Given
  <2> QED
    BY <1>1, <2>1, <2>2 DEF Given
<1>3. id \in Given'
  <2>1. Len(got'[c]) \in 1 .. Len(got'[c])
    BY <1>1
  <2> QED
    BY <1>1, <2>1 DEF Given
<1>4. ASSUME NEW x \in Given' PROVE x \in Given \union {id}
  <2>1. PICK d \in Callers : \E i \in 1 .. Len(got'[d]) : got'[d][i] = x
    BY DEF Given
  <2>2. PICK i \in 1 .. Len(got'[d]) : got'[d][i] = x
    BY <2>1
  <2>3. x \in Nat
    BY DEF Given
  <2>4. CASE d # c
    BY <1>1, <2>2, <2>3, <2>4 DEF Given
  <2>5. CASE d = c /\ i <= Len(got[c])
    <3>1. i \in 1 .. Len(got[c]) /\ got[c][i] = x
      BY <1>1, <2>2, <2>5
    <3> QED
      BY <2>3, <3>1 DEF Given
  <2>6. CASE d = c /\ i = Len(got'[c])
    BY <1>1, <2>2, <2>6
  <2> QED
    BY <1>1, <2>4, <2>5, <2>6
<1>5. Given' = Given \union {id}
  BY <1>2, <1>3, <1>4
<1>6. ASSUME id \notin Given PROVE Fresh!Next
  <2>1. Fresh!Given = Given /\ Fresh!Given' = Given'
    <3>1. (GotOK => Fresh!Given = Given)'
      BY GivenIsGiven, PTL
    <3> QED
      BY <1>1, <3>1, GivenIsGiven
  <2>2. id \in Fresh!Given' \ Fresh!Given
    BY <1>5, <1>6, <2>1
  <2> QED
    BY <2>2 DEF Fresh!Next, Fresh!Give
<1> QED
  BY <1>1, <1>5, <1>6
-----------------------------------------------------------------------------
(* SingleBuffer                                                            *)

SinglePlaces == ({"buffer"} \X {0}) \union ({"fetched"} \X Callers)
SingleHeld == [p \in SinglePlaces |-> IF p[1] = "buffer" THEN buffer ELSE fetched[p[2]]]

\* Who refills finds the buffer as it left it; a batch is in hand only between
\* fetching and storing; every id is in one place.
SingleControl ==
  /\ Single!TypeOK /\ Single!OneRefills
  /\ \A c \in Callers : fetched[c] # <<>> => pc[c] = "store"

SingleInv ==
  /\ SingleControl
  /\ Stock(SingleHeld, Given, next)
  /\ ~closed => Covers(SingleHeld, Given, next)

\* Woken callers go on to get.
LEMMA WakeUps ==
  ASSUME NEW p \in [Callers -> {"idle", "get", "fetch", "store", "waiting"}]
  PROVE  /\ Single!WakeAll(p) \in [Callers -> {"idle", "get", "fetch", "store", "waiting"}]
         /\ \A d \in Callers : Single!WakeAll(p)[d] \in {"fetch", "store"} <=>
                                 p[d] \in {"fetch", "store"}
         /\ \A d \in Callers : p[d] \in {"fetch", "store"} => Single!WakeAll(p)[d] = p[d]
  BY DEF Single!WakeAll

\* One action at a time.
LEMMA SingleControlStep ==
  ASSUME SingleControl, Single!Next
  PROVE  SingleControl'
<1> USE PoolAssumption DEF SingleControl, Single!TypeOK, Single!OneRefills
<1>1. ASSUME NEW c \in Callers, Single!Call(c) PROVE SingleControl'
  BY <1>1 DEF Single!Call
<1>2. ASSUME NEW c \in Callers, Single!Fail(c) PROVE SingleControl'
  BY <1>2 DEF Single!Fail
<1>3. ASSUME NEW c \in Callers, Single!Take(c) PROVE SingleControl'
  <2>1. Front(buffer) \in Seq(Nat) /\ Last(buffer) \in Nat
    BY <1>3, FrontLast DEF Single!Take
  <2>2. buffer' \in Seq(Nat) /\ got' \in [Callers -> Seq(Nat)]
    BY <1>3, <2>1 DEF Single!Take, Single!Front, Single!Last, Front, Last
  <2> QED
    BY <1>3, <2>2 DEF Single!Take
<1>4. ASSUME NEW c \in Callers, Single!StartRefill(c) PROVE SingleControl'
  BY <1>4 DEF Single!StartRefill, Single!NobodyRefills
<1>5. ASSUME NEW c \in Callers, Single!Wait(c) PROVE SingleControl'
  BY <1>5 DEF Single!Wait
<1>6. ASSUME NEW c \in Callers, Single!Fetch(c) PROVE SingleControl'
  <2>1. Single!GetIDs(next) \in Seq(Nat)
    BY DEF Single!GetIDs
  <2>2. fetched' \in [Callers -> Seq(Nat)]
    BY <1>6, <2>1 DEF Single!Fetch
  <2>3. next' \in Nat /\ faults' \in 0 .. MaxFaults
    BY <1>6 DEF Single!Fetch
  <2> QED
    BY <1>6, <2>2, <2>3 DEF Single!Fetch
<1>7. ASSUME NEW c \in Callers, Single!Store(c) PROVE SingleControl'
  <2> DEFINE p == [pc EXCEPT ![c] = IF Single!CanStore(c) THEN "get" ELSE "idle"]
  <2>1. p \in [Callers -> {"idle", "get", "fetch", "store", "waiting"}]
    OBVIOUS
  <2>2. pc' = Single!WakeAll(p)
    BY <1>7 DEF Single!Store
  <2>3. \A d \in Callers : p[d] \in {"fetch", "store"} <=> d # c /\ pc[d] \in {"fetch", "store"}
    OBVIOUS
  <2>4. \A d \in Callers : pc[d] \in {"fetch", "store"} => d = c
    BY <1>7 DEF Single!Store
  <2> HIDE DEF p
  <2>5. /\ pc' \in [Callers -> {"idle", "get", "fetch", "store", "waiting"}]
        /\ \A d \in Callers : pc'[d] \notin {"fetch", "store"}
    BY <2>1, <2>2, <2>3, <2>4, WakeUps
  <2>6. fetched' \in [Callers -> Seq(Nat)] /\ buffer' \in Seq(Nat)
    BY <1>7 DEF Single!Store
  <2>7. \A d \in Callers : fetched'[d] = <<>>
    BY <1>7, <2>4 DEF Single!Store
  <2> QED
    BY <1>7, <2>5, <2>6, <2>7 DEF Single!Store
<1>8. CASE Single!Close
  <2>1. /\ pc' \in [Callers -> {"idle", "get", "fetch", "store", "waiting"}]
        /\ \A d \in Callers : pc'[d] \in {"fetch", "store"} <=> pc[d] \in {"fetch", "store"}
        /\ \A d \in Callers : pc[d] \in {"fetch", "store"} => pc'[d] = pc[d]
    BY <1>8, WakeUps DEF Single!Close
  <2> QED
    BY <1>8, <2>1 DEF Single!Close
<1> QED
  BY <1>1, <1>2, <1>3, <1>4, <1>5, <1>6, <1>7, <1>8 DEF Single!Next, Single!Step

\* The places of SingleHeld.
LEMMA SingleAt ==
  /\ DOMAIN SingleHeld = SinglePlaces
  /\ <<"buffer", 0>> \in SinglePlaces /\ SingleHeld[<<"buffer", 0>>] = buffer
  /\ \A c \in Callers :
       <<"fetched", c>> \in SinglePlaces /\ SingleHeld[<<"fetched", c>>] = fetched[c]
  /\ \A p \in SinglePlaces :
       p = <<"buffer", 0>> \/ \E c \in Callers : p = <<"fetched", c>>
  BY DEF SingleHeld, SinglePlaces

\* The same of the next state.
LEMMA SingleAtNext ==
  /\ DOMAIN SingleHeld' = SinglePlaces
  /\ SingleHeld'[<<"buffer", 0>>] = buffer'
  /\ \A c \in Callers : SingleHeld'[<<"fetched", c>>] = fetched'[c]
  BY SingleAt DEF SingleHeld, SinglePlaces

\* A step keeps every id in one place, skips none unless the generator is
\* closed, and returns none that has been given.
LEMMA SingleInvStep ==
  ASSUME SingleInv, Single!Next
  PROVE  SingleInv' /\ (Fresh!Next \/ UNCHANGED got)
<1> DEFINE h == SingleHeld
           k == SingleHeld'
           Goal == /\ Stock(SingleHeld', Given', next')
                   /\ ~closed' => Covers(SingleHeld', Given', next')
                   /\ Fresh!Next \/ UNCHANGED got
<1>0. SingleControl /\ SingleControl' /\ GotOK
  BY SingleControlStep DEF SingleInv, SingleControl, Single!TypeOK, GotOK
<1>1. Stock(h, Given, next) /\ (~closed => Covers(h, Given, next))
  BY DEF SingleInv
<1>2. next \in Nat /\ buffer \in Seq(Nat) /\ fetched \in [Callers -> Seq(Nat)]
  BY <1>0 DEF SingleControl, Single!TypeOK
<1>3. /\ \A p \in DOMAIN h : h[p] \in Seq(Nat)
      /\ DOMAIN h = SinglePlaces /\ DOMAIN k = SinglePlaces
  BY <1>1, SingleAt, SingleAtNext DEF Stock
<1>4. got' = got => Given' = Given
  BY DEF Given
<1>5. ASSUME UNCHANGED <<buffer, fetched, next, closed, got>> PROVE Goal
  <2>1. k = h
    BY <1>5 DEF SingleHeld
  <2> QED
    BY <1>1, <1>4, <1>5, <2>1
<1>6. ASSUME NEW c \in Callers, Single!Take(c) PROVE Goal
  <2> DEFINE p == <<"buffer", 0>>
  <2>1. /\ buffer # <<>> /\ buffer' = Front(buffer)
        /\ got' = [got EXCEPT ![c] = Append(@, Last(buffer))]
        /\ UNCHANGED <<next, fetched, closed>>
    BY <1>6 DEF Single!Take, Single!Front, Single!Last, Front, Last
  <2>2. /\ p \in DOMAIN h /\ h[p] = buffer /\ k[p] = Front(h[p])
        /\ OnlyAt(h, k, p) /\ DOMAIN h \subseteq DOMAIN k
    BY <1>3, <2>1, SingleAt, SingleAtNext DEF OnlyAt
  <2> HIDE DEF h, k, p
  <2>3. /\ Last(h[p]) \in Nat /\ Last(h[p]) \notin Given
        /\ Stock(k, Given \union {Last(h[p])}, next)
    BY <1>1, <1>2, <2>1, <2>2, StockTake
  <2>4. ~closed => Covers(k, Given \union {Last(h[p])}, next)
    BY <1>1, <1>2, <2>1, <2>2, CoversTake
  <2>5. Given' = Given \union {Last(h[p])} /\ Fresh!Next
    BY <1>0, <2>1, <2>2, <2>3, Gives
  <2> QED
    BY <2>1, <2>3, <2>4, <2>5 DEF k
<1>7. ASSUME NEW c \in Callers, Single!Fetch(c), fetched' # fetched \/ next' # next
      PROVE  Goal
  <2> DEFINE p == <<"fetched", c>>
  <2>1. /\ fetched' = [fetched EXCEPT ![c] = Batch(next, batch)]
        /\ next' = next + batch /\ UNCHANGED <<buffer, closed, got>> /\ pc[c] = "fetch"
    BY <1>7 DEF Single!Fetch, Single!GetIDs, Batch
  <2>2. fetched[c] = <<>>
    BY <1>0, <2>1 DEF SingleControl
  <2>3. /\ p \in DOMAIN h /\ h[p] = <<>> /\ k[p] = Batch(next, batch)
        /\ OnlyAt(h, k, p) /\ DOMAIN h \subseteq DOMAIN k
    <3>1. /\ p \in DOMAIN h /\ h[p] = <<>> /\ k[p] = Batch(next, batch)
          /\ DOMAIN h \subseteq DOMAIN k
      BY <1>2, <1>3, <2>1, <2>2, SingleAt, SingleAtNext
    <3>2. \A d \in Callers : d # c => fetched'[d] = fetched[d]
      BY <1>2, <2>1
    <3>3. ASSUME NEW q \in SinglePlaces, q # p PROVE k[q] = h[q]
      BY <2>1, <3>2, <3>3, SingleAt, SingleAtNext
    <3> QED
      BY <1>3, <3>1, <3>3 DEF OnlyAt
  <2>4. batch \in Nat
    BY PoolAssumption
  <2> HIDE DEF h, k, p
  <2>5. Stock(k, Given, next + batch)
    BY <1>1, <1>2, <2>3, <2>4, StockFetch
  <2>6. ~closed => Covers(k, Given, next + batch)
    BY <1>1, <1>2, <2>3, <2>4, CoversFetch
  <2> QED
    BY <1>4, <2>1, <2>5, <2>6 DEF k
<1>8. ASSUME NEW c \in Callers, Single!Store(c) PROVE Goal
  <2> DEFINE B == <<"buffer", 0>>
             F == <<"fetched", c>>
  <2>1. /\ buffer' = IF Single!CanStore(c) THEN fetched[c] ELSE buffer
        /\ fetched' = [fetched EXCEPT ![c] = <<>>] /\ UNCHANGED <<next, closed, got>>
        /\ pc[c] = "store"
    BY <1>8 DEF Single!Store
  <2>2. buffer = <<>>
    BY <1>0, <2>1 DEF SingleControl, Single!OneRefills
  <2>3. ASSUME NEW p \in DOMAIN k, k[p] # <<>>
        PROVE  \/ p # B /\ p # F /\ p \in DOMAIN h /\ k[p] = h[p]
               \/ p = B /\ F \in DOMAIN h /\ k[p] = h[F]
    <3>1. k[F] = <<>>
      BY <1>2, <2>1, SingleAtNext
    <3>2. CASE p = B
      BY <1>3, <2>1, <2>2, <2>3, <3>2, SingleAt, SingleAtNext
    <3>3. ASSUME NEW d \in Callers, p = <<"fetched", d>>
          PROVE  p # B /\ p # F /\ p \in DOMAIN h /\ k[p] = h[p]
      BY <1>2, <1>3, <2>1, <2>3, <3>1, <3>3, SingleAt, SingleAtNext
    <3> QED
      BY <1>3, <3>2, <3>3, SingleAt
  <2>4. ~closed => Keeps(h, k)
    <3> SUFFICES ASSUME ~closed, NEW q \in DOMAIN h, h[q] # <<>>
                 PROVE  \E p \in DOMAIN k : k[p] = h[q]
      BY DEF Keeps
    <3>1. PICK d \in Callers : q = <<"fetched", d>>
      BY <1>3, <2>2, SingleAt
    <3>2. CASE d = c
      BY <1>3, <2>1, <3>1, <3>2, SingleAt, SingleAtNext DEF Single!CanStore
    <3>3. CASE d # c
      BY <1>2, <1>3, <2>1, <3>1, <3>3, SingleAt, SingleAtNext
    <3> QED
      BY <3>2, <3>3
  <2> HIDE DEF h, k, B, F
  <2>5. Stock(k, Given, next)
    <3>1. OneMoves(h, k, B, F)
      BY <2>3 DEF OneMoves
    <3> QED
      BY <1>1, <1>2, <3>1, StockMovesOne
  <2>6. ~closed => Covers(k, Given, next)
    BY <1>1, <1>3, <2>4, CoversMoves
  <2> QED
    BY <1>4, <2>1, <2>5, <2>6 DEF k
<1>9. ASSUME Single!Close PROVE Goal
  <2> DEFINE B == <<"buffer", 0>>
  <2>1. buffer' = <<>> /\ closed' = TRUE /\ UNCHANGED <<next, fetched, got>>
    BY <1>9 DEF Single!Close
  <2>2. ASSUME NEW p \in DOMAIN k, k[p] # <<>>
        PROVE  p # B /\ p \in DOMAIN h /\ k[p] = h[p]
    <3>1. p # B
      BY <2>1, <2>2, SingleAtNext
    <3>2. PICK d \in Callers : p = <<"fetched", d>>
      BY <1>3, <3>1, SingleAt
    <3> QED
      BY <1>3, <2>1, <3>1, <3>2, SingleAt, SingleAtNext
  <2> HIDE DEF h, k, B
  <2>3. Stock(k, Given, next)
    <3>1. OneMoves(h, k, B, B)
      BY <2>2 DEF OneMoves
    <3> QED
      BY <1>1, <1>2, <3>1, StockMovesOne
  <2> QED
    BY <1>4, <2>1, <2>3 DEF k
<1>10. ASSUME NEW c \in Callers,
              Single!Call(c) \/ Single!Fail(c) \/ Single!StartRefill(c) \/ Single!Wait(c)
       PROVE  UNCHANGED <<buffer, fetched, next, closed, got>>
  BY <1>10 DEF Single!Call, Single!Fail, Single!StartRefill, Single!Wait
<1>11. ASSUME NEW c \in Callers, Single!Fetch(c)
       PROVE  UNCHANGED <<buffer, closed, got>>
  BY <1>11 DEF Single!Fetch
<1>12. Goal
  <2> HIDE DEF Goal
  <2> QED
    BY <1>5, <1>6, <1>7, <1>8, <1>9, <1>10, <1>11 DEF Single!Next, Single!Step
<1> QED
  BY <1>0, <1>12 DEF SingleInv

\* The invariant in the words of the properties.
LEMMA SingleImplies == SingleInv => Single!TypeOK /\ Single!OneRefills /\ Single!NoIDSkipped
<1> SUFFICES ASSUME SingleInv, ~closed
             PROVE  0 .. next - 1 = Single!Range(buffer) \union
                      UNION {Single!Range(got[c]) \union Single!Range(fetched[c]) : c \in Callers}
  BY DEF SingleInv, SingleControl, Single!NoIDSkipped
<1> DEFINE All == Single!Range(buffer) \union
                    UNION {Single!Range(got[c]) \union Single!Range(fetched[c]) : c \in Callers}
<1>1. /\ next \in Nat /\ buffer \in Seq(Nat) /\ fetched \in [Callers -> Seq(Nat)]
      /\ got \in [Callers -> Seq(Nat)]
  BY DEF SingleInv, SingleControl, Single!TypeOK
<1>2. /\ Stock(SingleHeld, Given, next) /\ Covers(SingleHeld, Given, next)
  BY DEF SingleInv
<1>3. ASSUME NEW s \in Seq(Nat)
      PROVE  \A x : x \in Single!Range(s) <=> \E i \in 1 .. Len(s) : s[i] = x
  BY DEF Single!Range
<1>4. ASSUME NEW x \in 0 .. next - 1 PROVE x \in All
  <2>1. CASE x \in Given
    <3>1. PICK c \in Callers : \E i \in 1 .. Len(got[c]) : got[c][i] = x
      BY <2>1 DEF Given
    <3> QED
      BY <1>1, <1>3, <3>1
  <2>2. ASSUME NEW p \in SinglePlaces,
               \E i \in 1 .. Len(SingleHeld[p]) : SingleHeld[p][i] = x
        PROVE  x \in All
    <3>1. CASE p = <<"buffer", 0>>
      BY <1>1, <1>3, <2>2, <3>1, SingleAt
    <3>2. ASSUME NEW c \in Callers, p = <<"fetched", c>> PROVE x \in All
      BY <1>1, <1>3, <2>2, <3>2, SingleAt
    <3> QED
      BY <3>1, <3>2, SingleAt
  <2>3. x \in Nat /\ x < next
    BY <1>1
  <2> HIDE DEF All
  <2> QED
    BY <1>2, <2>1, <2>2, <2>3, SingleAt DEF Covers
<1>5. ASSUME NEW p \in SinglePlaces, NEW i \in 1 .. Len(SingleHeld[p])
      PROVE  SingleHeld[p][i] \in 0 .. next - 1
  <2>1. SingleHeld[p] \in Seq(Nat) /\ SingleHeld[p][i] < next
    BY <1>2, SingleAt DEF Stock
  <2> QED
    BY <1>1, <2>1
<1>6. ASSUME NEW x \in Single!Range(buffer) PROVE x \in 0 .. next - 1
  <2>1. PICK i \in 1 .. Len(buffer) : buffer[i] = x
    BY <1>1, <1>3
  <2> QED
    BY <1>5, <2>1, SingleAt
<1>7. ASSUME NEW c \in Callers, NEW x \in Single!Range(fetched[c])
      PROVE  x \in 0 .. next - 1
  <2>1. PICK i \in 1 .. Len(fetched[c]) : fetched[c][i] = x
    BY <1>1, <1>3
  <2> QED
    BY <1>5, <2>1, SingleAt
<1>8. ASSUME NEW c \in Callers, NEW x \in Single!Range(got[c])
      PROVE  x \in 0 .. next - 1
  <2>1. PICK i \in 1 .. Len(got[c]) : got[c][i] = x
    BY <1>1, <1>3
  <2>2. x \in Nat /\ x \in Given
    BY <1>1, <2>1 DEF Given
  <2> QED
    BY <1>1, <1>2, <2>2 DEF Stock
<1> QED
  BY <1>4, <1>6, <1>7, <1>8
-----------------------------------------------------------------------------
(* DoubleBuffer                                                            *)

DoublePlaces == ({"active", "standby"} \X {0}) \union ({"filled"} \X filled)
DoubleHeld ==
  [p \in DoublePlaces |-> IF p[1] = "active" THEN active
                          ELSE IF p[1] = "standby" THEN standby ELSE p[2]]

\* At most one goroutine is on its way with a batch, and then there is room.
OneOnItsWay ==
  \/ fetching = 0 /\ filled = {}
  \/ /\ filling /\ standby = <<>>
     /\ \/ fetching = 1 /\ filled = {}
        \/ fetching = 0 /\ \E s \in Seq(Nat) : filled = {s}

DoubleControl == Double!TypeOK /\ OneOnItsWay

DoubleInv ==
  /\ DoubleControl
  /\ Stock(DoubleHeld, Given, next)
  /\ ~closed => Covers(DoubleHeld, Given, next)

DoubleMap ==
  /\ DOMAIN DoubleHeld = DoublePlaces
  /\ <<"active", 0>> \in DoublePlaces /\ DoubleHeld[<<"active", 0>>] = active
  /\ <<"standby", 0>> \in DoublePlaces /\ DoubleHeld[<<"standby", 0>>] = standby
  /\ \A s \in filled : <<"filled", s>> \in DoublePlaces /\ DoubleHeld[<<"filled", s>>] = s
  /\ \A p \in DoublePlaces :
       p = <<"active", 0>> \/ p = <<"standby", 0>> \/ \E s \in filled : p = <<"filled", s>>

\* The places of DoubleHeld, and the same of the next state.
LEMMA DoubleAt == DoubleMap
  BY DEF DoubleMap, DoubleHeld, DoublePlaces

\* The same of the next state.
LEMMA DoubleAtNext == DoubleMap'
  BY DoubleAt, PTL

\* Waking everybody keeps the types.
LEMMA DoubleWakes ==
  ASSUME Double!TypeOK, Double!WakeAll
  PROVE  pc' \in [Callers -> {"idle", "get", "waiting"}]
  BY DEF Double!TypeOK, Double!WakeAll

\* A fill is started only if there is none.
LEMMA StartFillKeeps ==
  ASSUME DoubleControl, NEW w \in BOOLEAN, w => standby = <<>>, Double!StartFill(w),
         UNCHANGED <<standby, filled>>
  PROVE  OneOnItsWay' /\ fetching' \in Nat /\ filling' \in BOOLEAN
<1> USE DEF DoubleControl, OneOnItsWay, Double!TypeOK, Double!StartFill
<1>1. CASE w /\ ~filling
  <2>1. fetching = 0 /\ filled = {} /\ fetching' = 1 /\ filling' = TRUE
    BY <1>1
  <2> QED
    BY <1>1, <2>1
<1>2. CASE ~(w /\ ~filling)
  <2>1. UNCHANGED <<filling, fetching>>
    BY <1>2
  <2> QED
    BY <2>1
<1> QED
  BY <1>1, <1>2

\* One action at a time.
LEMMA DoubleControlStep ==
  ASSUME DoubleControl, Double!Next
  PROVE  DoubleControl'
<1> USE PoolAssumption, DemoAssumption DEF DoubleControl, Double!TypeOK
<1>1. ASSUME NEW c \in Callers, Double!Call(c) PROVE DoubleControl'
  BY <1>1 DEF Double!Call, OneOnItsWay
<1>2. ASSUME NEW c \in Callers, Double!Fail(c) PROVE DoubleControl'
  BY <1>2 DEF Double!Fail, OneOnItsWay
<1>3. ASSUME NEW c \in Callers, Double!Take(c) PROVE DoubleControl'
  <2>1. active # <<>> /\ active \in Seq(Nat)
    BY <1>3 DEF Double!Take
  <2>2. Front(active) \in Seq(Nat) /\ Last(active) \in Nat
    BY <2>1, FrontLast
  <2>3. active' \in Seq(Nat) /\ got' \in [Callers -> Seq(Nat)]
    BY <1>3, <2>2 DEF Double!Take, Double!Front, Double!Last, Front, Last
  <2>4. /\ Double!StartFill(Double!Prefetch) /\ UNCHANGED <<standby, filled>>
        /\ Double!Prefetch \in BOOLEAN /\ (Double!Prefetch => standby = <<>>)
    BY <1>3 DEF Double!Take, Double!Prefetch
  <2>5. OneOnItsWay' /\ fetching' \in Nat /\ filling' \in BOOLEAN
    BY <2>4, StartFillKeeps
  <2> QED
    BY <1>3, <2>3, <2>5 DEF Double!Take
<1>4. ASSUME NEW c \in Callers, Double!Swap(c) PROVE DoubleControl'
  BY <1>4 DEF Double!Swap, OneOnItsWay
<1>5. ASSUME NEW c \in Callers, Double!Wait(c) PROVE DoubleControl'
  <2>1. Double!StartFill(TRUE) /\ UNCHANGED <<standby, filled>> /\ standby = <<>>
    BY <1>5 DEF Double!Wait
  <2>2. OneOnItsWay' /\ fetching' \in Nat /\ filling' \in BOOLEAN
    BY <2>1, StartFillKeeps
  <2> QED
    BY <1>5, <2>2 DEF Double!Wait
<1>6. CASE Double!Fetch
  <2>1. fetching = 1 /\ filled = {} /\ fetching' = 0 /\ filling /\ standby = <<>>
    BY <1>6 DEF Double!Fetch, OneOnItsWay
  <2>2. Double!GetIDs(next) \in Seq(Nat) /\ <<>> \in Seq(Nat)
    BY DEF Double!GetIDs
  <2>3. \E s \in Seq(Nat) : filled' = {s}
    BY <1>6, <2>1, <2>2 DEF Double!Fetch
  <2>4. next' \in Nat /\ faults' \in 0 .. MaxFaults
    BY <1>6 DEF Double!Fetch
  <2>5. OneOnItsWay'
    BY <1>6, <2>1, <2>3 DEF Double!Fetch, OneOnItsWay
  <2> QED
    BY <1>6, <2>1, <2>3, <2>4, <2>5 DEF Double!Fetch
<1>7. CASE Double!Store
  <2>1. PICK ids \in filled :
          /\ filled' = filled \ {ids} /\ filling' = FALSE /\ Double!WakeAll
          /\ standby' = IF ids # <<>> /\ ~closed THEN ids ELSE standby
          /\ UNCHANGED <<next, faults, active, closed, fetching, calls, got>>
    BY <1>7 DEF Double!Store
  <2>2. fetching = 0 /\ filled = {ids} /\ ids \in Seq(Nat)
    BY <2>1 DEF OneOnItsWay
  <2>3. pc' \in [Callers -> {"idle", "get", "waiting"}]
    BY <2>1, DoubleWakes
  <2> QED
    BY <2>1, <2>2, <2>3 DEF OneOnItsWay
<1>8. CASE Double!Close
  <2>1. pc' \in [Callers -> {"idle", "get", "waiting"}]
    BY <1>8, DoubleWakes DEF Double!Close
  <2> QED
    BY <1>8, <2>1 DEF Double!Close, OneOnItsWay
<1> QED
  BY <1>1, <1>2, <1>3, <1>4, <1>5, <1>6, <1>7, <1>8
  DEF Double!Next, Double!Step, Double!Fill

\* As SingleInvStep; a batch that is stored finds no other.
LEMMA DoubleInvStep ==
  ASSUME DoubleInv, Double!Next
  PROVE  DoubleInv' /\ (Fresh!Next \/ UNCHANGED got)
<1> DEFINE h == DoubleHeld
           k == DoubleHeld'
           A == <<"active", 0>>
           S == <<"standby", 0>>
           Goal == /\ Stock(DoubleHeld', Given', next')
                   /\ ~closed' => Covers(DoubleHeld', Given', next')
                   /\ Fresh!Next \/ UNCHANGED got
<1>0. DoubleControl /\ DoubleControl' /\ GotOK
  BY DoubleControlStep DEF DoubleInv, DoubleControl, Double!TypeOK, GotOK
<1>1. Stock(h, Given, next) /\ (~closed => Covers(h, Given, next))
  BY DEF DoubleInv
<1>2. next \in Nat /\ {active, standby} \subseteq Seq(Nat)
  BY <1>0 DEF DoubleControl, Double!TypeOK
<1>3. /\ \A p \in DOMAIN h : h[p] \in Seq(Nat)
      /\ DOMAIN h = DoublePlaces /\ DOMAIN k = DoublePlaces'
      /\ filled' = filled => DOMAIN k = DOMAIN h
  <2>1. filled' = filled => DoublePlaces' = DoublePlaces
    BY DEF DoublePlaces
  <2> QED
    BY <1>1, <2>1, DoubleAt, DoubleAtNext DEF Stock, DoubleMap
<1>4. got' = got => Given' = Given
  BY DEF Given
<1>5. ASSUME UNCHANGED <<active, standby, filled, next, closed, got>> PROVE Goal
  <2>1. k = h
    BY <1>5 DEF DoubleHeld, DoublePlaces
  <2> QED
    BY <1>1, <1>4, <1>5, <2>1
<1>6. ASSUME NEW c \in Callers, Double!Take(c) PROVE Goal
  <2>1. /\ active # <<>> /\ active' = Front(active)
        /\ got' = [got EXCEPT ![c] = Append(@, Last(active))]
        /\ UNCHANGED <<next, standby, filled, closed>>
    BY <1>6 DEF Double!Take, Double!Front, Double!Last, Front, Last
  <2>2. /\ A \in DOMAIN h /\ h[A] = active /\ k[A] = Front(h[A])
        /\ OnlyAt(h, k, A) /\ DOMAIN h \subseteq DOMAIN k
    <3>1. A \in DOMAIN h /\ h[A] = active /\ k[A] = Front(h[A]) /\ DOMAIN h = DOMAIN k
      BY <1>3, <2>1, DoubleAt, DoubleAtNext DEF DoubleMap
    <3>2. ASSUME NEW q \in DoublePlaces, q # A PROVE k[q] = h[q]
      <4>1. CASE q = S
        BY <2>1, <4>1, DoubleAt, DoubleAtNext DEF DoubleMap
      <4>2. ASSUME NEW s \in filled, q = <<"filled", s>> PROVE k[q] = h[q]
        BY <2>1, <4>2, DoubleAt, DoubleAtNext DEF DoubleMap
      <4> QED
        BY <3>2, <4>1, <4>2, DoubleAt DEF DoubleMap
    <3> QED
      BY <1>3, <3>1, <3>2 DEF OnlyAt
  <2> HIDE DEF h, k, A
  <2>3. /\ Last(h[A]) \in Nat /\ Last(h[A]) \notin Given
        /\ Stock(k, Given \union {Last(h[A])}, next)
    BY <1>1, <1>2, <2>1, <2>2, StockTake
  <2>4. ~closed => Covers(k, Given \union {Last(h[A])}, next)
    BY <1>1, <1>2, <2>1, <2>2, CoversTake
  <2>5. Given' = Given \union {Last(h[A])} /\ Fresh!Next
    BY <1>0, <2>1, <2>2, <2>3, Gives
  <2> QED
    BY <2>1, <2>3, <2>4, <2>5 DEF k
<1>7. ASSUME NEW c \in Callers, Double!Swap(c) PROVE Goal
  <2>1. /\ active = <<>> /\ active' = standby /\ standby' = <<>>
        /\ UNCHANGED <<next, filled, closed, got>>
    BY <1>7 DEF Double!Swap
  <2>2. ASSUME NEW r \in DOMAIN k, k[r] # <<>>
        PROVE  \/ r # A /\ r # S /\ r \in DOMAIN h /\ k[r] = h[r]
               \/ r = A /\ S \in DOMAIN h /\ k[r] = h[S]
    <3>1. CASE r = A
      BY <1>3, <2>1, <3>1, DoubleAt, DoubleAtNext DEF DoubleMap
    <3>2. r # S
      BY <2>1, <2>2, DoubleAtNext DEF DoubleMap
    <3>3. ASSUME NEW s \in filled, r = <<"filled", s>>
          PROVE  r # A /\ r # S /\ r \in DOMAIN h /\ k[r] = h[r]
      BY <1>3, <2>1, <3>2, <3>3, DoubleAt, DoubleAtNext DEF DoubleMap
    <3> QED
      BY <1>3, <2>1, <3>1, <3>2, <3>3, DoubleAtNext DEF DoubleMap
  <2>3. Keeps(h, k)
    <3> SUFFICES ASSUME NEW q \in DOMAIN h, h[q] # <<>>
                 PROVE  \E p \in DOMAIN k : k[p] = h[q]
      BY DEF Keeps
    <3>1. q # A
      BY <2>1, DoubleAt DEF DoubleMap
    <3>2. CASE q = S
      BY <1>3, <2>1, <3>2, DoubleAt, DoubleAtNext DEF DoubleMap
    <3>3. ASSUME NEW s \in filled, q = <<"filled", s>> PROVE k[q] = h[q]
      BY <2>1, <3>3, DoubleAt, DoubleAtNext DEF DoubleMap
    <3> QED
      BY <1>3, <2>1, <3>1, <3>2, <3>3, DoubleAt DEF DoubleMap
  <2> HIDE DEF h, k, A, S
  <2>4. Stock(k, Given, next)
    <3>1. OneMoves(h, k, A, S)
      BY <2>2 DEF OneMoves
    <3> QED
      BY <1>1, <1>2, <3>1, StockMovesOne
  <2>5. ~closed => Covers(k, Given, next)
    BY <1>1, <1>3, <2>3, CoversMoves
  <2> QED
    BY <1>4, <2>1, <2>4, <2>5 DEF k
<1>8. ASSUME Double!Fetch PROVE Goal
  <2>1. filled = {} /\ UNCHANGED <<active, standby, closed, got>>
    BY <1>0, <1>8 DEF DoubleControl, OneOnItsWay, Double!Fetch
  <2>2. ASSUME filled' = {Batch(next, doubleBatch)}, next' = next + doubleBatch
        PROVE  Goal
    <3> DEFINE p == <<"filled", Batch(next, doubleBatch)>>
    <3>1. /\ p \in DOMAIN k /\ p \notin DOMAIN h /\ k[p] = Batch(next, doubleBatch)
          /\ DOMAIN k = DOMAIN h \union {p}
      BY <2>1, <2>2, DoubleAt, DoubleAtNext DEF DoubleMap, DoublePlaces
    <3>2. ASSUME NEW q \in DOMAIN h PROVE k[q] = h[q]
      <4>1. q = A \/ q = S
        BY <2>1, <3>2, DoubleAt DEF DoubleMap
      <4> QED
        BY <2>1, <4>1, DoubleAt, DoubleAtNext DEF DoubleMap
    <3>3. doubleBatch \in Nat
      BY DemoAssumption
    <3> HIDE DEF h, k, p
    <3>4. OnlyAt(h, k, p) /\ DOMAIN h \subseteq DOMAIN k
      BY <3>1, <3>2 DEF OnlyAt
    <3>5. Stock(k, Given, next + doubleBatch)
      BY <1>1, <1>2, <3>1, <3>3, <3>4, StockFetch
    <3>6. ~closed => Covers(k, Given, next + doubleBatch)
      BY <1>1, <1>2, <3>1, <3>3, <3>4, CoversFetch
    <3> QED
      BY <1>4, <2>1, <2>2, <3>5, <3>6 DEF k
  <2>3. ASSUME filled' = {<<>>}, next' = next PROVE Goal
    <3>1. ASSUME NEW r \in DOMAIN k, k[r] # <<>>
          PROVE  r # <<"filled", <<>>>> /\ r \in DOMAIN h /\ k[r] = h[r]
      BY <2>1, <2>3, <3>1, DoubleAt, DoubleAtNext DEF DoubleMap
    <3>2. ASSUME NEW q \in DOMAIN h PROVE q \in DOMAIN k /\ k[q] = h[q]
      <4>1. q = A \/ q = S
        BY <2>1, <3>2, DoubleAt DEF DoubleMap
      <4> QED
        BY <2>1, <4>1, DoubleAt, DoubleAtNext DEF DoubleMap
    <3> HIDE DEF h, k
    <3>3. Keeps(h, k)
      BY <3>2 DEF Keeps
    <3>4. Stock(k, Given, next)
      <4>1. OneMoves(h, k, <<"filled", <<>>>>, <<"filled", <<>>>>)
        BY <3>1 DEF OneMoves
      <4> QED
        BY <1>1, <1>2, <4>1, StockMovesOne
    <3>5. ~closed => Covers(k, Given, next)
      BY <1>1, <1>3, <3>3, CoversMoves
    <3> QED
      BY <1>4, <2>1, <2>3, <3>4, <3>5 DEF k
  <2>4. \/ filled' = {Batch(next, doubleBatch)} /\ next' = next + doubleBatch
        \/ filled' = {<<>>} /\ next' = next
    BY <1>8, <2>1 DEF Double!Fetch, Double!GetIDs, Batch
  <2> QED
    BY <2>2, <2>3, <2>4
<1>9. ASSUME Double!Store PROVE Goal
  <2>1. PICK ids \in filled :
          /\ filled' = filled \ {ids}
          /\ standby' = IF ids # <<>> /\ ~closed THEN ids ELSE standby
          /\ UNCHANGED <<next, active, closed, got>>
    BY <1>9 DEF Double!Store
  <2>2. filled = {ids} /\ filled' = {} /\ standby = <<>>
    BY <1>0, <2>1 DEF DoubleControl, OneOnItsWay
  <2> DEFINE F == <<"filled", ids>>
  <2>3. F \in DOMAIN h /\ h[F] = ids
    BY <2>1, DoubleAt DEF DoubleMap
  <2>4. ASSUME NEW r \in DOMAIN k, k[r] # <<>>
        PROVE  \/ r # S /\ r # F /\ r \in DOMAIN h /\ k[r] = h[r]
               \/ r = S /\ F \in DOMAIN h /\ k[r] = h[F]
    BY <1>3, <2>1, <2>2, <2>3, <2>4, DoubleAt, DoubleAtNext DEF DoubleMap
  <2>5. ASSUME ~closed PROVE Keeps(h, k)
    <3> SUFFICES ASSUME NEW q \in DOMAIN h, h[q] # <<>>
                 PROVE  \E p \in DOMAIN k : k[p] = h[q]
      BY DEF Keeps
    <3>1. q # S
      BY <2>2, DoubleAt DEF DoubleMap
    <3>2. CASE q = A
      BY <1>3, <2>1, <3>2, DoubleAt, DoubleAtNext DEF DoubleMap
    <3>3. CASE q = F
      BY <1>3, <2>1, <2>3, <2>5, <3>3, DoubleAt, DoubleAtNext DEF DoubleMap
    <3> QED
      BY <1>3, <2>2, <3>1, <3>2, <3>3, DoubleAt DEF DoubleMap
  <2> HIDE DEF h, k, A, S, F
  <2>6. Stock(k, Given, next)
    <3>1. OneMoves(h, k, S, F)
      BY <2>4 DEF OneMoves
    <3> QED
      BY <1>1, <1>2, <3>1, StockMovesOne
  <2>7. ~closed => Covers(k, Given, next)
    BY <1>1, <1>3, <2>5, CoversMoves
  <2> QED
    BY <1>4, <2>1, <2>6, <2>7 DEF k
<1>10. ASSUME Double!Close PROVE Goal
  <2>1. /\ active' = <<>> /\ standby' = <<>> /\ closed' = TRUE
        /\ UNCHANGED <<next, filled, got>>
    BY <1>10 DEF Double!Close
  <2>2. ASSUME NEW r \in DOMAIN k, k[r] # <<>>
        PROVE  r # A /\ r \in DOMAIN h /\ k[r] = h[r]
    <3>1. r # A /\ r # S
      BY <2>1, <2>2, DoubleAtNext DEF DoubleMap
    <3>2. PICK s \in filled : r = <<"filled", s>>
      BY <1>3, <2>1, <3>1, DoubleAtNext DEF DoubleMap
    <3> QED
      BY <1>3, <2>1, <3>1, <3>2, DoubleAt, DoubleAtNext DEF DoubleMap
  <2> HIDE DEF h, k, A
  <2>3. Stock(k, Given, next)
    <3>1. OneMoves(h, k, A, A)
      BY <2>2 DEF OneMoves
    <3> QED
      BY <1>1, <1>2, <3>1, StockMovesOne
  <2> QED
    BY <1>4, <2>1, <2>3 DEF k
<1>11. ASSUME NEW c \in Callers, Double!Call(c) \/ Double!Fail(c) \/ Double!Wait(c)
       PROVE  UNCHANGED <<active, standby, filled, next, closed, got>>
  BY <1>11 DEF Double!Call, Double!Fail, Double!Wait
<1>12. Goal
  <2> HIDE DEF Goal
  <2> QED
    BY <1>5, <1>6, <1>7, <1>8, <1>9, <1>10, <1>11
    DEF Double!Next, Double!Step, Double!Fill
<1> QED
  BY <1>0, <1>12 DEF DoubleInv

\* The invariant in the words of the properties.
LEMMA DoubleImplies == DoubleInv => Double!TypeOK /\ Double!OneFills /\ Double!NoIDSkipped
<1> SUFFICES ASSUME DoubleInv PROVE Double!OneFills /\ Double!NoIDSkipped
  BY DEF DoubleInv, DoubleControl
<1>1. Double!OneFills
  <2>0. \A S : Double!Cardinality(S) = Cardinality(S)
    BY DEF Double!Cardinality, Cardinality
  <2>1. ASSUME NEW s, filled = {s} PROVE Double!Cardinality(filled) = 1
    BY <2>0, <2>1, FS_Singleton
  <2>2. Double!Cardinality({}) = 0
    BY <2>0, FS_EmptySet
  <2>3. CASE fetching = 0 /\ filled = {}
    BY <2>3 DEF Double!OneFills
  <2>4. CASE filling /\ standby = <<>> /\ fetching = 1 /\ filled = {}
    <3>1. fetching + Double!Cardinality(filled) = 1
      BY <2>2, <2>4
    <3> QED
      BY <2>4, <3>1 DEF Double!OneFills
  <2>5. ASSUME filling, standby = <<>>, fetching = 0, NEW s, filled = {s}
        PROVE  Double!OneFills
    <3>1. fetching + Double!Cardinality(filled) = 1
      <4>1. Double!Cardinality(filled) = 1
        BY <2>1, <2>5, Zenon
      <4> QED
        BY <2>5, <4>1
    <3> QED
      BY <2>5, <3>1 DEF Double!OneFills
  <2> QED
    BY <2>3, <2>4, <2>5 DEF DoubleInv, DoubleControl, OneOnItsWay
<1>2. ASSUME ~closed
      PROVE  0 .. next - 1 = Double!Range(active) \union Double!Range(standby)
               \union (UNION {Double!Range(ids) : ids \in filled})
               \union (UNION {Double!Range(got[c]) : c \in Callers})
  <2> DEFINE All == Double!Range(active) \union Double!Range(standby)
                      \union (UNION {Double!Range(ids) : ids \in filled})
                      \union (UNION {Double!Range(got[c]) : c \in Callers})
  <2>1. /\ next \in Nat /\ active \in Seq(Nat) /\ standby \in Seq(Nat)
        /\ filled \subseteq Seq(Nat) /\ got \in [Callers -> Seq(Nat)]
    BY DEF DoubleInv, DoubleControl, Double!TypeOK
  <2>2. Stock(DoubleHeld, Given, next) /\ Covers(DoubleHeld, Given, next)
    BY <1>2 DEF DoubleInv
  <2>3. ASSUME NEW s \in Seq(Nat)
        PROVE  \A x : x \in Double!Range(s) <=> \E i \in 1 .. Len(s) : s[i] = x
    BY DEF Double!Range
  <2>4. ASSUME NEW x \in 0 .. next - 1 PROVE x \in All
    <3>1. CASE x \in Given
      <4>1. PICK c \in Callers : \E i \in 1 .. Len(got[c]) : got[c][i] = x
        BY <3>1 DEF Given
      <4>2. x \in Double!Range(got[c])
        BY <2>1, <2>3, <4>1
      <4> QED
        BY <4>2
    <3>2. ASSUME NEW p \in DoublePlaces,
                 \E i \in 1 .. Len(DoubleHeld[p]) : DoubleHeld[p][i] = x
          PROVE  x \in All
      <4>1. CASE p = <<"active", 0>>
        BY <2>1, <2>3, <3>2, <4>1, DoubleAt DEF DoubleMap
      <4>2. CASE p = <<"standby", 0>>
        BY <2>1, <2>3, <3>2, <4>2, DoubleAt DEF DoubleMap
      <4>3. ASSUME NEW s \in filled, p = <<"filled", s>> PROVE x \in All
        <5>1. x \in Double!Range(s)
          BY <2>1, <2>3, <3>2, <4>3, DoubleAt DEF DoubleMap
        <5> QED
          BY <5>1
      <4> QED
        BY <4>1, <4>2, <4>3, DoubleAt DEF DoubleMap
    <3>3. x \in Nat /\ x < next
      BY <2>1
    <3> HIDE DEF All
    <3> QED
      BY <2>2, <3>1, <3>2, <3>3, DoubleAt DEF Covers, DoubleMap
  <2>5. ASSUME NEW p \in DoublePlaces, NEW x, x \in Double!Range(DoubleHeld[p])
        PROVE  x \in 0 .. next - 1
    <3>1. DoubleHeld[p] \in Seq(Nat)
      BY <2>2, DoubleAt DEF Stock, DoubleMap
    <3>2. PICK i \in 1 .. Len(DoubleHeld[p]) : DoubleHeld[p][i] = x
      BY <2>3, <2>5, <3>1
    <3>3. x \in Nat /\ x < next
      BY <2>2, <3>1, <3>2, DoubleAt DEF Stock, DoubleMap
    <3> QED
      BY <2>1, <3>3
  <2>6. ASSUME NEW c \in Callers, NEW x \in Double!Range(got[c])
        PROVE  x \in 0 .. next - 1
    <3>1. PICK i \in 1 .. Len(got[c]) : got[c][i] = x
      BY <2>1, <2>3
    <3>2. x \in Nat /\ x \in Given
      BY <2>1, <3>1 DEF Given
    <3> QED
      BY <2>1, <2>2, <3>2 DEF Stock
  <2>7. /\ \A x \in Double!Range(active) : x \in 0 .. next - 1
        /\ \A x \in Double!Range(standby) : x \in 0 .. next - 1
        /\ \A s \in filled : \A x \in Double!Range(s) : x \in 0 .. next - 1
    BY <2>5, DoubleAt DEF DoubleMap
  <2>8. ASSUME NEW x \in All PROVE x \in 0 .. next - 1
    <3>1. CASE x \in Double!Range(active) \/ x \in Double!Range(standby)
      BY <2>7, <3>1
    <3>2. CASE x \in UNION {Double!Range(ids) : ids \in filled}
      BY <2>7, <3>2
    <3>3. CASE x \in UNION {Double!Range(got[c]) : c \in Callers}
      BY <2>6, <3>3
    <3> QED
      BY <3>1, <3>2, <3>3
  <2> QED
    BY <2>4, <2>8
<1> QED
  BY <1>1, <1>2 DEF Double!NoIDSkipped
-----------------------------------------------------------------------------
(* WorkerGenerator                                                         *)

WorkerPlaces ==
  ({"current", "produced"} \X {0}) \union ({"received"} \X Callers)
    \union ({"queue"} \X (1 .. Len(queue)))
WorkerHeld ==
  [p \in WorkerPlaces |->
     IF p[1] = "current" THEN current ELSE IF p[1] = "produced" THEN produced
     ELSE IF p[1] = "received" THEN received[p[2]] ELSE queue[p[2]]]

\* When Close returns the producer has gone.
WorkerControl == Worker!TypeOK /\ (closer = "closed" => producer = "gone")

WorkerInv == WorkerControl /\ Stock(WorkerHeld, Given, next)

WorkerMap ==
  /\ DOMAIN WorkerHeld = WorkerPlaces
  /\ <<"current", 0>> \in WorkerPlaces /\ WorkerHeld[<<"current", 0>>] = current
  /\ <<"produced", 0>> \in WorkerPlaces /\ WorkerHeld[<<"produced", 0>>] = produced
  /\ \A c \in Callers :
       <<"received", c>> \in WorkerPlaces /\ WorkerHeld[<<"received", c>>] = received[c]
  /\ \A i \in 1 .. Len(queue) :
       <<"queue", i>> \in WorkerPlaces /\ WorkerHeld[<<"queue", i>>] = queue[i]
  /\ \A p \in WorkerPlaces :
       \/ p = <<"current", 0>> \/ p = <<"produced", 0>>
       \/ \E c \in Callers : p = <<"received", c>>
       \/ \E i \in 1 .. Len(queue) : p = <<"queue", i>>

\* The places of WorkerHeld, and the same of the next state.
LEMMA WorkerAt == WorkerMap
  BY DEF WorkerMap, WorkerHeld, WorkerPlaces

\* The same of the next state.
LEMMA WorkerAtNext == WorkerMap'
  BY WorkerAt, PTL

\* One action at a time.
LEMMA WorkerControlStep ==
  ASSUME WorkerControl, Worker!Next
  PROVE  WorkerControl'
<1> USE PoolAssumption, DemoAssumption DEF WorkerControl, Worker!TypeOK, Worker!Goto
<1>1. CASE Worker!Fetch
  <2>1. Worker!GetIDs(next) \in Seq(Nat)
    BY DEF Worker!GetIDs
  <2>2. produced' \in Seq(Nat)
    BY <1>1, <2>1 DEF Worker!Fetch
  <2>3. next' \in Nat /\ faults' \in 0 .. MaxFaults /\ producer' \in {"fetch", "send", "gone"}
    BY <1>1 DEF Worker!Fetch
  <2> QED
    BY <1>1, <2>2, <2>3 DEF Worker!Fetch
<1>2. CASE Worker!Send
  <2>1. queue' \in Seq(Seq(Nat)) /\ Len(queue') <= queueCapacity
    BY <1>2 DEF Worker!Send
  <2> QED
    BY <1>2, <2>1 DEF Worker!Send
<1>3. CASE Worker!Stop
  BY <1>3 DEF Worker!Stop
<1>4. ASSUME NEW c \in Callers, Worker!Call(c) PROVE WorkerControl'
  BY <1>4 DEF Worker!Call
<1>5. ASSUME NEW c \in Callers, Worker!Fail(c) PROVE WorkerControl'
  BY <1>5 DEF Worker!Fail
<1>6. ASSUME NEW c \in Callers, Worker!Take(c) PROVE WorkerControl'
  <2>1. CASE current # <<>> /\ UNCHANGED queue
    <3>1. Front(current) \in Seq(Nat) /\ Last(current) \in Nat
      BY <2>1, FrontLast
    <3>2. current' \in Seq(Nat) /\ got' \in [Callers -> Seq(Nat)]
      <4>1. /\ current' = Front(current)
            /\ got' = [got EXCEPT ![c] = Append(got[c], Last(current))]
        BY <1>6, <2>1 DEF Worker!Take, Worker!Front, Worker!Last, Front, Last
      <4> QED
        BY <3>1, <4>1
    <3>3. pc' \in [Callers -> {"idle", "get", "select", "install"}]
      BY <1>6 DEF Worker!Take
    <3> QED
      BY <1>6, <3>2, <3>3 DEF Worker!Take
  <2>2. CASE current = <<>>
    BY <1>6, <2>2 DEF Worker!Take
  <2> QED
    BY <1>6, <2>1, <2>2 DEF Worker!Take
<1>7. ASSUME NEW c \in Callers, Worker!Receive(c) PROVE WorkerControl'
  <2>1. queue # <<>> /\ queue' = Tail(queue)
    BY <1>7 DEF Worker!Receive, Worker!DropHead
  <2>2. /\ Head(queue) \in Seq(Nat) /\ Tail(queue) \in Seq(Seq(Nat))
        /\ Len(Tail(queue)) = Len(queue) - 1 /\ Len(queue) \in Nat
    BY <2>1, HeadTailProperties
  <2>3. received' \in [Callers -> Seq(Nat)] /\ queue' \in Seq(Seq(Nat))
    BY <1>7, <2>1, <2>2 DEF Worker!Receive
  <2>4. Len(queue') <= queueCapacity
    BY <2>1, <2>2
  <2> QED
    BY <1>7, <2>3, <2>4 DEF Worker!Receive
<1>8. ASSUME NEW c \in Callers, Worker!Timeout(c) PROVE WorkerControl'
  BY <1>8 DEF Worker!Timeout
<1>9. ASSUME NEW c \in Callers, Worker!Install(c) PROVE WorkerControl'
  BY <1>9 DEF Worker!Install
<1>10. CASE Worker!Close
  BY <1>10 DEF Worker!Close
<1>11. CASE Worker!Cancel
  BY <1>11 DEF Worker!Cancel
<1>12. CASE Worker!Joined
  BY <1>12 DEF Worker!Joined
<1> QED
  BY <1>1, <1>2, <1>3, <1>4, <1>5, <1>6, <1>7, <1>8, <1>9, <1>10, <1>11, <1>12
  DEF Worker!Next, Worker!Step, Worker!Produce, Worker!Shutdown

\* As SingleInvStep; a batch goes from the producer through the channel to the
\* caller that receives it, and what is left of the one before may be lost.
LEMMA WorkerInvStep ==
  ASSUME WorkerInv, Worker!Next
  PROVE  WorkerInv' /\ (Fresh!Next \/ UNCHANGED got)
<1> DEFINE h == WorkerHeld
           k == WorkerHeld'
           C == <<"current", 0>>
           P == <<"produced", 0>>
           Goal == Stock(WorkerHeld', Given', next') /\ (Fresh!Next \/ UNCHANGED got)
<1>0. WorkerControl /\ WorkerControl' /\ GotOK /\ Stock(h, Given, next)
  BY WorkerControlStep DEF WorkerInv, WorkerControl, Worker!TypeOK, GotOK
<1>1. /\ next \in Nat /\ current \in Seq(Nat) /\ received \in [Callers -> Seq(Nat)]
      /\ queue \in Seq(Seq(Nat)) /\ Len(queue) \in Nat
  BY <1>0 DEF WorkerControl, Worker!TypeOK
<1>2. DOMAIN h = WorkerPlaces /\ DOMAIN k = WorkerPlaces'
  BY WorkerAt, WorkerAtNext DEF WorkerMap
<1>3. queue' = queue => WorkerPlaces' = WorkerPlaces
  BY DEF WorkerPlaces
<1>4. got' = got => Given' = Given
  BY DEF Given
<1>5. ASSUME NEW p, NEW q, OneMoves(h, k, p, q), UNCHANGED <<next, got>> PROVE Goal
  <2> HIDE DEF h, k
  <2>1. Stock(k, Given, next)
    BY <1>0, <1>1, <1>5, StockMovesOne
  <2> QED
    BY <1>4, <1>5, <2>1 DEF k
<1>6. ASSUME UNCHANGED <<queue, current, produced, received, next, got>> PROVE Goal
  <2>1. k = h
    BY <1>6 DEF WorkerHeld, WorkerPlaces
  <2> QED
    BY <1>0, <1>4, <1>6, <2>1
<1>7. ASSUME Worker!Fetch PROVE Goal
  <2>1. CASE UNCHANGED <<produced, next>>
    BY <1>6, <1>7, <2>1 DEF Worker!Fetch
  <2>2. ASSUME produced' = Batch(next, batch), next' = next + batch PROVE Goal
    <3>1. UNCHANGED <<queue, current, received, got>>
      BY <1>7 DEF Worker!Fetch
    <3>2. P \in DOMAIN k /\ k[P] = Batch(next, batch) /\ DOMAIN k = DOMAIN h
      BY <1>2, <1>3, <2>2, <3>1, WorkerAtNext DEF WorkerMap
    <3>3. ASSUME NEW q \in WorkerPlaces, q # P PROVE k[q] = h[q]
      <4>1. CASE q = C
        BY <3>1, <4>1, WorkerAt, WorkerAtNext DEF WorkerMap
      <4>2. ASSUME NEW c \in Callers, q = <<"received", c>> PROVE k[q] = h[q]
        BY <3>1, <4>2, WorkerAt, WorkerAtNext DEF WorkerMap
      <4>3. ASSUME NEW i \in 1 .. Len(queue), q = <<"queue", i>> PROVE k[q] = h[q]
        BY <3>1, <4>3, WorkerAt, WorkerAtNext DEF WorkerMap
      <4> QED
        BY <3>3, <4>1, <4>2, <4>3, WorkerAt DEF WorkerMap
    <3>4. batch \in Nat
      BY PoolAssumption
    <3> HIDE DEF h, k, P
    <3>5. OnlyAt(h, k, P)
      BY <1>2, <3>2, <3>3 DEF OnlyAt
    <3>6. Stock(k, Given, next + batch)
      BY <1>0, <1>1, <3>2, <3>4, <3>5, StockFetch
    <3> QED
      BY <1>4, <2>2, <3>1, <3>6 DEF k
  <2> QED
    BY <1>7, <2>1, <2>2 DEF Worker!Fetch, Worker!GetIDs, Batch
<1>8. ASSUME Worker!Send PROVE Goal
  <2> DEFINE n == Len(queue) + 1
             Q == <<"queue", n>>
  <2>1. /\ queue' = Append(queue, produced) /\ produced' = <<>>
        /\ UNCHANGED <<next, current, received, got>>
    BY <1>8 DEF Worker!Send
  <2>2. /\ Len(queue') = n /\ queue'[n] = produced
        /\ \A i \in 1 .. Len(queue) : queue'[i] = queue[i]
    BY <1>1, <2>1
  <2>3. ASSUME NEW r \in DOMAIN k, k[r] # <<>>
        PROVE  \/ r # Q /\ r # P /\ r \in DOMAIN h /\ k[r] = h[r]
               \/ r = Q /\ P \in DOMAIN h /\ k[r] = h[P]
    <3>1. CASE r = C
      BY <1>2, <2>1, <3>1, WorkerAt, WorkerAtNext DEF WorkerMap
    <3>2. r # P
      BY <2>1, <2>3, WorkerAtNext DEF WorkerMap
    <3>3. ASSUME NEW c \in Callers, r = <<"received", c>>
          PROVE  r # Q /\ r # P /\ r \in DOMAIN h /\ k[r] = h[r]
      BY <1>2, <2>1, <3>3, WorkerAt, WorkerAtNext DEF WorkerMap
    <3>4. ASSUME NEW i \in 1 .. Len(queue), r = <<"queue", i>>
          PROVE  r # Q /\ r # P /\ r \in DOMAIN h /\ k[r] = h[r]
      <4>1. i # n /\ i \in 1 .. Len(queue')
        BY <1>1, <2>2
      <4> QED
        BY <1>2, <2>2, <3>4, <4>1, WorkerAt, WorkerAtNext DEF WorkerMap
    <3>5. CASE r = Q
      <4>1. n \in 1 .. Len(queue')
        BY <1>1, <2>2
      <4> QED
        BY <1>2, <2>2, <3>5, <4>1, WorkerAt, WorkerAtNext DEF WorkerMap
    <3>6. \A i \in 1 .. Len(queue') : i = n \/ i \in 1 .. Len(queue)
      BY <1>1, <2>2
    <3> QED
      BY <1>2, <3>1, <3>2, <3>3, <3>4, <3>5, <3>6, WorkerAtNext DEF WorkerMap
  <2> HIDE DEF h, k, P, Q, Goal
  <2>4. OneMoves(h, k, Q, P)
    BY <2>3 DEF OneMoves
  <2> QED
    BY <1>5, <2>1, <2>4
<1>9. ASSUME Worker!Stop PROVE Goal
  <2>1. produced' = <<>> /\ UNCHANGED <<next, queue, current, received, got>>
    BY <1>9 DEF Worker!Stop
  <2>2. ASSUME NEW r \in DOMAIN k, k[r] # <<>>
        PROVE  r # P /\ r \in DOMAIN h /\ k[r] = h[r]
    <3>1. r # P
      BY <2>1, <2>2, WorkerAtNext DEF WorkerMap
    <3> QED
      BY <1>2, <1>3, <2>1, <3>1, WorkerAt, WorkerAtNext DEF WorkerMap
  <2> HIDE DEF h, k, P, Goal
  <2>3. OneMoves(h, k, P, P)
    BY <2>2 DEF OneMoves
  <2> QED
    BY <1>5, <2>1, <2>3
<1>10. ASSUME NEW c \in Callers, Worker!Fail(c) PROVE Goal
  <2> DEFINE R == <<"received", c>>
  <2>1. /\ received' = [received EXCEPT ![c] = <<>>]
        /\ UNCHANGED <<next, queue, current, produced, got>>
    BY <1>10 DEF Worker!Fail
  <2>2. ASSUME NEW r \in DOMAIN k, k[r] # <<>>
        PROVE  r # R /\ r \in DOMAIN h /\ k[r] = h[r]
    <3>1. r # R
      BY <1>1, <2>1, <2>2, WorkerAtNext DEF WorkerMap
    <3>2. ASSUME NEW d \in Callers, r = <<"received", d>> PROVE k[r] = h[r]
      BY <1>1, <2>1, <3>1, <3>2, WorkerAt, WorkerAtNext DEF WorkerMap
    <3> QED
      BY <1>2, <1>3, <2>1, <3>1, <3>2, WorkerAt, WorkerAtNext DEF WorkerMap
  <2> HIDE DEF h, k, R, Goal
  <2>3. OneMoves(h, k, R, R)
    BY <2>2 DEF OneMoves
  <2> QED
    BY <1>5, <2>1, <2>3
<1>11. ASSUME NEW c \in Callers, Worker!Take(c) PROVE Goal
  <2>1. CASE UNCHANGED <<current, got>>
    BY <1>6, <1>11, <2>1 DEF Worker!Take
  <2>2. ASSUME current # <<>>, current' = Front(current),
               got' = [got EXCEPT ![c] = Append(@, Last(current))]
        PROVE  Goal
    <3>1. UNCHANGED <<next, queue, produced, received>>
      BY <1>11 DEF Worker!Take
    <3>2. C \in DOMAIN h /\ h[C] = current /\ k[C] = Front(h[C]) /\ DOMAIN h = DOMAIN k
      BY <1>2, <1>3, <2>2, <3>1, WorkerAt, WorkerAtNext DEF WorkerMap
    <3>3. ASSUME NEW q \in WorkerPlaces, q # C PROVE k[q] = h[q]
      BY <3>1, <3>3, WorkerAt, WorkerAtNext DEF WorkerMap
    <3> HIDE DEF h, k, C
    <3>4. OnlyAt(h, k, C)
      BY <1>2, <3>2, <3>3 DEF OnlyAt
    <3>5. /\ Last(h[C]) \in Nat /\ Last(h[C]) \notin Given
          /\ Stock(k, Given \union {Last(h[C])}, next)
      BY <1>0, <1>1, <2>2, <3>2, <3>4, StockTake
    <3>6. Given' = Given \union {Last(h[C])} /\ Fresh!Next
      BY <1>0, <2>2, <3>2, <3>5, Gives
    <3> QED
      BY <3>1, <3>5, <3>6 DEF k
  <2> QED
    BY <1>11, <2>1, <2>2 DEF Worker!Take, Worker!Front, Worker!Last, Front, Last
<1>12. ASSUME NEW c \in Callers, Worker!Receive(c) PROVE Goal
  <2> DEFINE R == <<"received", c>>
             m == [p \in WorkerPlaces' |->
                     IF p = R THEN <<"queue", 1>>
                     ELSE IF p[1] = "queue" THEN <<"queue", p[2] + 1>> ELSE p]
  <2>1. /\ queue # <<>> /\ queue' = Tail(queue)
        /\ received' = [received EXCEPT ![c] = Head(queue)]
        /\ UNCHANGED <<next, current, produced, got>>
    BY <1>12 DEF Worker!Receive, Worker!DropHead
  <2>2. /\ Len(queue) \in Nat \ {0} /\ Len(queue') = Len(queue) - 1 /\ queue[1] = Head(queue)
        /\ \A i \in 1 .. Len(queue') : i + 1 \in 1 .. Len(queue) /\ queue'[i] = queue[i + 1]
    BY <1>1, <2>1, HeadTailProperties
  <2>3. /\ R \in WorkerPlaces' /\ m[R] = <<"queue", 1>>
        /\ <<"queue", 1>> \in DOMAIN h /\ k[R] = h[<<"queue", 1>>]
    BY <1>1, <1>2, <2>1, <2>2, WorkerAt, WorkerAtNext DEF WorkerMap
  <2>4. ASSUME NEW i \in 1 .. Len(queue'), NEW p \in WorkerPlaces', p = <<"queue", i>>
        PROVE  /\ m[p] = <<"queue", i + 1>> /\ i + 1 \in Nat \ {1}
               /\ m[p] \in DOMAIN h /\ k[p] = h[m[p]]
    <3>1. m[p] = <<"queue", i + 1>>
      BY <2>4
    <3> QED
      BY <1>2, <2>2, <2>4, <3>1, WorkerAt, WorkerAtNext DEF WorkerMap
  <2>5. ASSUME NEW p \in WorkerPlaces', p # R, p[1] # "queue"
        PROVE  m[p] = p /\ p \in DOMAIN h /\ k[p] = h[p]
    <3>1. m[p] = p
      BY <2>5
    <3>2. ASSUME NEW d \in Callers, p = <<"received", d>>
          PROVE  p \in DOMAIN h /\ k[p] = h[p]
      BY <1>1, <1>2, <2>1, <2>5, <3>2, WorkerAt, WorkerAtNext DEF WorkerMap
    <3>3. ASSUME p = C \/ p = P PROVE p \in DOMAIN h /\ k[p] = h[p]
      BY <1>2, <2>1, <3>3, WorkerAt, WorkerAtNext DEF WorkerMap
    <3> QED
      BY <2>5, <3>1, <3>2, <3>3, WorkerAtNext DEF WorkerMap
  <2>6. ASSUME NEW p \in WorkerPlaces', p[1] = "queue"
        PROVE  \E i \in 1 .. Len(queue') : p = <<"queue", i>>
    BY <2>6, WorkerAtNext DEF WorkerMap
  <2>7. \A p \in WorkerPlaces' : m[p] \in DOMAIN h /\ k[p] = h[m[p]]
    <3> SUFFICES ASSUME NEW p \in WorkerPlaces' PROVE m[p] \in DOMAIN h /\ k[p] = h[m[p]]
      OBVIOUS
    <3>1. CASE p = R
      BY <2>3, <3>1
    <3>2. CASE p[1] = "queue"
      BY <2>4, <2>6, <3>2
    <3>3. CASE p # R /\ p[1] # "queue"
      BY <2>5, <3>3
    <3> QED
      BY <3>1, <3>2, <3>3
  <2>8. ASSUME NEW p \in WorkerPlaces', NEW q \in WorkerPlaces', m[p] = m[q]
        PROVE  p = q
    <3>1. CASE p = R
      BY <2>3, <2>4, <2>5, <2>6, <2>8, <3>1
    <3>2. CASE q = R
      BY <2>3, <2>4, <2>5, <2>6, <2>8, <3>2
    <3>3. CASE p # R /\ q # R /\ p[1] = "queue" /\ q[1] = "queue"
      BY <2>4, <2>6, <2>8, <3>3
    <3>4. CASE p # R /\ q # R /\ ~(p[1] = "queue" /\ q[1] = "queue")
      BY <2>4, <2>5, <2>6, <2>8, <3>4
    <3> QED
      BY <3>1, <3>2, <3>3, <3>4
  <2> HIDE DEF h, k, m
  <2>9. Moves(h, k, m)
    BY <1>2, <2>7, <2>8 DEF Moves
  <2>10. Stock(k, Given, next)
    BY <1>0, <1>1, <2>9, StockMoves
  <2> QED
    BY <1>4, <2>1, <2>10 DEF k
<1>13. ASSUME NEW c \in Callers, Worker!Install(c) PROVE Goal
  <2> DEFINE R == <<"received", c>>
  <2>1. /\ current' = received[c] /\ received' = [received EXCEPT ![c] = <<>>]
        /\ UNCHANGED <<next, queue, produced, got>>
    BY <1>13 DEF Worker!Install
  <2>2. ASSUME NEW r \in DOMAIN k, k[r] # <<>>
        PROVE  \/ r # C /\ r # R /\ r \in DOMAIN h /\ k[r] = h[r]
               \/ r = C /\ R \in DOMAIN h /\ k[r] = h[R]
    <3>1. r # R
      BY <1>1, <2>1, <2>2, WorkerAtNext DEF WorkerMap
    <3>2. ASSUME NEW d \in Callers, r = <<"received", d>> PROVE k[r] = h[r] /\ r # C
      BY <1>1, <2>1, <3>1, <3>2, WorkerAt, WorkerAtNext DEF WorkerMap
    <3>3. CASE r = C
      BY <1>2, <2>1, <3>3, WorkerAt, WorkerAtNext DEF WorkerMap
    <3> QED
      BY <1>2, <1>3, <2>1, <3>1, <3>2, <3>3, WorkerAt, WorkerAtNext DEF WorkerMap
  <2> HIDE DEF h, k, C, R, Goal
  <2>3. OneMoves(h, k, C, R)
    BY <2>2 DEF OneMoves
  <2> QED
    BY <1>5, <2>1, <2>3
<1>14. ASSUME Worker!Close PROVE Goal
  <2>1. current' = <<>> /\ UNCHANGED <<next, queue, produced, received, got>>
    BY <1>14 DEF Worker!Close
  <2>2. ASSUME NEW r \in DOMAIN k, k[r] # <<>>
        PROVE  r # C /\ r \in DOMAIN h /\ k[r] = h[r]
    <3>1. r # C
      BY <2>1, <2>2, WorkerAtNext DEF WorkerMap
    <3> QED
      BY <1>2, <1>3, <2>1, <3>1, WorkerAt, WorkerAtNext DEF WorkerMap
  <2> HIDE DEF h, k, C, Goal
  <2>3. OneMoves(h, k, C, C)
    BY <2>2 DEF OneMoves
  <2> QED
    BY <1>5, <2>1, <2>3
<1>15. ASSUME \/ Worker!Cancel \/ Worker!Joined
              \/ \E c \in Callers : Worker!Call(c) \/ Worker!Timeout(c)
       PROVE  UNCHANGED <<queue, current, produced, received, next, got>>
  BY <1>15 DEF Worker!Cancel, Worker!Joined, Worker!Call, Worker!Timeout
<1>16. Goal
  <2> HIDE DEF Goal
  <2> QED
    BY <1>6, <1>7, <1>8, <1>9, <1>10, <1>11, <1>12, <1>13, <1>14, <1>15
    DEF Worker!Next, Worker!Step, Worker!Produce, Worker!Shutdown
<1> QED
  BY <1>0, <1>16 DEF WorkerInv
-----------------------------------------------------------------------------
(* RangeGenerators                                                         *)

\* The rest of each machine's range is its own and below next; a number drawn
\* is used.
RangesInv ==
  /\ Ranges!TypeOK /\ \A x \in Given : x \in Nat
  /\ kind = "naive" => Given \subseteq used
  /\ kind # "naive" => \A x \in Given : x < next
  /\ kind = "range" =>
       /\ \A x \in Given, m \in Machines : x < from[m] \/ x >= end[m]
       /\ \A m, l \in Machines : m # l =>
            \/ from[m] = end[m] \/ from[l] = end[l]
            \/ end[m] <= from[l] \/ end[l] <= from[m]

\* A step returns a number nobody has got, out of the machine's own range or
\* not taken before.
LEMMA RangesInvStep ==
  ASSUME RangesInv, Ranges!Next
  PROVE  RangesInv' /\ (Fresh!Next \/ UNCHANGED got)
<1> USE DemoAssumption, PoolAssumption
<1>0. Ranges!TypeOK /\ GotOK
  BY DEF RangesInv, Ranges!TypeOK, GotOK
<1>1. got' = got => Given' = Given
  BY DEF Given
<1>2. ASSUME NEW c \in Callers, NEW id \in Nat, Ranges!Return(c, id)
      PROVE  /\ got' \in [Callers -> Seq(Nat)] /\ calls' \in [Callers -> Nat]
             /\ Given' = Given \union {id} /\ (id \notin Given => Fresh!Next)
  <2>1. /\ got' = [got EXCEPT ![c] = Append(@, id)]
        /\ calls' = [calls EXCEPT ![c] = @ + 1]
    BY <1>2 DEF Ranges!Return
  <2>2. calls' \in [Callers -> Nat]
    BY <1>0, <2>1 DEF Ranges!TypeOK
  <2> QED
    BY <1>0, <2>1, <2>2, Gives DEF GotOK
<1>3. ASSUME NEW c \in Callers, Ranges!Draw(c) PROVE RangesInv' /\ Fresh!Next
  <2>1. PICK id \in Pool \ used : Ranges!Return(c, id) /\ used' = used \union {id}
    BY <1>3 DEF Ranges!Draw
  <2>2. /\ id \in Nat /\ id \notin Given /\ kind = "naive"
        /\ UNCHANGED <<kind, next, from, end, shut>>
    BY <1>3, <2>1 DEF Ranges!Draw, RangesInv
  <2>3. /\ got' \in [Callers -> Seq(Nat)] /\ calls' \in [Callers -> Nat]
        /\ Given' = Given \union {id} /\ Fresh!Next
    BY <1>2, <2>1, <2>2
  <2>4. Ranges!TypeOK'
    BY <1>0, <2>1, <2>2, <2>3 DEF Ranges!TypeOK
  <2> QED
    BY <2>1, <2>2, <2>3, <2>4 DEF RangesInv
<1>4. ASSUME NEW c \in Callers, Ranges!Count(c) PROVE RangesInv' /\ Fresh!Next
  <2>1. /\ kind = "counter" /\ Ranges!Return(c, next) /\ next' = next + 1
        /\ UNCHANGED <<kind, used, from, end, shut>>
    BY <1>4 DEF Ranges!Count
  <2>2. next \in Nat /\ next \notin Given
    BY <1>0, <2>1 DEF RangesInv, Ranges!TypeOK
  <2>3. /\ got' \in [Callers -> Seq(Nat)] /\ calls' \in [Callers -> Nat]
        /\ Given' = Given \union {next} /\ Fresh!Next
    BY <1>2, <2>1, <2>2
  <2>4. Ranges!TypeOK'
    <3>1. next' \in Nat /\ end' \in [Machines -> 0 .. next']
      BY <1>0, <2>1 DEF Ranges!TypeOK
    <3> QED
      BY <1>0, <2>1, <2>3, <3>1 DEF Ranges!TypeOK
  <2> QED
    BY <2>1, <2>2, <2>3, <2>4 DEF RangesInv
<1>5. ASSUME NEW c \in Callers, Ranges!FromRange(c) PROVE RangesInv' /\ Fresh!Next
  <2> DEFINE m == On[c]
  <2>0. m \in Machines /\ kind = "range" /\ UNCHANGED <<kind, used, shut>> /\ chunk \in Nat \ {0}
    BY <1>5 DEF Ranges!FromRange
  <2>1. CASE Ranges!UsedUp(m)
    <3>1. /\ Ranges!Return(c, next) /\ next' = next + chunk
          /\ from' = [from EXCEPT ![m] = next + 1] /\ end' = [end EXCEPT ![m] = next + chunk]
      BY <1>5, <2>1 DEF Ranges!FromRange
    <3>2. next \in Nat /\ next \notin Given
      BY <1>0, <2>0 DEF RangesInv, Ranges!TypeOK
    <3>3. /\ got' \in [Callers -> Seq(Nat)] /\ calls' \in [Callers -> Nat]
          /\ Given' = Given \union {next} /\ Fresh!Next
      BY <1>2, <3>1, <3>2
    <3>4. Ranges!TypeOK'
      <4>1. /\ next' \in Nat /\ from' \in [Machines -> Nat]
            /\ end' \in [Machines -> 0 .. next']
        BY <1>0, <2>0, <3>1 DEF Ranges!TypeOK
      <4>2. \A l \in Machines : from'[l] <= end'[l]
        BY <1>0, <2>0, <3>1 DEF Ranges!TypeOK
      <4> QED
        BY <1>0, <2>0, <3>3, <4>1, <4>2 DEF Ranges!TypeOK
    <3>5. \A x \in Given : x \in Nat /\ x < next
      BY <2>0 DEF RangesInv
    <3>6. \A l \in Machines : l # m => from'[l] = from[l] /\ end'[l] = end[l] /\ end[l] <= next
      BY <1>0, <3>1 DEF Ranges!TypeOK
    <3>7. from'[m] = next + 1 /\ end'[m] = next + chunk
      BY <1>0, <2>0, <3>1 DEF Ranges!TypeOK
    <3>8. ASSUME NEW x \in Given', NEW l \in Machines PROVE x < from'[l] \/ x >= end'[l]
      <4>1. CASE l = m
        BY <3>2, <3>3, <3>5, <3>7, <4>1
      <4>2. CASE l # m
        BY <2>0, <3>2, <3>3, <3>6, <4>2 DEF RangesInv
      <4> QED
        BY <4>1, <4>2
    <3>9. ASSUME NEW a \in Machines, NEW b \in Machines, a # b
          PROVE  \/ from'[a] = end'[a] \/ from'[b] = end'[b]
                 \/ end'[a] <= from'[b] \/ end'[b] <= from'[a]
      <4>1. CASE a = m
        BY <1>0, <3>2, <3>6, <3>7, <3>9, <4>1 DEF Ranges!TypeOK
      <4>2. CASE b = m
        BY <1>0, <3>2, <3>6, <3>7, <3>9, <4>2 DEF Ranges!TypeOK
      <4>3. CASE a # m /\ b # m
        BY <2>0, <3>6, <3>9, <4>3 DEF RangesInv
      <4> QED
        BY <4>1, <4>2, <4>3
    <3> QED
      BY <2>0, <3>1, <3>2, <3>3, <3>4, <3>5, <3>8, <3>9 DEF RangesInv
  <2>2. CASE ~Ranges!UsedUp(m)
    <3>1. /\ Ranges!Return(c, from[m]) /\ UNCHANGED <<end, next>>
          /\ from' = [from EXCEPT ![m] = @ + 1]
      BY <1>5, <2>2 DEF Ranges!FromRange
    <3>2. from[m] \in Nat /\ end[m] \in Nat /\ from[m] < end[m] /\ end[m] <= next
      BY <1>0, <2>0, <2>2 DEF Ranges!TypeOK, Ranges!UsedUp
    <3>3. from[m] \notin Given /\ next \in Nat
      <4>1. next \in Nat
        BY <1>0 DEF Ranges!TypeOK
      <4>2. \A x \in Given : x < from[m] \/ x >= end[m]
        BY <2>0 DEF RangesInv
      <4> QED
        BY <3>2, <4>1, <4>2
    <3>4. /\ got' \in [Callers -> Seq(Nat)] /\ calls' \in [Callers -> Nat]
          /\ Given' = Given \union {from[m]} /\ Fresh!Next
      BY <1>2, <3>1, <3>2, <3>3
    <3>5. /\ from' \in [Machines -> Nat] /\ from'[m] = from[m] + 1
          /\ \A l \in Machines : l # m => from'[l] = from[l]
      BY <1>0, <2>0, <3>1 DEF Ranges!TypeOK
    <3>6. Ranges!TypeOK'
      <4>1. \A l \in Machines : from'[l] <= end'[l]
        BY <1>0, <2>0, <3>1, <3>2, <3>5 DEF Ranges!TypeOK
      <4> QED
        BY <1>0, <2>0, <3>1, <3>4, <3>5, <4>1 DEF Ranges!TypeOK
    <3>7. ASSUME NEW x \in Given', NEW l \in Machines PROVE x < from'[l] \/ x >= end'[l]
      <4>1. x \in Nat /\ from[l] \in Nat /\ end[l] \in Nat
        BY <1>0, <3>2, <3>4 DEF RangesInv, Ranges!TypeOK
      <4>2. CASE x = from[m]
        BY <1>0, <2>0, <3>1, <3>2, <3>5, <4>1, <4>2 DEF RangesInv
      <4>3. CASE x \in Given
        BY <2>0, <3>1, <3>5, <3>2, <4>1, <4>3 DEF RangesInv
      <4> QED
        BY <3>4, <4>2, <4>3
    <3>8. ASSUME NEW a \in Machines, NEW b \in Machines, a # b
          PROVE  \/ from'[a] = end'[a] \/ from'[b] = end'[b]
                 \/ end'[a] <= from'[b] \/ end'[b] <= from'[a]
      <4>1. /\ \/ from[a] = end[a] \/ from[b] = end[b]
               \/ end[a] <= from[b] \/ end[b] <= from[a]
            /\ {from[a], from[b], end[a], end[b]} \subseteq Nat
        BY <1>0, <2>0, <3>8 DEF RangesInv, Ranges!TypeOK
      <4> QED
        BY <3>1, <3>2, <3>5, <4>1
    <3>9. \A x \in Given' : x \in Nat /\ x < next'
      BY <2>0, <3>1, <3>2, <3>3, <3>4 DEF RangesInv
    <3> QED
      BY <2>0, <3>4, <3>6, <3>7, <3>8, <3>9 DEF RangesInv
  <2> QED
    BY <2>1, <2>2
<1>6. ASSUME NEW c \in Callers, Ranges!Fail(c) PROVE RangesInv' /\ UNCHANGED got
  <2>1. /\ calls' = [calls EXCEPT ![c] = @ + 1]
        /\ UNCHANGED <<kind, next, used, from, end, shut, got>>
    BY <1>6 DEF Ranges!Fail
  <2>2. calls' \in [Callers -> Nat]
    BY <1>0, <2>1 DEF Ranges!TypeOK
  <2> QED
    BY <1>0, <1>1, <2>1, <2>2 DEF RangesInv, Ranges!TypeOK
<1>7. ASSUME NEW m \in Machines, Ranges!Close(m) PROVE RangesInv' /\ UNCHANGED got
  BY <1>0, <1>1, <1>7 DEF Ranges!Close, RangesInv, Ranges!TypeOK
<1> QED
  BY <1>3, <1>4, <1>5, <1>6, <1>7 DEF Ranges!Next
-----------------------------------------------------------------------------
(* Whichever demonstration runs                                            *)

\* The demonstrations run one at a time, and only WorkerGenerator's Close waits.
IInv ==
  /\ demo \in {"single", "double", "worker", "ranges"}
  /\ demo = "single" => SingleInv
  /\ demo = "double" => DoubleInv
  /\ demo = "worker" => WorkerInv
  /\ demo = "ranges" => RangesInv
  /\ demo # "worker" => closer = "none"

\* At the start no id has been given out.
LEMMA NothingGiven ==
  ASSUME got = [c \in Callers |-> <<>>]
  PROVE  Given = {} /\ GotOK
  BY DEF Given, GotOK

\* Nor is one in stock.
LEMMA NothingInStock ==
  ASSUME NEW h, \A p \in DOMAIN h : h[p] = <<>>
  PROVE  Stock(h, {}, 0) /\ Covers(h, {}, 0)
<1>1. <<>> \in Seq(Nat) /\ 1 .. Len(<<>>) = {}
  OBVIOUS
<1>2. \A p \in DOMAIN h : h[p] \in Seq(Nat) /\ 1 .. Len(h[p]) = {}
  BY <1>1
<1> QED
  BY <1>2 DEF Stock, Covers

\* Everything is empty at the start.
LEMMA InitInv == Init => IInv
<1> SUFFICES ASSUME Init PROVE IInv
  OBVIOUS
<1> USE PoolAssumption, DemoAssumption DEF Init
<1>1. /\ Given = {} /\ GotOK /\ next = 0 /\ got = [c \in Callers |-> <<>>]
      /\ faults = 0 /\ faults \in 0 .. MaxFaults /\ closed = FALSE
      /\ calls \in [Callers -> Nat] /\ got \in [Callers -> Seq(Nat)]
      /\ pc = [c \in Callers |-> "idle"]
  BY NothingGiven DEF Single!Init, GotOK
<1>2. SingleInv
  <2>1. fetched = [c \in Callers |-> <<>>] /\ buffer = <<>> /\ refilling = FALSE
    BY DEF Single!Init
  <2>2. \A p \in DOMAIN SingleHeld : SingleHeld[p] = <<>>
    BY <2>1, SingleAt
  <2>3. Stock(SingleHeld, Given, next) /\ Covers(SingleHeld, Given, next)
    BY <1>1, <2>2, NothingInStock
  <2>4. SingleControl
    <3>1. buffer \in Seq(Nat) /\ fetched \in [Callers -> Seq(Nat)]
      BY <2>1
    <3>2. \A c \in Callers : fetched[c] = <<>> /\ pc[c] = "idle"
      BY <1>1, <2>1
    <3>3. pc \in [Callers -> {"idle", "get", "fetch", "store", "waiting"}]
      BY <1>1
    <3> QED
      BY <1>1, <2>1, <3>1, <3>2, <3>3 DEF SingleControl, Single!TypeOK, Single!OneRefills
  <2> QED
    BY <2>3, <2>4 DEF SingleInv
<1>3. DoubleInv
  <2>1. /\ active = <<>> /\ standby = <<>> /\ filled = {} /\ fetching = 0 /\ filling = FALSE
    BY DEF Double!Init
  <2>2. \A p \in DOMAIN DoubleHeld : DoubleHeld[p] = <<>>
    BY <2>1, DoubleAt DEF DoubleMap
  <2>3. Stock(DoubleHeld, Given, next) /\ Covers(DoubleHeld, Given, next)
    BY <1>1, <2>2, NothingInStock
  <2>4. DoubleControl
    <3>1. {active, standby} \subseteq Seq(Nat) /\ filled \subseteq Seq(Nat)
      BY <2>1
    <3>2. pc \in [Callers -> {"idle", "get", "waiting"}]
      BY <1>1
    <3> QED
      BY <1>1, <2>1, <3>1, <3>2 DEF DoubleControl, Double!TypeOK, OneOnItsWay
  <2> QED
    BY <2>3, <2>4 DEF DoubleInv
<1>4. WorkerInv
  <2>1. /\ queue = <<>> /\ current = <<>> /\ cancelled = FALSE /\ producer = "fetch"
        /\ produced = <<>> /\ closer = "none" /\ received = [c \in Callers |-> <<>>]
    BY DEF Worker!Init
  <2>2. \A p \in DOMAIN WorkerHeld : WorkerHeld[p] = <<>>
    <3>1. 1 .. Len(queue) = {}
      BY <2>1
    <3>2. \A c \in Callers : WorkerHeld[<<"received", c>>] = <<>>
      BY <2>1, WorkerAt DEF WorkerMap
    <3>3. WorkerHeld[<<"current", 0>>] = <<>> /\ WorkerHeld[<<"produced", 0>>] = <<>>
      BY <2>1, WorkerAt DEF WorkerMap
    <3> QED
      <4> SUFFICES ASSUME NEW p \in WorkerPlaces PROVE WorkerHeld[p] = <<>>
        BY WorkerAt DEF WorkerMap
      <4>1. CASE \E i \in 1 .. Len(queue) : p = <<"queue", i>>
        BY <3>1, <4>1
      <4>2. CASE \E c \in Callers : p = <<"received", c>>
        BY <3>2, <4>2
      <4> QED
        BY <3>3, <4>1, <4>2, WorkerAt DEF WorkerMap
  <2>3. Stock(WorkerHeld, Given, next)
    BY <1>1, <2>2, NothingInStock
  <2>4. WorkerControl
    <3>1. /\ queue \in Seq(Seq(Nat)) /\ Len(queue) <= queueCapacity
          /\ current \in Seq(Nat) /\ produced \in Seq(Nat)
      BY <2>1
    <3>2. received \in [Callers -> Seq(Nat)]
      BY <2>1
    <3>3. pc \in [Callers -> {"idle", "get", "select", "install"}]
      BY <1>1
    <3> QED
      BY <1>1, <2>1, <3>1, <3>2, <3>3 DEF WorkerControl, Worker!TypeOK
  <2> QED
    BY <2>3, <2>4 DEF WorkerInv
<1>5. RangesInv
  <2>1. /\ kind \in {"naive", "counter", "range"} /\ used = {} /\ shut = {}
        /\ from = [m \in Machines |-> 0] /\ end = [m \in Machines |-> 0]
    BY DEF Ranges!Init
  <2>2. Ranges!TypeOK
    BY <1>1, <2>1 DEF Ranges!TypeOK
  <2> QED
    BY <1>1, <2>1, <2>2 DEF RangesInv
<1> QED
  BY <1>2, <1>3, <1>4, <1>5 DEF IInv, Worker!Init

\* A step is one of the demonstration that runs, and gives an id as FreshIDs
\* would or none.
LEMMA InvStep == IInv /\ [Next]_vars => IInv' /\ [Fresh!Next]_got
<1> SUFFICES ASSUME IInv, [Next]_vars PROVE IInv' /\ (Fresh!Next \/ UNCHANGED got)
  OBVIOUS
<1>1. ASSUME demo = "single", Single!Next, NotSingle
      PROVE  IInv' /\ (Fresh!Next \/ UNCHANGED got)
  BY <1>1, SingleInvStep DEF IInv, NotSingle, workerVars
<1>2. ASSUME demo = "double", Double!Next, NotDouble
      PROVE  IInv' /\ (Fresh!Next \/ UNCHANGED got)
  BY <1>2, DoubleInvStep DEF IInv, NotDouble, workerVars
<1>3. ASSUME demo = "worker", Worker!Next, NotWorker
      PROVE  IInv' /\ (Fresh!Next \/ UNCHANGED got)
  BY <1>3, WorkerInvStep DEF IInv, NotWorker
<1>4. ASSUME demo = "ranges", Ranges!Next, NotRanges
      PROVE  IInv' /\ (Fresh!Next \/ UNCHANGED got)
  BY <1>4, RangesInvStep DEF IInv, NotRanges, workerVars
<1>5. CASE UNCHANGED vars
  <2> USE <1>5 DEF vars, poolVars, singleVars, doubleVars, workerVars, rangeVars
  <2>1. Given' = Given /\ next' = next /\ closed' = closed /\ demo' = demo /\ got' = got
    BY DEF Given
  <2>2. SingleInv' = SingleInv
    BY <2>1 DEF SingleInv, SingleControl, SingleHeld, Single!TypeOK, Single!OneRefills
  <2>3. DoubleInv' = DoubleInv
    BY <2>1 DEF DoubleInv, DoubleControl, DoubleHeld, DoublePlaces, Double!TypeOK, OneOnItsWay
  <2>4. WorkerInv' = WorkerInv
    BY <2>1 DEF WorkerInv, WorkerControl, WorkerHeld, WorkerPlaces, Worker!TypeOK
  <2>5. RangesInv' = RangesInv
    BY <2>1 DEF RangesInv, Ranges!TypeOK
  <2> QED
    BY <2>1, <2>2, <2>3, <2>4, <2>5 DEF IInv
<1> QED
  BY <1>1, <1>2, <1>3, <1>4, <1>5 DEF Next

\* The invariant holds in every reachable state.
LEMMA Invariance == Init /\ [][Next]_vars => []IInv
  BY InitInv, InvStep, PTL

\* The types of all four demonstrations.
THEOREM TypesCorrect == FairSpec => []TypeOK
<1>1. IInv => TypeOK
  BY SingleImplies, DoubleImplies
  DEF IInv, TypeOK, WorkerInv, WorkerControl, RangesInv
<1> QED
  BY <1>1, Invariance, PTL DEF FairSpec

\* Only one goroutine at a time fetches for a buffer, it finds room for what it
\* brings, and no id of the source is skipped while the generator is open.
THEOREM OneFetchesAtATime == FairSpec => []FillsApart
<1>1. IInv => FillsApart
  BY SingleImplies, DoubleImplies DEF IInv, FillsApart
<1> QED
  BY <1>1, Invariance, PTL DEF FairSpec

\* No generator returns an id twice: every step that returns one is a Give of
\* FreshIDs, and every other step stutters.
THEOREM RefinesFreshIDs == FairSpec => ImplementsFreshIDs
<1>1. Init => Fresh!Init
  BY DEF Init, Single!Init, Fresh!Init
<1> QED
  BY <1>1, Invariance, InvStep, PTL DEF FairSpec, ImplementsFreshIDs, Fresh!Spec

\* When WorkerGenerator's Close has returned the producer has gone, and nobody
\* else asks the source.
THEOREM SourceQuietAfterClose == FairSpec => QuietAfterClose
<1>1. IInv /\ [Next]_vars => [closer = "closed" => next' = next]_vars
  <2> SUFFICES ASSUME IInv, Next, closer = "closed" PROVE next' = next
    OBVIOUS
  <2>1. demo = "worker" /\ producer = "gone"
    BY DEF IInv, WorkerInv, WorkerControl
  <2> QED
    BY <2>1 DEF Next, Worker!Next, Worker!Step, Worker!Produce, Worker!Shutdown,
       Worker!Fetch, Worker!Send, Worker!Stop, Worker!Call, Worker!Fail, Worker!Take,
       Worker!Receive, Worker!Timeout, Worker!Install, Worker!Close, Worker!Cancel,
       Worker!Joined
<1> QED
  BY <1>1, Invariance, PTL DEF FairSpec, QuietAfterClose
=============================================================================
